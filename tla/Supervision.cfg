SPECIFICATION MCSpec
CONSTANTS
  PreviewCall = {p1, p2, p3}
  NoChild = NoChild
  ModelCall = {m1, m2}
  MaxCalls = 2
  MaxTokens = 3
  MaxCost = 4
  OutputPerCall = 1
  InputPrice = 1
  OutputPrice = 2
  MaxReported = 2
  Pipeline <- MCPipeline
  Seeds <- MCSeeds
  Approvals = {1}
  MaxIterations = 5
  MaxNoProgress = 2
  MaxEngines = 3
INVARIANTS SupervisionTypeOK PreviewIsAlive SpendIsAccounted LateCallsAreRefused CompleteIsBacked
PROPERTIES ImplementsStageGate PreviewCallReturns ModelCallIsAnswered RehearsalStops
CHECK_DEADLOCK FALSE
