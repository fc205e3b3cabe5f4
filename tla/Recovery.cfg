SPECIFICATION MCSpec
CONSTANTS
  Recorder = {r1, r2}
  Event = {e1, e2, e3, o}
  Orphan = {o}
  MaxCrashes = 2
  None = None
  Canceller = {c1}
INVARIANTS
  RecoveryTypeOK
  RowsComeFromLedger
  RecordedOrder
  ReadModelEqualsLedger
  SandboxIsHeld
  SettledIsStopped
  OneOutcome
PROPERTIES
  EventuallyProjected
  CollectIsAnswered
  ArmedIsBounded
CHECK_DEADLOCK FALSE
