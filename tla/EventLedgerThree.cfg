SPECIFICATION LedgerSpec
CONSTANTS
  Recorder = {r1, r2, r3}
  Event = {e1, e2, e3}
  Orphan = {}
  MaxCrashes = 1
  None = None
SYMMETRY Symmetry
INVARIANT
  ReadModelEqualsLedger
CHECK_DEADLOCK FALSE
