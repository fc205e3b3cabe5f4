SPECIFICATION FairSpec
CONSTANTS
  Request = {r1, r2}
  Plan = {p1}
  Pack = {k1}
  Input = {a, b}
  MaxBuild = 2
  MaxRequests = 4
  LedgerMayFail = FALSE
  MayCrash = FALSE
  Nothing = Nothing
INVARIANTS
  LockHasHolder
  TasksSettle
PROPERTY
  LockIsReleased
CHECK_DEADLOCK FALSE
