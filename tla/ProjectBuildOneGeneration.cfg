SPECIFICATION Spec
CONSTANTS
  Request = {r1, r2}
  Plan = {p1}
  Pack = {k1}
  Input = {a, b}
  MaxBuild = 2
  MaxRequests = 4
  LedgerMayFail = FALSE
  MayCrash = FALSE
  Nothing = Nothing
INVARIANT
  OneGenerationAtATime
CHECK_DEADLOCK FALSE
