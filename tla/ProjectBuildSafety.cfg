SPECIFICATION Spec
CONSTANTS
  Request = {r1, r2}
  Plan = {p1, p2}
  Pack = {k1}
  Input = {a, b}
  MaxBuild = 2
  MaxRequests = 4
  LedgerMayFail = TRUE
  MayCrash = TRUE
  Nothing = Nothing
SYMMETRY Symmetry
INVARIANTS
  TypeOK
  RowNamesABuild
PROPERTIES
  ImplementsApprovedPlan
  WorkspacesAreKept
  IdentityIsAppendOnly
CHECK_DEADLOCK FALSE
