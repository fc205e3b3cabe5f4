SPECIFICATION MCSpec
CONSTANTS
  BrokerCall = {c1, c2}
  Attempt = {a1, a2}
  Grants <- MCGrants
  Approver = {u1, u2}
  Revoker = {u5}
  User = {u3, u4}
  Approval = {ap}
  Nobody = Nobody
  Direction = {d1, d2}
  MaxIteration = 1
  Camera = {k1}
  Promoter = {q1}
  NoSet = NoSet
  MaxSets = 2
  Picture = {x1, x2}
  Licensed = {x1}
  Point = {f1, f2}
  AssetCall = {e1, e2, e3}
  Nowhere = Nowhere
  prod = prod
  lab = lab
  Database = {prod, lab}
  Disposable = lab
  Registry <- MCRegistry
  Environment <- MCEnvironment
  Migration = {m1}
  Scripts <- MCScripts
  Person = {bob, amy}
  Unnamed = Unnamed
  Sheets <- MCSheets
  Absent = Absent
  RecoveryAge = 0
  RehearsalAge = 0
  ApprovalLife = 1
  MaxTime = 1
  MaxSnapshots = 2
  MaxApprovals = 1
INVARIANTS RecordsTypeOK BudgetIsKept OneUsePerApproval WinnerIsJudged NoneIsRejectedUnseen
  ApprovalIsDeclared CropsFollowRecord AllowedWasReviewed AllowedIsRestorable
  VerifiedMeansRestored
PROPERTIES DoneIsRecorded RefusalSaysTheWorst
SYMMETRY MCSymmetry
CHECK_DEADLOCK FALSE
