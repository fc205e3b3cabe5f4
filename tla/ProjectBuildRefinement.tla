----------------------- MODULE ProjectBuildRefinement -----------------------
(***************************************************************************)
(* ProjectBuild implements ApprovedPlan: what an owner froze under a plan  *)
(* is what its one build is made of, whatever runs beside it.              *)
(***************************************************************************)
EXTENDS ProjectBuildProofs

USE BuildAssumption, NothingAssumption
USE DEF contract, ladder, disk, At, HoldsRow, HoldsSlot, HoldsFiles, HoldsEvent,
        GenerateAwait, VerifyAwait, IngestAwait, ApproveAwait, ExecuteAwait

\* The request that claimed a plan, from the claim to the end of the handler.
Executing(r) == req[r].plan # Nothing /\ req[r].pc \notin ApproveAwait

BeforeBuild == {"e.claimed", "e.locked", "g.decided", "g.stopping", "g.started"}
HoldsFrozen == {"g.decided", "g.stopping", "g.started"}

\* What a governed generation would compose from.
Frozen(l) == [pack |-> l.held.pack, input |-> l.frozen]

ClaimedPlans == \A p \in claimed : plans[p] # Nothing
ExecutingClaimed == \A r \in Request : Executing(r) => req[r].plan \in claimed
OneExecution ==
  \A r, q \in Request :
    Executing(r) /\ Executing(q) /\ req[r].plan = req[q].plan => r = q
NotYetBuilt ==
  \A r \in Request : Executing(r) /\ req[r].pc \in BeforeBuild =>
    \A s \in Slot : tree[s] # Nothing => tree[s].plan # req[r].plan
FrozenIsApproved ==
  \A r \in Request : Executing(r) /\ req[r].pc \in HoldsFrozen =>
    Frozen(req[r]) = plans[req[r].plan]
BuiltClaimed ==
  \A s \in Slot : tree[s] # Nothing /\ tree[s].plan # Nothing =>
    tree[s].plan \in claimed

PlanInv == /\ ClaimedPlans /\ ExecutingClaimed /\ OneExecution
           /\ NotYetBuilt /\ FrozenIsApproved /\ BuiltClaimed

\* A request that goes on as l is no execution, or the one it was.
GoesOn(r, l) ==
  \/ l.plan = Nothing
  \/ l.pc \in ApproveAwait
  \/ /\ Executing(r)
     /\ l.plan = req[r].plan
     /\ l.pc \in BeforeBuild => req[r].pc \in BeforeBuild
     /\ l.pc \in HoldsFrozen => Frozen(l) = plans[l.plan]

-----------------------------------------------------------------------------
LEMMA QuietStep ==
  ASSUME TypeInv, PlanInv, UNCHANGED <<plans, claimed, tree>>,
         \A r \in Request : GoesOn(r, req'[r])
  PROVE  PlanInv'
<1>1. ASSUME NEW r \in Request, Executing(r)'
      PROVE  /\ Executing(r) /\ req'[r].plan = req[r].plan
             /\ req'[r].pc \in BeforeBuild => req[r].pc \in BeforeBuild
             /\ req'[r].pc \in HoldsFrozen => Frozen(req'[r]) = plans[req[r].plan]
  BY <1>1 DEF GoesOn, Executing
<1>2. ClaimedPlans' /\ BuiltClaimed'
  BY DEF PlanInv, ClaimedPlans, BuiltClaimed
<1>3. ExecutingClaimed' /\ OneExecution'
  BY <1>1 DEF PlanInv, ExecutingClaimed, OneExecution
<1>4. NotYetBuilt'
  BY <1>1 DEF PlanInv, NotYetBuilt
<1>5. FrozenIsApproved'
  BY <1>1 DEF FrozenIsApproved
<1>6. QED
  BY <1>2, <1>3, <1>4, <1>5 DEF PlanInv

\* A request that stays where it is goes on.
LEMMA StaysOn ==
  ASSUME PlanInv, NEW r \in Request
  PROVE  GoesOn(r, req[r])
BY DEF PlanInv, FrozenIsApproved, GoesOn, Executing

LEMMA OneQuietStep ==
  ASSUME TypeInv, PlanInv, UNCHANGED <<plans, claimed, tree>>,
         NEW r \in Request, NEW l, req' = [req EXCEPT ![r] = l], GoesOn(r, l)
  PROVE  PlanInv'
<1>1. ASSUME NEW q \in Request PROVE GoesOn(q, req'[q])
  BY StaysOn DEF TypeInv, TypeOK
<1>2. QED
  BY <1>1, QuietStep

\* An upsert keeps the pack of the row.
LEMMA UpsertPack ==
  ASSUME TypeInv, NEW row \in Row PROVE Upsert(row).pack = row.pack
BY DEF Upsert, Row, TypeInv, TypeOK

LEMMA QuietReturn ==
  ASSUME TypeInv, PlanInv, UNCHANGED <<plans, claimed, tree>>,
         NEW r \in Request, Return(r)
  PROVE  PlanInv'
BY IdleIsLocal, OneQuietStep DEF Return, GoesOn

\* A request that keeps its plan, and is past the build or never had one.
LEMMA QuietMove ==
  ASSUME TypeInv, PlanInv, UNCHANGED <<plans, claimed, tree>>,
         NEW r \in Request, req[r].pc \notin ApproveAwait,
         NEW l, req' = [req EXCEPT ![r] = l], l.plan = req[r].plan,
         l.pc \in BeforeBuild => req[r].pc \in BeforeBuild,
         l.pc \notin HoldsFrozen
  PROVE  PlanInv'
BY OneQuietStep DEF GoesOn, Executing

-----------------------------------------------------------------------------
\* generateProject.

LEMMA BeginGeneratePlan ==
  ASSUME TypeInv, PlanInv, NEW r \in Request, BeginGenerate(r) PROVE PlanInv'
<1>. DEFINE l == [Idle EXCEPT !.pc = "g.decided"]
<1>1. l.plan = Nothing
  BY IdleIsLocal DEF Local
<1>2. req' = [req EXCEPT ![r] = l]
  BY DEF BeginGenerate, Arrives, Goto, TypeInv, LocalInv
<1>. HIDE DEF l
<1>3. QED
  BY <1>1, <1>2, OneQuietStep DEF BeginGenerate, GoesOn

LEMMA LockForGenerationPlan ==
  ASSUME TypeInv, PlanInv, NEW r \in Request, NEW row \in Row, NEW v,
         req[r].pc \in {"g.decided", "g.stopping"},
         LockForGeneration(r, row, v), UNCHANGED <<plans, claimed, tree>>,
         req[r].plan # Nothing => row = req[r].held
  PROVE  PlanInv'
<1>. DEFINE locked == Upsert([row EXCEPT !.state = "generating"])
            l == [req[r] EXCEPT !.pc = "g.started", !.held = locked,
                                !.slot = v, !.running = TRUE]
<1>1. locked.pack = row.pack
  <2>1. [row EXCEPT !.state = "generating"] \in Row
    BY DEF Row, ProjectState
  <2>2. QED
    BY <2>1, UpsertPack DEF Row
<1>. HIDE DEF locked
<1>2. /\ l.pc = "g.started" /\ l.plan = req[r].plan
      /\ l.held = locked /\ l.frozen = req[r].frozen
  BY DEF TypeInv, TypeOK, Local
<1>3. req' = [req EXCEPT ![r] = l]
  BY DEF LockForGeneration, locked
<1>. HIDE DEF l
<1>4. GoesOn(r, l)
  BY <1>1, <1>2 DEF GoesOn, Executing, BeforeBuild, HoldsFrozen, Frozen,
     PlanInv, FrozenIsApproved
<1>5. QED
  BY <1>3, <1>4, OneQuietStep

LEMMA StartGenerationPlan ==
  ASSUME TypeInv, PlanInv, NEW r \in Request, StartGeneration(r) PROVE PlanInv'
<1>. DEFINE row == ReadProject(r)
<1>1. row \in Row /\ (req[r].plan # Nothing => row = req[r].held)
  BY ReadProjectType DEF StartGeneration, ReadProject
<1>2. PICK v \in NextWorkspace :
        IF v = 1
          THEN LockForGeneration(r, row, v)
          ELSE /\ req' = [req EXCEPT ![r] = [@ EXCEPT !.pc = "g.stopping",
                                       !.held = row, !.slot = v]]
               /\ UNCHANGED <<project, running>>
  BY DEF StartGeneration
<1>. HIDE DEF row
<1>3. CASE v = 1
  BY <1>1, <1>2, <1>3, LockForGenerationPlan DEF StartGeneration
<1>4. CASE v # 1
  <2>. DEFINE l == [req[r] EXCEPT !.pc = "g.stopping", !.held = row, !.slot = v]
  <2>1. /\ l.pc = "g.stopping" /\ l.plan = req[r].plan /\ l.held = row
        /\ l.frozen = req[r].frozen
    BY DEF TypeInv, TypeOK, Local
  <2>2. req' = [req EXCEPT ![r] = l]
    BY <1>2, <1>4
  <2>. HIDE DEF l
  <2>3. GoesOn(r, l)
    BY <1>1, <2>1 DEF StartGeneration, GoesOn, Executing, BeforeBuild,
       HoldsFrozen, Frozen, PlanInv, FrozenIsApproved
  <2>4. QED
    BY <2>2, <2>3, OneQuietStep DEF StartGeneration
<1>5. QED
  BY <1>3, <1>4

LEMMA PreviewStoppedPlan ==
  ASSUME TypeInv, PlanInv, NEW r \in Request, PreviewStopped(r) PROVE PlanInv'
<1>1. req[r].held \in Row
  BY DEF PreviewStopped, TypeInv, TypeOK, LocalInv, Local
<1>2. QED
  BY <1>1, LockForGenerationPlan DEF PreviewStopped

\* The one build of an executing request, or the build of no plan at all.
LEMMA MaterialisePlan ==
  ASSUME TypeInv, PlanInv, NEW r \in Request, req[r].pc = "g.started",
         tree[req[r].slot] = Nothing, Materialise(r),
         UNCHANGED <<plans, claimed>>, NEW l, req' = [req EXCEPT ![r] = l],
         l.plan = req[r].plan, l.pc \in {"g.composed", "g.failed"}
  PROVE  PlanInv'
<1>. DEFINE s == req[r].slot
            t == [plan |-> req[r].plan, pack |-> req[r].held.pack,
                  input |-> ReadInputs(r)]
<1>1. s \in Slot
  BY DEF TypeInv, TypeOK, LocalInv, Local, Slot
<1>2. tree' = [tree EXCEPT ![s] = t] /\ t.plan = req[r].plan
  BY DEF Materialise
<1>. HIDE DEF s, t
<1>3. ASSUME NEW u \in Slot, tree'[u] # Nothing
      PROVE  (u = s /\ tree'[u].plan = req[r].plan) \/ tree'[u] = tree[u]
  BY <1>1, <1>2 DEF TypeInv, TypeOK
<1>4. /\ req'[r] = l /\ \A q \in Request \ {r} : req'[q] = req[q]
  BY DEF TypeInv, TypeOK
<1>5. ASSUME NEW q \in Request, Executing(q)'
      PROVE  Executing(q) /\ req'[q].plan = req[q].plan
  BY <1>4, <1>5 DEF Executing
<1>6. ClaimedPlans' /\ ExecutingClaimed' /\ OneExecution'
  BY <1>5 DEF PlanInv, ClaimedPlans, ExecutingClaimed, OneExecution
<1>7. BuiltClaimed'
  BY <1>3 DEF PlanInv, BuiltClaimed, ExecutingClaimed, Executing
<1>8. NotYetBuilt'
  <2>1. SUFFICES ASSUME NEW q \in Request, Executing(q)', req'[q].pc \in BeforeBuild,
                        NEW u \in Slot, tree'[u] # Nothing
                 PROVE  tree'[u].plan # req'[q].plan
    BY DEF NotYetBuilt
  <2>2. q # r
    BY <1>4, <2>1 DEF BeforeBuild
  <2>3. CASE tree'[u] = tree[u]
    BY <1>4, <1>5, <2>1, <2>2, <2>3 DEF PlanInv, NotYetBuilt
  <2>4. CASE tree'[u].plan = req[r].plan
    BY <1>4, <1>5, <2>1, <2>2, <2>4 DEF PlanInv, OneExecution, Executing
  <2>5. QED
    BY <1>3, <2>1, <2>3, <2>4
<1>9. FrozenIsApproved'
  BY <1>4, <1>5 DEF PlanInv, FrozenIsApproved, HoldsFrozen
<1>10. QED
  BY <1>6, <1>7, <1>8, <1>9 DEF PlanInv

LEMMA ComposePlan ==
  ASSUME TypeInv, PlanInv, NEW r \in Request, Compose(r) PROVE PlanInv'
<1>. DEFINE l == [req[r] EXCEPT !.pc = "g.composed"]
<1>1. l.pc = "g.composed" /\ l.plan = req[r].plan
  BY DEF TypeInv, TypeOK, Local
<1>2. req' = [req EXCEPT ![r] = l]
  BY DEF Compose, Goto
<1>. HIDE DEF l
<1>3. QED
  BY <1>1, <1>2, MaterialisePlan DEF Compose

LEMMA GenerateCatchPlan ==
  ASSUME TypeInv, NEW r \in Request, GenerateCatch(r)
  PROVE  \E l : /\ req' = [req EXCEPT ![r] = l]
                /\ l.pc = "g.failed" /\ l.plan = req[r].plan
<1>. DEFINE l == [req[r] EXCEPT !.pc = "g.failed", !.running = FALSE,
                                !.pending = Nothing]
<1>1. l.pc = "g.failed" /\ l.plan = req[r].plan
  BY DEF TypeInv, TypeOK, Local
<1>2. req' = [req EXCEPT ![r] = l]
  BY DEF GenerateCatch
<1>. HIDE DEF l
<1>3. QED
  BY <1>1, <1>2

LEMMA GenerationFailsPlan ==
  ASSUME TypeInv, PlanInv, NEW r \in Request,
         ComposeFails(r) \/ GenerationFails(r)
  PROVE  PlanInv'
<1>1. PICK l : /\ req' = [req EXCEPT ![r] = l]
               /\ l.pc = "g.failed" /\ l.plan = req[r].plan
  BY GenerateCatchPlan DEF ComposeFails, GenerationFails
<1>2. req[r].pc \notin ApproveAwait /\ UNCHANGED <<plans, claimed>>
  BY DEF ComposeFails, GenerationFails
<1>3. CASE UNCHANGED tree
  BY <1>1, <1>2, <1>3, QuietMove DEF BeforeBuild, HoldsFrozen
<1>4. CASE ComposeFails(r) /\ tree[req[r].slot] = Nothing /\ Materialise(r)
  BY <1>1, <1>2, <1>4, MaterialisePlan DEF ComposeFails
<1>5. QED
  BY <1>3, <1>4 DEF ComposeFails, GenerationFails

LEMMA FinishGenerationPlan ==
  ASSUME TypeInv, PlanInv, NEW r \in Request, FinishGeneration(r) PROVE PlanInv'
<1>1. ASSUME NEW await \in {"g.advancing", "g.succeeded", "g.failed"}, NEW row, NEW e,
             req' = [req EXCEPT ![r] = [@ EXCEPT !.pc = await, !.held = row,
                                          !.running = FALSE, !.pending = e]]
      PROVE  PlanInv'
  <2>. DEFINE l == [req[r] EXCEPT !.pc = await, !.held = row,
                                  !.running = FALSE, !.pending = e]
  <2>1. l.pc = await /\ l.plan = req[r].plan
    BY DEF TypeInv, TypeOK, Local
  <2>2. req' = [req EXCEPT ![r] = l]
    BY <1>1
  <2>. HIDE DEF l
  <2>3. UNCHANGED <<plans, claimed, tree>> /\ req[r].pc = "g.composed"
    BY DEF FinishGeneration
  <2>4. QED
    BY <2>1, <2>2, <2>3, QuietMove DEF BeforeBuild, HoldsFrozen
<1>2. QED
  BY <1>1 DEF FinishGeneration

LEMMA RevisionMaterializedPlan ==
  ASSUME TypeInv, PlanInv, NEW r \in Request, RevisionMaterialized(r)
  PROVE  PlanInv'
<1>. DEFINE l == [req[r] EXCEPT !.pc = "g.succeeded", !.pending = Nothing]
<1>1. l.pc = "g.succeeded" /\ l.plan = req[r].plan
  BY DEF TypeInv, TypeOK, Local
<1>2. req' = [req EXCEPT ![r] = l]
  BY DEF RevisionMaterialized
<1>. HIDE DEF l
<1>3. QED
  BY <1>1, <1>2, QuietMove DEF RevisionMaterialized, BeforeBuild, HoldsFrozen

LEMMA GenerationSucceededPlan ==
  ASSUME TypeInv, PlanInv, NEW r \in Request, GenerationSucceeded(r)
  PROVE  PlanInv'
<1>. DEFINE l == [req[r] EXCEPT !.pc = "e.executed"]
<1>1. l.pc = "e.executed" /\ l.plan = req[r].plan
  BY DEF TypeInv, TypeOK, Local
<1>2. Return(r) \/ req' = [req EXCEPT ![r] = l]
  BY DEF GenerationSucceeded, Goto
<1>. HIDE DEF l
<1>3. QED
  BY <1>1, <1>2, QuietMove, QuietReturn DEF GenerationSucceeded, BeforeBuild,
     HoldsFrozen

\* Every handler that ends, or throws, leaves its plan behind.
LEMMA EndsPlan ==
  ASSUME TypeInv, PlanInv, NEW r \in Request,
         \/ RefuseGeneration(r) \/ GenerationThrows(r) \/ VerificationFails(r)
         \/ RevisionBuildable(r) \/ VerificationThrows(r) \/ EndIngestion(r)
         \/ IngestionThrows(r) \/ RefuseMint(r) \/ RevisionOpened(r)
         \/ ApprovalThrows(r) \/ RefuseLock(r) \/ RejectExecution(r)
         \/ EndExecution(r) \/ RecoverAppend(r)
  PROVE  PlanInv'
<1>1. Return(r)
  BY DEF RefuseGeneration, GenerationThrows, VerificationFails, Throw,
     RevisionBuildable, VerificationThrows, EndIngestion, IngestionThrows,
     RefuseMint, RevisionOpened, ApprovalThrows, RefuseLock, RejectExecution,
     EndExecution, RecoverAppend
<1>2. UNCHANGED <<plans, claimed, tree>>
  BY DEF RefuseGeneration, GenerationThrows, VerificationFails,
     RevisionBuildable, VerificationThrows, EndIngestion, IngestionThrows,
     RefuseMint, RevisionOpened, ApprovalThrows, RefuseLock, RejectExecution,
     EndExecution, RecoverAppend
<1>3. QED
  BY <1>1, <1>2, QuietReturn

-----------------------------------------------------------------------------
\* verifyProject, ingestSources and the edits never meet a plan.

LEMMA VerifyPlan ==
  ASSUME TypeInv, PlanInv, NEW r \in Request,
         StartVerification(r) \/ HashSource(r) \/ BuildWorkspace(r)
  PROVE  PlanInv'
<1>1. UNCHANGED <<plans, claimed, tree>> /\ req[r].pc \notin ApproveAwait
  BY DEF StartVerification, HashSource, BuildWorkspace, Arrives
<1>2. ASSUME NEW l, req' = [req EXCEPT ![r] = l], l.plan = req[r].plan,
             l.pc \in {"v.started", "v.locked", "v.built"}
      PROVE  PlanInv'
  BY <1>1, <1>2, QuietMove DEF BeforeBuild, HoldsFrozen
<1>3. CASE StartVerification(r)
  <2>. DEFINE l == [req[r] EXCEPT !.pc = "v.started", !.held = project,
                      !.slot = project.workspace, !.running = TRUE]
  <2>1. l.pc = "v.started" /\ l.plan = req[r].plan
    BY DEF TypeInv, TypeOK, Local
  <2>2. req' = [req EXCEPT ![r] = l]
    BY <1>3 DEF StartVerification
  <2>. HIDE DEF l
  <2>3. QED
    BY <1>2, <2>1, <2>2
<1>4. CASE HashSource(r)
  <2>. DEFINE l == [req[r] EXCEPT !.pc = "v.locked",
                                  !.source = files[req[r].slot].source]
  <2>1. l.pc = "v.locked" /\ l.plan = req[r].plan
    BY DEF TypeInv, TypeOK, Local
  <2>2. req' = [req EXCEPT ![r] = l]
    BY <1>4 DEF HashSource
  <2>. HIDE DEF l
  <2>3. QED
    BY <1>2, <2>1, <2>2
<1>5. CASE BuildWorkspace(r)
  <2>. DEFINE l == [req[r] EXCEPT !.pc = "v.built"]
  <2>1. l.pc = "v.built" /\ l.plan = req[r].plan
    BY DEF TypeInv, TypeOK, Local
  <2>2. req' = [req EXCEPT ![r] = l]
    BY <1>5 DEF BuildWorkspace, Goto
  <2>. HIDE DEF l
  <2>3. QED
    BY <1>2, <2>1, <2>2
<1>6. QED
  BY <1>3, <1>4, <1>5

LEMMA RecordIdentityPlan ==
  ASSUME TypeInv, PlanInv, NEW r \in Request, RecordIdentity(r) PROVE PlanInv'
<1>1. UNCHANGED <<plans, claimed, tree>> /\ req[r].pc = "v.built"
  BY DEF RecordIdentity
<1>2. CASE Return(r)
  BY <1>1, <1>2, QuietReturn
<1>3. ASSUME NEW row, NEW e,
             req' = [req EXCEPT ![r] = [@ EXCEPT !.pc = "v.advancing",
                       !.held = row, !.running = FALSE, !.pending = e]]
      PROVE  PlanInv'
  <2>. DEFINE l == [req[r] EXCEPT !.pc = "v.advancing", !.held = row,
                                  !.running = FALSE, !.pending = e]
  <2>1. l.pc = "v.advancing" /\ l.plan = req[r].plan
    BY DEF TypeInv, TypeOK, Local
  <2>2. req' = [req EXCEPT ![r] = l]
    BY <1>3
  <2>. HIDE DEF l
  <2>3. QED
    BY <1>1, <2>1, <2>2, QuietMove DEF BeforeBuild, HoldsFrozen
<1>4. QED
  BY <1>2, <1>3 DEF RecordIdentity

LEMMA IngestPlan ==
  ASSUME TypeInv, PlanInv, NEW r \in Request, StartIngestion(r) \/ AttachPack(r)
  PROVE  PlanInv'
<1>1. UNCHANGED <<plans, claimed, tree>> /\ req[r].pc \notin ApproveAwait
  BY DEF StartIngestion, AttachPack, Arrives
<1>2. CASE StartIngestion(r)
  <2>. DEFINE l == [req[r] EXCEPT !.pc = "i.ingesting", !.held = project,
                                  !.running = TRUE]
  <2>1. l.pc = "i.ingesting" /\ l.plan = req[r].plan
    BY DEF TypeInv, TypeOK, Local
  <2>2. req' = [req EXCEPT ![r] = l]
    BY <1>2 DEF StartIngestion
  <2>. HIDE DEF l
  <2>3. QED
    BY <1>1, <2>1, <2>2, QuietMove DEF BeforeBuild, HoldsFrozen
<1>3. CASE AttachPack(r)
  <2>. DEFINE l == [req[r] EXCEPT !.pc = "i.applied"]
  <2>1. l.pc = "i.applied" /\ l.plan = req[r].plan
    BY DEF TypeInv, TypeOK, Local
  <2>2. req' = [req EXCEPT ![r] = l]
    BY <1>3 DEF AttachPack, Goto
  <2>. HIDE DEF l
  <2>3. QED
    BY <1>1, <2>1, <2>2, QuietMove DEF BeforeBuild, HoldsFrozen
<1>4. QED
  BY <1>2, <1>3

\* No request moves at all.
LEMMA NoneMovesPlan ==
  ASSUME TypeInv, PlanInv, UNCHANGED <<plans, claimed, tree, req>> PROVE PlanInv'
BY StaysOn, QuietStep

LEMMA CrashPlan ==
  ASSUME TypeInv, PlanInv, Crash PROVE PlanInv'
<1>1. ASSUME NEW r \in Request PROVE req'[r].plan = Nothing
  BY IdleIsLocal DEF Crash, Local
<1>2. QED
  BY <1>1, QuietStep DEF Crash, GoesOn

-----------------------------------------------------------------------------
\* approveProjectBuildPlan and executeApprovedProjectBuildPlan.

LEMMA BeginApprovePlan ==
  ASSUME TypeInv, PlanInv, NEW r \in Request, BeginApprove(r) PROVE PlanInv'
<1>1. PICK p \in Plan :
        req' = [req EXCEPT ![r] = [@ EXCEPT !.pc = "a.decided", !.plan = p]]
  BY DEF BeginApprove
<1>. DEFINE l == [req[r] EXCEPT !.pc = "a.decided", !.plan = p]
<1>2. l.pc = "a.decided"
  BY DEF TypeInv, TypeOK, Local
<1>3. req' = [req EXCEPT ![r] = l]
  BY <1>1
<1>. HIDE DEF l
<1>4. QED
  BY <1>2, <1>3, OneQuietStep DEF BeginApprove, GoesOn

LEMMA MintPlanPlan ==
  ASSUME TypeInv, PlanInv, NEW r \in Request, MintPlan(r) PROVE PlanInv'
<1>. DEFINE p == req[r].plan
            l == [req[r] EXCEPT !.pc = "a.opening",
                    !.pending = [to |-> "contract-approved", plan |-> p,
                                 bytes |-> Nothing]]
<1>1. l.pc = "a.opening" /\ l.plan = p
  BY DEF TypeInv, TypeOK, Local
<1>2. /\ req' = [req EXCEPT ![r] = l]
      /\ plans' = [plans EXCEPT ![p] = CurrentSnapshot]
      /\ UNCHANGED <<claimed, tree>> /\ plans[p] = Nothing
      /\ req[r].pc = "a.decided"
  BY DEF MintPlan
<1>. HIDE DEF p, l
<1>3. /\ req'[r] = l /\ \A q \in Request \ {r} : req'[q] = req[q]
  BY <1>2 DEF TypeInv, TypeOK
<1>4. \A q \in claimed : plans[q] # Nothing /\ plans'[q] = plans[q]
  BY <1>2 DEF PlanInv, ClaimedPlans, TypeInv, TypeOK
<1>5. ASSUME NEW q \in Request, Executing(q)'
      PROVE  Executing(q) /\ req'[q] = req[q]
  BY <1>1, <1>3, <1>5 DEF Executing
<1>6. ClaimedPlans' /\ BuiltClaimed'
  BY <1>2, <1>4 DEF PlanInv, ClaimedPlans, BuiltClaimed
<1>7. ExecutingClaimed' /\ OneExecution' /\ NotYetBuilt'
  BY <1>2, <1>5 DEF PlanInv, ExecutingClaimed, OneExecution, NotYetBuilt
<1>8. FrozenIsApproved'
  BY <1>4, <1>5 DEF PlanInv, FrozenIsApproved, ExecutingClaimed
<1>9. QED
  BY <1>6, <1>7, <1>8 DEF PlanInv

LEMMA ClaimPlanPlan ==
  ASSUME TypeInv, PlanInv, NEW r \in Request, ClaimPlan(r) PROVE PlanInv'
<1>1. PICK p \in Plan \ claimed :
        /\ plans[p] = CurrentSnapshot
        /\ claimed' = claimed \cup {p}
        /\ req' = [req EXCEPT ![r] = [@ EXCEPT !.pc = "e.claimed", !.plan = p]]
  BY DEF ClaimPlan
<1>. DEFINE l == [req[r] EXCEPT !.pc = "e.claimed", !.plan = p]
<1>2. l.pc = "e.claimed" /\ l.plan = p
  BY DEF TypeInv, TypeOK, Local
<1>3. req' = [req EXCEPT ![r] = l] /\ UNCHANGED <<plans, tree>>
  BY <1>1 DEF ClaimPlan
<1>. HIDE DEF l
<1>4. /\ req'[r] = l /\ \A q \in Request \ {r} : req'[q] = req[q]
  BY <1>3 DEF TypeInv, TypeOK
<1>5. plans[p] # Nothing
  <2>1. CurrentSnapshot \in Snapshot
    BY DEF CurrentSnapshot, Snapshot, TypeInv, TypeOK, Row
  <2>2. QED
    BY <1>1, <2>1
<1>6. ASSUME NEW q \in Request, Executing(q)', q # r
      PROVE  Executing(q) /\ req'[q] = req[q] /\ req[q].plan \in claimed
  BY <1>4, <1>6 DEF Executing, PlanInv, ExecutingClaimed
<1>7. ClaimedPlans' /\ BuiltClaimed'
  BY <1>1, <1>3, <1>5 DEF PlanInv, ClaimedPlans, BuiltClaimed
<1>8. ExecutingClaimed' /\ OneExecution'
  BY <1>1, <1>2, <1>4, <1>6 DEF PlanInv, ExecutingClaimed, OneExecution
<1>9. NotYetBuilt'
  <2>1. SUFFICES ASSUME NEW q \in Request, Executing(q)', req'[q].pc \in BeforeBuild,
                        NEW s \in Slot, tree'[s] # Nothing
                 PROVE  tree'[s].plan # req'[q].plan
    BY DEF NotYetBuilt
  <2>2. CASE q = r
    BY <1>1, <1>2, <1>3, <1>4, <2>1, <2>2, BuildAssumption
       DEF PlanInv, BuiltClaimed, BuildAssumption
  <2>3. CASE q # r
    BY <1>3, <1>6, <2>1, <2>3 DEF PlanInv, NotYetBuilt
  <2>4. QED
    BY <2>2, <2>3
<1>10. FrozenIsApproved'
  BY <1>2, <1>3, <1>4, <1>6 DEF PlanInv, FrozenIsApproved, HoldsFrozen
<1>11. QED
  BY <1>7, <1>8, <1>9, <1>10 DEF PlanInv

LEMMA LockProjectPlan ==
  ASSUME TypeInv, PlanInv, NEW r \in Request, LockProject(r) PROVE PlanInv'
<1>. DEFINE l == [req[r] EXCEPT !.pc = "e.locked", !.original = project]
<1>1. l.pc = "e.locked" /\ l.plan = req[r].plan
  BY DEF TypeInv, TypeOK, Local
<1>2. req' = [req EXCEPT ![r] = l]
  BY DEF LockProject
<1>. HIDE DEF l
<1>3. QED
  BY <1>1, <1>2, QuietMove DEF LockProject, BeforeBuild, HoldsFrozen

\* What is frozen after the claim is what was approved before it.
LEMMA FreezeInputsPlan ==
  ASSUME TypeInv, PlanInv, NEW r \in Request, FreezeInputs(r) PROVE PlanInv'
<1>. DEFINE frozen == [project EXCEPT !.state = req[r].original.state,
                                      !.workspace = req[r].original.workspace]
            l == [req[r] EXCEPT !.pc = "g.decided", !.frozen = inputs,
                                !.held = frozen]
<1>1. frozen.pack = project.pack
  BY DEF TypeInv, TypeOK, Row
<1>. HIDE DEF frozen
<1>2. /\ l.pc = "g.decided" /\ l.plan = req[r].plan /\ l.frozen = inputs
      /\ l.held = frozen
  BY DEF TypeInv, TypeOK, Local
<1>3. req' = [req EXCEPT ![r] = l]
  BY DEF FreezeInputs, frozen
<1>. HIDE DEF l
<1>4. GoesOn(r, l)
  BY <1>1, <1>2 DEF FreezeInputs, CurrentSnapshot, Frozen, GoesOn, Executing,
     BeforeBuild, TypeInv, LocalInv
<1>5. QED
  BY <1>3, <1>4, OneQuietStep DEF FreezeInputs

-----------------------------------------------------------------------------
LEMMA InitPlan == Init => PlanInv
BY IdleIsLocal DEF Init, PlanInv, ClaimedPlans, ExecutingClaimed, OneExecution,
   NotYetBuilt, FrozenIsApproved, BuiltClaimed, Executing

LEMMA NextPlan == TypeInv /\ PlanInv /\ [Next]_vars => PlanInv'
<1>. SUFFICES ASSUME TypeInv, PlanInv, [Next]_vars PROVE PlanInv'
  OBVIOUS
<1>1. ASSUME NEW r \in Request, Generate(r) PROVE PlanInv'
  BY <1>1, BeginGeneratePlan, StartGenerationPlan, PreviewStoppedPlan,
     ComposePlan, GenerationFailsPlan, FinishGenerationPlan,
     RevisionMaterializedPlan, GenerationSucceededPlan, EndsPlan DEF Generate
<1>2. ASSUME NEW r \in Request, Verify(r) PROVE PlanInv'
  BY <1>2, VerifyPlan, RecordIdentityPlan, EndsPlan DEF Verify
<1>3. ASSUME NEW r \in Request, Ingest(r) PROVE PlanInv'
  BY <1>3, IngestPlan, EndsPlan DEF Ingest
<1>4. ASSUME NEW r \in Request, Edit(r) PROVE PlanInv'
  BY <1>4, NoneMovesPlan DEF Edit, SaveOverrides, WriteAssetDecisions
<1>5. ASSUME NEW r \in Request, Approve(r) PROVE PlanInv'
  BY <1>5, BeginApprovePlan, MintPlanPlan, EndsPlan DEF Approve
<1>6. ASSUME NEW r \in Request, Execute(r) PROVE PlanInv'
  BY <1>6, ClaimPlanPlan, LockProjectPlan, FreezeInputsPlan, EndsPlan
     DEF Execute
<1>7. ASSUME NEW r \in Request, RecoverAppend(r) PROVE PlanInv'
  BY <1>7, EndsPlan
<1>8. CASE Restart \/ UNCHANGED vars
  BY <1>8, NoneMovesPlan DEF Restart, vars
<1>9. QED
  BY <1>1, <1>2, <1>3, <1>4, <1>5, <1>6, <1>7, <1>8, CrashPlan DEF Next

-----------------------------------------------------------------------------
\* The steps of ProjectBuild are steps of ApprovedPlan, or none of its.

LEMMA InitMaps == Init => Contract!Init
BY DEF Init, Contract!Init

LEMMA MintMaps ==
  ASSUME TypeInv, NEW r \in Request, MintPlan(r) PROVE Contract!Next
<1>. DEFINE p == req[r].plan
<1>1. p \in Plan /\ CurrentSnapshot \in Snapshot
  <2>1. req[r] \in Local /\ LocalInv(req[r]) /\ req[r].pc = "a.decided"
    BY DEF MintPlan, TypeInv, TypeOK
  <2>2. p \in Plan
    BY <2>1 DEF LocalInv, Local
  <2>3. QED
    BY <2>2 DEF CurrentSnapshot, Snapshot, TypeInv, TypeOK, Row
<1>2. Contract!Approve(p, CurrentSnapshot)
  BY DEF MintPlan, Contract!Approve, Built
<1>3. QED
  BY <1>1, <1>2 DEF Contract!Next

LEMMA ClaimMaps ==
  ASSUME TypeInv, NEW r \in Request, ClaimPlan(r) PROVE Contract!Next
<1>1. PICK p \in Plan \ claimed :
        plans[p] = CurrentSnapshot /\ claimed' = claimed \cup {p}
  BY DEF ClaimPlan
<1>2. CurrentSnapshot # Nothing
  BY DEF CurrentSnapshot, Snapshot, TypeInv, TypeOK, Row
<1>3. Contract!Spend(p)
  BY <1>1, <1>2 DEF ClaimPlan, Contract!Spend, Built
<1>4. QED
  BY <1>3 DEF Contract!Next

LEMMA MaterialiseMaps ==
  ASSUME TypeInv, PlanInv, NEW r \in Request, req[r].pc = "g.started",
         tree[req[r].slot] = Nothing, Materialise(r),
         UNCHANGED <<plans, claimed>>
  PROVE  Contract!Next \/ UNCHANGED Contract!vars
<1>1. /\ req[r] \in Local /\ req[r].slot \in Slot /\ req[r].held \in Row
      /\ ReadInputs(r) \in Input
  <2>1. req[r] \in Local /\ LocalInv(req[r])
    BY DEF TypeInv, TypeOK
  <2>2. QED
    BY <2>1 DEF LocalInv, Local, Slot, ReadInputs, TypeInv, TypeOK
<1>2. PICK s \in Slot, p \in Plan \cup {Nothing}, t \in Tree :
        /\ s = req[r].slot /\ p = req[r].plan
        /\ t = [plan |-> p, pack |-> req[r].held.pack, input |-> ReadInputs(r)]
  <2>1. /\ req[r].plan \in Plan \cup {Nothing}
        /\ req[r].held.pack \in Pack \cup {Nothing}
    BY <1>1 DEF Local, Row
  <2>2. [plan |-> req[r].plan, pack |-> req[r].held.pack,
         input |-> ReadInputs(r)] \in Tree
    BY <1>1, <2>1 DEF Tree
  <2>3. QED
    BY <1>1, <2>1, <2>2
<1>. DEFINE Under == {u \in Slot : tree[u] # Nothing /\ tree[u].plan # Nothing}
            built == {Built(u) : u \in Under}
<1>3. /\ tree' = [tree EXCEPT ![s] = t] /\ tree[s] = Nothing
      /\ tree'[s] = t /\ \A u \in Slot \ {s} : tree'[u] = tree[u]
      /\ t # Nothing /\ t.plan = p
  BY <1>2 DEF Materialise, TypeInv, TypeOK
<1>4. s \notin Under
  BY <1>3
<1>5. CASE p = Nothing
  <2>1. Under' = Under
    BY <1>3, <1>5
  <2>2. \A u \in Under : Built(u)' = Built(u)
    BY <1>3, <1>4 DEF Built
  <2>3. built' = built
    BY <2>1, <2>2
  <2>4. QED
    BY <2>3 DEF Contract!vars
<1>6. CASE p # Nothing
  <2>1. Executing(r) /\ p \in claimed /\ p \in Plan
    BY <1>2, <1>6 DEF Executing, PlanInv, ExecutingClaimed
  <2>2. Under' = Under \cup {s}
    BY <1>3, <1>6
  <2>3. \A u \in Under : Built(u)' = Built(u)
    BY <1>3, <1>4 DEF Built
  <2>4. Built(s)' = [plan |-> p, slot |-> s, inputs |-> plans[p]]
    <3>1. Frozen(req[r]) = plans[p]
      BY <1>2, <2>1 DEF PlanInv, FrozenIsApproved, HoldsFrozen
    <3>2. [pack |-> t.pack, input |-> t.input] = plans[p]
      BY <1>2, <1>6, <3>1 DEF Frozen, ReadInputs
    <3>3. QED
      BY <1>3, <3>2 DEF Built
  <2>5. built' = built \cup {[plan |-> p, slot |-> s, inputs |-> plans[p]]}
    BY <2>2, <2>3, <2>4
  <2>6. \A b \in built : b.plan # p /\ b.slot # s
    BY <1>2, <1>4, <2>1 DEF Built, PlanInv, NotYetBuilt, BeforeBuild
  <2>7. Contract!BuildUnder(p, s)
    BY <2>1, <2>5, <2>6 DEF Contract!BuildUnder
  <2>8. QED
    BY <2>1, <2>7 DEF Contract!Next
<1>7. QED
  BY <1>5, <1>6

LEMMA NextMaps ==
  TypeInv /\ PlanInv /\ [Next]_vars => [Contract!Next]_(Contract!vars)
<1>. SUFFICES ASSUME TypeInv, PlanInv, [Next]_vars
              PROVE  Contract!Next \/ UNCHANGED Contract!vars
  OBVIOUS
<1>1. CASE UNCHANGED <<plans, claimed, tree>>
  BY <1>1 DEF Contract!vars, Built
<1>2. CASE \E r \in Request : MintPlan(r) \/ ClaimPlan(r)
  BY <1>2, MintMaps, ClaimMaps
<1>3. CASE \E r \in Request : Compose(r)
  BY <1>3, MaterialiseMaps DEF Compose
<1>4. CASE \E r \in Request : /\ ComposeFails(r)
                              /\ tree[req[r].slot] = Nothing /\ Materialise(r)
  BY <1>4, MaterialiseMaps DEF ComposeFails
<1>5. QED
  <2>1. ASSUME NEW r \in Request, Generate(r)
        PROVE  \/ UNCHANGED <<plans, claimed, tree>> \/ Compose(r)
               \/ /\ ComposeFails(r)
                  /\ tree[req[r].slot] = Nothing /\ Materialise(r)
    BY <2>1 DEF Generate, BeginGenerate, StartGeneration, RefuseGeneration,
       PreviewStopped, ComposeFails, GenerationFails, FinishGeneration,
       RevisionMaterialized, GenerationSucceeded, GenerationThrows
  <2>2. ASSUME NEW r \in Request, Verify(r) \/ Ingest(r) \/ Edit(r)
        PROVE  UNCHANGED <<plans, claimed, tree>>
    BY <2>2 DEF Verify, StartVerification, HashSource, BuildWorkspace,
       VerificationFails, RecordIdentity, RevisionBuildable,
       VerificationThrows, Ingest, StartIngestion, AttachPack, EndIngestion,
       IngestionThrows, Edit, SaveOverrides, WriteAssetDecisions
  <2>3. ASSUME NEW r \in Request, Approve(r) \/ Execute(r)
        PROVE  \/ UNCHANGED <<plans, claimed, tree>>
               \/ MintPlan(r) \/ ClaimPlan(r)
    BY <2>3 DEF Approve, BeginApprove, RefuseMint, RevisionOpened,
       ApprovalThrows, Execute, LockProject, RefuseLock, FreezeInputs,
       RejectExecution, EndExecution
  <2>4. QED
    BY <1>1, <1>2, <1>3, <1>4, <2>1, <2>2, <2>3 DEF Next, RecoverAppend,
       Crash, Restart, vars

\* Whatever else runs on the project, crashes or fails: a plan is spent at most
\* once, only a spent plan builds, and it builds one tree, in a workspace of its
\* own, from exactly the inputs its owner froze
\* (executeApprovedProjectBuildPlan, claimApprovedBuildPlanExecution).
THEOREM PlanRefinement == Spec => ImplementsApprovedPlan
<1>1. Init => TypeInv /\ PlanInv /\ Contract!Init
  BY InitType, InitPlan, InitMaps
<1>2. TypeInv /\ PlanInv /\ [Next]_vars => TypeInv' /\ PlanInv'
  BY NextType, NextPlan
<1>3. TypeInv /\ PlanInv /\ [Next]_vars => [Contract!Next]_(Contract!vars)
  BY NextMaps
<1>4. QED
  BY <1>1, <1>2, <1>3, PTL DEF Spec, ImplementsApprovedPlan, Contract!Spec

\* What the owner is promised, with what makes it inductive: a spent plan was
\* approved, so nothing approves it again.
OwnerInv == Contract!Promise /\ ClaimedPlans

LEMMA InitOwner == Init => OwnerInv
BY DEF Init, OwnerInv, Contract!Promise, ClaimedPlans

\* The three steps of the contract keep the promise.
LEMMA NextOwner ==
  TypeInv /\ OwnerInv /\ [Contract!Next]_(Contract!vars) => OwnerInv'
<1>. DEFINE trees == {Built(s) : s \in {u \in Slot : /\ tree[u] # Nothing
                                                   /\ tree[u].plan # Nothing}}
<1>. SUFFICES ASSUME TypeInv, OwnerInv, [Contract!Next]_(Contract!vars)
              PROVE  OwnerInv'
  OBVIOUS
<1>1. plans \in [Plan -> Snapshot \cup {Nothing}]
  BY DEF TypeInv, TypeOK
<1>2. /\ \A b, c \in trees : b.plan = c.plan => b = c
      /\ \A b \in trees : b.plan \in claimed /\ b.inputs = plans[b.plan]
      /\ \A p \in claimed : plans[p] # Nothing
  BY DEF OwnerInv, Contract!Promise, ClaimedPlans
<1>. SUFFICES
       /\ \A b, c \in trees' : b.plan = c.plan => b = c
       /\ \A b \in trees' : b.plan \in claimed' /\ b.inputs = plans'[b.plan]
       /\ \A p \in claimed' : plans'[p] # Nothing
  BY DEF OwnerInv, Contract!Promise, ClaimedPlans
<1>3. ASSUME NEW p \in Plan, NEW i \in Snapshot, Contract!Approve(p, i)
      PROVE  \E q \in Plan, j \in Snapshot :
               /\ plans[q] = Nothing
               /\ plans' = [plans EXCEPT ![q] = j]
               /\ claimed' = claimed /\ trees' = trees
  BY <1>3 DEF Contract!Approve
<1>4. ASSUME NEW p \in Plan, Contract!Spend(p)
      PROVE  \E q \in Plan :
               /\ plans[q] # Nothing
               /\ claimed' = claimed \cup {q}
               /\ plans' = plans /\ trees' = trees
  BY <1>4 DEF Contract!Spend
<1>5. ASSUME NEW p \in Plan, NEW s \in Slot, Contract!BuildUnder(p, s)
      PROVE  \E q \in Plan, u \in Slot :
               /\ q \in claimed
               /\ \A b \in trees : b.plan # q
               /\ trees' = trees \cup {[plan |-> q, slot |-> u, inputs |-> plans[q]]}
               /\ plans' = plans /\ claimed' = claimed
  BY <1>5 DEF Contract!BuildUnder
<1>6. CASE UNCHANGED Contract!vars
  <2>1. plans' = plans /\ claimed' = claimed /\ trees' = trees
    BY <1>6 DEF Contract!vars
  <2>. HIDE DEF trees
  <2>2. QED
    BY <1>2, <2>1
<1>. HIDE DEF trees
<1>7. ASSUME NEW q \in Plan, NEW j \in Snapshot, plans[q] = Nothing,
             plans' = [plans EXCEPT ![q] = j], claimed' = claimed, trees' = trees
      PROVE  /\ \A b, c \in trees' : b.plan = c.plan => b = c
             /\ \A b \in trees' : b.plan \in claimed' /\ b.inputs = plans'[b.plan]
             /\ \A p \in claimed' : plans'[p] # Nothing
  BY <1>1, <1>2, <1>7
<1>8. ASSUME NEW q \in Plan, NEW u \in Slot, q \in claimed, \A b \in trees : b.plan # q,
             trees' = trees \cup {[plan |-> q, slot |-> u, inputs |-> plans[q]]},
             plans' = plans, claimed' = claimed
      PROVE  /\ \A b, c \in trees' : b.plan = c.plan => b = c
             /\ \A b \in trees' : b.plan \in claimed' /\ b.inputs = plans'[b.plan]
             /\ \A p \in claimed' : plans'[p] # Nothing
  BY <1>2, <1>8
<1>9. ASSUME NEW q \in Plan, plans[q] # Nothing, claimed' = claimed \cup {q},
             plans' = plans, trees' = trees
      PROVE  /\ \A b, c \in trees' : b.plan = c.plan => b = c
             /\ \A b \in trees' : b.plan \in claimed' /\ b.inputs = plans'[b.plan]
             /\ \A p \in claimed' : plans'[p] # Nothing
  BY <1>2, <1>9
<1>10. QED
  BY <1>3, <1>4, <1>5, <1>6, <1>7, <1>8, <1>9 DEF Contract!Next

\* What the contract gives the owner, of the service itself: one build per
\* plan, spent for it, made of the inputs the owner approved.
THEOREM PromiseHolds == Spec => []Contract!Promise
<1>1. Init => TypeInv /\ PlanInv /\ OwnerInv
  BY InitType, InitPlan, InitOwner
<1>2. TypeInv /\ PlanInv /\ OwnerInv /\ [Next]_vars
        => TypeInv' /\ PlanInv' /\ OwnerInv'
  BY NextType, NextPlan, NextMaps, NextOwner
<1>3. OwnerInv => Contract!Promise
  BY DEF OwnerInv
<1>4. QED
  BY <1>1, <1>2, <1>3, PTL DEF Spec

\* A build never lands in a workspace another build was composed into
\* (nextWorkspace, and the refusal of generateComposedProject to overwrite).
THEOREM WorkspacesKept == Spec => WorkspacesAreKept
<1>1. ASSUME TypeInv, [Next]_vars, NEW s \in Slot, tree[s] # Nothing
      PROVE  tree'[s] = tree[s]
  <2>1. CASE UNCHANGED tree
    BY <2>1
  <2>2. ASSUME NEW r \in Request, Generate(r) PROVE tree'[s] = tree[s]
    <3>1. \/ UNCHANGED tree
          \/ tree[req[r].slot] = Nothing /\ Materialise(r)
      BY <2>2 DEF Generate, BeginGenerate, StartGeneration, RefuseGeneration,
         PreviewStopped, Compose, ComposeFails, GenerationFails,
         FinishGeneration, RevisionMaterialized, GenerationSucceeded,
         GenerationThrows
    <3>2. QED
      BY <1>1, <3>1 DEF Materialise, TypeInv, TypeOK
  <2>3. ASSUME NEW r \in Request,
               \/ Verify(r) \/ Ingest(r) \/ Edit(r) \/ Approve(r) \/ Execute(r)
        PROVE  UNCHANGED tree
    BY <2>3 DEF Verify, StartVerification, HashSource, BuildWorkspace,
       VerificationFails, RecordIdentity, RevisionBuildable,
       VerificationThrows, Ingest, StartIngestion, AttachPack, EndIngestion,
       IngestionThrows, Edit, SaveOverrides, WriteAssetDecisions, Approve,
       BeginApprove, MintPlan, RefuseMint, RevisionOpened, ApprovalThrows,
       Execute, ClaimPlan, LockProject, RefuseLock, FreezeInputs,
       RejectExecution, EndExecution
  <2>4. QED
    BY <1>1, <2>1, <2>2, <2>3 DEF Next, RecoverAppend, Crash, Restart, vars
<1>2. TypeInv /\ [Next]_vars =>
        [\A s \in Slot : tree[s] # Nothing => tree'[s] = tree[s]]_tree
  BY <1>1
<1>3. QED
  BY <1>2, TypeInvHolds, PTL DEF Spec, WorkspacesAreKept
=============================================================================
