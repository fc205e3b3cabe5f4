-------------------------- MODULE PipelineRehearsal --------------------------
(***************************************************************************)
(* A rehearsal of a specialist pipeline over its durable ledger: an engine *)
(* that reads the ledger, runs one stage, writes down what happened and    *)
(* reads again, and that may lose its process at any append.  The durable  *)
(* variables are what foldRehearsalLedger makes of the ledger.             *)
(*                                                                         *)
(* The engine's label names the append it is about to make.  Costs are     *)
(* zero in a rehearsal; the run-time budget may end it whenever it looks.  *)
(***************************************************************************)
EXTENDS Naturals, Sequences, FiniteSetsExt

CONSTANTS Pipeline,       \* the stages: role, reviewer, requires, produces
          Seeds,          \* kinds of the artifacts the factory holds already
          Approvals,      \* stages a human approval is supplied for
          MaxIterations, MaxNoProgress,   \* the task's budget
          MaxEngines      \* bound: engines built over one ledger

Stage == DOMAIN Pipeline
Produces(s) == Pipeline[s].produces

ASSUME PipelineAssumption ==
  /\ Pipeline \in Seq([role : STRING, reviewer : STRING, requires : SUBSET STRING,
                       produces : SUBSET STRING])
  /\ Seeds \subseteq STRING
  /\ {MaxIterations, MaxNoProgress, MaxEngines} \subseteq Nat

VARIABLES task,        \* the durable task
          available,   \* availableArtifactKinds
          complete,    \* completedStageIds
          approved,    \* humanApprovals
          iterations,  \* stageIterations: attempts recorded, by stage
          noProgress,  \* consecutiveNoProgress
          line,        \* last journalled state of each stage's current attempt
          engineAt,    \* the append the engine is about to make
          stage,       \* the stage of this step
          outcome,     \* what its handoff and its verdict came to
          target,      \* the stage a rework goes back to
          engines      \* engines built so far

ledger == <<task, available, complete, approved, iterations, noProgress, line>>
rehearsalVars == <<ledger, engineAt, stage, outcome, target, engines>>

\* The appends of an attempt, in their order.
AttemptAppends == <<"created", "starting", "running", "stopping", "exited", "disposed">>
AttemptLabels == {AttemptAppends[i] : i \in DOMAIN AttemptAppends}
Alive == {"starting", "running", "stopping"}    \* orphanCandidate
Ended == {"stopped", "finished", "down"}
EngineLabels == AttemptLabels \cup Ended \cup
  {"reading", "task", "seeds", "reconciling", "approval", "review", "attempted",
   "produced", "promoted", "checkpoint", "rework"}
RehearsalOutcomes == {"none", "promoted", "blocked", "rework"}

RehearsalTypeOK ==
  /\ task \in {"none", "running", "blocked"}
  /\ available \subseteq STRING
  /\ complete \subseteq Stage
  /\ approved \subseteq Stage
  /\ iterations \in [Stage -> Nat]
  /\ noProgress \in Nat
  /\ line \in [Stage -> AttemptLabels \cup {"none"}]
  /\ engineAt \in EngineLabels
  /\ stage \in Stage \cup {0}
  /\ outcome \in RehearsalOutcomes
  /\ target \in Stage \cup {0}
  /\ engines \in 0..MaxEngines

RehearsalInit ==
  /\ task = "none"
  /\ available = {}
  /\ complete = {}
  /\ approved = {}
  /\ iterations = [s \in Stage |-> 0]
  /\ noProgress = 0
  /\ line = [s \in Stage |-> "none"]
  /\ engineAt = "down"
  /\ stage = 0
  /\ outcome = "none"
  /\ target = 0
  /\ engines = 0

-----------------------------------------------------------------------------
\* evaluateLoopGuard and projectPipelineProgress.

AttemptCount == MapThenSumSet(LAMBDA s : iterations[s], Stage)

\* Mutant: a budget that is just spent is not yet spent.
BudgetOverspent == AttemptCount > MaxIterations \/ noProgress > MaxNoProgress

BudgetSpent == AttemptCount >= MaxIterations \/ noProgress >= MaxNoProgress

IsNext(s) == s \notin complete /\ \A t \in Stage : t < s => t \in complete
\* Missing evidence of a complete stage outranks a ready candidate.
Runnable(s) ==
  /\ IsNext(s)
  /\ Pipeline[s].requires \subseteq available
  /\ \A t \in complete : Produces(t) \subseteq available

\* evaluateHandoff: whether nothing but the reviewer can block the stage.
Promotes(s, verdict, sound) ==
  /\ sound
  /\ Pipeline[s].reviewer = "human" => s \in Approvals
  /\ Pipeline[s].reviewer \notin {"none", "human"} => verdict = "pass"

OutcomeOf(s, verdict, sound) ==
  CASE Promotes(s, verdict, sound) -> "promoted"
    [] /\ ~Promotes(s, verdict, sound)
       /\ verdict = "rework-required"
       /\ Pipeline[s].reviewer \notin {"none", "human"} -> "rework"
    [] OTHER -> "blocked"

\* reworkStageForRole: t is the last stage of its role, up to s; or the role
\* that was named owns none.
RoutesTo(s, t) ==
  \/ t = 0
  \/ /\ t \in Stage /\ t <= s
     /\ \A u \in Stage : t < u /\ u <= s => Pipeline[u].role # Pipeline[t].role

-----------------------------------------------------------------------------
\* The engine.

Goes(label) == engineAt' = label
Follows(label) == AttemptAppends[1 + CHOOSE i \in DOMAIN AttemptAppends : AttemptAppends[i] = label]

\* ensureStarted, the guard, and the projection.
Read ==
  /\ engineAt = "reading"
  /\ \/ task = "none" /\ Goes("task") /\ UNCHANGED stage
     \/ /\ task # "none" /\ ~BudgetSpent
        /\ \E s \in Stage : Runnable(s) /\ stage' = s
        /\ Goes("created")
     \/ task # "none" /\ Goes("stopped") /\ UNCHANGED stage
  /\ outcome' = "none" /\ target' = 0
  /\ UNCHANGED <<ledger, engines>>

RecordTask ==
  /\ engineAt = "task"
  /\ task' = "running"
  /\ Goes(IF Seeds = {} THEN "reading" ELSE "seeds")
  /\ UNCHANGED <<available, complete, approved, iterations, noProgress, line, stage, outcome, target, engines>>

RecordSeeds ==
  /\ engineAt = "seeds"
  /\ available' = available \cup Seeds
  /\ Goes("reading")
  /\ UNCHANGED <<task, complete, approved, iterations, noProgress, line, stage, outcome, target, engines>>

\* The appends of the attempt; a lost session writes nothing after "running".
RecordAttempt ==
  /\ engineAt \in AttemptLabels \ {"disposed"}
  /\ line' = [line EXCEPT ![stage] = engineAt]
  /\ \/ Goes(Follows(engineAt))
     \/ engineAt = "running" /\ Goes("stopped")
  /\ UNCHANGED <<task, available, complete, approved, iterations, noProgress, stage, outcome, target, engines>>

\* The last of them; then the review and the handoff are decided.
RecordDisposed(verdict, sound) ==
  /\ engineAt = "disposed"
  /\ line' = [line EXCEPT ![stage] = "disposed"]
  /\ outcome' = OutcomeOf(stage, verdict, sound)
  /\ \E t \in Stage \cup {0} : RoutesTo(stage, t) /\ target' = t
  /\ Goes(CASE Pipeline[stage].reviewer = "none" -> "attempted"
            [] Pipeline[stage].reviewer = "human" ->
                 IF stage \in Approvals \ approved THEN "approval" ELSE "attempted"
            [] OTHER -> "review")
  /\ UNCHANGED <<task, available, complete, approved, iterations, noProgress, stage, engines>>

RecordApproval ==
  /\ engineAt = "approval"
  /\ approved' = approved \cup {stage}
  /\ Goes("attempted")
  /\ UNCHANGED <<task, available, complete, iterations, noProgress, line, stage, outcome, target, engines>>

RecordReview ==
  /\ engineAt = "review"
  /\ Goes("attempted")
  /\ UNCHANGED <<ledger, stage, outcome, target, engines>>

\* Mutant: only a promoted attempt is recorded.
RecordPromotedAttempt ==
  /\ engineAt = "attempted"
  /\ iterations' = [iterations EXCEPT ![stage] = @ + IF outcome = "promoted" THEN 1 ELSE 0]
  /\ noProgress' = 0
  /\ line' = [line EXCEPT ![stage] = "none"]
  /\ Goes(CASE outcome = "promoted" -> "produced"
            [] outcome = "rework" /\ target # 0 -> "rework"
            [] OTHER -> "stopped")
  /\ UNCHANGED <<task, available, complete, approved, stage, outcome, target, engines>>

\* The next attempt at the stage has another name.
RecordAttempted ==
  /\ engineAt = "attempted"
  /\ iterations' = [iterations EXCEPT ![stage] = @ + 1]
  /\ noProgress' = IF outcome = "promoted" THEN 0 ELSE noProgress + 1
  /\ line' = [line EXCEPT ![stage] = "none"]
  /\ Goes(CASE outcome = "promoted" -> "produced"
            [] outcome = "rework" /\ target # 0 -> "rework"
            [] OTHER -> "stopped")
  /\ UNCHANGED <<task, available, complete, approved, stage, outcome, target, engines>>

RecordProduced ==
  /\ engineAt = "produced"
  /\ available' = available \cup Produces(stage)
  /\ Goes("promoted")
  /\ UNCHANGED <<task, complete, approved, iterations, noProgress, line, stage, outcome, target, engines>>

RecordPromoted ==
  /\ engineAt = "promoted"
  /\ complete' = complete \cup {stage}
  /\ Goes("checkpoint")
  /\ UNCHANGED <<task, available, approved, iterations, noProgress, line, stage, outcome, target, engines>>

RecordCheckpoint ==
  /\ engineAt = "checkpoint"
  /\ Goes("reading")
  /\ UNCHANGED <<ledger, stage, outcome, target, engines>>

\* Mutant: only the stage routed back to is done again.
RecordReworkOfOne ==
  /\ engineAt = "rework"
  /\ complete' = complete \ {target}
  /\ Goes("reading")
  /\ UNCHANGED <<task, available, approved, iterations, noProgress, line, stage, outcome, target, engines>>

\* The stage routed back to, and every stage after it, are no longer complete.
RecordRework ==
  /\ engineAt = "rework"
  /\ complete' = {s \in complete : s < target}
  /\ Goes("reading")
  /\ UNCHANGED <<task, available, approved, iterations, noProgress, line, stage, outcome, target, engines>>

\* finish: a task that is blocked already cannot be blocked again, and throws.
Finish ==
  /\ engineAt = "stopped"
  /\ task' = "blocked"
  /\ Goes("finished")
  /\ UNCHANGED <<available, complete, approved, iterations, noProgress, line, stage, outcome, target, engines>>

EngineStep ==
  \/ Read \/ RecordTask \/ RecordSeeds \/ RecordAttempt \/ RecordApproval \/ RecordReview
  \/ RecordAttempted \/ RecordProduced \/ RecordPromoted \/ RecordCheckpoint \/ RecordRework
  \/ \E verdict \in {"pass", "rework-required", "blocked"}, sound \in BOOLEAN :
       RecordDisposed(verdict, sound)

-----------------------------------------------------------------------------
\* The process dies; another engine is built over the same ledger, and its
\* caller reconciles before it runs.

Dies ==
  /\ engineAt \notin Ended
  /\ Goes("down")
  /\ UNCHANGED <<ledger, stage, outcome, target, engines>>

Construct ==
  /\ engineAt \in Ended
  /\ engines < MaxEngines
  /\ engines' = engines + 1
  /\ Goes("reconciling")
  /\ stage' = 0 /\ outcome' = "none" /\ target' = 0
  /\ UNCHANGED ledger

\* reconcile: an attempt that was alive is recorded as lost.
Reconcile(s) ==
  /\ engineAt = "reconciling"
  /\ line[s] \in Alive
  /\ line' = [line EXCEPT ![s] = "exited"]
  /\ UNCHANGED <<task, available, complete, approved, iterations, noProgress,
                 engineAt, stage, outcome, target, engines>>

Reconciled ==
  /\ engineAt = "reconciling"
  /\ \A s \in Stage : line[s] \notin Alive
  /\ Goes("reading")
  /\ UNCHANGED <<ledger, stage, outcome, target, engines>>

Recovers == Reconciled \/ \E s \in Stage : Reconcile(s)

RehearsalNext == EngineStep \/ Finish \/ Dies \/ Construct \/ Recovers

RehearsalFairness == WF_rehearsalVars(EngineStep \/ Recovers)

RehearsalSpec == RehearsalInit /\ [][RehearsalNext]_rehearsalVars /\ RehearsalFairness

-----------------------------------------------------------------------------
\* What the ledger calls complete is a prefix of the pipeline, with every
\* artifact it produced and every approval it needed in the same ledger: a death
\* between two appends leaves no hole a restart would walk past.
CompleteIsBacked ==
  \A s \in complete :
    /\ \A t \in Stage : t < s => t \in complete
    /\ Produces(s) \subseteq available
    /\ Pipeline[s].reviewer = "human" => s \in approved

\* The rehearsal is a stage gate: what an attempt earned is the engine's to write
\* down until it moves on or dies.
Earned == CASE engineAt \in {"produced", "promoted"} -> "pass"
            [] engineAt = "rework" -> "return"
            [] OTHER -> "nothing"

Gatekeeper == INSTANCE StageGate WITH
  Gate <- Stage, MaxTries <- MaxIterations, MaxIdle <- MaxNoProgress,
  passed <- complete, tries <- AttemptCount, idle <- noProgress, earned <- Earned

\* Whatever the reviewers say and wherever engines die, a stage is passed only in
\* its order, by an attempt of its own that the budget of the task had room for,
\* and nothing passes or is sent back without one.
ImplementsStageGate == Gatekeeper!GateSpec

\* An engine that runs stops or dies, though two stages may rework each other
\* for as long as they like.
RehearsalStops == (engineAt \in EngineLabels \ Ended) ~> (engineAt \in Ended)
=============================================================================
