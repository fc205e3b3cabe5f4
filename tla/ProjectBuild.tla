---------------------------- MODULE ProjectBuild ----------------------------
(***************************************************************************)
(* One project of the factory service while several requests work on it:   *)
(* generate, verify, ingest, edit, approve a build plan, execute one.      *)
(*                                                                         *)
(* The service is one JavaScript thread, so code between two awaits is one *)
(* action and requests interleave only at awaits.  A request's `pc' names  *)
(* the await it is in; its local variables are the fields of its record:   *)
(* in particular `held', the project row it read before an await and       *)
(* writes back after it.  Awaits with no state change between them are     *)
(* one await here, and an await before anything is read, or after the last *)
(* write of a handler, is no point of interest and is left out.            *)
(***************************************************************************)
EXTENDS Integers, FiniteSets

CONSTANTS Request,        \* concurrent callers (HTTP, broker or in-process)
          Plan,           \* approval ids an owner may use
          Pack,           \* knowledge packs ingestion can produce
          Input,          \* states of the file inputs: overrides, decisions...
          MaxBuild,       \* the `limit' of nextWorkspace, 50 in the code
          MaxRequests,    \* bound of the model: requests that ever arrive
          LedgerMayFail,  \* an append to the ledger may reject
          MayCrash,       \* the process may die at any await
          Nothing         \* null

ASSUME BuildAssumption ==
  /\ MaxBuild \in Nat
  /\ MaxRequests \in Nat
  /\ LedgerMayFail \in BOOLEAN
  /\ MayCrash \in BOOLEAN
  /\ Nothing \notin Plan \cup Pack \cup Input

VARIABLES project,    \* the row of the projects table
          inputs,     \* the file inputs next to it
          tree,       \* what each build workspace was composed from
          files,      \* the bytes each workspace holds now: source and dist
          plans,      \* the frozen inputs of each approved plan
          claimed,    \* plans in approved_build_plan_executions
          revisions,  \* the artifact revision each plan opened, as replayed
          poisoned,   \* the stream holds an event its reducer refuses
          running,    \* rows of the tasks table that are in state running
          begun,      \* how many requests have arrived
          req,        \* requests in flight
          up          \* the process is running

disk == <<inputs, tree, files>>
contract == <<plans, claimed>>
ladder == <<revisions, poisoned>>
vars == <<project, disk, contract, ladder, running, begun, req, up>>

-----------------------------------------------------------------------------
ProjectState == {"ready", "generating", "generated", "verified", "failed"}
Slot == 1 .. MaxBuild
Rung == {"contract-approved", "materialized", "buildable"}

Bytes == [slot : Slot, input : Input]
Identity == [workspace : Slot, source : Input, output : Input]
Row == [state : ProjectState, workspace : 0 .. MaxBuild,
        pack : Pack \cup {Nothing}, identity : Identity \cup {Nothing}]
Snapshot == [pack : Pack \cup {Nothing}, input : Input]
Tree == [plan : Plan \cup {Nothing}, pack : Pack \cup {Nothing}, input : Input]
Files == [source : Input, dist : Input \cup {Nothing}]
Revision == [rung : Rung, source : Bytes \cup {Nothing},
             output : Bytes \cup {Nothing}]
RevisionEvent == [to : Rung, plan : Plan, bytes : Bytes \cup {Nothing}]

GenerateAwait == {"g.decided", "g.stopping", "g.started", "g.composed",
                  "g.advancing", "g.succeeded", "g.failed"}
VerifyAwait == {"v.started", "v.locked", "v.built", "v.advancing"}
IngestAwait == {"i.ingesting", "i.applied"}
ApproveAwait == {"a.decided", "a.opening"}
ExecuteAwait == {"e.claimed", "e.locked", "e.executed"}
Await == GenerateAwait \cup VerifyAwait \cup IngestAwait \cup ApproveAwait
           \cup ExecuteAwait

Local == [pc : Await \cup {"idle", "lost"}, plan : Plan \cup {Nothing},
          held : Row \cup {Nothing}, original : Row \cup {Nothing},
          slot : 0 .. MaxBuild, frozen : Input \cup {Nothing},
          source : Input \cup {Nothing}, running : BOOLEAN,
          pending : RevisionEvent \cup {Nothing}]

Idle == [pc |-> "idle", plan |-> Nothing, held |-> Nothing,
         original |-> Nothing, slot |-> 0, frozen |-> Nothing,
         source |-> Nothing, running |-> FALSE, pending |-> Nothing]

TypeOK == /\ project \in Row
          /\ inputs \in Input
          /\ tree \in [Slot -> Tree \cup {Nothing}]
          /\ files \in [Slot -> Files \cup {Nothing}]
          /\ plans \in [Plan -> Snapshot \cup {Nothing}]
          /\ claimed \subseteq Plan
          /\ revisions \in [Plan -> Revision \cup {Nothing}]
          /\ poisoned \in BOOLEAN
          /\ running \in Int
          /\ begun \in 0 .. MaxRequests
          /\ req \in [Request -> Local]
          /\ up \in BOOLEAN

\* null is none of the values it stands in for.
ASSUME NothingAssumption ==
  Nothing \notin Row \cup Tree \cup Files \cup Snapshot \cup Revision
                  \cup RevisionEvent \cup Bytes \cup Identity

\* createProject: a ready row, perhaps with a pack, and no workspace.
Init == /\ project \in [state : {"ready"}, workspace : {0},
                        pack : Pack \cup {Nothing}, identity : {Nothing}]
        /\ inputs \in Input
        /\ tree = [s \in Slot |-> Nothing]
        /\ files = [s \in Slot |-> Nothing]
        /\ plans = [p \in Plan |-> Nothing]
        /\ claimed = {}
        /\ revisions = [p \in Plan |-> Nothing]
        /\ poisoned = FALSE
        /\ running = 0
        /\ begun = 0
        /\ req = [r \in Request |-> Idle]
        /\ up = TRUE

-----------------------------------------------------------------------------
\* The store and the shared helpers.

At(r, await) == up /\ req[r].pc = await
Goto(r, await) == req' = [req EXCEPT ![r].pc = await]
Return(r) == req' = [req EXCEPT ![r] = Idle]

\* A request arrives at a caller that has none in flight.
Arrives(r) == /\ At(r, "idle") /\ begun < MaxRequests
              /\ begun' = begun + 1

\* The task of a request leaves state running, if that is where it is.
TaskEnds(r) == running' = IF req[r].running THEN running - 1 ELSE running

\* upsertProject replaces the whole row, but a null identity keeps the old.
Upsert(row) ==
  [row EXCEPT !.identity = IF row.identity = Nothing THEN project.identity
                                                     ELSE row.identity]

CurrentSnapshot == [pack |-> project.pack, input |-> inputs]

HasApprovedBuildPlan == \E p \in Plan : plans[p] # Nothing

\* nextWorkspace: the first version whose directory does not exist.
NextWorkspace == {v \in Slot : /\ tree[v] = Nothing
                               /\ \A u \in 1 .. (v - 1) : tree[u] # Nothing}

\* The governed generation reads through a proxy that answers with what was
\* frozen; every other one reads the project and its files as they are.
ReadProject(r) == IF req[r].plan = Nothing THEN project ELSE req[r].held
ReadInputs(r) == IF req[r].plan = Nothing THEN inputs ELSE req[r].frozen

-----------------------------------------------------------------------------
\* Artifact revisions: a replay of the project's event stream.

Opened == {p \in Plan : revisions[p] # Nothing}

\* The replay succeeds and liveArtifactRevision finds at most one revision.
RevisionsReadable == ~poisoned /\ \A p, q \in Opened : p = q

CanAdvance(p, from) == /\ RevisionsReadable
                       /\ p \in Opened
                       /\ revisions[p].rung = from

NothingToAdvance(from) == /\ RevisionsReadable
                          /\ \A p \in Opened : revisions[p].rung # from

Earned(e) ==
  CASE e.to = "contract-approved" ->
         [rung |-> e.to, source |-> Nothing, output |-> Nothing]
    [] e.to = "materialized" ->
         [revisions[e.plan] EXCEPT !.rung = e.to, !.source = e.bytes]
    [] e.to = "buildable" ->
         [revisions[e.plan] EXCEPT !.rung = e.to, !.output = e.bytes]

RungBelow(to) == IF to = "buildable" THEN "materialized"
                                     ELSE "contract-approved"

\* Mutant: the reducer asks only that the revision exists.
ReplaysAnyRung(e) == e.to = "contract-approved" \/ revisions[e.plan] # Nothing

\* reduceArtifactRevisions accepts one more event at the end of the stream.
Replays(e) == \/ e.to = "contract-approved"
              \/ /\ revisions[e.plan] # Nothing
                 /\ revisions[e.plan].rung = RungBelow(e.to)

\* An append that resolved is projected, and every later read replays it.
Replay(e) ==
  IF Replays(e)
    THEN /\ revisions' = [revisions EXCEPT ![e.plan] = Earned(e)]
         /\ UNCHANGED poisoned
    ELSE poisoned' = TRUE /\ UNCHANGED revisions

-----------------------------------------------------------------------------
\* generateProject, on its own or inside an approved execution.

\* Mutant: a rejected execution leaves the row as it locked it.
NotRestored(r) == project

\* The row an execution locked gets its state and workspace back, if it still
\* says generating.
Restored(r) ==
  IF project.state = "generating"
    THEN Upsert([project EXCEPT !.state = req[r].original.state,
                                !.workspace = req[r].original.workspace])
    ELSE project

\* An error leaves generateProject, and the execution around it if there is one.
Throw(r) == /\ Return(r)
            /\ IF req[r].plan = Nothing THEN UNCHANGED project
                                        ELSE project' = Restored(r)

\* decideMutation: recorded before a contract exists, refused after.
BeginGenerate(r) ==
  /\ Arrives(r) /\ ~HasApprovedBuildPlan
  /\ Goto(r, "g.decided")
  /\ UNCHANGED <<project, disk, contract, ladder, running, up>>

\* Mutant: the row names the workspace before anything is composed into it.
LockWithWorkspace(r, row, v) ==
  LET locked == Upsert([row EXCEPT !.state = "generating", !.workspace = v])
  IN /\ project' = locked
     /\ running' = running + 1
     /\ req' = [req EXCEPT ![r] = [@ EXCEPT !.pc = "g.started", !.held = locked,
                                            !.slot = v, !.running = TRUE]]

\* The task is running and the row says generating: nothing else is the lock.
LockForGeneration(r, row, v) ==
  LET locked == Upsert([row EXCEPT !.state = "generating"])
  IN /\ project' = locked
     /\ running' = running + 1
     /\ req' = [req EXCEPT ![r] = [@ EXCEPT !.pc = "g.started", !.held = locked,
                                            !.slot = v, !.running = TRUE]]

\* The guard, then the workspace, then the lock; a rebuild stops the preview
\* in between.
StartGeneration(r) ==
  /\ At(r, "g.decided") /\ ReadProject(r).state # "generating"
  /\ \E v \in NextWorkspace :
       IF v = 1
         THEN LockForGeneration(r, ReadProject(r), v)
         ELSE /\ req' = [req EXCEPT ![r] = [@ EXCEPT !.pc = "g.stopping",
                                      !.held = ReadProject(r), !.slot = v]]
              /\ UNCHANGED <<project, running>>
  /\ UNCHANGED <<disk, contract, ladder, begun, up>>

\* The guard refuses, or no version is left.  The decision itself cannot fail to
\* be recorded: its `record' swallows what the ledger throws.
RefuseGeneration(r) ==
  /\ At(r, "g.decided")
  /\ ReadProject(r).state = "generating" \/ NextWorkspace = {}
  /\ Throw(r)
  /\ UNCHANGED <<disk, contract, ladder, running, begun, up>>

PreviewStopped(r) ==
  /\ At(r, "g.stopping")
  /\ LockForGeneration(r, req[r].held, req[r].slot)
  /\ UNCHANGED <<disk, contract, ladder, begun, up>>

Materialise(r) ==
  /\ tree' = [tree EXCEPT ![req[r].slot] =
                [plan |-> req[r].plan, pack |-> req[r].held.pack,
                 input |-> ReadInputs(r)]]
  /\ files' = [files EXCEPT ![req[r].slot] =
                 [source |-> ReadInputs(r), dist |-> Nothing]]

\* Mutant: the directory is composed into whether or not it exists.
ComposeOver(r) ==
  /\ At(r, "g.started")
  /\ Materialise(r)
  /\ Goto(r, "g.composed")
  /\ UNCHANGED <<project, inputs, contract, ladder, running, begun, up>>

\* generateComposedProject refuses to overwrite a directory that exists.
Compose(r) ==
  /\ At(r, "g.started") /\ tree[req[r].slot] = Nothing
  /\ Materialise(r)
  /\ Goto(r, "g.composed")
  /\ UNCHANGED <<project, inputs, contract, ladder, running, begun, up>>

\* Mutant: the catch forgets the task.
GenerateCatchKeepsTask(r) ==
  /\ project' = Upsert([req[r].held EXCEPT !.state = "failed"])
  /\ UNCHANGED running
  /\ req' = [req EXCEPT ![r] = [@ EXCEPT !.pc = "g.failed", !.running = FALSE,
                                         !.pending = Nothing]]

\* The catch of generateProject: the row it holds, written back as failed.
GenerateCatch(r) ==
  /\ project' = Upsert([req[r].held EXCEPT !.state = "failed"])
  /\ TaskEnds(r)
  /\ req' = [req EXCEPT ![r] = [@ EXCEPT !.pc = "g.failed", !.running = FALSE,
                                         !.pending = Nothing]]

\* Composition throws, before or after it has created the directory.
ComposeFails(r) ==
  /\ At(r, "g.started")
  /\ GenerateCatch(r)
  /\ \/ UNCHANGED <<tree, files>>
     \/ tree[req[r].slot] = Nothing /\ Materialise(r)
  /\ UNCHANGED <<inputs, contract, ladder, begun, up>>

\* The recipe inventory does not resolve, or an event cannot be appended.
GenerationFails(r) ==
  /\ \/ At(r, "g.composed")
     \/ LedgerMayFail /\ (At(r, "g.advancing") \/ At(r, "g.succeeded"))
  /\ GenerateCatch(r)
  /\ UNCHANGED <<disk, contract, ladder, begun, up>>

\* The task succeeds and the row is generated; then the live revision is asked
\* to advance, which throws into the catch when the stream cannot be read.
FinishGeneration(r) ==
  LET row == Upsert([req[r].held EXCEPT !.state = "generated",
                                        !.workspace = req[r].slot])
      bytes == [slot |-> req[r].slot, input |-> files[req[r].slot].source]
      Move(await, e) ==
        req' = [req EXCEPT ![r] = [@ EXCEPT !.pc = await, !.held = row,
                                            !.running = FALSE, !.pending = e]]
  IN /\ At(r, "g.composed")
     /\ \/ /\ NothingToAdvance("contract-approved")
           /\ project' = row
           /\ Move("g.succeeded", Nothing)
        \/ \E p \in Plan :
             /\ CanAdvance(p, "contract-approved")
             /\ project' = row
             /\ Move("g.advancing",
                     [to |-> "materialized", plan |-> p, bytes |-> bytes])
        \/ /\ ~RevisionsReadable
           /\ project' = [row EXCEPT !.state = "failed"]
           /\ Move("g.failed", Nothing)
     /\ TaskEnds(r)
     /\ UNCHANGED <<disk, contract, ladder, begun, up>>

RevisionMaterialized(r) ==
  /\ At(r, "g.advancing")
  /\ Replay(req[r].pending)
  /\ req' = [req EXCEPT ![r] = [@ EXCEPT !.pc = "g.succeeded",
                                         !.pending = Nothing]]
  /\ UNCHANGED <<project, disk, contract, running, begun, up>>

GenerationSucceeded(r) ==
  /\ At(r, "g.succeeded")
  /\ IF req[r].plan = Nothing THEN Return(r) ELSE Goto(r, "e.executed")
  /\ UNCHANGED <<project, disk, contract, ladder, running, begun, up>>

\* build.failed is recorded and the error rethrown; the two awaits before the
\* try have no catch of their own.
GenerationThrows(r) ==
  /\ \/ At(r, "g.failed")
     \/ LedgerMayFail /\ (At(r, "g.stopping") \/ At(r, "g.started"))
  /\ Throw(r)
  /\ UNCHANGED <<disk, contract, ladder, running, begun, up>>

-----------------------------------------------------------------------------
\* verifyProject.

\* requireWorkspace is the only guard: a project that is generating passes.
StartVerification(r) ==
  /\ Arrives(r) /\ project.workspace # 0
  /\ req' = [req EXCEPT ![r] =
               [@ EXCEPT !.pc = "v.started", !.held = project,
                         !.slot = project.workspace, !.running = TRUE]]
  /\ running' = running + 1
  /\ UNCHANGED <<project, disk, contract, ladder, up>>

\* The source is hashed and the lockfile resolved before anything runs.
HashSource(r) ==
  /\ At(r, "v.started")
  /\ req' = [req EXCEPT ![r] = [@ EXCEPT !.pc = "v.locked",
                                         !.source = files[req[r].slot].source]]
  /\ UNCHANGED <<project, disk, contract, ladder, running, begun, up>>

\* Mutant: the build step is skipped.
BuildNothing(r) ==
  /\ At(r, "v.locked")
  /\ Goto(r, "v.built")
  /\ UNCHANGED <<project, disk, contract, ladder, running, begun, up>>

\* npm ci, check and build, each awaiting its event, read the workspace.
BuildWorkspace(r) ==
  /\ At(r, "v.locked")
  /\ files' = [files EXCEPT ![req[r].slot].dist = files[req[r].slot].source]
  /\ Goto(r, "v.built")
  /\ UNCHANGED <<project, inputs, tree, contract, ladder, running, begun, up>>

\* A command fails or an event cannot be appended: the task fails, no more.
VerificationFails(r) ==
  /\ \/ At(r, "v.started") \/ At(r, "v.locked")
     \/ LedgerMayFail /\ At(r, "v.built")
  /\ TaskEnds(r)
  /\ Return(r)
  /\ UNCHANGED <<project, disk, contract, ladder, begun, up>>

\* The identity is recorded, the task succeeds, and where the toolchain is
\* the declared one a live revision standing on materialized may advance.
RecordIdentity(r) ==
  LET dist == files[req[r].slot].dist
      row == [req[r].held EXCEPT !.state = "verified",
                !.identity = [workspace |-> req[r].slot,
                              source |-> req[r].source, output |-> dist]]
      bytes == [slot |-> req[r].slot, input |-> dist]
  IN /\ At(r, "v.built")
     /\ TaskEnds(r)
     /\ \E supported \in BOOLEAN :
          \/ /\ ~supported \/ NothingToAdvance("materialized")
             /\ project' = Upsert(row)
             /\ Return(r)
          \/ \E p \in Plan :
               /\ supported /\ CanAdvance(p, "materialized")
               /\ req' = [req EXCEPT ![r] =
                            [@ EXCEPT !.pc = "v.advancing", !.held = row,
                               !.running = FALSE,
                               !.pending = [to |-> "buildable", plan |-> p,
                                            bytes |-> bytes]]]
               /\ UNCHANGED project
          \* The catch fails a task that has succeeded, which itself throws.
          \/ supported /\ ~RevisionsReadable /\ Return(r) /\ UNCHANGED project
     /\ UNCHANGED <<disk, contract, ladder, begun, up>>

RevisionBuildable(r) ==
  /\ At(r, "v.advancing")
  /\ Replay(req[r].pending)
  /\ project' = Upsert(req[r].held)
  /\ Return(r)
  /\ UNCHANGED <<disk, contract, running, begun, up>>

\* An append rejects before the try, or after the task has succeeded.
VerificationThrows(r) ==
  /\ LedgerMayFail /\ (At(r, "v.started") \/ At(r, "v.advancing"))
  /\ Return(r)
  /\ UNCHANGED <<project, disk, contract, ladder, running, begun, up>>

-----------------------------------------------------------------------------
\* ingestSources.

\* Mutant: ingestion starts while the project is generating.
StartIngestionAnyway(r) ==
  /\ Arrives(r)
  /\ req' = [req EXCEPT ![r] = [@ EXCEPT !.pc = "i.ingesting",
                                         !.held = project, !.running = TRUE]]
  /\ running' = running + 1
  /\ UNCHANGED <<project, disk, contract, ladder, up>>

StartIngestion(r) ==
  /\ Arrives(r) /\ project.state # "generating"
  /\ req' = [req EXCEPT ![r] = [@ EXCEPT !.pc = "i.ingesting",
                                         !.held = project, !.running = TRUE]]
  /\ running' = running + 1
  /\ UNCHANGED <<project, disk, contract, ladder, up>>

\* The whole row read before the ingestion is written back with the new pack.
AttachPack(r) ==
  /\ At(r, "i.ingesting")
  /\ \E k \in Pack : project' = Upsert([req[r].held EXCEPT !.pack = k])
  /\ Goto(r, "i.applied")
  /\ UNCHANGED <<disk, contract, ladder, running, begun, up>>

\* The focal points are back and the task succeeds, or something threw and
\* the task fails.
EndIngestion(r) ==
  /\ At(r, "i.applied") \/ At(r, "i.ingesting")
  /\ TaskEnds(r)
  /\ Return(r)
  /\ UNCHANGED <<project, disk, contract, ladder, begun, up>>

\* The started event rejects: it is awaited before the try.
IngestionThrows(r) ==
  /\ LedgerMayFail /\ At(r, "i.ingesting")
  /\ Return(r)
  /\ UNCHANGED <<project, disk, contract, ladder, running, begun, up>>

-----------------------------------------------------------------------------
\* The operator's edits to the file inputs: one await, with nothing before it.

\* An edit of the words or the layout is replayed into the live workspace.
SaveOverrides(r) ==
  /\ Arrives(r)
  /\ \E i \in Input :
       /\ inputs' = i
       /\ IF project.workspace = 0
            THEN UNCHANGED files
            ELSE files' = [files EXCEPT ![project.workspace].source = i]
  /\ UNCHANGED <<project, tree, contract, ladder, running, req, up>>

\* A decision about an asset waits for the next build.
WriteAssetDecisions(r) ==
  /\ Arrives(r)
  /\ inputs' \in Input
  /\ UNCHANGED <<project, tree, files, contract, ladder, running, req, up>>

-----------------------------------------------------------------------------
\* approveProjectBuildPlan.

\* An approval id that already has a plan returns that plan.
BeginApprove(r) ==
  /\ Arrives(r) /\ project.state # "generating"
  /\ \E p \in Plan :
       /\ plans[p] = Nothing
       /\ req' = [req EXCEPT ![r] = [@ EXCEPT !.pc = "a.decided", !.plan = p]]
  /\ UNCHANGED <<project, disk, contract, ladder, running, up>>

\* Mint over what the project holds now, and insert.
MintPlan(r) ==
  LET p == req[r].plan
  IN /\ At(r, "a.decided") /\ plans[p] = Nothing
     /\ plans' = [plans EXCEPT ![p] = CurrentSnapshot]
     /\ req' = [req EXCEPT ![r] =
                  [@ EXCEPT !.pc = "a.opening",
                            !.pending = [to |-> "contract-approved",
                                         plan |-> p, bytes |-> Nothing]]]
     /\ UNCHANGED <<project, disk, claimed, ladder, running, begun, up>>

\* The pair of project and approval id is unique: a second insert throws.
RefuseMint(r) ==
  /\ At(r, "a.decided")
  /\ plans[req[r].plan] # Nothing
  /\ Return(r)
  /\ UNCHANGED <<project, disk, contract, ladder, running, begun, up>>

RevisionOpened(r) ==
  /\ At(r, "a.opening")
  /\ Replay(req[r].pending)
  /\ Return(r)
  /\ UNCHANGED <<project, disk, contract, running, begun, up>>

\* The plan is stored and its revision never is.
ApprovalThrows(r) ==
  /\ LedgerMayFail /\ At(r, "a.opening")
  /\ Return(r)
  /\ UNCHANGED <<project, disk, contract, ladder, running, begun, up>>

-----------------------------------------------------------------------------
\* executeApprovedProjectBuildPlan.

\* An unspent plan whose project has not drifted; the insert spends it.
ClaimPlan(r) ==
  /\ Arrives(r)
  /\ \E p \in Plan \ claimed :
       /\ plans[p] = CurrentSnapshot
       /\ claimed' = claimed \cup {p}
       /\ req' = [req EXCEPT ![r] = [@ EXCEPT !.pc = "e.claimed", !.plan = p]]
  /\ UNCHANGED <<project, disk, plans, ladder, running, up>>

LockProject(r) ==
  /\ At(r, "e.claimed") /\ project.state # "generating"
  /\ project' = [project EXCEPT !.state = "generating"]
  /\ req' = [req EXCEPT ![r] = [@ EXCEPT !.pc = "e.locked",
                                         !.original = project]]
  /\ UNCHANGED <<disk, contract, ladder, running, begun, up>>

\* Outside the try: the plan is spent, and nothing says on what.
RefuseLock(r) ==
  /\ At(r, "e.claimed") /\ project.state = "generating"
  /\ Return(r)
  /\ UNCHANGED <<project, disk, contract, ladder, running, begun, up>>

\* Mutant: the inputs are frozen as they are now, without comparing them.
FreezeDriftedInputs(r) ==
  LET frozen == [project EXCEPT !.state = req[r].original.state,
                                !.workspace = req[r].original.workspace]
  IN /\ At(r, "e.locked")
     /\ req' = [req EXCEPT ![r] = [@ EXCEPT !.pc = "g.decided",
                                     !.frozen = inputs, !.held = frozen]]
     /\ UNCHANGED <<project, disk, contract, ladder, running, begun, up>>

\* Every approved input is read again after the claim event, and frozen with
\* the state and workspace the row had before the lock.
FreezeInputs(r) ==
  LET frozen == [project EXCEPT !.state = req[r].original.state,
                                !.workspace = req[r].original.workspace]
  IN /\ At(r, "e.locked") /\ CurrentSnapshot = plans[req[r].plan]
     /\ req' = [req EXCEPT ![r] = [@ EXCEPT !.pc = "g.decided",
                                     !.frozen = inputs, !.held = frozen]]
     /\ UNCHANGED <<project, disk, contract, ladder, running, begun, up>>

\* The project drifted, or the event was not appended, before generation.
RejectExecution(r) ==
  /\ At(r, "e.locked")
  /\ LedgerMayFail \/ CurrentSnapshot # plans[req[r].plan]
  /\ Throw(r)
  /\ UNCHANGED <<disk, contract, ladder, running, begun, up>>

\* The last event is recorded; a rejected append goes through the catch.
EndExecution(r) ==
  /\ At(r, "e.executed")
  /\ \/ Return(r) /\ UNCHANGED project
     \/ LedgerMayFail /\ Throw(r)
  /\ UNCHANGED <<disk, contract, ladder, running, begun, up>>

-----------------------------------------------------------------------------
\* The process dies.  Local state is gone; an append that was in flight has
\* reached the ledger or not, and opening the store replays what did.

Crash ==
  /\ MayCrash /\ up
  /\ \E r \in Request : req[r].pc # "idle"
  /\ req' = [r \in Request |-> IF req[r].pending = Nothing THEN Idle
               ELSE [Idle EXCEPT !.pc = "lost", !.pending = req[r].pending]]
  /\ up' = FALSE
  /\ UNCHANGED <<project, disk, contract, ladder, running, begun>>

RecoverAppend(r) ==
  /\ ~up /\ req[r].pc = "lost"
  /\ Replay(req[r].pending) \/ UNCHANGED ladder
  /\ Return(r)
  /\ UNCHANGED <<project, disk, contract, running, begun, up>>

Restart ==
  /\ ~up /\ \A r \in Request : req[r].pc = "idle"
  /\ up' = TRUE
  /\ UNCHANGED <<project, disk, contract, ladder, running, begun, req>>

-----------------------------------------------------------------------------
Generate(r) ==
  \/ BeginGenerate(r) \/ StartGeneration(r) \/ RefuseGeneration(r)
  \/ PreviewStopped(r) \/ Compose(r) \/ ComposeFails(r) \/ GenerationFails(r)
  \/ FinishGeneration(r) \/ RevisionMaterialized(r)
  \/ GenerationSucceeded(r) \/ GenerationThrows(r)

Verify(r) ==
  \/ StartVerification(r) \/ HashSource(r) \/ BuildWorkspace(r)
  \/ VerificationFails(r) \/ RecordIdentity(r) \/ RevisionBuildable(r)
  \/ VerificationThrows(r)

Ingest(r) == \/ StartIngestion(r) \/ AttachPack(r) \/ EndIngestion(r)
             \/ IngestionThrows(r)

Edit(r) == SaveOverrides(r) \/ WriteAssetDecisions(r)

Approve(r) == \/ BeginApprove(r) \/ MintPlan(r) \/ RefuseMint(r)
              \/ RevisionOpened(r) \/ ApprovalThrows(r)

Execute(r) == \/ ClaimPlan(r) \/ LockProject(r) \/ RefuseLock(r)
              \/ FreezeInputs(r) \/ RejectExecution(r) \/ EndExecution(r)

Next == \/ \E r \in Request : \/ Generate(r) \/ Verify(r) \/ Ingest(r)
                              \/ Edit(r) \/ Approve(r) \/ Execute(r)
                              \/ RecoverAppend(r)
        \/ Crash \/ Restart

Spec == Init /\ [][Next]_vars

\* Every await settles: a promise resolves or rejects, and a request in flight
\* is then resumed.  Nothing is assumed about when, or whether, one arrives.
Resumes(r) == req[r].pc # "idle" /\ \/ Generate(r) \/ Verify(r) \/ Ingest(r)
                                    \/ Approve(r) \/ Execute(r)

FairSpec == Spec /\ \A r \in Request : WF_vars(Resumes(r))

-----------------------------------------------------------------------------
\* Properties.

Built(s) == [plan |-> tree[s].plan, slot |-> s,
             inputs |-> [pack |-> tree[s].pack, input |-> tree[s].input]]

Contract == INSTANCE ApprovedPlan WITH
  Inputs <- Snapshot, NoInputs <- Nothing, approved <- plans, spent <- claimed,
  built <- {Built(s) : s \in {u \in Slot : /\ tree[u] # Nothing
                                           /\ tree[u].plan # Nothing}}

\* The approved-plan path keeps its promise whatever runs beside it: a plan is
\* spent at most once, builds at most one tree, and builds it from exactly the
\* inputs its owner froze (executeApprovedProjectBuildPlan and its proxy).
ImplementsApprovedPlan == Contract!Spec

\* The row only names builds that exist: rows read before an await are written
\* back whole, and a rejected execution mixes two of them, yet the workspace the
\* row names was composed, and a verified row has the identity of a build that
\* was made (upsertProject, verifyProject, restoreProjectAfterRejectedExecution).
RowNamesABuild ==
  /\ project.state \in {"generated", "verified"} => project.workspace # 0
  /\ project.workspace # 0 => tree[project.workspace] # Nothing
  /\ project.state = "verified" =>
       /\ project.identity # Nothing
       /\ files[project.identity.workspace].dist # Nothing

\* A build never lands in a workspace another build was composed into, though
\* two requests may be handed the same version by nextWorkspace.
WorkspacesAreKept ==
  [][\A s \in Slot : tree[s] # Nothing => tree'[s] = tree[s]]_tree

\* Identity is append-only: what a revision recorded of its source or output
\* is never replaced, however many handlers advance it at once.
IdentityIsAppendOnly ==
  [][\A p \in Opened :
       /\ p \in Opened'
       /\ revisions[p].source # Nothing => revisions'[p].source = revisions[p].source
       /\ revisions[p].output # Nothing => revisions'[p].output = revisions[p].output
    ]_revisions

\* The lock is a word in a row with no owner; these are the requests that wrote
\* it and have not given it back.
Holds(r) == \/ req[r].pc \in {"e.locked", "g.started", "g.composed"}
            \/ req[r].pc \in {"g.decided", "g.stopping"} /\ req[r].plan # Nothing

\* While nothing crashes and every event is appended, a row that says generating
\* has a request working on it, whatever stale row another one writes back.
LockHasHolder == project.state = "generating" => \E r \in Request : Holds(r)

\* The guard of generateProject, "Project generation is already running.", is
\* checked before the preview is stopped and the lock is taken after.
OneGenerationAtATime == \A r, q \in Request : Holds(r) /\ Holds(q) => r = q

\* A task row in state running belongs to a request in flight: no handler
\* leaves its task behind, on any path out (the catch blocks of the service).
TasksSettle == running = Cardinality({r \in Request : req[r].running})

\* Whoever takes the lock, it is given back.
LockIsReleased == (project.state = "generating") ~> (project.state # "generating")
=============================================================================
