# A TLA+ model of the app builder's factory service

The repository is a small factory that turns an approved brief into a generated
website: a service (`apps/service`) takes requests from a console, an MCP server
and an agent broker, ingests source material, generates a site from recipes,
verifies it with a real build, previews it, and keeps a ledger of what happened
(`packages/control-plane`). This directory models the parts of it that several
requests, crashes and a slow disk can pull apart.

- [Inventory](#inventory)
- [Modules](#modules)
- [How the models read the code](#how-the-models-read-the-code)
- [What the runs check](#what-the-runs-check)
- [Fairness](#fairness)
- [What is proved](#what-is-proved)
- [What the models found](#what-the-models-found)
- [What is left out](#what-is-left-out)
- [Plan](#plan)

To check: `tlc -config <run>.cfg <module>` for each run of PROJECT.json, and
`tlapm <module>` for the eight modules of proofs.

## Inventory

The service is one Node process. Every handler is an `async` function over two
stores: SQLite (synchronous, through `FactoryStore`) and files. There are no
locks; what protects a project is that code between two awaits runs alone, a
word in its row (`state: 'generating'`), unique keys in SQLite, and the refusal
to overwrite a directory.

| Component | State | Operations | Talks to |
|---|---|---|---|
| **Project build handlers** `factory-service.js` | `projects` row (state, workspace, knowledge pack, build identity), `tasks` rows, workspaces `builds/<slug>/vN`, file inputs (overrides, asset decisions, layout) | create, ingest, generate, verify, edits, preview | decisions, revisions, store, generator |
| **Approved build plans** `approved-build-plan-service.js`, `-store.js` | one plan per approval id with the digests of nine inputs; one execution row per plan | approve, execute (claim, lock, freeze, generate, restore) | calls `generateProject` through a proxy that answers with the frozen inputs; records events |
| **Mutation decisions** `mutation-decision.js` | none; a decision event per call | decide what governs an operation, and record it | whether a contract exists; the authorizations |
| **Artifact revisions** `artifact-revision-service.js`, control-plane `artifact-evidence.js`, `artifact-lifecycle.js` | none: a replay of the project's events | open, advance, read the live one | the store; generate, verify, approve |
| **Event ledger and read model** `store.js` | `events.jsonl`, `events` table, `last_projected_sequence` | record, reconcile at opening, rebuild | everyone |
| **Action authorizations** `action-authorization*.js`, `mutation-decision.js` | a row per authorization (document, revocation) and a row per consumption | approve, use (check and consume), revoke; they expire | decisions, console, broker |
| **Execution attempts** control-plane `execution-adapter.js`, `attempts.js` | attempt records, journal, timers, environments of the runtime | create, start, collect, cancel, time out, dispose, recover | the container runtime; contracts' state machine |
| **Previews** `factory-service.js`, `preview-proxy.js` | map of project to child process, whether it is ready; the children themselves | start, stop, wait for readiness, on exit | generate (stops it), HTTP proxy |
| **Data changes and recovery** `data-change.js`, `data-recovery.js`, `postgres-recovery-adapter.mjs` | none of its own: plans, approvals, recovery records and evidence are documents in the hands of people; the database a rehearsal damages, the adapter's count of snapshots | classify and plan a change, decide whether it may run, rehearse a restore | the executor, approvers, a database adapter |
| **Pipeline, roles, routing, gates** control-plane, `pipeline-rehearsal.mjs` | a ledger per rehearsal, folded into task, artifacts, complete stages, approvals, attempts | run a stage, hand off, rework, reconcile after a crash | attempts (simulated), ledger |
| **Agent broker and capabilities** `agent-broker.js`, `capabilities.js` | operations spent per attempt; nonces | verify a grant, authorize, record, dispatch | service methods, the project's ledger |
| **Model execution and provider routing** `model-gateway.mjs`, `model-execution.js` | spent decisions, tokens and calls spent; kill switch files | verify, evaluate the lane, call the provider, account | provider, journal, operator |
| **Ingestion and asset governance** `ingestion.js`, `asset-governance.js` | knowledge pack, `asset-decisions.json`, cropped files of each picture | ingest, decide, clear, choose a focal point, replace | files, decisions, the generator that ships the crops |
| **Visual candidates, references, section variants** | one JSON file per project, one workspace per candidate | generate, capture, review, decide, rework, promote | generator, browser, reviewers, design choices |
| **Front ends** HTTP, MCP, console | none | one service call per route | service |

What is hard here, and what would make each part correct:

- **Interleaving at awaits.** A handler reads a row, awaits a build or a ledger
  append, and writes the *whole row* back. Whatever ran meanwhile must not leave
  a row that names a build that was never made, a lock with nobody behind it, a
  task nobody ends, or a workspace built twice.
- **A contract that must hold against everything else.** An approved plan is
  spent once and builds one tree, from exactly the inputs that were approved,
  though edits, ingestions and other generations of the project go on beside it.
- **A ladder of revisions read by replay.** Two handlers may each append the
  event that advances one revision; the second must not rewrite what the first
  recorded, and the stream must remain readable.
- **Two stores without a transaction.** A line can reach the ledger and not the
  table, in another order, or not at all; opening the store has to find out from
  two cheap checks.
- **Death at any await.** Nothing but what is on disk survives.
- **Attempts and previews.** Processes that die when they like, timers that race
  answers, sandboxes and dev servers that nobody owns after a crash or a race.
- **Permission that is spent.** Enable decisions, grants, authorizations: a check
  and a use with an append between them, budgets counted by overlapping calls.
- **Whole documents read, awaited over and written back.** A candidate set must
  not end up with two winners, or rejected with a candidate nobody looked at; a
  picture not published without the rights somebody has to declare for it.
- **One fact kept in three places.** The crops on disk, the recorded focal point
  and the agreement with the crops are rewritten by different calls.
- **A walk that is resumed from its ledger.** Dying between two appends must not
  let a later engine walk past a stage.

The complete list, each at its line, is `hazards` in `PROJECT.json`.

## Modules

| Module | What it is |
|---|---|
| `ApprovedPlan` | The promise of an approved build plan, without requests, rows or awaits: approve freezes inputs, spend happens once, a spent plan builds one tree of what it froze. |
| `ProjectBuild` | One project and the requests that work on it: generate, verify, ingest, edit, approve, execute; the decision about a direct generation; the revision ladder as the service climbs it; rejected appends and the death of the process. |
| `MCProjectBuild` | Symmetry for TLC. |
| `ProjectBuildProofs` | Type correctness of `ProjectBuild`. |
| `ProjectBuildInvariants` | The row names builds that exist; recorded identity stays; the lock has a holder and every task ends. |
| `ProjectBuildRefinement` | `ProjectBuild` implements `ApprovedPlan` and gives the owner what it promises, and workspaces are written once. |
| `EventLedger` | The ledger, the read model and the counter between them: recording, opening, rebuilding, dying in any of them. |
| `MCEventLedger` | Symmetry for TLC, with three recorders. |
| `EventLedgerProofs` | The read model is derived from the ledger and keeps recorded order; with two recorders it is complete, and a rebuild completes it with any number. |
| `AttemptLifecycle` | One bounded attempt: its supervisor, its cancellers, the wall clock, the sandbox and a runtime that may fail to answer about it, the journal, the death of the process and recovery. |
| `AttemptLifecycleProofs` | Type correctness; no sandbox the runtime answered for is forgotten; one outcome is told; what is settled has stopped, or its last line says it was not removed. |
| `MCRecovery` | The instance of `EventLedger` and `AttemptLifecycle` that TLC checks. |
| `PreviewSupervisor` | Start and stop calls of one preview, the children they spawn and the entry that names one. |
| `ModelGateway` | Requests of one attempt to a provider under one enable decision, with the operator, the clock and the provider. |
| `PipelineRehearsal` | An engine walking a pipeline over its ledger, dying and being built again. |
| `StageGate` | What a pipeline promises whoever hired it, without engines, ledger or reviews: stages passed in order, one paid attempt each, within the budget. |
| `MCSupervision` | The instance of these three that TLC checks. |
| `SupervisionProofs` | The held preview lives; a spent decision refuses, and what is spent adds up; no stage is walked past, and the rehearsal implements `StageGate`; the types. |
| `AgentBroker` | Calls that present a grant, are authorized, counted, recorded and dispatched. |
| `ActionAuthorization` | Approving, using, consuming and revoking the authorizations of a project. |
| `CandidateSet` | The file of visual candidates and the seven handlers that rewrite it. |
| `AssetGovernance` | The pictures of a project: decisions about them, their framing, ingestion and replacement. |
| `DataChange` | Plans that change data, planned again or edited around their approvals; snapshots, rehearsals over an adapter that fails; the decision the executor asks for. |
| `MCRecords` | The instance of these five that TLC checks, with symmetry in its people. |
| `RecordsProofs` | Budgets, single use, what is recorded, which refusals may be repaired; declared approvals and framings that follow the record; what a data change was allowed on; the types of all five. |
| `CandidateSetProofs` | One judged winner; a rejection has seen every candidate. |

Attempts share no state but the adapter's map, in which each has its own key, so
one attempt is the general case of `AttemptLifecycle`. `DataChange`
composes its two halves in one module, because what joins them is the document
that goes from the rehearsal to the decision. The eight
smaller components likewise share no variable with each other: a preview, a
gateway, a rehearsal, a broker's grants, the authorizations, the candidates, the
pictures of one project and the changes of its data each keep their own.
`MCSupervision` and `MCRecords` therefore check three and five of them in one run
without interleaving them: the initial state says whose behaviour it is. So does
`MCRecovery` for `EventLedger` and `AttemptLifecycle`, the two that come back from a
dead process by reading lines that were only ever appended: the attempt writes its
own into the ledger, but neither reads a variable of the other. Where they do meet the rest, the meeting is an abstraction of
the module: the ledger a broker or a gateway appends to is one that accepts or
rejects (`EventLedger` says what it then does), and the operation a broker
starts is one that returns or throws (`ProjectBuild` says what it does).

`ProjectBuild` and `EventLedger` meet in one fact. `ProjectBuild` replays revisions with every
event *at the end* of the stream; in the code the stream is the `events` table
in order of sequence. `EventLedger!RecordedOrder` is what justifies it: an
advance is recorded by a handler that has read the opening event, and no crash,
replay or rebuild moves it before that event. Only events recorded concurrently
can change places, and of two concurrent advances either order has the same
effect on the revisions.

## How the models read the code

**ProjectBuild.** Code between two awaits is one action. `req[r].pc` names the
await a request is in and the other fields are its local variables:

| Model | Code |
|---|---|
| `project` | the row of the `projects` table: `state`, `workspace` (0 is none), `pack` (`knowledgePack`), `identity` (`buildIdentity`) |
| `held` | the row a handler read before an await and spreads into its next upsert (`{ ...project, ... }`) |
| `original` | `original` in `executeApprovedProjectBuildPlan`, what a rejected execution puts back |
| `frozen`, `plan` | the snapshot behind `frozenGenerationService`, and the plan the generation runs under |
| `slot` | the version `nextWorkspace` chose, before anything exists there |
| `inputs`, `Input` | all files a generation reads besides the pack. They are compared by digest and nothing else, so a state of theirs is one value |
| `tree[s]` | what workspace `s` was composed from; `files[s]` the source bytes it has now and the `dist` built from them |
| `plans`, `claimed` | the two tables of `approved-build-plan-store.js` |
| `revisions`, `poisoned` | the result of replaying the project's events: a revision per plan, and whether an event was refused by the reducer, which then throws on every read |
| `pending` | the revision event of the append a request is waiting for |
| `running` | rows of `tasks` in state `running` |

| Action | Code |
|---|---|
| `BeginGenerate`, `StartGeneration`, `RefuseGeneration`, `PreviewStopped` | decision, guard, version and lock of `generateProject` |
| `Compose`, `ComposeFails`, `FinishGeneration`, `RevisionMaterialized`, `GenerationSucceeded` | the `try` of `generateProject`; `GenerationFails` and `GenerationThrows` its `catch` |
| `StartVerification` ... `RevisionBuildable` | `verifyProject`: snapshot of the source, build, identity, ladder; `VerificationFails`, `VerificationThrows` its ways out |
| `StartIngestion`, `AttachPack`, `EndIngestion` | `ingestSources` |
| `SaveOverrides`, `WriteAssetDecisions` | an edit that is replayed into the live workspace, and one that waits for the next build |
| `BeginApprove`, `MintPlan`, `RevisionOpened` | `approveProjectBuildPlan` |
| `ClaimPlan`, `LockProject`, `FreezeInputs`, `EndExecution` | `executeApprovedProjectBuildPlan`; `RejectExecution` and `Throw` its `catch` |
| `Crash`, `RecoverAppend`, `Restart` | the process dies; an append in flight may or may not have reached the disk |

Two details are easily lost and are there: `Upsert` keeps the stored identity
when the new row has none (the `COALESCE` of `store.js`), and a direct
generation reads the project *live* between its awaits while a governed one
reads the row that was frozen for it (`ReadProject`, `ReadInputs`).

**EventLedger.** `ledger` is `events.jsonl`, `rows` the table, `counter` the row
`last_projected_sequence`. `Record`, `AppendLands`, `Project` are `recordEvent`
before, during and after its one await; `ProjectThrows` is the foreign key that
fails for an event whose project the database does not have. `Open` is the
choice `reconcileProjection` makes, `CanReplay` its two checks, `ReplayEvent` and
`Opened` the loop and the counter it sets; `Rebuild` and `RebuildDies` are the
operator's command. `earlier` is a history variable: for each event, what was in
the ledger with nobody waiting for it when it was recorded.

**AttemptLifecycle.** `entry` is the value in the adapter's `live` map: whether
it is there, whether it has a handle, whether its timer is armed, its
`forcedReason` and its `result`; `attempt` is `entry.attempt`. `box` is the
sandbox as the runtime has it, `lines` the attempt's events in the durable
journal. `at[p]` is the await caller `p` is suspended in, `note[p]` the payload
it is appending (taken from the attempt when the append began, which may have
changed when it lands), `held[p]` whether the driver call it awaits was given a
handle. There are three kinds of caller:

- the *supervisor* creates, starts, collects and disposes, in this order and
  each after the other has answered, as `tooling/runtime-canary.mjs` and
  `tooling/model-canary.mjs` do; it may give up and dispose between any two;
- a *canceller* calls `cancel` once, at any await of the supervisor (the
  kill-switch watcher of `model-canary.mjs` is set before `createAttempt`);
- the *clock* is the timer `start` arms.

| Action | Code |
|---|---|
| `CreateAttempt`, `CreatedLands`, `CreateReturns`, `StartingLands` | `createAttempt`; `CreateRejects`, `StartingRejected`, `FailedStartLands` its `catch`. A `create` that rejects may have made the sandbox: the command timed out, or named no id (`execution-driver-podman.mjs:31-38, 100-103`) |
| `Start`, `BoxStarts`, `StartReturns`, `StartTooLate`, `StartedLands` | `start`; the sandbox runs before the call returns, and the transition after it may be refused |
| `Collect`, `Settle`, `SettledLands` | `collect` and `#settle`, for whichever caller gets there |
| `Cancel`, `TimerFires`, `StoppingLands`, `SignalReturns`, `StoppedRejected` | `#stop`, which settles again, with no exit code, when its own settling rejects |
| `Dispose`, `KillReturns`, `RemoveReturns`, `RemoveRejects`, `InspectReturns` | `dispose`, with `terminate` inside it, up to what it makes of the runtime's answer (`Disposed`) |
| `RemoveSkipped`, `InspectUnanswered` | the same where there is no handle to ask about, and where `podman inspect` fails, which the driver reports as absence |
| `DisposedLands`, `DisposedResumes` | the line "disposed" is in the journal; only then is the entry deleted, and the throw made. A process may die in between |
| `...Rejected` | the same appends when the journal rejects them |
| `BoxExits`, `Dies`, `Recover`, `RecoverUnreadable` | the task ends; the process dies; `recover` in the next one |

What the drivers do is taken from both of them: `collect` waits for a running
sandbox, a signal to one stops it (politely, then by force, as the drivers
implement it), `remove` may fail or do nothing and says nothing of it. A call on a
null handle finds nothing (one driver throws, which the adapter swallows; the other
answers without an exit code). Elsewhere an append lands and its caller resumes in
one step: what it does next is in the process alone (a field of the entry, the next
call), so a death between the two is a death after both.

Four history variables remember why a promise no longer holds: `unrecorded` (an
append rejected), `thrown` (dispose threw "Treat it as an orphan"), `unanswered`
(the runtime held a sandbox and failed to say so), `hasty` (a cancel came before
`createAttempt` and `start` had both returned).

**PreviewSupervisor.** `preview` is the entry of the `previews` map, `child[c]`
the process call `c` spawned, `ready[c]` the flag of its entry. A child is
`exited` with an exit code or `killed` by a signal without one; the code looks at
exit codes only, and the difference is what makes `EndingTimesOut` necessary.
`StartDecided` is the check of `startPreview`, `SpawnChild` what follows the await
of a port, `ChildAnswers` and `WaitGivesUp` the two ends of `waitForPreview`,
`Terminate` is `terminatePreview`, `Released` what an exit does to the map: the
handler compares the entry with the child, the calls that wait for the exit
delete it without looking.

**ModelGateway.** `modelAt[r]` is the await request `r` is in. `Evaluate` reads
the switch, verifies the decision and evaluates the lane; `Dispatch`, after the
journal, looks at the credential only, spends the decision and calls the
provider; `ProviderAnswers`, `ProviderFails` and `TimerAborts` are how that call
ends, `Account` the fold of its usage into `spend`. `called` and `late` are
history: who reached the provider, and who was evaluated after somebody had.

**PipelineRehearsal.** The durable variables are the result of
`foldRehearsalLedger`, `engineAt` is the append the engine makes next. Each
append is one action, so that `Dies` falls between any two. `Read` is
`ensureStarted`, `evaluateLoopGuard` and `projectPipelineProgress`; what a stage
comes to (`OutcomeOf`) is decided once, before the appends that write it down,
as in the code; a new engine (`Construct`) reconciles and reads again.

**AgentBroker.** `brokerAt[c]` is the await call `c` is in; `opsSpent` is the map
`spent`. `Authorise` is `authoriseAgentOperation` and the count, in one step;
`AllowanceReturns` resumes after the record and starts the operation;
`CreationReturns` is the second append, for a project that was created meanwhile.

**ActionAuthorization.** `approvalOf` and `revoked` are the first table,
`consumedBy` the second, `lapsed` the rows whose time has come. `Use` is
`authorizeAction` up to its first await: nothing comes between the check and the
insert, in one process. `UseChecks` is the order of the checks of
`assertActionAuthorizationUsable`, and `FailsFirst` picks the first that fails.

**CandidateSet.** `set` is the file, `shooting[k]` and `choosing[p]` the documents
a capture and a promotion hold across their awaits, `built` the workspaces on
disk. The operators on a document (`Reviewed`, `Promoted`, `Decided`,
`Attached`, `Photographed`) are the functions of the two tooling modules, and the
actions are the handlers that apply them.

**AssetGovernance.** `decided` is `asset-decisions.json` by picture, `pictured` the
pictures of the knowledge pack, `crops` how the files on disk are framed. A call
holds in `draft` the document `writeAssetDecisions` will write after its await.

| Action | Code |
|---|---|
| `Decide`, `ClearDecision`, `WriteDecisions` | `decideProjectAsset` up to the await in `writeAssetDecisions`, and the write |
| `Recrop`, `CropsLand`, `Recropped` | `recropProjectAsset`: the files are made first, then the decisions are read and one entry framed |
| `IngestPicture`, `VariantsLand`, `PackAttached`, `Reapply`, `IngestionEnds` | `ingestSources`, with `materializeImageVariants` and `reapplyAssetFocalPoints` inside it |
| `ReplacePicture`, `Replaced` | `replaceProjectAsset`, around an ingestion; it checks the new picture after ingesting it |
| `CallFails` | another source, or another crop, throws when files have been made |

`Publishes` and `ShipsCrops` are what the composition and the generator make of
the record. Three variables are history: `stated` and `saw` in an entry (a person
gave the verdict; the framing in front of him), and `disturbed`, once two calls
overlapped or one failed with files made, for then a framing can be lost and
nothing claims otherwise.

**DataChange.** No service stores a plan, so the model has no variable for one: an
executor may at any moment submit any plan, with any recovery record and evidence
there is. `Plans` has every text under the classes and digest read from it
(`AsPlanned`) and under those read from any other (`Edited`), because the decision
trusts what the plan says of itself. What is state is what people and adapters left behind: `approvals`,
`applied`, `snapshots`, `evidence`, and the `rehearsal` under way.

| Definition | Code |
|---|---|
| `StatementShapes`, `Matches`, `ClassOf`, `WorstClass` | the shape table in its order, `classifySqlStatement`, `worstClass`; a statement is the sequence of its clauses, its first words first. A shape is anchored there (`heads`) or looks for a clause behind `alter table` (`inside`); an entry of `statements` is one statement, whatever stands in it |
| `Approve` | an approval by its approver's name or by none (`grantedBy` null, 319), bound to a digest |
| `PlanDataChange`, `PlanDigest`, `FactsRequired`, `RecoveryRequired`, `RehearsalRequired`, `ApprovalRequired` | `planDataChange`, `dataChangePlanDigest`, `dataChangeRequirements` |
| `Coherent`, `Sanctioned`, `Restorable` | `evaluateDataChangeSafety`: what a submission is refused for by itself, by the migrations and approvals on record, and by the snapshot and the rehearsal it names; `Allowed` is what passes all three |
| `BeginRehearsal`, `MeasureBaseline`, `CaptureSnapshot`, `Damage`, `Restore`, `AdapterThrows` | the steps of `runRestoreRehearsal`, each with every answer of the adapter; `Conclude` is `rehearsalResult` |
| `Counts`, `Captures` | `capture` of the PostgreSQL adapter, which numbers its snapshots from one and counts those that fail |

`reviews` and `restored` are history: what an approver read, and the last restore
that did bring back what was captured from something that differed from it.
Which database a snapshot was taken of is recorded truly, and the executor says
where it is; one that says nothing (`runtime` left out) is not compared by the
code at all. The disposable database has no other user, so damage and the look at
it are one step.

## What the runs check

| Run | Instance | Properties |
|---|---|---|
| `build_safety` | 2 requests in flight, at most 4 in all, 2 plans, 2 input states, 2 workspaces, crashes and rejected appends | `TypeOK`, `RowNamesABuild`, `ImplementsApprovedPlan`, `WorkspacesAreKept`, `IdentityIsAppendOnly` |
| `build_liveness` | the same with 1 plan, no crash, no rejected append, fairness | `LockHasHolder`, `TasksSettle`, `LockIsReleased` |
| `recovery` | 2 recorders, 4 events of which one is an orphan, 2 crashes; 1 supervisor, 1 canceller, the clock, 1 crash, any call or append rejects; fairness | `RecoveryTypeOK`, `RowsComeFromLedger`, `RecordedOrder`, `ReadModelEqualsLedger`, `SandboxIsHeld`, `SettledIsStopped`, `OneOutcome`, `EventuallyProjected`, `CollectIsAnswered`, `ArmedIsBounded` |
| `supervision` | 3 preview calls; 2 model requests, budgets of 2 calls and 3 tokens; a pipeline of 3 stages, 3 engines, 5 attempts; fairness | `SupervisionTypeOK`, `PreviewIsAlive`, `SpendIsAccounted`, `LateCallsAreRefused`, `CompleteIsBacked`, `ImplementsStageGate`, `PreviewCallReturns`, `ModelCallIsAnswered`, `RehearsalStops` |
| `records` | 2 broker calls of 2 attempts; 2 approvers of one approval, 2 users, a revoker; 2 directions with one rework pass, a capture, a promotion, 2 sets; 3 calls on 2 pictures, one unlicensed, with 2 focal points; plans that lose data and one that loses it unread, 2 people, an approval, 2 snapshots of each of 2 databases, rehearsals by a failing adapter | `RecordsTypeOK`, `BudgetIsKept`, `OneUsePerApproval`, `WinnerIsJudged`, `NoneIsRejectedUnseen`, `ApprovalIsDeclared`, `CropsFollowRecord`, `AllowedWasReviewed`, `AllowedIsRestorable`, `VerifiedMeansRestored`, `DoneIsRecorded`, `RefusalSaysTheWorst` |
| `second_plan`, `one_generation`, `ledger_three`, `attempt_exit`, `attempt_orphan`, `preview_held`, `crops_as_seen` | small instances | one property each that the code breaks; see [below](#what-the-models-found) |

**Bounds.** `MaxRequests` counts every request that ever arrives. Four are enough
for approve, execute and two that interfere, or generate, verify, rebuild and an
edit. With five, the safety properties were run once and hold too (993,199
states). `MaxBuild` is 2 where the code has 50, so that running out of
workspaces, and a rebuild, both happen. Two states of the file inputs are enough
to tell approved from drifted, and one knowledge pack beside none is enough to
tell attached from lost. Two requests in flight give every pairwise interleaving;
what three can do that two cannot is bounded by the proofs, which have no bound.
In the ledger two crashes allow one inside the recovery from the other, and three
ordinary events with one orphan let every one of the replay's counts be wrong.
An attempt needs no bound but the number of cancellers: each caller makes its
calls once, so the model is finite. One canceller with the clock and the
supervisor puts three callers into `#settle` at once, which is every race the
code has; with two cancellers the six properties of the attempt were checked once and
hold (1,340,513 states), and the safety properties are proved for any number. The
two components together are 230,058 states.

Three preview calls are two starts that race and a stop (or a third start) while
either child dies. Two model requests are one that is late and one that is not,
or two that overlap; budgets of a few tokens make each limit bite. The rehearsal
needs three stages so that a rework can go back over a complete stage to an
earlier one, five attempts so that two stages can rework each other, and three
engines so that one that recovers dies again. Two broker calls meet a budget of
one and a budget of two; two approvers and two users of one approval are every
race for a unique key; and a second candidate set is needed so that a capture or
a promotion of the first can end after it was replaced. Three calls on pictures
are a framing between two ingestions, or a decision beside another one of a
replacement; losing a framing that was agreed with takes four, which
`crops_as_seen` has. Every safety property of the eight components, and the types
of both runs, is also proved without these bounds.

A change of data in `records` has two scripts: one loses a column before it adds one,
and one loses a table behind a create, in an entry nobody split, which the reader
takes for additive. Each may name either database, and name a proposer or nobody;
two people, who differ in name only (`MCSymmetry`), are one who proposes and one who
may approve. Two snapshots of each database let evidence be of the wrong one, and two
moments with windows of zero make everything recorded in the first stale in the
second. The run has 501,566 states. With two approvals (832,248 states), with windows
of one tick and three moments (1,060,540), and with four scripts and one snapshot of
each (31,840), the three properties were checked once and hold; they are proved for
any. In `supervision` (69,159 states) a provider may report more output than it was
asked for, up to `MaxReported`; nothing in the gateway compares the two.

**Exemptions of the attempt's properties.** `CollectIsAnswered` and
`ArmedIsBounded` are exempt after a rejected append (`unrecorded`), because
`#stop` appends before it signals, and after an early cancel (`hasty`), because
an attempt that has exited and then starts is never stopped again: that is the
defect `attempt_exit` shows, and without the exemption it would hide every other
way to break them. `OneOutcome` is exempt from the same early cancel. `SandboxIsHeld`
and `SettledIsStopped` are not: they hold in all those cases. What exempts them is a
runtime that held a sandbox and failed to say so (`unanswered`): the adapter has then
no handle to ask about, or was told that the sandbox is gone, and does forget it.
`SettledIsStopped` also accepts a last line that itself says the removal was not
confirmed, because dispose may die between that line and its throw; whoever reads
the line can know, but `recover` does not read it, which is what `attempt_orphan`
is about.

**Deadlock** is not checked: the service stops when nobody calls it, the bounds
stop the model, and an attempt is over once it is disposed of or recovered.

**Crashes and liveness.** `build_liveness` excludes crashes and rejected appends,
because the code does not survive them there: nothing resets a row that says
`generating` after a restart, and `build.started` is awaited between the lock and
the `try`. The repository does not claim otherwise; both are listed as hazards.

**A limit of `RowNamesABuild`.** It says that the identity of a verified row is
that of *a* build, not of the build in `workspace`. With six requests of three
callers a rejected execution can restore an old workspace next to a newer
identity; that is listed as a hazard and is beyond the exhaustive bound.

## Fairness

`ProjectBuild!FairSpec` has weak fairness of `Resumes(r)` for each request: a
promise settles and the continuation runs, which is what Node's event loop gives
every await whose operation ends. Nothing is assumed about requests arriving or
the process dying. Weak fairness is enough since a pending continuation stays
pending. `LedgerFairness` has it for each recorder's resumption, for
opening a store that is down (the unit file restarts the service) and for the
loop of the replay. That crashes stop is the bound `MaxCrashes`, an assumption of
the model: with a crash for every replay nothing would ever be projected.

`AttemptFairness` is weak fairness of the steps that continue a call of
the supervisor, of each caller's stop, and of the timer. It has none of the
supervisor's *calls*, of `Cancel`, of a task ending by itself, or of anything
failing: `ArmedIsBounded` is to hold although nobody polls, as the comment at
`execution-adapter.js:177` says, and `CollectIsAnswered` although the task hangs.

`PreviewFairness` is of every call that has been made, since ports, appends and
timers come back, and of a child ending once somebody signals it
(`terminatePreview` ends with SIGKILL to the group). A child is not assumed to
answer, or to die by itself. `GatewayFairness` is of appends and of the request's
timer, not of the provider and not of a caller sending its body.
`RehearsalFairness` is of the engine's own steps and of reconciling: an engine
that is alive goes on. Nobody is assumed to call `finish` or to build an engine.

## What is proved

All proofs are checked by TLAPS for every value of the constants, from the
assumptions `BuildAssumption`, `NothingAssumption` and `LedgerAssumption`, which
say that the bounds are numbers, the switches are Booleans and null differs from
what it stands in for, `CallerAssumption`, that no canceller is the supervisor or
the clock, and the assumptions of the eight smaller modules, which give their
parameters their types (a broker has finitely many calls, a candidate set at
least two directions and finitely many).

- `ProjectBuildProofs!TypeCorrect`. `TypeOK` alone is not inductive: a handler
  uses the row it holds, the plan it runs under and the workspace it chose
  because an earlier step set them. `TypeInv` adds, for every await, which
  locals are set there (`LocalInv`), that a row only names a workspace with files
  (`RowHasFiles`) and that a composed workspace has bytes (`TreesHaveFiles`). A
  held row may be old, so what it says must be *stable*: files, once there, stay
  (`FilesGrow`), which is why the lemma `OthersKeep` carries every other
  request's locals over a step.
- `ProjectBuildRefinement!PlanRefinement`: `Spec => Contract!Spec`, that is, the
  service implements `ApprovedPlan`. `PlanInv` says that a request that generates
  under a plan spent it itself and is the only one with that plan in its hands,
  that the inputs it froze are the approved ones, and that its plan has built
  nothing until it composes. Every step then maps to `Approve` (`MintPlan`),
  `Spend` (`ClaimPlan`), `BuildUnder` (`Compose`, or a composition that throws
  after writing) or a stutter.
- `ProjectBuildRefinement!WorkspacesKept`: no step composes into a composed
  workspace, although two requests may hold the same version.
- `ProjectBuildRefinement!PromiseHolds`: what the contract gives the owner, of the
  service itself: `Spec => []Contract!Promise`. The promise, with the fact that a
  spent plan was approved (`OwnerInv`), is kept by the three steps of the contract,
  and every step of the service is one of these or a stutter.
- `ProjectBuildInvariants!RowNamesBuilds`. Requests write back rows they read long
  before, and a rejected execution puts an old state beside the current identity, so
  what is claimed of the row has to be claimed of every copy in flight (`RowInv`):
  a copy names a workspace and an identity that exist (`SoundRow`, stable because
  files only grow), a verification holds a workspace, and the row never loses an
  identity, which is what makes the mixture of two rows sound.
- `ProjectBuildInvariants!IdentityIsKept`, from `LadderInv`: a revision below a rung
  has not recorded what the rung earns (`RungEarns`), and at most one request has the
  opening of a plan's revision in its hands, and only while there is none
  (`OpenedOnce`). Without the second part a late append would start a revision over.
- `ProjectBuildInvariants!LockIsHeld` and `TasksAreSettled` assume `Reliable`, that
  the process lives and appends succeed, which are the hypotheses of the run that
  checks them, and finitely many requests. `AccountInv` says that a request has a
  running task exactly at the awaits where it should (`TaskAwait`), that the count is
  their cardinality, and that no copy which is written back whole says `generating`
  (`Unlocked`): a lock nobody holds can only come from such a copy.
- `EventLedgerProofs`: `LedgerTypeCorrect`, `RowsAreDerived`, `RowsKeepOrder`.
  `LedgerInv` adds that each event has at most one line, that lines keep recorded
  order, what a replay under way has projected (`ReplaySoFar`: exactly the rows
  it began with and the lines passed), and `NothingOverdue`: whatever was settled
  when an event in flight was recorded is projected, or cannot be. It is this
  last part that makes a late `Project` safe, and it survives crashes although
  the read model may be incomplete, because a crash ends all recording.
  `TwoRecordersReadAll` says that the read model is complete if at most two requests
  record at once (`AtMostTwo`, an assumption of this theorem only; with three it is
  false, see `ledger_three`). `TwoInv` says why. Of two lines that wait for their
  insert one is the last of the ledger (`LastIsPending`), and what was inserted past
  the other is in the ledger's order (`PendingOrder`). So when the store dies with a
  line missing before the counter, the rows cannot be as many as the counter says
  *and* end in the ledger's line at the counter, which is what `CanReplay` compares
  (`NoRoom`, a pigeonhole): the replay from the counter is safe (`ReplayIsSafe`).
  `RebuildRestores` says of any number of recorders that a replay of the whole
  ledger, begun at zero, ends with exactly its events, the orphans left out, in its
  order, and with the counter at their number (`ReadThrough`: each line passed is a
  row or a counted orphan, because no event has two lines). So what `ledger_three`
  finds missing is missing until the next rebuild, and not longer.
- `AttemptLifecycleProofs`: `AttemptTypeCorrect`, from `Shape`, which adds to
  `AttemptTypeOK` that a caller in an append has an event to append (`Noted`); and
  `NoSandboxForgotten`. `SandboxIsHeld` is strengthened to `Holding`: the entry
  is live from the supervisor's first call until dispose lets it go, a sandbox that
  exists has its handle in the entry unless the runtime failed to say that it does
  (else dispose would take it for removed), and a disposal recorded as removed is of
  a sandbox that is gone, as far as the runtime answered (`Gone`), both in the append
  and between the line and the throw (`Concluded`). The steps of cancellers and the
  clock move neither the supervisor nor the entry's handle (`OthersHold`), so any
  number of them is harmless. `OneOutcomeTold`: `Agreeing` says that nobody else has
  begun before the attempt has started, and that every end in the journal *or in an
  append in flight* is the one the attempt came to; an end, once come to, stays
  (`EndStays`). `SettledHasStopped`: `Confirmed` says that every line in the journal
  or on its way to it is `Honest`: if it says that the removal was confirmed, the
  sandbox is gone, as far as the runtime answered. What is gone stays gone
  (`GoneStays`), since nothing makes a sandbox once the supervisor is past `create`.
  So wherever the process dies, the line recovery settles on is either true or says
  itself that it was not confirmed.

- `SupervisionProofs`. `HeldPreviewLives`: `PreviewInv` adds that a call past its
  spawn has a child of its own and one before it has none, so that a spawn puts a
  living child in the map, and that deaths reach the entry. `SpentDecisionRefuses`:
  `LateInv` adds that once somebody was called the decision is spent, and that a
  late request stands nowhere between its evaluation and the provider.
  `NoStageIsWalkedPast`: `CompleteIsBacked` is strengthened by what the engine
  carries between two appends (`CarriesInv`): at "produced" and "promoted" its
  stage is the next one, with its approval recorded and, at "promoted", its
  artifacts too. Artifacts and approvals only grow, which is why a rework or a
  death never takes back what a complete stage rests on.
  `RehearsalIsAStageGate`: `RehearsalSpec => Gatekeeper!GateSpec`, that is, the
  rehearsal implements `StageGate`. From the reading that lets an attempt begin to
  the append that records it both counts are below their limits (`BudgetInv`), because
  nothing else is recorded in between, and an engine that died leaves nothing to
  record; and the stage it promotes is the next one, not yet complete (`CarriesInv`).
  So `RecordAttempted` is `Try`, `RecordPromoted` is `Pass`, `RecordRework` is
  `Return`, and every other step keeps what was earned or loses it.
  `RehearsalKeepsBudget` is `Gatekeeper!Promise` of the rehearsal itself.
  `SpendAddsUp` and the budget need sums over the calls and the stages. `Total(v, S)`
  is the sum by a function on the subsets of `S`, which exists by induction on their
  cardinality (`TableExists`; `Induction` is over *sets* of numbers, from `WFMin`) and
  does not depend on which element is taken first (`TablesAgree`, `TakeOut`), so that
  one more call adds its own amount (`TotalAdds`) and one entry raised by one raises
  the sum by one (`TotalGrows`). `InputFolds`, `OutputFolds` and `AttemptsFold` say
  that the folds of the model are such sums. `SpendInv` then says that the token
  counts are the sums over the accounted calls, and that a call is accounted only
  once its answer is journalled. `SupervisionTypes` puts the invariants of the three
  components side by side.
- `RecordsProofs`. `BudgetNeverOverrun` counts claims: the calls of an attempt
  that were allowed are at most `opsSpent`, and `Allow` raises that only below the
  limit (`Claims`, `CountInv`, `UnstartedInv`). `WhatIsDoneIsRecorded` needs that a
  call at its operation has been recorded or refused unless the project was
  missing when it was allowed. `AnApprovalPermitsOnce` is two unique keys in turn:
  one row per approval (`UniqueInv`), one consumer per row, and a permitted use is
  that consumer (`PermittedInv`). `RepairIsWorthwhile` follows from the order of
  `UseChecks`. `ApprovalsAreDeclared` claims `Sound` of the file and of every
  document a call holds, so that a late write puts back something sound.
  `CropsFollowTheRecord` needs, for the one call at work, what it has left undone
  (`PhaseOK`): the files follow the document it will write, or the record but for
  its own picture, or but for the framings still in `pending`. `MovesAlone` says
  why the calls that are not at work do not matter. `AllowedWasAlwaysReviewed` rests
  on every approval standing for a text its approver had in front of him, under the
  name given or under none (`ApprovalsWereRead`), for the digest is all the decision
  compares, and on the digest of a plan as planned being that of its text
  (`PlannedParts`). `AllowedIsAlwaysRestorable` rests on two facts: the worst class of a plan as planned is
  irreversible or unread when any of its statements is irreversible (`WorstIsWorst`), and
  evidence that says verified is of a performed restore. The latter,
  `VerifiedMeansItWasRestored`, is strengthened by `RehearsalKnowsWhatItLost`: at
  "restore" the adapter has reported the damage, so it is not one that answers what
  it is asked, and what it holds differs from the baseline. A number is assumed not
  to stand for an absent snapshot, and no bound of the instance is needed.
  `RecordsTypes` puts the invariants of the five components side by side; only the
  broker (`BrokerTypesKept`) and the directories of the candidates (`BuiltKept`)
  need more than their other theorems had.
- `CandidateSetProofs`. Both properties follow from `SoundSet(d)`, which is claimed not
  only of the file but of every document a capture or a promotion holds: whatever
  is written back late was sound when it was read, and every operation takes a
  sound document to a sound one.

Only model-checked: the liveness properties, since the prover has neither `ENABLED`
nor fairness. The library's induction theorems take an operator as a parameter, which
no prover here instantiates; the sums above are therefore proved by first-order
induction over sets of numbers, and no definition is recursive.

## What the models found

Each is a run that TLC must find violated, and an entry under `findings`.

- **A second plan makes the stream unreadable** (`second_plan`). Nothing
  supersedes the revision the first plan opened, and two live ones throw.
- **Two generations at once** (`one_generation`). Ingestion writes back a row it
  read before a generation locked it; and two rebuilds pass the guard while the
  preview stops.
- **An event left out at opening** (`ledger_three`). Three appends projected out
  of order can pass both checks of the replay.
- **An attempt that ended starts again** (`attempt_exit`). A cancel during the
  preparation ends the attempt; `createAttempt` goes on from its own copy, takes
  it back to `starting`, and the sandbox is started.
- **An orphan recovery does not report** (`attempt_orphan`). The comment of `recover`
  promises the handle of a sandbox that runs though its attempt is gone in the
  ledger. The code takes it out of what the runtime listed, says
  exited-not-disposed or settled, and gives no handle; only sandboxes the ledger
  never mentioned are reported. A cancel during `start` followed by a crash gets
  there, and so does a dispose that dies between its line and its throw.
- **A dev server nobody holds** (`preview_held`). Two starts of a preview both find
  none, both await a port and both spawn. The map keeps the second child; the
  first serves on where no operation can stop it.
- **Crops ship that nobody saw** (`crops_as_seen`). A new verdict is a new entry
  without the focal point of the old one, so agreeing with re-framed crops loses
  the point they were made with. The next ingestion of the picture frames it by
  the heuristic, and the agreement still stands.

Other behaviour the models reach, and that a reader should know of, is listed under
`hazards` with a note: a direct generation decided before an approval goes round
the contract; a buildable revision keeps the source digest of its generation; the
kill switch is not read again between the journal and the provider; overlapping
requests under one enable decision are all sent; an engine that dies between the
task and its seeds leaves a rehearsal that cannot go on; a capture that ends late
undoes a promotion whose design choice stands; a candidate set decided `rejected`
has no winner, and generation goes on refusing as if it were undecided; of two
overlapping decisions about pictures the later write undoes the earlier; choosing
a focal point of an unlicensed picture nobody has decided about records it as
approved, with no declaration.

About the sandbox of an attempt, the comment at `execution-adapter.js:316-318` says
that dispose asks the driver "to confirm removal rather than assuming it". Two
answers are assumptions: with no handle it asks nothing and takes the sandbox not to
exist (331), although a rejected `podman create` may have made one; and a `podman
inspect` that fails is reported as absence (`execution-driver-podman.mjs:118`).
`SandboxIsHeld` names both as the one way to forget a sandbox.

Some things about changes of data are left as the code has them, and no property
claims otherwise.

- An approval may name nobody (`data-change.js:319`), and then `live.every(...)` (540)
  does not find the proposer to be the only approver, so a nameless approval by the
  proposer clears the test of "the proposer cannot be the only approver"
  (`data-change-safety.test.mjs:324`, which only has named ones). A plan that names
  no proposer is not tested at all. `AllowedWasReviewed` exempts both.
- The decision trusts the digest, the classification and the classes the plan carries
  (528, 403, 412). A plan changed in hand after it was planned passes on what was read
  before. The input is documented as "a plan from `planDataChange`" (382); the models
  reach the others, and the two properties speak of plans as planned.
- An entry of `statements` is not split (270-272), and only after `alter table` is it
  read beyond its first words. So `create table a (); drop table b` is additive, and
  one clause the reader knows classifies a whole `alter table`, a `drop b` beside it
  included. The comment at 241-243 has an unrecognised statement "stop the change
  instead of riding along with the recognised ones"; inside an entry it rides along.
  `AllowedIsRestorable` speaks of what the reader sees.
- Evidence names the snapshot it restored by an id alone (494) and the adapter's ids
  start over in every process, so the rehearsal of a disposable database passes for a
  production snapshot of that id nobody restored, which line 492 calls "an untested
  claim"; `AllowedIsRestorable` says so by naming `Disposable`.
- `contract` ranks above `backfill` and does not require the impact (354), so a rename
  behind an update takes away the question how many rows the update touches. And the
  comment at 350 has a production backfill "recoverable too", while
  `RecoveryRequired` asks a snapshot of irreversible classes only.

## What is left out

- Bytes of the ingested assets: in `ProjectBuild` the pack stands for them, in
  `AssetGovernance` the framing of their crops. A governed generation reads asset
  files through the proxy like its other inputs. Crawling, extraction, facts and
  source governance; exact duplicates of a picture, lineage and notes. The merge
  of normalised sources needs no model: it reads and writes its file without an
  await in between.
- A composition that throws halfway leaves a directory; the model treats it as
  composed, which is all later code can see of it (`nextWorkspace` skips it).
- Appends land whole. A torn last line makes every opening throw in `JSON.parse`;
  the guarantee is the file system's.
- `rebuildProjection` runs on a store that is not up. Beside a running service
  its statements would interleave with the service's.
- `disposeAll` beside an attempt being created (it would leave the sandbox in
  nobody's hands); it has no caller outside tests. A wait on a container that fails
  or returns before the container stopped. `createAttemptPlan`
  and the sandbox specification are checks of their input.
- Signatures, digests and nonces of grants, decisions and authorizations: a document
  that does not verify is refused where its check stands in the order, and no
  module forges one. Restarts of the broker and the gateway, which keep what was
  spent in memory only.
- The harness limit of stages of a rehearsal (the engine may stop at any reading),
  its ChangeSets and convergence report; providers and adapters beyond answering,
  failing or hanging; scores and reasons of reviews.
- The other edits (layout, sections, references) repeat `SaveOverrides` or
  `WriteAssetDecisions`. `requestId`, which an execution row also keeps, only
  names the caller.
- Upper rungs of the ladder, dispositions and evidence: the service never climbs
  them for a project.
- Of data changes: the splitting of a text into statements, inputs with missing
  fields (refused at once), capture times in the future, a snapshot that fails outside
  a rehearsal, adapters that start over with their ids (ids of two databases collide
  without it), an adapter that is deaf for a part of a rehearsal only, and invariants
  that answer "error:" before and after alike. Recipe upgrades, routing,
  composition: functions of their inputs that keep no state.
- Front ends, generator, recipes, templates, composition, intake: transports and
  functions of their inputs without shared state. `ProjectBuild` uses only that
  the generator refuses a directory that exists.

## Plan

In order, the hardest behaviour first; all of it is in place but the last.

1. `ProjectBuild`, `ApprovedPlan` and their proofs.
2. `EventLedger` and its proofs.
3. `AttemptLifecycle` and its proofs.
4. `PreviewSupervisor`, `ModelGateway`, `PipelineRehearsal` and their proofs.
5. `AgentBroker`, `ActionAuthorization`, `CandidateSet`, `AssetGovernance` and their
   proofs.
6. The remaining safety of `ProjectBuild`, proved in `ProjectBuildInvariants`.
7. `DataChange` and its proofs.
8. The sums of `ModelGateway` and `PipelineRehearsal`, the two-recorder theorem of
   `EventLedger`, and the types of the composed runs.
9. Left: the other pure decision tables (upgrades, routing) against reference
   definitions.
