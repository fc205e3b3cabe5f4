----------------------- MODULE ProjectBuildInvariants -----------------------
(***************************************************************************)
(* The project row, its lock, the tasks and the recorded identities of     *)
(* ProjectBuild, for every number of requests, plans and workspaces.       *)
(***************************************************************************)
EXTENDS ProjectBuildProofs, FiniteSetTheorems

USE BuildAssumption, NothingAssumption
USE DEF contract, ladder, disk, At, HoldsRow, HoldsSlot, HoldsFiles, HoldsEvent,
        GenerateAwait, VerifyAwait, IngestAwait, ApproveAwait, ExecuteAwait

-----------------------------------------------------------------------------
\* The row, and every copy of it a request has read, names builds that exist.

\* What a row may say of the builds on disk.
SoundRow(row) ==
  /\ row.state \in {"generated", "verified"} => row.workspace # 0
  /\ row.state = "verified" => row.identity # Nothing
  /\ row.identity # Nothing =>
       /\ files[row.identity.workspace] # Nothing
       /\ files[row.identity.workspace].dist # Nothing

\* The copies of a request.  A verification has read a workspace; and the row never loses an
\* identity, so the state of an older copy may be put back beside its own.
SoundCopies(l) ==
  /\ l.pc \in VerifyAwait => l.held.workspace # 0
  /\ l.held # Nothing => SoundRow(l.held)
  /\ l.original # Nothing =>
       /\ SoundRow(l.original)
       /\ l.original.identity # Nothing => project.identity # Nothing

RowInv == SoundRow(project) /\ \A r \in Request : SoundCopies(req[r])

\* A row that may replace the project's.
MayReplace(row) == /\ row \in Row /\ SoundRow(row)
                   /\ project.identity # Nothing => row.identity # Nothing

\* No action takes a workspace's files or its output away.
LEMMA FilesOnlyGrow == TypeInv /\ [Next]_vars => FilesGrow
<1>. SUFFICES ASSUME TypeInv, [Next]_vars PROVE FilesGrow
  OBVIOUS
<1>1. ASSUME UNCHANGED files PROVE FilesGrow
  BY <1>1 DEF FilesGrow
<1>2. ASSUME NEW r \in Request, Compose(r) \/ ComposeFails(r) PROVE FilesGrow
  <2>1. CASE Materialise(r) /\ tree[req[r].slot] = Nothing
    BY <1>2, <2>1, MaterialiseType DEF Compose, ComposeFails
  <2>2. QED
    BY <1>1, <1>2, <2>1 DEF Compose, ComposeFails
<1>3. ASSUME NEW r \in Request, BuildWorkspace(r) PROVE FilesGrow
  <2>1. req[r].slot \in Slot /\ files[req[r].slot] \in Files
    BY <1>3 DEF BuildWorkspace, TypeInv, TypeOK, LocalInv, Local, Slot
  <2>2. QED
    BY <1>3, <2>1 DEF BuildWorkspace, FilesGrow, TypeInv, TypeOK, Files
<1>4. ASSUME NEW r \in Request, SaveOverrides(r) PROVE FilesGrow
  <2>1. CASE project.workspace = 0
    BY <1>1, <1>4, <2>1 DEF SaveOverrides
  <2>2. CASE project.workspace # 0
    <3>1. project.workspace \in Slot /\ files[project.workspace] \in Files
      BY <2>2 DEF TypeInv, TypeOK, Row, Slot, RowHasFiles
    <3>2. QED
      BY <1>4, <2>2, <3>1 DEF SaveOverrides, FilesGrow, TypeInv, TypeOK, Files
  <2>3. QED
    BY <2>1, <2>2
<1>5. ASSUME NEW r \in Request, Generate(r), ~Compose(r), ~ComposeFails(r)
      PROVE  UNCHANGED files
  BY <1>5 DEF Generate, BeginGenerate, StartGeneration, RefuseGeneration,
     PreviewStopped, GenerationFails, FinishGeneration, RevisionMaterialized,
     GenerationSucceeded, GenerationThrows
<1>6. ASSUME NEW r \in Request, Verify(r), ~BuildWorkspace(r)
      PROVE  UNCHANGED files
  BY <1>6 DEF Verify, StartVerification, HashSource, VerificationFails,
     RecordIdentity, RevisionBuildable, VerificationThrows
<1>7. ASSUME NEW r \in Request, Ingest(r) \/ WriteAssetDecisions(r) \/ Approve(r)
      PROVE  UNCHANGED files
  BY <1>7 DEF Ingest, StartIngestion, AttachPack, EndIngestion, IngestionThrows,
     WriteAssetDecisions, Approve, BeginApprove, MintPlan, RefuseMint,
     RevisionOpened, ApprovalThrows
<1>8. ASSUME NEW r \in Request, Execute(r) PROVE UNCHANGED files
  BY <1>8 DEF Execute, ClaimPlan, LockProject, RefuseLock, FreezeInputs,
     RejectExecution, EndExecution
<1>9. ASSUME (\E r \in Request : RecoverAppend(r)) \/ Crash \/ Restart \/ UNCHANGED vars
      PROVE  UNCHANGED files
  BY <1>9 DEF RecoverAppend, Crash, Restart, vars
<1>10. QED
  BY <1>1, <1>2, <1>3, <1>4, <1>5, <1>6, <1>7, <1>8, <1>9 DEF Next, Edit

\* What a row says stays true while files only grow.
LEMMA SoundLasts ==
  ASSUME TypeInv, FilesGrow, NEW row \in Row, SoundRow(row)
  PROVE  SoundRow(row)'
<1>1. row.identity # Nothing => row.identity.workspace \in Slot
  BY DEF Row, Identity
<1>2. QED
  BY <1>1 DEF SoundRow, FilesGrow

\* upsertProject keeps the identity the row has.
LEMMA UpsertMayReplace ==
  ASSUME TypeInv, RowInv, NEW row \in Row, SoundRow(row)
  PROVE  MayReplace(Upsert(row))
<1>1. Upsert(row) \in Row /\ project \in Row
  BY UpsertType DEF TypeInv, TypeOK
<1>2. /\ Upsert(row).state = row.state /\ Upsert(row).workspace = row.workspace
      /\ Upsert(row).identity \in {row.identity, project.identity}
      /\ row.identity # Nothing => Upsert(row).identity = row.identity
      /\ row.identity = Nothing => Upsert(row).identity = project.identity
  BY <1>1 DEF Upsert, Row
<1>3. QED
  BY <1>1, <1>2 DEF MayReplace, SoundRow, RowInv

\* One request takes a step.
LEMMA RowStep ==
  ASSUME TypeInv, RowInv, FilesGrow, NEW r \in Request, NEW l \in Local,
         req' = [req EXCEPT ![r] = l],
         project' = project \/ MayReplace(project'),
         l.pc \in VerifyAwait => l.held.workspace # 0,
         l.held # Nothing => l.held = req[r].held \/ SoundRow(l.held),
         l.original \in {Nothing, req[r].original, project}
  PROVE  RowInv'
<1>1. MayReplace(project')
  BY DEF MayReplace, RowInv, TypeInv, TypeOK
<1>2. SoundRow(project)'
  BY <1>1, SoundLasts DEF MayReplace
<1>3. ASSUME NEW q \in Request PROVE SoundCopies(req[q])'
  <2>1. req[q] \in Local /\ req[r] \in Local /\ SoundCopies(req[q]) /\ SoundCopies(req[r])
    BY DEF TypeInv, TypeOK, RowInv
  <2>2. req'[q] = IF q = r THEN l ELSE req[q]
    BY DEF TypeInv, TypeOK
  <2>3. req'[q].held # Nothing => req'[q].held \in Row /\ SoundRow(req'[q].held)
    BY <2>1, <2>2 DEF SoundCopies, Local
  <2>4. req'[q].original # Nothing =>
          /\ req'[q].original \in Row /\ SoundRow(req'[q].original)
          /\ req'[q].original.identity # Nothing => project.identity # Nothing
    BY <2>1, <2>2 DEF SoundCopies, Local, RowInv
  <2>5. req'[q].pc \in VerifyAwait => req'[q].held.workspace # 0
    BY <2>1, <2>2 DEF SoundCopies
  <2>6. QED
    BY <1>1, <2>3, <2>4, <2>5, SoundLasts DEF SoundCopies, MayReplace
<1>4. QED
  BY <1>2, <1>3 DEF RowInv

LEMMA RowReturn ==
  ASSUME TypeInv, RowInv, FilesGrow, NEW r \in Request, Return(r),
         project' = project \/ MayReplace(project')
  PROVE  RowInv'
<1>1. Idle.pc \notin VerifyAwait
  BY DEF Idle
<1>2. QED
  BY <1>1, RowStep, IdleIsLocal DEF Return

\* An error that leaves generateProject puts back what the row said.
LEMMA RowThrow ==
  ASSUME TypeInv, RowInv, FilesGrow, NEW r \in Request, Throw(r),
         req[r].plan # Nothing => req[r].original # Nothing
  PROVE  RowInv'
<1>1. CASE req[r].plan = Nothing \/ project.state # "generating"
  BY <1>1, RowReturn DEF Throw, Restored
<1>2. CASE req[r].plan # Nothing /\ project.state = "generating"
  <2>. DEFINE o == req[r].original
              row == [project EXCEPT !.state = o.state, !.workspace = o.workspace]
  <2>1. /\ project \in Row /\ o \in Row /\ SoundRow(o) /\ SoundRow(project)
        /\ o.identity # Nothing => project.identity # Nothing
    BY <1>2 DEF TypeInv, TypeOK, Local, RowInv, SoundCopies
  <2>2. row \in Row /\ SoundRow(row)
    BY <2>1 DEF Row, SoundRow
  <2>3. project' = Upsert(row)
    BY <1>2 DEF Throw, Restored
  <2>. HIDE DEF row
  <2>4. QED
    BY <2>2, <2>3, UpsertMayReplace, RowReturn DEF Throw
<1>3. QED
  BY <1>1, <1>2

LEMMA LockRow ==
  ASSUME TypeInv, RowInv, FilesGrow, NEW r \in Request, NEW row \in Row, SoundRow(row),
         NEW v \in Slot, LockForGeneration(r, row, v)
  PROVE  RowInv'
<1>. DEFINE locked == [row EXCEPT !.state = "generating"]
            l == [req[r] EXCEPT !.pc = "g.started", !.held = Upsert(locked),
                                !.slot = v, !.running = TRUE]
<1>1. locked \in Row /\ SoundRow(locked)
  BY DEF Row, ProjectState, SoundRow
<1>2. req' = [req EXCEPT ![r] = l] /\ project' = Upsert(locked)
  BY DEF LockForGeneration
<1>. HIDE DEF locked
<1>3. MayReplace(Upsert(locked))
  BY <1>1, UpsertMayReplace
<1>4. "g.started" \in Await /\ v \in 0 .. MaxBuild /\ req[r] \in Local
  BY DEF Await, Slot, TypeInv, TypeOK
<1>5. /\ l \in Local /\ l.held = Upsert(locked) /\ l.original = req[r].original
      /\ l.pc = "g.started"
  BY <1>3, <1>4 DEF Local, MayReplace
<1>. HIDE DEF l
<1>6. QED
  BY <1>2, <1>3, <1>5, RowStep DEF MayReplace

\* A generation reads the row, or what an execution froze of it.
LEMMA ReadProjectSound ==
  ASSUME TypeInv, RowInv, NEW r \in Request, req[r].pc \in GenerateAwait
  PROVE  ReadProject(r) \in Row /\ SoundRow(ReadProject(r))
<1>1. ReadProject(r) \in Row
  BY ReadProjectType
<1>2. req[r].plan # Nothing => req[r].held # Nothing
  BY DEF TypeInv, LocalInv
<1>3. QED
  BY <1>1, <1>2 DEF ReadProject, RowInv, SoundCopies

LEMMA StartGenerationRow ==
  ASSUME TypeInv, RowInv, FilesGrow, NEW r \in Request, StartGeneration(r)
  PROVE  RowInv'
<1>. DEFINE row == ReadProject(r)
<1>1. row \in Row /\ SoundRow(row)
  BY ReadProjectSound DEF StartGeneration
<1>2. PICK v \in NextWorkspace :
        IF v = 1
          THEN LockForGeneration(r, row, v)
          ELSE /\ req' = [req EXCEPT ![r] = [@ EXCEPT !.pc = "g.stopping",
                                       !.held = row, !.slot = v]]
               /\ UNCHANGED <<project, running>>
  BY DEF StartGeneration
<1>. HIDE DEF row
<1>3. CASE v = 1
  BY <1>1, <1>2, <1>3, LockRow DEF NextWorkspace
<1>4. CASE v # 1
  <2>. DEFINE l == [req[r] EXCEPT !.pc = "g.stopping", !.held = row, !.slot = v]
  <2>1. "g.stopping" \in Await /\ v \in 0 .. MaxBuild /\ req[r] \in Local
    BY DEF Await, Slot, NextWorkspace, TypeInv, TypeOK
  <2>2. /\ l \in Local /\ l.held = row /\ l.original = req[r].original
        /\ l.pc = "g.stopping"
    BY <1>1, <2>1 DEF Local
  <2>3. req' = [req EXCEPT ![r] = l] /\ project' = project
    BY <1>2, <1>4
  <2>. HIDE DEF l
  <2>4. QED
    BY <1>1, <2>2, <2>3, RowStep
<1>5. QED
  BY <1>3, <1>4

LEMMA PreviewStoppedRow ==
  ASSUME TypeInv, RowInv, FilesGrow, NEW r \in Request, PreviewStopped(r)
  PROVE  RowInv'
<1>1. /\ req[r].held \in Row /\ SoundRow(req[r].held) /\ req[r].slot \in Slot
  BY DEF PreviewStopped, TypeInv, TypeOK, LocalInv, Local, Slot, RowInv, SoundCopies
<1>2. QED
  BY <1>1, LockRow DEF PreviewStopped

\* The catch writes the held row back as failed.
LEMMA CatchRow ==
  ASSUME TypeInv, RowInv, FilesGrow, NEW r \in Request, GenerateCatch(r),
         req[r].pc \in HoldsRow
  PROVE  RowInv'
<1>. DEFINE row == [req[r].held EXCEPT !.state = "failed"]
            l == [req[r] EXCEPT !.pc = "g.failed", !.running = FALSE, !.pending = Nothing]
<1>1. req[r] \in Local /\ req[r].held \in Row /\ SoundRow(req[r].held)
  BY DEF TypeInv, TypeOK, LocalInv, Local, RowInv, SoundCopies
<1>2. row \in Row /\ SoundRow(row)
  BY <1>1 DEF Row, ProjectState, SoundRow
<1>3. "g.failed" \in Await
  BY DEF Await
<1>4. /\ l \in Local /\ l.held = req[r].held /\ l.original = req[r].original
      /\ l.pc = "g.failed"
  BY <1>1, <1>3 DEF Local
<1>5. req' = [req EXCEPT ![r] = l] /\ project' = Upsert(row)
  BY DEF GenerateCatch
<1>. HIDE DEF l, row
<1>6. QED
  BY <1>2, <1>4, <1>5, UpsertMayReplace, RowStep

LEMMA FinishGenerationRow ==
  ASSUME TypeInv, RowInv, FilesGrow, NEW r \in Request, FinishGeneration(r)
  PROVE  RowInv'
<1>. DEFINE row == Upsert([req[r].held EXCEPT !.state = "generated",
                                              !.workspace = req[r].slot])
            failed == [row EXCEPT !.state = "failed"]
            bytes == [slot |-> req[r].slot, input |-> files[req[r].slot].source]
            Event(p) == [to |-> "materialized", plan |-> p, bytes |-> bytes]
            Moved(await, e) == [req[r] EXCEPT !.pc = await, !.held = row,
                                              !.running = FALSE, !.pending = e]
<1>1. /\ req[r] \in Local /\ req[r].held \in Row /\ SoundRow(req[r].held)
      /\ req[r].slot \in 0 .. MaxBuild /\ req[r].slot # 0
  BY DEF FinishGeneration, TypeInv, TypeOK, LocalInv, Local, RowInv, SoundCopies
<1>2. MayReplace(row)
  <2>. DEFINE built == [req[r].held EXCEPT !.state = "generated", !.workspace = req[r].slot]
  <2>1. built \in Row /\ SoundRow(built)
    BY <1>1 DEF Row, ProjectState, SoundRow
  <2>. HIDE DEF built
  <2>2. MayReplace(Upsert(built))
    BY <2>1, UpsertMayReplace
  <2>3. QED
    BY <2>2 DEF built
<1>3. row \in Row
  BY <1>2 DEF MayReplace
<1>. HIDE DEF row
<1>4. MayReplace(failed)
  BY <1>2 DEF MayReplace, Row, ProjectState, SoundRow
<1>5. ASSUME NEW await \in {"g.advancing", "g.succeeded", "g.failed"},
             NEW e \in RevisionEvent \cup {Nothing},
             req' = [req EXCEPT ![r] = Moved(await, e)],
             MayReplace(project')
      PROVE  RowInv'
  <2>. DEFINE l == Moved(await, e)
  <2>1. await \in Await
    BY DEF Await
  <2>2. /\ l \in Local /\ l.held = row /\ l.original = req[r].original
        /\ l.pc = await
    BY <1>1, <1>3, <2>1 DEF Local
  <2>3. req' = [req EXCEPT ![r] = l]
    BY <1>5
  <2>. HIDE DEF l
  <2>4. QED
    BY <1>2, <1>5, <2>2, <2>3, RowStep DEF MayReplace
<1>6. bytes \in Bytes
  <2>1. req[r].slot \in Slot
    BY <1>1 DEF Slot
  <2>2. files[req[r].slot] # Nothing
    BY DEF FinishGeneration, TypeInv, LocalInv
  <2>3. files[req[r].slot] \in Files
    BY <2>1, <2>2 DEF TypeInv, TypeOK
  <2>4. QED
    BY <2>1, <2>3 DEF Bytes, Files
<1>7. \A p \in Plan : Event(p) \in RevisionEvent
  BY <1>6 DEF RevisionEvent, Rung
<1>8. CASE req' = [req EXCEPT ![r] = Moved("g.succeeded", Nothing)] /\ project' = row
  BY <1>2, <1>5, <1>8
<1>9. CASE /\ project' = row
           /\ \E p \in Plan : req' = [req EXCEPT ![r] = Moved("g.advancing", Event(p))]
  BY <1>2, <1>5, <1>7, <1>9
<1>10. CASE req' = [req EXCEPT ![r] = Moved("g.failed", Nothing)] /\ project' = failed
  BY <1>4, <1>5, <1>10
<1>11. QED
  BY <1>8, <1>9, <1>10 DEF FinishGeneration, row

\* No copy of the row is taken, and nothing is written.
LEMMA RowQuiet ==
  ASSUME TypeInv, RowInv, FilesGrow, NEW r \in Request, NEW l \in Local,
         req' = [req EXCEPT ![r] = l], UNCHANGED project,
         l.pc \in VerifyAwait => l.held = req[r].held /\ req[r].pc \in VerifyAwait,
         l.held \in {Nothing, req[r].held}, l.original \in {Nothing, req[r].original}
  PROVE  RowInv'
BY RowStep DEF RowInv, SoundCopies

LEMMA RowGoto ==
  ASSUME TypeInv, RowInv, FilesGrow, NEW r \in Request, NEW await \in Await,
         await \in VerifyAwait => req[r].pc \in VerifyAwait, Goto(r, await), project' = project \/ MayReplace(project')
  PROVE  RowInv'
<1>. DEFINE l == [req[r] EXCEPT !.pc = await]
<1>1. /\ l \in Local /\ l.held = req[r].held /\ l.original = req[r].original
      /\ l.pc = await
  BY DEF TypeInv, TypeOK, Local
<1>2. req' = [req EXCEPT ![r] = l]
  BY DEF Goto
<1>3. l.pc \in VerifyAwait => l.held.workspace # 0
  BY <1>1 DEF RowInv, SoundCopies
<1>. HIDE DEF l
<1>4. QED
  BY <1>1, <1>2, <1>3, RowStep DEF RowInv, SoundCopies

LEMMA RowStays ==
  ASSUME TypeInv, RowInv, FilesGrow, UNCHANGED <<project, req>>
  PROVE  RowInv'
<1>1. SoundRow(project)'
  BY SoundLasts DEF RowInv, TypeInv, TypeOK
<1>2. ASSUME NEW q \in Request PROVE SoundCopies(req[q])'
  <2>1. req[q] \in Local /\ SoundCopies(req[q])
    BY DEF RowInv, TypeInv, TypeOK
  <2>2. QED
    BY <2>1, SoundLasts DEF SoundCopies, Local
<1>3. QED
  BY <1>1, <1>2 DEF RowInv

\* generateProject, whole.
LEMMA GenerateRow ==
  ASSUME TypeInv, RowInv, FilesGrow, NEW r \in Request, Generate(r)
  PROVE  RowInv'
<1>1. req[r].pc \in GenerateAwait /\ req[r].plan # Nothing => req[r].original # Nothing
  BY DEF TypeInv, LocalInv
<1>2. CASE BeginGenerate(r) \/ Compose(r) \/ (GenerationSucceeded(r) /\ ~Return(r))
  <2>1. PICK await \in {"g.decided", "g.composed", "e.executed"} :
          Goto(r, await) /\ UNCHANGED project
    BY <1>2 DEF BeginGenerate, Compose, GenerationSucceeded
  <2>2. await \in Await
    BY DEF Await
  <2>3. QED
    BY <2>1, <2>2, RowGoto
<1>3. CASE GenerationSucceeded(r) /\ Return(r)
  BY <1>3, RowReturn DEF GenerationSucceeded
<1>4. CASE RefuseGeneration(r) \/ GenerationThrows(r)
  BY <1>1, <1>4, RowThrow DEF RefuseGeneration, GenerationThrows
<1>5. CASE ComposeFails(r) \/ GenerationFails(r)
  BY <1>5, CatchRow DEF ComposeFails, GenerationFails
<1>6. CASE RevisionMaterialized(r)
  <2>. DEFINE l == [req[r] EXCEPT !.pc = "g.succeeded", !.pending = Nothing]
  <2>1. /\ l \in Local /\ l.held = req[r].held /\ l.original = req[r].original
        /\ l.pc = "g.succeeded"
    <3>1. "g.succeeded" \in Await /\ req[r] \in Local
      BY DEF TypeInv, TypeOK, Await
    <3>2. QED
      BY <3>1 DEF Local
  <2>2. req' = [req EXCEPT ![r] = l] /\ UNCHANGED project
    BY <1>6 DEF RevisionMaterialized
  <2>. HIDE DEF l
  <2>3. QED
    BY <2>1, <2>2, RowQuiet
<1>7. QED
  BY <1>2, <1>3, <1>4, <1>5, <1>6, StartGenerationRow, PreviewStoppedRow,
     FinishGenerationRow DEF Generate

\* verifyProject: the identity it records is of the output it has built.
LEMMA RecordIdentityRow ==
  ASSUME TypeInv, RowInv, FilesGrow, NEW r \in Request, RecordIdentity(r)
  PROVE  RowInv'
<1>. DEFINE s == req[r].slot
            dist == files[s].dist
            row == [req[r].held EXCEPT !.state = "verified",
                      !.identity = [workspace |-> s, source |-> req[r].source, output |-> dist]]
            Event(p) == [to |-> "buildable", plan |-> p,
                         bytes |-> [slot |-> s, input |-> dist]]
<1>1. /\ req[r] \in Local /\ req[r].held \in Row /\ SoundRow(req[r].held)
      /\ s \in 0 .. MaxBuild /\ s # 0 /\ req[r].source \in Input
  BY DEF RecordIdentity, TypeInv, TypeOK, LocalInv, Local, RowInv, SoundCopies
<1>2. s \in Slot
  BY <1>1 DEF Slot
<1>3. files[s] # Nothing /\ dist # Nothing
  BY DEF RecordIdentity, TypeInv, LocalInv
<1>4. files[s] \in Files /\ dist \in Input
  <2>1. files[s] \in Files
    BY <1>2, <1>3 DEF TypeInv, TypeOK
  <2>2. QED
    BY <1>3, <2>1 DEF Files
<1>5. [workspace |-> s, source |-> req[r].source, output |-> dist] \in Identity
  BY <1>1, <1>2, <1>4 DEF Identity
<1>6. row \in Row /\ SoundRow(row)
  <2>1. req[r].held.workspace # 0
    BY DEF RecordIdentity, RowInv, SoundCopies
  <2>2. QED
    BY <1>1, <1>2, <1>3, <1>5, <2>1 DEF Row, ProjectState, SoundRow
<1>7. \A p \in Plan : Event(p) \in RevisionEvent
  BY <1>2, <1>4 DEF RevisionEvent, Rung, Bytes
<1>8. \/ Return(r) /\ project' \in {project, Upsert(row)}
      \/ /\ UNCHANGED project
         /\ \E p \in Plan : req' = [req EXCEPT ![r] = [@ EXCEPT !.pc = "v.advancing",
              !.held = row, !.running = FALSE, !.pending = Event(p)]]
  BY DEF RecordIdentity
<1>. HIDE DEF row, Event
<1>9. CASE Return(r) /\ project' \in {project, Upsert(row)}
  BY <1>6, <1>9, UpsertMayReplace, RowReturn
<1>10. ASSUME UNCHANGED project, NEW p \in Plan,
              req' = [req EXCEPT ![r] = [@ EXCEPT !.pc = "v.advancing",
                        !.held = row, !.running = FALSE, !.pending = Event(p)]]
       PROVE  RowInv'
  <2>. DEFINE l == [req[r] EXCEPT !.pc = "v.advancing", !.held = row,
                                  !.running = FALSE, !.pending = Event(p)]
  <2>1. /\ l \in Local /\ l.held = row /\ l.original = req[r].original
        /\ l.pc = "v.advancing"
    BY <1>1, <1>6, <1>7 DEF Local, Await
  <2>2. req' = [req EXCEPT ![r] = l]
    BY <1>10
  <2>. HIDE DEF l
  <2>3. row.workspace # 0
    <3>1. req[r].held.workspace # 0
      BY DEF RecordIdentity, RowInv, SoundCopies
    <3>2. QED
      BY <1>1, <3>1 DEF row, Row
  <2>4. QED
    BY <1>6, <1>10, <2>1, <2>2, <2>3, RowStep
<1>11. QED
  BY <1>8, <1>9, <1>10

\* A verification starts from the workspace the row names.
LEMMA StartVerificationRow ==
  ASSUME TypeInv, RowInv, FilesGrow, NEW r \in Request, StartVerification(r)
  PROVE  RowInv'
<1>. DEFINE l == [req[r] EXCEPT !.pc = "v.started", !.held = project,
                                !.slot = project.workspace, !.running = TRUE]
<1>1. /\ req[r] \in Local /\ project \in Row /\ SoundRow(project)
      /\ project.workspace # 0 /\ "v.started" \in Await
  BY DEF StartVerification, TypeInv, TypeOK, RowInv, Await
<1>2. /\ l \in Local /\ l.pc = "v.started" /\ l.held = project
      /\ l.original = req[r].original
  BY <1>1 DEF Local, Row
<1>3. req' = [req EXCEPT ![r] = l] /\ UNCHANGED project
  BY DEF StartVerification
<1>. HIDE DEF l
<1>4. QED
  BY <1>1, <1>2, <1>3, RowStep

LEMMA VerifyRow ==
  ASSUME TypeInv, RowInv, FilesGrow, NEW r \in Request, Verify(r)
  PROVE  RowInv'
<1>1. CASE HashSource(r)
  <2>. DEFINE l == [req[r] EXCEPT !.pc = "v.locked", !.source = files[req[r].slot].source]
  <2>1. req[r] \in Local /\ req[r].slot \in Slot /\ files[req[r].slot] # Nothing
    BY <1>1 DEF HashSource, TypeInv, TypeOK, LocalInv, Local, Slot
  <2>2. files[req[r].slot].source \in Input /\ "v.locked" \in Await
    BY <2>1 DEF TypeInv, TypeOK, Files, Await
  <2>3. /\ l \in Local /\ l.pc = "v.locked" /\ l.held = req[r].held
        /\ l.original = req[r].original
    BY <2>1, <2>2 DEF Local
  <2>4. /\ req' = [req EXCEPT ![r] = l] /\ UNCHANGED project
        /\ req[r].pc \in VerifyAwait
    BY <1>1 DEF HashSource
  <2>. HIDE DEF l
  <2>5. QED
    BY <2>3, <2>4, RowQuiet
<1>2. CASE BuildWorkspace(r)
  BY <1>2, RowGoto DEF BuildWorkspace, Await
<1>3. CASE VerificationFails(r) \/ VerificationThrows(r)
  BY <1>3, RowReturn DEF VerificationFails, VerificationThrows
<1>4. CASE RevisionBuildable(r)
  <2>1. req[r].held \in Row /\ SoundRow(req[r].held)
    BY <1>4 DEF RevisionBuildable, TypeInv, TypeOK, LocalInv, Local, RowInv, SoundCopies
  <2>2. QED
    BY <1>4, <2>1, UpsertMayReplace, RowReturn DEF RevisionBuildable
<1>5. QED
  BY <1>1, <1>2, <1>3, <1>4, StartVerificationRow, RecordIdentityRow DEF Verify

\* ingestSources writes the row it read back with another pack.
LEMMA IngestRow ==
  ASSUME TypeInv, RowInv, FilesGrow, NEW r \in Request, Ingest(r)
  PROVE  RowInv'
<1>1. CASE StartIngestion(r)
  <2>. DEFINE l == [req[r] EXCEPT !.pc = "i.ingesting", !.held = project, !.running = TRUE]
  <2>1. /\ req[r] \in Local /\ project \in Row /\ SoundRow(project)
        /\ "i.ingesting" \in Await
    BY DEF TypeInv, TypeOK, RowInv, Await
  <2>2. /\ l \in Local /\ l.pc = "i.ingesting" /\ l.held = project
        /\ l.original = req[r].original
    BY <2>1 DEF Local
  <2>3. req' = [req EXCEPT ![r] = l] /\ UNCHANGED project
    BY <1>1 DEF StartIngestion
  <2>. HIDE DEF l
  <2>4. QED
    BY <2>1, <2>2, <2>3, RowStep
<1>2. CASE AttachPack(r)
  <2>1. req[r].held \in Row /\ SoundRow(req[r].held)
    BY <1>2 DEF AttachPack, TypeInv, TypeOK, LocalInv, Local, RowInv, SoundCopies
  <2>2. PICK k \in Pack : project' = Upsert([req[r].held EXCEPT !.pack = k])
    BY <1>2 DEF AttachPack
  <2>. DEFINE row == [req[r].held EXCEPT !.pack = k]
  <2>3. row \in Row /\ SoundRow(row)
    BY <2>1 DEF Row, SoundRow
  <2>4. project' = Upsert(row)
    BY <2>2
  <2>. HIDE DEF row
  <2>5. MayReplace(project')
    BY <2>3, <2>4, UpsertMayReplace
  <2>6. QED
    BY <1>2, <2>5, RowGoto DEF AttachPack, Await
<1>3. CASE EndIngestion(r) \/ IngestionThrows(r)
  BY <1>3, RowReturn DEF EndIngestion, IngestionThrows
<1>4. QED
  BY <1>1, <1>2, <1>3 DEF Ingest

LEMMA ApproveRow ==
  ASSUME TypeInv, RowInv, FilesGrow, NEW r \in Request, Approve(r)
  PROVE  RowInv'
<1>1. CASE BeginApprove(r)
  <2>1. PICK p \in Plan :
          req' = [req EXCEPT ![r] = [@ EXCEPT !.pc = "a.decided", !.plan = p]]
    BY <1>1 DEF BeginApprove
  <2>. DEFINE l == [req[r] EXCEPT !.pc = "a.decided", !.plan = p]
  <2>2. req[r] \in Local /\ "a.decided" \in Await
    BY DEF TypeInv, TypeOK, Await
  <2>3. /\ l \in Local /\ l.pc = "a.decided" /\ l.held = req[r].held
        /\ l.original = req[r].original
    BY <2>2 DEF Local
  <2>4. req' = [req EXCEPT ![r] = l] /\ UNCHANGED project
    BY <1>1, <2>1 DEF BeginApprove
  <2>. HIDE DEF l
  <2>5. QED
    BY <2>3, <2>4, RowQuiet
<1>2. CASE MintPlan(r)
  <2>. DEFINE e == [to |-> "contract-approved", plan |-> req[r].plan, bytes |-> Nothing]
              l == [req[r] EXCEPT !.pc = "a.opening", !.pending = e]
  <2>1. req[r] \in Local /\ req[r].plan \in Plan /\ "a.opening" \in Await
    BY <1>2 DEF MintPlan, TypeInv, TypeOK, LocalInv, Local, Await
  <2>2. e \in RevisionEvent
    BY <2>1 DEF RevisionEvent, Rung
  <2>. HIDE DEF e
  <2>3. /\ l \in Local /\ l.pc = "a.opening" /\ l.held = req[r].held
        /\ l.original = req[r].original
    BY <2>1, <2>2 DEF Local
  <2>4. req' = [req EXCEPT ![r] = l] /\ UNCHANGED project
    BY <1>2 DEF MintPlan, e
  <2>. HIDE DEF l
  <2>5. QED
    BY <2>3, <2>4, RowQuiet
<1>3. CASE RefuseMint(r) \/ RevisionOpened(r) \/ ApprovalThrows(r)
  BY <1>3, RowReturn DEF RefuseMint, RevisionOpened, ApprovalThrows
<1>4. QED
  BY <1>1, <1>2, <1>3 DEF Approve

\* The lock of an execution keeps the row beside its original; what it then
\* freezes takes its state and workspace from there.
LEMMA LockProjectRow ==
  ASSUME TypeInv, RowInv, FilesGrow, NEW r \in Request, LockProject(r)
  PROVE  RowInv'
<1>. DEFINE l == [req[r] EXCEPT !.pc = "e.locked", !.original = project]
<1>1. req[r] \in Local /\ project \in Row /\ SoundRow(project) /\ "e.locked" \in Await
  BY DEF TypeInv, TypeOK, RowInv, Await
<1>2. /\ l \in Local /\ l.pc = "e.locked" /\ l.held = req[r].held /\ l.original = project
  BY <1>1 DEF Local
<1>3. MayReplace([project EXCEPT !.state = "generating"])
  BY <1>1 DEF MayReplace, Row, ProjectState, SoundRow
<1>4. /\ req' = [req EXCEPT ![r] = l]
      /\ project' = [project EXCEPT !.state = "generating"]
  BY DEF LockProject
<1>. HIDE DEF l
<1>5. QED
  BY <1>2, <1>3, <1>4, RowStep

LEMMA FreezeInputsRow ==
  ASSUME TypeInv, RowInv, FilesGrow, NEW r \in Request, FreezeInputs(r)
  PROVE  RowInv'
<1>. DEFINE o == req[r].original
            frozen == [project EXCEPT !.state = o.state, !.workspace = o.workspace]
            l == [req[r] EXCEPT !.pc = "g.decided", !.frozen = inputs, !.held = frozen]
<1>1. /\ req[r] \in Local /\ project \in Row /\ SoundRow(project) /\ "g.decided" \in Await
      /\ inputs \in Input
  BY DEF TypeInv, TypeOK, RowInv, Await
<1>2. o # Nothing
  BY DEF FreezeInputs, TypeInv, LocalInv
<1>3. /\ o \in Row /\ SoundRow(o)
      /\ o.identity # Nothing => project.identity # Nothing
  BY <1>1, <1>2 DEF Local, RowInv, SoundCopies
<1>4. frozen \in Row /\ SoundRow(frozen)
  BY <1>1, <1>3 DEF Row, SoundRow
<1>. HIDE DEF frozen
<1>5. /\ l \in Local /\ l.pc = "g.decided" /\ l.held = frozen /\ l.original = o
  BY <1>1, <1>4 DEF Local
<1>6. req' = [req EXCEPT ![r] = l] /\ UNCHANGED project
  BY DEF FreezeInputs, frozen
<1>. HIDE DEF l
<1>7. QED
  BY <1>4, <1>5, <1>6, RowStep

LEMMA ExecuteRow ==
  ASSUME TypeInv, RowInv, FilesGrow, NEW r \in Request, Execute(r)
  PROVE  RowInv'
<1>1. CASE ClaimPlan(r)
  <2>1. PICK p \in Plan :
          req' = [req EXCEPT ![r] = [@ EXCEPT !.pc = "e.claimed", !.plan = p]]
    BY <1>1 DEF ClaimPlan
  <2>. DEFINE l == [req[r] EXCEPT !.pc = "e.claimed", !.plan = p]
  <2>2. req[r] \in Local /\ "e.claimed" \in Await
    BY DEF TypeInv, TypeOK, Await
  <2>3. /\ l \in Local /\ l.pc = "e.claimed" /\ l.held = req[r].held
        /\ l.original = req[r].original
    BY <2>2 DEF Local
  <2>4. req' = [req EXCEPT ![r] = l] /\ UNCHANGED project
    BY <1>1, <2>1 DEF ClaimPlan
  <2>. HIDE DEF l
  <2>5. QED
    BY <2>3, <2>4, RowQuiet
<1>2. CASE RefuseLock(r)
  BY <1>2, RowReturn DEF RefuseLock
<1>3. CASE RejectExecution(r) \/ EndExecution(r)
  <2>1. req[r].plan # Nothing => req[r].original # Nothing
    BY <1>3 DEF RejectExecution, EndExecution, TypeInv, LocalInv
  <2>2. QED
    BY <1>3, <2>1, RowThrow, RowReturn DEF RejectExecution, EndExecution
<1>4. QED
  BY <1>1, <1>2, <1>3, LockProjectRow, FreezeInputsRow DEF Execute

LEMMA CrashRow ==
  ASSUME TypeInv, RowInv, FilesGrow, Crash
  PROVE  RowInv'
<1>1. SoundRow(project)'
  BY SoundLasts DEF Crash, RowInv, TypeInv, TypeOK
<1>2. ASSUME NEW q \in Request
      PROVE  /\ req'[q].held = Nothing /\ req'[q].original = Nothing
             /\ req'[q].pc \in {"idle", "lost"}
  BY DEF Crash, Idle
<1>3. QED
  BY <1>1, <1>2 DEF RowInv, SoundCopies

LEMMA NextRow == TypeInv /\ RowInv /\ [Next]_vars => RowInv'
<1>. SUFFICES ASSUME TypeInv, RowInv, [Next]_vars PROVE RowInv'
  OBVIOUS
<1>1. FilesGrow
  BY FilesOnlyGrow
<1>2. ASSUME NEW r \in Request, Edit(r) PROVE RowInv'
  BY <1>1, <1>2, RowStays DEF Edit, SaveOverrides, WriteAssetDecisions
<1>3. ASSUME NEW r \in Request, RecoverAppend(r) PROVE RowInv'
  BY <1>1, <1>3, RowReturn DEF RecoverAppend
<1>4. CASE Restart \/ UNCHANGED vars
  BY <1>1, <1>4, RowStays DEF Restart, vars
<1>5. QED
  BY <1>1, <1>2, <1>3, <1>4, GenerateRow, VerifyRow, IngestRow, ApproveRow,
     ExecuteRow, CrashRow DEF Next

LEMMA InitRow == Init => RowInv
<1>. SUFFICES ASSUME Init PROVE RowInv
  OBVIOUS
<1>1. SoundRow(project)
  BY DEF Init, SoundRow
<1>2. Idle.pc \notin VerifyAwait
  BY DEF Idle
<1>3. QED
  BY <1>1, <1>2, IdleIsLocal DEF Init, RowInv, SoundCopies

\* Rows read before an await are written back whole, and a rejected execution
\* mixes two of them, yet the row never names a workspace that was not
\* composed, and a verified one has the identity of an output that was built.
THEOREM RowNamesBuilds == Spec => []RowNamesABuild
<1>1. Init => TypeInv /\ RowInv
  BY InitType, InitRow
<1>2. TypeInv /\ RowInv /\ [Next]_vars => (TypeInv /\ RowInv)'
  BY NextType, NextRow
<1>3. TypeInv /\ RowInv => RowNamesABuild
  <2>. SUFFICES ASSUME TypeInv, RowInv PROVE RowNamesABuild
    OBVIOUS
  <2>1. project \in Row /\ RowHasFiles(project) /\ SoundRow(project)
    BY DEF TypeInv, TypeOK, RowInv
  <2>2. project.workspace # 0 => project.workspace \in Slot
    BY <2>1 DEF Row, Slot
  <2>3. project.workspace # 0 => tree[project.workspace] # Nothing
    BY <2>1, <2>2 DEF RowHasFiles, TypeInv, TreesHaveFiles
  <2>4. QED
    BY <2>1, <2>3 DEF SoundRow, RowNamesABuild
<1>4. QED
  BY <1>1, <1>2, <1>3, PTL DEF Spec

-----------------------------------------------------------------------------
\* What a revision has recorded of its source and its output is there to stay.

\* The approval whose revision a request is opening.
Opens(l) == l.pending # Nothing /\ l.pending.to = "contract-approved"

\* A revision below a rung has not recorded what that rung earns.
RungEarns == \A p \in Opened :
               /\ plans[p] # Nothing
               /\ revisions[p].rung = "contract-approved" => revisions[p].source = Nothing
               /\ revisions[p].rung # "buildable" => revisions[p].output = Nothing

\* One request at most opens the revision of a plan, and it has none yet.
OpenedOnce ==
  /\ \A r \in Request : Opens(req[r]) =>
       plans[req[r].pending.plan] # Nothing /\ req[r].pending.plan \notin Opened
  /\ \A r, q \in Request :
       Opens(req[r]) /\ Opens(req[q]) /\ req[r].pending.plan = req[q].pending.plan => r = q

LadderInv == RungEarns /\ OpenedOnce

\* The action property, for one step.
KeepsIdentity ==
  \A p \in Opened :
    /\ p \in Opened'
    /\ revisions[p].source # Nothing => revisions'[p].source = revisions[p].source
    /\ revisions[p].output # Nothing => revisions'[p].output = revisions[p].output

\* A request comes to hold no event that opens a revision.
OpensNoMore(l, m) == Opens(m) => m.pending = l.pending

LEMMA LadderQuiet ==
  ASSUME TypeInv, LadderInv, UNCHANGED <<plans, revisions>>,
         \A r \in Request : OpensNoMore(req[r], req'[r])
  PROVE  LadderInv' /\ KeepsIdentity
<1>1. RungEarns' /\ KeepsIdentity
  BY DEF LadderInv, RungEarns, KeepsIdentity, Opened
<1>2. \A r \in Request : Opens(req'[r]) => Opens(req[r]) /\ req'[r].pending = req[r].pending
  BY DEF OpensNoMore, Opens
<1>3. OpenedOnce'
  BY <1>2 DEF LadderInv, OpenedOnce, Opened, Opens
<1>4. QED
  BY <1>1, <1>3 DEF LadderInv

LEMMA EarnedType ==
  ASSUME TypeOK, NEW e \in RevisionEvent, Replays(e)
  PROVE  Earned(e) \in Revision
<1>1. e.to \in Rung /\ e.plan \in Plan /\ e.bytes \in Bytes \cup {Nothing}
  BY DEF RevisionEvent
<1>2. CASE e.to = "contract-approved"
  BY <1>1, <1>2 DEF Earned, Revision
<1>3. CASE e.to # "contract-approved"
  <2>1. revisions[e.plan] \in Revision
    BY <1>1, <1>3 DEF Replays, TypeOK
  <2>2. QED
    BY <1>1, <1>3, <2>1 DEF Earned, Revision, Rung
<1>4. QED
  BY <1>2, <1>3

\* The stream takes the event of a request that then holds it no longer.
LEMMA LadderReplay ==
  ASSUME TypeInv, LadderInv, UNCHANGED plans, NEW r \in Request, req[r].pending # Nothing,
         Replay(req[r].pending), req'[r].pending = Nothing,
         \A q \in Request \ {r} : req'[q] = req[q]
  PROVE  LadderInv' /\ KeepsIdentity
<1>. DEFINE e == req[r].pending
<1>1. e \in RevisionEvent
  BY DEF TypeInv, TypeOK, Local
<1>2. CASE ~Replays(e)
  BY <1>2, LadderQuiet DEF Replay, OpensNoMore, Opens
<1>3. CASE Replays(e)
  <2>1. revisions' = [revisions EXCEPT ![e.plan] = Earned(e)]
    BY <1>3 DEF Replay
  <2>2. e.plan \in Plan /\ e.to \in Rung
    BY <1>1 DEF RevisionEvent
  <2>. Earned(e) \in Revision
    BY <1>1, <1>3, EarnedType DEF TypeInv
  <2>3. CASE e.to = "contract-approved"
    <3>1. /\ e.plan \notin Opened /\ plans[e.plan] # Nothing
          /\ \A q \in Request \ {r} : Opens(req[q]) => req[q].pending.plan # e.plan
      BY <2>3 DEF LadderInv, OpenedOnce, Opens
    <3>2. Earned(e) = [rung |-> "contract-approved", source |-> Nothing, output |-> Nothing]
      BY <2>3 DEF Earned
    <3>3. RungEarns' /\ KeepsIdentity
      <4>1. ASSUME NEW p \in Opened
            PROVE  p \in Plan /\ p # e.plan /\ revisions'[p] = revisions[p]
        BY <2>1, <3>1, <4>1 DEF Opened, TypeInv, TypeOK
      <4>2. /\ Opened' = Opened \cup {e.plan} /\ revisions'[e.plan] = Earned(e)
        BY <2>1, <2>2, <3>2, <4>1 DEF Opened, TypeInv, TypeOK
      <4>3. QED
        BY <3>1, <3>2, <4>1, <4>2 DEF LadderInv, RungEarns, KeepsIdentity
    <3>4. \A q \in Request : Opens(req'[q]) => q # r /\ req'[q] = req[q] /\ Opens(req[q])
      BY DEF Opens
    <3>5. \A p \in Plan \ {e.plan} : revisions'[p] = revisions[p]
      BY <2>1 DEF TypeInv, TypeOK
    <3>6. OpenedOnce'
      <4>1. ASSUME NEW q \in Request, Opens(req'[q])
            PROVE  plans[req'[q].pending.plan] # Nothing /\ req'[q].pending.plan \notin Opened'
        <5>1. req[q].pending.plan \in Plan
          BY <3>4, <4>1 DEF TypeInv, TypeOK, Local, RevisionEvent, Opens
        <5>2. QED
          BY <3>1, <3>4, <3>5, <4>1, <5>1 DEF LadderInv, OpenedOnce, Opened
      <4>2. QED
        BY <3>4, <4>1 DEF LadderInv, OpenedOnce, Opens
    <3>7. QED
      BY <3>3, <3>6 DEF LadderInv
  <2>4. CASE e.to # "contract-approved"
    <3>1. revisions[e.plan] # Nothing /\ revisions[e.plan].rung = RungBelow(e.to)
      BY <1>3, <2>4 DEF Replays
    <3>2. revisions[e.plan] \in Revision /\ e.plan \in Opened
      BY <2>2, <3>1 DEF TypeInv, TypeOK, Opened
    <3>3. e.to \in {"materialized", "buildable"}
      BY <2>2, <2>4 DEF Rung
    <3>4. Earned(e) # Nothing /\ Earned(e).rung = e.to
      <4>1. Earned(e).rung = e.to
        BY <3>2, <3>3 DEF Earned, Revision
      <4>2. QED
        BY <4>1
    <3>5. e.to = "materialized" =>
            /\ revisions[e.plan].rung = "contract-approved"
            /\ Earned(e).output = revisions[e.plan].output
      BY <3>1, <3>2 DEF Earned, Revision, RungBelow
    <3>6. e.to = "buildable" =>
            /\ revisions[e.plan].rung = "materialized"
            /\ Earned(e).source = revisions[e.plan].source
      BY <3>1, <3>2 DEF Earned, Revision, RungBelow
    <3>7. Opened' = Opened
      BY <2>1, <3>2, <3>4 DEF Opened, TypeInv, TypeOK
    <3>8. RungEarns'
      BY <2>1, <3>2, <3>3, <3>4, <3>5, <3>6, <3>7
         DEF LadderInv, RungEarns, Opened, TypeInv, TypeOK
    <3>9. KeepsIdentity
      BY <2>1, <3>2, <3>3, <3>5, <3>6, <3>7
         DEF LadderInv, RungEarns, KeepsIdentity, Opened, TypeInv, TypeOK
    <3>10. OpenedOnce'
      <4>1. \A q \in Request : Opens(req'[q]) => req'[q] = req[q] /\ Opens(req[q])
        BY DEF Opens
      <4>2. QED
        BY <3>7, <4>1 DEF LadderInv, OpenedOnce, Opens
    <3>11. QED
      BY <3>8, <3>9, <3>10 DEF LadderInv
  <2>5. QED
    BY <2>3, <2>4
<1>4. QED
  BY <1>2, <1>3

LEMMA LadderMint ==
  ASSUME TypeInv, LadderInv, NEW r \in Request, MintPlan(r)
  PROVE  LadderInv' /\ KeepsIdentity
<1>. DEFINE p == req[r].plan
            e == [to |-> "contract-approved", plan |-> p, bytes |-> Nothing]
            l == [req[r] EXCEPT !.pc = "a.opening", !.pending = e]
<1>1. req[r] \in Local /\ p \in Plan /\ plans[p] = Nothing
  BY DEF MintPlan, TypeInv, TypeOK, LocalInv, Local
<1>2. /\ plans' = [plans EXCEPT ![p] = CurrentSnapshot]
      /\ req' = [req EXCEPT ![r] = l] /\ UNCHANGED revisions
  BY DEF MintPlan
<1>3. CurrentSnapshot # Nothing
  BY DEF CurrentSnapshot, Snapshot, TypeInv, TypeOK, Row
<1>4. l.pending = e /\ e.plan = p
  BY <1>1 DEF Local
<1>. HIDE DEF l, e
<1>5. p \notin Opened
  BY <1>1 DEF LadderInv, RungEarns
<1>6. \A q \in Opened : plans'[q] = plans[q]
  BY <1>1, <1>2, <1>5 DEF Opened, TypeInv, TypeOK
<1>7. RungEarns' /\ KeepsIdentity
  BY <1>2, <1>6 DEF LadderInv, RungEarns, KeepsIdentity, Opened
<1>8. /\ req'[r].pending = e
      /\ \A q \in Request \ {r} : req'[q] = req[q]
  BY <1>2, <1>4 DEF TypeInv, TypeOK
<1>9. ASSUME NEW q \in Request \ {r}, Opens(req[q])
      PROVE  /\ req[q].pending.plan \in Plan /\ req[q].pending.plan # p
             /\ plans'[req[q].pending.plan] = plans[req[q].pending.plan]
  <2>1. req[q].pending.plan \in Plan
    BY <1>9 DEF TypeInv, TypeOK, Local, RevisionEvent, Opens
  <2>2. req[q].pending.plan # p
    BY <1>1, <1>9 DEF LadderInv, OpenedOnce
  <2>3. QED
    BY <1>2, <2>1, <2>2 DEF TypeInv, TypeOK
<1>10. plans'[p] # Nothing
  BY <1>1, <1>2, <1>3 DEF TypeInv, TypeOK
<1>11. OpenedOnce'
  <2>1. ASSUME NEW q \in Request, Opens(req'[q])
        PROVE  plans'[req'[q].pending.plan] # Nothing /\ req'[q].pending.plan \notin Opened
    BY <1>4, <1>5, <1>8, <1>9, <1>10, <2>1 DEF LadderInv, OpenedOnce
  <2>2. ASSUME NEW q \in Request, NEW u \in Request, Opens(req'[q]), Opens(req'[u]),
               req'[q].pending.plan = req'[u].pending.plan
        PROVE  q = u
    BY <1>4, <1>8, <1>9, <2>2 DEF LadderInv, OpenedOnce
  <2>3. Opened' = Opened
    BY <1>2 DEF Opened
  <2>4. QED
    BY <2>1, <2>2, <2>3 DEF OpenedOnce, Opens
<1>12. QED
  BY <1>7, <1>11 DEF LadderInv

\* A request goes on as l, and opens nothing it did not.
LEMMA LadderStep ==
  ASSUME TypeInv, LadderInv, UNCHANGED <<plans, revisions>>, NEW r \in Request, NEW l,
         req' = [req EXCEPT ![r] = l], OpensNoMore(req[r], l)
  PROVE  LadderInv' /\ KeepsIdentity
<1>1. ASSUME NEW q \in Request PROVE OpensNoMore(req[q], req'[q])
  <2>1. req'[q] = IF q = r THEN l ELSE req[q]
    BY DEF TypeInv, TypeOK
  <2>2. QED
    BY <2>1 DEF OpensNoMore
<1>2. QED
  BY <1>1, LadderQuiet

LEMMA LadderReturn ==
  ASSUME TypeInv, LadderInv, UNCHANGED <<plans, revisions>>, NEW r \in Request, Return(r)
  PROVE  LadderInv' /\ KeepsIdentity
BY LadderStep, IdleIsLocal DEF Return, OpensNoMore, Opens

LEMMA LadderGoto ==
  ASSUME TypeInv, LadderInv, UNCHANGED <<plans, revisions>>, NEW r \in Request,
         NEW await, Goto(r, await)
  PROVE  LadderInv' /\ KeepsIdentity
<1>1. [req[r] EXCEPT !.pc = await].pending = req[r].pending
  BY DEF TypeInv, TypeOK, Local
<1>2. QED
  BY <1>1, LadderStep DEF Goto, OpensNoMore

LEMMA LadderReplaySteps ==
  ASSUME TypeInv, LadderInv, NEW r \in Request,
         RevisionMaterialized(r) \/ RevisionBuildable(r) \/ RevisionOpened(r)
           \/ (RecoverAppend(r) /\ Replay(req[r].pending))
  PROVE  LadderInv' /\ KeepsIdentity
<1>1. req[r].pending # Nothing /\ Replay(req[r].pending) /\ UNCHANGED plans
  BY DEF RevisionMaterialized, RevisionBuildable, RevisionOpened, RecoverAppend,
         TypeInv, LocalInv
<1>2. req'[r].pending = Nothing /\ \A q \in Request \ {r} : req'[q] = req[q]
  <2>1. req \in [Request -> Local] /\ req[r] \in Local
    BY DEF TypeInv, TypeOK
  <2>2. CASE Return(r)
    BY <2>1, <2>2, IdleIsLocal DEF Return
  <2>3. CASE RevisionMaterialized(r)
    BY <2>1, <2>3 DEF RevisionMaterialized, Local
  <2>4. QED
    BY <2>2, <2>3 DEF RevisionBuildable, RevisionOpened, RecoverAppend
<1>3. QED
  BY <1>1, <1>2, LadderReplay

LEMMA GenerateLadder ==
  ASSUME TypeInv, LadderInv, NEW r \in Request, Generate(r)
  PROVE  LadderInv' /\ KeepsIdentity
<1>. DEFINE l == req'[r]
<1>1. req \in [Request -> Local] /\ req[r] \in Local
  BY DEF TypeInv, TypeOK
<1>2. CASE RefuseGeneration(r) \/ GenerationThrows(r)
  BY <1>2, LadderReturn DEF RefuseGeneration, GenerationThrows, Throw
<1>3. CASE GenerationSucceeded(r) \/ BeginGenerate(r) \/ Compose(r)
  BY <1>3, LadderReturn, LadderGoto DEF GenerationSucceeded, BeginGenerate, Compose
<1>4. CASE StartGeneration(r) \/ PreviewStopped(r)
  <2>1. ASSUME NEW row, NEW v, LockForGeneration(r, row, v), UNCHANGED <<plans, revisions>>
        PROVE  LadderInv' /\ KeepsIdentity
    BY <1>1, <2>1, LadderStep DEF LockForGeneration, OpensNoMore, Local
  <2>2. CASE PreviewStopped(r)
    BY <2>1, <2>2 DEF PreviewStopped
  <2>3. CASE StartGeneration(r)
    <3>1. PICK v \in NextWorkspace :
            IF v = 1
              THEN LockForGeneration(r, ReadProject(r), v)
              ELSE req' = [req EXCEPT ![r] = [@ EXCEPT !.pc = "g.stopping",
                                     !.held = ReadProject(r), !.slot = v]]
      BY <2>3 DEF StartGeneration
    <3>2. UNCHANGED <<plans, revisions>>
      BY <2>3 DEF StartGeneration
    <3>3. [req[r] EXCEPT !.pc = "g.stopping", !.held = ReadProject(r),
                         !.slot = v].pending = req[r].pending
      BY <1>1 DEF Local
    <3>4. QED
      BY <2>1, <3>1, <3>2, <3>3, LadderStep DEF OpensNoMore
  <2>4. QED
    BY <1>4, <2>2, <2>3
<1>5. CASE ComposeFails(r) \/ GenerationFails(r)
  <2>1. GenerateCatch(r) /\ UNCHANGED <<plans, revisions>>
    BY <1>5 DEF ComposeFails, GenerationFails
  <2>2. [req[r] EXCEPT !.pc = "g.failed", !.running = FALSE, !.pending = Nothing].pending = Nothing
    BY <1>1 DEF Local
  <2>3. QED
    BY <2>1, <2>2, LadderStep DEF GenerateCatch, OpensNoMore, Opens
<1>6. CASE FinishGeneration(r)
  <2>. DEFINE row == Upsert([req[r].held EXCEPT !.state = "generated",
                                                !.workspace = req[r].slot])
              bytes == [slot |-> req[r].slot, input |-> files[req[r].slot].source]
              Event(p) == [to |-> "materialized", plan |-> p, bytes |-> bytes]
              Moved(await, e) == [req[r] EXCEPT !.pc = await, !.held = row,
                                                !.running = FALSE, !.pending = e]
  <2>. HIDE DEF row, bytes
  <2>1. ASSUME NEW await, NEW e, req' = [req EXCEPT ![r] = Moved(await, e)],
               e = Nothing \/ e.to = "materialized"
        PROVE  LadderInv' /\ KeepsIdentity
    <3>1. Moved(await, e).pending = e
      BY <1>1 DEF Local
    <3>. HIDE DEF Moved
    <3>2. UNCHANGED <<plans, revisions>>
      BY <1>6 DEF FinishGeneration
    <3>3. QED
      BY <2>1, <3>1, <3>2, LadderStep DEF OpensNoMore, Opens
  <2>2. \/ \E await \in Await : req' = [req EXCEPT ![r] = Moved(await, Nothing)]
        \/ \E p \in Plan : req' = [req EXCEPT ![r] = Moved("g.advancing", Event(p))]
    BY <1>6 DEF FinishGeneration, row, bytes, Await
  <2>3. \A p \in Plan : Event(p).to = "materialized"
    OBVIOUS
  <2>. HIDE DEF Event, Moved
  <2>4. QED
    BY <2>1, <2>2, <2>3
<1>7. QED
  BY <1>2, <1>3, <1>4, <1>5, <1>6, LadderReplaySteps DEF Generate

LEMMA VerifyLadder ==
  ASSUME TypeInv, LadderInv, NEW r \in Request, Verify(r)
  PROVE  LadderInv' /\ KeepsIdentity
<1>1. req[r] \in Local
  BY DEF TypeInv, TypeOK
<1>2. CASE StartVerification(r) \/ HashSource(r)
  <2>1. /\ [req[r] EXCEPT !.pc = "v.locked",
                           !.source = files[req[r].slot].source].pending = req[r].pending
        /\ [req[r] EXCEPT !.pc = "v.started", !.held = project, !.slot = project.workspace,
                           !.running = TRUE].pending = req[r].pending
    BY <1>1 DEF Local
  <2>2. QED
    BY <1>2, <2>1, LadderStep DEF StartVerification, HashSource, OpensNoMore
<1>3. CASE BuildWorkspace(r) \/ VerificationFails(r) \/ VerificationThrows(r)
  BY <1>3, LadderGoto, LadderReturn DEF BuildWorkspace, VerificationFails, VerificationThrows
<1>4. CASE RecordIdentity(r)
  <2>1. UNCHANGED <<plans, revisions>>
    BY <1>4 DEF RecordIdentity
  <2>. DEFINE dist == files[req[r].slot].dist
              row == [req[r].held EXCEPT !.state = "verified",
                        !.identity = [workspace |-> req[r].slot,
                                      source |-> req[r].source, output |-> dist]]
              Event(p) == [to |-> "buildable", plan |-> p,
                           bytes |-> [slot |-> req[r].slot, input |-> dist]]
  <2>2. \/ Return(r)
        \/ \E p \in Plan :
             req' = [req EXCEPT ![r] = [@ EXCEPT !.pc = "v.advancing", !.held = row,
                                          !.running = FALSE, !.pending = Event(p)]]
    BY <1>4 DEF RecordIdentity
  <2>. HIDE DEF row
  <2>3. ASSUME NEW p \in Plan,
               req' = [req EXCEPT ![r] = [@ EXCEPT !.pc = "v.advancing", !.held = row,
                                            !.running = FALSE, !.pending = Event(p)]]
        PROVE  LadderInv' /\ KeepsIdentity
    <3>. DEFINE e == Event(p)
                l == [req[r] EXCEPT !.pc = "v.advancing", !.held = row, !.running = FALSE,
                                    !.pending = e]
    <3>1. e.to = "buildable"
      OBVIOUS
    <3>. HIDE DEF e
    <3>2. l.pending = e
      BY <1>1 DEF Local
    <3>3. req' = [req EXCEPT ![r] = l]
      BY <2>3 DEF e
    <3>. HIDE DEF l
    <3>4. QED
      BY <2>1, <3>1, <3>2, <3>3, LadderStep DEF OpensNoMore, Opens
  <2>4. QED
    BY <2>1, <2>2, <2>3, LadderReturn
<1>5. QED
  BY <1>2, <1>3, <1>4, LadderReplaySteps DEF Verify

LEMMA IngestApproveExecuteLadder ==
  ASSUME TypeInv, LadderInv, NEW r \in Request, Ingest(r) \/ Approve(r) \/ Execute(r)
  PROVE  LadderInv' /\ KeepsIdentity
<1>1. req[r] \in Local
  BY DEF TypeInv, TypeOK
<1>2. CASE StartIngestion(r) \/ AttachPack(r) \/ EndIngestion(r) \/ IngestionThrows(r)
  <2>1. [req[r] EXCEPT !.pc = "i.ingesting", !.held = project,
                       !.running = TRUE].pending = req[r].pending
    BY <1>1 DEF Local
  <2>2. QED
    BY <1>2, <2>1, LadderStep, LadderGoto, LadderReturn
       DEF StartIngestion, AttachPack, EndIngestion, IngestionThrows, OpensNoMore
<1>3. CASE BeginApprove(r) \/ ClaimPlan(r)
  <2>1. PICK p \in Plan, await \in {"a.decided", "e.claimed"} :
          req' = [req EXCEPT ![r] = [@ EXCEPT !.pc = await, !.plan = p]]
    BY <1>3 DEF BeginApprove, ClaimPlan
  <2>2. [req[r] EXCEPT !.pc = await, !.plan = p].pending = req[r].pending
    BY <1>1 DEF Local
  <2>3. QED
    BY <1>3, <2>1, <2>2, LadderStep DEF BeginApprove, ClaimPlan, OpensNoMore
<1>4. CASE LockProject(r) \/ FreezeInputs(r)
  <2>1. ASSUME NEW o PROVE [req[r] EXCEPT !.pc = "e.locked", !.original = o].pending = req[r].pending
    BY <1>1 DEF Local
  <2>2. ASSUME NEW f, NEW h
        PROVE  [req[r] EXCEPT !.pc = "g.decided", !.frozen = f, !.held = h].pending = req[r].pending
    BY <1>1 DEF Local
  <2>3. CASE LockProject(r)
    BY <2>1, <2>3, LadderStep DEF LockProject, OpensNoMore
  <2>4. CASE FreezeInputs(r)
    <3>. DEFINE frozen == [project EXCEPT !.state = req[r].original.state,
                                          !.workspace = req[r].original.workspace]
    <3>1. req' = [req EXCEPT ![r] = [@ EXCEPT !.pc = "g.decided", !.frozen = inputs,
                                              !.held = frozen]]
      BY <2>4 DEF FreezeInputs
    <3>. DEFINE l == [req[r] EXCEPT !.pc = "g.decided", !.frozen = inputs, !.held = frozen]
    <3>. HIDE DEF frozen
    <3>2. l.pending = req[r].pending
      BY <2>2
    <3>3. req' = [req EXCEPT ![r] = l]
      BY <3>1
    <3>. HIDE DEF l
    <3>4. QED
      BY <2>4, <3>2, <3>3, LadderStep DEF FreezeInputs, OpensNoMore
  <2>5. QED
    BY <1>4, <2>3, <2>4
<1>5. CASE RefuseMint(r) \/ ApprovalThrows(r) \/ RefuseLock(r) \/ RejectExecution(r)
             \/ EndExecution(r)
  BY <1>5, LadderReturn DEF RefuseMint, ApprovalThrows, RefuseLock, RejectExecution,
     EndExecution, Throw
<1>6. QED
  BY <1>2, <1>3, <1>4, <1>5, LadderMint, LadderReplaySteps DEF Ingest, Approve, Execute

LEMMA NextLadder == TypeInv /\ LadderInv /\ [Next]_vars => LadderInv' /\ KeepsIdentity
<1>. SUFFICES ASSUME TypeInv, LadderInv, [Next]_vars PROVE LadderInv' /\ KeepsIdentity
  OBVIOUS
<1>1. ASSUME UNCHANGED <<plans, revisions, req>> PROVE LadderInv' /\ KeepsIdentity
  BY <1>1, LadderQuiet DEF OpensNoMore
<1>2. ASSUME NEW r \in Request, Edit(r) PROVE LadderInv' /\ KeepsIdentity
  BY <1>1, <1>2 DEF Edit, SaveOverrides, WriteAssetDecisions
<1>3. ASSUME NEW r \in Request, RecoverAppend(r) PROVE LadderInv' /\ KeepsIdentity
  BY <1>3, LadderReplaySteps, LadderReturn DEF RecoverAppend
<1>4. CASE Crash
  <2>1. ASSUME NEW q \in Request PROVE OpensNoMore(req[q], req'[q])
    <3>1. req'[q] = IF req[q].pending = Nothing THEN Idle
                    ELSE [Idle EXCEPT !.pc = "lost", !.pending = req[q].pending]
      BY <1>4 DEF Crash
    <3>2. [Idle EXCEPT !.pc = "lost", !.pending = req[q].pending].pending = req[q].pending
      BY DEF Idle
    <3>3. req'[q].pending \in {Nothing, req[q].pending}
      BY <3>1, <3>2, IdleIsLocal
    <3>4. QED
      BY <3>3 DEF OpensNoMore, Opens
  <2>2. QED
    BY <1>4, <2>1, LadderQuiet DEF Crash
<1>5. CASE Restart \/ UNCHANGED vars
  BY <1>1, <1>5 DEF Restart, vars
<1>6. QED
  BY <1>2, <1>3, <1>4, <1>5, GenerateLadder, VerifyLadder, IngestApproveExecuteLadder DEF Next

LEMMA InitLadder == Init => LadderInv
BY IdleIsLocal DEF Init, LadderInv, RungEarns, OpenedOnce, Opens, Opened

\* Whatever handlers advance a revision at once, and wherever the process dies,
\* what it recorded of its source or output is never replaced or taken away.
THEOREM IdentityIsKept == Spec => IdentityIsAppendOnly
<1>1. Init => TypeInv /\ LadderInv
  BY InitType, InitLadder
<1>2. TypeInv /\ LadderInv /\ [Next]_vars => (TypeInv /\ LadderInv)'
  BY NextType, NextLadder
<1>3. TypeInv /\ LadderInv /\ [Next]_vars =>
        [\A p \in Opened :
           /\ p \in Opened'
           /\ revisions[p].source # Nothing => revisions'[p].source = revisions[p].source
           /\ revisions[p].output # Nothing => revisions'[p].output = revisions[p].output
        ]_revisions
  BY NextLadder DEF KeepsIdentity
<1>4. QED
  BY <1>1, <1>2, <1>3, PTL DEF Spec, IdentityIsAppendOnly

-----------------------------------------------------------------------------
\* The tasks and the lock, while the process lives and its events are appended.

Reliable == ~MayCrash /\ ~LedgerMayFail

\* The awaits in which a request has a task in state running.
TaskAwait == {"g.started", "g.composed", "v.started", "v.locked", "v.built",
              "i.ingesting", "i.applied"}

HeldBy(l) == \/ l.pc \in {"e.locked", "g.started", "g.composed"}
             \/ l.pc \in {"g.decided", "g.stopping"} /\ l.plan # Nothing

\* A copy of the row that is written back whole does not say generating.
Unlocked(l) ==
  /\ l.pc \in {"i.ingesting", "v.advancing"} => l.held.state # "generating"
  /\ l.original # Nothing => l.original.state # "generating"

Working == {r \in Request : req[r].pc \in TaskAwait}

AccountInv == /\ \A r \in Request : /\ req[r].running <=> req[r].pc \in TaskAwait
                                    /\ Unlocked(req[r])
              /\ running = Cardinality(Working)
              /\ LockHasHolder

\* What a step of one request, which goes on as l, does to the two accounts.
Accounts(r, l) ==
  /\ req' = [req EXCEPT ![r] = l]
  /\ l.running <=> l.pc \in TaskAwait
  /\ Unlocked(l)
  /\ running' = CASE l.pc \in TaskAwait /\ req[r].pc \notin TaskAwait -> running + 1
                  [] l.pc \notin TaskAwait /\ req[r].pc \in TaskAwait -> running - 1
                  [] OTHER -> running
  /\ project'.state = "generating" =>
       HeldBy(l) \/ (project.state = "generating" /\ ~HeldBy(req[r]))

LEMMA AccountStep ==
  ASSUME IsFiniteSet(Request), TypeInv, AccountInv, NEW r \in Request, NEW l \in Local,
         Accounts(r, l)
  PROVE  AccountInv'
<1>1. /\ req \in [Request -> Local] /\ running \in Int
      /\ \A q \in Request : req'[q] = IF q = r THEN l ELSE req[q]
  BY DEF TypeInv, TypeOK, Accounts
<1>2. ASSUME NEW q \in Request
      PROVE  (req'[q].running <=> req'[q].pc \in TaskAwait) /\ Unlocked(req'[q])
  BY <1>1 DEF AccountInv, Accounts
<1>3. LockHasHolder'
  <2>1. \A q \in Request : Holds(q) <=> HeldBy(req[q])
    BY DEF Holds, HeldBy
  <2>2. \A q \in Request : Holds(q)' <=> HeldBy(req'[q])
    BY DEF Holds, HeldBy
  <2>3. SUFFICES ASSUME project'.state = "generating" PROVE \E q \in Request : HeldBy(req'[q])
    BY <2>2 DEF LockHasHolder
  <2>4. CASE HeldBy(l)
    BY <1>1, <2>4
  <2>5. CASE project.state = "generating" /\ ~HeldBy(req[r])
    <3>1. PICK q \in Request : HeldBy(req[q])
      BY <2>1, <2>5 DEF AccountInv, LockHasHolder
    <3>2. QED
      BY <1>1, <2>5, <3>1
  <2>6. QED
    BY <2>3, <2>4, <2>5 DEF Accounts
<1>4. running' = Cardinality(Working')
  <2>1. IsFiniteSet(Working) /\ Working \subseteq Request
    BY FS_Subset DEF Working
  <2>2. CASE l.pc \in TaskAwait /\ req[r].pc \notin TaskAwait
    <3>1. Working' = Working \cup {r} /\ r \notin Working
      BY <1>1, <2>2 DEF Working
    <3>2. QED
      BY <2>1, <2>2, <3>1, FS_AddElement DEF AccountInv, Accounts
  <2>3. CASE l.pc \notin TaskAwait /\ req[r].pc \in TaskAwait
    <3>1. Working' = Working \ {r} /\ r \in Working
      BY <1>1, <2>3 DEF Working
    <3>2. QED
      BY <2>1, <2>3, <3>1, FS_RemoveElement DEF AccountInv, Accounts
  <2>4. CASE l.pc \in TaskAwait <=> req[r].pc \in TaskAwait
    <3>1. Working' = Working
      BY <1>1, <2>4 DEF Working
    <3>2. QED
      BY <2>4, <3>1 DEF AccountInv, Accounts
  <2>5. QED
    BY <2>2, <2>3, <2>4
<1>5. QED
  BY <1>2, <1>3, <1>4 DEF AccountInv

\* A handler ends: its task has, and it gives the lock back.
LEMMA ReturnAccounts ==
  ASSUME TypeInv, AccountInv, NEW r \in Request, Return(r),
         IF req[r].pc \in TaskAwait THEN TaskEnds(r) ELSE TaskEnds(r) \/ UNCHANGED running,
         \/ project'.state # "generating"
         \/ UNCHANGED project /\ ~HeldBy(req[r])
  PROVE  Accounts(r, Idle)
<1>1. Idle.pc = "idle" /\ Idle.running = FALSE /\ Idle.original = Nothing
  BY DEF Idle
<1>2. req[r].running <=> req[r].pc \in TaskAwait
  BY DEF AccountInv
<1>3. running' = IF req[r].pc \in TaskAwait THEN running - 1 ELSE running
  BY <1>2 DEF TaskEnds
<1>4. QED
  BY <1>1, <1>3 DEF Accounts, Return, Unlocked, TaskAwait

\* The request moves on within its task, or outside of one.
LEMMA GotoAccounts ==
  ASSUME TypeInv, AccountInv, NEW r \in Request, NEW await \in Await, Goto(r, await),
         UNCHANGED running, await \in TaskAwait <=> req[r].pc \in TaskAwait,
         await \notin {"i.ingesting", "v.advancing"},
         \/ project'.state # "generating"
         \/ HeldBy([req[r] EXCEPT !.pc = await])
         \/ UNCHANGED project /\ ~HeldBy(req[r])
  PROVE  \E l \in Local : Accounts(r, l)
<1>. DEFINE l == [req[r] EXCEPT !.pc = await]
<1>1. /\ l \in Local /\ l.pc = await /\ l.original = req[r].original
      /\ l.running = req[r].running
  BY DEF TypeInv, TypeOK, Local
<1>2. req' = [req EXCEPT ![r] = l]
  BY DEF Goto
<1>. HIDE DEF l
<1>3. (l.running <=> l.pc \in TaskAwait) /\ Unlocked(l)
  BY <1>1 DEF AccountInv, Unlocked
<1>4. \/ project'.state # "generating" \/ HeldBy(l)
      \/ UNCHANGED project /\ ~HeldBy(req[r])
  BY DEF l
<1>5. QED
  BY <1>1, <1>2, <1>3, <1>4 DEF Accounts

\* What leaves generateProject by an error leaves the lock with it.
LEMMA ThrowAccounts ==
  ASSUME TypeInv, AccountInv, NEW r \in Request, Throw(r), UNCHANGED running,
         req[r].pc \notin TaskAwait,
         req[r].plan # Nothing => req[r].original # Nothing,
         req[r].plan = Nothing => ~HeldBy(req[r])
  PROVE  Accounts(r, Idle)
<1>1. CASE req[r].plan = Nothing
  BY <1>1, ReturnAccounts DEF Throw
<1>2. CASE req[r].plan # Nothing
  <2>. DEFINE o == req[r].original
              row == [project EXCEPT !.state = o.state, !.workspace = o.workspace]
  <2>1. o \in Row /\ project \in Row /\ o.state # "generating"
    BY <1>2 DEF TypeInv, TypeOK, Local, AccountInv, Unlocked
  <2>2. row \in Row /\ row.state = o.state
    BY <2>1 DEF Row
  <2>3. Upsert(row).state = row.state
    BY <2>2 DEF Upsert, Row
  <2>4. project' = IF project.state = "generating" THEN Upsert(row) ELSE project
    BY <1>2 DEF Throw, Restored
  <2>. HIDE DEF row
  <2>5. QED
    BY <2>1, <2>2, <2>3, <2>4, ReturnAccounts DEF Throw
<1>3. QED
  BY <1>1, <1>2

LEMMA LockAccounts ==
  ASSUME TypeInv, AccountInv, NEW r \in Request, NEW row \in Row, NEW v \in Slot,
         req[r].pc \in {"g.decided", "g.stopping"}, LockForGeneration(r, row, v)
  PROVE  \E l \in Local : Accounts(r, l)
<1>. DEFINE locked == Upsert([row EXCEPT !.state = "generating"])
            l == [req[r] EXCEPT !.pc = "g.started", !.held = locked,
                                !.slot = v, !.running = TRUE]
<1>1. locked \in Row
  <2>1. [row EXCEPT !.state = "generating"] \in Row
    BY DEF Row, ProjectState
  <2>2. QED
    BY <2>1, UpsertType DEF TypeInv
<1>2. "g.started" \in Await /\ v \in 0 .. MaxBuild /\ req[r] \in Local
  BY DEF Await, Slot, TypeInv, TypeOK
<1>3. req' = [req EXCEPT ![r] = l] /\ running' = running + 1
  BY DEF LockForGeneration
<1>. HIDE DEF locked
<1>4. /\ l \in Local /\ l.pc = "g.started" /\ l.original = req[r].original
      /\ l.running = TRUE
  BY <1>1, <1>2 DEF Local
<1>. HIDE DEF l
<1>5. Unlocked(l) /\ HeldBy(l)
  BY <1>4 DEF Unlocked, HeldBy, AccountInv
<1>6. l.pc \in TaskAwait /\ req[r].pc \notin TaskAwait
  BY <1>4 DEF TaskAwait
<1>7. QED
  BY <1>3, <1>4, <1>5, <1>6 DEF Accounts

LEMMA StartGenerationAccounts ==
  ASSUME TypeInv, AccountInv, NEW r \in Request, StartGeneration(r)
  PROVE  \E l \in Local : Accounts(r, l)
<1>. DEFINE row == ReadProject(r)
<1>1. row \in Row /\ req[r].pc = "g.decided"
  BY ReadProjectType DEF StartGeneration
<1>2. PICK v \in NextWorkspace :
        IF v = 1
          THEN LockForGeneration(r, row, v)
          ELSE /\ req' = [req EXCEPT ![r] = [@ EXCEPT !.pc = "g.stopping",
                                       !.held = row, !.slot = v]]
               /\ UNCHANGED <<project, running>>
  BY DEF StartGeneration
<1>. HIDE DEF row
<1>3. CASE v = 1
  BY <1>1, <1>2, <1>3, LockAccounts DEF NextWorkspace
<1>4. CASE v # 1
  <2>. DEFINE l == [req[r] EXCEPT !.pc = "g.stopping", !.held = row, !.slot = v]
  <2>1. "g.stopping" \in Await /\ v \in 0 .. MaxBuild /\ req[r] \in Local
    BY DEF Await, Slot, NextWorkspace, TypeInv, TypeOK
  <2>2. /\ l \in Local /\ l.pc = "g.stopping" /\ l.original = req[r].original
        /\ l.running = req[r].running /\ l.plan = req[r].plan
    BY <1>1, <2>1 DEF Local
  <2>3. req' = [req EXCEPT ![r] = l] /\ UNCHANGED <<project, running>>
    BY <1>2, <1>4
  <2>. HIDE DEF l
  <2>4. Unlocked(l) /\ (HeldBy(l) <=> HeldBy(req[r]))
    BY <1>1, <2>2 DEF Unlocked, HeldBy, AccountInv
  <2>5. l.pc \notin TaskAwait /\ req[r].pc \notin TaskAwait
    BY <1>1, <2>2 DEF TaskAwait
  <2>6. l.running <=> l.pc \in TaskAwait
    BY <2>2, <2>5 DEF AccountInv
  <2>7. QED
    BY <2>2, <2>3, <2>4, <2>5, <2>6 DEF Accounts
<1>5. QED
  BY <1>3, <1>4

LEMMA CatchAccounts ==
  ASSUME TypeInv, AccountInv, NEW r \in Request, req[r].pc \in {"g.started", "g.composed"},
         GenerateCatch(r)
  PROVE  \E l \in Local : Accounts(r, l)
<1>. DEFINE row == [req[r].held EXCEPT !.state = "failed"]
            l == [req[r] EXCEPT !.pc = "g.failed", !.running = FALSE, !.pending = Nothing]
<1>1. req[r] \in Local /\ req[r].held \in Row /\ "g.failed" \in Await
  BY DEF TypeInv, TypeOK, LocalInv, Local, Await
<1>2. /\ l \in Local /\ l.original = req[r].original /\ l.pc = "g.failed"
      /\ l.running = FALSE
  BY <1>1 DEF Local
<1>3. row \in Row /\ row.state = "failed"
  BY <1>1 DEF Row, ProjectState
<1>4. Upsert(row).state = "failed"
  BY <1>3 DEF Upsert, Row
<1>5. /\ req' = [req EXCEPT ![r] = l] /\ project' = Upsert(row)
      /\ running' = running - 1
  BY DEF GenerateCatch, TaskEnds, AccountInv, TaskAwait
<1>. HIDE DEF l, row
<1>6. Unlocked(l) /\ l.pc \notin TaskAwait /\ req[r].pc \in TaskAwait
  BY <1>2 DEF Unlocked, AccountInv, TaskAwait
<1>7. QED
  BY <1>2, <1>4, <1>5, <1>6 DEF Accounts

LEMMA FinishGenerationAccounts ==
  ASSUME TypeInv, AccountInv, NEW r \in Request, FinishGeneration(r)
  PROVE  \E l \in Local : Accounts(r, l)
<1>. DEFINE row == Upsert([req[r].held EXCEPT !.state = "generated",
                                              !.workspace = req[r].slot])
            failed == [row EXCEPT !.state = "failed"]
            bytes == [slot |-> req[r].slot, input |-> files[req[r].slot].source]
            Event(p) == [to |-> "materialized", plan |-> p, bytes |-> bytes]
            Moved(await, e) == [req[r] EXCEPT !.pc = await, !.held = row,
                                              !.running = FALSE, !.pending = e]
<1>1. /\ req[r] \in Local /\ req[r].held \in Row /\ req[r].pc = "g.composed"
      /\ req[r].slot \in 0 .. MaxBuild
  BY DEF FinishGeneration, TypeInv, TypeOK, LocalInv, Local
<1>2. row \in Row /\ row.state = "generated"
  <2>. DEFINE built == [req[r].held EXCEPT !.state = "generated", !.workspace = req[r].slot]
  <2>1. built \in Row /\ built.state = "generated"
    BY <1>1 DEF Row, ProjectState
  <2>. HIDE DEF built
  <2>2. Upsert(built) \in Row /\ Upsert(built).state = "generated"
    BY <2>1, UpsertType DEF Upsert, Row, TypeInv
  <2>3. QED
    BY <2>2 DEF built
<1>. HIDE DEF row
<1>3. failed.state = "failed"
  BY <1>2 DEF Row
<1>4. \A p \in Plan : Event(p) \in RevisionEvent
  <2>1. req[r].slot \in Slot /\ files[req[r].slot] # Nothing
    <3>1. req[r].slot # 0 /\ files[req[r].slot] # Nothing
      BY <1>1 DEF TypeInv, LocalInv
    <3>2. QED
      BY <1>1, <3>1 DEF Slot
  <2>2. files[req[r].slot] \in Files
    BY <2>1 DEF TypeInv, TypeOK
  <2>3. bytes \in Bytes
    BY <2>1, <2>2 DEF Bytes, Files
  <2>4. QED
    BY <2>3 DEF RevisionEvent, Rung
<1>5. ASSUME NEW await \in {"g.advancing", "g.succeeded", "g.failed"},
             NEW e \in RevisionEvent \cup {Nothing},
             req' = [req EXCEPT ![r] = Moved(await, e)], project' \in {row, failed}
      PROVE  \E l \in Local : Accounts(r, l)
  <2>. DEFINE l == Moved(await, e)
  <2>1. await \in Await
    BY DEF Await
  <2>2. /\ l \in Local /\ l.original = req[r].original /\ l.pc = await
        /\ l.running = FALSE
    BY <1>1, <1>2, <2>1 DEF Local
  <2>3. req' = [req EXCEPT ![r] = l]
    BY <1>5
  <2>. HIDE DEF l
  <2>4. Unlocked(l) /\ l.pc \notin TaskAwait /\ req[r].pc \in TaskAwait
    BY <1>1, <2>2 DEF Unlocked, AccountInv, TaskAwait
  <2>5. running' = running - 1
    BY <2>4 DEF FinishGeneration, TaskEnds, AccountInv
  <2>6. QED
    BY <1>2, <1>3, <1>5, <2>2, <2>3, <2>4, <2>5 DEF Accounts
<1>6. CASE req' = [req EXCEPT ![r] = Moved("g.succeeded", Nothing)] /\ project' = row
  BY <1>5, <1>6
<1>7. CASE /\ project' = row
           /\ \E p \in Plan : req' = [req EXCEPT ![r] = Moved("g.advancing", Event(p))]
  BY <1>4, <1>5, <1>7
<1>8. CASE req' = [req EXCEPT ![r] = Moved("g.failed", Nothing)] /\ project' = failed
  BY <1>5, <1>8
<1>9. QED
  BY <1>6, <1>7, <1>8 DEF FinishGeneration, row

LEMMA GenerateAccounts ==
  ASSUME Reliable, TypeInv, AccountInv, NEW r \in Request, Generate(r)
  PROVE  \E l \in Local : Accounts(r, l)
<1>. USE DEF TaskAwait, HeldBy
<1>1. /\ req[r] \in Local /\ LocalInv(req[r]) /\ Idle \in Local
  BY IdleIsLocal DEF TypeInv, TypeOK
<1>2. CASE BeginGenerate(r)
  <2>1. UNCHANGED <<project, running>> /\ req[r].pc = "idle" /\ Goto(r, "g.decided")
    BY <1>2 DEF BeginGenerate, Arrives
  <2>2. QED
    BY <2>1, GotoAccounts DEF Await
<1>3. CASE PreviewStopped(r)
  <2>1. req[r].held \in Row /\ req[r].slot \in Slot /\ req[r].pc = "g.stopping"
    BY <1>1, <1>3 DEF PreviewStopped, LocalInv, Local, Slot
  <2>2. QED
    BY <1>3, <2>1, LockAccounts DEF PreviewStopped
<1>4. CASE RefuseGeneration(r) \/ GenerationThrows(r)
  <2>1. req[r].pc \in {"g.decided", "g.failed"} /\ Throw(r) /\ UNCHANGED running
    BY <1>4 DEF RefuseGeneration, GenerationThrows, Reliable
  <2>2. req[r].plan # Nothing => req[r].original # Nothing
    BY <1>1, <2>1 DEF LocalInv
  <2>3. QED
    BY <1>1, <2>1, <2>2, ThrowAccounts
<1>5. CASE Compose(r)
  <2>1. UNCHANGED running /\ req[r].pc = "g.started" /\ Goto(r, "g.composed")
    BY <1>5 DEF Compose
  <2>2. [req[r] EXCEPT !.pc = "g.composed"].pc = "g.composed"
    BY <1>1 DEF Local
  <2>3. QED
    BY <2>1, <2>2, GotoAccounts DEF Await
<1>6. CASE ComposeFails(r) \/ GenerationFails(r)
  BY <1>6, CatchAccounts DEF ComposeFails, GenerationFails, Reliable
<1>7. CASE RevisionMaterialized(r)
  <2>. DEFINE l == [req[r] EXCEPT !.pc = "g.succeeded", !.pending = Nothing]
  <2>1. "g.succeeded" \in Await
    BY DEF Await
  <2>2. /\ l \in Local /\ l.pc = "g.succeeded" /\ l.original = req[r].original
        /\ l.running = req[r].running
    BY <1>1, <2>1 DEF Local
  <2>3. /\ req' = [req EXCEPT ![r] = l] /\ UNCHANGED <<project, running>>
        /\ req[r].pc = "g.advancing"
    BY <1>7 DEF RevisionMaterialized
  <2>. HIDE DEF l
  <2>4. (l.running <=> l.pc \in TaskAwait) /\ Unlocked(l)
    BY <2>2, <2>3 DEF AccountInv, Unlocked
  <2>5. QED
    BY <2>2, <2>3, <2>4 DEF Accounts
<1>8. CASE GenerationSucceeded(r)
  <2>1. UNCHANGED <<project, running>> /\ req[r].pc = "g.succeeded"
    BY <1>8 DEF GenerationSucceeded
  <2>2. CASE Return(r)
    BY <1>1, <2>1, <2>2, ReturnAccounts
  <2>3. CASE Goto(r, "e.executed")
    BY <2>1, <2>3, GotoAccounts DEF Await
  <2>4. QED
    BY <1>8, <2>2, <2>3 DEF GenerationSucceeded
<1>9. QED
  BY <1>2, <1>3, <1>4, <1>5, <1>6, <1>7, <1>8, StartGenerationAccounts,
     FinishGenerationAccounts DEF Generate

LEMMA RecordIdentityAccounts ==
  ASSUME TypeInv, AccountInv, NEW r \in Request, RecordIdentity(r)
  PROVE  \E l \in Local : Accounts(r, l)
<1>. DEFINE s == req[r].slot
            dist == files[s].dist
            row == [req[r].held EXCEPT !.state = "verified",
                      !.identity = [workspace |-> s, source |-> req[r].source, output |-> dist]]
            Event(p) == [to |-> "buildable", plan |-> p,
                         bytes |-> [slot |-> s, input |-> dist]]
<1>1. /\ req[r] \in Local /\ req[r].held \in Row /\ req[r].pc = "v.built"
      /\ s \in 0 .. MaxBuild /\ s # 0 /\ req[r].source \in Input
  BY DEF RecordIdentity, TypeInv, TypeOK, LocalInv, Local
<1>2. s \in Slot
  BY <1>1 DEF Slot
<1>3. files[s] \in Files /\ dist \in Input
  <2>1. files[s] # Nothing /\ dist # Nothing
    BY DEF RecordIdentity, TypeInv, LocalInv
  <2>2. files[s] \in Files
    BY <1>2, <2>1 DEF TypeInv, TypeOK
  <2>3. QED
    BY <2>1, <2>2 DEF Files
<1>4. [workspace |-> s, source |-> req[r].source, output |-> dist] \in Identity
  BY <1>1, <1>2, <1>3 DEF Identity
<1>5. row \in Row /\ row.state = "verified"
  BY <1>1, <1>4 DEF Row, ProjectState
<1>6. \A p \in Plan : Event(p) \in RevisionEvent
  BY <1>2, <1>3 DEF RevisionEvent, Rung, Bytes
<1>7. /\ TaskEnds(r)
      /\ \/ Return(r) /\ project' \in {project, Upsert(row)}
         \/ /\ UNCHANGED project
            /\ \E p \in Plan : req' = [req EXCEPT ![r] = [@ EXCEPT !.pc = "v.advancing",
                 !.held = row, !.running = FALSE, !.pending = Event(p)]]
  BY DEF RecordIdentity
<1>. HIDE DEF row, Event
<1>8. Upsert(row).state = "verified"
  BY <1>5 DEF Upsert, Row
<1>9. CASE Return(r) /\ project' \in {project, Upsert(row)}
  BY <1>1, <1>7, <1>8, <1>9, ReturnAccounts, IdleIsLocal DEF HeldBy
<1>10. ASSUME UNCHANGED project, NEW p \in Plan,
              req' = [req EXCEPT ![r] = [@ EXCEPT !.pc = "v.advancing",
                        !.held = row, !.running = FALSE, !.pending = Event(p)]]
       PROVE  \E l \in Local : Accounts(r, l)
  <2>. DEFINE l == [req[r] EXCEPT !.pc = "v.advancing", !.held = row,
                                  !.running = FALSE, !.pending = Event(p)]
  <2>1. /\ l \in Local /\ l.held = row /\ l.original = req[r].original
        /\ l.pc = "v.advancing" /\ l.running = FALSE
    BY <1>1, <1>5, <1>6 DEF Local, Await
  <2>2. req' = [req EXCEPT ![r] = l]
    BY <1>10
  <2>. HIDE DEF l
  <2>3. Unlocked(l)
    BY <1>5, <2>1 DEF AccountInv, Unlocked
  <2>4. l.pc \notin TaskAwait /\ req[r].pc \in TaskAwait /\ ~HeldBy(req[r])
    BY <1>1, <2>1 DEF TaskAwait, HeldBy
  <2>5. running' = running - 1
    BY <1>7, <2>4 DEF TaskEnds, AccountInv
  <2>6. QED
    BY <1>10, <2>1, <2>2, <2>3, <2>4, <2>5 DEF Accounts
<1>11. QED
  BY <1>7, <1>9, <1>10

\* A task starts with the row its request has read.
LEMMA BeginTaskAccounts ==
  ASSUME TypeInv, AccountInv, NEW r \in Request, StartVerification(r) \/ StartIngestion(r)
  PROVE  \E l \in Local : Accounts(r, l)
<1>1. /\ req[r] \in Local /\ project \in Row /\ req[r].pc = "idle"
      /\ project.workspace \in 0 .. MaxBuild
  BY DEF StartVerification, StartIngestion, Arrives, TypeInv, TypeOK, Row
<1>2. req[r].original = Nothing
  BY <1>1, IdleIsLocal DEF TypeInv, LocalInv
<1>3. CASE StartVerification(r)
  <2>. DEFINE l == [req[r] EXCEPT !.pc = "v.started", !.held = project,
                                  !.slot = project.workspace, !.running = TRUE]
  <2>1. "v.started" \in Await
    BY DEF Await
  <2>2. l \in Local /\ l.pc = "v.started" /\ l.running = TRUE /\ l.original = Nothing
    BY <1>1, <1>2, <2>1 DEF Local
  <2>3. req' = [req EXCEPT ![r] = l] /\ UNCHANGED project /\ running' = running + 1
    BY <1>3 DEF StartVerification
  <2>. HIDE DEF l
  <2>4. QED
    BY <1>1, <2>2, <2>3 DEF Accounts, Unlocked, TaskAwait, HeldBy
<1>4. CASE StartIngestion(r)
  <2>. DEFINE l == [req[r] EXCEPT !.pc = "i.ingesting", !.held = project, !.running = TRUE]
  <2>1. "i.ingesting" \in Await
    BY DEF Await
  <2>2. /\ l \in Local /\ l.pc = "i.ingesting" /\ l.running = TRUE /\ l.original = Nothing
        /\ l.held = project
    BY <1>1, <1>2, <2>1 DEF Local
  <2>3. /\ req' = [req EXCEPT ![r] = l] /\ UNCHANGED project /\ running' = running + 1
        /\ project.state # "generating"
    BY <1>4 DEF StartIngestion
  <2>. HIDE DEF l
  <2>4. QED
    BY <1>1, <2>2, <2>3 DEF Accounts, Unlocked, TaskAwait, HeldBy
<1>5. QED
  BY <1>3, <1>4

LEMMA VerifyIngestAccounts ==
  ASSUME Reliable, TypeInv, AccountInv, NEW r \in Request, Verify(r) \/ Ingest(r)
  PROVE  \E l \in Local : Accounts(r, l)
<1>. USE DEF TaskAwait, HeldBy
<1>1. req[r] \in Local /\ LocalInv(req[r]) /\ Idle \in Local
  BY IdleIsLocal DEF TypeInv, TypeOK
<1>2. CASE HashSource(r)
  <2>. DEFINE l == [req[r] EXCEPT !.pc = "v.locked", !.source = files[req[r].slot].source]
  <2>1. req[r].slot \in Slot /\ files[req[r].slot] # Nothing
    BY <1>1, <1>2 DEF HashSource, LocalInv, Local, Slot
  <2>2. files[req[r].slot].source \in Input /\ "v.locked" \in Await
    BY <2>1 DEF TypeInv, TypeOK, Files, Await
  <2>3. /\ l \in Local /\ l.pc = "v.locked" /\ l.original = req[r].original
        /\ l.running = req[r].running
    BY <1>1, <2>2 DEF Local
  <2>4. /\ req' = [req EXCEPT ![r] = l] /\ UNCHANGED <<project, running>>
        /\ req[r].pc = "v.started"
    BY <1>2 DEF HashSource
  <2>. HIDE DEF l
  <2>5. (l.running <=> l.pc \in TaskAwait) /\ Unlocked(l)
    BY <2>3, <2>4 DEF AccountInv, Unlocked
  <2>6. QED
    BY <2>3, <2>4, <2>5 DEF Accounts
<1>3. CASE BuildWorkspace(r)
  BY <1>3, GotoAccounts DEF BuildWorkspace, Await
<1>4. CASE VerificationFails(r) \/ EndIngestion(r)
  <2>1. /\ req[r].pc \in {"v.started", "v.locked", "i.applied", "i.ingesting"}
        /\ TaskEnds(r) /\ Return(r) /\ UNCHANGED project
    BY <1>4 DEF VerificationFails, EndIngestion, Reliable
  <2>2. QED
    BY <1>1, <2>1, ReturnAccounts
<1>5. CASE RevisionBuildable(r)
  <2>1. req[r].held \in Row /\ req[r].held.state # "generating" /\ req[r].pc = "v.advancing"
    BY <1>1, <1>5 DEF RevisionBuildable, LocalInv, Local, AccountInv, Unlocked
  <2>2. Upsert(req[r].held).state # "generating"
    BY <2>1 DEF Upsert, Row
  <2>3. QED
    BY <1>1, <1>5, <2>1, <2>2, ReturnAccounts DEF RevisionBuildable
<1>6. CASE AttachPack(r)
  <2>1. req[r].held \in Row /\ req[r].held.state # "generating" /\ req[r].pc = "i.ingesting"
    BY <1>1, <1>6 DEF AttachPack, LocalInv, Local, AccountInv, Unlocked
  <2>2. PICK k \in Pack : project' = Upsert([req[r].held EXCEPT !.pack = k])
    BY <1>6 DEF AttachPack
  <2>3. project'.state # "generating"
    BY <2>1, <2>2 DEF Upsert, Row
  <2>4. QED
    BY <1>6, <2>1, <2>3, GotoAccounts DEF AttachPack, Await
<1>7. CASE VerificationThrows(r) \/ IngestionThrows(r)
  BY <1>7 DEF VerificationThrows, IngestionThrows, Reliable
<1>8. QED
  BY <1>2, <1>3, <1>4, <1>5, <1>6, <1>7, BeginTaskAccounts, RecordIdentityAccounts
     DEF Verify, Ingest

\* An approval or an execution begins.
LEMMA BeginPlanAccounts ==
  ASSUME TypeInv, AccountInv, NEW r \in Request, BeginApprove(r) \/ ClaimPlan(r)
  PROVE  \E l \in Local : Accounts(r, l)
<1>1. PICK p \in Plan, await \in {"a.decided", "e.claimed"} :
        req' = [req EXCEPT ![r] = [@ EXCEPT !.pc = await, !.plan = p]]
  BY DEF BeginApprove, ClaimPlan
<1>2. UNCHANGED <<project, running>> /\ req[r].pc = "idle"
  BY DEF BeginApprove, ClaimPlan, Arrives
<1>. DEFINE l == [req[r] EXCEPT !.pc = await, !.plan = p]
<1>3. req[r] \in Local /\ await \in Await
  BY DEF TypeInv, TypeOK, Await
<1>4. /\ l \in Local /\ l.pc = await /\ l.original = req[r].original
      /\ l.running = req[r].running
  BY <1>3 DEF Local
<1>5. req' = [req EXCEPT ![r] = l]
  BY <1>1
<1>. HIDE DEF l
<1>6. (l.running <=> l.pc \in TaskAwait) /\ Unlocked(l)
  BY <1>2, <1>4 DEF AccountInv, Unlocked, TaskAwait
<1>7. QED
  BY <1>2, <1>4, <1>5, <1>6 DEF Accounts, TaskAwait, HeldBy

LEMMA ApproveAccounts ==
  ASSUME Reliable, TypeInv, AccountInv, NEW r \in Request, Approve(r)
  PROVE  \E l \in Local : Accounts(r, l)
<1>. USE DEF TaskAwait, HeldBy
<1>1. req[r] \in Local /\ LocalInv(req[r]) /\ Idle \in Local
  BY IdleIsLocal DEF TypeInv, TypeOK
<1>2. CASE MintPlan(r)
  <2>. DEFINE e == [to |-> "contract-approved", plan |-> req[r].plan, bytes |-> Nothing]
              l == [req[r] EXCEPT !.pc = "a.opening", !.pending = e]
  <2>1. req[r].plan \in Plan /\ "a.opening" \in Await
    BY <1>1, <1>2 DEF MintPlan, LocalInv, Local, Await
  <2>2. e \in RevisionEvent
    BY <2>1 DEF RevisionEvent, Rung
  <2>. HIDE DEF e
  <2>3. /\ l \in Local /\ l.pc = "a.opening" /\ l.original = req[r].original
        /\ l.running = req[r].running
    BY <1>1, <2>1, <2>2 DEF Local
  <2>4. /\ req' = [req EXCEPT ![r] = l] /\ UNCHANGED <<project, running>>
        /\ req[r].pc = "a.decided"
    BY <1>2 DEF MintPlan, e
  <2>. HIDE DEF l
  <2>5. (l.running <=> l.pc \in TaskAwait) /\ Unlocked(l)
    BY <2>3, <2>4 DEF AccountInv, Unlocked
  <2>6. QED
    BY <2>3, <2>4, <2>5 DEF Accounts
<1>3. CASE RefuseMint(r) \/ RevisionOpened(r) \/ ApprovalThrows(r)
  <2>1. /\ req[r].pc \in {"a.decided", "a.opening"}
        /\ Return(r) /\ UNCHANGED <<project, running>>
    BY <1>3 DEF RefuseMint, RevisionOpened, ApprovalThrows
  <2>2. QED
    BY <1>1, <2>1, ReturnAccounts
<1>4. QED
  BY <1>2, <1>3, BeginPlanAccounts DEF Approve

LEMMA ExecuteAccounts ==
  ASSUME Reliable, TypeInv, AccountInv, NEW r \in Request, Execute(r)
  PROVE  \E l \in Local : Accounts(r, l)
<1>. USE DEF TaskAwait, HeldBy
<1>1. /\ req[r] \in Local /\ LocalInv(req[r]) /\ Idle \in Local /\ project \in Row
      /\ inputs \in Input
  BY IdleIsLocal DEF TypeInv, TypeOK
<1>2. CASE LockProject(r)
  <2>. DEFINE l == [req[r] EXCEPT !.pc = "e.locked", !.original = project]
  <2>1. "e.locked" \in Await
    BY DEF Await
  <2>2. /\ l \in Local /\ l.pc = "e.locked" /\ l.original = project
        /\ l.running = req[r].running
    BY <1>1, <2>1 DEF Local
  <2>3. /\ req' = [req EXCEPT ![r] = l] /\ UNCHANGED running
        /\ req[r].pc = "e.claimed" /\ project.state # "generating"
    BY <1>2 DEF LockProject
  <2>. HIDE DEF l
  <2>4. (l.running <=> l.pc \in TaskAwait) /\ Unlocked(l)
    BY <2>2, <2>3 DEF AccountInv, Unlocked
  <2>5. QED
    BY <2>2, <2>3, <2>4 DEF Accounts
<1>3. CASE FreezeInputs(r)
  <2>. DEFINE o == req[r].original
              frozen == [project EXCEPT !.state = o.state, !.workspace = o.workspace]
              l == [req[r] EXCEPT !.pc = "g.decided", !.frozen = inputs, !.held = frozen]
  <2>1. o \in Row /\ "g.decided" \in Await /\ req[r].pc = "e.locked" /\ req[r].plan # Nothing
    BY <1>1, <1>3 DEF FreezeInputs, LocalInv, Local, Await
  <2>2. frozen \in Row
    BY <1>1, <2>1 DEF Row
  <2>. HIDE DEF frozen
  <2>3. /\ l \in Local /\ l.pc = "g.decided" /\ l.original = o /\ l.plan = req[r].plan
        /\ l.running = req[r].running
    BY <1>1, <2>1, <2>2 DEF Local
  <2>4. req' = [req EXCEPT ![r] = l] /\ UNCHANGED <<project, running>>
    BY <1>3 DEF FreezeInputs, frozen
  <2>. HIDE DEF l
  <2>5. (l.running <=> l.pc \in TaskAwait) /\ Unlocked(l)
    BY <2>1, <2>3 DEF AccountInv, Unlocked
  <2>6. QED
    BY <2>1, <2>3, <2>4, <2>5 DEF Accounts
<1>4. CASE RefuseLock(r)
  <2>1. req[r].pc = "e.claimed" /\ Return(r) /\ UNCHANGED <<project, running>>
    BY <1>4 DEF RefuseLock
  <2>2. QED
    BY <1>1, <2>1, ReturnAccounts
<1>5. CASE RejectExecution(r)
  <2>1. req[r].pc = "e.locked" /\ Throw(r) /\ UNCHANGED running
    BY <1>5 DEF RejectExecution
  <2>2. req[r].plan # Nothing /\ req[r].original # Nothing
    BY <1>1, <2>1 DEF LocalInv
  <2>3. QED
    BY <1>1, <2>1, <2>2, ThrowAccounts
<1>6. CASE EndExecution(r)
  <2>1. req[r].pc = "e.executed" /\ Return(r) /\ UNCHANGED <<project, running>>
    BY <1>6 DEF EndExecution, Reliable
  <2>2. QED
    BY <1>1, <2>1, ReturnAccounts
<1>7. QED
  BY <1>2, <1>3, <1>4, <1>5, <1>6, BeginPlanAccounts DEF Execute

LEMMA NextAccounts ==
  ASSUME Reliable, IsFiniteSet(Request)
  PROVE  TypeInv /\ AccountInv /\ [Next]_vars => AccountInv'
<1>. SUFFICES ASSUME TypeInv, AccountInv, [Next]_vars PROVE AccountInv'
  OBVIOUS
<1>1. ASSUME UNCHANGED <<project, running, req>> PROVE AccountInv'
  BY <1>1 DEF AccountInv, Working, LockHasHolder, Holds, Unlocked
<1>2. ASSUME NEW r \in Request, Edit(r) PROVE AccountInv'
  BY <1>1, <1>2 DEF Edit, SaveOverrides, WriteAssetDecisions
<1>3. ASSUME NEW r \in Request, RecoverAppend(r) PROVE AccountInv'
  <2>1. req[r].pc = "lost" /\ Return(r) /\ UNCHANGED <<project, running>>
    BY <1>3 DEF RecoverAppend
  <2>2. Accounts(r, Idle)
    BY <2>1, ReturnAccounts DEF TaskAwait, HeldBy
  <2>3. QED
    BY <2>2, AccountStep, IdleIsLocal
<1>4. ASSUME NEW r \in Request,
             Generate(r) \/ Verify(r) \/ Ingest(r) \/ Approve(r) \/ Execute(r)
      PROVE  AccountInv'
  <2>1. \E l \in Local : Accounts(r, l)
    BY <1>4, GenerateAccounts, VerifyIngestAccounts, ApproveAccounts, ExecuteAccounts
  <2>2. QED
    BY <2>1, AccountStep
<1>5. CASE Restart \/ UNCHANGED vars
  BY <1>1, <1>5 DEF Restart, vars
<1>6. CASE Crash
  BY <1>6 DEF Crash, Reliable
<1>7. QED
  BY <1>2, <1>3, <1>4, <1>5, <1>6 DEF Next

LEMMA InitAccounts == Init => AccountInv
<1>. SUFFICES ASSUME Init PROVE AccountInv
  OBVIOUS
<1>1. Idle.pc = "idle" /\ Idle.running = FALSE /\ Idle.original = Nothing
  BY DEF Idle
<1>2. \A r \in Request : req[r] = Idle
  BY DEF Init
<1>3. Working = {}
  BY <1>1, <1>2 DEF Working, TaskAwait
<1>4. running = Cardinality(Working)
  BY <1>3, FS_EmptySet DEF Init
<1>5. LockHasHolder
  BY DEF Init, LockHasHolder
<1>6. QED
  BY <1>1, <1>2, <1>4, <1>5 DEF AccountInv, Unlocked, TaskAwait

\* While the process lives and its ledger accepts events, the word generating
\* in the row, which names no owner, has a request working on it.
THEOREM LockIsHeld ==
  ASSUME Reliable, IsFiniteSet(Request)
  PROVE  Spec => []LockHasHolder
<1>1. Init => TypeInv /\ AccountInv
  BY InitType, InitAccounts
<1>2. TypeInv /\ AccountInv /\ [Next]_vars => (TypeInv /\ AccountInv)'
  BY NextType, NextAccounts
<1>3. AccountInv => LockHasHolder
  BY DEF AccountInv
<1>4. QED
  BY <1>1, <1>2, <1>3, PTL DEF Spec

\* On every way out of every handler, caught or not, a task leaves state
\* running with the request that started it.
THEOREM TasksAreSettled ==
  ASSUME Reliable, IsFiniteSet(Request)
  PROVE  Spec => []TasksSettle
<1>1. Init => TypeInv /\ AccountInv
  BY InitType, InitAccounts
<1>2. TypeInv /\ AccountInv /\ [Next]_vars => (TypeInv /\ AccountInv)'
  BY NextType, NextAccounts
<1>3. TypeInv /\ AccountInv => TasksSettle
  <2>1. AccountInv => {r \in Request : req[r].running} = Working
    BY DEF AccountInv, Working
  <2>2. QED
    BY <2>1 DEF AccountInv, TasksSettle
<1>4. QED
  BY <1>1, <1>2, <1>3, PTL DEF Spec
=============================================================================
