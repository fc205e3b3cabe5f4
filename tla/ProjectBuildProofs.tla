------------------------- MODULE ProjectBuildProofs -------------------------
(***************************************************************************)
(* What is proved of ProjectBuild, for every number of requests, plans,    *)
(* packs, inputs and workspaces, with crashes and failing appends.         *)
(***************************************************************************)
EXTENDS ProjectBuild, TLAPS

\* A row names no workspace, or one that holds files.
RowHasFiles(row) == row.workspace # 0 => files[row.workspace] # Nothing

HoldsRow == (GenerateAwait \ {"g.decided"}) \cup VerifyAwait \cup IngestAwait
HoldsSlot == (GenerateAwait \ {"g.decided"}) \cup VerifyAwait
HoldsFiles == VerifyAwait \cup {"g.composed"}
HoldsEvent == {"g.advancing", "v.advancing", "a.opening", "lost"}

\* What the local variables of a request hold at each of its awaits.
LocalInv(l) ==
  /\ l.pc = "idle" => l = Idle
  /\ l.held # Nothing => RowHasFiles(l.held)
  /\ l.original # Nothing => RowHasFiles(l.original)
  /\ l.pc \in HoldsRow => l.held # Nothing
  /\ l.pc \in HoldsSlot => l.slot # 0
  /\ l.pc \in HoldsFiles => files[l.slot] # Nothing
  /\ l.pc \in {"v.locked", "v.built"} => l.source # Nothing
  /\ l.pc = "v.built" => files[l.slot].dist # Nothing
  /\ l.pc \in HoldsEvent => l.pending # Nothing
  /\ l.pc \in ApproveAwait \cup ExecuteAwait => l.plan # Nothing
  /\ l.pc \in {"e.locked", "e.executed"} => l.original # Nothing
  /\ l.pc \in GenerateAwait /\ l.plan # Nothing =>
       l.original # Nothing /\ l.held # Nothing /\ l.frozen # Nothing

\* A workspace has files exactly when something was composed into it.
TreesHaveFiles == \A s \in Slot : tree[s] = Nothing <=> files[s] = Nothing

TypeInv == /\ TypeOK
           /\ TreesHaveFiles
           /\ RowHasFiles(project)
           /\ \A r \in Request : LocalInv(req[r])

\* No step takes the files of a workspace, or its build output, away.
FilesGrow == \A s \in Slot :
               files[s] # Nothing =>
                 /\ files'[s] # Nothing
                 /\ files[s].dist # Nothing => files'[s].dist # Nothing

-----------------------------------------------------------------------------
\* An event that is replayed leaves a ladder of the right type.
LEMMA ReplayType ==
  ASSUME TypeOK, NEW e \in RevisionEvent, Replay(e)
  PROVE  /\ revisions' \in [Plan -> Revision \cup {Nothing}]
         /\ poisoned' \in BOOLEAN
<1>1. CASE Replays(e)
  <2>1. Earned(e) \in Revision
    BY <1>1 DEF TypeOK, Replays, Earned, Revision, RevisionEvent, Rung
  <2>2. QED
    BY <1>1, <2>1 DEF Replay, TypeOK, RevisionEvent
<1>2. CASE ~Replays(e)
  BY <1>2 DEF Replay, TypeOK
<1>3. QED
  BY <1>1, <1>2

\* A row written by upsertProject is a row, in the same workspace.
LEMMA UpsertType ==
  ASSUME TypeOK, NEW row \in Row
  PROVE  /\ Upsert(row) \in Row
         /\ Upsert(row).workspace = row.workspace
BY DEF TypeOK, Upsert, Row

\* A step of one request keeps what the others rely on.
LEMMA OthersKeep ==
  ASSUME TypeInv, NEW r \in Request, FilesGrow, TypeOK', TreesHaveFiles',
         RowHasFiles(project)', LocalInv(req[r])',
         \A q \in Request \ {r} : req'[q] = req[q]
  PROVE  TypeInv'
<1>1. SUFFICES ASSUME NEW q \in Request, q # r PROVE LocalInv(req[q])'
  BY DEF TypeInv
<1>2. LocalInv(req[q]) /\ req'[q] = req[q] /\ req[q] \in Local
  BY <1>1 DEF TypeInv, TypeOK
<1>3. req[q].pc \in HoldsFiles =>
        /\ files'[req[q].slot] # Nothing
        /\ files[req[q].slot].dist # Nothing => files'[req[q].slot].dist # Nothing
  <2>1. req[q].pc \in HoldsFiles => req[q].slot \in Slot
    BY <1>2 DEF LocalInv, HoldsFiles, HoldsSlot, GenerateAwait, Local, Slot
  <2>2. QED
    BY <1>2, <2>1 DEF LocalInv, FilesGrow
<1>4. ASSUME NEW row \in Row, RowHasFiles(row) PROVE RowHasFiles(row)'
  BY <1>4 DEF RowHasFiles, Row, Slot, FilesGrow
<1>5. /\ req[q].held # Nothing => RowHasFiles(req[q].held)'
      /\ req[q].original # Nothing => RowHasFiles(req[q].original)'
  BY <1>2, <1>4 DEF LocalInv, Local
<1>6. QED
  BY <1>1, <1>2, <1>3, <1>5 DEF LocalInv, HoldsFiles, VerifyAwait

USE BuildAssumption, NothingAssumption
USE DEF contract, ladder, disk, At, HoldsRow, HoldsSlot, HoldsFiles, HoldsEvent,
        GenerateAwait, VerifyAwait, IngestAwait, ApproveAwait, ExecuteAwait

\* TypeOK, but for the row and the requests.
RestOK == /\ inputs \in Input
          /\ tree \in [Slot -> Tree \cup {Nothing}]
          /\ files \in [Slot -> Files \cup {Nothing}]
          /\ plans \in [Plan -> Snapshot \cup {Nothing}]
          /\ claimed \subseteq Plan
          /\ revisions \in [Plan -> Revision \cup {Nothing}]
          /\ poisoned \in BOOLEAN
          /\ running \in Int
          /\ begun \in 0 .. MaxRequests
          /\ up \in BOOLEAN

LEMMA IdleIsLocal == /\ Idle \in Local
                     /\ LocalInv(Idle)
                     /\ Idle.held = Nothing /\ Idle.original = Nothing
                     /\ Idle.plan = Nothing /\ Idle.pending = Nothing
BY DEF Idle, Local, LocalInv

\* One request takes a step that leaves the disk alone.
LEMMA StepType ==
  ASSUME TypeInv, NEW r \in Request, NEW l \in Local, LocalInv(l),
         req' = [req EXCEPT ![r] = l], UNCHANGED disk, RestOK',
         project' \in Row, RowHasFiles(project')
  PROVE  TypeInv'
<1>1. /\ req' \in [Request -> Local] /\ req'[r] = l
      /\ \A q \in Request \ {r} : req'[q] = req[q]
  BY DEF TypeInv, TypeOK
<1>2. FilesGrow /\ TreesHaveFiles'
  BY DEF FilesGrow, TypeInv, TreesHaveFiles
<1>3. RowHasFiles(project)' /\ LocalInv(req[r])'
  BY <1>1 DEF RowHasFiles, LocalInv
<1>4. TypeOK'
  BY <1>1 DEF TypeOK, RestOK
<1>5. QED
  BY <1>1, <1>2, <1>3, <1>4, OthersKeep

\* A handler ends.
LEMMA ReturnType ==
  ASSUME TypeInv, NEW r \in Request, Return(r), UNCHANGED disk, RestOK',
         project' \in Row, RowHasFiles(project')
  PROVE  TypeInv'
BY StepType, IdleIsLocal DEF Return

\* Nothing but the awaits of a request changes.
LEMMA GotoType ==
  ASSUME TypeInv, NEW r \in Request, NEW await \in Await, Goto(r, await),
         LocalInv([req[r] EXCEPT !.pc = await]), UNCHANGED disk, RestOK',
         project' \in Row, RowHasFiles(project')
  PROVE  TypeInv'
<1>1. [req[r] EXCEPT !.pc = await] \in Local
  BY DEF TypeInv, TypeOK, Local
<1>2. QED
  BY <1>1, StepType DEF Goto

\* The row survives an error that leaves generateProject.
LEMMA ThrowType ==
  ASSUME TypeInv, NEW r \in Request, Throw(r),
         req[r].plan # Nothing => req[r].original # Nothing
  PROVE  project' \in Row /\ RowHasFiles(project')
<1>1. CASE req[r].plan = Nothing \/ project.state # "generating"
  BY <1>1 DEF TypeInv, TypeOK, Throw, Restored
<1>2. CASE req[r].plan # Nothing /\ project.state = "generating"
  <2>. DEFINE o == req[r].original
              row == [project EXCEPT !.state = o.state, !.workspace = o.workspace]
  <2>1. project \in Row /\ o \in Row /\ RowHasFiles(o)
    BY <1>2 DEF TypeInv, TypeOK, Local, LocalInv
  <2>2. row \in Row /\ RowHasFiles(row)
    BY <2>1 DEF Row, RowHasFiles
  <2>3. project' = Upsert(row)
    BY <1>2 DEF Throw, Restored
  <2>4. QED
    BY <2>2, <2>3, UpsertType DEF TypeInv, RowHasFiles
<1>3. QED
  BY <1>1, <1>2

-----------------------------------------------------------------------------
\* generateProject.

LEMMA BeginGenerateType ==
  ASSUME TypeInv, NEW r \in Request, BeginGenerate(r) PROVE TypeInv'
<1>. DEFINE l == [Idle EXCEPT !.pc = "g.decided"]
<1>1. /\ l \in Local /\ l.pc = "g.decided"
      /\ l.held = Nothing /\ l.original = Nothing /\ l.plan = Nothing
  BY IdleIsLocal DEF Local, Await
<1>2. req' = [req EXCEPT ![r] = l]
  BY DEF BeginGenerate, Arrives, Goto, TypeInv, LocalInv
<1>. HIDE DEF l
<1>3. LocalInv(l)
  BY <1>1 DEF LocalInv
<1>4. RestOK' /\ project' = project /\ UNCHANGED disk
  BY DEF BeginGenerate, Arrives, TypeInv, TypeOK, RestOK
<1>5. QED
  BY <1>1, <1>2, <1>3, <1>4, StepType DEF TypeInv, TypeOK

\* The row a generation reads, its own or the project's.
LEMMA ReadProjectType ==
  ASSUME TypeInv, NEW r \in Request, req[r].pc \in GenerateAwait
  PROVE  ReadProject(r) \in Row /\ RowHasFiles(ReadProject(r))
BY DEF TypeInv, TypeOK, ReadProject, LocalInv, Local

LEMMA LockForGenerationType ==
  ASSUME TypeInv, NEW r \in Request, NEW row \in Row, RowHasFiles(row),
         NEW v \in Slot, req[r].pc \in {"g.decided", "g.stopping"},
         LockForGeneration(r, row, v),
         UNCHANGED <<disk, contract, ladder, begun, up>>
  PROVE  TypeInv'
<1>. DEFINE locked == Upsert([row EXCEPT !.state = "generating"])
            l == [req[r] EXCEPT !.pc = "g.started", !.held = locked,
                                !.slot = v, !.running = TRUE]
<1>1. locked \in Row /\ RowHasFiles(locked)
  <2>1. [row EXCEPT !.state = "generating"] \in Row
    BY DEF Row, ProjectState
  <2>2. QED
    BY <2>1, UpsertType DEF TypeInv, RowHasFiles, Row
<1>2. "g.started" \in Await /\ v \in 0 .. MaxBuild /\ v # 0 /\ req[r] \in Local
  BY DEF Await, Slot, TypeInv, TypeOK
<1>. HIDE DEF locked
<1>3. /\ l \in Local /\ l.pc = "g.started" /\ l.held = locked /\ l.slot = v
      /\ l.original = req[r].original /\ l.plan = req[r].plan
      /\ l.frozen = req[r].frozen
  BY <1>1, <1>2 DEF Local
<1>4. /\ req' = [req EXCEPT ![r] = l] /\ project' = locked
      /\ running' = running + 1
  BY DEF LockForGeneration, locked
<1>. HIDE DEF l
<1>5. LocalInv(l)
  BY <1>1, <1>2, <1>3 DEF LocalInv, TypeInv, Row
<1>6. RestOK'
  BY <1>4 DEF TypeInv, TypeOK, RestOK
<1>7. QED
  BY <1>1, <1>3, <1>4, <1>5, <1>6, StepType

LEMMA StartGenerationType ==
  ASSUME TypeInv, NEW r \in Request, StartGeneration(r) PROVE TypeInv'
<1>. DEFINE row == ReadProject(r)
<1>1. row \in Row /\ RowHasFiles(row)
  BY ReadProjectType DEF StartGeneration
<1>2. PICK v \in NextWorkspace :
        IF v = 1
          THEN LockForGeneration(r, row, v)
          ELSE /\ req' = [req EXCEPT ![r] = [@ EXCEPT !.pc = "g.stopping",
                                       !.held = row, !.slot = v]]
               /\ UNCHANGED <<project, running>>
  BY DEF StartGeneration
<1>. HIDE DEF row
<1>3. CASE v = 1
  BY <1>1, <1>2, <1>3, LockForGenerationType DEF StartGeneration, NextWorkspace
<1>4. CASE v # 1
  <2>. DEFINE l == [req[r] EXCEPT !.pc = "g.stopping", !.held = row, !.slot = v]
  <2>1. "g.stopping" \in Await /\ v \in 0 .. MaxBuild /\ v # 0 /\ req[r] \in Local
    BY DEF Await, Slot, NextWorkspace, TypeInv, TypeOK
  <2>2. /\ l \in Local /\ l.pc = "g.stopping" /\ l.held = row /\ l.slot = v
        /\ l.original = req[r].original /\ l.plan = req[r].plan
        /\ l.frozen = req[r].frozen
    BY <1>1, <2>1 DEF Local
  <2>3. req' = [req EXCEPT ![r] = l] /\ UNCHANGED <<project, running>>
    BY <1>2, <1>4
  <2>. HIDE DEF l
  <2>4. LocalInv(l)
    BY <1>1, <2>1, <2>2 DEF StartGeneration, LocalInv, TypeInv, Row
  <2>5. RestOK'
    BY <2>3 DEF StartGeneration, TypeInv, TypeOK, RestOK
  <2>6. QED
    BY <2>2, <2>3, <2>4, <2>5, StepType DEF StartGeneration, TypeInv, TypeOK
<1>5. QED
  BY <1>3, <1>4

LEMMA RefuseGenerationType ==
  ASSUME TypeInv, NEW r \in Request, RefuseGeneration(r) PROVE TypeInv'
<1>1. RestOK' /\ Throw(r) /\ Return(r) /\ UNCHANGED disk
  BY DEF RefuseGeneration, Throw, TypeInv, TypeOK, RestOK
<1>2. req[r].plan # Nothing => req[r].original # Nothing
  BY DEF RefuseGeneration, TypeInv, LocalInv
<1>3. QED
  BY <1>1, <1>2, ThrowType, ReturnType

LEMMA PreviewStoppedType ==
  ASSUME TypeInv, NEW r \in Request, PreviewStopped(r) PROVE TypeInv'
<1>1. /\ req[r].held \in Row /\ RowHasFiles(req[r].held)
      /\ req[r].slot \in Slot /\ req[r].pc = "g.stopping"
  BY DEF PreviewStopped, TypeInv, TypeOK, LocalInv, Local, Slot
<1>2. QED
  BY <1>1, LockForGenerationType DEF PreviewStopped

\* One request takes a step that adds files, or writes over some.
LEMMA DiskStepType ==
  ASSUME TypeInv, NEW r \in Request, NEW l \in Local, LocalInv(l)',
         req' = [req EXCEPT ![r] = l], FilesGrow, TreesHaveFiles', RestOK',
         project' \in Row, RowHasFiles(project)'
  PROVE  TypeInv'
<1>1. /\ req' \in [Request -> Local] /\ req'[r] = l
      /\ \A q \in Request \ {r} : req'[q] = req[q]
  BY DEF TypeInv, TypeOK
<1>2. LocalInv(req[r])'
  BY <1>1
<1>3. TypeOK'
  BY <1>1 DEF TypeOK, RestOK
<1>4. QED
  BY <1>1, <1>2, <1>3, OthersKeep

\* A workspace that holds nothing gets a tree and its files.
LEMMA MaterialiseType ==
  ASSUME TypeInv, NEW r \in Request, req[r].pc = "g.started",
         tree[req[r].slot] = Nothing, Materialise(r)
  PROVE  /\ FilesGrow /\ TreesHaveFiles'
         /\ tree' \in [Slot -> Tree \cup {Nothing}]
         /\ files' \in [Slot -> Files \cup {Nothing}]
         /\ files'[req[r].slot] # Nothing
         /\ \A row \in Row : RowHasFiles(row) => RowHasFiles(row)'
<1>. DEFINE s == req[r].slot
            t == [plan |-> req[r].plan, pack |-> req[r].held.pack,
                  input |-> ReadInputs(r)]
            f == [source |-> ReadInputs(r), dist |-> Nothing]
<1>1. s \in Slot /\ req[r] \in Local /\ req[r].held \in Row
  BY DEF TypeInv, TypeOK, LocalInv, Local, Slot
<1>2. ReadInputs(r) \in Input
  BY <1>1 DEF ReadInputs, TypeInv, TypeOK, LocalInv, Local
<1>3. t \in Tree /\ f \in Files
  BY <1>1, <1>2 DEF Tree, Files, Row, Local
<1>4. tree' = [tree EXCEPT ![s] = t] /\ files' = [files EXCEPT ![s] = f]
  BY DEF Materialise
<1>. HIDE DEF s, t, f
<1>5. files[s] = Nothing
  BY <1>1 DEF TypeInv, TreesHaveFiles, s
<1>6. t # Nothing /\ f # Nothing
  BY <1>3
<1>7. /\ tree' \in [Slot -> Tree \cup {Nothing}]
      /\ files' \in [Slot -> Files \cup {Nothing}]
      /\ files'[s] # Nothing
  BY <1>1, <1>3, <1>4, <1>6 DEF TypeInv, TypeOK
<1>8. FilesGrow /\ TreesHaveFiles'
  BY <1>1, <1>4, <1>5, <1>6 DEF FilesGrow, TreesHaveFiles, TypeInv, TypeOK
<1>9. ASSUME NEW row \in Row, RowHasFiles(row) PROVE RowHasFiles(row)'
  BY <1>8, <1>9 DEF RowHasFiles, FilesGrow, Row, Slot
<1>10. QED
  BY <1>7, <1>8, <1>9 DEF s

LEMMA ComposeType ==
  ASSUME TypeInv, NEW r \in Request, Compose(r) PROVE TypeInv'
<1>1. /\ FilesGrow /\ TreesHaveFiles'
      /\ tree' \in [Slot -> Tree \cup {Nothing}]
      /\ files' \in [Slot -> Files \cup {Nothing}]
      /\ files'[req[r].slot] # Nothing
      /\ \A row \in Row : RowHasFiles(row) => RowHasFiles(row)'
  BY MaterialiseType DEF Compose
<1>2. PICK l \in Local :
        /\ req' = [req EXCEPT ![r] = l]
        /\ l.pc = "g.composed" /\ l.slot = req[r].slot
        /\ l.held = req[r].held /\ l.original = req[r].original
        /\ l.plan = req[r].plan /\ l.frozen = req[r].frozen
  <2>. DEFINE n == [req[r] EXCEPT !.pc = "g.composed"]
  <2>1. "g.composed" \in Await /\ req[r] \in Local
    BY DEF Await, TypeInv, TypeOK
  <2>2. /\ n \in Local /\ n.pc = "g.composed" /\ n.slot = req[r].slot
        /\ n.held = req[r].held /\ n.original = req[r].original
        /\ n.plan = req[r].plan /\ n.frozen = req[r].frozen
    BY <2>1 DEF Local
  <2>3. req' = [req EXCEPT ![r] = n]
    BY DEF Compose, Goto
  <2>. HIDE DEF n
  <2>4. QED
    BY <2>2, <2>3
<1>3. LocalInv(req[r]) /\ req[r].pc = "g.started"
  BY DEF Compose, TypeInv
<1>4. LocalInv(l)'
  BY <1>1, <1>2, <1>3 DEF LocalInv, Local
<1>5. RestOK' /\ project' \in Row /\ RowHasFiles(project)'
  BY <1>1 DEF Compose, TypeInv, TypeOK, RestOK
<1>6. QED
  BY <1>1, <1>2, <1>4, <1>5, DiskStepType

\* The catch writes the row it holds back as failed.
LEMMA GenerateCatchType ==
  ASSUME TypeInv, NEW r \in Request, GenerateCatch(r),
         req[r].pc \in {"g.started", "g.composed", "g.advancing", "g.succeeded"}
  PROVE  \E l \in Local :
           /\ req' = [req EXCEPT ![r] = l]
           /\ l.pc = "g.failed" /\ l.slot = req[r].slot
           /\ l.held = req[r].held /\ l.original = req[r].original
           /\ l.plan = req[r].plan /\ l.frozen = req[r].frozen
           /\ LocalInv(l)
           /\ project' \in Row /\ RowHasFiles(project')
           /\ running' \in Int
<1>. DEFINE l == [req[r] EXCEPT !.pc = "g.failed", !.running = FALSE,
                                !.pending = Nothing]
            row == [req[r].held EXCEPT !.state = "failed"]
<1>1. "g.failed" \in Await /\ req[r] \in Local /\ LocalInv(req[r])
  BY DEF Await, TypeInv, TypeOK
<1>2. /\ l \in Local /\ l.pc = "g.failed" /\ l.slot = req[r].slot
      /\ l.held = req[r].held /\ l.original = req[r].original
      /\ l.plan = req[r].plan /\ l.frozen = req[r].frozen
  BY <1>1 DEF Local
<1>3. req' = [req EXCEPT ![r] = l] /\ project' = Upsert(row)
  BY DEF GenerateCatch
<1>4. req[r].held \in Row /\ RowHasFiles(req[r].held)
  BY <1>1 DEF LocalInv, Local
<1>5. row \in Row /\ RowHasFiles(row)
  BY <1>4 DEF Row, ProjectState, RowHasFiles
<1>6. running' \in Int
  BY DEF GenerateCatch, TaskEnds, TypeInv, TypeOK
<1>. HIDE DEF l, row
<1>7. LocalInv(l)
  BY <1>1, <1>2 DEF LocalInv
<1>8. project' \in Row /\ RowHasFiles(project')
  BY <1>3, <1>5, UpsertType DEF TypeInv, RowHasFiles
<1>9. QED
  BY <1>2, <1>3, <1>6, <1>7, <1>8

LEMMA ComposeFailsType ==
  ASSUME TypeInv, NEW r \in Request, ComposeFails(r) PROVE TypeInv'
<1>1. PICK l \in Local :
        /\ req' = [req EXCEPT ![r] = l]
        /\ l.pc = "g.failed" /\ l.slot = req[r].slot
        /\ l.held = req[r].held /\ l.original = req[r].original
        /\ l.plan = req[r].plan /\ l.frozen = req[r].frozen
        /\ LocalInv(l)
        /\ project' \in Row /\ RowHasFiles(project')
        /\ running' \in Int
  BY GenerateCatchType DEF ComposeFails
<1>2. CASE UNCHANGED <<tree, files>>
  <2>1. RestOK' /\ UNCHANGED disk
    BY <1>1, <1>2 DEF ComposeFails, TypeInv, TypeOK, RestOK
  <2>2. QED
    BY <1>1, <2>1, StepType
<1>3. CASE tree[req[r].slot] = Nothing /\ Materialise(r)
  <2>1. /\ FilesGrow /\ TreesHaveFiles'
        /\ tree' \in [Slot -> Tree \cup {Nothing}]
        /\ files' \in [Slot -> Files \cup {Nothing}]
        /\ \A row \in Row : RowHasFiles(row) => RowHasFiles(row)'
    BY <1>3, MaterialiseType DEF ComposeFails
  <2>2. RestOK'
    BY <1>1, <2>1 DEF ComposeFails, TypeInv, TypeOK, RestOK
  <2>3. RowHasFiles(project)'
    BY <1>1, <2>1 DEF RowHasFiles
  <2>4. LocalInv(l)'
    BY <1>1, <2>1 DEF LocalInv, Local
  <2>5. QED
    BY <1>1, <2>1, <2>2, <2>3, <2>4, DiskStepType
<1>4. QED
  BY <1>2, <1>3 DEF ComposeFails

LEMMA GenerationFailsType ==
  ASSUME TypeInv, NEW r \in Request, GenerationFails(r) PROVE TypeInv'
<1>1. PICK l \in Local :
        /\ req' = [req EXCEPT ![r] = l]
        /\ LocalInv(l)
        /\ project' \in Row /\ RowHasFiles(project')
        /\ running' \in Int
  BY GenerateCatchType DEF GenerationFails
<1>2. RestOK' /\ UNCHANGED disk
  BY <1>1 DEF GenerationFails, TypeInv, TypeOK, RestOK
<1>3. QED
  BY <1>1, <1>2, StepType

LEMMA FinishGenerationType ==
  ASSUME TypeInv, NEW r \in Request, FinishGeneration(r) PROVE TypeInv'
<1>. DEFINE s == req[r].slot
            row == Upsert([req[r].held EXCEPT !.state = "generated",
                                              !.workspace = s])
            failed == [row EXCEPT !.state = "failed"]
            bytes == [slot |-> s, input |-> files[s].source]
            Event(p) == [to |-> "materialized", plan |-> p, bytes |-> bytes]
            Moved(await, e) == [req[r] EXCEPT !.pc = await, !.held = row,
                                              !.running = FALSE, !.pending = e]
<1>1. /\ s \in Slot /\ req[r] \in Local /\ req[r].held \in Row
      /\ files[s] \in Files /\ req[r].pc = "g.composed" /\ LocalInv(req[r])
  <2>1. req[r] \in Local /\ req[r].pc = "g.composed" /\ LocalInv(req[r])
    BY DEF FinishGeneration, TypeInv, TypeOK
  <2>2. s \in Slot /\ req[r].held \in Row /\ files[s] # Nothing
    BY <2>1 DEF LocalInv, Local, Slot
  <2>3. QED
    BY <2>1, <2>2 DEF TypeInv, TypeOK
<1>2. row \in Row /\ RowHasFiles(row)
  <2>1. [req[r].held EXCEPT !.state = "generated", !.workspace = s] \in Row
    <3>1. s \in 0 .. MaxBuild /\ "generated" \in ProjectState
      BY <1>1 DEF Slot, ProjectState
    <3>2. QED
      BY <1>1, <3>1 DEF Row
  <2>2. row \in Row /\ row.workspace = s
    BY <1>1, <2>1, UpsertType DEF TypeInv, Row
  <2>3. QED
    BY <1>1, <2>2 DEF RowHasFiles, LocalInv
<1>. HIDE DEF row
<1>3. failed \in Row /\ RowHasFiles(failed)
  BY <1>2 DEF Row, ProjectState, RowHasFiles
<1>4. \A p \in Plan : Event(p) \in RevisionEvent
  BY <1>1 DEF RevisionEvent, Rung, Bytes, Files
<1>5. RestOK' /\ UNCHANGED disk
  <2>1. running' \in Int
    <3>1. TaskEnds(r)
      BY DEF FinishGeneration
    <3>2. QED
      BY <3>1 DEF TaskEnds, TypeInv, TypeOK
  <2>2. QED
    BY <2>1 DEF FinishGeneration, TypeInv, TypeOK, RestOK
<1>6. ASSUME NEW await \in {"g.advancing", "g.succeeded", "g.failed"},
             NEW e \in RevisionEvent \cup {Nothing},
             await = "g.advancing" => e # Nothing,
             req' = [req EXCEPT ![r] = Moved(await, e)],
             project' \in Row, RowHasFiles(project')
      PROVE  TypeInv'
  <2>. DEFINE l == Moved(await, e)
  <2>1. await \in Await
    BY DEF Await
  <2>2. /\ l \in Local /\ l.pc = await /\ l.slot = s /\ l.held = row
        /\ l.pending = e /\ l.original = req[r].original
        /\ l.plan = req[r].plan /\ l.frozen = req[r].frozen
    BY <1>1, <1>2, <2>1 DEF Local
  <2>3. req' = [req EXCEPT ![r] = l]
    BY <1>6
  <2>. HIDE DEF l
  <2>4. LocalInv(l)
    BY <1>1, <1>2, <1>6, <2>2 DEF LocalInv, Slot
  <2>5. QED
    BY <1>5, <1>6, <2>2, <2>3, <2>4, StepType
<1>7. CASE req' = [req EXCEPT ![r] = Moved("g.succeeded", Nothing)] /\ project' = row
  BY <1>2, <1>6, <1>7
<1>8. CASE /\ project' = row
           /\ \E p \in Plan : req' = [req EXCEPT ![r] = Moved("g.advancing", Event(p))]
  BY <1>2, <1>4, <1>6, <1>8
<1>9. CASE req' = [req EXCEPT ![r] = Moved("g.failed", Nothing)] /\ project' = failed
  BY <1>3, <1>6, <1>9
<1>10. QED
  BY <1>7, <1>8, <1>9 DEF FinishGeneration, row

LEMMA RevisionMaterializedType ==
  ASSUME TypeInv, NEW r \in Request, RevisionMaterialized(r) PROVE TypeInv'
<1>. DEFINE l == [req[r] EXCEPT !.pc = "g.succeeded", !.pending = Nothing]
<1>1. /\ "g.succeeded" \in Await /\ req[r] \in Local /\ LocalInv(req[r])
      /\ req[r].pc = "g.advancing"
  BY DEF RevisionMaterialized, Await, TypeInv, TypeOK
<1>2. /\ l \in Local /\ l.pc = "g.succeeded" /\ l.slot = req[r].slot
      /\ l.held = req[r].held /\ l.original = req[r].original
      /\ l.plan = req[r].plan /\ l.frozen = req[r].frozen
  BY <1>1 DEF Local
<1>3. req' = [req EXCEPT ![r] = l]
  BY DEF RevisionMaterialized
<1>. HIDE DEF l
<1>4. LocalInv(l)
  BY <1>1, <1>2 DEF LocalInv
<1>5. req[r].pending \in RevisionEvent
  BY <1>1 DEF LocalInv, Local
<1>6. RestOK' /\ project' = project /\ UNCHANGED disk
  BY <1>5, ReplayType DEF RevisionMaterialized, TypeInv, TypeOK, RestOK
<1>7. QED
  BY <1>2, <1>3, <1>4, <1>6, StepType DEF TypeInv, TypeOK

LEMMA GenerationSucceededType ==
  ASSUME TypeInv, NEW r \in Request, GenerationSucceeded(r) PROVE TypeInv'
<1>1. RestOK' /\ project' = project /\ UNCHANGED disk
  BY DEF GenerationSucceeded, TypeInv, TypeOK, RestOK
<1>2. CASE Return(r)
  BY <1>1, <1>2, ReturnType DEF TypeInv, TypeOK
<1>3. CASE Goto(r, "e.executed") /\ req[r].plan # Nothing
  <2>. DEFINE l == [req[r] EXCEPT !.pc = "e.executed"]
  <2>1. /\ "e.executed" \in Await /\ req[r] \in Local /\ LocalInv(req[r])
        /\ req[r].pc = "g.succeeded"
    BY DEF GenerationSucceeded, Await, TypeInv, TypeOK
  <2>2. /\ l \in Local /\ l.pc = "e.executed" /\ l.held = req[r].held
        /\ l.original = req[r].original /\ l.plan = req[r].plan
    BY <2>1 DEF Local
  <2>3. req' = [req EXCEPT ![r] = l]
    BY <1>3 DEF Goto
  <2>. HIDE DEF l
  <2>4. LocalInv(l)
    BY <1>3, <2>1, <2>2 DEF LocalInv
  <2>5. QED
    BY <1>1, <2>2, <2>3, <2>4, StepType DEF TypeInv, TypeOK
<1>4. QED
  BY <1>2, <1>3 DEF GenerationSucceeded

LEMMA GenerationThrowsType ==
  ASSUME TypeInv, NEW r \in Request, GenerationThrows(r) PROVE TypeInv'
<1>1. RestOK' /\ Throw(r) /\ Return(r) /\ UNCHANGED disk
  BY DEF GenerationThrows, Throw, TypeInv, TypeOK, RestOK
<1>2. req[r].plan # Nothing => req[r].original # Nothing
  BY DEF GenerationThrows, TypeInv, LocalInv
<1>3. QED
  BY <1>1, <1>2, ThrowType, ReturnType

-----------------------------------------------------------------------------
\* verifyProject.

LEMMA StartVerificationType ==
  ASSUME TypeInv, NEW r \in Request, StartVerification(r) PROVE TypeInv'
<1>. DEFINE l == [req[r] EXCEPT !.pc = "v.started", !.held = project,
                    !.slot = project.workspace, !.running = TRUE]
<1>1. /\ "v.started" \in Await /\ req[r] = Idle
      /\ project \in Row /\ RowHasFiles(project) /\ project.workspace # 0
  BY DEF StartVerification, Arrives, Await, TypeInv, TypeOK, LocalInv
<1>2. /\ l \in Local /\ l.pc = "v.started" /\ l.slot = project.workspace
      /\ l.held = project /\ l.original = Nothing
  <2>1. project.workspace \in 0 .. MaxBuild
    BY <1>1 DEF Row
  <2>2. QED
    BY <1>1, <2>1, IdleIsLocal DEF Local
<1>3. req' = [req EXCEPT ![r] = l]
  BY DEF StartVerification
<1>. HIDE DEF l
<1>4. LocalInv(l)
  BY <1>1, <1>2 DEF LocalInv, RowHasFiles
<1>5. RestOK' /\ project' = project /\ UNCHANGED disk
  BY DEF StartVerification, Arrives, TypeInv, TypeOK, RestOK
<1>6. QED
  BY <1>1, <1>2, <1>3, <1>4, <1>5, StepType

LEMMA HashSourceType ==
  ASSUME TypeInv, NEW r \in Request, HashSource(r) PROVE TypeInv'
<1>. DEFINE source == files[req[r].slot].source
            l == [req[r] EXCEPT !.pc = "v.locked", !.source = source]
<1>1. /\ "v.locked" \in Await /\ req[r] \in Local /\ LocalInv(req[r])
      /\ req[r].pc = "v.started"
  BY DEF HashSource, Await, TypeInv, TypeOK
<1>2. source \in Input
  <2>1. req[r].slot \in Slot /\ files[req[r].slot] # Nothing
    BY <1>1 DEF LocalInv, Local, Slot
  <2>2. QED
    BY <2>1 DEF TypeInv, TypeOK, Files
<1>. HIDE DEF source
<1>3. /\ l \in Local /\ l.pc = "v.locked" /\ l.slot = req[r].slot
      /\ l.held = req[r].held /\ l.original = req[r].original
      /\ l.source = source
  BY <1>1, <1>2 DEF Local
<1>4. req' = [req EXCEPT ![r] = l]
  BY DEF HashSource, source
<1>. HIDE DEF l
<1>5. source # Nothing
  BY <1>2, BuildAssumption DEF BuildAssumption
<1>6. LocalInv(l)
  BY <1>1, <1>3, <1>5 DEF LocalInv
<1>7. RestOK' /\ project' = project /\ UNCHANGED disk
  BY DEF HashSource, TypeInv, TypeOK, RestOK
<1>8. QED
  BY <1>3, <1>4, <1>6, <1>7, StepType DEF TypeInv, TypeOK

LEMMA BuildWorkspaceType ==
  ASSUME TypeInv, NEW r \in Request, BuildWorkspace(r) PROVE TypeInv'
<1>. DEFINE s == req[r].slot
            f == [files[s] EXCEPT !.dist = files[s].source]
<1>1. /\ "v.built" \in Await /\ req[r] \in Local /\ LocalInv(req[r])
      /\ req[r].pc = "v.locked"
  BY DEF BuildWorkspace, Await, TypeInv, TypeOK
<1>2. s \in Slot /\ files[s] \in Files
  <2>1. s \in Slot /\ files[s] # Nothing
    BY <1>1 DEF LocalInv, Local, Slot
  <2>2. QED
    BY <2>1 DEF TypeInv, TypeOK
<1>3. /\ f \in Files /\ f # Nothing
      /\ f.dist # Nothing
  <2>1. f \in Files /\ f.dist \in Input
    BY <1>2 DEF Files
  <2>2. QED
    BY <2>1 DEF BuildAssumption
<1>4. files' = [files EXCEPT ![s] = f] /\ tree' = tree
  BY DEF BuildWorkspace
<1>. HIDE DEF s, f
<1>5. /\ files' \in [Slot -> Files \cup {Nothing}]
      /\ files'[s] # Nothing /\ files'[s].dist # Nothing
  BY <1>2, <1>3, <1>4 DEF TypeInv, TypeOK
<1>6. FilesGrow /\ TreesHaveFiles'
  BY <1>2, <1>3, <1>4 DEF FilesGrow, TreesHaveFiles, TypeInv, TypeOK
<1>7. ASSUME NEW row \in Row, RowHasFiles(row) PROVE RowHasFiles(row)'
  BY <1>6, <1>7 DEF RowHasFiles, FilesGrow, Row, Slot
<1>8. PICK l \in Local :
        /\ req' = [req EXCEPT ![r] = l]
        /\ l.pc = "v.built" /\ l.slot = s /\ l.source = req[r].source
        /\ l.held = req[r].held /\ l.original = req[r].original
  <2>. DEFINE n == [req[r] EXCEPT !.pc = "v.built"]
  <2>1. /\ n \in Local /\ n.pc = "v.built" /\ n.slot = s
        /\ n.source = req[r].source
        /\ n.held = req[r].held /\ n.original = req[r].original
    BY <1>1 DEF Local, s
  <2>2. req' = [req EXCEPT ![r] = n]
    BY DEF BuildWorkspace, Goto
  <2>. HIDE DEF n
  <2>3. QED
    BY <2>1, <2>2
<1>9. LocalInv(l)'
  <2>1. /\ l.held # Nothing => RowHasFiles(l.held)'
        /\ l.original # Nothing => RowHasFiles(l.original)'
    BY <1>1, <1>7, <1>8 DEF LocalInv, Local
  <2>2. /\ files'[l.slot] # Nothing /\ files'[l.slot].dist # Nothing
        /\ l.held # Nothing /\ l.slot # 0 /\ l.source # Nothing
    BY <1>1, <1>5, <1>8 DEF LocalInv, s
  <2>3. QED
    BY <1>8, <2>1, <2>2 DEF LocalInv
<1>10. RestOK' /\ project' \in Row /\ RowHasFiles(project)'
  BY <1>5, <1>7 DEF BuildWorkspace, TypeInv, TypeOK, RestOK
<1>11. QED
  BY <1>6, <1>8, <1>9, <1>10, DiskStepType

LEMMA VerificationFailsType ==
  ASSUME TypeInv, NEW r \in Request, VerificationFails(r) PROVE TypeInv'
<1>1. running' \in Int
  BY DEF VerificationFails, TaskEnds, TypeInv, TypeOK
<1>2. RestOK' /\ project' = project /\ UNCHANGED disk /\ Return(r)
  BY <1>1 DEF VerificationFails, TypeInv, TypeOK, RestOK
<1>3. QED
  BY <1>2, ReturnType DEF TypeInv, TypeOK

LEMMA RecordIdentityType ==
  ASSUME TypeInv, NEW r \in Request, RecordIdentity(r) PROVE TypeInv'
<1>. DEFINE s == req[r].slot
            dist == files[s].dist
            identity == [workspace |-> s, source |-> req[r].source, output |-> dist]
            row == [req[r].held EXCEPT !.state = "verified", !.identity = identity]
            Event(p) == [to |-> "buildable", plan |-> p,
                         bytes |-> [slot |-> s, input |-> dist]]
            Moved(p) == [req[r] EXCEPT !.pc = "v.advancing", !.held = row,
                           !.running = FALSE, !.pending = Event(p)]
<1>1. /\ "v.advancing" \in Await /\ req[r] \in Local /\ LocalInv(req[r])
      /\ req[r].pc = "v.built"
  BY DEF RecordIdentity, Await, TypeInv, TypeOK
<1>2. /\ s \in Slot /\ dist \in Input /\ req[r].source \in Input
      /\ req[r].held \in Row /\ RowHasFiles(req[r].held)
  <2>1. /\ s \in Slot /\ files[s] # Nothing /\ dist # Nothing
        /\ req[r].source \in Input
        /\ req[r].held \in Row /\ RowHasFiles(req[r].held)
    BY <1>1 DEF LocalInv, Local, Slot
  <2>2. QED
    BY <2>1 DEF TypeInv, TypeOK, Files
<1>. HIDE DEF dist, s
<1>3. row \in Row /\ RowHasFiles(row)
  <2>1. identity \in Identity /\ "verified" \in ProjectState
    BY <1>2 DEF Identity, ProjectState
  <2>. HIDE DEF identity
  <2>2. QED
    BY <1>2, <2>1 DEF Row, RowHasFiles
<1>4. \A p \in Plan : Event(p) \in RevisionEvent
  BY <1>2 DEF RevisionEvent, Rung, Bytes
<1>5. RestOK' /\ UNCHANGED disk
  <2>1. running' \in Int
    <3>1. TaskEnds(r)
      BY DEF RecordIdentity
    <3>2. QED
      BY <3>1 DEF TaskEnds, TypeInv, TypeOK
  <2>2. QED
    BY <2>1 DEF RecordIdentity, TypeInv, TypeOK, RestOK
<1>. HIDE DEF row
<1>6. CASE Return(r) /\ project' \in {project, Upsert(row)}
  <2>1. project' \in Row /\ RowHasFiles(project')
    BY <1>3, <1>6, UpsertType DEF TypeInv, TypeOK, RowHasFiles
  <2>2. QED
    BY <1>5, <1>6, <2>1, ReturnType
<1>7. ASSUME NEW p \in Plan, req' = [req EXCEPT ![r] = Moved(p)], project' = project
      PROVE  TypeInv'
  <2>. DEFINE l == Moved(p)
  <2>1. /\ l \in Local /\ l.pc = "v.advancing" /\ l.slot = s /\ l.held = row
        /\ l.pending # Nothing /\ l.original = req[r].original
    BY <1>1, <1>3, <1>4 DEF Local, s
  <2>2. req' = [req EXCEPT ![r] = l]
    BY <1>7
  <2>. HIDE DEF l
  <2>3. LocalInv(l)
    BY <1>1, <1>3, <2>1 DEF LocalInv, s
  <2>4. QED
    BY <1>5, <1>7, <2>1, <2>2, <2>3, StepType DEF TypeInv, TypeOK
<1>8. QED
  BY <1>6, <1>7 DEF RecordIdentity, row, dist, s

LEMMA RevisionBuildableType ==
  ASSUME TypeInv, NEW r \in Request, RevisionBuildable(r) PROVE TypeInv'
<1>1. /\ req[r].held \in Row /\ RowHasFiles(req[r].held)
      /\ req[r].pending \in RevisionEvent
  <2>1. req[r] \in Local /\ LocalInv(req[r]) /\ req[r].pc = "v.advancing"
    BY DEF RevisionBuildable, TypeInv, TypeOK
  <2>2. QED
    BY <2>1 DEF LocalInv, Local
<1>2. RestOK' /\ UNCHANGED disk /\ Return(r)
  BY <1>1, ReplayType DEF RevisionBuildable, TypeInv, TypeOK, RestOK
<1>3. project' \in Row /\ RowHasFiles(project')
  BY <1>1, UpsertType DEF RevisionBuildable, TypeInv, RowHasFiles
<1>4. QED
  BY <1>2, <1>3, ReturnType

LEMMA VerificationThrowsType ==
  ASSUME TypeInv, NEW r \in Request, VerificationThrows(r) PROVE TypeInv'
<1>1. RestOK' /\ project' = project /\ UNCHANGED disk /\ Return(r)
  BY DEF VerificationThrows, TypeInv, TypeOK, RestOK
<1>2. QED
  BY <1>1, ReturnType DEF TypeInv, TypeOK

-----------------------------------------------------------------------------
\* ingestSources and the operator's edits.

LEMMA StartIngestionType ==
  ASSUME TypeInv, NEW r \in Request, StartIngestion(r) PROVE TypeInv'
<1>. DEFINE l == [req[r] EXCEPT !.pc = "i.ingesting", !.held = project,
                                !.running = TRUE]
<1>1. /\ "i.ingesting" \in Await /\ req[r] = Idle
      /\ project \in Row /\ RowHasFiles(project)
  BY DEF StartIngestion, Arrives, Await, TypeInv, TypeOK, LocalInv
<1>2. /\ l \in Local /\ l.pc = "i.ingesting"
      /\ l.held = project /\ l.original = Nothing
  BY <1>1, IdleIsLocal DEF Local
<1>3. req' = [req EXCEPT ![r] = l]
  BY DEF StartIngestion
<1>. HIDE DEF l
<1>4. LocalInv(l)
  BY <1>1, <1>2 DEF LocalInv
<1>5. RestOK' /\ project' = project /\ UNCHANGED disk
  BY DEF StartIngestion, Arrives, TypeInv, TypeOK, RestOK
<1>6. QED
  BY <1>1, <1>2, <1>3, <1>4, <1>5, StepType

LEMMA AttachPackType ==
  ASSUME TypeInv, NEW r \in Request, AttachPack(r) PROVE TypeInv'
<1>. DEFINE l == [req[r] EXCEPT !.pc = "i.applied"]
<1>1. /\ "i.applied" \in Await /\ req[r] \in Local /\ LocalInv(req[r])
      /\ req[r].pc = "i.ingesting"
  BY DEF AttachPack, Await, TypeInv, TypeOK
<1>2. req[r].held \in Row /\ RowHasFiles(req[r].held)
  BY <1>1 DEF LocalInv, Local
<1>3. /\ l \in Local /\ l.pc = "i.applied"
      /\ l.held = req[r].held /\ l.original = req[r].original
  BY <1>1 DEF Local
<1>4. req' = [req EXCEPT ![r] = l]
  BY DEF AttachPack, Goto
<1>. HIDE DEF l
<1>5. LocalInv(l)
  BY <1>1, <1>3 DEF LocalInv
<1>6. project' \in Row /\ RowHasFiles(project')
  <2>1. PICK k \in Pack : project' = Upsert([req[r].held EXCEPT !.pack = k])
    BY DEF AttachPack
  <2>2. [req[r].held EXCEPT !.pack = k] \in Row
    BY <1>2 DEF Row
  <2>3. RowHasFiles([req[r].held EXCEPT !.pack = k])
    BY <1>2 DEF Row, RowHasFiles
  <2>4. QED
    BY <2>1, <2>2, <2>3, UpsertType DEF TypeInv, RowHasFiles
<1>7. RestOK' /\ UNCHANGED disk
  BY DEF AttachPack, TypeInv, TypeOK, RestOK
<1>8. QED
  BY <1>3, <1>4, <1>5, <1>6, <1>7, StepType

LEMMA EndIngestionType ==
  ASSUME TypeInv, NEW r \in Request, EndIngestion(r) \/ IngestionThrows(r)
  PROVE  TypeInv'
<1>1. running' \in Int
  BY DEF EndIngestion, IngestionThrows, TaskEnds, TypeInv, TypeOK
<1>2. RestOK' /\ project' = project /\ UNCHANGED disk /\ Return(r)
  BY <1>1 DEF EndIngestion, IngestionThrows, TypeInv, TypeOK, RestOK
<1>3. QED
  BY <1>2, ReturnType DEF TypeInv, TypeOK

LEMMA SaveOverridesType ==
  ASSUME TypeInv, NEW r \in Request, SaveOverrides(r) PROVE TypeInv'
<1>1. PICK i \in Input :
        /\ inputs' = i
        /\ IF project.workspace = 0
             THEN UNCHANGED files
             ELSE files' = [files EXCEPT ![project.workspace].source = i]
  BY DEF SaveOverrides
<1>2. /\ FilesGrow /\ TreesHaveFiles'
      /\ files' \in [Slot -> Files \cup {Nothing}]
  <2>1. CASE project.workspace = 0
    BY <1>1, <2>1 DEF SaveOverrides, FilesGrow, TreesHaveFiles, TypeInv, TypeOK
  <2>2. CASE project.workspace # 0
    <3>. DEFINE s == project.workspace
                f == [files[s] EXCEPT !.source = i]
    <3>1. s \in Slot /\ files[s] \in Files
      BY <2>2 DEF TypeInv, TypeOK, RowHasFiles, Row, Slot
    <3>2. f \in Files /\ f.dist = files[s].dist /\ f # Nothing
      BY <3>1 DEF Files
    <3>3. files' = [files EXCEPT ![s] = f] /\ tree' = tree
      BY <1>1, <2>2 DEF SaveOverrides
    <3>. HIDE DEF s, f
    <3>4. QED
      BY <3>1, <3>2, <3>3 DEF FilesGrow, TreesHaveFiles, TypeInv, TypeOK
  <2>3. QED
    BY <2>1, <2>2
<1>3. ASSUME NEW row \in Row, RowHasFiles(row) PROVE RowHasFiles(row)'
  BY <1>2, <1>3 DEF RowHasFiles, FilesGrow, Row, Slot
<1>4. /\ req' = [req EXCEPT ![r] = Idle] /\ req[r] = Idle
      /\ project' = project
  BY DEF SaveOverrides, Arrives, TypeInv, TypeOK, LocalInv
<1>5. LocalInv(Idle)'
  BY IdleIsLocal DEF LocalInv, Idle
<1>6. RestOK' /\ project' \in Row /\ RowHasFiles(project)'
  BY <1>1, <1>2, <1>3, <1>4 DEF SaveOverrides, Arrives, TypeInv, TypeOK, RestOK
<1>7. QED
  BY <1>2, <1>4, <1>5, <1>6, IdleIsLocal, DiskStepType

LEMMA WriteAssetDecisionsType ==
  ASSUME TypeInv, NEW r \in Request, WriteAssetDecisions(r) PROVE TypeInv'
<1>1. FilesGrow /\ TreesHaveFiles'
  BY DEF WriteAssetDecisions, FilesGrow, TreesHaveFiles, TypeInv
<1>2. /\ req' = [req EXCEPT ![r] = Idle] /\ project' = project
  BY DEF WriteAssetDecisions, Arrives, TypeInv, TypeOK, LocalInv
<1>3. LocalInv(Idle)'
  BY IdleIsLocal DEF LocalInv, Idle
<1>4. RestOK' /\ project' \in Row /\ RowHasFiles(project)'
  BY <1>2 DEF WriteAssetDecisions, Arrives, TypeInv, TypeOK, RestOK, RowHasFiles
<1>5. QED
  BY <1>1, <1>2, <1>3, <1>4, IdleIsLocal, DiskStepType

-----------------------------------------------------------------------------
\* approveProjectBuildPlan.

LEMMA BeginApproveType ==
  ASSUME TypeInv, NEW r \in Request, BeginApprove(r) PROVE TypeInv'
<1>1. PICK p \in Plan :
        req' = [req EXCEPT ![r] = [@ EXCEPT !.pc = "a.decided", !.plan = p]]
  BY DEF BeginApprove
<1>. DEFINE l == [req[r] EXCEPT !.pc = "a.decided", !.plan = p]
<1>2. "a.decided" \in Await /\ req[r] = Idle /\ p # Nothing
  BY DEF BeginApprove, Arrives, Await, TypeInv, LocalInv, BuildAssumption
<1>3. /\ l \in Local /\ l.pc = "a.decided" /\ l.plan = p
      /\ l.held = Nothing /\ l.original = Nothing
  BY <1>2, IdleIsLocal DEF Local
<1>4. req' = [req EXCEPT ![r] = l]
  BY <1>1
<1>. HIDE DEF l
<1>5. LocalInv(l)
  BY <1>2, <1>3 DEF LocalInv
<1>6. RestOK' /\ project' = project /\ UNCHANGED disk
  BY DEF BeginApprove, Arrives, TypeInv, TypeOK, RestOK
<1>7. QED
  BY <1>3, <1>4, <1>5, <1>6, StepType DEF TypeInv, TypeOK

LEMMA MintPlanType ==
  ASSUME TypeInv, NEW r \in Request, MintPlan(r) PROVE TypeInv'
<1>. DEFINE e == [to |-> "contract-approved", plan |-> req[r].plan,
                  bytes |-> Nothing]
            l == [req[r] EXCEPT !.pc = "a.opening", !.pending = e]
<1>1. /\ "a.opening" \in Await /\ req[r] \in Local /\ LocalInv(req[r])
      /\ req[r].pc = "a.decided" /\ req[r].plan \in Plan
  <2>1. req[r] \in Local /\ LocalInv(req[r]) /\ req[r].pc = "a.decided"
    BY DEF MintPlan, TypeInv, TypeOK
  <2>2. QED
    BY <2>1 DEF Await, LocalInv, Local
<1>2. e \in RevisionEvent /\ e # Nothing
  BY <1>1 DEF RevisionEvent, Rung
<1>. HIDE DEF e
<1>3. /\ l \in Local /\ l.pc = "a.opening" /\ l.pending = e
      /\ l.plan = req[r].plan /\ l.held = req[r].held
      /\ l.original = req[r].original
  BY <1>1, <1>2 DEF Local
<1>4. req' = [req EXCEPT ![r] = l]
  BY DEF MintPlan, e
<1>. HIDE DEF l
<1>5. LocalInv(l)
  BY <1>1, <1>2, <1>3 DEF LocalInv
<1>6. RestOK' /\ project' = project /\ UNCHANGED disk
  <2>1. CurrentSnapshot \in Snapshot
    BY DEF CurrentSnapshot, Snapshot, TypeInv, TypeOK, Row
  <2>2. plans' = [plans EXCEPT ![req[r].plan] = CurrentSnapshot]
    BY DEF MintPlan
  <2>3. plans' \in [Plan -> Snapshot \cup {Nothing}]
    BY <1>1, <2>1, <2>2 DEF TypeInv, TypeOK
  <2>4. QED
    BY <2>3 DEF MintPlan, TypeInv, TypeOK, RestOK
<1>7. QED
  BY <1>3, <1>4, <1>5, <1>6, StepType DEF TypeInv, TypeOK

LEMMA RevisionOpenedType ==
  ASSUME TypeInv, NEW r \in Request, RevisionOpened(r) PROVE TypeInv'
<1>1. req[r].pending \in RevisionEvent
  <2>1. req[r] \in Local /\ LocalInv(req[r]) /\ req[r].pc = "a.opening"
    BY DEF RevisionOpened, TypeInv, TypeOK
  <2>2. QED
    BY <2>1 DEF LocalInv, Local
<1>2. RestOK' /\ project' = project /\ UNCHANGED disk /\ Return(r)
  BY <1>1, ReplayType DEF RevisionOpened, TypeInv, TypeOK, RestOK
<1>3. QED
  BY <1>2, ReturnType DEF TypeInv, TypeOK

LEMMA ApprovalEndsType ==
  ASSUME TypeInv, NEW r \in Request, RefuseMint(r) \/ ApprovalThrows(r)
  PROVE  TypeInv'
<1>1. RestOK' /\ project' = project /\ UNCHANGED disk /\ Return(r)
  BY DEF RefuseMint, ApprovalThrows, TypeInv, TypeOK, RestOK
<1>2. QED
  BY <1>1, ReturnType DEF TypeInv, TypeOK

-----------------------------------------------------------------------------
\* executeApprovedProjectBuildPlan.

LEMMA ClaimPlanType ==
  ASSUME TypeInv, NEW r \in Request, ClaimPlan(r) PROVE TypeInv'
<1>1. PICK p \in Plan \ claimed :
        /\ claimed' = claimed \cup {p}
        /\ req' = [req EXCEPT ![r] = [@ EXCEPT !.pc = "e.claimed", !.plan = p]]
  BY DEF ClaimPlan
<1>. DEFINE l == [req[r] EXCEPT !.pc = "e.claimed", !.plan = p]
<1>2. "e.claimed" \in Await /\ req[r] = Idle /\ p # Nothing
  BY DEF ClaimPlan, Arrives, Await, TypeInv, LocalInv, BuildAssumption
<1>3. /\ l \in Local /\ l.pc = "e.claimed" /\ l.plan = p
      /\ l.held = Nothing /\ l.original = Nothing
  BY <1>2, IdleIsLocal DEF Local
<1>4. req' = [req EXCEPT ![r] = l]
  BY <1>1
<1>. HIDE DEF l
<1>5. LocalInv(l)
  BY <1>2, <1>3 DEF LocalInv
<1>6. RestOK' /\ project' = project /\ UNCHANGED disk
  BY <1>1 DEF ClaimPlan, Arrives, TypeInv, TypeOK, RestOK
<1>7. QED
  BY <1>3, <1>4, <1>5, <1>6, StepType DEF TypeInv, TypeOK

LEMMA LockProjectType ==
  ASSUME TypeInv, NEW r \in Request, LockProject(r) PROVE TypeInv'
<1>. DEFINE l == [req[r] EXCEPT !.pc = "e.locked", !.original = project]
            row == [project EXCEPT !.state = "generating"]
<1>1. /\ "e.locked" \in Await /\ req[r] \in Local /\ LocalInv(req[r])
      /\ req[r].pc = "e.claimed" /\ project \in Row /\ RowHasFiles(project)
  BY DEF LockProject, Await, TypeInv, TypeOK
<1>2. /\ l \in Local /\ l.pc = "e.locked" /\ l.original = project
      /\ l.plan = req[r].plan /\ l.held = req[r].held
  BY <1>1 DEF Local
<1>3. req' = [req EXCEPT ![r] = l] /\ project' = row
  BY DEF LockProject
<1>. HIDE DEF l
<1>4. LocalInv(l)
  BY <1>1, <1>2 DEF LocalInv
<1>5. row \in Row /\ RowHasFiles(row)
  BY <1>1 DEF Row, ProjectState, RowHasFiles
<1>6. RestOK' /\ UNCHANGED disk
  BY DEF LockProject, TypeInv, TypeOK, RestOK
<1>. HIDE DEF row
<1>7. QED
  BY <1>2, <1>3, <1>4, <1>5, <1>6, StepType

LEMMA RefuseLockType ==
  ASSUME TypeInv, NEW r \in Request, RefuseLock(r) PROVE TypeInv'
<1>1. RestOK' /\ project' = project /\ UNCHANGED disk /\ Return(r)
  BY DEF RefuseLock, TypeInv, TypeOK, RestOK
<1>2. QED
  BY <1>1, ReturnType DEF TypeInv, TypeOK

LEMMA FreezeInputsType ==
  ASSUME TypeInv, NEW r \in Request, FreezeInputs(r) PROVE TypeInv'
<1>. DEFINE o == req[r].original
            frozen == [project EXCEPT !.state = o.state, !.workspace = o.workspace]
            l == [req[r] EXCEPT !.pc = "g.decided", !.frozen = inputs,
                                !.held = frozen]
<1>1. /\ "g.decided" \in Await /\ req[r] \in Local /\ LocalInv(req[r])
      /\ req[r].pc = "e.locked" /\ project \in Row /\ inputs \in Input
  BY DEF FreezeInputs, Await, TypeInv, TypeOK
<1>2. o \in Row /\ RowHasFiles(o)
  BY <1>1 DEF LocalInv, Local
<1>3. frozen \in Row /\ RowHasFiles(frozen)
  BY <1>1, <1>2 DEF Row, RowHasFiles
<1>. HIDE DEF frozen
<1>4. /\ l \in Local /\ l.pc = "g.decided" /\ l.original = o
      /\ l.plan = req[r].plan /\ l.held = frozen /\ l.frozen = inputs
  BY <1>1, <1>3 DEF Local
<1>5. req' = [req EXCEPT ![r] = l]
  BY DEF FreezeInputs, frozen
<1>6. inputs # Nothing /\ frozen # Nothing
  BY <1>1, <1>3 DEF BuildAssumption
<1>. HIDE DEF l
<1>7. LocalInv(l)
  BY <1>1, <1>2, <1>3, <1>4, <1>6 DEF LocalInv
<1>8. RestOK' /\ project' = project /\ UNCHANGED disk
  BY DEF FreezeInputs, TypeInv, TypeOK, RestOK
<1>9. QED
  BY <1>4, <1>5, <1>7, <1>8, StepType DEF TypeInv, TypeOK

LEMMA RejectExecutionType ==
  ASSUME TypeInv, NEW r \in Request, RejectExecution(r) PROVE TypeInv'
<1>1. RestOK' /\ Throw(r) /\ Return(r) /\ UNCHANGED disk
  BY DEF RejectExecution, Throw, TypeInv, TypeOK, RestOK
<1>2. req[r].plan # Nothing => req[r].original # Nothing
  BY DEF RejectExecution, TypeInv, LocalInv
<1>3. QED
  BY <1>1, <1>2, ThrowType, ReturnType

LEMMA EndExecutionType ==
  ASSUME TypeInv, NEW r \in Request, EndExecution(r) PROVE TypeInv'
<1>1. RestOK' /\ Return(r) /\ UNCHANGED disk
  BY DEF EndExecution, Throw, TypeInv, TypeOK, RestOK
<1>2. req[r].plan # Nothing => req[r].original # Nothing
  BY DEF EndExecution, TypeInv, LocalInv
<1>3. CASE project' = project
  BY <1>1, <1>3, ReturnType DEF TypeInv, TypeOK
<1>4. CASE Throw(r)
  BY <1>1, <1>2, <1>4, ThrowType, ReturnType
<1>5. QED
  BY <1>3, <1>4 DEF EndExecution

-----------------------------------------------------------------------------
\* Crash and restart.

LEMMA CrashType ==
  ASSUME TypeInv, Crash PROVE TypeInv'
<1>1. ASSUME NEW r \in Request
      PROVE  req'[r] \in Local /\ LocalInv(req'[r])
  <2>1. req[r] \in Local
    BY DEF TypeInv, TypeOK
  <2>2. CASE req[r].pending = Nothing
    BY <2>2, IdleIsLocal DEF Crash
  <2>3. CASE req[r].pending # Nothing
    <3>. DEFINE l == [Idle EXCEPT !.pc = "lost", !.pending = req[r].pending]
    <3>1. /\ l \in Local /\ l.pc = "lost" /\ l.pending # Nothing
          /\ l.held = Nothing /\ l.original = Nothing
      BY <2>1, <2>3, IdleIsLocal DEF Local
    <3>2. req'[r] = l
      BY <2>3 DEF Crash
    <3>. HIDE DEF l
    <3>3. QED
      BY <3>1, <3>2 DEF LocalInv
  <2>4. QED
    BY <2>2, <2>3
<1>2. req' \in [Request -> Local]
  BY <1>1 DEF Crash
<1>3. /\ TypeOK' /\ TreesHaveFiles' /\ RowHasFiles(project)'
  BY <1>2 DEF Crash, TypeInv, TypeOK, TreesHaveFiles, RowHasFiles
<1>4. \A r \in Request : LocalInv(req[r])'
  BY <1>1 DEF Crash, LocalInv, RowHasFiles
<1>5. QED
  BY <1>3, <1>4 DEF TypeInv

LEMMA RecoverAppendType ==
  ASSUME TypeInv, NEW r \in Request, RecoverAppend(r) PROVE TypeInv'
<1>1. req[r].pending \in RevisionEvent
  <2>1. req[r] \in Local /\ LocalInv(req[r]) /\ req[r].pc = "lost"
    BY DEF RecoverAppend, TypeInv, TypeOK
  <2>2. QED
    BY <2>1 DEF LocalInv, Local
<1>2. /\ revisions' \in [Plan -> Revision \cup {Nothing}]
      /\ poisoned' \in BOOLEAN
  <2>1. CASE Replay(req[r].pending)
    BY <1>1, <2>1, ReplayType DEF TypeInv
  <2>2. CASE UNCHANGED ladder
    BY <2>2 DEF TypeInv, TypeOK
  <2>3. QED
    BY <2>1, <2>2 DEF RecoverAppend
<1>3. RestOK' /\ project' = project /\ UNCHANGED disk /\ Return(r)
  BY <1>2 DEF RecoverAppend, TypeInv, TypeOK, RestOK
<1>4. QED
  BY <1>3, ReturnType DEF TypeInv, TypeOK

LEMMA RestartType ==
  ASSUME TypeInv, Restart \/ UNCHANGED vars PROVE TypeInv'
<1>1. UNCHANGED <<project, inputs, tree, files, plans, claimed, revisions,
                  poisoned, running, begun, req>>
  BY DEF Restart, vars
<1>2. up' \in BOOLEAN
  BY DEF Restart, vars, TypeInv, TypeOK
<1>3. TypeOK' /\ TreesHaveFiles' /\ RowHasFiles(project)'
  BY <1>1, <1>2 DEF TypeInv, TypeOK, TreesHaveFiles, RowHasFiles
<1>4. ASSUME NEW r \in Request PROVE LocalInv(req[r])'
  <2>1. LocalInv(req[r])
    BY DEF TypeInv
  <2>2. QED
    BY <1>1, <2>1 DEF RowHasFiles, LocalInv
<1>5. QED
  BY <1>3, <1>4 DEF TypeInv

-----------------------------------------------------------------------------
LEMMA InitType == Init => TypeInv
<1>. SUFFICES ASSUME Init PROVE TypeInv
  OBVIOUS
<1>1. project \in Row /\ project.workspace = 0
  BY DEF Init, Row, ProjectState
<1>2. req \in [Request -> Local]
  BY IdleIsLocal DEF Init
<1>3. inputs \in Input
  BY DEF Init
<1>4. TypeOK
  <2>1. /\ tree \in [Slot -> Tree \cup {Nothing}]
        /\ files \in [Slot -> Files \cup {Nothing}]
    BY DEF Init
  <2>2. /\ plans \in [Plan -> Snapshot \cup {Nothing}]
        /\ revisions \in [Plan -> Revision \cup {Nothing}]
    BY DEF Init
  <2>3. claimed \subseteq Plan /\ running \in Int /\ begun \in 0 .. MaxRequests
    BY DEF Init, BuildAssumption
  <2>4. poisoned \in BOOLEAN /\ up \in BOOLEAN
    BY DEF Init
  <2>5. QED
    BY <1>1, <1>2, <1>3, <2>1, <2>2, <2>3, <2>4 DEF TypeOK
<1>5. QED
  BY <1>1, <1>4, IdleIsLocal DEF Init, TypeInv, TreesHaveFiles, RowHasFiles

LEMMA NextType == TypeInv /\ [Next]_vars => TypeInv'
<1>. SUFFICES ASSUME TypeInv, [Next]_vars PROVE TypeInv'
  OBVIOUS
<1>1. ASSUME NEW r \in Request, Generate(r) PROVE TypeInv'
  BY <1>1, BeginGenerateType, StartGenerationType, RefuseGenerationType,
     PreviewStoppedType, ComposeType, ComposeFailsType, GenerationFailsType,
     FinishGenerationType, RevisionMaterializedType, GenerationSucceededType,
     GenerationThrowsType DEF Generate
<1>2. ASSUME NEW r \in Request, Verify(r) PROVE TypeInv'
  BY <1>2, StartVerificationType, HashSourceType, BuildWorkspaceType,
     VerificationFailsType, RecordIdentityType, RevisionBuildableType,
     VerificationThrowsType DEF Verify
<1>3. ASSUME NEW r \in Request, Ingest(r) \/ Edit(r) PROVE TypeInv'
  BY <1>3, StartIngestionType, AttachPackType, EndIngestionType,
     SaveOverridesType, WriteAssetDecisionsType DEF Ingest, Edit
<1>4. ASSUME NEW r \in Request, Approve(r) PROVE TypeInv'
  BY <1>4, BeginApproveType, MintPlanType, RevisionOpenedType,
     ApprovalEndsType DEF Approve
<1>5. ASSUME NEW r \in Request, Execute(r) PROVE TypeInv'
  BY <1>5, ClaimPlanType, LockProjectType, RefuseLockType, FreezeInputsType,
     RejectExecutionType, EndExecutionType DEF Execute
<1>6. QED
  BY <1>1, <1>2, <1>3, <1>4, <1>5, CrashType, RecoverAppendType, RestartType
     DEF Next

LEMMA TypeInvHolds == Spec => []TypeInv
<1>1. Init => TypeInv
  BY InitType
<1>2. TypeInv /\ [Next]_vars => TypeInv'
  BY NextType
<1>3. QED
  BY <1>1, <1>2, PTL DEF Spec

\* Every variable, and every local variable of a request, stays in its type:
\* no await reads a row, a workspace or an event that is not there.
THEOREM TypeCorrect == Spec => []TypeOK
<1>1. TypeInv => TypeOK
  BY DEF TypeInv
<1>2. QED
  BY <1>1, TypeInvHolds, PTL
=============================================================================
