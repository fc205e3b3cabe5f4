----------------------------- MODULE EventLedger -----------------------------
(***************************************************************************)
(* The event ledger and its read model: FactoryStore.                      *)
(*                                                                         *)
(* recordEvent appends a line to events.jsonl, awaits it, and then inserts *)
(* the event in SQLite and moves a counter.  Several requests record at    *)
(* once; the process may die between any two of these; and opening the     *)
(* store replays what the read model lacks, or rebuilds it, on the word of *)
(* two cheap checks.                                                       *)
(***************************************************************************)
EXTENDS Naturals, Sequences

CONSTANTS Recorder,    \* requests that may be recording an event
          Event,       \* events, each recorded once
          Orphan,      \* events whose project the database does not have
          MaxCrashes,  \* bound of the model: times the process dies
          None

ASSUME LedgerAssumption == /\ Orphan \subseteq Event
                           /\ MaxCrashes \in Nat
                           /\ None \notin Event
                           /\ \A E \in SUBSET Event : E # None

VARIABLES ledger,    \* the lines of events.jsonl
          rows,      \* the ids of the events table, in order of sequence
          counter,   \* last_projected_sequence
          mode,      \* the store is down, opening or up
          from,      \* reconcileProjection: where the replay began,
          cursor,    \*   how far it has come,
          orphaned,  \*   and how many events it could not place
          writing,   \* the event each recorder waits for, or None
          landed,    \* of those, the ones whose line is in the file
          crashes,
          earlier    \* history: what was settled when an event was recorded

reading == <<from, cursor, orphaned>>
ledgerVars == <<ledger, rows, counter, mode, reading, writing, landed, crashes, earlier>>

-----------------------------------------------------------------------------
Elements(s) == {s[i] : i \in 1 .. Len(s)}

LedgerTypeOK ==
  /\ ledger \in Seq(Event)
  /\ rows \in Seq(Event)
  /\ counter \in Nat
  /\ mode \in {"down", "opening", "up"}
  /\ from \in Nat
  /\ cursor \in Nat
  /\ orphaned \in Nat
  /\ writing \in [Recorder -> Event \cup {None}]
  /\ landed \in SUBSET Recorder
  /\ crashes \in Nat
  /\ earlier \in [Event -> (SUBSET Event) \cup {None}]

InFlight == {writing[r] : r \in Recorder} \ {None}

\* In the ledger, and nobody is waiting for it any more.
Settled == Elements(ledger) \ InFlight

LedgerInit ==
  /\ ledger = <<>>
  /\ rows = <<>>
  /\ counter = 0
  /\ mode = "up"
  /\ from = 0 /\ cursor = 0 /\ orphaned = 0
  /\ writing = [r \in Recorder |-> None]
  /\ landed = {}
  /\ crashes = 0
  /\ earlier = [e \in Event |-> None]

-----------------------------------------------------------------------------
\* recordEvent.

\* Mutant: the row is inserted before the line is in the ledger.
RecordInsertsFirst(r) ==
  /\ mode = "up" /\ writing[r] = None
  /\ \E e \in Event :
       /\ earlier[e] = None
       /\ writing' = [writing EXCEPT ![r] = e]
       /\ earlier' = [earlier EXCEPT ![e] = Settled]
       /\ rows' = Append(rows, e)
  /\ UNCHANGED <<ledger, counter, mode, reading, landed, crashes>>

Record(r) ==
  /\ mode = "up" /\ writing[r] = None
  /\ \E e \in Event :
       /\ earlier[e] = None
       /\ writing' = [writing EXCEPT ![r] = e]
       /\ earlier' = [earlier EXCEPT ![e] = Settled]
  /\ UNCHANGED <<ledger, rows, counter, mode, reading, landed, crashes>>

\* appendFile: the lines of two recorders land in either order.
AppendLands(r) ==
  /\ mode = "up" /\ writing[r] # None /\ r \notin landed
  /\ ledger' = Append(ledger, writing[r])
  /\ landed' = landed \cup {r}
  /\ UNCHANGED <<rows, counter, mode, reading, writing, crashes, earlier>>

\* The append rejects, and with it recordEvent.
AppendFails(r) ==
  /\ mode = "up" /\ writing[r] # None /\ r \notin landed
  /\ writing' = [writing EXCEPT ![r] = None]
  /\ UNCHANGED <<ledger, rows, counter, mode, reading, landed, crashes, earlier>>

\* projectEvent: an event the table already has is left where it is.
Projected(e) == IF e \in Elements(rows) THEN rows ELSE Append(rows, e)

Settles(r) == /\ writing' = [writing EXCEPT ![r] = None]
              /\ landed' = landed \ {r}

\* The recorder is resumed, in any order: insert, then count.
Project(r) ==
  /\ mode = "up" /\ r \in landed /\ writing[r] \notin Orphan
  /\ rows' = Projected(writing[r])
  /\ counter' = counter + 1
  /\ Settles(r)
  /\ UNCHANGED <<ledger, mode, reading, crashes, earlier>>

\* The foreign key does not resolve: the line stays, and the insert throws.
ProjectThrows(r) ==
  /\ mode = "up" /\ r \in landed /\ writing[r] \in Orphan
  /\ Settles(r)
  /\ UNCHANGED <<ledger, rows, counter, mode, reading, crashes, earlier>>

-----------------------------------------------------------------------------
\* The process dies, perhaps between an insert and its count.

Crash ==
  /\ mode # "down" /\ crashes < MaxCrashes
  /\ crashes' = crashes + 1
  /\ mode' = "down"
  /\ writing' = [r \in Recorder |-> None]
  /\ landed' = {}
  /\ \/ UNCHANGED rows
     \/ \E r \in landed : /\ writing[r] \notin Orphan
                          /\ rows' = Projected(writing[r])
  /\ UNCHANGED <<ledger, counter, reading, earlier>>

-----------------------------------------------------------------------------
\* Opening the store: reconcileProjection.  The row at `counter' is compared
\* with the line at `counter'; nothing before it is.

\* Mutant: the row at the boundary is not compared.
CountAgrees == Len(rows) = counter

\* As many rows as the counter says, and the last of them is the ledger's.
CanReplay == /\ Len(rows) = counter
             /\ counter <= Len(ledger)
             /\ counter > 0 => rows[counter] = ledger[counter]

\* Mutant: the replay begins one event late.
BeginReplayLate(start) == /\ mode' = "opening"
                          /\ from' = start
                          /\ cursor' = IF start < Len(ledger) THEN start + 1
                                                              ELSE start
                          /\ orphaned' = 0

BeginReplay(start) == /\ mode' = "opening"
                      /\ from' = start /\ cursor' = start
                      /\ orphaned' = 0

Open ==
  /\ mode = "down"
  /\ \/ CanReplay /\ BeginReplay(counter) /\ UNCHANGED rows
     \/ ~CanReplay /\ BeginReplay(0) /\ rows' = <<>>
  /\ UNCHANGED <<ledger, counter, writing, landed, crashes, earlier>>

\* rebuildProjection, the operator's command on a store that is not running.
Rebuild ==
  /\ mode = "down"
  /\ BeginReplay(0)
  /\ rows' = <<>>
  /\ counter' = 0
  /\ UNCHANGED <<ledger, writing, landed, crashes, earlier>>

\* It died with the rows deleted and the counter not yet reset.
RebuildDies ==
  /\ mode = "down" /\ crashes < MaxCrashes
  /\ crashes' = crashes + 1
  /\ rows' = <<>>
  /\ UNCHANGED <<ledger, counter, mode, reading, writing, landed, earlier>>

\* Mutant: the newest event is replayed first.
ReplayNewestFirst ==
  LET e == ledger[Len(ledger) - (cursor - from)]
  IN /\ mode = "opening" /\ cursor < Len(ledger)
     /\ cursor' = cursor + 1
     /\ IF e \in Orphan THEN orphaned' = orphaned + 1 /\ UNCHANGED rows
                        ELSE rows' = Projected(e) /\ UNCHANGED orphaned
     /\ UNCHANGED <<ledger, counter, mode, from, writing, landed, crashes, earlier>>

ReplayEvent ==
  /\ mode = "opening" /\ cursor < Len(ledger)
  /\ cursor' = cursor + 1
  /\ IF ledger[cursor + 1] \in Orphan
       THEN orphaned' = orphaned + 1 /\ UNCHANGED rows
       ELSE rows' = Projected(ledger[cursor + 1]) /\ UNCHANGED orphaned
  /\ UNCHANGED <<ledger, counter, mode, from, writing, landed, crashes, earlier>>

Opened ==
  /\ mode = "opening" /\ cursor = Len(ledger)
  /\ mode' = "up"
  /\ counter' = Len(ledger) - orphaned
  /\ UNCHANGED <<ledger, rows, reading, writing, landed, crashes, earlier>>

-----------------------------------------------------------------------------
Resume(r) == AppendLands(r) \/ AppendFails(r) \/ Project(r) \/ ProjectThrows(r)

LedgerNext ==
  \/ \E r \in Recorder : Record(r) \/ Resume(r)
  \/ Open \/ Rebuild \/ RebuildDies \/ ReplayEvent \/ Opened
  \/ Crash

LedgerSpec == LedgerInit /\ [][LedgerNext]_ledgerVars

\* A write that was issued settles and its recorder is resumed, and a store
\* that is down is opened again.  That it dies only so often is MaxCrashes.
LedgerFairness ==
  /\ \A r \in Recorder : WF_ledgerVars(Resume(r))
  /\ WF_ledgerVars(Open) /\ WF_ledgerVars(ReplayEvent \/ Opened)

-----------------------------------------------------------------------------
\* Properties.

\* The events table is derived from the ledger and nothing else, and holds no
\* event twice, whoever inserted it: the recorder, the replay, or both.
RowsComeFromLedger ==
  /\ Elements(rows) \subseteq Elements(ledger)
  /\ \A i, j \in 1 .. Len(rows) : rows[i] = rows[j] => i = j

\* The read model keeps the order callers saw: an event that was settled before
\* another was recorded has the lower sequence, through crashes, replays and
\* rebuilds.  The replay of artifact revisions rests on it: an advance is
\* recorded by a handler that has read the event that opened the revision.
RecordedOrder ==
  \A i, j \in 1 .. Len(rows) : rows[i] \in earlier[rows[j]] => i < j

\* While the store is up the read model equals the ledger: only events still
\* being recorded, or of a project the database does not have, are missing.
ReadModelEqualsLedger ==
  mode = "up" => Settled \subseteq Elements(rows) \cup Orphan

\* An event that reached the ledger reaches the read model, and stays there.
EventuallyProjected ==
  \A e \in Event \ Orphan : e \in Elements(ledger) ~> [](e \in Elements(rows))
=============================================================================
