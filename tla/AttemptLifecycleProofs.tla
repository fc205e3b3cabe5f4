------------------------ MODULE AttemptLifecycleProofs ------------------------
(***************************************************************************)
(* Proofs about AttemptLifecycle, for any number of cancellers.            *)
(***************************************************************************)
EXTENDS AttemptLifecycle, TLAPS

\* The awaits in which an append is in flight.
Writing == {"journal created", "journal starting", "journal started", "journal exited",
            "journal failed start", "journal reclaimed", "journal disposed", "journal stopping",
            "journal stopped", "journal stopped again"}

\* An append in flight has an event to append.
Noted == \A p \in Proc : at[p] \in Writing => note[p] \in Lines

\* The sandbox is gone, or the runtime failed to answer about it.
Gone == box = Nothing \/ unanswered

\* The awaits of dispose once it has taken the removal for confirmed or not.
Concluded == {"journal disposed", "disposed"}

\* The supervisor's entry is live until dispose lets it go; a sandbox the
\* runtime has named has its handle in the entry, and dispose in what it
\* removes; and dispose lets go of none it has not seen removed, or throws.
Holding == up => /\ at[Supervisor] \notin {"idle", "done"} => entry.live
                 /\ at[Supervisor] = "idle" => box = Nothing
                 /\ Gone \/ entry.handle
                 /\ at[Supervisor] = "remove" => held[Supervisor] = entry.handle
                 /\ at[Supervisor] \in Concluded /\ note[Supervisor].removed => Gone
                 /\ at[Supervisor] = "done" => Gone \/ thrown

Shape == AttemptTypeOK /\ Noted

CallsOK == /\ at \in [Proc -> Labels] /\ note \in [Proc -> Lines \cup {NoNote}]
           /\ held \in [Proc -> BOOLEAN]
           /\ Noted

LEMMA Procs == /\ Supervisor \in Proc /\ Clock \in Proc
               /\ Supervisor # Clock
               /\ \A p \in Canceller \cup {Clock} : p \in Proc /\ p # Supervisor
BY CallerAssumption DEF Proc, Supervisor, Clock

LEMMA Sets == /\ NoNote \notin Lines
              /\ \A t \in Types, r \in Reasons \cup {Nothing}, b \in BOOLEAN :
                   [type |-> t, reason |-> r, removed |-> b] \in Lines
              /\ \A e \in Entries : /\ e.live \in BOOLEAN /\ e.handle \in BOOLEAN
                                     /\ e.timer \in BOOLEAN
BY DEF NoNote, Lines, Types, Nothing, Entries

LEMMA InitShape == AttemptInit => Shape /\ Holding
<1> SUFFICES ASSUME AttemptInit PROVE Shape /\ Holding
  OBVIOUS
<1> USE DEF AttemptInit
<1>1. attempt \in Attempts
  BY DEF Attempts, States, Reasons, Stopped, Nothing
<1>2. entry \in Entries
  BY DEF NoEntry, Entries
<1>3. at \in [Proc -> Labels] /\ Noted
  BY DEF Idle, Labels, Noted, Writing
<1>4. report \in Reports
  BY DEF Reports
<1>5. note \in [Proc -> Lines \cup {NoNote}] /\ held \in [Proc -> BOOLEAN]
  BY DEF NoNotes, NoHandles
<1>6. lines \in Seq(Lines)
  OBVIOUS
<1>7. box \in {Nothing, "created", "running", "done", "dead"} /\ up \in BOOLEAN
  OBVIOUS
<1>8. /\ unrecorded \in BOOLEAN /\ thrown \in BOOLEAN
      /\ unanswered \in BOOLEAN /\ hasty \in BOOLEAN
  OBVIOUS
<1>10. AttemptTypeOK
  BY <1>1, <1>2, <1>3, <1>4, <1>5, <1>6, <1>7, <1>8 DEF AttemptTypeOK
<1>11. Holding
  BY Procs DEF Holding, Idle, Gone, Concluded
<1> QED
  BY <1>3, <1>10, <1>11 DEF Shape

-----------------------------------------------------------------------------
\* The steps the operations share keep the callers' variables well formed.

LEMMA Writes ==
  ASSUME Shape, NEW p \in Proc, NEW line \in Lines, NEW l \in Labels, JournalLine(p, line, l)
  PROVE CallsOK'
BY DEF Shape, AttemptTypeOK, Noted, CallsOK, JournalLine, Goto

LEMMA Journals ==
  ASSUME Shape, NEW p \in Proc, NEW t \in Types, NEW r \in Reasons \cup {Nothing},
         NEW l \in Labels, Journal(p, t, r, l)
  PROVE CallsOK'
BY Sets, Writes DEF Journal

LEMMA Drives ==
  ASSUME Shape, NEW p \in Proc, NEW l \in Labels \ Writing, Call(p, l)
  PROVE CallsOK'
<1>1. entry.handle \in BOOLEAN
  BY Sets DEF Shape, AttemptTypeOK
<1> QED
  BY <1>1 DEF Shape, AttemptTypeOK, Noted, CallsOK, Call, Goto

LEMMA Resumes ==
  ASSUME Shape, NEW p \in Proc, NEW l \in Labels \ Writing, Continue(p, l)
  PROVE CallsOK'
BY DEF Shape, AttemptTypeOK, Noted, CallsOK, Continue, Goto

LEMMA Stays == ASSUME Shape, UNCHANGED calls PROVE CallsOK'
BY DEF Shape, AttemptTypeOK, Noted, CallsOK, calls

LEMMA Landing ==
  ASSUME Shape, NEW p \in Proc, NEW l \in Writing, Lands(p, l)
  PROVE lines' \in Seq(Lines)
<1>1. note[p] \in Lines
  BY DEF Shape, Noted, Lands, At
<1> QED
  BY <1>1 DEF Shape, AttemptTypeOK, Lands

LEMMA Transitions ==
  ASSUME NEW s \in States, NEW r \in Reasons \cup {Nothing}, (s \in Stopped) <=> (r # Nothing),
         Transition(s, r)
  PROVE attempt' \in Attempts
BY DEF Transition, Attempts

LEMMA Entered ==
  ASSUME NEW e \in Entries, NEW b \in BOOLEAN, NEW r \in Reasons \cup {Nothing, Unset},
         NEW f \in {Nothing, "cancelled", "timed-out", "terminated"}
  PROVE /\ [e EXCEPT !.live = b] \in Entries /\ [e EXCEPT !.handle = b] \in Entries
        /\ [e EXCEPT !.timer = b] \in Entries /\ [e EXCEPT !.result = r] \in Entries
        /\ [e EXCEPT !.forced = f] \in Entries
BY DEF Entries

LEMMA Parts ==
  ASSUME attempt \in Attempts, entry \in Entries, box \in {Nothing, "created", "running", "done", "dead"},
         CallsOK, lines \in Seq(Lines), report \in Reports, up \in BOOLEAN,
         unrecorded \in BOOLEAN, thrown \in BOOLEAN, unanswered \in BOOLEAN, hasty \in BOOLEAN
  PROVE Shape
BY DEF Shape, AttemptTypeOK, CallsOK

-----------------------------------------------------------------------------
\* Each step keeps the types: first what Rejected leaves alone.

LEMMA Rejections ==
  ASSUME Shape, NEW p \in Proc, NEW l \in Labels, Rejected(p, l),
         attempt' \in Attempts, entry' \in Entries, CallsOK'
  PROVE Shape'
BY DEF Rejected, Shape, AttemptTypeOK, CallsOK

LEMMA CreateAttemptShape == ASSUME Shape, CreateAttempt PROVE Shape'
<1>1. CallsOK'
  BY Procs, Journals DEF CreateAttempt, Labels, Writing, Types, Reasons, Nothing
<1>2. attempt' \in Attempts
  BY DEF CreateAttempt, Shape, AttemptTypeOK
<1>3. entry' \in Entries
  BY Entered DEF CreateAttempt, Disarmed, Shape, AttemptTypeOK
<1> QED
  BY <1>1, <1>2, <1>3 DEF CreateAttempt, Shape, AttemptTypeOK, CallsOK, history

LEMMA CreatedLandsShape == ASSUME Shape, CreatedLands PROVE Shape'
<1>1. CallsOK'
  BY Procs, Drives DEF CreatedLands, Labels, Writing, Types, Reasons, Nothing
<1>2. attempt' \in Attempts
  BY DEF CreatedLands, Shape, AttemptTypeOK
<1>3. entry' \in Entries
  BY DEF CreatedLands, Shape, AttemptTypeOK
<1>4. lines' \in Seq(Lines)
  BY Procs, Landing DEF CreatedLands, Writing
<1> QED
  BY <1>1, <1>2, <1>3, <1>4 DEF CreatedLands, Shape, AttemptTypeOK, CallsOK, history

LEMMA CreatedRejectedShape == ASSUME Shape, CreatedRejected PROVE Shape'
<1>1. CallsOK'
  BY Procs, Resumes DEF CreatedRejected, Labels, Writing, Types, Reasons, Nothing
<1>2. attempt' \in Attempts
  BY DEF CreatedRejected, Shape, AttemptTypeOK
<1>3. entry' \in Entries
  BY DEF CreatedRejected, Shape, AttemptTypeOK
<1> QED
  BY <1>1, <1>2, <1>3, Procs, Rejections DEF CreatedRejected, Labels

LEMMA CreateReturnsShape == ASSUME Shape, CreateReturns PROVE Shape'
<1>1. CallsOK'
  BY Procs, Journals DEF CreateReturns, Labels, Writing, Types, Reasons, Nothing
<1>2. attempt' \in Attempts
  BY Transitions DEF CreateReturns, States, Reasons, Stopped, Nothing
<1>3. entry' \in Entries
  BY Entered DEF CreateReturns, Disarmed, Shape, AttemptTypeOK
<1> QED
  BY <1>1, <1>2, <1>3 DEF CreateReturns, Shape, AttemptTypeOK, CallsOK, history

LEMMA CreateRejectsShape == ASSUME Shape, CreateRejects PROVE Shape'
<1>1. CallsOK'
  BY Procs, Journals DEF CreateRejects, StartFailed, Labels, Writing, Types, Reasons, Nothing
<1>2. attempt' \in Attempts
  BY Transitions DEF CreateRejects, StartFailed, States, Reasons, Stopped, Nothing
<1>3. entry' \in Entries
  BY DEF CreateRejects, StartFailed, Shape, AttemptTypeOK
<1> QED
  BY <1>1, <1>2, <1>3 DEF CreateRejects, StartFailed, Shape, AttemptTypeOK, CallsOK, Nothing

LEMMA StartingLandsShape == ASSUME Shape, StartingLands PROVE Shape'
<1>1. CallsOK'
  BY Procs, Resumes DEF StartingLands, Labels, Writing, Types, Reasons, Nothing
<1>2. attempt' \in Attempts
  BY DEF StartingLands, Shape, AttemptTypeOK
<1>3. entry' \in Entries
  BY DEF StartingLands, Shape, AttemptTypeOK
<1>4. lines' \in Seq(Lines)
  BY Procs, Landing DEF StartingLands, Writing
<1> QED
  BY <1>1, <1>2, <1>3, <1>4 DEF StartingLands, Shape, AttemptTypeOK, CallsOK, history

LEMMA StartingRejectedShape == ASSUME Shape, StartingRejected PROVE Shape'
<1>1. CallsOK'
  BY Procs, Journals DEF StartingRejected, StartFailed, Labels, Writing, Types, Reasons, Nothing
<1>2. attempt' \in Attempts
  BY Transitions DEF StartingRejected, StartFailed, States, Reasons, Stopped, Nothing
<1>3. entry' \in Entries
  BY DEF StartingRejected, StartFailed, Shape, AttemptTypeOK
<1> QED
  BY <1>1, <1>2, <1>3, Procs, Rejections DEF StartingRejected, Labels

LEMMA FailedStartRejectedShape == ASSUME Shape, FailedStartRejected PROVE Shape'
<1>1. CallsOK'
  BY Procs, Resumes DEF FailedStartRejected, Labels, Writing, Types, Reasons, Nothing
<1>2. attempt' \in Attempts
  BY DEF FailedStartRejected, Shape, AttemptTypeOK
<1>3. entry' \in Entries
  BY DEF FailedStartRejected, Shape, AttemptTypeOK
<1> QED
  BY <1>1, <1>2, <1>3, Procs, Rejections DEF FailedStartRejected, Labels

LEMMA StartShape == ASSUME Shape, Start PROVE Shape'
<1>1. CallsOK'
  BY Procs, Drives DEF Start, Labels, Writing, Types, Reasons, Nothing
<1>2. attempt' \in Attempts
  BY DEF Start, Shape, AttemptTypeOK
<1>3. entry' \in Entries
  BY DEF Start, Shape, AttemptTypeOK
<1> QED
  BY <1>1, <1>2, <1>3 DEF Start, Shape, AttemptTypeOK, CallsOK, history

LEMMA BoxStartsShape == ASSUME Shape, BoxStarts PROVE Shape'
<1>1. CallsOK'
  BY Procs, Resumes DEF BoxStarts, Labels, Writing, Types, Reasons, Nothing
<1>2. attempt' \in Attempts
  BY DEF BoxStarts, Shape, AttemptTypeOK
<1>3. entry' \in Entries
  BY DEF BoxStarts, Shape, AttemptTypeOK
<1> QED
  BY <1>1, <1>2, <1>3 DEF BoxStarts, Shape, AttemptTypeOK, CallsOK, history

LEMMA StartRejectsShape == ASSUME Shape, StartRejects PROVE Shape'
<1>1. CallsOK'
  BY Procs, Resumes DEF StartRejects, Labels, Writing, Types, Reasons, Nothing
<1>2. attempt' \in Attempts
  BY DEF StartRejects, Shape, AttemptTypeOK
<1>3. entry' \in Entries
  BY DEF StartRejects, Shape, AttemptTypeOK
<1> QED
  BY <1>1, <1>2, <1>3 DEF StartRejects, Shape, AttemptTypeOK, CallsOK, history

LEMMA StartReturnsShape == ASSUME Shape, StartReturns PROVE Shape'
<1>1. CallsOK'
  BY Procs, Journals DEF StartReturns, Labels, Writing, Types, Reasons, Nothing
<1>2. attempt' \in Attempts
  BY Transitions DEF StartReturns, States, Reasons, Stopped, Nothing
<1>3. entry' \in Entries
  BY DEF StartReturns, Shape, AttemptTypeOK
<1> QED
  BY <1>1, <1>2, <1>3 DEF StartReturns, Shape, AttemptTypeOK, CallsOK, history

LEMMA StartTooLateShape == ASSUME Shape, StartTooLate PROVE Shape'
<1>1. CallsOK'
  BY Procs, Resumes DEF StartTooLate, Labels, Writing, Types, Reasons, Nothing
<1>2. attempt' \in Attempts
  BY DEF StartTooLate, Shape, AttemptTypeOK
<1>3. entry' \in Entries
  BY DEF StartTooLate, Shape, AttemptTypeOK
<1> QED
  BY <1>1, <1>2, <1>3 DEF StartTooLate, Shape, AttemptTypeOK, CallsOK, history

LEMMA StartedLandsShape == ASSUME Shape, StartedLands PROVE Shape'
<1>1. CallsOK'
  BY Procs, Resumes DEF StartedLands, Labels, Writing, Types, Reasons, Nothing
<1>2. attempt' \in Attempts
  BY DEF StartedLands, Shape, AttemptTypeOK
<1>3. entry' \in Entries
  BY Entered DEF StartedLands, Disarmed, Shape, AttemptTypeOK
<1>4. lines' \in Seq(Lines)
  BY Procs, Landing DEF StartedLands, Writing
<1> QED
  BY <1>1, <1>2, <1>3, <1>4 DEF StartedLands, Shape, AttemptTypeOK, CallsOK, history

LEMMA StartedRejectedShape == ASSUME Shape, StartedRejected PROVE Shape'
<1>1. CallsOK'
  BY Procs, Resumes DEF StartedRejected, Labels, Writing, Types, Reasons, Nothing
<1>2. attempt' \in Attempts
  BY DEF StartedRejected, Shape, AttemptTypeOK
<1>3. entry' \in Entries
  BY DEF StartedRejected, Shape, AttemptTypeOK
<1> QED
  BY <1>1, <1>2, <1>3, Procs, Rejections DEF StartedRejected, Labels

LEMMA CollectShape == ASSUME Shape, Collect PROVE Shape'
<1>1. CallsOK'
  BY Procs, Drives, Resumes DEF Collect, Labels, Writing, Types, Reasons, Nothing
<1>2. attempt' \in Attempts
  BY DEF Collect, Shape, AttemptTypeOK
<1>3. entry' \in Entries
  BY DEF Collect, Shape, AttemptTypeOK
<1> QED
  BY <1>1, <1>2, <1>3 DEF Collect, Shape, AttemptTypeOK, CallsOK, history

LEMMA DisposeShape == ASSUME Shape, Dispose PROVE Shape'
<1>1. CallsOK'
  BY Procs, Drives DEF Dispose, MayDispose, Labels, Writing, Types, Reasons, Nothing
<1>2. attempt' \in Attempts
  BY DEF Dispose, MayDispose, Shape, AttemptTypeOK
<1>3. entry' \in Entries
  <2>1. entry \in Entries /\ Disarmed \in Entries
    BY Entered DEF Disarmed, Shape, AttemptTypeOK
  <2>2. \A f : [Disarmed EXCEPT !.forced = IF @ = Nothing THEN "terminated" ELSE @]
             \in {Disarmed, [Disarmed EXCEPT !.forced = "terminated"]}
    BY <2>1 DEF Entries
  <2> QED
    BY <2>1, <2>2, Entered DEF Dispose, MayDispose
<1> QED
  BY <1>1, <1>2, <1>3 DEF Dispose, MayDispose, Shape, AttemptTypeOK, CallsOK, history

LEMMA KillReturnsShape == ASSUME Shape, KillReturns PROVE Shape'
<1>1. CallsOK'
  BY Procs, Drives DEF KillReturns, Labels, Writing, Types, Reasons, Nothing
<1>2. attempt' \in Attempts
  BY DEF KillReturns, Shape, AttemptTypeOK
<1>3. entry' \in Entries
  BY DEF KillReturns, Shape, AttemptTypeOK
<1> QED
  BY <1>1, <1>2, <1>3 DEF KillReturns, Signalled, Shape, AttemptTypeOK, CallsOK, history

LEMMA RemoveReturnsShape == ASSUME Shape, RemoveReturns PROVE Shape'
<1>1. CallsOK'
  BY Procs, Drives DEF RemoveReturns, Labels, Writing, Types, Reasons, Nothing
<1>2. attempt' \in Attempts
  BY DEF RemoveReturns, Shape, AttemptTypeOK
<1>3. entry' \in Entries
  BY DEF RemoveReturns, Shape, AttemptTypeOK
<1> QED
  BY <1>1, <1>2, <1>3 DEF RemoveReturns, Shape, AttemptTypeOK, CallsOK, history

LEMMA DisposedRejectedShape == ASSUME Shape, DisposedRejected PROVE Shape'
<1>1. CallsOK'
  BY Procs, Resumes DEF DisposedRejected, Labels, Writing, Types, Reasons, Nothing
<1>2. attempt' \in Attempts
  BY DEF DisposedRejected, Shape, AttemptTypeOK
<1>3. entry' \in Entries
  BY DEF DisposedRejected, Shape, AttemptTypeOK
<1> QED
  BY <1>1, <1>2, <1>3, Procs, Rejections DEF DisposedRejected, Labels

LEMMA Answered ==
  ASSUME Shape, NEW p \in Proc
  PROVE /\ Outcome(p) \in Reasons
        /\ Disarmed \in Entries
        /\ [Disarmed EXCEPT !.result = attempt.reason] \in Entries
        /\ [entry EXCEPT !.result = attempt.reason] \in Entries
<1>1. entry \in Entries /\ Disarmed \in Entries
  BY Entered DEF Disarmed, Shape, AttemptTypeOK
<1>2. attempt.reason \in Reasons \cup {Nothing}
  BY DEF Shape, AttemptTypeOK, Attempts
<1>3. Outcome(p) \in Reasons
  BY <1>1 DEF Outcome, Entries, Reasons, Nothing
<1> QED
  BY <1>1, <1>2, <1>3, Entered

LEMMA Steps == /\ DOMAIN Waits = {"collect", "reclaim", "stop", "again"}
               /\ \A l \in DOMAIN Waits : Waits[l] \in Writing /\ Onward[l] \in Labels \ Writing
               /\ Writing \subseteq Labels
<1>1. DOMAIN Waits = {"collect", "reclaim", "stop", "again"} /\ Writing \subseteq Labels
  BY DEF Waits, Writing, Labels
<1>2. Waits["collect"] \in Writing /\ Onward["collect"] \in Labels \ Writing
  BY DEF Waits, Onward, Writing, Labels
<1>3. Waits["reclaim"] \in Writing /\ Onward["reclaim"] \in Labels \ Writing
  BY DEF Waits, Onward, Writing, Labels
<1>4. Waits["stop"] \in Writing /\ Onward["stop"] \in Labels \ Writing
  BY DEF Waits, Onward, Writing, Labels
<1>5. Waits["again"] \in Writing /\ Onward["again"] \in Labels \ Writing
  BY DEF Waits, Onward, Writing, Labels
<1> QED
  BY <1>1, <1>2, <1>3, <1>4, <1>5

LEMMA Leaving ==
  ASSUME Shape, NEW p \in Proc, NEW l \in DOMAIN Waits, Leaves(p, l)
  PROVE CallsOK'
BY Steps, Drives, Resumes DEF Leaves

\* What #settle does to the callers, the entry and the attempt.
LEMMA SettlingOK ==
  ASSUME Shape, NEW p \in Proc, NEW l \in DOMAIN Waits, Settling(p, l)
  PROVE CallsOK' /\ attempt' \in Attempts /\ entry' \in Entries
<1> USE DEF Shape, AttemptTypeOK
<1>1. CASE Continue(p, "threw") /\ UNCHANGED <<attempt, entry>>
  BY <1>1, Resumes DEF Labels, Writing
<1>2. CASE Leaves(p, l) /\ UNCHANGED <<attempt, entry>>
  BY <1>2, Leaving
<1>3. CASE /\ entry' = [Disarmed EXCEPT !.result = attempt.reason]
           /\ Leaves(p, l) /\ UNCHANGED attempt
  BY <1>3, Leaving, Answered
<1>4. CASE /\ entry' = Disarmed
           /\ Transition("exited", Outcome(p))
           /\ Journal(p, "exited", Outcome(p), Waits[l])
  <2>1. CallsOK'
    BY <1>4, Journals, Answered, Steps DEF Types
  <2>2. entry' \in Entries
    BY <1>4, Answered
  <2>3. attempt' \in Attempts
    BY <1>4, Answered, Transitions DEF States, Stopped, Reasons, Nothing
  <2> QED
    BY <2>1, <2>2, <2>3
<1> QED
  BY <1>1, <1>2, <1>3, <1>4 DEF Settling

LEMMA SettleShape ==
  ASSUME Shape, NEW p \in Proc, NEW l \in DOMAIN Waits, Settle(p, l)
  PROVE Shape'
<1>1. CallsOK' /\ attempt' \in Attempts /\ entry' \in Entries
  BY SettlingOK DEF Settle
<1> QED
  BY <1>1 DEF Settle, Shape, AttemptTypeOK, CallsOK, history

LEMMA StoppedRejectedShape ==
  ASSUME Shape, NEW p \in Proc, StoppedRejected(p)
  PROVE Shape'
<1>1. CallsOK' /\ attempt' \in Attempts /\ entry' \in Entries
  BY Steps, SettlingOK DEF StoppedRejected
<1> QED
  BY <1>1, Steps, Rejections DEF StoppedRejected

LEMMA SettledLandsShape ==
  ASSUME Shape, NEW p \in Proc, NEW l \in DOMAIN Waits, SettledLands(p, l)
  PROVE Shape'
<1>1. CallsOK'
  BY Leaving DEF SettledLands
<1>2. entry' \in Entries
  BY Answered DEF SettledLands
<1>3. lines' \in Seq(Lines)
  BY Steps, Landing DEF SettledLands
<1> QED
  BY <1>1, <1>2, <1>3 DEF SettledLands, Shape, AttemptTypeOK, CallsOK, history

LEMMA ThrowShape ==
  ASSUME Shape, NEW p \in Proc, NEW l \in Labels,
         Rejected(p, l), Continue(p, "threw"), UNCHANGED <<attempt, entry>>
  PROVE Shape'
<1>1. CallsOK'
  BY Resumes DEF Labels, Writing
<1> QED
  BY <1>1, Rejections DEF Shape, AttemptTypeOK

LEMMA StopsShape ==
  ASSUME Shape, NEW p \in Proc, NEW r \in {"cancelled", "timed-out"}, Stops(p, r),
         hasty' \in BOOLEAN
  PROVE Shape'
<1>1. CASE Continue(p, "done") /\ UNCHANGED <<attempt, entry>>
  <2>1. CallsOK'
    BY <1>1, Resumes DEF Labels, Writing
  <2> QED
    BY <1>1, <2>1 DEF Stops, Shape, AttemptTypeOK, CallsOK
<1>2. CASE entry.live /\ entry' = [Disarmed EXCEPT !.forced = r] /\ attempt.state \notin Stopped
  <2>1. entry' \in Entries
    BY <1>2, Answered, Entered
  <2>2. CASE Transition("stopping", Nothing) /\ Journal(p, "stopping", Nothing, "journal stopping")
    <3>1. CallsOK' /\ attempt' \in Attempts
      BY <2>2, Journals, Transitions DEF Labels, Types, States, Stopped, Nothing
    <3> QED
      BY <3>1, <2>1 DEF Stops, Shape, AttemptTypeOK, CallsOK
  <2>3. CASE Call(p, "signal") /\ UNCHANGED attempt
    <3>1. CallsOK'
      BY <2>3, Drives DEF Labels, Writing
    <3> QED
      BY <2>3, <3>1, <2>1 DEF Stops, Shape, AttemptTypeOK, CallsOK
  <2> QED
    BY <1>2, <2>2, <2>3 DEF Stops
<1> QED
  BY <1>1, <1>2 DEF Stops

LEMMA StoppingLandsShape == ASSUME Shape, NEW p \in Proc, StoppingLands(p) PROVE Shape'
<1>1. CallsOK'
  BY Drives DEF StoppingLands, Labels, Writing
<1>2. lines' \in Seq(Lines)
  BY Landing DEF StoppingLands, Writing
<1> QED
  BY <1>1, <1>2 DEF StoppingLands, Shape, AttemptTypeOK, CallsOK, history

LEMMA SignalReturnsShape == ASSUME Shape, NEW p \in Proc, SignalReturns(p) PROVE Shape'
<1>1. CallsOK'
  BY Drives DEF SignalReturns, Labels, Writing
<1> QED
  BY <1>1 DEF SignalReturns, Signalled, Shape, AttemptTypeOK, CallsOK, history

\* dispose, from the runtime's confirmation on.
LEMMA LeaveOK ==
  ASSUME Shape, NEW c \in BOOLEAN, Leave(c)
  PROVE CallsOK' /\ entry' \in Entries /\ thrown' \in BOOLEAN
<1>1. CallsOK'
  BY Procs, Resumes DEF Leave, Labels, Writing
<1>2. entry' \in Entries
  BY Entered DEF Leave, Shape, AttemptTypeOK
<1> QED
  BY <1>1, <1>2 DEF Leave, Shape, AttemptTypeOK

LEMMA DisposedOK ==
  ASSUME Shape, NEW c \in BOOLEAN, Disposed(c)
  PROVE CallsOK' /\ attempt' \in Attempts /\ entry' \in Entries /\ thrown' \in BOOLEAN
<1>1. CASE attempt.state = "exited"
  <2>1. attempt.reason \in Reasons
    BY <1>1 DEF Shape, AttemptTypeOK, Attempts, Stopped
  <2>2. [type |-> "disposed", reason |-> attempt.reason, removed |-> c] \in Lines
    BY <2>1 DEF Lines, Types
  <2>3. CallsOK'
    BY <1>1, <2>2, Procs, Writes DEF Disposed, Labels
  <2>4. attempt' \in Attempts
    BY <1>1, <2>1, Transitions DEF Disposed, States, Stopped, Reasons, Nothing
  <2> QED
    BY <1>1, <2>3, <2>4 DEF Disposed, Shape, AttemptTypeOK
<1>2. CASE attempt.state # "exited"
  BY <1>2, LeaveOK DEF Disposed, Shape, AttemptTypeOK
<1> QED
  BY <1>1, <1>2

LEMMA FailedStartLandsShape == ASSUME Shape, FailedStartLands PROVE Shape'
<1>1. lines' \in Seq(Lines)
  BY Procs, Landing DEF FailedStartLands, Writing
<1>2. CallsOK'
  BY Procs, Drives DEF FailedStartLands, Labels, Writing
<1> QED
  BY <1>1, <1>2 DEF FailedStartLands, Shape, AttemptTypeOK, CallsOK, history

LEMMA RemovedShape ==
  ASSUME Shape, RemoveSkipped \/ RemoveRejects \/ InspectReturns \/ InspectUnanswered
  PROVE Shape'
<1>1. \E c \in BOOLEAN : Disposed(c)
  BY DEF RemoveSkipped, RemoveRejects, InspectReturns, InspectUnanswered
<1>2. CallsOK' /\ attempt' \in Attempts /\ entry' \in Entries /\ thrown' \in BOOLEAN
  BY <1>1, DisposedOK
<1>3. CASE RemoveSkipped \/ InspectReturns
  BY <1>2, <1>3 DEF RemoveSkipped, InspectReturns, Shape, AttemptTypeOK, CallsOK
<1>4. CASE RemoveRejects
  BY <1>2, <1>4 DEF RemoveRejects, Shape, AttemptTypeOK, CallsOK, Nothing
<1>5. CASE InspectUnanswered
  BY <1>2, <1>5 DEF InspectUnanswered, Shape, AttemptTypeOK, CallsOK
<1> QED
  BY <1>3, <1>4, <1>5

LEMMA DisposedLandsShape == ASSUME Shape, DisposedLands PROVE Shape'
<1>1. lines' \in Seq(Lines)
  BY Procs, Landing DEF DisposedLands, Writing
<1>2. CallsOK'
  BY Procs, Resumes DEF DisposedLands, Labels, Writing
<1> QED
  BY <1>1, <1>2 DEF DisposedLands, Shape, AttemptTypeOK, CallsOK, history

LEMMA DisposedResumesShape == ASSUME Shape, DisposedResumes PROVE Shape'
<1>1. note[Supervisor].removed \in BOOLEAN
  <2>1. note[Supervisor] \in Lines \cup {NoNote}
    BY Procs DEF Shape, AttemptTypeOK
  <2>2. NoNote.removed = FALSE
    BY DEF NoNote
  <2>3. \A n \in Lines : n.removed \in BOOLEAN
    BY DEF Lines
  <2> QED
    BY <2>1, <2>2, <2>3
<1>2. CallsOK' /\ entry' \in Entries /\ thrown' \in BOOLEAN
  BY <1>1, LeaveOK DEF DisposedResumes
<1> QED
  BY <1>2 DEF DisposedResumes, Shape, AttemptTypeOK, CallsOK

LEMMA BoxExitsShape == ASSUME Shape, BoxExits PROVE Shape'
<1>1. CallsOK'
  BY Stays DEF BoxExits
<1> QED
  BY <1>1 DEF BoxExits, Shape, AttemptTypeOK, CallsOK, history

LEMMA DiesShape == ASSUME Shape, Dies PROVE Shape'
<1>1. CallsOK'
  BY DEF Dies, Idle, NoNotes, NoHandles, CallsOK, Noted, Labels, Writing
<1>2. entry' \in Entries
  BY DEF Dies, NoEntry, Entries
<1> QED
  BY <1>1, <1>2 DEF Dies, Shape, AttemptTypeOK, CallsOK, history

LEMMA RecoverShape == ASSUME Shape, Recover PROVE Shape'
<1>1. CallsOK'
  BY Stays DEF Recover
<1>2. RecoverOutcome \in {"unmentioned", "settled", "exited-not-disposed", "running", "lost"}
  BY DEF RecoverOutcome
<1>3. report' \in Reports
  BY <1>2 DEF Recover, Reports
<1>4. [type |-> "recovered", reason |-> "lost", removed |-> FALSE] \in Lines
  BY Sets DEF Types, Reasons
<1>5. lines' \in Seq(Lines)
  BY <1>4 DEF Recover, Shape, AttemptTypeOK
<1> QED
  BY <1>1, <1>3, <1>5 DEF Recover, Shape, AttemptTypeOK, CallsOK, history

LEMMA RecoverUnreadableShape == ASSUME Shape, RecoverUnreadable PROVE Shape'
<1>1. CallsOK'
  BY Stays DEF RecoverUnreadable
<1>2. report' \in Reports
  BY DEF RecoverUnreadable, Reports
<1> QED
  BY <1>1, <1>2 DEF RecoverUnreadable, Shape, AttemptTypeOK, CallsOK, history

-----------------------------------------------------------------------------
\* The induction.

LEMMA ShapeStep == Shape /\ [AttemptNext]_attemptVars => Shape'
<1> SUFFICES ASSUME Shape, [AttemptNext]_attemptVars PROVE Shape'
  OBVIOUS
<1>1. CASE SupervisorCall
  BY <1>1, CreateAttemptShape, StartShape, CollectShape, DisposeShape DEF SupervisorCall
<1>2. CASE SupervisorStep
  <2>1. ASSUME NEW l \in {"collect", "reclaim"}, Settle(Supervisor, l) \/ SettledLands(Supervisor, l)
        PROVE Shape'
    BY <2>1, Procs, Steps, SettleShape, SettledLandsShape
  <2> QED
    BY <1>2, <2>1, CreatedLandsShape, CreateReturnsShape, StartingLandsShape, FailedStartLandsShape,
       BoxStartsShape, StartReturnsShape, StartTooLateShape, StartedLandsShape, KillReturnsShape,
       RemoveReturnsShape, RemovedShape, DisposedLandsShape, DisposedResumesShape
       DEF SupervisorStep
<1>3. CASE TimerFires
  BY <1>3, Procs, StopsShape DEF TimerFires, Shape, AttemptTypeOK
<1>4. ASSUME NEW p \in Canceller, Cancel(p) PROVE Shape'
  BY <1>4, Procs, StopsShape DEF Cancel, BeforeStarted, Shape, AttemptTypeOK
<1>5. ASSUME NEW p \in Canceller \cup {Clock}, StopStep(p) PROVE Shape'
  BY <1>5, Procs, Steps, StoppingLandsShape, SignalReturnsShape, SettleShape, SettledLandsShape
     DEF StopStep
<1>6. CASE Failure
  <2>1. ASSUME NEW p \in Proc, NEW l \in DOMAIN Waits, SettledRejected(p, l) PROVE Shape'
    BY <2>1, Steps, ThrowShape DEF SettledRejected
  <2>2. ASSUME NEW p \in Canceller \cup {Clock}, StopRejected(p) PROVE Shape'
    BY <2>1, <2>2, Procs, Steps, ThrowShape, StoppedRejectedShape
       DEF StopRejected, StoppingRejected, Labels
  <2>3. ASSUME SettledRejected(Supervisor, "collect") \/ SettledRejected(Supervisor, "reclaim")
        PROVE Shape'
    BY <2>1, <2>3, Procs, Steps
  <2> QED
    BY <1>6, <2>2, <2>3, CreatedRejectedShape, CreateRejectsShape, StartingRejectedShape,
       FailedStartRejectedShape, StartRejectsShape, StartedRejectedShape, RemovedShape,
       DisposedRejectedShape DEF Failure
<1>7. CASE BoxExits \/ Dies \/ Recover \/ RecoverUnreadable
  BY <1>7, BoxExitsShape, DiesShape, RecoverShape, RecoverUnreadableShape
<1>8. CASE UNCHANGED attemptVars
  <2>1. CallsOK'
    BY <1>8, Stays DEF attemptVars
  <2> QED
    BY <1>8, <2>1 DEF attemptVars, history, Shape, AttemptTypeOK, CallsOK
<1> QED
  BY <1>1, <1>2, <1>3, <1>4, <1>5, <1>6, <1>7, <1>8 DEF AttemptNext

\* A step of another caller does not move the supervisor, and lets go of
\* nothing.
LEMMA OthersHold ==
  ASSUME Shape, Holding, NEW p \in Canceller \cup {Clock},
         Stops(p, "cancelled") \/ Stops(p, "timed-out") \/ StopStep(p) \/ StopRejected(p)
  PROVE Holding'
<1> USE Procs DEF Shape, AttemptTypeOK, Entries
<1>0. CASE \E l \in {"stop", "again"} : Settle(p, l) \/ SettledLands(p, l) \/ SettledRejected(p, l)
  <2>1. UNCHANGED <<at[Supervisor], held[Supervisor], note[Supervisor]>>
    BY <1>0 DEF Settle, Settling, SettledLands, SettledRejected, Leaves, Journal, JournalLine, Call,
                Continue, Goto
  <2>2. UNCHANGED <<entry.live, entry.handle, box, up, thrown, unanswered>>
    BY <1>0 DEF Settle, Settling, SettledLands, SettledRejected, Rejected, Disarmed, history
  <2> QED
    BY <2>1, <2>2 DEF Holding, Gone
<1>1. CASE StoppedRejected(p)
  <2>1. UNCHANGED <<at[Supervisor], held[Supervisor], note[Supervisor]>>
    BY <1>1 DEF StoppedRejected, Settling, Leaves, Journal, JournalLine, Call, Continue, Goto
  <2>2. UNCHANGED <<entry.live, entry.handle, box, up, thrown, unanswered>>
    BY <1>1 DEF StoppedRejected, Settling, Rejected, Disarmed
  <2> QED
    BY <2>1, <2>2 DEF Holding, Gone
<1>2. CASE Stops(p, "cancelled") \/ Stops(p, "timed-out") \/ StoppingLands(p) \/ SignalReturns(p)
           \/ StoppingRejected(p)
  <2>1. UNCHANGED <<at[Supervisor], held[Supervisor], note[Supervisor]>>
    BY <1>2 DEF Stops, StoppingLands, SignalReturns, StoppingRejected, Journal, JournalLine, Call,
                Continue, Goto
  <2>2. UNCHANGED <<entry.live, entry.handle, up, thrown, unanswered>>
    BY <1>2 DEF Stops, StoppingLands, SignalReturns, StoppingRejected, Rejected, Disarmed, history
  <2>3. box = Nothing <=> box' = Nothing
    BY <1>2 DEF Stops, StoppingLands, SignalReturns, StoppingRejected, Rejected, Signalled, Nothing
  <2> QED
    BY <2>1, <2>2, <2>3 DEF Holding, Gone
<1> QED
  BY <1>0, <1>1, <1>2 DEF StopStep, StopRejected

\* The last line of an attempt that has exited, and who begins to write it.
LEMMA DisposedSays ==
  ASSUME Shape, NEW c \in BOOLEAN, Disposed(c), attempt.state = "exited"
  PROVE /\ attempt' = [state |-> "disposed", reason |-> attempt.reason]
        /\ at' = [at EXCEPT ![Supervisor] = "journal disposed"]
        /\ at'[Supervisor] = "journal disposed"
        /\ \A p \in Proc \ {Supervisor} : note'[p] = note[p] /\ at'[p] = at[p]
        /\ note'[Supervisor].reason = attempt.reason
        /\ note'[Supervisor].removed = c
        /\ UNCHANGED <<entry, thrown>>
<1>1. /\ attempt' = [state |-> "disposed", reason |-> attempt.reason]
      /\ at' = [at EXCEPT ![Supervisor] = "journal disposed"]
      /\ note' = [note EXCEPT ![Supervisor] =
                    [type |-> "disposed", reason |-> attempt.reason, removed |-> c]]
      /\ UNCHANGED <<entry, thrown>>
  BY Zenon DEF Disposed, Transition, JournalLine, Goto
<1> QED
  BY <1>1, Procs DEF Shape, AttemptTypeOK

\* What dispose makes of the runtime's answer holds, if the answer is true.
LEMMA DisposedHolds ==
  ASSUME Shape, Holding, up, at[Supervisor] \in {"remove", "inspect"},
         NEW c \in BOOLEAN, Disposed(c), c => Gone', up' = up, Gone' \/ entry.handle
  PROVE Holding'
<1> USE Procs DEF Shape, AttemptTypeOK, Entries
<1>1. CASE attempt.state = "exited"
  <2>1. /\ at'[Supervisor] = "journal disposed" /\ note'[Supervisor].removed = c
        /\ UNCHANGED <<entry, thrown>>
    BY <1>1, DisposedSays
  <2> QED
    BY <2>1 DEF Holding
<1>2. CASE attempt.state # "exited"
  <2>1. /\ at'[Supervisor] = "done" /\ entry'.handle = entry.handle
        /\ thrown' = (thrown \/ ~c)
    BY <1>2 DEF Disposed, Leave, Continue, Goto
  <2> QED
    BY <2>1 DEF Holding, Concluded
<1> QED
  BY <1>1, <1>2

LEMMA HoldingStep == Shape /\ Holding /\ [AttemptNext]_attemptVars => Holding'
<1> SUFFICES ASSUME Shape, Holding, [AttemptNext]_attemptVars PROVE Holding'
  OBVIOUS
<1> USE Procs DEF Shape, AttemptTypeOK, Entries, Holding, Gone, Concluded, At, Goto, Call, Continue,
              Journal, JournalLine
<1>1. CASE CreateAttempt
  BY <1>1 DEF CreateAttempt, history
<1>2. CASE CreatedLands
  BY <1>2 DEF CreatedLands, Lands, history
<1>3. CASE CreateReturns
  BY <1>3 DEF CreateReturns, Nothing, history
<1>4. CASE CreateRejects
  BY <1>4 DEF CreateRejects, StartFailed, history
<1>5. CASE StartingLands
  BY <1>5 DEF StartingLands, Lands, history
<1>6. CASE Start
  BY <1>6 DEF Start, history
<1>7. CASE BoxStarts
  <2>1. box # Nothing /\ box' # Nothing
    BY <1>7 DEF BoxStarts, Nothing
  <2>2. at[Supervisor] = "start" /\ at'[Supervisor] = "starting"
    BY <1>7 DEF BoxStarts
  <2>3. UNCHANGED <<entry, up, thrown, unanswered>>
    BY <1>7 DEF BoxStarts, history
  <2> QED
    BY <2>1, <2>2, <2>3
<1>8. CASE StartRejects
  BY <1>8 DEF StartRejects, history
<1>9. CASE StartReturns
  BY <1>9 DEF StartReturns, history
<1>10. CASE StartTooLate
  BY <1>10 DEF StartTooLate, history
<1>11. CASE StartedLands
  BY <1>11 DEF StartedLands, Lands, history
<1>12. CASE Collect
  BY <1>12 DEF Collect, history
<1>13. CASE Dispose
  BY <1>13 DEF Dispose, MayDispose, Disarmed, history
<1>14. CASE KillReturns
  BY <1>14 DEF KillReturns, Signalled, Nothing, history
<1>15. CASE RemoveReturns
  BY <1>15 DEF RemoveReturns, history
<1>16. CASE FailedStartLands
  BY <1>16 DEF FailedStartLands, Lands, history
<1>17. CASE RemoveSkipped \/ RemoveRejects \/ InspectReturns \/ InspectUnanswered
  <2>1. up /\ at[Supervisor] \in {"remove", "inspect"} /\ up' = up
    BY <1>17 DEF RemoveSkipped, RemoveRejects, InspectReturns, InspectUnanswered
  <2>2. CASE RemoveSkipped
    <3>1. Gone' /\ Disposed(TRUE)
      BY <2>2 DEF RemoveSkipped
    <3> QED
      BY <2>1, <3>1, DisposedHolds
  <2>3. CASE RemoveRejects
    <3>1. Disposed(FALSE) /\ (Gone' \/ entry.handle)
      BY <2>3 DEF RemoveRejects
    <3> QED
      BY <2>1, <3>1, DisposedHolds
  <2>4. CASE InspectReturns
    <3>1. /\ Disposed(box = Nothing) /\ (box = Nothing => Gone')
          /\ (Gone' \/ entry.handle) /\ (box = Nothing) \in BOOLEAN
      BY <2>4 DEF InspectReturns
    <3> QED
      BY <2>1, <3>1, DisposedHolds
  <2>5. CASE InspectUnanswered
    <3>1. Gone' /\ Disposed(TRUE)
      BY <2>5 DEF InspectUnanswered
    <3> QED
      BY <2>1, <3>1, DisposedHolds
  <2> QED
    BY <1>17, <2>2, <2>3, <2>4, <2>5
<1>18. CASE DisposedLands
  BY <1>18 DEF DisposedLands, Lands, history
<1>29. CASE DisposedResumes
  BY <1>29 DEF DisposedResumes, Leave
<1>19. CASE CreatedRejected
  BY <1>19 DEF CreatedRejected, Rejected
<1>20. CASE StartingRejected
  BY <1>20 DEF StartingRejected, StartFailed, Rejected
<1>21. CASE FailedStartRejected
  BY <1>21 DEF FailedStartRejected, Rejected
<1>22. CASE StartedRejected
  BY <1>22 DEF StartedRejected, Rejected
<1>23. CASE DisposedRejected
  BY <1>23 DEF DisposedRejected, Rejected
<1>24. ASSUME NEW l \in {"collect", "reclaim"},
              Settle(Supervisor, l) \/ SettledLands(Supervisor, l) \/ SettledRejected(Supervisor, l)
       PROVE Holding'
  <2>0. Waits[l] \in {"journal exited", "journal reclaimed"} /\ Onward[l] \in {"collected", "remove"}
    <3>1. Waits["collect"] = "journal exited" /\ Waits["reclaim"] = "journal reclaimed"
      BY DEF Waits
    <3>2. Onward["collect"] = "collected" /\ Onward["reclaim"] = "remove"
      BY DEF Onward
    <3> QED
      BY <3>1, <3>2
  <2>1. at[Supervisor] \in {"collect", "reclaim", "journal exited", "journal reclaimed"}
    <3>1. at[Supervisor] \in {l, Waits[l]}
      BY <1>24 DEF Settle, SettledLands, SettledRejected, Lands, Rejected
    <3> QED
      BY <3>1, <2>0
  <2>2. at'[Supervisor] \in {"threw", "collected", "remove", "journal exited", "journal reclaimed"}
    <3>1. Leaves(Supervisor, l) => at'[Supervisor] = Onward[l]
      BY Zenon DEF Leaves
    <3>2. CASE Settle(Supervisor, l)
      <4>1. \/ Continue(Supervisor, "threw")
            \/ Leaves(Supervisor, l)
            \/ Journal(Supervisor, "exited", Outcome(Supervisor), Waits[l])
        BY <3>2, Zenon DEF Settle, Settling
      <4>2. CASE Continue(Supervisor, "threw")
        BY <4>2
      <4>3. CASE Leaves(Supervisor, l)
        BY <4>3, <2>0, <3>1
      <4>4. CASE Journal(Supervisor, "exited", Outcome(Supervisor), Waits[l])
        <5>1. at'[Supervisor] = Waits[l]
          BY <4>4, Zenon
        <5> QED
          BY <5>1, <2>0
      <4> QED
        BY <4>1, <4>2, <4>3, <4>4
    <3>3. CASE SettledLands(Supervisor, l)
      BY <2>0, <3>1, <3>3 DEF SettledLands
    <3>4. CASE SettledRejected(Supervisor, l)
      BY <3>4 DEF SettledRejected
    <3> QED
      BY <1>24, <3>2, <3>3, <3>4
  <2>3. entry'.live = entry.live /\ entry'.handle = entry.handle
    <3>1. CASE Settle(Supervisor, l)
      BY <3>1 DEF Settle, Settling, Disarmed
    <3>2. CASE SettledLands(Supervisor, l)
      BY <3>2 DEF SettledLands
    <3>3. CASE SettledRejected(Supervisor, l)
      BY <3>3 DEF SettledRejected
    <3> QED
      BY <1>24, <3>1, <3>2, <3>3
  <2>4. UNCHANGED <<box, up, thrown, unanswered>>
    BY <1>24 DEF Settle, SettledLands, SettledRejected, Rejected, history
  <2>5. at'[Supervisor] = "remove" => held'[Supervisor] = entry.handle
    <3>1. at'[Supervisor] = "remove" => Leaves(Supervisor, l) /\ l = "reclaim"
      <4>1. \/ Continue(Supervisor, "threw") \/ Leaves(Supervisor, l)
            \/ Journal(Supervisor, "exited", Outcome(Supervisor), Waits[l])
        BY <1>24, Zenon DEF Settle, Settling, SettledLands, SettledRejected
      <4>2. Continue(Supervisor, "threw") => at'[Supervisor] = "threw"
        OBVIOUS
      <4>3. Journal(Supervisor, "exited", Outcome(Supervisor), Waits[l])
              => at'[Supervisor] = Waits[l]
        BY Zenon
      <4>4. l = "collect" /\ Leaves(Supervisor, l) => at'[Supervisor] = "collected"
        <5>1. Onward["collect"] = "collected" /\ "collect" # "reclaim"
          BY DEF Onward
        <5> QED
          BY <5>1 DEF Leaves
      <4>5. l = "collect" \/ l = "reclaim"
        OBVIOUS
      <4>6. at'[Supervisor] = "remove" => Leaves(Supervisor, l)
        <5>1. Waits[l] # "remove"
          BY <2>0
        <5> HIDE DEF Continue, Journal
        <5> QED
          BY <5>1, <4>1, <4>2, <4>3
      <4> QED
        BY <4>4, <4>5, <4>6
    <3> QED
      BY <3>1 DEF Leaves
  <2> QED
    BY <2>1, <2>2, <2>3, <2>4, <2>5
<1>25. CASE TimerFires \/ (\E p \in Canceller : Cancel(p))
       \/ (\E p \in Canceller \cup {Clock} : StopStep(p) \/ StopRejected(p))
  BY <1>25, OthersHold DEF TimerFires, Cancel
<1>26. CASE BoxExits
  BY <1>26 DEF BoxExits, calls, history, Nothing
<1>27. CASE Dies \/ Recover \/ RecoverUnreadable
  BY <1>27 DEF Dies, Recover, RecoverUnreadable
<1>28. CASE UNCHANGED attemptVars
  BY <1>28 DEF attemptVars, calls, history
<1> QED
  BY <1>1, <1>2, <1>3, <1>4, <1>5, <1>6, <1>7, <1>8, <1>9, <1>10, <1>11, <1>12, <1>13,
     <1>14, <1>15, <1>16, <1>17, <1>18, <1>19, <1>20, <1>21, <1>22, <1>23, <1>24, <1>25,
     <1>26, <1>27, <1>28, <1>29 DEF AttemptNext, SupervisorCall, SupervisorStep, Failure

\* Type correctness: the attempt, the entry, the journal and the report are
\* what the code can make of them, and a stopped attempt names why.
THEOREM AttemptTypeCorrect == AttemptSpec => []AttemptTypeOK
<1>1. AttemptInit => Shape
  BY InitShape
<1>2. Shape /\ [AttemptNext]_attemptVars => Shape'
  BY ShapeStep
<1>3. Shape => AttemptTypeOK
  BY DEF Shape
<1> QED
  BY <1>1, <1>2, <1>3, PTL DEF AttemptSpec

\* However appends and driver calls fail and however stopping and disposing
\* overlap, the adapter forgets no sandbox without throwing it at its caller,
\* but one the runtime holds and failed to answer about: for any number of
\* cancellers.
THEOREM NoSandboxForgotten == AttemptSpec => []SandboxIsHeld
<1>1. AttemptInit => Shape /\ Holding
  BY InitShape
<1>2. Shape /\ Holding /\ [AttemptNext]_attemptVars => (Shape /\ Holding)'
  BY ShapeStep, HoldingStep
<1>3. Shape /\ Holding => SandboxIsHeld
  BY DEF Holding, SandboxIsHeld, Gone
<1> QED
  BY <1>1, <1>2, <1>3, PTL DEF AttemptSpec

-----------------------------------------------------------------------------
\* The journal agrees with the attempt.

\* The supervisor's awaits in which a cancel is hasty, but for a failed start.
Early == {"idle", "journal created", "create", "journal starting", "ready", "start", "starting"}

\* Nobody but the supervisor has begun.
Quiet == \A p \in Canceller \cup {Clock} : at[p] = "idle"

\* What a line says of the end is what the attempt says.
Told(line) == line.type \in Stopped => attempt.state \in Stopped /\ line.reason = attempt.reason

\* Nothing stops the attempt before it has started; and every end that is in
\* the journal, or on its way there, is the one the attempt came to.
Agreeing == /\ up /\ at[Supervisor] \in Early => /\ Quiet /\ ~entry.timer
                                                 /\ attempt.state \notin Stopped
            /\ \A i \in DOMAIN lines : Told(lines[i])
            /\ \A p \in Proc : at[p] \in Writing => Told(note[p])

OutcomeInv == hasty \/ Agreeing

\* What a step may do to an attempt whose journal agrees with it.
EndStays == attempt.state \in Stopped => attempt'.state \in Stopped /\ attempt'.reason = attempt.reason
EarlyStays == up' /\ at'[Supervisor] \in Early =>
                (Quiet /\ ~entry.timer /\ attempt.state \notin Stopped)'
LinesFollow == \A i \in DOMAIN lines' :
                 \/ i \in DOMAIN lines /\ lines'[i] = lines[i]
                 \/ \E p \in Proc : at[p] \in Writing /\ lines'[i] = note[p]
                 \/ lines'[i].type \notin Stopped
NotesFollow == \A p \in Proc : at'[p] \in Writing =>
                 \/ at[p] \in Writing /\ note'[p] = note[p]
                 \/ Told(note[p])'

LEMMA Agrees ==
  ASSUME Agreeing, EndStays, EarlyStays, LinesFollow, NotesFollow
  PROVE Agreeing'
<1>1. \A l : Told(l) => Told(l)'
  BY DEF EndStays, Told
<1>2. \A i \in DOMAIN lines' : Told(lines[i])'
  BY <1>1 DEF Agreeing, LinesFollow, Told
<1>3. \A p \in Proc : at'[p] \in Writing => Told(note[p])'
  BY <1>1 DEF Agreeing, NotesFollow
<1> QED
  BY <1>2, <1>3 DEF Agreeing, EarlyStays

LEMMA Appended ==
  ASSUME lines \in Seq(Lines), NEW x, lines' = Append(lines, x)
  PROVE \A i \in DOMAIN lines' : (i \in DOMAIN lines /\ lines'[i] = lines[i]) \/ lines'[i] = x
OBVIOUS

LEMMA LandingFollows ==
  ASSUME Shape, NEW p \in Proc, NEW l \in Writing, Lands(p, l) PROVE LinesFollow
<1>1. lines \in Seq(Lines) /\ lines' = Append(lines, note[p]) /\ at[p] \in Writing
  BY DEF Lands, At, Shape, AttemptTypeOK
<1> QED
  BY <1>1, Appended DEF LinesFollow

LEMMA SameLines == lines' = lines => LinesFollow
BY DEF LinesFollow

\* How a caller goes on, when it does not begin to write.
LEMMA Speechless ==
  ASSUME Shape, NEW p \in Proc, NEW l \in Labels \ Writing, Call(p, l) \/ Continue(p, l)
  PROVE NotesFollow /\ at' = [at EXCEPT ![p] = l]
BY DEF NotesFollow, Call, Continue, Goto, Shape, AttemptTypeOK

LEMMA Speaks ==
  ASSUME Shape, NEW p \in Proc, NEW t \in Types, NEW r \in Reasons \cup {Nothing}, NEW l \in Labels,
         Journal(p, t, r, l),
         t \in Stopped => attempt'.state \in Stopped /\ attempt'.reason = r
  PROVE NotesFollow /\ at' = [at EXCEPT ![p] = l]
BY DEF NotesFollow, Journal, JournalLine, Goto, Shape, AttemptTypeOK, Told

\* The supervisor's steps before the attempt has started, and out of them.
LEMMA EarlyGoesOn ==
  ASSUME Shape, Agreeing, up, at[Supervisor] \in Early, NEW l \in Labels,
         at' = [at EXCEPT ![Supervisor] = l],
         l \in Early => ~entry'.timer /\ attempt'.state \notin Stopped
  PROVE EarlyStays /\ EndStays
<1>1. Quiet'
  BY Procs DEF Agreeing, Quiet, Shape, AttemptTypeOK
<1>2. at'[Supervisor] = l
  BY Procs DEF Shape, AttemptTypeOK
<1> QED
  BY <1>1, <1>2 DEF EarlyStays, EndStays, Agreeing

\* Past them no step leads back.
LEMMA LateGoesOn ==
  ASSUME at'[Supervisor] \notin Early PROVE EarlyStays
BY DEF EarlyStays

LEMMA EarlyAgrees ==
  ASSUME Shape, Agreeing,
         \/ CreateAttempt \/ CreatedLands \/ CreatedRejected \/ CreateReturns \/ CreateRejects
         \/ StartingLands \/ StartingRejected \/ Start \/ BoxStarts \/ StartRejects
         \/ StartReturns \/ StartTooLate
  PROVE Agreeing'
<1> USE Procs
<1>0. /\ Early \subseteq Labels /\ Writing \subseteq Labels
      /\ up /\ at[Supervisor] \in Early
      /\ attempt.state \notin Stopped /\ ~entry.timer
  BY DEF Early, Writing, Labels, Agreeing, CreateAttempt, CreatedLands, CreatedRejected,
         CreateReturns, CreateRejects, StartingLands, StartingRejected, Start, BoxStarts,
         StartRejects, StartReturns, StartTooLate, Lands, Rejected, At
<1>1. CASE CreateAttempt
  <2>1. NotesFollow /\ at' = [at EXCEPT ![Supervisor] = "journal created"]
    BY <1>1, Speaks DEF CreateAttempt, Types, Labels, Stopped
  <2>2. EarlyStays /\ EndStays
    BY <1>0, <1>1, <2>1, EarlyGoesOn DEF CreateAttempt, Labels, Shape, AttemptTypeOK, Entries
  <2> QED
    BY <1>1, <2>1, <2>2, SameLines, Agrees DEF CreateAttempt
<1>2. CASE CreatedLands
  <2>1. NotesFollow /\ at' = [at EXCEPT ![Supervisor] = "create"]
    BY <1>2, Speechless DEF CreatedLands, Labels, Writing
  <2>2. EarlyStays /\ EndStays
    BY <1>0, <1>2, <2>1, EarlyGoesOn DEF CreatedLands, Labels
  <2>3. LinesFollow
    BY <1>2, LandingFollows DEF CreatedLands, Writing
  <2> QED
    BY <2>1, <2>2, <2>3, Agrees
<1>3. CASE CreatedRejected
  <2>1. NotesFollow /\ at' = [at EXCEPT ![Supervisor] = "threw"]
    BY <1>3, Speechless DEF CreatedRejected, Labels, Writing
  <2>2. EarlyStays /\ EndStays
    BY <1>0, <1>3, <2>1, EarlyGoesOn DEF CreatedRejected, Labels
  <2> QED
    BY <1>3, <2>1, <2>2, SameLines, Agrees DEF CreatedRejected, Rejected
<1>4. CASE CreateReturns
  <2>1. NotesFollow /\ at' = [at EXCEPT ![Supervisor] = "journal starting"]
    BY <1>4, Speaks DEF CreateReturns, Types, Labels, Stopped
  <2>2. attempt'.state \notin Stopped /\ ~entry'.timer
    BY <1>0, <1>4 DEF CreateReturns, Transition, Stopped, Shape, AttemptTypeOK, Entries
  <2>3. EarlyStays /\ EndStays
    BY <1>0, <2>1, <2>2, EarlyGoesOn DEF Labels
  <2> QED
    BY <1>4, <2>1, <2>3, SameLines, Agrees DEF CreateReturns
<1>5. CASE CreateRejects \/ StartingRejected
  <2>0. StartFailed /\ lines' = lines
    BY <1>5 DEF CreateRejects, StartingRejected, Rejected
  <2>1. NotesFollow /\ at' = [at EXCEPT ![Supervisor] = "journal failed start"]
    BY <2>0, Speaks DEF StartFailed, Transition, Types, Labels, Stopped, Reasons
  <2>2. EarlyStays /\ EndStays
    BY <1>0, <2>1, EarlyGoesOn DEF Labels, Early
  <2> QED
    BY <2>0, <2>1, <2>2, SameLines, Agrees
<1>6. CASE StartingLands
  <2>1. NotesFollow /\ at' = [at EXCEPT ![Supervisor] = "ready"]
    BY <1>6, Speechless DEF StartingLands, Labels, Writing
  <2>2. EarlyStays /\ EndStays
    BY <1>0, <1>6, <2>1, EarlyGoesOn DEF StartingLands, Labels
  <2>3. LinesFollow
    BY <1>6, LandingFollows DEF StartingLands, Writing
  <2> QED
    BY <2>1, <2>2, <2>3, Agrees
<1>7. CASE Start \/ BoxStarts \/ StartRejects \/ StartTooLate
  <2>0. UNCHANGED <<attempt, entry, lines>>
    BY <1>7 DEF Start, BoxStarts, StartRejects, StartTooLate
  <2>1. \E l \in Labels \ Writing :
          NotesFollow /\ at' = [at EXCEPT ![Supervisor] = l]
    BY <1>7, Speechless DEF Start, BoxStarts, StartRejects, StartTooLate, Labels, Writing
  <2>2. EarlyStays /\ EndStays
    BY <1>0, <2>0, <2>1, EarlyGoesOn
  <2> QED
    BY <2>0, <2>1, <2>2, SameLines, Agrees
<1>8. CASE StartReturns
  <2>1. NotesFollow /\ at' = [at EXCEPT ![Supervisor] = "journal started"]
    BY <1>8, Speaks DEF StartReturns, Types, Labels, Stopped
  <2>2. EarlyStays /\ EndStays
    BY <1>0, <2>1, EarlyGoesOn DEF Labels, Early
  <2> QED
    BY <1>8, <2>1, <2>2, SameLines, Agrees DEF StartReturns
<1> QED
  BY <1>1, <1>2, <1>3, <1>4, <1>5, <1>6, <1>7, <1>8

\* The supervisor's steps once the attempt has started, or will not.
LEMMA LateAgrees ==
  ASSUME Shape, Agreeing,
         \/ FailedStartLands \/ FailedStartRejected \/ StartedLands \/ StartedRejected
         \/ Collect \/ Dispose \/ KillReturns \/ RemoveReturns \/ RemoveSkipped \/ RemoveRejects
         \/ InspectReturns \/ InspectUnanswered
         \/ DisposedLands \/ DisposedResumes \/ DisposedRejected
  PROVE Agreeing'
<1> USE Procs
<1>1. CASE Collect \/ Dispose \/ KillReturns \/ RemoveReturns \/ DisposedRejected
           \/ DisposedResumes \/ FailedStartRejected \/ StartedRejected
  <2>0. UNCHANGED <<attempt, lines>>
    BY <1>1 DEF Collect, Dispose, KillReturns, RemoveReturns, DisposedRejected, DisposedResumes,
                FailedStartRejected, StartedRejected, Rejected
  <2>1. \E l \in Labels \ (Writing \cup Early) :
          NotesFollow /\ at' = [at EXCEPT ![Supervisor] = l]
    BY <1>1, Speechless DEF Collect, Dispose, KillReturns, RemoveReturns, DisposedRejected,
       DisposedResumes, Leave, FailedStartRejected, StartedRejected, Labels, Writing, Early
  <2>2. EarlyStays /\ EndStays
    BY <2>0, <2>1, LateGoesOn DEF EndStays, Shape, AttemptTypeOK
  <2> QED
    BY <2>0, <2>1, <2>2, SameLines, Agrees
<1>2. CASE StartedLands \/ DisposedLands \/ FailedStartLands
  <2>0. UNCHANGED attempt
    BY <1>2 DEF StartedLands, DisposedLands, FailedStartLands
  <2>1. \E l \in Labels \ (Writing \cup Early) :
          NotesFollow /\ at' = [at EXCEPT ![Supervisor] = l]
    BY <1>2, Speechless DEF StartedLands, DisposedLands, FailedStartLands, Labels, Writing, Early
  <2>2. EarlyStays /\ EndStays
    BY <2>0, <2>1, LateGoesOn DEF EndStays, Shape, AttemptTypeOK
  <2>3. LinesFollow
    BY <1>2, LandingFollows DEF StartedLands, DisposedLands, FailedStartLands, Writing
  <2> QED
    BY <2>1, <2>2, <2>3, Agrees
<1>3. ASSUME NEW c \in BOOLEAN, Disposed(c)
      PROVE NotesFollow /\ EarlyStays /\ EndStays
  <2>1. CASE attempt.state = "exited"
    <3>1. attempt' = [state |-> "disposed", reason |-> attempt.reason]
      BY <1>3, <2>1, DisposedSays
    <3>2. /\ at' = [at EXCEPT ![Supervisor] = "journal disposed"]
          /\ \A p \in Proc \ {Supervisor} : note'[p] = note[p]
          /\ note'[Supervisor].reason = attempt.reason
      BY <1>3, <2>1, DisposedSays
    <3>3. NotesFollow
      BY <3>1, <3>2 DEF NotesFollow, Told, Stopped, Shape, AttemptTypeOK
    <3>4. EarlyStays
      BY <3>2, LateGoesOn DEF Early, Shape, AttemptTypeOK
    <3> QED
      BY <3>1, <3>3, <3>4 DEF EndStays, Stopped
  <2>2. CASE attempt.state # "exited"
    <3>1. NotesFollow /\ at' = [at EXCEPT ![Supervisor] = "done"] /\ UNCHANGED attempt
      BY <1>3, <2>2, Speechless DEF Disposed, Leave, Labels, Writing
    <3>2. EarlyStays
      BY <3>1, LateGoesOn DEF Early, Shape, AttemptTypeOK
    <3> QED
      BY <3>1, <3>2 DEF EndStays
  <2> QED
    BY <2>1, <2>2
<1>4. CASE RemoveSkipped \/ RemoveRejects \/ InspectReturns \/ InspectUnanswered
  <2>1. (\E c \in BOOLEAN : Disposed(c)) /\ lines' = lines
    BY <1>4 DEF RemoveSkipped, RemoveRejects, InspectReturns, InspectUnanswered
  <2> QED
    BY <1>3, <2>1, SameLines, Agrees
<1> QED
  BY <1>1, <1>2, <1>4

\* Where #settle is called from, waits and goes on to.
LEMMA Waiting ==
  \A l \in {"collect", "reclaim", "stop", "again"} :
    /\ l \in DOMAIN Waits
    /\ Waits[l] \in {"journal exited", "journal reclaimed", "journal stopped",
                      "journal stopped again"}
    /\ Onward[l] \in {"collected", "remove", "done"}
<1>1. /\ Waits["collect"] = "journal exited" /\ Onward["collect"] = "collected"
      /\ Waits["reclaim"] = "journal reclaimed" /\ Onward["reclaim"] = "remove"
      /\ Waits["stop"] = "journal stopped" /\ Onward["stop"] = "done"
      /\ Waits["again"] = "journal stopped again" /\ Onward["again"] = "done"
  BY DEF Waits, Onward
<1> QED
  BY <1>1, Steps

\* #settle: whoever ends the attempt names the one reason that is journalled.
LEMMA SettleAgrees ==
  ASSUME Shape, Agreeing, NEW p \in Proc, NEW l \in DOMAIN Waits,
         \/ Settle(p, l) \/ SettledLands(p, l) \/ SettledRejected(p, l)
         \/ l = "again" /\ StoppedRejected(p)
  PROVE Agreeing'
<1> USE Procs, Steps
<1>0. /\ at[p] # "idle" /\ at[Supervisor] \notin Early
      /\ Waits[l] \notin Early /\ Onward[l] \notin Early
  <2>1. /\ l \in {"collect", "reclaim", "stop", "again"}
        /\ Waits[l] \in {"journal exited", "journal reclaimed", "journal stopped",
                          "journal stopped again"}
        /\ Onward[l] \in {"collected", "remove", "done"}
        /\ Waits["stop"] = "journal stopped"
    BY Waiting DEF Waits
  <2>2. up /\ at[p] \in {l, Waits[l], "journal stopped"}
    BY <2>1 DEF Settle, SettledLands, SettledRejected, StoppedRejected, Lands, Rejected, At
  <2>3. at[p] \notin Early
    BY <2>1, <2>2 DEF Early
  <2>4. p # Supervisor => ~Quiet
    BY <2>3 DEF Quiet, Early, Proc
  <2> QED
    BY <2>1, <2>2, <2>3, <2>4 DEF Agreeing, Early
<1>1. ASSUME NEW m \in Labels \ Early, at' = [at EXCEPT ![p] = m] PROVE EarlyStays
  BY <1>0, <1>1, LateGoesOn DEF Shape, AttemptTypeOK
<1>2. Leaves(p, l) => NotesFollow /\ EarlyStays
  <2>1. Leaves(p, l) => NotesFollow /\ at' = [at EXCEPT ![p] = Onward[l]]
    BY Speechless DEF Leaves
  <2> QED
    BY <1>0, <1>1, <2>1
<1>3. Continue(p, "threw") => NotesFollow /\ EarlyStays
  <2>1. Continue(p, "threw") => NotesFollow /\ at' = [at EXCEPT ![p] = "threw"]
    BY Speechless DEF Labels, Writing
  <2> QED
    BY <1>1, <2>1 DEF Labels, Early
<1>4. CASE SettledLands(p, l)
  BY <1>2, <1>4, LandingFollows, Agrees DEF SettledLands, EndStays
<1>5. CASE SettledRejected(p, l)
  BY <1>3, <1>5, SameLines, Agrees DEF SettledRejected, Rejected, EndStays
<1>6. CASE Settling(p, l) /\ lines' = lines
  <2>1. CASE UNCHANGED attempt /\ (Continue(p, "threw") \/ Leaves(p, l))
    BY <1>2, <1>3, <1>6, <2>1, SameLines, Agrees DEF EndStays
  <2>2. CASE /\ attempt.state \notin Stopped
             /\ Transition("exited", Outcome(p))
             /\ Journal(p, "exited", Outcome(p), Waits[l])
    <3>1. NotesFollow /\ at' = [at EXCEPT ![p] = Waits[l]]
      BY <2>2, Answered, Speaks DEF Transition, Types, Stopped
    <3>2. EarlyStays /\ EndStays
      BY <1>0, <1>1, <2>2, <3>1 DEF EndStays
    <3> QED
      BY <1>6, <3>1, <3>2, SameLines, Agrees
  <2> QED
    BY <1>6, <2>1, <2>2 DEF Settling
<1> QED
  BY <1>4, <1>5, <1>6 DEF Settle, StoppedRejected, Rejected

\* The others only move an attempt that has started, unless they are hasty.
LEMMA StopsAgrees ==
  ASSUME Shape, Agreeing, at[Supervisor] \notin Early, NEW p \in Canceller \cup {Clock},
         \/ Stops(p, "cancelled") \/ Stops(p, "timed-out")
         \/ StoppingLands(p) \/ SignalReturns(p) \/ StoppingRejected(p)
  PROVE Agreeing'
<1> USE Procs
<1>1. EarlyStays
  BY LateGoesOn DEF Stops, StoppingLands, SignalReturns, StoppingRejected, Journal, JournalLine,
     Call, Continue, Goto, Shape, AttemptTypeOK
<1>2. CASE StoppingLands(p)
  <2>1. NotesFollow
    BY <1>2, Speechless DEF StoppingLands, Labels, Writing
  <2> QED
    BY <1>1, <1>2, <2>1, LandingFollows, Agrees DEF StoppingLands, EndStays, Writing
<1>3. CASE SignalReturns(p)
  <2>1. NotesFollow
    BY <1>3, Speechless DEF SignalReturns, Labels, Writing
  <2> QED
    BY <1>1, <1>3, <2>1, SameLines, Agrees DEF SignalReturns, EndStays
<1>4. CASE StoppingRejected(p)
  <2>1. NotesFollow
    BY <1>4, Speechless DEF StoppingRejected, Labels, Writing
  <2> QED
    BY <1>1, <1>4, <2>1, SameLines, Agrees DEF StoppingRejected, Rejected, EndStays
<1>5. CASE Stops(p, "cancelled") \/ Stops(p, "timed-out")
  <2>1. /\ lines' = lines
        /\ \/ Continue(p, "done") /\ UNCHANGED attempt
           \/ Call(p, "signal") /\ UNCHANGED attempt
           \/ /\ attempt.state \notin Stopped
              /\ Journal(p, "stopping", Nothing, "journal stopping")
    BY <1>5 DEF Stops
  <2>2. NotesFollow /\ EndStays
    BY <2>1, Speechless, Speaks DEF EndStays, Labels, Writing, Types, Stopped
  <2> QED
    BY <1>1, <2>1, <2>2, SameLines, Agrees
<1> QED
  BY <1>2, <1>3, <1>4, <1>5

LEMMA OutcomeStep == Shape /\ OutcomeInv /\ [AttemptNext]_attemptVars => OutcomeInv'
<1> SUFFICES ASSUME Shape, OutcomeInv, [AttemptNext]_attemptVars, ~hasty' PROVE Agreeing'
  BY DEF OutcomeInv
<1> USE Procs
<1>0. ~hasty /\ Agreeing
  <2>1. hasty => hasty'
    BY DEF AttemptNext, attemptVars, history, SupervisorCall, SupervisorStep, StopStep, StopRejected, Failure,
       CreateAttempt, CreatedLands, CreatedRejected, CreateReturns, CreateRejects, StartingLands,
       StartingRejected, FailedStartRejected, Start, BoxStarts, StartRejects, StartReturns,
       StartTooLate, StartedLands, StartedRejected, Settle, SettledLands, SettledRejected, Collect,
       Cancel, TimerFires, StoppingLands, StoppingRejected, StoppedRejected, SignalReturns,
       FailedStartLands, Dispose, KillReturns, RemoveReturns, RemoveSkipped, RemoveRejects,
       InspectReturns, InspectUnanswered, DisposedLands, DisposedResumes, DisposedRejected,
       BoxExits, Dies, Recover, RecoverUnreadable, Rejected
  <2> QED
    BY <2>1 DEF OutcomeInv
<1>1. ASSUME NEW p \in Proc, NEW l \in {"collect", "reclaim", "stop", "again"},
             \/ Settle(p, l) \/ SettledLands(p, l) \/ SettledRejected(p, l)
             \/ l = "again" /\ StoppedRejected(p)
      PROVE Agreeing'
  BY <1>0, <1>1, Steps, SettleAgrees
<1>2. CASE SupervisorCall
  BY <1>0, <1>2, EarlyAgrees, LateAgrees DEF SupervisorCall
<1>3. CASE SupervisorStep
  BY <1>0, <1>1, <1>3, EarlyAgrees, LateAgrees DEF SupervisorStep
<1>4. ASSUME NEW p \in Canceller \cup {Clock}, up, at[p] # "idle" PROVE at[Supervisor] \notin Early
  BY <1>0, <1>4 DEF Agreeing, Quiet
<1>5. CASE TimerFires
  <2>1. at[Supervisor] \notin Early
    BY <1>0, <1>5 DEF TimerFires, At, Agreeing
  <2> QED
    BY <1>0, <1>5, <2>1, StopsAgrees DEF TimerFires
<1>6. ASSUME NEW p \in Canceller, Cancel(p) PROVE Agreeing'
  <2>1. at[Supervisor] \notin Early
    BY <1>6 DEF Cancel, BeforeStarted, Early
  <2> QED
    BY <1>0, <1>6, <2>1, StopsAgrees DEF Cancel
<1>7. ASSUME NEW p \in Canceller \cup {Clock}, StopStep(p) \/ StopRejected(p) PROVE Agreeing'
  <2>1. CASE StoppingLands(p) \/ SignalReturns(p) \/ StoppingRejected(p)
    <3>1. at[Supervisor] \notin Early
      BY <1>4, <2>1 DEF StoppingLands, SignalReturns, StoppingRejected, Lands, Rejected, At
    <3> QED
      BY <1>0, <2>1, <3>1, StopsAgrees
  <2> QED
    BY <1>1, <1>7, <2>1 DEF StopStep, StopRejected
<1>8. CASE Failure
  BY <1>0, <1>1, <1>7, <1>8, EarlyAgrees, LateAgrees DEF Failure
<1>9. CASE Recover
  <2>1. lines' = lines \/ lines' = Append(lines, [type |-> "recovered", reason |-> "lost", removed |-> FALSE])
    BY <1>9 DEF Recover
  <2>2. LinesFollow
    <3>1. lines \in Seq(Lines)
      BY DEF Shape, AttemptTypeOK
    <3>2. CASE lines' = Append(lines, [type |-> "recovered", reason |-> "lost", removed |-> FALSE])
      BY <3>1, <3>2, Appended DEF LinesFollow, Stopped
    <3> QED
      BY <2>1, <3>2, SameLines
  <2>3. UNCHANGED <<attempt, entry, calls, up>>
    BY <1>9 DEF Recover
  <2>4. EndStays /\ EarlyStays /\ NotesFollow
    BY <1>0, <2>3 DEF EndStays, EarlyStays, NotesFollow, Agreeing, Quiet, calls
  <2> QED
    BY <1>0, <2>2, <2>4, Agrees
<1>10. CASE BoxExits \/ RecoverUnreadable \/ UNCHANGED attemptVars
  <2>1. UNCHANGED <<attempt, calls, lines>> /\ (~entry.timer => ~entry'.timer)
    BY <1>10 DEF BoxExits, RecoverUnreadable, attemptVars
  <2>0. up' = up
    BY <1>10 DEF BoxExits, RecoverUnreadable, attemptVars
  <2>2. EndStays /\ EarlyStays /\ NotesFollow
    BY <1>0, <2>0, <2>1 DEF EndStays, EarlyStays, NotesFollow, Agreeing, Quiet, calls
  <2> QED
    BY <1>0, <2>1, <2>2, SameLines, Agrees
<1>11. CASE Dies
  <2>1. attempt' = attempt /\ lines' = lines /\ ~up' /\ \A p \in Proc : at'[p] \notin Writing
    BY <1>11 DEF Dies, Idle, Writing
  <2>2. EndStays /\ EarlyStays /\ NotesFollow
    BY <2>1 DEF EndStays, EarlyStays, NotesFollow
  <2> QED
    BY <1>0, <2>1, <2>2, SameLines, Agrees
<1> QED
  BY <1>2, <1>3, <1>5, <1>6, <1>7, <1>8, <1>9, <1>10, <1>11 DEF AttemptNext

\* However many cancellers, the clock and dispose end an attempt at once, its
\* exited and disposed lines name one outcome: only a cancel that comes before
\* the start is over can make them disagree.
THEOREM OneOutcomeTold == AttemptSpec => []OneOutcome
<1>1. AttemptInit => Shape /\ OutcomeInv
  <2>1. ASSUME AttemptInit PROVE Agreeing
    <3>1. /\ \A p \in Proc : at[p] = "idle"
          /\ lines = <<>> /\ ~entry.timer /\ attempt.state \notin Stopped
      BY <2>1 DEF AttemptInit, Idle, NoEntry, Stopped
    <3>2. Quiet
      BY <3>1, Procs DEF Quiet
    <3>3. "idle" \notin Writing
      BY DEF Writing
    <3> QED
      BY <3>1, <3>2, <3>3 DEF Agreeing
  <2> QED
    BY <2>1, InitShape DEF OutcomeInv
<1>2. Shape /\ OutcomeInv /\ [AttemptNext]_attemptVars => (Shape /\ OutcomeInv)'
  BY ShapeStep, OutcomeStep
<1>3. OutcomeInv => OneOutcome
  BY DEF OutcomeInv, Agreeing, Told, OneOutcome
<1> QED
  BY <1>1, <1>2, <1>3, PTL DEF AttemptSpec

-----------------------------------------------------------------------------
\* What the journal says was removed is not running.

\* The awaits of the supervisor before the runtime has made a sandbox.
Unmade == {"idle", "journal created", "create"}

\* What a line says of the removal is true, and no sandbox is made after it.
Honest(line) == line.removed => Gone /\ (up => at[Supervisor] \notin Unmade)

Confirmed == /\ \A i \in DOMAIN lines : Honest(lines[i])
             /\ \A p \in Proc : at[p] \in Writing => Honest(note[p])

\* Only a process that has died is recovered from.
Unreported == up => report.outcome = Nothing

SettledInv == Confirmed /\ Unreported /\ SettledIsStopped

\* What a step may do that says nothing new of the removal, or the truth.
GoneStays == Gone /\ (up => at[Supervisor] \notin Unmade)
               => Gone' /\ (up' => at'[Supervisor] \notin Unmade)
LinesHonest == \A i \in DOMAIN lines' :
                 \/ i \in DOMAIN lines /\ lines'[i] = lines[i]
                 \/ \E p \in Proc : at[p] \in Writing /\ lines'[i] = note[p]
                 \/ ~lines'[i].removed
NotesHonest == \A p \in Proc : at'[p] \in Writing =>
                 \/ at[p] \in Writing /\ note'[p] = note[p]
                 \/ ~note'[p].removed
                 \/ Honest(note[p])'

LEMMA Confirms ==
  ASSUME Confirmed, GoneStays, LinesHonest, NotesHonest
  PROVE Confirmed'
<1>1. \A line : Honest(line) => Honest(line)'
  BY DEF Honest, GoneStays
<1>2. \A i \in DOMAIN lines' : Honest(lines[i])'
  BY <1>1 DEF Confirmed, LinesHonest, Honest
<1>3. \A p \in Proc : at'[p] \in Writing => Honest(note[p])'
  BY <1>1 DEF Confirmed, NotesHonest, Honest
<1> QED
  BY <1>2, <1>3 DEF Confirmed

LEMMA LandingHonest ==
  ASSUME Shape, NEW p \in Proc, NEW l \in Writing, Lands(p, l) PROVE LinesHonest
<1>1. lines \in Seq(Lines) /\ lines' = Append(lines, note[p]) /\ at[p] \in Writing
  BY DEF Lands, At, Shape, AttemptTypeOK
<1> QED
  BY <1>1, Appended DEF LinesHonest

LEMMA Mute ==
  ASSUME Shape, NEW p \in Proc, NEW l \in Labels \ Writing, Call(p, l) \/ Continue(p, l)
  PROVE NotesHonest /\ at' = [at EXCEPT ![p] = l]
BY DEF NotesHonest, Call, Continue, Goto, Shape, AttemptTypeOK

LEMMA Says ==
  ASSUME Shape, NEW p \in Proc, NEW t \in Types, NEW r \in Reasons \cup {Nothing},
         NEW l \in Labels, Journal(p, t, r, l)
  PROVE NotesHonest /\ at' = [at EXCEPT ![p] = l]
BY DEF NotesHonest, Journal, JournalLine, Goto, Shape, AttemptTypeOK

\* The steps that leave the runtime's answer alone, one caller at a time.
LEMMA Unmoved ==
  ASSUME Shape, NEW p \in Proc, NEW l \in Labels, at' = [at EXCEPT ![p] = l], up' = up,
         Gone => Gone',
         p = Supervisor => l \notin Unmade \/ (up /\ at[Supervisor] \in Unmade)
  PROVE GoneStays
BY Procs DEF GoneStays, Shape, AttemptTypeOK

LEMMA SupervisorConfirms ==
  ASSUME Shape, Confirmed,
         \/ SupervisorCall
         \/ CreatedLands \/ CreateReturns \/ StartingLands \/ FailedStartLands
         \/ BoxStarts \/ StartReturns \/ StartTooLate \/ StartedLands
         \/ KillReturns \/ RemoveReturns \/ DisposedLands \/ DisposedResumes
         \/ CreatedRejected \/ CreateRejects \/ StartingRejected \/ FailedStartRejected
         \/ StartRejects \/ StartedRejected \/ DisposedRejected
  PROVE Confirmed'
<1> USE Procs
<1>1. CASE CreateAttempt \/ CreateReturns \/ StartReturns \/ CreateRejects \/ StartingRejected
  <2>1. /\ lines' = lines /\ up' = up /\ up
        /\ Gone => (Gone' \/ at[Supervisor] \in Unmade)
    <3>1. CASE CreateAttempt \/ StartReturns \/ StartingRejected
      <4>1. UNCHANGED <<lines, box, unanswered, up>> /\ up
        BY <3>1 DEF CreateAttempt, StartReturns, StartingRejected, Rejected, At, history
      <4> QED
        BY <4>1 DEF Gone
    <3>2. CASE CreateReturns \/ CreateRejects
      BY <3>2 DEF CreateReturns, CreateRejects, At, Unmade
    <3> QED
      BY <1>1, <3>1, <3>2
  <2>2. \E l \in Labels : /\ NotesHonest /\ at' = [at EXCEPT ![Supervisor] = l]
                          /\ l \notin Unmade \/ at[Supervisor] \in Unmade
    <3>1. CASE CreateAttempt
      BY <3>1, Says DEF CreateAttempt, At, Types, Labels, Unmade
    <3>2. CASE CreateReturns
      BY <3>2, Says DEF CreateReturns, Types, Labels, Unmade
    <3>3. CASE StartReturns
      BY <3>3, Says DEF StartReturns, Types, Labels, Unmade
    <3>4. CASE CreateRejects \/ StartingRejected
      BY <3>4, Says DEF CreateRejects, StartingRejected, StartFailed, Types, Labels, Reasons, Unmade
    <3> QED
      BY <1>1, <3>1, <3>2, <3>3, <3>4
  <2>3. GoneStays
    BY <2>1, <2>2 DEF GoneStays, Shape, AttemptTypeOK
  <2> QED
    BY <2>1, <2>2, <2>3, Confirms DEF LinesHonest
<1>2. CASE CreatedLands \/ StartingLands \/ StartedLands \/ FailedStartLands \/ DisposedLands
  <2>1. LinesHonest
    BY <1>2, LandingHonest DEF CreatedLands, StartingLands, StartedLands, FailedStartLands,
       DisposedLands, Writing
  <2>2. UNCHANGED <<box, up, unanswered>>
    BY <1>2 DEF CreatedLands, StartingLands, StartedLands, FailedStartLands, DisposedLands, history
  <2>3. CASE CreatedLands
    <3>1. NotesHonest /\ at' = [at EXCEPT ![Supervisor] = "create"] /\ up
          /\ at[Supervisor] \in Unmade
      BY <2>3, Mute DEF CreatedLands, Lands, At, Labels, Writing, Unmade
    <3> QED
      BY <2>1, <2>2, <3>1, Unmoved, Confirms DEF Labels, Gone
  <2>4. CASE StartingLands \/ StartedLands \/ FailedStartLands \/ DisposedLands
    <3>1. \E l \in Labels \ Unmade : NotesHonest /\ at' = [at EXCEPT ![Supervisor] = l]
      BY <2>4, Mute DEF StartingLands, StartedLands, FailedStartLands, DisposedLands, Labels,
         Writing, Unmade
    <3> QED
      BY <2>1, <2>2, <3>1, Unmoved, Confirms DEF Gone
  <2> QED
    BY <1>2, <2>3, <2>4
<1>3. CASE \/ Start \/ Collect \/ Dispose \/ BoxStarts \/ StartTooLate \/ KillReturns
           \/ RemoveReturns \/ StartRejects \/ DisposedResumes \/ CreatedRejected
           \/ FailedStartRejected \/ StartedRejected \/ DisposedRejected
  <2>1. lines' = lines /\ up' = up
    BY <1>3 DEF Start, Collect, Dispose, BoxStarts, StartTooLate, KillReturns, RemoveReturns,
       StartRejects, DisposedResumes, CreatedRejected, FailedStartRejected, StartedRejected,
       DisposedRejected, Rejected
  <2>2. Gone => Gone'
    BY <1>3 DEF Start, Collect, Dispose, BoxStarts, StartTooLate, KillReturns, RemoveReturns,
       StartRejects, DisposedResumes, CreatedRejected, FailedStartRejected, StartedRejected,
       DisposedRejected, Rejected, Signalled, Gone, Nothing, history
  <2>3. \E l \in Labels \ Unmade : NotesHonest /\ at' = [at EXCEPT ![Supervisor] = l]
    <3>1. CASE Start \/ Collect \/ Dispose
      BY <3>1, Mute DEF Start, Collect, Dispose, Labels, Writing, Unmade
    <3>2. CASE \/ BoxStarts \/ StartTooLate \/ KillReturns \/ RemoveReturns \/ StartRejects
               \/ DisposedResumes \/ CreatedRejected \/ FailedStartRejected \/ StartedRejected
               \/ DisposedRejected
      BY <3>2, Mute DEF BoxStarts, StartTooLate, KillReturns, RemoveReturns, StartRejects,
         DisposedResumes, Leave, CreatedRejected, FailedStartRejected, StartedRejected,
         DisposedRejected, Labels, Writing, Unmade
    <3> QED
      BY <1>3, <3>1, <3>2
  <2> QED
    BY <2>1, <2>2, <2>3, Unmoved, Confirms DEF LinesHonest
<1> QED
  BY <1>1, <1>2, <1>3 DEF SupervisorCall

\* The line that dispose writes says what it has been told.
LEMMA DisposedConfirms ==
  ASSUME Shape, Confirmed, NEW c \in BOOLEAN, Disposed(c), c => Gone',
         Gone => Gone', up' = up, lines' = lines
  PROVE Confirmed'
<1> USE Procs
<1>1. CASE attempt.state = "exited"
  <2>2. /\ \A p \in Proc \ {Supervisor} : note'[p] = note[p] /\ at'[p] = at[p]
        /\ note'[Supervisor].removed = c
    BY <1>1, DisposedSays
  <2>3. at'[Supervisor] = "journal disposed" /\ "journal disposed" \notin Unmade
    BY <1>1, DisposedSays DEF Unmade
  <2>4. NotesHonest
    BY <2>2, <2>3 DEF NotesHonest, Honest
  <2>5. GoneStays
    BY <2>3 DEF GoneStays
  <2> QED
    BY <2>4, <2>5, Confirms DEF LinesHonest
<1>2. CASE attempt.state # "exited"
  <2>1. NotesHonest /\ at' = [at EXCEPT ![Supervisor] = "done"]
    BY <1>2, Mute DEF Disposed, Leave, Labels, Writing
  <2> QED
    BY <2>1, Unmoved, Confirms DEF LinesHonest, Labels, Unmade
<1> QED
  BY <1>1, <1>2

LEMMA RemovedConfirms ==
  ASSUME Shape, Holding, Confirmed,
         RemoveSkipped \/ RemoveRejects \/ InspectReturns \/ InspectUnanswered
  PROVE Confirmed'
<1>1. /\ up' = up /\ lines' = lines /\ (Gone => Gone')
  <2>1. CASE RemoveSkipped \/ InspectReturns
    <3>1. UNCHANGED <<lines, box, unanswered, up>>
      BY <2>1 DEF RemoveSkipped, InspectReturns
    <3> QED
      BY <3>1 DEF Gone
  <2>2. CASE RemoveRejects
    BY <2>2 DEF RemoveRejects, Gone
  <2>3. CASE InspectUnanswered
    BY <2>3 DEF InspectUnanswered, Gone
  <2> QED
    BY <2>1, <2>2, <2>3
<1>2. \E c \in BOOLEAN : Disposed(c) /\ (c => Gone')
  <2>1. CASE RemoveSkipped
    BY <2>1 DEF RemoveSkipped, At, Holding, Gone
  <2>2. CASE RemoveRejects
    BY <2>2 DEF RemoveRejects
  <2>3. CASE InspectReturns
    BY <2>3 DEF InspectReturns, Gone
  <2>4. CASE InspectUnanswered
    BY <2>4 DEF InspectUnanswered, Gone
  <2> QED
    BY <2>1, <2>2, <2>3, <2>4
<1> QED
  BY <1>1, <1>2, DisposedConfirms

LEMMA SettleConfirms ==
  ASSUME Shape, Confirmed, NEW p \in Proc, NEW l \in {"collect", "reclaim", "stop", "again"},
         \/ Settle(p, l) \/ SettledLands(p, l) \/ SettledRejected(p, l)
         \/ l = "again" /\ StoppedRejected(p)
  PROVE Confirmed'
<1> USE Procs, Steps
<1>1. /\ l \in DOMAIN Waits /\ Waits[l] \in Labels \ Unmade /\ Onward[l] \in Labels \ Unmade
  BY Waiting DEF Unmade
<1>2. UNCHANGED <<box, unanswered, up>>
  BY DEF Settle, SettledLands, SettledRejected, StoppedRejected, Rejected, history
<1>3. LinesHonest
  <2>1. CASE SettledLands(p, l)
    BY <1>1, <2>1, LandingHonest DEF SettledLands
  <2>2. CASE Settle(p, l) \/ SettledRejected(p, l) \/ StoppedRejected(p)
    BY <2>2 DEF Settle, SettledRejected, StoppedRejected, Rejected, LinesHonest
  <2> QED
    BY <2>1, <2>2
<1>4. \E m \in Labels \ Unmade : NotesHonest /\ at' = [at EXCEPT ![p] = m]
  <2>1. \/ Continue(p, "threw") \/ Leaves(p, l)
        \/ Journal(p, "exited", Outcome(p), Waits[l])
    BY DEF Settle, Settling, SettledLands, SettledRejected, StoppedRejected
  <2>2. CASE Continue(p, "threw")
    BY <2>2, Mute DEF Labels, Writing, Unmade
  <2>3. CASE Leaves(p, l)
    BY <1>1, <2>3, Mute DEF Leaves
  <2>4. CASE Journal(p, "exited", Outcome(p), Waits[l])
    BY <1>1, <2>4, Answered, Says DEF Types
  <2> QED
    BY <2>1, <2>2, <2>3, <2>4
<1> QED
  BY <1>2, <1>3, <1>4, Unmoved, Confirms DEF Gone

LEMMA StopsConfirms ==
  ASSUME Shape, Confirmed, NEW p \in Canceller \cup {Clock},
         \/ Stops(p, "cancelled") \/ Stops(p, "timed-out")
         \/ StoppingLands(p) \/ SignalReturns(p) \/ StoppingRejected(p)
  PROVE Confirmed'
<1> USE Procs
<1>1. up' = up /\ (Gone => Gone')
  <2>1. CASE Stops(p, "cancelled") \/ Stops(p, "timed-out")
    <3>1. UNCHANGED <<box, unanswered, up>>
      BY <2>1 DEF Stops
    <3> QED
      BY <3>1 DEF Gone
  <2>2. CASE StoppingLands(p) \/ StoppingRejected(p)
    <3>1. UNCHANGED <<box, unanswered, up>>
      BY <2>2 DEF StoppingLands, StoppingRejected, Rejected, history
    <3> QED
      BY <3>1 DEF Gone
  <2>3. CASE SignalReturns(p)
    BY <2>3 DEF SignalReturns, Signalled, Gone, history, Nothing
  <2> QED
    BY <2>1, <2>2, <2>3
<1>2. LinesHonest
  <2>1. CASE StoppingLands(p)
    BY <2>1, LandingHonest DEF StoppingLands, Writing
  <2>2. CASE Stops(p, "cancelled") \/ Stops(p, "timed-out")
    <3>1. lines' = lines
      BY <2>2 DEF Stops
    <3> QED
      BY <3>1 DEF LinesHonest
  <2>3. CASE SignalReturns(p) \/ StoppingRejected(p)
    BY <2>3 DEF SignalReturns, StoppingRejected, Rejected, LinesHonest
  <2> QED
    BY <2>1, <2>2, <2>3
<1>3. \E l \in Labels : NotesHonest /\ at' = [at EXCEPT ![p] = l]
  <2>0. {"signal", "stop", "threw", "done"} \subseteq Labels \ Writing
    BY DEF Labels, Writing
  <2>1. CASE StoppingLands(p) \/ SignalReturns(p) \/ StoppingRejected(p)
    <3>1. Call(p, "signal") \/ Call(p, "stop") \/ Continue(p, "threw")
      BY <2>1, Zenon DEF StoppingLands, SignalReturns, StoppingRejected
    <3> QED
      BY <2>0, <3>1, Mute
  <2>2. CASE Stops(p, "cancelled") \/ Stops(p, "timed-out")
    <3>1. \/ Continue(p, "done") \/ Call(p, "signal")
          \/ Journal(p, "stopping", Nothing, "journal stopping")
      BY <2>2, Zenon DEF Stops
    <3>2. CASE Continue(p, "done") \/ Call(p, "signal")
      BY <2>0, <3>2, Mute
    <3>3. CASE Journal(p, "stopping", Nothing, "journal stopping")
      BY <3>3, Says DEF Labels, Types
    <3> QED
      BY <3>1, <3>2, <3>3
  <2> QED
    BY <2>1, <2>2
<1> QED
  BY <1>1, <1>2, <1>3, Unmoved, Confirms

\* The steps of a live process: none of them reports.
Alive == \/ SupervisorCall \/ SupervisorStep \/ TimerFires \/ Failure
         \/ \E p \in Canceller : Cancel(p)
         \/ \E p \in Canceller \cup {Clock} : StopStep(p)

LEMMA AliveConfirms == ASSUME Shape, Holding, Confirmed, Alive PROVE Confirmed'
<1>1. ASSUME NEW p \in Canceller \cup {Clock}, StopStep(p) \/ StopRejected(p) PROVE Confirmed'
  BY <1>1, Procs, StopsConfirms, SettleConfirms DEF StopStep, StopRejected
<1>2. ASSUME TimerFires \/ \E p \in Canceller : Cancel(p) PROVE Confirmed'
  BY <1>2, StopsConfirms DEF TimerFires, Cancel
<1>3. ASSUME SupervisorCall \/ SupervisorStep \/ Failure PROVE Confirmed'
  BY <1>1, <1>3, Procs, SupervisorConfirms, SettleConfirms, RemovedConfirms
     DEF SupervisorStep, Failure
<1> QED
  BY <1>1, <1>2, <1>3 DEF Alive

LEMMA AliveReportsNothing == ASSUME Alive PROVE up /\ report' = report
<1>1. ASSUME NEW p, NEW l, Settle(p, l) \/ SettledLands(p, l) \/ SettledRejected(p, l)
      PROVE up /\ report' = report
  BY <1>1 DEF Settle, SettledLands, SettledRejected, Lands, Rejected, At
<1>2. ASSUME NEW p, \/ At(p, "idle") /\ (Stops(p, "cancelled") \/ Stops(p, "timed-out"))
                    \/ StoppingLands(p) \/ SignalReturns(p) \/ StoppingRejected(p)
                    \/ StoppedRejected(p)
      PROVE up /\ report' = report
  BY <1>2 DEF Stops, StoppingLands, SignalReturns, StoppingRejected, StoppedRejected, Lands,
     Rejected, At
<1>3. ASSUME NEW p, StopStep(p) \/ StopRejected(p) PROVE up /\ report' = report
  BY <1>1, <1>2, <1>3 DEF StopStep, StopRejected
<1>4. CASE TimerFires \/ \E p \in Canceller : Cancel(p)
  BY <1>2, <1>4 DEF TimerFires, Cancel
<1>5. CASE SupervisorCall
  BY <1>5 DEF SupervisorCall, CreateAttempt, Start, Collect, Dispose, MayDispose, At
<1>6. CASE SupervisorStep
  <2>1. CASE \/ CreatedLands \/ CreateReturns \/ StartingLands \/ FailedStartLands \/ BoxStarts
             \/ StartReturns \/ StartTooLate \/ StartedLands
    BY <2>1 DEF CreatedLands, CreateReturns, StartingLands, FailedStartLands, BoxStarts,
       StartReturns, StartTooLate, StartedLands, Lands, At
  <2>2. CASE \/ KillReturns \/ RemoveReturns \/ RemoveSkipped \/ InspectReturns
             \/ DisposedLands \/ DisposedResumes
    BY <2>2 DEF KillReturns, RemoveReturns, RemoveSkipped, InspectReturns, DisposedLands,
       DisposedResumes, Lands, At
  <2> QED
    BY <1>1, <1>6, <2>1, <2>2 DEF SupervisorStep
<1>7. CASE Failure
  <2>1. CASE \/ CreatedRejected \/ CreateRejects \/ StartingRejected \/ FailedStartRejected
             \/ StartRejects \/ StartedRejected \/ RemoveRejects \/ InspectUnanswered
             \/ DisposedRejected
    BY <2>1 DEF CreatedRejected, CreateRejects, StartingRejected, FailedStartRejected, StartRejects,
       StartedRejected, RemoveRejects, InspectUnanswered, DisposedRejected, Rejected, At
  <2> QED
    BY <1>1, <1>3, <1>7, <2>1 DEF Failure
<1> QED
  BY <1>3, <1>4, <1>5, <1>6, <1>7 DEF Alive

\* Recovery answers from what the journal says and the runtime has.
LEMMA RecoverSettles ==
  ASSUME Shape, Confirmed, Recover PROVE Confirmed' /\ SettledIsStopped'
<1>0. lines \in Seq(Lines) /\ ~up
  BY DEF Shape, AttemptTypeOK, Recover
<1>1. UNCHANGED <<at, note, box, up, unanswered>>
  BY DEF Recover, calls, history
<1>2. \/ lines' = lines
      \/ lines' = Append(lines, [type |-> "recovered", reason |-> "lost", removed |-> FALSE])
  BY DEF Recover
<1>3. LinesHonest
  <2>1. CASE lines' = Append(lines, [type |-> "recovered", reason |-> "lost", removed |-> FALSE])
    BY <1>0, <2>1, Appended DEF LinesHonest
  <2> QED
    BY <1>2, <2>1 DEF LinesHonest
<1>4. Confirmed'
  BY <1>1, <1>3, Confirms DEF GoneStays, NotesHonest, Gone
<1>5. ASSUME RecoverOutcome = "settled", box = "running"
      PROVE /\ lines' = lines /\ lines[Len(lines)].type = "disposed"
            /\ lines[Len(lines)].removed => unanswered
  <2>1. lines # <<>> /\ lines' = lines /\ lines[Len(lines)].type = "disposed"
    BY <1>5 DEF RecoverOutcome, Recover
  <2>2. Len(lines) \in DOMAIN lines
    BY <1>0, <2>1
  <2> QED
    BY <1>5, <2>1, <2>2 DEF Confirmed, Honest, Gone, Nothing
<1>6. report'.outcome = RecoverOutcome /\ report'.running = (box = "running")
  BY DEF Recover
<1> QED
  BY <1>1, <1>4, <1>5, <1>6 DEF SettledIsStopped

LEMMA SettledStep == Shape /\ Holding /\ SettledInv /\ [AttemptNext]_attemptVars => SettledInv'
<1> SUFFICES ASSUME Shape, Holding, SettledInv, [AttemptNext]_attemptVars PROVE SettledInv'
  OBVIOUS
<1>0. Confirmed /\ Unreported /\ SettledIsStopped
  BY DEF SettledInv
<1>1. CASE Recover
  <2>1. ~up'
    BY <1>1 DEF Recover
  <2> QED
    BY <1>0, <1>1, <2>1, RecoverSettles DEF SettledInv, Unreported
<1>2. CASE RecoverUnreadable \/ BoxExits \/ UNCHANGED attemptVars
  <2>1. UNCHANGED <<at, note, lines, up, unanswered>> /\ (box = Nothing => box' = Nothing)
    BY <1>2 DEF RecoverUnreadable, BoxExits, attemptVars, calls, history, Nothing
  <2>2. Confirmed'
    BY <1>0, <2>1, Confirms DEF GoneStays, LinesHonest, NotesHonest, Gone
  <2>3. report' = report \/ (report'.outcome = "unknown" /\ ~up)
    BY <1>2 DEF RecoverUnreadable, BoxExits, attemptVars
  <2> QED
    BY <1>0, <2>1, <2>2, <2>3 DEF SettledInv, SettledIsStopped, Unreported
<1>3. CASE Dies
  <2>1. UNCHANGED <<lines, box, unanswered, report>> /\ up /\ ~up'
        /\ \A p \in Proc : at'[p] \notin Writing
    BY <1>3 DEF Dies, Idle, Writing, history
  <2>2. Confirmed'
    BY <1>0, <2>1, Confirms DEF GoneStays, LinesHonest, NotesHonest, Gone
  <2> QED
    BY <1>0, <2>1, <2>2 DEF SettledInv, SettledIsStopped, Unreported, Nothing
<1>4. CASE Alive
  <2>1. up /\ report' = report
    BY <1>4, AliveReportsNothing
  <2>2. report'.outcome = Nothing
    BY <1>0, <2>1 DEF Unreported
  <2> QED
    BY <1>0, <1>4, <2>2, AliveConfirms DEF SettledInv, SettledIsStopped, Unreported, Nothing
<1> QED
  BY <1>1, <1>2, <1>3, <1>4 DEF AttemptNext, Alive

\* A process that finds "disposed" as the last word on an attempt takes it for
\* settled.  If its sandbox runs all the same, that very line says the removal
\* was not confirmed, however appends crossed and wherever the process before
\* died; or the runtime had failed to answer about the sandbox.
THEOREM SettledHasStopped == AttemptSpec => []SettledIsStopped
<1>1. AttemptInit => Shape /\ Holding /\ SettledInv
  <2>1. ASSUME AttemptInit PROVE SettledInv
    <3>1. lines = <<>> /\ report.outcome = Nothing /\ \A p \in Proc : at[p] \notin Writing
      BY <2>1 DEF AttemptInit, Idle, Writing
    <3> QED
      BY <3>1 DEF SettledInv, Confirmed, Unreported, SettledIsStopped, Nothing
  <2> QED
    BY <2>1, InitShape
<1>2. Shape /\ Holding /\ SettledInv /\ [AttemptNext]_attemptVars => (Shape /\ Holding /\ SettledInv)'
  BY ShapeStep, HoldingStep, SettledStep
<1>3. SettledInv => SettledIsStopped
  BY DEF SettledInv
<1> QED
  BY <1>1, <1>2, <1>3, PTL DEF AttemptSpec

=============================================================================
