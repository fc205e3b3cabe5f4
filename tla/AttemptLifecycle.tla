--------------------------- MODULE AttemptLifecycle ---------------------------
(***************************************************************************)
(* One bounded attempt: ExecutionEnvironmentAdapter over a runtime driver. *)
(*                                                                         *)
(* A supervisor creates, starts, collects and disposes of the attempt.     *)
(* Cancellers (the kill-switch watcher, an operator) and the wall clock    *)
(* may ask it to stop at any await in between; the sandbox runs on its     *)
(* own; each journal append and each driver call may fail; the process may *)
(* die, and another one then recovers from the journal and the runtime.    *)
(* An action is the code between two awaits.  Where an operation only goes *)
(* on to its next call, an append lands and its caller resumes in one      *)
(* step; the "disposed" line and the throw that follows it are two.        *)
(***************************************************************************)
EXTENDS Naturals, Sequences

CONSTANT Canceller    \* callers of cancel, each calling once

Supervisor == "supervisor"
Clock == "clock"
Proc == {Supervisor, Clock} \cup Canceller

ASSUME CallerAssumption == {Supervisor, Clock} \cap Canceller = {}

VARIABLES attempt,     \* entry.attempt: its state and exitReason
          entry,       \* the live-map entry: live, handle, timer, forced, result
          box,         \* the sandbox, as the runtime has it
          at,          \* the await each caller is suspended in
          note,        \* the event each caller is appending
          held,        \* whether the driver call a caller awaits has a handle
          lines,       \* the attempt's events in the durable journal
          up,          \* the process is alive
          report,      \* what recover answered
          unrecorded,  \* history: an append was rejected
          thrown,    \* history: dispose threw "Treat it as an orphan"
          unanswered,  \* history: the runtime kept a sandbox and failed to say so
          hasty        \* history: a cancel came before the attempt had started

calls == <<at, note, held>>
history == <<unrecorded, thrown, unanswered, hasty>>
attemptVars == <<attempt, entry, box, calls, lines, up, report, history>>

Nothing == "none"
Unset == "unset"    \* no result is kept: one that is may lack a reason
States == {"created", "starting", "running", "stopping", "exited", "disposed"}
Reasons == {"completed", "failed", "start-failed", "cancelled", "timed-out", "terminated", "lost"}
Stopped == {"exited", "disposed"}
Types == {"created", "starting", "started", "stopping", "exited", "disposed", "recovered"}
Labels == {"idle", "journal created", "create", "journal starting", "ready", "start", "starting",
           "journal started", "started", "collect", "journal exited", "collected",
           "journal failed start", "kill", "reclaim", "journal reclaimed", "remove", "inspect",
           "journal disposed", "disposed", "journal stopping", "signal", "stop",
           "journal stopped", "journal stopped again", "done", "threw"}

\* A stopped attempt always names why; one that has not stopped never does.
Attempts == {a \in [state : States, reason : Reasons \cup {Nothing}] :
               (a.state \in Stopped) <=> (a.reason # Nothing)}
Entries == [live : BOOLEAN, handle : BOOLEAN, timer : BOOLEAN,
            forced : {Nothing, "cancelled", "timed-out", "terminated"},
            result : Reasons \cup {Nothing, Unset}]
NoEntry == [live |-> FALSE, handle |-> FALSE, timer |-> FALSE, forced |-> Nothing,
            result |-> Unset]
\* The payload of "disposed" also says whether the removal was confirmed.
Lines == [type : Types, reason : Reasons \cup {Nothing}, removed : BOOLEAN]
NoNote == [type |-> Nothing, reason |-> Nothing, removed |-> FALSE]
Idle == [p \in Proc |-> "idle"]
NoNotes == [p \in Proc |-> NoNote]
NoHandles == [p \in Proc |-> FALSE]
Reports == [outcome : {Nothing, "unknown", "unmentioned", "settled", "exited-not-disposed",
                       "running", "lost"},
            running : BOOLEAN, handle : BOOLEAN]

AttemptTypeOK ==
  /\ attempt \in Attempts
  /\ entry \in Entries
  /\ box \in {Nothing, "created", "running", "done", "dead"}
  /\ at \in [Proc -> Labels]
  /\ note \in [Proc -> Lines \cup {NoNote}]
  /\ held \in [Proc -> BOOLEAN]
  /\ lines \in Seq(Lines)
  /\ report \in Reports
  /\ up \in BOOLEAN
  /\ unrecorded \in BOOLEAN /\ thrown \in BOOLEAN
  /\ unanswered \in BOOLEAN /\ hasty \in BOOLEAN

AttemptInit ==
  /\ attempt = [state |-> "created", reason |-> Nothing]
  /\ entry = NoEntry
  /\ box = Nothing
  /\ at = Idle /\ note = NoNotes /\ held = NoHandles
  /\ lines = <<>>
  /\ up = TRUE
  /\ report = [outcome |-> Nothing, running |-> FALSE, handle |-> FALSE]
  /\ unrecorded = FALSE
  /\ thrown = FALSE
  /\ unanswered = FALSE
  /\ hasty = FALSE

-----------------------------------------------------------------------------
\* Steps the operations share.

At(p, label) == up /\ at[p] = label
Goto(p, label) == at' = [at EXCEPT ![p] = label]

\* #journal: the payload is taken from the attempt when the append begins.
JournalLine(p, line, label) ==
  /\ note' = [note EXCEPT ![p] = line]
  /\ Goto(p, label)
  /\ UNCHANGED held

Journal(p, type, reason, label) ==
  JournalLine(p, [type |-> type, reason |-> reason, removed |-> FALSE], label)

\* The driver is called with the handle the entry has at that moment.
Call(p, label) ==
  /\ held' = [held EXCEPT ![p] = entry.handle]
  /\ Goto(p, label)
  /\ UNCHANGED note

Continue(p, label) == Goto(p, label) /\ UNCHANGED <<note, held>>

\* The append lands; two that are in flight land in either order.
Lands(p, label) == At(p, label) /\ lines' = Append(lines, note[p])

\* The append rejects, and the operation with it.
Rejected(p, label) ==
  /\ At(p, label)
  /\ unrecorded' = TRUE
  /\ UNCHANGED <<box, lines, up, report, thrown, unanswered, hasty>>

Transition(state, reason) == attempt' = [state |-> state, reason |-> reason]

-----------------------------------------------------------------------------
\* createAttempt, up to the return of the prepared sandbox.

CreateAttempt ==
  /\ At(Supervisor, "idle")
  /\ entry' = [entry EXCEPT !.live = TRUE]
  /\ Journal(Supervisor, "created", Nothing, "journal created")
  /\ UNCHANGED <<attempt, box, lines, up, report, history>>

CreatedLands ==
  /\ Lands(Supervisor, "journal created")
  /\ Call(Supervisor, "create")
  /\ UNCHANGED <<attempt, entry, box, up, report, history>>

\* Outside the try: the entry stays live, and nothing disposes of it.
CreatedRejected ==
  /\ Rejected(Supervisor, "journal created")
  /\ Continue(Supervisor, "threw")
  /\ UNCHANGED <<attempt, entry>>

\* The transition starts from createAttempt's own copy, whatever a canceller
\* has made of the entry's attempt meanwhile.
CreateReturns ==
  /\ At(Supervisor, "create")
  /\ box' = "created"
  /\ entry' = [entry EXCEPT !.handle = TRUE]
  /\ Transition("starting", Nothing)
  /\ Journal(Supervisor, "starting", Nothing, "journal starting")
  /\ UNCHANGED <<lines, up, report, history>>

StartFailed == /\ Transition("exited", "start-failed")
               /\ Journal(Supervisor, "exited", "start-failed", "journal failed start")

\* The runtime may have made the sandbox all the same: the command timed out,
\* or it named no id.  The entry keeps no handle.
CreateRejects ==
  /\ At(Supervisor, "create")
  /\ box' \in {Nothing, "created"}
  /\ unanswered' = (unanswered \/ box' # Nothing)
  /\ StartFailed
  /\ UNCHANGED <<entry, lines, up, report, unrecorded, thrown, hasty>>

StartingLands ==
  /\ Lands(Supervisor, "journal starting")
  /\ Continue(Supervisor, "ready")
  /\ UNCHANGED <<attempt, entry, box, up, report, history>>

StartingRejected ==
  /\ Rejected(Supervisor, "journal starting")
  /\ StartFailed
  /\ UNCHANGED entry

FailedStartRejected ==
  /\ Rejected(Supervisor, "journal failed start")
  /\ Continue(Supervisor, "threw")
  /\ UNCHANGED <<attempt, entry>>

-----------------------------------------------------------------------------
\* start.

Start ==
  /\ At(Supervisor, "ready")
  /\ Call(Supervisor, "start")
  /\ UNCHANGED <<attempt, entry, box, lines, up, report, history>>

\* The runtime starts the task; the call has yet to return.
BoxStarts ==
  /\ At(Supervisor, "start") /\ box = "created"
  /\ box' = "running"
  /\ Continue(Supervisor, "starting")
  /\ UNCHANGED <<attempt, entry, lines, up, report, history>>

\* The task may be running by then.
StartRejects ==
  /\ At(Supervisor, "start") \/ At(Supervisor, "starting")
  /\ Continue(Supervisor, "threw")
  /\ UNCHANGED <<attempt, entry, box, lines, up, report, history>>

StartReturns ==
  /\ At(Supervisor, "starting") /\ attempt.state = "starting"
  /\ Transition("running", Nothing)
  /\ Journal(Supervisor, "started", Nothing, "journal started")
  /\ UNCHANGED <<entry, box, lines, up, report, history>>

\* transitionAttempt refuses: the attempt was cancelled while it started.
StartTooLate ==
  /\ At(Supervisor, "starting") /\ attempt.state # "starting"
  /\ Continue(Supervisor, "threw")
  /\ UNCHANGED <<attempt, entry, box, lines, up, report, history>>

\* Only now is the wall clock armed.
StartedLands ==
  /\ Lands(Supervisor, "journal started")
  /\ entry' = [entry EXCEPT !.timer = TRUE]
  /\ Continue(Supervisor, "started")
  /\ UNCHANGED <<attempt, box, up, report, history>>

StartedRejected ==
  /\ Rejected(Supervisor, "journal started")
  /\ Continue(Supervisor, "threw")
  /\ UNCHANGED <<attempt, entry>>

-----------------------------------------------------------------------------
\* collect, and #settle, which every way of stopping ends in.

\* Where a caller waits for its "exited" line, and where it goes from there.
Waits  == [collect |-> "journal exited", reclaim |-> "journal reclaimed",
           stop |-> "journal stopped", again |-> "journal stopped again"]
Onward == [collect |-> "collected", reclaim |-> "remove", stop |-> "done", again |-> "done"]

\* The driver answers once the sandbox is not running, at once if asked about
\* no handle.
Collected(p) == ~held[p] \/ box # "running"

\* Mutant: a failed task names no reason.
OutcomeOfSuccess(p) == IF entry.forced # Nothing THEN entry.forced
                       ELSE IF held[p] /\ box = "done" THEN "completed" ELSE Nothing

Outcome(p) == IF entry.forced # Nothing THEN entry.forced
              ELSE IF held[p] /\ box = "done" THEN "completed" ELSE "failed"

Disarmed == [entry EXCEPT !.timer = FALSE]

\* The next await of a caller that leaves #settle: dispose goes on to remove.
Leaves(p, label) == IF label = "reclaim" THEN Call(p, Onward[label]) ELSE Continue(p, Onward[label])

Settling(p, label) ==
  \/ /\ ~entry.live
     /\ Continue(p, "threw")
     /\ UNCHANGED <<attempt, entry>>
  \/ /\ entry.live /\ entry.result # Unset
     /\ Leaves(p, label)
     /\ UNCHANGED <<attempt, entry>>
  \/ /\ entry.live /\ entry.result = Unset /\ attempt.state \in Stopped
     /\ entry' = [Disarmed EXCEPT !.result = attempt.reason]
     /\ Leaves(p, label)
     /\ UNCHANGED attempt
  \/ /\ entry.live /\ entry.result = Unset /\ attempt.state \notin Stopped
     /\ entry' = Disarmed
     /\ Transition("exited", Outcome(p))
     /\ Journal(p, "exited", Outcome(p), Waits[label])

Settle(p, label) ==
  /\ At(p, label) /\ Collected(p)
  /\ Settling(p, label)
  /\ UNCHANGED <<box, lines, up, report, history>>

SettledLands(p, label) ==
  /\ Lands(p, Waits[label])
  /\ entry' = [entry EXCEPT !.result = attempt.reason]
  /\ Leaves(p, label)
  /\ UNCHANGED <<attempt, box, up, report, history>>

\* The attempt has exited, and this caller keeps no result for the next collect.
SettledRejected(p, label) ==
  /\ Rejected(p, Waits[label])
  /\ Continue(p, "threw")
  /\ UNCHANGED <<attempt, entry>>

Collect ==
  /\ At(Supervisor, "started")
  /\ IF entry.live /\ entry.result = Unset THEN Call(Supervisor, "collect")
     ELSE Continue(Supervisor, IF entry.live THEN "collected" ELSE "threw")
  /\ UNCHANGED <<attempt, entry, box, lines, up, report, history>>

-----------------------------------------------------------------------------
\* #stop: cancel, and the wall clock.

\* The reason of the last caller stands.
Stops(p, reason) ==
  /\ \/ /\ ~entry.live \/ attempt.state \in Stopped
        /\ Continue(p, "done")
        /\ UNCHANGED <<attempt, entry>>
     \/ /\ entry.live /\ attempt.state \notin Stopped
        /\ entry' = [Disarmed EXCEPT !.forced = reason]
        /\ IF attempt.state = "running"
           THEN /\ Transition("stopping", Nothing)
                /\ Journal(p, "stopping", Nothing, "journal stopping")
           ELSE Call(p, "signal") /\ UNCHANGED attempt
  /\ UNCHANGED <<box, lines, up, report, unrecorded, thrown, unanswered>>

\* createAttempt and start have not both returned.
BeforeStarted == at[Supervisor] \in {"journal created", "create", "journal starting",
                                     "journal failed start", "ready", "start", "starting"}

Cancel(p) == /\ At(p, "idle") /\ at[Supervisor] # "idle"
             /\ Stops(p, "cancelled")
             /\ hasty' = (hasty \/ BeforeStarted)

TimerFires == /\ At(Clock, "idle") /\ entry.timer
              /\ Stops(Clock, "timed-out")
              /\ UNCHANGED hasty

StoppingLands(p) ==
  /\ Lands(p, "journal stopping")
  /\ Call(p, "signal")
  /\ UNCHANGED <<attempt, entry, box, up, report, history>>

\* Outside the try: no signal is sent, and the clock is disarmed.
StoppingRejected(p) ==
  /\ Rejected(p, "journal stopping")
  /\ Continue(p, "threw")
  /\ UNCHANGED <<attempt, entry>>

\* #stop catches the rejection and settles again, with no exit code.
StoppedRejected(p) ==
  /\ Rejected(p, Waits["stop"])
  /\ Settling(p, "again")

\* Mutant: a hung task ignores the polite signal.
PoliteSignal(p) == box

\* The polite signal escalates in the driver: a running sandbox is stopped.
Signalled(p) == IF held[p] /\ box = "running" THEN "dead" ELSE box

SignalReturns(p) ==
  /\ At(p, "signal")
  /\ box' = Signalled(p)
  /\ Call(p, "stop")
  /\ UNCHANGED <<attempt, entry, lines, up, report, history>>

-----------------------------------------------------------------------------
\* dispose, which terminates an attempt that has not stopped.

\* The attempt leaves the live map; an unconfirmed removal is thrown.
Leave(confirmed) == /\ entry' = [entry EXCEPT !.live = FALSE]
                    /\ thrown' = (thrown \/ ~confirmed)
                    /\ Continue(Supervisor, "done")

\* Mutant: the last line does not say how the attempt ended.
DisposedWithoutReason(confirmed) ==
  IF attempt.state = "exited"
  THEN /\ Transition("disposed", attempt.reason)
       /\ JournalLine(Supervisor, [type |-> "disposed", reason |-> Nothing, removed |-> confirmed],
                      "journal disposed")
       /\ UNCHANGED <<entry, thrown>>
  ELSE Leave(confirmed) /\ UNCHANGED attempt

\* What follows the runtime's confirmation, up to the append of "disposed".
Disposed(confirmed) ==
  IF attempt.state = "exited"
  THEN /\ Transition("disposed", attempt.reason)
       /\ JournalLine(Supervisor,
                      [type |-> "disposed", reason |-> attempt.reason, removed |-> confirmed],
                      "journal disposed")
       /\ UNCHANGED <<entry, thrown>>
  ELSE Leave(confirmed) /\ UNCHANGED attempt

\* createAttempt's catch: the failed start is recorded, then disposed of.
FailedStartLands ==
  /\ Lands(Supervisor, "journal failed start")
  /\ Call(Supervisor, "remove")
  /\ UNCHANGED <<attempt, entry, box, up, report, history>>

\* Between two of its own calls, also after one that threw.
MayDispose == /\ up /\ entry.live
              /\ at[Supervisor] \in {"ready", "started", "collected", "threw"}

\* Mutant: dispose does not terminate what is still running.
DisposeOnly ==
  /\ MayDispose
  /\ entry' = Disarmed
  /\ Call(Supervisor, "remove")
  /\ UNCHANGED <<attempt, box, lines, up, report, history>>

Dispose ==
  /\ MayDispose
  /\ IF attempt.state \in Stopped
     THEN entry' = Disarmed /\ Call(Supervisor, "remove")
     ELSE /\ entry' = [Disarmed EXCEPT !.forced = IF @ = Nothing THEN "terminated" ELSE @]
          /\ Call(Supervisor, "kill")
  /\ UNCHANGED <<attempt, box, lines, up, report, history>>

KillReturns ==
  /\ At(Supervisor, "kill")
  /\ box' = Signalled(Supervisor)
  /\ Call(Supervisor, "reclaim")
  /\ UNCHANGED <<attempt, entry, lines, up, report, history>>

\* The runtime removes the sandbox by force, or does not; remove says nothing.
RemoveReturns ==
  /\ At(Supervisor, "remove") /\ held[Supervisor]
  /\ box' \in {Nothing, box}
  /\ Call(Supervisor, "inspect")
  /\ UNCHANGED <<attempt, entry, lines, up, report, history>>

\* Without a handle nothing is removed or inspected, and the sandbox is taken
\* not to exist.
RemoveSkipped ==
  /\ At(Supervisor, "remove") /\ ~held[Supervisor]
  /\ Disposed(TRUE)
  /\ UNCHANGED <<box, lines, up, report, unrecorded, unanswered, hasty>>

\* remove rejects, having removed the sandbox or not: it is not inspected.
RemoveRejects ==
  /\ At(Supervisor, "remove") /\ held[Supervisor]
  /\ box' \in {Nothing, box}
  /\ Disposed(FALSE)
  /\ UNCHANGED <<lines, up, report, unrecorded, unanswered, hasty>>

\* Mutant: dispose takes remove's silence for an answer.
InspectNothing ==
  /\ At(Supervisor, "inspect")
  /\ Disposed(TRUE)
  /\ UNCHANGED <<box, lines, up, report, unrecorded, unanswered, hasty>>

InspectReturns ==
  /\ At(Supervisor, "inspect")
  /\ Disposed(box = Nothing)
  /\ UNCHANGED <<box, lines, up, report, unrecorded, unanswered, hasty>>

\* The runtime could not be asked, which the driver reports as absence.
InspectUnanswered ==
  /\ At(Supervisor, "inspect")
  /\ Disposed(TRUE)
  /\ unanswered' = (unanswered \/ box # Nothing)
  /\ UNCHANGED <<box, lines, up, report, unrecorded, hasty>>

DisposedLands ==
  /\ Lands(Supervisor, "journal disposed")
  /\ Continue(Supervisor, "disposed")
  /\ UNCHANGED <<attempt, entry, box, up, report, history>>

\* Only now is the sandbox let go, or thrown at the caller.
DisposedResumes ==
  /\ At(Supervisor, "disposed")
  /\ Leave(note[Supervisor].removed)
  /\ UNCHANGED <<attempt, box, lines, up, report, unrecorded, unanswered, hasty>>

\* The entry stays live, as disposed of.
DisposedRejected ==
  /\ Rejected(Supervisor, "journal disposed")
  /\ Continue(Supervisor, "threw")
  /\ UNCHANGED <<attempt, entry>>

-----------------------------------------------------------------------------
\* The sandbox, the crash, and recover in the next process.

\* The task ends by itself, well or badly.
BoxExits ==
  /\ box = "running"
  /\ box' \in {"done", "dead"}
  /\ UNCHANGED <<attempt, entry, calls, lines, up, report, history>>

\* The live map goes with the process, and so does every call in it.
Dies ==
  /\ up
  /\ up' = FALSE
  /\ entry' = NoEntry
  /\ at' = Idle /\ note' = NoNotes /\ held' = NoHandles
  /\ UNCHANGED <<attempt, box, lines, report, history>>

\* reduceAttemptEvents: the last line read is the state.
OrphanCandidate == lines[Len(lines)].type \in {"starting", "started", "stopping"}

\* Mutant: recovery goes by the journal alone.
OutcomeByJournal ==
  IF lines = <<>> THEN "unmentioned"
  ELSE IF lines[Len(lines)].type \in {"created", "exited"} THEN "exited-not-disposed" ELSE "settled"

\* The journal's last line, reconciled with what the runtime lists.
RecoverOutcome ==
  IF lines = <<>> THEN "unmentioned"
  ELSE IF ~OrphanCandidate
       THEN IF lines[Len(lines)].type = "disposed" THEN "settled" ELSE "exited-not-disposed"
  ELSE IF box = "running" THEN "running" ELSE "lost"

\* A handle is reported for an attempt still running, and for a sandbox whose
\* attempt the journal never mentions.
Recover ==
  /\ ~up /\ report.outcome = Nothing
  /\ report' = [outcome |-> RecoverOutcome, running |-> (box = "running"),
                handle |-> \/ RecoverOutcome = "running"
                           \/ RecoverOutcome = "unmentioned" /\ box # Nothing]
  /\ lines' = IF RecoverOutcome = "lost"
              THEN Append(lines, [type |-> "recovered", reason |-> "lost", removed |-> FALSE])
              ELSE lines
  /\ UNCHANGED <<attempt, entry, box, calls, up, history>>

\* The runtime cannot be listed: every attempt is unknown.
RecoverUnreadable ==
  /\ ~up /\ report.outcome = Nothing
  /\ report' = [outcome |-> "unknown", running |-> (box = "running"), handle |-> FALSE]
  /\ UNCHANGED <<attempt, entry, box, calls, lines, up, history>>

-----------------------------------------------------------------------------
\* The supervisor's calls, and how a call goes on when nothing fails.
SupervisorCall == CreateAttempt \/ Start \/ Collect \/ Dispose

SupervisorStep ==
  \/ CreatedLands \/ CreateReturns \/ StartingLands \/ FailedStartLands
  \/ BoxStarts \/ StartReturns \/ StartTooLate \/ StartedLands
  \/ Settle(Supervisor, "collect") \/ SettledLands(Supervisor, "collect")
  \/ KillReturns \/ Settle(Supervisor, "reclaim") \/ SettledLands(Supervisor, "reclaim")
  \/ RemoveReturns \/ RemoveSkipped \/ InspectReturns
  \/ DisposedLands \/ DisposedResumes

\* What a stop that has begun does next.
StopStep(p) == \/ StoppingLands(p) \/ SignalReturns(p)
               \/ Settle(p, "stop") \/ SettledLands(p, "stop") \/ SettledLands(p, "again")

StopRejected(p) == StoppingRejected(p) \/ StoppedRejected(p) \/ SettledRejected(p, "again")

Failure == \/ CreatedRejected \/ CreateRejects \/ StartingRejected \/ FailedStartRejected
           \/ StartRejects \/ StartedRejected
           \/ SettledRejected(Supervisor, "collect") \/ SettledRejected(Supervisor, "reclaim")
           \/ RemoveRejects \/ InspectUnanswered \/ DisposedRejected
           \/ \E p \in Canceller \cup {Clock} : StopRejected(p)

AttemptNext ==
  \/ SupervisorCall \/ SupervisorStep
  \/ TimerFires
  \/ \E p \in Canceller : Cancel(p)
  \/ \E p \in Canceller \cup {Clock} : StopStep(p)
  \/ BoxExits
  \/ Failure
  \/ Dies \/ Recover \/ RecoverUnreadable

\* Promises settle and timers fire.  Nobody has to call start, collect,
\* cancel or dispose, the task need not end by itself, nothing has to fail.
AttemptFairness ==
  /\ WF_attemptVars(SupervisorStep)
  /\ WF_attemptVars(TimerFires)
  /\ \A p \in Canceller \cup {Clock} : WF_attemptVars(StopStep(p))

AttemptSpec == AttemptInit /\ [][AttemptNext]_attemptVars /\ AttemptFairness

-----------------------------------------------------------------------------
\* Properties.

\* While the process lives, a sandbox the runtime holds is in the live map,
\* or dispose has thrown it at its caller as an orphan.  The one way to forget
\* it is a runtime that failed to answer about a sandbox it holds: a create
\* that rejects after making it (dispose then has no handle and asks nothing),
\* or an inspect that fails, which the driver reads as absence.
SandboxIsHeld == up /\ box # Nothing => entry.live \/ thrown \/ unanswered

\* After a crash, recovery calls an attempt settled while its sandbox runs only
\* if the line it goes by is the one of a dispose that says the removal was not
\* confirmed, or if the runtime had failed to answer: however the last events
\* landed, and whether the dead process threw the orphan at its caller or died
\* before it could.
SettledIsStopped ==
  report.outcome = "settled" /\ report.running =>
    \/ lines[Len(lines)].type = "disposed" /\ ~lines[Len(lines)].removed
    \/ unanswered

\* recover's comment: what is gone in the ledger and still running is an orphan
\* sandbox, reported by handle.  (The code reports a handle only where the
\* journal has the attempt alive or does not mention it.)
OrphanIsReported ==
  report.outcome \in {"settled", "exited-not-disposed"} /\ report.running => report.handle

\* collect waits for the task without a limit of its own, and it is answered
\* even for a task that never ends: a stop or the clock reaches the sandbox,
\* unless an append was rejected or a cancel came before the start was over.
CollectIsAnswered ==
  at[Supervisor] = "collect"
    ~> (at[Supervisor] \in {"collected", "threw"} \/ unrecorded \/ hasty \/ ~up)

\* Once the clock is armed the sandbox stops, though the supervisor makes no
\* further call and though others disarm the clock.
ArmedIsBounded == entry.timer ~> (box # "running" \/ unrecorded \/ hasty \/ ~up)

\* An attempt that has stopped is disposed of, and never prepared again.
ExitIsFinal == [][attempt.state \in Stopped => attempt'.state \in Stopped]_attemptVars

\* The exited and disposed lines of an attempt agree on one outcome, unless
\* a cancel came before the start was over.
OneOutcome ==
  hasty \/ \A i, j \in DOMAIN lines : lines[i].type \in Stopped /\ lines[j].type \in Stopped
                                     => lines[i].reason = lines[j].reason

=============================================================================
