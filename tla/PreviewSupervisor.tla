-------------------------- MODULE PreviewSupervisor --------------------------
(***************************************************************************)
(* The supervised preview of one project: startPreview and stopPreview of  *)
(* the factory service, the child process each start may spawn, and the    *)
(* map that says which child is the preview.                               *)
(*                                                                         *)
(* A child is named by the call that spawned it.  A process that a signal  *)
(* ended has no exit code, and only the exit event tells the two apart     *)
(* from a living one; the code that waits for an exit event resumes before *)
(* anything else runs, so a death and those resumptions are one step.      *)
(* External: a SIGKILLed process dies, and a port is not handed out twice. *)
(***************************************************************************)
EXTENDS Naturals

CONSTANTS PreviewCall,  \* calls of startPreview and stopPreview
          NoChild       \* no entry in the map, no child to terminate

ASSUME PreviewAssumption == NoChild \notin PreviewCall

VARIABLES preview,    \* previews.get(projectId): the child the map holds
          child,      \* the process each call spawned
          ready,      \* preview.ready of each call's entry
          previewAt,  \* the await each call is suspended in
          ending      \* the child a call awaits the end of

previewVars == <<preview, child, ready, previewAt, ending>>

Dead == {"exited", "killed"}    \* with an exit code; by a signal, without one
Living == {"booting", "serving"}
Terminating == {"ending start", "ending stop"}
PreviewDone == {"done", "threw"}
PreviewLabels == {"idle", "deciding start", "port", "waiting", "journal started",
                  "deciding stop", "journal stopped"} \cup Terminating \cup PreviewDone

PreviewTypeOK ==
  /\ preview \in PreviewCall \cup {NoChild}
  /\ child \in [PreviewCall -> {"none"} \cup Living \cup Dead]
  /\ ready \in [PreviewCall -> BOOLEAN]
  /\ previewAt \in [PreviewCall -> PreviewLabels]
  /\ ending \in [PreviewCall -> PreviewCall \cup {NoChild}]
  /\ \A c \in PreviewCall : previewAt[c] \in Terminating => ending[c] # NoChild

PreviewInit ==
  /\ preview = NoChild
  /\ child = [c \in PreviewCall |-> "none"]
  /\ ready = [c \in PreviewCall |-> FALSE]
  /\ previewAt = [c \in PreviewCall |-> "idle"]
  /\ ending = [c \in PreviewCall |-> NoChild]

\* previewStatus: there is a preview while the held child has no exit code.
PreviewHeld == preview # NoChild /\ child[preview] # "exited"

PreviewGoes(c, label) == previewAt' = [previewAt EXCEPT ![c] = label]

\* Where a call goes when the child it ends has ended.
AfterEnding(label) == IF label = "ending start" THEN "threw" ELSE "journal stopped"

\* Mutant: the handle is read from the map instead of handed in.
TerminateHeld(c, k, label) ==
  /\ ending' = [ending EXCEPT ![c] = preview]
  /\ IF child[k] = "exited"
     THEN preview' = NoChild /\ PreviewGoes(c, AfterEnding(label))
     ELSE UNCHANGED preview /\ PreviewGoes(c, label)
  /\ UNCHANGED <<child, ready>>

\* terminatePreview(k): a child with an exit code is not waited for.
Terminate(c, k, label) ==
  /\ ending' = [ending EXCEPT ![c] = k]
  /\ IF child[k] = "exited"
     THEN preview' = NoChild /\ PreviewGoes(c, AfterEnding(label))
     ELSE UNCHANGED preview /\ PreviewGoes(c, label)
  /\ UNCHANGED <<child, ready>>

-----------------------------------------------------------------------------
\* startPreview and stopPreview: the decision is awaited first.

AskPreview(c) ==
  /\ previewAt[c] = "idle"
  /\ \/ PreviewGoes(c, "deciding start")
     \/ PreviewGoes(c, "deciding stop")
  /\ UNCHANGED <<preview, child, ready, ending>>

\* An existing preview is the answer; without dependencies the call throws.
StartDecided(c) ==
  /\ previewAt[c] = "deciding start"
  /\ IF PreviewHeld
     THEN PreviewGoes(c, "done")
     ELSE PreviewGoes(c, "threw") \/ PreviewGoes(c, "port")
  /\ UNCHANGED <<preview, child, ready, ending>>

\* freeLocalPort has answered.  The map is not looked at again.
SpawnChild(c) ==
  /\ previewAt[c] = "port"
  /\ child' = [child EXCEPT ![c] = "booting"]
  /\ preview' = c
  /\ PreviewGoes(c, "waiting")
  /\ UNCHANGED <<ready, ending>>

NoPort(c) ==
  /\ previewAt[c] = "port"
  /\ PreviewGoes(c, "threw")
  /\ UNCHANGED <<preview, child, ready, ending>>

\* waitForPreview: the child answers, or the wait gives up on its exit code or its deadline.
ChildAnswers(c) ==
  /\ previewAt[c] = "waiting"
  /\ child[c] = "serving"
  /\ ready' = [ready EXCEPT ![c] = TRUE]
  /\ PreviewGoes(c, "journal started")
  /\ UNCHANGED <<preview, child, ending>>

\* Mutant: the wait has no deadline.
WaitForExitOnly(c) ==
  /\ previewAt[c] = "waiting"
  /\ child[c] = "exited"
  /\ Terminate(c, c, "ending start")

WaitGivesUp(c) ==
  /\ previewAt[c] = "waiting"
  /\ Terminate(c, c, "ending start")

StartRecorded(c) ==
  /\ previewAt[c] = "journal started"
  /\ \/ PreviewGoes(c, "done") /\ UNCHANGED <<preview, child, ready, ending>>
     \/ Terminate(c, c, "ending start")

StopDecided(c) ==
  /\ previewAt[c] = "deciding stop"
  /\ IF PreviewHeld
     THEN Terminate(c, preview, "ending stop")
     ELSE /\ preview' = NoChild
          /\ PreviewGoes(c, "done")
          /\ UNCHANGED <<child, ready, ending>>

StopRecorded(c) ==
  /\ previewAt[c] = "journal stopped"
  /\ PreviewGoes(c, "done") \/ PreviewGoes(c, "threw")
  /\ UNCHANGED <<preview, child, ready, ending>>

\* The child had died of a signal before the wait began: its event never comes,
\* and the wait ends with its two timers.
EndingTimesOut(c) ==
  /\ previewAt[c] \in Terminating
  /\ child[ending[c]] = "killed"
  /\ preview' = NoChild
  /\ PreviewGoes(c, AfterEnding(previewAt[c]))
  /\ UNCHANGED <<child, ready, ending>>

PreviewStep(c) ==
  \/ AskPreview(c) \/ StartDecided(c) \/ SpawnChild(c) \/ NoPort(c)
  \/ ChildAnswers(c) \/ WaitGivesUp(c) \/ StartRecorded(c)
  \/ StopDecided(c) \/ StopRecorded(c) \/ EndingTimesOut(c)

-----------------------------------------------------------------------------
\* The child's own steps.

ChildServes(k) ==
  /\ child[k] = "booting"
  /\ child' = [child EXCEPT ![k] = "serving"]
  /\ UNCHANGED <<preview, ready, previewAt, ending>>

Waiters(k) == {c \in PreviewCall : previewAt[c] \in Terminating /\ ending[c] = k}

\* Mutant: startPreview registers no exit handler of its own.
ReleasedByWaiters(k) == IF Waiters(k) # {} THEN NoChild ELSE preview

\* Only the exit handler compares the entry with the child that exited.
Released(k) == IF Waiters(k) # {} \/ preview = k THEN NoChild ELSE preview

ChildDies(k, how) ==
  /\ child[k] \in Living
  /\ child' = [child EXCEPT ![k] = how]
  /\ preview' = Released(k)
  /\ previewAt' = [c \in PreviewCall |->
                     IF c \in Waiters(k) THEN AfterEnding(previewAt[c]) ELSE previewAt[c]]
  /\ UNCHANGED <<ready, ending>>

PreviewNext ==
  \/ \E c \in PreviewCall : PreviewStep(c)
  \/ \E k \in PreviewCall : ChildServes(k)
  \/ \E k \in PreviewCall, how \in Dead : ChildDies(k, how)

\* A call that has been made goes on: ports, appends and timers come back.
PreviewReturns(c) == PreviewStep(c) /\ previewAt[c] # "idle"
\* The signals of terminatePreview reach their process.
SignalArrives(k) == Waiters(k) # {} /\ \E how \in Dead : ChildDies(k, how)

PreviewFairness ==
  /\ \A c \in PreviewCall : WF_previewVars(PreviewReturns(c))
  /\ \A k \in PreviewCall : WF_previewVars(SignalArrives(k))

PreviewSpec == PreviewInit /\ [][PreviewNext]_previewVars /\ PreviewFairness

-----------------------------------------------------------------------------
\* The map never names a child that has ended, not even one without an exit
\* code: the port the proxy forwards an operator to has its process.
PreviewIsAlive == preview # NoChild => child[preview] \in Living

\* A start that found nothing to start, or a stop, ends in the time its timers
\* allow, whatever the child does.
PreviewCallReturns ==
  \A c \in PreviewCall : (previewAt[c] # "idle") ~> (previewAt[c] \in PreviewDone)

\* A child whose start has returned and that serves is the preview: the service
\* can stop it (the comment on the environment of startPreview).
ServingIsHeld ==
  \A c \in PreviewCall : child[c] = "serving" /\ previewAt[c] = "done" => preview = c
=============================================================================
