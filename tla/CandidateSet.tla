----------------------------- MODULE CandidateSet -----------------------------
(***************************************************************************)
(* The visual candidate set of one project: a file that seven handlers of  *)
(* the factory service read, change and write back whole.  Two of them,    *)
(* the capture of evidence and the promotion, await between the read and   *)
(* the write; the others read and write in one step.                       *)
(*                                                                         *)
(* A candidate is a direction and the number of the rework pass that made  *)
(* it.  What a call refuses leaves the file alone and is no step.  The     *)
(* state `rendered` is passed through inside a capture.                    *)
(* External: the generator and npm, the browser, and the reviewers, of     *)
(* whom only independent ones get past assertIndependentReview.            *)
(***************************************************************************)
EXTENDS Naturals, FiniteSets

CONSTANTS Direction,      \* the eligible visual directions
          MaxIteration,   \* gates.visual.reworkIterationBudget
          Camera, Promoter,\* calls of the capture and of the promotion
          NoSet,          \* no file; a call that holds nothing
          MaxSets         \* bound: sets generated

Candidate == Direction \X (0..MaxIteration)

ASSUME CandidateAssumption ==
  /\ MaxIteration \in Nat /\ MaxSets \in Nat
  /\ IsFiniteSet(Direction) /\ Cardinality(Direction) >= 2

VARIABLES set,        \* the file of the project's candidate set
          generated,  \* sets generated so far; each has its own setId
          built,      \* candidate workspaces on disk, by set
          shooting,   \* the set a capture read before its awaits
          choosing    \* the promoted set a promotion is about to write

setVars == <<set, generated, built, shooting, choosing>>

States == {"absent", "draft", "deterministic-pass", "deterministic-blocked",
           "reviewed", "promoted", "rejected"}
Verdicts3 == {"none", "pass", "rework", "reject"}
Outcomes == {"undecided", "promoted", "rework-required", "rejected"}
Documents == [setId      : 1..MaxSets,
              candidates : [Candidate -> [state : States, verdict : Verdicts3]],
              outcome    : Outcomes,
              promoted   : SUBSET Candidate]   \* promotedCandidateId, or empty

CandidateTypeOK ==
  /\ set \in Documents \cup {NoSet}
  /\ generated \in 0..MaxSets
  /\ built \subseteq (1..MaxSets) \X Candidate
  /\ shooting \in [Camera -> Documents \cup {NoSet}]
  /\ choosing \in [Promoter -> Documents \cup {NoSet}]

CandidateInit ==
  /\ set = NoSet
  /\ generated = 0
  /\ built = {}
  /\ shooting = [k \in Camera |-> NoSet]
  /\ choosing = [p \in Promoter |-> NoSet]

-----------------------------------------------------------------------------
\* The rules of tooling/lib/visual-candidates.mjs and visual-rework.mjs.

Members(d) == {c \in Candidate : d.candidates[c].state # "absent"}
State(d, c) == d.candidates[c].state
Verdict(d, c) == d.candidates[c].verdict
Drafts(d) == {c \in Members(d) : State(d, c) = "draft"}

Transitions == [
  state \in States |->
    CASE state = "draft" -> {"deterministic-pass", "deterministic-blocked", "rejected"}
      [] state = "deterministic-pass" -> {"reviewed", "rejected"}
      [] state = "deterministic-blocked" -> {"rejected"}
      [] state = "reviewed" -> {"promoted", "rejected"}
      [] OTHER -> {}]

MoveTo(d, c, state) == [d EXCEPT !.candidates[c].state = state]

\* buildCandidateSet: one draft for each direction, nothing decided.
Fresh(n) ==
  [setId |-> n,
   candidates |-> [c \in Candidate |-> [state |-> IF c[2] = 0 THEN "draft" ELSE "absent",
                                        verdict |-> "none"]],
   outcome |-> "undecided",
   promoted |-> {}]

\* recordCandidateEvidence of every pending draft, of which DesignLint blocks some.
Photographed(d, blocked) ==
  [d EXCEPT !.candidates = [c \in Candidate |->
     IF c \notin Drafts(d) THEN d.candidates[c]
     ELSE [d.candidates[c] EXCEPT !.state =
             IF c \in blocked THEN "deterministic-blocked" ELSE "deterministic-pass"]]]

\* recordReview.
AfterReview(verdict) == IF verdict = "reject" THEN "rejected" ELSE "reviewed"
MayReview(d, c, verdict) ==
  /\ State(d, c) # "deterministic-blocked"    \* a violation is not a matter for review
  /\ AfterReview(verdict) \in Transitions[State(d, c)]
Reviewed(d, c, verdict) ==
  [d EXCEPT !.candidates[c] = [state |-> AfterReview(verdict), verdict |-> verdict]]

\* Mutant: any reviewed candidate may win.
MayPromoteAny(d, c) == d.promoted = {} /\ "promoted" \in Transitions[State(d, c)]

\* promoteCandidate: the winner is closed as promoted, its siblings as rejected.
MayPromote(d, c) ==
  /\ d.promoted = {}
  /\ Verdict(d, c) = "pass"
  /\ "promoted" \in Transitions[State(d, c)]
Promoted(d, winner) ==
  [d EXCEPT !.candidates = [c \in Candidate |->
              IF c \notin Members(d) THEN d.candidates[c]
              ELSE [d.candidates[c] EXCEPT !.state = IF c = winner THEN "promoted" ELSE "rejected"]],
            !.outcome = "promoted",
            !.promoted = {winner}]

\* decideCandidateSet: everybody has been judged, nobody passed.
IsJudged(d, c) == Verdict(d, c) # "none" \/ State(d, c) \in {"deterministic-blocked", "rejected"}
AllJudged(d) == \A c \in Members(d) : IsJudged(d, c)
MayDecide(d, outcome) ==
  /\ d.promoted = {}
  /\ d.outcome = "undecided"
  /\ AllJudged(d)
  /\ \A c \in Members(d) : Verdict(d, c) # "pass"
  /\ outcome = "rework-required" => \E c \in Members(d) : Verdict(d, c) = "rework"
Decided(d, outcome) ==
  [d EXCEPT !.candidates = [c \in Candidate |->
              IF outcome = "rejected" /\ c \in Members(d)
              THEN [d.candidates[c] EXCEPT !.state = "rejected"]
              ELSE d.candidates[c]],
            !.outcome = outcome]

\* planVisualRework and attachRevisedCandidate.
Revision(c) == <<c[1], c[2] + 1>>
\* Mutants: one rework pass too many; the outcome is not reopened by a revision.
MayReworkPastBudget(d, c) == Verdict(d, c) = "rework" /\ c[2] <= MaxIteration
AttachedUnopened(d, c) == MoveTo(d, Revision(c), "draft")

MayRework(d, c) == Verdict(d, c) = "rework" /\ c[2] < MaxIteration
Attached(d, c) ==
  [MoveTo(d, Revision(c), "draft") EXCEPT !.outcome = "undecided"]

-----------------------------------------------------------------------------
\* The handlers.  Each begins with a decision that is awaited, before the read.

\* generateVisualCandidates: a set that has not promoted is in the way.
SetGivesWay == set # NoSet => set.promoted # {}

GenerateCandidates ==
  /\ SetGivesWay
  /\ generated < MaxSets
  /\ generated' = generated + 1
  /\ set' = Fresh(generated')
  /\ built' = built \cup {<<generated', c>> : c \in Direction \X {0}}
  /\ UNCHANGED <<shooting, choosing>>

\* captureVisualCandidateEvidence: the set is read; npm and the browser follow.
BeginCapture(k) ==
  /\ shooting[k] = NoSet
  /\ set # NoSet /\ set.promoted = {} /\ Drafts(set) # {}
  /\ \A c \in Drafts(set) : <<set.setId, c>> \in built
  /\ shooting' = [shooting EXCEPT ![k] = set]
  /\ UNCHANGED <<set, generated, built, choosing>>

\* The set that was read is written back, with its drafts photographed.
EndCapture(k, blocked) ==
  /\ shooting[k] # NoSet
  /\ blocked \subseteq Drafts(shooting[k])
  /\ set' = Photographed(shooting[k], blocked)
  /\ shooting' = [shooting EXCEPT ![k] = NoSet]
  /\ UNCHANGED <<generated, built, choosing>>

\* A candidate does not build or ship, or the browser produces nothing.
CaptureThrows(k) ==
  /\ shooting[k] # NoSet
  /\ shooting' = [shooting EXCEPT ![k] = NoSet]
  /\ UNCHANGED <<set, generated, built, choosing>>

ReviewCandidate(c, verdict) ==
  /\ set # NoSet /\ c \in Members(set)
  /\ MayReview(set, c, verdict)
  /\ set' = Reviewed(set, c, verdict)
  /\ UNCHANGED <<generated, built, shooting, choosing>>

DecideSet(outcome) ==
  /\ set # NoSet
  /\ MayDecide(set, outcome)
  /\ set' = Decided(set, outcome)
  /\ UNCHANGED <<generated, built, shooting, choosing>>

\* The revision is generated, in a directory that must not exist, and attached;
\* a revision the set has already is refused after its directory was written.
\* A plan with nothing to change is only noted, and changes nothing modelled.
ReworkCandidate(c) ==
  /\ set # NoSet /\ c \in Members(set)
  /\ MayRework(set, c)
  /\ <<set.setId, Revision(c)>> \notin built
  /\ built' = built \cup {<<set.setId, Revision(c)>>}
  /\ set' = IF Revision(c) \in Members(set) THEN set ELSE Attached(set, c)
  /\ UNCHANGED <<generated, shooting, choosing>>

\* promoteVisualCandidate: read and decided before the design choice is written.
BeginPromotion(p, c) ==
  /\ choosing[p] = NoSet
  /\ set # NoSet /\ c \in Members(set)
  /\ MayPromote(set, c)
  /\ choosing' = [choosing EXCEPT ![p] = Promoted(set, c)]
  /\ UNCHANGED <<set, generated, built, shooting>>

EndPromotion(p) ==
  /\ choosing[p] # NoSet
  /\ set' = choosing[p]
  /\ built' = {b \in built : b[1] # choosing[p].setId}
  /\ choosing' = [choosing EXCEPT ![p] = NoSet]
  /\ UNCHANGED <<generated, shooting>>

PromotionThrows(p) ==
  /\ choosing[p] # NoSet
  /\ choosing' = [choosing EXCEPT ![p] = NoSet]
  /\ UNCHANGED <<set, generated, built, shooting>>

CandidateNext ==
  \/ GenerateCandidates
  \/ \E k \in Camera : BeginCapture(k) \/ CaptureThrows(k)
  \/ \E k \in Camera, blocked \in SUBSET Candidate : EndCapture(k, blocked)
  \/ \E c \in Candidate, verdict \in Verdicts3 \ {"none"} : ReviewCandidate(c, verdict)
  \/ \E outcome \in Outcomes \ {"undecided"} : DecideSet(outcome)
  \/ \E c \in Candidate : ReworkCandidate(c)
  \/ \E p \in Promoter, c \in Candidate : BeginPromotion(p, c)
  \/ \E p \in Promoter : EndPromotion(p) \/ PromotionThrows(p)

CandidateSpec == CandidateInit /\ [][CandidateNext]_setVars

-----------------------------------------------------------------------------
\* "Exactly one candidate is promoted", and it passed a review: in the file as
\* it stands after any overlap of captures, reviews, reworks and promotions.
WinnerIsJudged ==
  set # NoSet =>
    /\ set.promoted = {c \in Members(set) : State(set, c) = "promoted"}
    /\ Cardinality(set.promoted) <= 1
    /\ \A c \in set.promoted : Verdict(set, c) = "pass"

\* "None of these is good enough" stands only while somebody has looked at every
\* candidate: a revision, or a capture that ends late, does not slip under it.
NoneIsRejectedUnseen ==
  set # NoSet /\ set.outcome \in {"rework-required", "rejected"} => AllJudged(set)
=============================================================================
