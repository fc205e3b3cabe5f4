-------------------------- MODULE CandidateSetProofs --------------------------
(***************************************************************************)
(* What the file of a candidate set says after any overlap of handlers,    *)
(* for any number of directions, rework passes and calls.  A handler may   *)
(* write back a document it read long ago, so the invariant is one about   *)
(* documents, and holds of the file and of everything a call still holds.  *)
(***************************************************************************)
EXTENDS CandidateSet, FiniteSetTheorems, TLAPS

\* A winner is the one promoted candidate, and passed; what nobody photographed
\* has no verdict; and none is good enough only if each was judged.
SoundSet(d) ==
  /\ d \in Documents
  /\ d.promoted = {c \in Candidate : State(d, c) = "promoted"}
  /\ \A c, e \in d.promoted : c = e
  /\ \A c \in d.promoted : Verdict(d, c) = "pass"
  /\ \A c \in Candidate : State(d, c) \in {"absent", "draft"} => Verdict(d, c) = "none"
  /\ d.outcome \in {"rework-required", "rejected"} => AllJudged(d)

CandidateInv ==
  /\ generated \in 0..MaxSets
  /\ set # NoSet => SoundSet(set)
  /\ \A k \in Camera : shooting[k] # NoSet => SoundSet(shooting[k])
  /\ \A p \in Promoter : choosing[p] # NoSet => SoundSet(choosing[p])
  /\ shooting \in [Camera -> Documents \cup {NoSet}]
  /\ choosing \in [Promoter -> Documents \cup {NoSet}]

LEMMA DocumentParts ==
  ASSUME NEW d \in Documents
  PROVE  /\ d.setId \in 1..MaxSets /\ d.outcome \in Outcomes /\ d.promoted \subseteq Candidate
         /\ d.candidates \in [Candidate -> [state : States, verdict : Verdicts3]]
         /\ \A c \in Candidate : State(d, c) \in States /\ Verdict(d, c) \in Verdicts3
<1>1. /\ d.setId \in 1..MaxSets /\ d.outcome \in Outcomes /\ d.promoted \subseteq Candidate
      /\ d.candidates \in [Candidate -> [state : States, verdict : Verdicts3]]
  BY DEF Documents
<1> QED BY <1>1 DEF State, Verdict

LEMMA TransitionTable ==
  /\ Transitions["absent"] = {} /\ Transitions["promoted"] = {} /\ Transitions["rejected"] = {}
  /\ Transitions["draft"] = {"deterministic-pass", "deterministic-blocked", "rejected"}
  /\ Transitions["deterministic-pass"] = {"reviewed", "rejected"}
  /\ Transitions["deterministic-blocked"] = {"rejected"}
  /\ Transitions["reviewed"] = {"promoted", "rejected"}
BY DEF Transitions, States

\* A document with other candidates, outcome and winner.
Rewritten(d, cs, o, w) == [d EXCEPT !.candidates = cs, !.outcome = o, !.promoted = w]

LEMMA RewrittenIsDocument ==
  ASSUME NEW d \in Documents,
         NEW cs \in [Candidate -> [state : States, verdict : Verdicts3]],
         NEW o \in Outcomes, NEW w \in SUBSET Candidate
  PROVE  /\ Rewritten(d, cs, o, w) \in Documents /\ Rewritten(d, cs, o, w).candidates = cs
         /\ Rewritten(d, cs, o, w).outcome = o /\ Rewritten(d, cs, o, w).promoted = w
BY DEF Rewritten, Documents

LEMMA FreshIsSound ==
  ASSUME NEW n \in 1..MaxSets
  PROVE  SoundSet(Fresh(n)) /\ Fresh(n).promoted = {}
<1> DEFINE d == Fresh(n)
<1>1. /\ d.outcome = "undecided" /\ d.promoted = {}
      /\ \A c \in Candidate : /\ State(d, c) = IF c[2] = 0 THEN "draft" ELSE "absent"
                              /\ Verdict(d, c) = "none"
  BY DEF Fresh, State, Verdict
<1>2. d \in Documents
  BY DEF Fresh, Documents, Outcomes, States, Verdicts3
<1> QED BY <1>1, <1>2 DEF SoundSet

\* A photograph judges nobody, and only drafts are photographed.
LEMMA PhotographedIsSound ==
  ASSUME NEW d, SoundSet(d), NEW blocked
  PROVE  SoundSet(Photographed(d, blocked))
<1> DEFINE shot(c) == IF c \notin Drafts(d) THEN d.candidates[c]
                      ELSE [d.candidates[c] EXCEPT !.state =
                              IF c \in blocked THEN "deterministic-blocked" ELSE "deterministic-pass"]
           cs == [c \in Candidate |-> shot(c)]
           e == Photographed(d, blocked)
<1>1. d \in Documents
  BY DEF SoundSet
<1>2. cs \in [Candidate -> [state : States, verdict : Verdicts3]]
  <2> SUFFICES ASSUME NEW c \in Candidate PROVE shot(c) \in [state : States, verdict : Verdicts3]
    OBVIOUS
  <2>1. d.candidates[c] \in [state : States, verdict : Verdicts3]
    BY <1>1, DocumentParts
  <2> QED BY <2>1 DEF States
<1>3. e = [d EXCEPT !.candidates = cs]
  BY DEF Photographed
<1>4. e \in Documents /\ e.candidates = cs /\ e.outcome = d.outcome /\ e.promoted = d.promoted
  BY <1>1, <1>2, <1>3 DEF Documents
<1>5. \A c \in Candidate : Verdict(e, c) = Verdict(d, c)
  <2> SUFFICES ASSUME NEW c \in Candidate PROVE cs[c].verdict = d.candidates[c].verdict
    BY <1>4 DEF Verdict
  <2>1. d.candidates[c] \in [state : States, verdict : Verdicts3]
    BY <1>1, DocumentParts
  <2> QED BY <2>1
<1>6. \A c \in Candidate : IF c \in Drafts(d) THEN State(e, c) \in {"deterministic-blocked", "deterministic-pass"}
                           ELSE State(e, c) = State(d, c)
  <2> SUFFICES ASSUME NEW c \in Candidate
               PROVE  IF c \in Drafts(d) THEN cs[c].state \in {"deterministic-blocked", "deterministic-pass"}
                      ELSE cs[c].state = d.candidates[c].state
    BY <1>4 DEF State
  <2>1. d.candidates[c] \in [state : States, verdict : Verdicts3]
    BY <1>1, DocumentParts
  <2> QED BY <2>1
<1>7. \A c \in Candidate : c \in Drafts(d) <=> State(d, c) = "draft"
  BY DEF Drafts, Members, State
<1>8. e.promoted = {c \in Candidate : State(e, c) = "promoted"}
  BY <1>4, <1>6, <1>7 DEF SoundSet
<1>9. e.outcome \in {"rework-required", "rejected"} => AllJudged(e)
  <2> SUFFICES ASSUME d.outcome \in {"rework-required", "rejected"},
                      NEW c \in Members(e)
               PROVE  IsJudged(e, c)
    BY <1>4 DEF AllJudged
  <2>1. c \in Candidate /\ State(e, c) # "absent"
    BY DEF Members, State
  <2>2. c \in Members(d)
    BY <2>1, <1>6, <1>7 DEF Members, State
  <2>3. IsJudged(d, c)
    BY <2>2 DEF SoundSet, AllJudged
  <2>4. State(d, c) # "draft"
    BY <2>1, <2>3 DEF SoundSet, IsJudged
  <2> QED BY <2>1, <2>3, <2>4, <1>5, <1>6, <1>7 DEF IsJudged
<1> QED BY <1>1, <1>4, <1>5, <1>6, <1>7, <1>8, <1>9 DEF SoundSet

\* What changing one candidate of a document makes of it.
OneChanged(d, c, x, o) == Rewritten(d, [d.candidates EXCEPT ![c] = x], o, d.promoted)

LEMMA OneCandidate ==
  ASSUME NEW d \in Documents, NEW c \in Candidate,
         NEW x \in [state : States, verdict : Verdicts3], NEW o \in Outcomes,
         NEW e, e = OneChanged(d, c, x, o)
  PROVE  /\ e \in Documents /\ e.outcome = o /\ e.promoted = d.promoted
         /\ State(e, c) = x.state /\ Verdict(e, c) = x.verdict
         /\ \A b \in Candidate : b # c => State(e, b) = State(d, b) /\ Verdict(e, b) = Verdict(d, b)
<1> DEFINE cs == [d.candidates EXCEPT ![c] = x]
<1>1. /\ cs \in [Candidate -> [state : States, verdict : Verdicts3]] /\ cs[c] = x
      /\ \A b \in Candidate : b # c => cs[b] = d.candidates[b]
  BY DocumentParts
<1>2. e = Rewritten(d, cs, o, d.promoted)
  BY DEF OneChanged
<1> HIDE DEF cs
<1>3. e \in Documents /\ e.outcome = o /\ e.promoted = d.promoted /\ e.candidates = cs
  BY <1>1, <1>2, RewrittenIsDocument, DocumentParts
<1> QED BY <1>1, <1>3 DEF State, Verdict

\* A review is of a candidate that has no place among the winners.
LEMMA ReviewedIsSound ==
  ASSUME NEW d, SoundSet(d), NEW c \in Members(d), NEW verdict \in Verdicts3 \ {"none"},
         MayReview(d, c, verdict)
  PROVE  SoundSet(Reviewed(d, c, verdict))
<1> DEFINE e == Reviewed(d, c, verdict)
           x == [state |-> AfterReview(verdict), verdict |-> verdict]
<1>1. d \in Documents /\ c \in Candidate /\ d.outcome \in Outcomes
  BY DocumentParts DEF SoundSet, Members
<1>2. x \in [state : States, verdict : Verdicts3] /\ x.state \in {"rejected", "reviewed"} /\ x.verdict = verdict
  BY DEF AfterReview, States
<1>3. e = OneChanged(d, c, x, d.outcome)
  BY <1>1 DEF Reviewed, Documents, OneChanged, Rewritten
<1> HIDE DEF x, e
<1>4. /\ e \in Documents /\ e.outcome = d.outcome /\ e.promoted = d.promoted
      /\ State(e, c) = x.state /\ Verdict(e, c) = verdict
      /\ \A b \in Candidate : b # c => State(e, b) = State(d, b) /\ Verdict(e, b) = Verdict(d, b)
  BY <1>1, <1>2, <1>3, OneCandidate
<1>5. State(d, c) # "promoted"
  BY TransitionTable DEF MayReview
<1>6. e.promoted = {b \in Candidate : State(e, b) = "promoted"} /\ c \notin e.promoted
  BY <1>1, <1>2, <1>4, <1>5 DEF SoundSet
<1>7. e.outcome \in {"rework-required", "rejected"} => AllJudged(e)
  <2> SUFFICES ASSUME d.outcome \in {"rework-required", "rejected"}, NEW b \in Members(e)
               PROVE  IsJudged(e, b)
    BY <1>4 DEF AllJudged
  <2>1. b \in Candidate /\ State(e, b) # "absent"
    BY DEF Members, State
  <2>2. CASE b = c
    BY <1>4, <2>2 DEF IsJudged
  <2>3. CASE b # c
    BY <1>4, <2>1, <2>3 DEF IsJudged, SoundSet, AllJudged, Members, State
  <2> QED BY <2>2, <2>3
<1>8. \A b \in Candidate : State(e, b) \in {"absent", "draft"} => Verdict(e, b) = "none"
  BY <1>1, <1>2, <1>4 DEF SoundSet
<1>9. \A b \in e.promoted : Verdict(e, b) = "pass"
  BY <1>1, <1>4, <1>6 DEF SoundSet
<1>10. \A b, f \in e.promoted : b = f
  BY <1>4 DEF SoundSet
<1>11. SoundSet(e)
  BY <1>4, <1>6, <1>7, <1>8, <1>9, <1>10 DEF SoundSet
<1> QED BY <1>11 DEF e

LEMMA RevisionIsCandidate ==
  ASSUME NEW d, NEW c \in Candidate, MayRework(d, c)
  PROVE  Revision(c) \in Candidate
<1>1. c[1] \in Direction /\ c[2] \in 0..MaxIteration /\ c[2] < MaxIteration
  BY DEF Candidate, MayRework
<1>2. c[2] + 1 \in 0..MaxIteration
  BY <1>1, CandidateAssumption
<1> QED BY <1>1, <1>2 DEF Candidate, Revision

\* A revision is a candidate nobody has seen, and reopens the set.
LEMMA AttachedIsSound ==
  ASSUME NEW d, SoundSet(d), NEW c \in Members(d), MayRework(d, c), Revision(c) \notin Members(d)
  PROVE  SoundSet(Attached(d, c))
<1> DEFINE e == Attached(d, c)
           r == Revision(c)
           x == [d.candidates[r] EXCEPT !.state = "draft"]
<1>1. d \in Documents /\ c \in Candidate
  BY DEF SoundSet, Members
<1>2. r \in Candidate
  BY <1>1, RevisionIsCandidate
<1>3. State(d, r) = "absent" /\ Verdict(d, r) = "none"
  BY <1>2 DEF SoundSet, Members, State
<1>4. x \in [state : States, verdict : Verdicts3] /\ x.state = "draft" /\ x.verdict = "none"
  <2>1. d.candidates[r] \in [state : States, verdict : Verdicts3]
    BY <1>1, <1>2, DocumentParts
  <2> QED BY <2>1, <1>3 DEF States, Verdict
<1>5. e = OneChanged(d, r, x, "undecided")
  BY <1>1 DEF Attached, MoveTo, Documents, OneChanged, Rewritten
<1>6. "undecided" \in Outcomes
  BY DEF Outcomes
<1> HIDE DEF x, e, r
<1>7. /\ e \in Documents /\ e.outcome = "undecided" /\ e.promoted = d.promoted
      /\ State(e, r) = "draft" /\ Verdict(e, r) = "none"
      /\ \A b \in Candidate : b # r => State(e, b) = State(d, b) /\ Verdict(e, b) = Verdict(d, b)
  BY <1>1, <1>2, <1>4, <1>5, <1>6, OneCandidate
<1>8. e.promoted = {b \in Candidate : State(e, b) = "promoted"} /\ r \notin e.promoted
  BY <1>2, <1>3, <1>7 DEF SoundSet
<1>9. \A b \in Candidate : State(e, b) \in {"absent", "draft"} => Verdict(e, b) = "none"
  BY <1>7 DEF SoundSet
<1>10. \A b \in e.promoted : Verdict(e, b) = "pass"
  BY <1>1, <1>7, <1>8 DEF SoundSet
<1>11. \A b, f \in e.promoted : b = f
  BY <1>7 DEF SoundSet
<1>12. SoundSet(e)
  BY <1>7, <1>8, <1>9, <1>10, <1>11 DEF SoundSet
<1> QED BY <1>12 DEF e

\* What giving every candidate of a document a state makes of it.
AllChanged(d, states, o, w) ==
  Rewritten(d, [c \in Candidate |-> [d.candidates[c] EXCEPT !.state = states[c]]], o, w)

LEMMA EveryCandidate ==
  ASSUME NEW d \in Documents, NEW states \in [Candidate -> States], NEW o \in Outcomes,
         NEW w \in SUBSET Candidate,
         NEW e, e = AllChanged(d, states, o, w)
  PROVE  /\ e \in Documents /\ e.outcome = o /\ e.promoted = w
         /\ \A c \in Candidate : State(e, c) = states[c] /\ Verdict(e, c) = Verdict(d, c)
<1> DEFINE cs == [c \in Candidate |-> [d.candidates[c] EXCEPT !.state = states[c]]]
<1>1. ASSUME NEW c \in Candidate
      PROVE  /\ cs[c] \in [state : States, verdict : Verdicts3]
             /\ cs[c].state = states[c] /\ cs[c].verdict = d.candidates[c].verdict
  <2>1. d.candidates[c] \in [state : States, verdict : Verdicts3] /\ states[c] \in States
    BY DocumentParts
  <2> QED BY <2>1
<1>2. cs \in [Candidate -> [state : States, verdict : Verdicts3]]
  BY <1>1
<1>3. e = Rewritten(d, cs, o, w)
  BY DEF AllChanged
<1> HIDE DEF cs
<1>4. e \in Documents /\ e.outcome = o /\ e.promoted = w /\ e.candidates = cs
  BY <1>2, <1>3, RewrittenIsDocument
<1> QED BY <1>1, <1>4 DEF State, Verdict

\* The winner passed its review, and everybody else is rejected.
LEMMA PromotedIsSound ==
  ASSUME NEW d, SoundSet(d), NEW c \in Members(d), MayPromote(d, c)
  PROVE  SoundSet(Promoted(d, c))
<1> DEFINE e == Promoted(d, c)
           states == [b \in Candidate |-> IF b \notin Members(d) THEN State(d, b)
                                          ELSE IF b = c THEN "promoted" ELSE "rejected"]
<1>1. d \in Documents /\ c \in Candidate /\ "promoted" \in Outcomes /\ {c} \in SUBSET Candidate
  BY DEF SoundSet, Members, Outcomes
<1>2. states \in [Candidate -> States]
  BY <1>1, DocumentParts DEF States
<1>3. e = AllChanged(d, states, "promoted", {c})
  <2>1. ASSUME NEW b \in Candidate
        PROVE  (IF b \notin Members(d) THEN d.candidates[b]
                ELSE [d.candidates[b] EXCEPT !.state = IF b = c THEN "promoted" ELSE "rejected"])
               = [d.candidates[b] EXCEPT !.state = states[b]]
    <3>1. d.candidates[b] \in [state : States, verdict : Verdicts3]
      BY <1>1, DocumentParts
    <3>2. [d.candidates[b] EXCEPT !.state = State(d, b)] = d.candidates[b]
      BY <3>1 DEF State
    <3> QED BY <3>2
  <2>2. [b \in Candidate |-> IF b \notin Members(d) THEN d.candidates[b]
           ELSE [d.candidates[b] EXCEPT !.state = IF b = c THEN "promoted" ELSE "rejected"]]
        = [b \in Candidate |-> [d.candidates[b] EXCEPT !.state = states[b]]]
    BY <2>1, Zenon
  <2> QED BY <2>2 DEF Promoted, AllChanged, Rewritten
<1>4. \A b \in Candidate : states[b] = IF b \notin Members(d) THEN State(d, b)
                                       ELSE IF b = c THEN "promoted" ELSE "rejected"
  OBVIOUS
<1> HIDE DEF e, states
<1>5. /\ e \in Documents /\ e.outcome = "promoted" /\ e.promoted = {c}
      /\ \A b \in Candidate : State(e, b) = states[b] /\ Verdict(e, b) = Verdict(d, b)
  BY <1>1, <1>2, <1>3, EveryCandidate
<1>6. \A b \in Candidate : b \in Members(d) <=> State(d, b) # "absent"
  BY DEF Members, State
<1>7. Verdict(e, c) = "pass" /\ e.promoted = {b \in Candidate : State(e, b) = "promoted"}
  BY <1>1, <1>4, <1>5, <1>6 DEF MayPromote
<1>8. SoundSet(e)
  BY <1>4, <1>5, <1>6, <1>7 DEF SoundSet
<1> QED BY <1>8 DEF e

\* Nobody won, and everybody was judged before the set was decided.
LEMMA DecidedIsSound ==
  ASSUME NEW d, SoundSet(d), NEW outcome \in Outcomes \ {"undecided"}, MayDecide(d, outcome)
  PROVE  SoundSet(Decided(d, outcome))
<1> DEFINE e == Decided(d, outcome)
           states == [b \in Candidate |-> IF outcome = "rejected" /\ b \in Members(d) THEN "rejected"
                                          ELSE State(d, b)]
<1>1. d \in Documents /\ d.promoted = {} /\ d.promoted \in SUBSET Candidate /\ AllJudged(d)
  BY DEF SoundSet, MayDecide
<1>2. states \in [Candidate -> States]
  BY <1>1, DocumentParts DEF States
<1>3. e = AllChanged(d, states, outcome, d.promoted)
  <2>1. ASSUME NEW b \in Candidate
        PROVE  (IF outcome = "rejected" /\ b \in Members(d)
                THEN [d.candidates[b] EXCEPT !.state = "rejected"]
                ELSE d.candidates[b])
               = [d.candidates[b] EXCEPT !.state = states[b]]
    <3>1. d.candidates[b] \in [state : States, verdict : Verdicts3]
      BY <1>1, DocumentParts
    <3>2. [d.candidates[b] EXCEPT !.state = State(d, b)] = d.candidates[b]
      BY <3>1 DEF State
    <3> QED BY <3>2
  <2>2. [b \in Candidate |-> IF outcome = "rejected" /\ b \in Members(d)
                             THEN [d.candidates[b] EXCEPT !.state = "rejected"]
                             ELSE d.candidates[b]]
        = [b \in Candidate |-> [d.candidates[b] EXCEPT !.state = states[b]]]
    BY <2>1, Zenon
  <2> QED BY <1>1, <2>2 DEF Decided, AllChanged, Rewritten, Documents
<1>4. \A b \in Candidate : states[b] = IF outcome = "rejected" /\ b \in Members(d) THEN "rejected"
                                       ELSE State(d, b)
  OBVIOUS
<1> HIDE DEF e, states
<1>5. /\ e \in Documents /\ e.outcome = outcome /\ e.promoted = {}
      /\ \A b \in Candidate : State(e, b) = states[b] /\ Verdict(e, b) = Verdict(d, b)
  BY <1>1, <1>2, <1>3, EveryCandidate
<1>6. \A b \in Candidate : b \in Members(d) <=> State(d, b) # "absent"
  BY DEF Members, State
<1>7. e.promoted = {b \in Candidate : State(e, b) = "promoted"}
  BY <1>1, <1>4, <1>5 DEF SoundSet
<1>8. AllJudged(e)
  <2> SUFFICES ASSUME NEW b \in Members(e) PROVE IsJudged(e, b)
    BY DEF AllJudged
  <2>1. b \in Candidate /\ State(e, b) # "absent"
    BY DEF Members, State
  <2>2. b \in Members(d)
    BY <2>1, <1>4, <1>5, <1>6
  <2>3. IsJudged(d, b)
    BY <1>1, <2>2 DEF AllJudged
  <2> QED BY <1>4, <1>5, <2>1, <2>3 DEF IsJudged
<1>9. \A b \in Candidate : State(e, b) \in {"absent", "draft"} => Verdict(e, b) = "none"
  BY <1>4, <1>5, <1>6 DEF SoundSet
<1>10. SoundSet(e)
  BY <1>5, <1>7, <1>8, <1>9 DEF SoundSet
<1> QED BY <1>10 DEF e

LEMMA CandidateStarts == CandidateInit => CandidateInv
BY CandidateAssumption DEF CandidateInit, CandidateInv

\* A handler writes a sound document over the file, and holds nothing new.
LEMMA WritingKeeps ==
  ASSUME CandidateInv, UNCHANGED <<generated, shooting, choosing>>, SoundSet(set')
  PROVE  CandidateInv'
BY DEF CandidateInv

\* A capture starts with what the file says, or ends.
LEMMA CameraKeeps ==
  ASSUME CandidateInv, NEW k \in Camera, NEW d,
         d = NoSet \/ (SoundSet(d) /\ d \in Documents), shooting' = [shooting EXCEPT ![k] = d],
         UNCHANGED <<generated, choosing>>, set' = set \/ SoundSet(set')
  PROVE  CandidateInv'
<1>1. shooting' \in [Camera -> Documents \cup {NoSet}]
  BY DEF CandidateInv
<1>2. \A q \in Camera : shooting'[q] = IF q = k THEN d ELSE shooting[q]
  BY DEF CandidateInv
<1> QED BY <1>1, <1>2 DEF CandidateInv

\* A promotion holds the document it is about to write, or has written it.
LEMMA PromoterKeeps ==
  ASSUME CandidateInv, NEW p \in Promoter, NEW d,
         d = NoSet \/ (SoundSet(d) /\ d \in Documents), choosing' = [choosing EXCEPT ![p] = d],
         UNCHANGED <<generated, shooting>>, set' = set \/ SoundSet(set')
  PROVE  CandidateInv'
<1>1. choosing' \in [Promoter -> Documents \cup {NoSet}]
  BY DEF CandidateInv
<1>2. \A q \in Promoter : choosing'[q] = IF q = p THEN d ELSE choosing[q]
  BY DEF CandidateInv
<1> QED BY <1>1, <1>2 DEF CandidateInv

LEMMA CandidateNextKeeps == CandidateInv /\ [CandidateNext]_setVars => CandidateInv'
<1> SUFFICES ASSUME CandidateInv, [CandidateNext]_setVars PROVE CandidateInv'
  OBVIOUS
<1>1. CASE GenerateCandidates
  <2>1. generated' \in 1..MaxSets /\ UNCHANGED <<shooting, choosing>> /\ set' = Fresh(generated')
    BY <1>1, CandidateAssumption DEF GenerateCandidates, CandidateInv
  <2>2. SoundSet(set')
    BY <2>1, FreshIsSound
  <2> QED BY <2>1, <2>2, CandidateAssumption DEF CandidateInv
<1>2. CASE \E k \in Camera : BeginCapture(k)
  <2>1. PICK k \in Camera : BeginCapture(k)
    BY <1>2
  <2>2. SoundSet(set) /\ set \in Documents
    BY <2>1 DEF BeginCapture, CandidateInv, SoundSet
  <2> QED BY <2>1, <2>2, CameraKeeps DEF BeginCapture
<1>3. CASE \E k \in Camera : CaptureThrows(k)
  BY <1>3, CameraKeeps DEF CaptureThrows
<1>4. CASE \E k \in Camera, blocked \in SUBSET Candidate : EndCapture(k, blocked)
  <2>1. PICK k \in Camera, blocked \in SUBSET Candidate : EndCapture(k, blocked)
    BY <1>4
  <2>2. SoundSet(set')
    BY <2>1, PhotographedIsSound DEF EndCapture, CandidateInv
  <2> QED BY <2>1, <2>2, CameraKeeps DEF EndCapture
<1>5. CASE \E c \in Candidate, verdict \in Verdicts3 \ {"none"} : ReviewCandidate(c, verdict)
  <2>1. PICK c \in Candidate, verdict \in Verdicts3 \ {"none"} : ReviewCandidate(c, verdict)
    BY <1>5
  <2>2. SoundSet(set')
    BY <2>1, ReviewedIsSound DEF ReviewCandidate, CandidateInv
  <2> QED BY <2>1, <2>2, WritingKeeps DEF ReviewCandidate
<1>6. CASE \E outcome \in Outcomes \ {"undecided"} : DecideSet(outcome)
  <2>1. PICK outcome \in Outcomes \ {"undecided"} : DecideSet(outcome)
    BY <1>6
  <2>2. SoundSet(set')
    BY <2>1, DecidedIsSound DEF DecideSet, CandidateInv
  <2> QED BY <2>1, <2>2, WritingKeeps DEF DecideSet
<1>7. CASE \E c \in Candidate : ReworkCandidate(c)
  <2>1. PICK c \in Candidate : ReworkCandidate(c)
    BY <1>7
  <2>2. SoundSet(set')
    <3>1. CASE Revision(c) \in Members(set)
      BY <2>1, <3>1 DEF ReworkCandidate, CandidateInv
    <3>2. CASE Revision(c) \notin Members(set)
      BY <2>1, <3>2, AttachedIsSound DEF ReworkCandidate, CandidateInv
    <3> QED BY <3>1, <3>2
  <2> QED BY <2>1, <2>2, WritingKeeps DEF ReworkCandidate
<1>8. CASE \E p \in Promoter, c \in Candidate : BeginPromotion(p, c)
  <2>1. PICK p \in Promoter, c \in Candidate : BeginPromotion(p, c)
    BY <1>8
  <2>2. SoundSet(Promoted(set, c)) /\ Promoted(set, c) \in Documents
    BY <2>1, PromotedIsSound DEF BeginPromotion, CandidateInv, SoundSet
  <2> QED BY <2>1, <2>2, PromoterKeeps DEF BeginPromotion
<1>9. CASE \E p \in Promoter : EndPromotion(p)
  <2>1. PICK p \in Promoter : EndPromotion(p)
    BY <1>9
  <2>2. SoundSet(set')
    BY <2>1 DEF EndPromotion, CandidateInv
  <2> QED BY <2>1, <2>2, PromoterKeeps DEF EndPromotion
<1>10. CASE \E p \in Promoter : PromotionThrows(p)
  BY <1>10, PromoterKeeps DEF PromotionThrows
<1>11. CASE UNCHANGED setVars
  BY <1>11 DEF setVars, CandidateInv
<1> QED BY <1>1, <1>2, <1>3, <1>4, <1>5, <1>6, <1>7, <1>8, <1>9, <1>10, <1>11 DEF CandidateNext

\* The directories of the candidates: each is of a set that was generated, and of
\* a direction and a rework pass there is.
BuiltOK == built \subseteq (1..MaxSets) \X Candidate

LEMMA BuiltStarts == CandidateInit => BuiltOK
BY DEF CandidateInit, BuiltOK

LEMMA BuiltKept == CandidateInv /\ BuiltOK /\ [CandidateNext]_setVars => BuiltOK'
<1> SUFFICES ASSUME CandidateInv, BuiltOK, [CandidateNext]_setVars PROVE BuiltOK'
  OBVIOUS
<1>1. CASE UNCHANGED built
  BY <1>1 DEF BuiltOK
<1>2. CASE GenerateCandidates
  <2>1. generated' \in 1..MaxSets
    BY <1>2, CandidateAssumption DEF GenerateCandidates, CandidateInv
  <2>2. Direction \X {0} \subseteq Candidate
    BY CandidateAssumption DEF Candidate
  <2> QED BY <1>2, <2>1, <2>2 DEF GenerateCandidates, BuiltOK
<1>3. CASE \E c \in Candidate : ReworkCandidate(c)
  <2>1. PICK c \in Candidate : ReworkCandidate(c)
    BY <1>3
  <2>2. set.setId \in 1..MaxSets
    BY <2>1, DocumentParts DEF ReworkCandidate, CandidateInv, SoundSet
  <2>3. Revision(c) \in Candidate
    BY <2>1, RevisionIsCandidate DEF ReworkCandidate
  <2> QED BY <2>1, <2>2, <2>3 DEF ReworkCandidate, BuiltOK
<1>4. CASE \E p \in Promoter : EndPromotion(p)
  BY <1>4 DEF EndPromotion, BuiltOK
<1>5. CASE \/ \E k \in Camera : BeginCapture(k) \/ CaptureThrows(k)
           \/ \E k \in Camera, blocked \in SUBSET Candidate : EndCapture(k, blocked)
           \/ \E p \in Promoter, c \in Candidate : BeginPromotion(p, c)
           \/ \E p \in Promoter : PromotionThrows(p)
  <2>1. UNCHANGED built
    BY <1>5 DEF BeginCapture, CaptureThrows, EndCapture, BeginPromotion, PromotionThrows
  <2> QED BY <2>1, <1>1
<1>6. CASE \/ \E c \in Candidate, verdict \in Verdicts3 \ {"none"} : ReviewCandidate(c, verdict)
           \/ \E outcome \in Outcomes \ {"undecided"} : DecideSet(outcome)
           \/ UNCHANGED setVars
  <2>1. UNCHANGED built
    BY <1>6 DEF ReviewCandidate, DecideSet, setVars
  <2> QED BY <2>1, <1>1
<1> QED BY <1>2, <1>3, <1>4, <1>5, <1>6 DEF CandidateNext

LEMMA CandidateTypes == CandidateInv /\ BuiltOK => CandidateTypeOK
BY DEF CandidateInv, BuiltOK, SoundSet, CandidateTypeOK

LEMMA CandidatesStaySound == CandidateSpec => []CandidateInv
BY CandidateStarts, CandidateNextKeeps, PTL DEF CandidateSpec

\* Whatever overlaps, the file never shows a second winner, nor one that failed.
THEOREM OneJudgedWinner == CandidateSpec => []WinnerIsJudged
<1>1. CandidateInv => WinnerIsJudged
  <2> SUFFICES ASSUME CandidateInv, set # NoSet
               PROVE  /\ set.promoted = {c \in Members(set) : State(set, c) = "promoted"}
                      /\ Cardinality(set.promoted) <= 1
                      /\ \A c \in set.promoted : Verdict(set, c) = "pass"
    BY DEF WinnerIsJudged
  <2>1. SoundSet(set)
    BY DEF CandidateInv
  <2>2. set.promoted = {c \in Members(set) : State(set, c) = "promoted"}
    BY <2>1 DEF SoundSet, Members, State
  <2>3. Cardinality(set.promoted) <= 1
    <3>1. CASE set.promoted = {}
      BY <3>1, FS_EmptySet
    <3>2. CASE set.promoted # {}
      <4>1. PICK c \in set.promoted : set.promoted = {c}
        BY <2>1, <3>2 DEF SoundSet
      <4>2. Cardinality({c}) = 1
        BY FS_Singleton
      <4> QED BY <4>1, <4>2
    <3> QED BY <3>1, <3>2
  <2> QED BY <2>1, <2>2, <2>3 DEF SoundSet
<1> QED BY <1>1, CandidatesStaySound, PTL

\* Nor an outcome that says none was good enough over one nobody looked at.
THEOREM RejectionSawThemAll == CandidateSpec => []NoneIsRejectedUnseen
<1>1. CandidateInv => NoneIsRejectedUnseen
  BY DEF CandidateInv, SoundSet, NoneIsRejectedUnseen
<1> QED BY <1>1, CandidatesStaySound, PTL
=============================================================================
