-------------------------- MODULE SupervisionProofs --------------------------
(***************************************************************************)
(* What the supervised preview, the model gateway and the pipeline         *)
(* rehearsal promise: for any number of calls, any prices and budgets, and *)
(* any pipeline.                                                           *)
(***************************************************************************)
EXTENDS MCSupervision, FiniteSetTheorems, TLAPS

-----------------------------------------------------------------------------
(* The preview.                                                            *)

PreviewInv == PreviewTypeOK /\ PreviewIsAlive

LEMMA PreviewStarts == PreviewInit => PreviewInv
<1> SUFFICES ASSUME PreviewInit PROVE PreviewInv
  OBVIOUS
<1>1. PreviewTypeOK
  BY PreviewAssumption DEF PreviewInit, PreviewTypeOK, PreviewLabels, Terminating
<1>2. PreviewIsAlive
  BY DEF PreviewInit, PreviewIsAlive
<1> QED BY <1>1, <1>2 DEF PreviewInv

\* Ending a child leaves the map alone, or empties it.
LEMMA TerminateKeeps ==
  ASSUME PreviewInv,
         NEW c \in PreviewCall, NEW k \in PreviewCall, NEW label \in Terminating,
         Terminate(c, k, label)
  PROVE  PreviewInv'
<1>1. preview' \in PreviewCall \cup {NoChild} /\ (preview' = preview \/ preview' = NoChild)
  BY DEF Terminate, PreviewInv, PreviewTypeOK
<1>2. /\ child' \in [PreviewCall -> {"none"} \cup Living \cup Dead]
      /\ ready' \in [PreviewCall -> BOOLEAN]
  BY DEF Terminate, PreviewInv, PreviewTypeOK
<1>3. previewAt' \in [PreviewCall -> PreviewLabels]
  BY DEF Terminate, PreviewInv, PreviewTypeOK, PreviewGoes, AfterEnding, PreviewLabels, PreviewDone
<1>4. ending' \in [PreviewCall -> PreviewCall \cup {NoChild}]
  BY DEF Terminate, PreviewInv, PreviewTypeOK
<1>5. \A d \in PreviewCall : previewAt'[d] \in Terminating => ending'[d] # NoChild
  <2> SUFFICES ASSUME NEW d \in PreviewCall, previewAt'[d] \in Terminating
               PROVE  ending'[d] # NoChild
    OBVIOUS
  <2>1. CASE d = c
    BY <2>1, PreviewAssumption DEF Terminate, PreviewInv, PreviewTypeOK
  <2>2. CASE d # c
    BY <2>2 DEF Terminate, PreviewInv, PreviewTypeOK, PreviewGoes
  <2> QED BY <2>1, <2>2
<1>6. PreviewIsAlive'
  BY <1>1 DEF Terminate, PreviewInv, PreviewIsAlive
<1> QED BY <1>1, <1>2, <1>3, <1>4, <1>5, <1>6 DEF PreviewInv, PreviewTypeOK

\* A step that only moves a call from one await to another, none of them an ending.
LEMMA MovingKeeps ==
  ASSUME PreviewInv, NEW c \in PreviewCall, NEW label \in PreviewLabels \ Terminating,
         PreviewGoes(c, label), UNCHANGED <<child, ending>>,
         ready' \in [PreviewCall -> BOOLEAN],
         preview' = preview \/ preview' = NoChild
  PROVE  PreviewInv'
<1>1. /\ preview' \in PreviewCall \cup {NoChild}
      /\ child' \in [PreviewCall -> {"none"} \cup Living \cup Dead]
      /\ ending' \in [PreviewCall -> PreviewCall \cup {NoChild}]
  BY DEF PreviewInv, PreviewTypeOK
<1>2. previewAt' \in [PreviewCall -> PreviewLabels]
  BY DEF PreviewInv, PreviewTypeOK, PreviewGoes
<1>3. \A d \in PreviewCall : previewAt'[d] \in Terminating => ending'[d] # NoChild
  BY DEF PreviewInv, PreviewTypeOK, PreviewGoes
<1>4. PreviewIsAlive'
  BY DEF PreviewInv, PreviewIsAlive
<1> QED BY <1>1, <1>2, <1>3, <1>4 DEF PreviewInv, PreviewTypeOK

LEMMA PreviewStepKeeps ==
  ASSUME PreviewInv, NEW c \in PreviewCall, PreviewStep(c)
  PROVE  PreviewInv'
<1> USE DEF PreviewLabels, PreviewDone, Terminating
<1>0. ready \in [PreviewCall -> BOOLEAN]
  BY DEF PreviewInv, PreviewTypeOK
<1>1. CASE AskPreview(c)
  BY <1>0, <1>1, MovingKeeps DEF AskPreview
<1>2. CASE StartDecided(c)
  BY <1>0, <1>2, MovingKeeps DEF StartDecided
<1>3. CASE SpawnChild(c)
  <2>1. PreviewTypeOK'
    BY <1>3 DEF SpawnChild, PreviewInv, PreviewTypeOK, PreviewGoes, Living
  <2>2. child'[c] = "booting" /\ preview' = c
    BY <1>3 DEF SpawnChild, PreviewInv, PreviewTypeOK
  <2> QED BY <2>1, <2>2 DEF PreviewInv, PreviewIsAlive, Living
<1>4. CASE NoPort(c)
  BY <1>0, <1>4, MovingKeeps DEF NoPort
<1>5. CASE ChildAnswers(c)
  <2>1. ready' \in [PreviewCall -> BOOLEAN]
    BY <1>0, <1>5 DEF ChildAnswers
  <2> QED BY <2>1, <1>5, MovingKeeps DEF ChildAnswers
<1>6. CASE WaitGivesUp(c)
  BY <1>6, TerminateKeeps DEF WaitGivesUp
<1>7. CASE StartRecorded(c)
  BY <1>0, <1>7, MovingKeeps, TerminateKeeps DEF StartRecorded
<1>8. CASE StopDecided(c)
  <2>1. CASE PreviewHeld
    <3>1. preview \in PreviewCall
      BY <2>1 DEF PreviewHeld, PreviewInv, PreviewTypeOK
    <3> QED BY <3>1, <2>1, <1>8, TerminateKeeps DEF StopDecided
  <2>2. CASE ~PreviewHeld
    BY <2>2, <1>0, <1>8, MovingKeeps DEF StopDecided
  <2> QED BY <2>1, <2>2
<1>9. CASE StopRecorded(c)
  BY <1>0, <1>9, MovingKeeps DEF StopRecorded
<1>10. CASE EndingTimesOut(c)
  <2>1. AfterEnding(previewAt[c]) \in PreviewLabels \ Terminating
    BY DEF AfterEnding
  <2> QED BY <2>1, <1>0, <1>10, MovingKeeps DEF EndingTimesOut
<1> QED
  BY <1>1, <1>2, <1>3, <1>4, <1>5, <1>6, <1>7, <1>8, <1>9, <1>10 DEF PreviewStep

\* A child that dies is let go of by everyone that knew it.
LEMMA DeathKeeps ==
  ASSUME PreviewInv, NEW k \in PreviewCall, NEW how \in Dead, ChildDies(k, how)
  PROVE  PreviewInv'
<1>1. /\ preview' \in PreviewCall \cup {NoChild}
      /\ preview' # NoChild => preview' = preview /\ preview # k
  BY DEF ChildDies, Released, PreviewInv, PreviewTypeOK
<1>2. /\ child' \in [PreviewCall -> {"none"} \cup Living \cup Dead]
      /\ \A d \in PreviewCall : d # k => child'[d] = child[d]
  BY DEF ChildDies, PreviewInv, PreviewTypeOK
<1>3. /\ ready' \in [PreviewCall -> BOOLEAN]
      /\ ending' \in [PreviewCall -> PreviewCall \cup {NoChild}]
  BY DEF ChildDies, PreviewInv, PreviewTypeOK
<1>4. previewAt' \in [PreviewCall -> PreviewLabels]
  BY DEF ChildDies, PreviewInv, PreviewTypeOK, AfterEnding, PreviewLabels, PreviewDone
<1>5. \A d \in PreviewCall : previewAt'[d] \in Terminating => ending'[d] # NoChild
  <2> SUFFICES ASSUME NEW d \in PreviewCall, previewAt'[d] \in Terminating
               PROVE  ending'[d] # NoChild
    OBVIOUS
  <2>1. d \notin Waiters(k)
    BY DEF ChildDies, AfterEnding, Terminating
  <2>2. previewAt'[d] = previewAt[d]
    BY <2>1 DEF ChildDies
  <2> QED BY <2>2 DEF ChildDies, PreviewInv, PreviewTypeOK
<1>6. PreviewIsAlive'
  BY <1>1, <1>2 DEF PreviewInv, PreviewTypeOK, PreviewIsAlive
<1> QED BY <1>1, <1>2, <1>3, <1>4, <1>5, <1>6 DEF PreviewInv, PreviewTypeOK

LEMMA PreviewNextKeeps == PreviewInv /\ [PreviewNext]_previewVars => PreviewInv'
<1> SUFFICES ASSUME PreviewInv, [PreviewNext]_previewVars PROVE PreviewInv'
  OBVIOUS
<1>1. CASE \E c \in PreviewCall : PreviewStep(c)
  BY <1>1, PreviewStepKeeps
<1>2. CASE \E k \in PreviewCall : ChildServes(k)
  <2>1. PICK k \in PreviewCall : ChildServes(k)
    BY <1>2
  <2>2. PreviewTypeOK'
    BY <2>1 DEF ChildServes, PreviewInv, PreviewTypeOK, Living
  <2>3. PreviewIsAlive'
    BY <2>1 DEF ChildServes, PreviewInv, PreviewTypeOK, PreviewIsAlive, Living
  <2> QED BY <2>2, <2>3 DEF PreviewInv
<1>3. CASE \E k \in PreviewCall, how \in Dead : ChildDies(k, how)
  BY <1>3, DeathKeeps
<1>4. CASE UNCHANGED previewVars
  BY <1>4 DEF previewVars, PreviewInv, PreviewTypeOK, PreviewIsAlive
<1> QED BY <1>1, <1>2, <1>3, <1>4 DEF PreviewNext

\* The map of previews never names a child that has ended, for any number of
\* overlapping starts, stops and deaths.
THEOREM HeldPreviewLives == PreviewSpec => []PreviewIsAlive
<1>1. PreviewSpec => []PreviewInv
  BY PreviewStarts, PreviewNextKeeps, PTL DEF PreviewSpec
<1>2. PreviewInv => PreviewIsAlive
  BY DEF PreviewInv
<1> QED BY <1>1, <1>2, PTL

-----------------------------------------------------------------------------
(* The model gateway.                                                      *)

\* A request that came after a call stays refused, because the call had spent
\* the decision; and a request that called came before every call it raced.
LateInv ==
  /\ modelAt \in [ModelCall -> ModelLabels]
  /\ called \subseteq ModelCall /\ late \subseteq ModelCall
  /\ called # {} => decisionSpent
  /\ \A r \in called : modelAt[r] \in Calling
  /\ \A r \in late : modelAt[r] \in {"journal denied", "403"}

LEMMA GatewayStarts == GatewayInit => LateInv
BY DEF GatewayInit, LateInv, ModelLabels

LEMMA RequestKeeps ==
  ASSUME LateInv, NEW r \in ModelCall,
         \/ Present(r) \/ RejectBody(r) \/ DeniedReturns(r) \/ ProviderFails(r)
         \/ OutcomeReturns(r) \/ \E u \in Usage : ProviderAnswers(r, u)
  PROVE  LateInv'
<1>1. UNCHANGED <<called, late>> /\ UNCHANGED decisionSpent
  BY DEF Present, RejectBody, DeniedReturns, ProviderFails, OutcomeReturns, ProviderAnswers, books
<1>2. modelAt' \in [ModelCall -> ModelLabels]
  BY DEF LateInv, Present, RejectBody, DeniedReturns, ProviderFails, OutcomeReturns,
         ProviderAnswers, ModelGoes, ModelLabels, Calling, Answered
<1>3. \A q \in ModelCall : q # r => modelAt'[q] = modelAt[q]
  BY DEF LateInv, Present, RejectBody, DeniedReturns, ProviderFails, OutcomeReturns,
         ProviderAnswers, ModelGoes
<1>4. /\ modelAt[r] \in Calling => modelAt'[r] \in Calling
      /\ modelAt[r] \in {"journal denied", "403"} => modelAt'[r] \in {"journal denied", "403"}
  BY DEF LateInv, Present, RejectBody, DeniedReturns, ProviderFails, OutcomeReturns,
         ProviderAnswers, ModelGoes, Calling
<1> QED BY <1>1, <1>2, <1>3, <1>4 DEF LateInv

LEMMA EvaluateKeeps ==
  ASSUME LateInv, NEW r \in ModelCall, NEW ask, Evaluate(r, ask)
  PROVE  LateInv'
<1>1. called' = called /\ decisionSpent' = decisionSpent /\ modelAt[r] = "body"
  BY DEF Evaluate, books
<1>2. modelAt' \in [ModelCall -> ModelLabels] /\ \A q \in ModelCall : q # r => modelAt'[q] = modelAt[q]
  BY DEF LateInv, Evaluate, ModelGoes, ModelLabels
<1>3. r \notin called
  BY <1>1 DEF LateInv, Calling
<1>4. called # {} => modelAt'[r] = "journal denied"
  BY DEF LateInv, Evaluate, LaneAllows, ModelGoes
<1>5. late' \subseteq ModelCall /\ \A q \in late' : q \in late \/ (q = r /\ called # {})
  BY DEF LateInv, Evaluate
<1>6. r \notin late
  BY <1>1 DEF LateInv
<1> QED BY <1>1, <1>2, <1>3, <1>4, <1>5, <1>6 DEF LateInv

LEMMA DispatchKeeps ==
  ASSUME LateInv, NEW r \in ModelCall, Dispatch(r)
  PROVE  LateInv'
<1>1. late' = late /\ modelAt[r] = "journal requested"
  BY DEF Dispatch
<1>2. modelAt' \in [ModelCall -> ModelLabels] /\ \A q \in ModelCall : q # r => modelAt'[q] = modelAt[q]
  BY DEF LateInv, Dispatch, ModelGoes, ModelLabels, Calling
<1>3. r \notin late /\ r \notin called
  BY <1>1 DEF LateInv, Calling
<1>4. CASE credential
  BY <1>1, <1>2, <1>3, <1>4 DEF LateInv, Dispatch, ModelGoes, Calling
<1>5. CASE ~credential
  BY <1>1, <1>2, <1>3, <1>5 DEF LateInv, Dispatch, ModelGoes, Calling
<1> QED BY <1>4, <1>5

LEMMA GatewayNextKeeps == LateInv /\ [GatewayNext]_modelVars => LateInv'
<1> SUFFICES ASSUME LateInv, [GatewayNext]_modelVars PROVE LateInv'
  OBVIOUS
<1>1. CASE \E r \in ModelCall : \/ Present(r) \/ RejectBody(r) \/ DeniedReturns(r)
                                \/ ProviderFails(r) \/ OutcomeReturns(r)
  BY <1>1, RequestKeeps
<1>2. CASE \E r \in ModelCall : Dispatch(r)
  BY <1>2, DispatchKeeps
<1>3. CASE \E r \in ModelCall, bound \in BOOLEAN, output \in 1..(OutputPerCall + 1) :
             Evaluate(r, [bound |-> bound, output |-> output])
  BY <1>3, EvaluateKeeps
<1>4. CASE \E r \in ModelCall, u \in Usage : ProviderAnswers(r, u)
  BY <1>4, RequestKeeps
<1>5. CASE TurnSwitch \/ TurnCredential \/ DecisionExpires \/ UNCHANGED modelVars
  BY <1>5 DEF TurnSwitch, TurnCredential, DecisionExpires, modelVars, books, LateInv
<1> QED BY <1>1, <1>2, <1>3, <1>4, <1>5 DEF GatewayNext

\* No request that is evaluated after a call was attempted reaches the provider,
\* for any number of requests and whatever the budgets.
THEOREM SpentDecisionRefuses == GatewaySpec => []LateCallsAreRefused
<1>1. GatewaySpec => []LateInv
  BY GatewayStarts, GatewayNextKeeps, PTL DEF GatewaySpec
<1>2. LateInv => LateCallsAreRefused
  BY DEF LateInv, LateCallsAreRefused, Calling
<1> QED BY <1>1, <1>2, PTL

-----------------------------------------------------------------------------
(* A sum over a finite set.  The library's induction theorems quantify over *)
(* an operator; a set of numbers does as well, and so the fold the spend is *)
(* compared with can be reasoned about: it may be taken apart at any        *)
(* element, not only at the one CHOOSE picks.                               *)

LEMMA Induction ==
  ASSUME NEW P \in SUBSET Nat, 0 \in P, \A n \in P : n + 1 \in P
  PROVE  P = Nat
<1> SUFFICES ASSUME P # Nat PROVE FALSE
  OBVIOUS
<1>1. Nat \ P # {} /\ Nat \ P \subseteq Nat
  OBVIOUS
<1>2. PICK m \in Nat \ P : \A k \in Nat \ P : <<k, m>> \notin OpToRel(<, Nat)
  BY <1>1, NatLessThanWellFounded, WFMin
<1>3. \A k \in Nat \ P : ~(k < m)
  BY <1>2 DEF OpToRel
<1>4. m - 1 \in Nat /\ m - 1 < m /\ m = (m - 1) + 1
  OBVIOUS
<1>5. QED
  BY <1>3, <1>4

Pick(s) == CHOOSE x \in s : TRUE

\* The table a sum over S is read from: v added up over every subset of S.
IsTable(f, v, T) ==
  f = [s \in T |-> IF s = {} THEN 0 ELSE v[Pick(s)] + f[s \ {Pick(s)}]]

Total(v, S) == (CHOOSE f : IsTable(f, v, SUBSET S))[S]

LEMMA Subsets ==
  ASSUME NEW S, IsFiniteSet(S)
  PROVE  \A s \in SUBSET S :
           /\ Cardinality(s) \in Nat
           /\ Cardinality(s) = 0 <=> s = {}
           /\ s # {} => Pick(s) \in s
           /\ \A x \in s : s \ {x} \in SUBSET S /\ Cardinality(s \ {x}) = Cardinality(s) - 1
<1> SUFFICES ASSUME NEW s \in SUBSET S
             PROVE  /\ Cardinality(s) \in Nat
                    /\ Cardinality(s) = 0 <=> s = {}
                    /\ s # {} => Pick(s) \in s
                    /\ \A x \in s : Cardinality(s \ {x}) = Cardinality(s) - 1
  OBVIOUS
<1>1. IsFiniteSet(s)
  BY FS_Subset
<1>2. QED
  BY <1>1, FS_CardinalityType, FS_EmptySet, FS_RemoveElement DEF Pick

\* There is such a table: it is built for the subsets of ever greater size.
LEMMA TableExists ==
  ASSUME NEW v, NEW S, IsFiniteSet(S)
  PROVE  \E f : IsTable(f, v, SUBSET S)
<1> DEFINE UpTo(n) == {s \in SUBSET S : Cardinality(s) <= n}
           P == {n \in Nat : \E f : IsTable(f, v, UpTo(n))}
<1>1. 0 \in P
  <2> DEFINE f == [s \in UpTo(0) |-> 0]
  <2>1. \A s \in UpTo(0) : s = {}
    BY Subsets
  <2>2. f = [s \in UpTo(0) |-> IF s = {} THEN 0 ELSE v[Pick(s)] + f[s \ {Pick(s)}]]
    BY <2>1
  <2>3. QED
    BY <2>2 DEF IsTable
<1>2. ASSUME NEW n \in P PROVE n + 1 \in P
  <2>1. PICK f : IsTable(f, v, UpTo(n))
    BY <1>2
  <2> DEFINE sum(g, s) == IF s = {} THEN 0 ELSE v[Pick(s)] + g[s \ {Pick(s)}]
             g == [s \in UpTo(n + 1) |-> sum(f, s)]
  <2>2. \A s \in UpTo(n) : f[s] = sum(f, s)
    BY <2>1 DEF IsTable
  <2>3. n \in Nat
    OBVIOUS
  <2>4. UpTo(n) \subseteq UpTo(n + 1)
    <3> SUFFICES ASSUME NEW s \in UpTo(n) PROVE Cardinality(s) <= n + 1
      OBVIOUS
    <3>1. Cardinality(s) \in Nat
      BY Subsets
    <3>2. QED
      BY <2>3, <3>1
  <2>5. \A s \in UpTo(n) : g[s] = f[s]
    BY <2>2, <2>4
  <2>6. \A s \in UpTo(n + 1) : s # {} => s \ {Pick(s)} \in UpTo(n)
    BY <2>3, Subsets
  <2>7. \A s \in UpTo(n + 1) : sum(f, s) = sum(g, s)
    <3> HIDE DEF g, UpTo
    <3>1. QED
      BY <2>5, <2>6
  <2>8. g = [s \in UpTo(n + 1) |-> sum(g, s)]
    BY <2>7
  <2>9. IsTable(g, v, UpTo(n + 1))
    BY <2>8 DEF IsTable
  <2> HIDE DEF g, UpTo, sum
  <2>10. QED
    BY <2>3, <2>9
<1> HIDE DEF P
<1>3. P \subseteq Nat
  BY DEF P
<1>4. Cardinality(S) \in Nat
  BY FS_CardinalityType
<1>5. Cardinality(S) \in P
  BY <1>1, <1>2, <1>3, <1>4, Induction
<1>6. UpTo(Cardinality(S)) = SUBSET S
  BY FS_Subset
<1>7. QED
  BY <1>5, <1>6 DEF P

\* Two tables of functions that agree on a set agree on that set.
LEMMA TablesAgree ==
  ASSUME NEW v, NEW w, NEW f, NEW g, NEW S, NEW T, NEW A, IsFiniteSet(S),
         A \subseteq S, A \subseteq T,
         IsTable(f, v, SUBSET S), IsTable(g, w, SUBSET T),
         \A x \in A : v[x] = w[x]
  PROVE  f[A] = g[A]
<1> DEFINE P == {n \in Nat : \A s \in SUBSET A : Cardinality(s) = n => f[s] = g[s]}
<1>1. IsFiniteSet(A)
  BY FS_Subset
<1>2. ASSUME NEW s \in SUBSET A
      PROVE  /\ s = {} => f[s] = g[s]
             /\ s # {} /\ f[s \ {Pick(s)}] = g[s \ {Pick(s)}] => f[s] = g[s]
  <2>1. s \in SUBSET S /\ s \in SUBSET T
    BY <1>2
  <2>2. f[s] = IF s = {} THEN 0 ELSE v[Pick(s)] + f[s \ {Pick(s)}]
    BY <2>1 DEF IsTable
  <2>3. g[s] = IF s = {} THEN 0 ELSE w[Pick(s)] + g[s \ {Pick(s)}]
    BY <2>1 DEF IsTable
  <2>4. s # {} => v[Pick(s)] = w[Pick(s)]
    BY <1>2 DEF Pick
  <2>5. QED
    BY <2>2, <2>3, <2>4
<1>3. 0 \in P
  <2> SUFFICES ASSUME NEW s \in SUBSET A, Cardinality(s) = 0 PROVE f[s] = g[s]
    OBVIOUS
  <2>1. s = {}
    BY <1>1, Subsets
  <2>2. QED
    BY <1>2, <2>1
<1>4. ASSUME NEW n \in P PROVE n + 1 \in P
  <2> SUFFICES ASSUME NEW s \in SUBSET A, Cardinality(s) = n + 1 PROVE f[s] = g[s]
    OBVIOUS
  <2>1. s # {}
    BY FS_EmptySet
  <2>2. s \ {Pick(s)} \in SUBSET A /\ Cardinality(s \ {Pick(s)}) = n
    BY <1>1, <2>1, Subsets
  <2>3. QED
    BY <1>2, <2>1, <2>2
<1> HIDE DEF P
<1>5. P \subseteq Nat
  BY DEF P
<1>6. Cardinality(A) \in P
  BY <1>1, <1>3, <1>4, <1>5, FS_CardinalityType, Induction
<1>7. QED
  BY <1>6 DEF P

\* A sum of numbers may be taken apart at any element.
AddsUp(f, v, T) == \A s \in T : /\ f[s] \in Nat
                                /\ \A x \in s : f[s] = v[x] + f[s \ {x}]

LEMMA TakeOut ==
  ASSUME NEW v, NEW S, IsFiniteSet(S), \A x \in S : v[x] \in Nat,
         NEW f, IsTable(f, v, SUBSET S)
  PROVE  AddsUp(f, v, SUBSET S)
<1> DEFINE Sums(s) == /\ f[s] \in Nat
                      /\ \A x \in s : f[s] = v[x] + f[s \ {x}]
           P == {n \in Nat : \A s \in SUBSET S : Cardinality(s) <= n => Sums(s)}
<1>1. ASSUME NEW s \in SUBSET S
      PROVE  f[s] = IF s = {} THEN 0 ELSE v[Pick(s)] + f[s \ {Pick(s)}]
  BY <1>1 DEF IsTable
<1>2. 0 \in P
  <2> SUFFICES ASSUME NEW s \in SUBSET S, Cardinality(s) <= 0 PROVE Sums(s)
    OBVIOUS
  <2>1. s = {}
    BY Subsets
  <2>2. f[s] = 0
    BY <1>1, <2>1
  <2>3. QED
    BY <2>1, <2>2
<1>3. ASSUME NEW n \in P PROVE n + 1 \in P
  <2> SUFFICES ASSUME NEW s \in SUBSET S, Cardinality(s) <= n + 1 PROVE Sums(s)
    OBVIOUS
  <2>1. CASE s = {}
    BY <1>1, <2>1
  <2> SUFFICES ASSUME s # {} PROVE Sums(s)
    BY <2>1
  <2> DEFINE p == Pick(s)
  <2>2. p \in s /\ p \in S /\ v[p] \in Nat /\ n \in Nat
    BY Subsets
  <2>3. \A t \in SUBSET s, x \in s : /\ t \ {x} \in SUBSET S
                                     /\ Cardinality(t \ {x}) <= n
    <3> SUFFICES ASSUME NEW t \in SUBSET s, NEW x \in s
                 PROVE  Cardinality(t \ {x}) <= n
      OBVIOUS
    <3>1. IsFiniteSet(s \ {x}) /\ Cardinality(s \ {x}) = Cardinality(s) - 1
      BY Subsets, FS_Subset
    <3>2. Cardinality(t \ {x}) <= Cardinality(s \ {x})
      BY <3>1, FS_Subset
    <3>3. Cardinality(s) \in Nat /\ Cardinality(t \ {x}) \in Nat
      BY Subsets
    <3>4. QED
      BY <2>2, <3>1, <3>2, <3>3
  <2>4. \A t \in SUBSET s, x \in s : Sums(t \ {x})
    BY <1>3, <2>3
  <2> HIDE DEF Sums
  <2>5. \A x \in s : Sums(s \ {x})
    BY <2>4
  <2>6. f[s] = v[p] + f[s \ {p}] /\ f[s \ {p}] \in Nat
    BY <1>1, <2>2, <2>5 DEF Sums
  <2> HIDE DEF p
  <2>7. ASSUME NEW x \in s, x # p
        PROVE  f[s] = v[x] + f[s \ {x}]
    <3> DEFINE rest == (s \ {p}) \ {x}
    <3>1. f[s \ {p}] = v[x] + f[rest]
      BY <2>2, <2>5, <2>7 DEF Sums
    <3>2. f[s \ {x}] = v[p] + f[rest]
      <4>1. rest = (s \ {x}) \ {p} /\ p \in s \ {x}
        BY <2>2, <2>7
      <4>2. QED
        BY <2>5, <4>1 DEF Sums
    <3>3. f[rest] \in Nat
      BY <2>2, <2>4, <2>7 DEF Sums
    <3>4. v[x] \in Nat
      OBVIOUS
    <3> HIDE DEF rest
    <3>5. QED
      BY <2>2, <2>6, <3>1, <3>2, <3>3, <3>4
  <2>8. f[s] \in Nat
    BY <2>2, <2>6
  <2>9. QED
    BY <2>6, <2>7, <2>8 DEF Sums
<1> HIDE DEF P
<1>4. P \subseteq Nat
  BY DEF P
<1>5. \A s \in SUBSET S : Cardinality(s) \in P
  BY <1>2, <1>3, <1>4, FS_Subset, FS_CardinalityType, Induction
<1>6. QED
  BY <1>5 DEF P, AddsUp

LEMMA TotalIsRead ==
  ASSUME NEW v, NEW S, IsFiniteSet(S), NEW f, IsTable(f, v, SUBSET S)
  PROVE  Total(v, S) = f[S]
<1> DEFINE g == CHOOSE g : IsTable(g, v, SUBSET S)
<1>1. IsTable(g, v, SUBSET S)
  OBVIOUS
<1> HIDE DEF g
<1>2. g[S] = f[S]
  BY <1>1, TablesAgree
<1>3. QED
  BY <1>2 DEF Total, g

\* The sum of one more number.
LEMMA TotalAdds ==
  ASSUME NEW v, NEW w, NEW S, IsFiniteSet(S), NEW x, x \notin S,
         \A y \in S : v[y] = w[y], \A y \in S \cup {x} : w[y] \in Nat
  PROVE  Total(w, S \cup {x}) = Total(v, S) + w[x] /\ Total(v, S) \in Nat
<1>1. IsFiniteSet(S \cup {x})
  BY FS_AddElement
<1>2. PICK f : IsTable(f, w, SUBSET (S \cup {x}))
  BY <1>1, TableExists
<1>3. PICK g : IsTable(g, v, SUBSET S)
  BY TableExists
<1>4. Total(w, S \cup {x}) = f[S \cup {x}] /\ Total(v, S) = g[S]
  BY <1>1, <1>2, <1>3, TotalIsRead
<1>5. (S \cup {x}) \ {x} = S /\ S \in SUBSET (S \cup {x})
  OBVIOUS
<1>6. f[S \cup {x}] = w[x] + f[S] /\ f[S] \in Nat
  <2> DEFINE T == S \cup {x}
  <2>1. /\ IsFiniteSet(T) /\ IsTable(f, w, SUBSET T) /\ \A y \in T : w[y] \in Nat
        /\ T \in SUBSET T /\ x \in T
    BY <1>1, <1>2
  <2> HIDE DEF T
  <2>2. AddsUp(f, w, SUBSET T)
    BY <2>1, TakeOut
  <2>3. f[T] = w[x] + f[T \ {x}]
    BY <2>1, <2>2 DEF AddsUp
  <2>4. QED
    BY <1>5, <2>2, <2>3 DEF T, AddsUp
<1>7. g[S] = f[S]
  BY <1>1, <1>2, <1>3, TablesAgree
<1>8. QED
  BY <1>4, <1>6, <1>7

\* One of the numbers grows by one.
LEMMA TotalGrows ==
  ASSUME NEW v, NEW w, NEW S, IsFiniteSet(S), NEW x \in S,
         \A y \in S : v[y] \in Nat, \A y \in S \ {x} : w[y] = v[y], w[x] = v[x] + 1
  PROVE  Total(w, S) = Total(v, S) + 1 /\ Total(v, S) \in Nat
<1> DEFINE R == S \ {x}
<1>1. IsFiniteSet(R) /\ x \notin R /\ R \cup {x} = S
  BY FS_RemoveElement
<1>2. /\ \A y \in R : v[y] = w[y]
      /\ \A y \in R \cup {x} : v[y] \in Nat
      /\ \A y \in R \cup {x} : w[y] \in Nat
      /\ \A y \in R : v[y] = v[y]
  OBVIOUS
<1> HIDE DEF R
<1>3. Total(w, R \cup {x}) = Total(v, R) + w[x] /\ Total(v, R) \in Nat
  BY <1>1, <1>2, TotalAdds
<1>4. Total(v, R \cup {x}) = Total(v, R) + v[x]
  BY <1>1, <1>2, TotalAdds
<1>5. v[x] \in Nat /\ w[x] = v[x] + 1
  OBVIOUS
<1>6. Total(w, S) = Total(v, R) + (v[x] + 1) /\ Total(v, S) = Total(v, R) + v[x]
  BY <1>1, <1>3, <1>4, <1>5
<1>7. QED
  BY <1>3, <1>5, <1>6

LEMMA TotalIsNat ==
  ASSUME NEW v, NEW S, IsFiniteSet(S), \A x \in S : v[x] \in Nat
  PROVE  Total(v, S) \in Nat
<1>1. PICK f : IsTable(f, v, SUBSET S)
  BY TableExists
<1>2. AddsUp(f, v, SUBSET S)
  BY <1>1, TakeOut
<1>3. Total(v, S) = f[S]
  BY <1>1, TotalIsRead
<1>4. QED
  BY <1>2, <1>3 DEF AddsUp

LEMMA TotalOfNone == \A v : Total(v, {}) = 0
<1> SUFFICES ASSUME NEW v PROVE Total(v, {}) = 0
  OBVIOUS
<1>1. IsFiniteSet({})
  BY FS_EmptySet
<1>2. PICK f : IsTable(f, v, SUBSET {})
  BY <1>1, TableExists
<1>3. f[{}] = 0
  BY <1>2 DEF IsTable
<1>4. QED
  BY <1>1, <1>2, <1>3, TotalIsRead

\* What SpendIsAccounted adds up, as a total.
Accounted == {r \in ModelCall : completed[r] # NoUsage}
InputOf == [r \in ModelCall |-> completed[r].input]
OutputOf == [r \in ModelCall |-> completed[r].output]

LEMMA InputFolds ==
  ASSUME IsFiniteSet(Accounted)
  PROVE  MapThenSumSet(LAMBDA r : completed[r].input, Accounted) = Total(InputOf, Accounted)
<1> DEFINE v == InputOf
           A == Accounted
           g == CHOOSE g : g = [s \in SUBSET A |->
                  IF s = {} THEN 0 ELSE completed[Pick(s)].input + g[s \ {Pick(s)}]]
<1>1. MapThenSumSet(LAMBDA r : completed[r].input, A) = g[A]
  BY DEF MapThenSumSet, MapThenFoldSet, Pick
<1>2. \A s \in SUBSET A : s # {} => completed[Pick(s)].input = v[Pick(s)]
  BY DEF Pick, InputOf, Accounted
<1> HIDE DEF v, A
<1>3. \A f : [s \in SUBSET A |-> IF s = {} THEN 0 ELSE completed[Pick(s)].input + f[s \ {Pick(s)}]]
             = [s \in SUBSET A |-> IF s = {} THEN 0 ELSE v[Pick(s)] + f[s \ {Pick(s)}]]
  BY <1>2
<1>4. PICK h : IsTable(h, v, SUBSET A)
  BY TableExists DEF A
<1>5. h = [s \in SUBSET A |-> IF s = {} THEN 0 ELSE completed[Pick(s)].input + h[s \ {Pick(s)}]]
  BY <1>3, <1>4 DEF IsTable
<1>6. g = [s \in SUBSET A |-> IF s = {} THEN 0 ELSE completed[Pick(s)].input + g[s \ {Pick(s)}]]
  BY <1>5
<1> HIDE DEF g
<1>7. IsTable(g, v, SUBSET A)
  BY <1>3, <1>6 DEF IsTable
<1>8. Total(v, A) = g[A]
  BY <1>7, TotalIsRead DEF A
<1>9. QED
  BY <1>1, <1>8 DEF v, A

LEMMA OutputFolds ==
  ASSUME IsFiniteSet(Accounted)
  PROVE  MapThenSumSet(LAMBDA r : completed[r].output, Accounted) = Total(OutputOf, Accounted)
<1> DEFINE v == OutputOf
           A == Accounted
           g == CHOOSE g : g = [s \in SUBSET A |->
                  IF s = {} THEN 0 ELSE completed[Pick(s)].output + g[s \ {Pick(s)}]]
<1>1. MapThenSumSet(LAMBDA r : completed[r].output, A) = g[A]
  BY DEF MapThenSumSet, MapThenFoldSet, Pick
<1>2. \A s \in SUBSET A : s # {} => completed[Pick(s)].output = v[Pick(s)]
  BY DEF Pick, OutputOf, Accounted
<1> HIDE DEF v, A
<1>3. \A f : [s \in SUBSET A |-> IF s = {} THEN 0 ELSE completed[Pick(s)].output + f[s \ {Pick(s)}]]
             = [s \in SUBSET A |-> IF s = {} THEN 0 ELSE v[Pick(s)] + f[s \ {Pick(s)}]]
  BY <1>2
<1>4. PICK h : IsTable(h, v, SUBSET A)
  BY TableExists DEF A
<1>5. h = [s \in SUBSET A |-> IF s = {} THEN 0 ELSE completed[Pick(s)].output + h[s \ {Pick(s)}]]
  BY <1>3, <1>4 DEF IsTable
<1>6. g = [s \in SUBSET A |-> IF s = {} THEN 0 ELSE completed[Pick(s)].output + g[s \ {Pick(s)}]]
  BY <1>5
<1> HIDE DEF g
<1>7. IsTable(g, v, SUBSET A)
  BY <1>3, <1>6 DEF IsTable
<1>8. Total(v, A) = g[A]
  BY <1>7, TotalIsRead DEF A
<1>9. QED
  BY <1>1, <1>8 DEF v, A

-----------------------------------------------------------------------------
\* The books, with the totals written as tables.
SpendSums == /\ spend.calls = Cardinality(Accounted)
             /\ spend.input = Total(InputOf, Accounted)
             /\ spend.output = Total(OutputOf, Accounted)

LEMMA AccountedSums ==
  ASSUME IsFiniteSet(Accounted)
  PROVE  SpendIsAccounted <=> SpendSums
<1>1. SpendIsAccounted <=>
        /\ spend.calls = Cardinality(Accounted)
        /\ spend.input = MapThenSumSet(LAMBDA r : completed[r].input, Accounted)
        /\ spend.output = MapThenSumSet(LAMBDA r : completed[r].output, Accounted)
  BY DEF SpendIsAccounted, Accounted
<1>2. QED
  BY <1>1, InputFolds, OutputFolds DEF SpendSums

\* Calls are accounted once, when their answer comes, and each is in the sum.
SpendInv ==
  /\ GatewayTypeOK
  /\ IsFiniteSet(Accounted)
  /\ \A r \in Accounted : modelAt[r] \in {"journal completed", "200"}
  /\ SpendSums

LEMMA NotAccounted == NoUsage \notin Usage
BY GatewayAssumption DEF NoUsage, Usage, Reported

LEMMA SpendStarts == GatewayInit => SpendInv
<1> SUFFICES ASSUME GatewayInit PROVE SpendInv
  OBVIOUS
<1>1. GatewayTypeOK
  BY DEF GatewayInit, GatewayTypeOK, ModelLabels, NoAsk
<1>2. Accounted = {}
  BY DEF GatewayInit, Accounted
<1>3. IsFiniteSet(Accounted) /\ Cardinality(Accounted) = 0
  BY <1>2, FS_EmptySet
<1>4. SpendSums
  BY <1>2, <1>3, TotalOfNone DEF SpendSums, GatewayInit
<1>5. QED
  BY <1>1, <1>2, <1>3, <1>4 DEF SpendInv

\* A step that accounts nothing, and moves no accounted call anywhere else.
LEMMA NothingAccounted ==
  ASSUME SpendInv, GatewayTypeOK', UNCHANGED <<spend, completed>>,
         \A r \in Accounted : modelAt'[r] \in {"journal completed", "200"}
  PROVE  SpendInv'
<1>1. Accounted' = Accounted /\ InputOf' = InputOf /\ OutputOf' = OutputOf
  BY DEF Accounted, InputOf, OutputOf
<1>2. QED
  BY <1>1 DEF SpendInv, SpendSums

\* A request moves on: none of its labels before the answer is an accounted one.
LEMMA RequestAccounts ==
  ASSUME SpendInv, NEW r \in ModelCall,
         \/ Present(r) \/ RejectBody(r) \/ DeniedReturns(r) \/ Dispatch(r)
         \/ ProviderFails(r) \/ OutcomeReturns(r)
  PROVE  SpendInv'
<1>1. UNCHANGED <<operator, asks, spend, completed, late>>
  BY DEF Present, RejectBody, DeniedReturns, Dispatch, ProviderFails, OutcomeReturns, books
<1>2. PICK label \in ModelLabels :
        /\ ModelGoes(r, label)
        /\ modelAt[r] \in {"journal completed", "200"} => label = "200"
  BY DEF Present, RejectBody, DeniedReturns, Dispatch, ProviderFails, OutcomeReturns,
         ModelLabels, Calling, Answered
<1>3. decisionSpent' \in BOOLEAN /\ called' \subseteq ModelCall
  BY DEF Present, RejectBody, DeniedReturns, Dispatch, ProviderFails, OutcomeReturns, books,
         SpendInv, GatewayTypeOK
<1>4. modelAt' \in [ModelCall -> ModelLabels]
  BY <1>2 DEF SpendInv, GatewayTypeOK, ModelGoes
<1>5. GatewayTypeOK'
  BY <1>1, <1>3, <1>4 DEF SpendInv, GatewayTypeOK, operator
<1>6. \A q \in Accounted : modelAt'[q] \in {"journal completed", "200"}
  <2>1. \A q \in ModelCall : q # r => modelAt'[q] = modelAt[q]
    BY <1>2 DEF SpendInv, GatewayTypeOK, ModelGoes
  <2>2. modelAt[r] \in {"journal completed", "200"} => modelAt'[r] = "200"
    BY <1>2 DEF SpendInv, GatewayTypeOK, ModelGoes
  <2>3. QED
    BY <2>1, <2>2 DEF SpendInv, Accounted
<1>7. QED
  BY <1>1, <1>5, <1>6, NothingAccounted

LEMMA EvaluateAccounts ==
  ASSUME SpendInv, NEW r \in ModelCall, NEW bound \in BOOLEAN, NEW output \in 1 .. (OutputPerCall + 1),
         Evaluate(r, [bound |-> bound, output |-> output])
  PROVE  SpendInv'
<1>1. /\ UNCHANGED <<enabled, credential, expired, decisionSpent, spend, completed, called>>
      /\ modelAt[r] = "body" /\ late' \subseteq ModelCall
      /\ \E label \in ModelLabels : ModelGoes(r, label)
  BY DEF Evaluate, operator, books, SpendInv, GatewayTypeOK, ModelLabels
<1>2. [bound |-> bound, output |-> output] \in [bound : BOOLEAN, output : Nat]
  BY GatewayAssumption
<1>3. asks' \in [ModelCall -> [bound : BOOLEAN, output : Nat]]
  BY <1>2 DEF Evaluate, SpendInv, GatewayTypeOK
<1>4. modelAt' \in [ModelCall -> ModelLabels]
  BY <1>1 DEF SpendInv, GatewayTypeOK, ModelGoes
<1>5. GatewayTypeOK'
  BY <1>1, <1>3, <1>4 DEF SpendInv, GatewayTypeOK
<1>6. \A q \in Accounted : modelAt'[q] \in {"journal completed", "200"}
  <2>1. \A q \in ModelCall : q # r => modelAt'[q] = modelAt[q]
    BY <1>1 DEF SpendInv, GatewayTypeOK, ModelGoes
  <2>2. r \notin Accounted
    BY <1>1 DEF SpendInv, GatewayTypeOK, ModelGoes
  <2>3. QED
    BY <2>1, <2>2 DEF SpendInv, Accounted
<1>7. QED
  BY <1>1, <1>5, <1>6, NothingAccounted

\* An answer is accounted: one more call, and its usage on top of the others'.
LEMMA AnswerAccounts ==
  ASSUME SpendInv, NEW r \in ModelCall, NEW u \in Usage, ProviderAnswers(r, u)
  PROVE  SpendInv'
<1>1. /\ modelAt[r] = "calling" /\ ModelGoes(r, "journal completed") /\ Account(r, u)
      /\ UNCHANGED <<enabled, credential, expired, asks, decisionSpent, called, late>>
  BY DEF ProviderAnswers, operator
<1>2. /\ completed' = [completed EXCEPT ![r] = u]
      /\ completed \in [ModelCall -> Usage \cup {NoUsage}]
      /\ spend \in [calls : Nat, input : Nat, output : Nat]
      /\ modelAt \in [ModelCall -> ModelLabels]
  BY <1>1 DEF Account, SpendInv, GatewayTypeOK
<1>3. u.input \in Nat /\ u.output \in Nat /\ u # NoUsage
  BY NotAccounted, GatewayAssumption DEF Usage, Reported
<1>4. r \notin Accounted
  BY <1>1 DEF SpendInv
<1>5. Accounted' = Accounted \cup {r}
  BY <1>2, <1>3 DEF Accounted
<1>6. spend' = [calls |-> spend.calls + 1, input |-> spend.input + u.input,
                output |-> spend.output + u.output]
  BY <1>1 DEF Account
<1>7. GatewayTypeOK'
  <2>1. completed' \in [ModelCall -> Usage \cup {NoUsage}]
    BY <1>2
  <2>2. modelAt' \in [ModelCall -> ModelLabels]
    BY <1>1, <1>2 DEF ModelGoes, ModelLabels, Calling
  <2>3. spend' \in [calls : Nat, input : Nat, output : Nat]
    BY <1>2, <1>3, <1>6
  <2>4. QED
    BY <1>1, <2>1, <2>2, <2>3 DEF SpendInv, GatewayTypeOK
<1>8. \A q \in Accounted' : modelAt'[q] \in {"journal completed", "200"}
  BY <1>1, <1>2, <1>5 DEF SpendInv, ModelGoes, Accounted
<1>9. IsFiniteSet(Accounted') /\ Cardinality(Accounted') = Cardinality(Accounted) + 1
  BY <1>4, <1>5, FS_AddElement DEF SpendInv
<1>10. /\ \A q \in Accounted : /\ InputOf'[q] = InputOf[q] /\ InputOf[q] \in Nat
                               /\ OutputOf'[q] = OutputOf[q] /\ OutputOf[q] \in Nat
       /\ InputOf'[r] = u.input /\ OutputOf'[r] = u.output
  <2>1. \A q \in Accounted : completed[q] \in Usage /\ q \in ModelCall /\ q # r
    BY <1>2, <1>4 DEF Accounted
  <2>2. \A q \in Accounted : completed[q].input \in Nat /\ completed[q].output \in Nat
    BY <2>1, GatewayAssumption DEF Usage, Reported
  <2>3. QED
    BY <1>2, <2>1, <2>2 DEF InputOf, OutputOf
<1>11. Total(InputOf', Accounted') = Total(InputOf, Accounted) + u.input
  <2> DEFINE v == InputOf
             w == InputOf'
             S == Accounted
  <2>1. /\ IsFiniteSet(S) /\ r \notin S /\ \A y \in S : v[y] = w[y]
        /\ \A y \in S \cup {r} : w[y] \in Nat
    BY <1>3, <1>4, <1>10 DEF SpendInv
  <2> HIDE DEF v, w, S
  <2>2. Total(w, S \cup {r}) = Total(v, S) + w[r]
    BY <2>1, TotalAdds
  <2>3. QED
    BY <1>5, <1>10, <2>2 DEF v, w, S
<1>12. Total(OutputOf', Accounted') = Total(OutputOf, Accounted) + u.output
  <2> DEFINE v == OutputOf
             w == OutputOf'
             S == Accounted
  <2>1. /\ IsFiniteSet(S) /\ r \notin S /\ \A y \in S : v[y] = w[y]
        /\ \A y \in S \cup {r} : w[y] \in Nat
    BY <1>3, <1>4, <1>10 DEF SpendInv
  <2> HIDE DEF v, w, S
  <2>2. Total(w, S \cup {r}) = Total(v, S) + w[r]
    BY <2>1, TotalAdds
  <2>3. QED
    BY <1>5, <1>10, <2>2 DEF v, w, S
<1>13. SpendSums'
  BY <1>6, <1>9, <1>11, <1>12 DEF SpendInv, SpendSums
<1>14. QED
  BY <1>7, <1>8, <1>9, <1>13 DEF SpendInv

LEMMA SpendKeeps == SpendInv /\ [GatewayNext]_modelVars => SpendInv'
<1> SUFFICES ASSUME SpendInv, [GatewayNext]_modelVars PROVE SpendInv'
  OBVIOUS
<1>1. CASE \E r \in ModelCall : \/ Present(r) \/ RejectBody(r) \/ DeniedReturns(r) \/ Dispatch(r)
                                \/ ProviderFails(r) \/ OutcomeReturns(r)
  BY <1>1, RequestAccounts
<1>2. CASE \E r \in ModelCall, bound \in BOOLEAN, output \in 1..(OutputPerCall + 1) :
             Evaluate(r, [bound |-> bound, output |-> output])
  BY <1>2, EvaluateAccounts
<1>3. CASE \E r \in ModelCall, u \in Usage : ProviderAnswers(r, u)
  BY <1>3, AnswerAccounts
<1>4. CASE TurnSwitch \/ TurnCredential \/ DecisionExpires \/ UNCHANGED modelVars
  <2>1. UNCHANGED <<asks, modelAt, decisionSpent, spend, completed, called, late>>
    BY <1>4 DEF TurnSwitch, TurnCredential, DecisionExpires, modelVars, books
  <2>2. enabled' \in BOOLEAN /\ credential' \in BOOLEAN /\ expired' \in BOOLEAN
    BY <1>4 DEF TurnSwitch, TurnCredential, DecisionExpires, modelVars, operator,
                SpendInv, GatewayTypeOK
  <2>3. GatewayTypeOK'
    BY <2>1, <2>2 DEF SpendInv, GatewayTypeOK
  <2>4. QED
    BY <2>1, <2>3, NothingAccounted DEF SpendInv
<1>5. QED
  BY <1>1, <1>2, <1>3, <1>4 DEF GatewayNext

\* The spend of the decision is the number and the sum of the answers accounted,
\* for any number of requests, however they overlap and whatever they report.
THEOREM SpendAddsUp == GatewaySpec => []SpendIsAccounted
<1>1. GatewaySpec => []SpendInv
  BY SpendStarts, SpendKeeps, PTL DEF GatewaySpec
<1>2. SpendInv => SpendIsAccounted
  BY AccountedSums DEF SpendInv
<1>3. QED
  BY <1>1, <1>2, PTL

-----------------------------------------------------------------------------
(* The pipeline rehearsal.                                                 *)

\* The labels at which the engine is busy with a stage.
Busy == AttemptLabels \cup {"approval", "review", "attempted", "produced", "promoted", "rework"}
Needs(s) == Pipeline[s].reviewer = "human" => s \in approved

\* What the engine carries from one append to the next: every stage before its
\* own is complete, and a promotion it writes has everything it needs by then.
CarriesInv ==
  /\ engineAt \in Busy => stage \in Stage \ complete /\ \A t \in Stage : t < stage => t \in complete
  /\ engineAt \in {"produced", "promoted"} => outcome = "promoted"
  /\ engineAt = "promoted" => Produces(stage) \subseteq available
  /\ engineAt \in {"attempted", "produced", "promoted"} /\ outcome = "promoted" => Needs(stage)
  /\ engineAt = "review" => Pipeline[stage].reviewer # "human"
  /\ engineAt = "rework" => target # 0

RehearsalInv ==
  /\ complete \subseteq Stage
  /\ target \in Stage \cup {0}
  /\ CarriesInv
  /\ CompleteIsBacked

LEMMA StagesAreNumbers == Stage \subseteq Nat
BY PipelineAssumption DEF Stage

LEMMA RehearsalStarts == RehearsalInit => RehearsalInv
BY DEF RehearsalInit, RehearsalInv, CarriesInv, CompleteIsBacked, Busy, AttemptLabels, AttemptAppends

LEMMA LabelsOfAttempts ==
  AttemptLabels = {"created", "starting", "running", "stopping", "exited", "disposed"}
BY DEF AttemptLabels, AttemptAppends

\* While an attempt is under way nothing but its own journal changes.
LEMMA FollowsInOrder ==
  \A label \in AttemptLabels \ {"disposed"} : Follows(label) \in AttemptLabels
<1> SUFFICES ASSUME NEW label \in AttemptLabels \ {"disposed"}
             PROVE  Follows(label) \in AttemptLabels
  OBVIOUS
<1>1. PICK i \in 1..5 : AttemptAppends[i] = label
  BY LabelsOfAttempts DEF AttemptAppends
<1>2. \A j \in DOMAIN AttemptAppends : AttemptAppends[j] = label => j = i
  BY <1>1 DEF AttemptAppends
<1>3. (CHOOSE j \in DOMAIN AttemptAppends : AttemptAppends[j] = label) = i
  BY <1>1, <1>2 DEF AttemptAppends
<1>4. Follows(label) = AttemptAppends[1 + i]
  BY <1>3 DEF Follows
<1> QED BY <1>4 DEF AttemptLabels, AttemptAppends

LEMMA EngineKeeps ==
  ASSUME RehearsalInv, EngineStep
  PROVE  RehearsalInv'
<1> USE LabelsOfAttempts DEF Busy
<1>1. CASE Read
  BY <1>1 DEF Read, Runnable, IsNext, Goes, ledger, RehearsalInv, CarriesInv, CompleteIsBacked, Needs
<1>2. CASE RecordTask \/ RecordSeeds \/ RecordCheckpoint
  BY <1>2 DEF RecordTask, RecordSeeds, RecordCheckpoint, Goes, ledger, RehearsalInv, CarriesInv,
              CompleteIsBacked, Needs
<1>3. CASE RecordAttempt
  BY <1>3, FollowsInOrder DEF RecordAttempt, Goes, RehearsalInv, CarriesInv, CompleteIsBacked, Needs
<1>4. CASE RecordApproval \/ RecordReview \/ RecordAttempted
  BY <1>4 DEF RecordApproval, RecordReview, RecordAttempted, Goes, ledger, RehearsalInv, CarriesInv,
              CompleteIsBacked, Needs
<1>5. CASE RecordProduced
  BY <1>5 DEF RecordProduced, Goes, RehearsalInv, CarriesInv, CompleteIsBacked, Needs
<1>6. CASE RecordPromoted
  BY <1>6 DEF RecordPromoted, Goes, RehearsalInv, CarriesInv, CompleteIsBacked, Needs
<1>7. CASE RecordRework
  <2>1. /\ complete' = {s \in complete : s < target}
        /\ engineAt' = "reading"
        /\ UNCHANGED <<available, approved, stage, outcome, target>>
    BY <1>7 DEF RecordRework, Goes
  <2>2. complete \subseteq Stage /\ target \in Nat
    BY StagesAreNumbers DEF RehearsalInv
  <2>3. \A s \in complete', t \in Stage : t < s => t \in complete'
    <3> SUFFICES ASSUME NEW s \in complete', NEW t \in Stage, t < s
                 PROVE  t \in complete'
      OBVIOUS
    <3>1. s \in complete /\ s < target
      BY <2>1
    <3>2. t \in complete
      BY <3>1 DEF RehearsalInv, CompleteIsBacked
    <3>3. s \in Nat /\ t \in Nat
      BY <3>1, <2>2, StagesAreNumbers
    <3>4. t < target
      BY <3>1, <3>3, <2>2
    <3> QED BY <3>2, <3>4, <2>1
  <2>4. CompleteIsBacked'
    BY <2>1, <2>3 DEF CompleteIsBacked, RehearsalInv, Produces
  <2> QED BY <2>1, <2>2, <2>4 DEF RehearsalInv, CarriesInv
<1>8. CASE \E verdict \in {"pass", "rework-required", "blocked"}, sound \in BOOLEAN :
             RecordDisposed(verdict, sound)
  <2>1. PICK verdict \in {"pass", "rework-required", "blocked"}, sound \in BOOLEAN :
               RecordDisposed(verdict, sound)
    BY <1>8
  <2>2. UNCHANGED <<available, complete, approved, stage>> /\ target' \in Stage \cup {0}
    BY <2>1 DEF RecordDisposed
  <2>3. outcome' = "promoted" /\ Pipeline[stage].reviewer = "human" => stage \in Approvals
    BY <2>1 DEF RecordDisposed, OutcomeOf, Promotes
  <2>4. /\ engineAt' \in {"attempted", "approval", "review"}
        /\ engineAt' = "review" => Pipeline[stage].reviewer # "human"
        /\ engineAt' = "attempted" /\ Pipeline[stage].reviewer = "human" => stage \notin Approvals \ approved
    BY <2>1 DEF RecordDisposed, Goes
  <2> QED BY <2>1, <2>2, <2>3, <2>4 DEF RecordDisposed, RehearsalInv, CarriesInv, CompleteIsBacked, Needs
<1> QED BY <1>1, <1>2, <1>3, <1>4, <1>5, <1>6, <1>7, <1>8 DEF EngineStep

LEMMA RehearsalNextKeeps == RehearsalInv /\ [RehearsalNext]_rehearsalVars => RehearsalInv'
<1> SUFFICES ASSUME RehearsalInv, [RehearsalNext]_rehearsalVars PROVE RehearsalInv'
  OBVIOUS
<1>1. CASE EngineStep
  BY <1>1, EngineKeeps
<1>2. CASE Finish \/ Dies \/ Construct
  BY <1>2, LabelsOfAttempts DEF Finish, Dies, Construct, Goes, ledger, Busy, Ended, RehearsalInv,
              CarriesInv, CompleteIsBacked, Needs
<1>3. CASE Recovers
  BY <1>3, LabelsOfAttempts DEF Recovers, Reconciled, Reconcile, Goes, ledger, Busy, RehearsalInv,
              CarriesInv, CompleteIsBacked, Needs
<1>4. CASE UNCHANGED rehearsalVars
  BY <1>4 DEF rehearsalVars, ledger, RehearsalInv, CarriesInv, CompleteIsBacked, Needs, Busy
<1> QED BY <1>1, <1>2, <1>3, <1>4 DEF RehearsalNext

\* For any pipeline, and an engine that dies at any append as often as it likes,
\* what the ledger calls complete is a prefix with its artifacts and approvals.
THEOREM NoStageIsWalkedPast == RehearsalSpec => []CompleteIsBacked
<1>1. RehearsalSpec => []RehearsalInv
  BY RehearsalStarts, RehearsalNextKeeps, PTL DEF RehearsalSpec
<1>2. RehearsalInv => CompleteIsBacked
  BY DEF RehearsalInv
<1> QED BY <1>1, <1>2, PTL

-----------------------------------------------------------------------------
\* The types of the rehearsal's variables.
LEMMA RehearsalTypesStart == RehearsalInit => RehearsalTypeOK
<1> SUFFICES ASSUME RehearsalInit PROVE RehearsalTypeOK
  OBVIOUS
<1>1. MaxEngines \in Nat
  BY PipelineAssumption
<1>2. engines \in 0 .. MaxEngines
  BY <1>1 DEF RehearsalInit
<1>3. engineAt \in EngineLabels /\ outcome \in RehearsalOutcomes
  BY DEF RehearsalInit, EngineLabels, Ended, RehearsalOutcomes
<1> QED BY <1>2, <1>3 DEF RehearsalInit, RehearsalTypeOK

LEMMA ProducesKinds == \A s \in Stage : Produces(s) \subseteq STRING
<1> DEFINE R == [role : STRING, reviewer : STRING, requires : SUBSET STRING,
                 produces : SUBSET STRING]
<1> SUFFICES ASSUME NEW s \in Stage PROVE Produces(s) \subseteq STRING
  OBVIOUS
<1>1. Pipeline \in Seq(R)
  BY PipelineAssumption
<1> HIDE DEF R
<1>2. Pipeline[s] \in R
  BY <1>1 DEF Stage
<1> QED BY <1>2 DEF R, Produces

LEMMA EngineTypes ==
  ASSUME RehearsalInv, RehearsalTypeOK, EngineStep
  PROVE  RehearsalTypeOK'
<1> USE DEF RehearsalTypeOK
<1>1. engineAt \in Busy => stage \in Stage
  BY DEF RehearsalInv, CarriesInv
<1>2. AttemptLabels \subseteq Busy /\ AttemptLabels \subseteq EngineLabels
      /\ {"approval", "review", "attempted", "produced", "promoted", "rework"} \subseteq Busy
      /\ {"reading", "task", "seeds", "stopped", "approval", "review", "attempted",
          "produced", "promoted", "checkpoint", "rework", "created"} \subseteq EngineLabels
  BY LabelsOfAttempts DEF Busy, EngineLabels, Ended
<1>3. CASE Read
  BY <1>2, <1>3 DEF Read, Goes, ledger, RehearsalOutcomes
<1>4. CASE RecordTask \/ RecordSeeds \/ RecordCheckpoint \/ RecordReview
  BY <1>2, <1>4, PipelineAssumption DEF RecordTask, RecordSeeds, RecordCheckpoint, RecordReview,
                                        Goes, ledger
<1>5. CASE RecordAttempt
  <2>1. stage \in Stage /\ line' \in [Stage -> AttemptLabels \cup {"none"}]
    BY <1>1, <1>2, <1>5 DEF RecordAttempt
  <2>2. engineAt' \in EngineLabels
    BY <1>2, <1>5, FollowsInOrder DEF RecordAttempt, Goes
  <2> QED BY <1>5, <2>1, <2>2 DEF RecordAttempt
<1>6. CASE RecordApproval
  BY <1>1, <1>2, <1>6 DEF RecordApproval, Goes
<1>7. CASE RecordAttempted
  <2>1. stage \in Stage
    BY <1>1, <1>2, <1>7 DEF RecordAttempted
  <2>2. iterations' \in [Stage -> Nat] /\ line' \in [Stage -> AttemptLabels \cup {"none"}]
    BY <1>7, <2>1 DEF RecordAttempted
  <2>3. noProgress' \in Nat /\ engineAt' \in EngineLabels
    BY <1>2, <1>7 DEF RecordAttempted, Goes
  <2> QED BY <1>7, <2>2, <2>3 DEF RecordAttempted
<1>8. CASE RecordProduced
  BY <1>1, <1>2, <1>8, ProducesKinds DEF RecordProduced, Goes
<1>9. CASE RecordPromoted
  BY <1>1, <1>2, <1>9 DEF RecordPromoted, Goes
<1>10. CASE RecordRework
  BY <1>2, <1>10 DEF RecordRework, Goes
<1>11. CASE \E verdict \in {"pass", "rework-required", "blocked"}, sound \in BOOLEAN :
              RecordDisposed(verdict, sound)
  <2>1. PICK verdict \in {"pass", "rework-required", "blocked"}, sound \in BOOLEAN :
               RecordDisposed(verdict, sound)
    BY <1>11
  <2>2. outcome' \in RehearsalOutcomes
    BY <2>1 DEF RecordDisposed, OutcomeOf, RehearsalOutcomes
  <2>3. stage \in Stage /\ line' \in [Stage -> AttemptLabels \cup {"none"}]
    BY <1>1, <1>2, <2>1, LabelsOfAttempts DEF RecordDisposed
  <2>4. engineAt' \in EngineLabels
    BY <1>2, <2>1 DEF RecordDisposed, Goes
  <2> QED BY <2>1, <2>2, <2>3, <2>4 DEF RecordDisposed
<1> QED BY <1>3, <1>4, <1>5, <1>6, <1>7, <1>8, <1>9, <1>10, <1>11 DEF EngineStep

LEMMA RehearsalTypesKept ==
  RehearsalInv /\ RehearsalTypeOK /\ [RehearsalNext]_rehearsalVars => RehearsalTypeOK'
<1> SUFFICES ASSUME RehearsalInv, RehearsalTypeOK, [RehearsalNext]_rehearsalVars
             PROVE  RehearsalTypeOK'
  OBVIOUS
<1>1. CASE EngineStep
  BY <1>1, EngineTypes
<1>2. CASE Finish \/ Dies
  BY <1>2 DEF Finish, Dies, Goes, ledger, RehearsalTypeOK, EngineLabels, Ended
<1>3. CASE Construct
  BY <1>3, PipelineAssumption DEF Construct, Goes, ledger, RehearsalTypeOK, EngineLabels,
                                  RehearsalOutcomes
<1>4. CASE Recovers
  <2>1. CASE Reconciled
    BY <2>1 DEF Reconciled, Goes, ledger, RehearsalTypeOK, EngineLabels
  <2>2. CASE \E s \in Stage : Reconcile(s)
    BY <2>2, LabelsOfAttempts DEF Reconcile, RehearsalTypeOK
  <2> QED BY <1>4, <2>1, <2>2 DEF Recovers
<1>5. CASE UNCHANGED rehearsalVars
  BY <1>5 DEF rehearsalVars, ledger, RehearsalTypeOK
<1> QED BY <1>1, <1>2, <1>3, <1>4, <1>5 DEF RehearsalNext

\* The attempts an engine has let through but not recorded are one at most, and
\* it is let through while there is budget left.
BudgetInv ==
  /\ RehearsalInv /\ RehearsalTypeOK
  /\ Total(iterations, Stage) <= MaxIterations
  /\ noProgress <= MaxNoProgress
  /\ engineAt \in AttemptLabels \cup {"approval", "review", "attempted"} =>
       Total(iterations, Stage) < MaxIterations /\ noProgress < MaxNoProgress

LEMMA StagesAreFinite == IsFiniteSet(Stage)
<1>1. Stage = 1 .. Len(Pipeline) /\ Len(Pipeline) \in Nat
  BY PipelineAssumption DEF Stage
<1> QED BY <1>1, FS_Interval

LEMMA AttemptsFold == AttemptCount = Total(iterations, Stage)
BY DEF AttemptCount, MapThenSumSet, MapThenFoldSet, Total, IsTable, Pick

\* No attempt has been recorded: the sum of zeros is zero.
LEMMA TotalOfZeros ==
  ASSUME NEW S, IsFiniteSet(S)
  PROVE  Total([s \in S |-> 0], S) = 0
<1> DEFINE v == [s \in S |-> 0]
           f == [s \in SUBSET S |-> 0]
<1>1. \A s \in SUBSET S : s # {} => v[Pick(s)] = 0 /\ s \ {Pick(s)} \in SUBSET S
  BY DEF Pick
<1>2. IsTable(f, v, SUBSET S)
  BY <1>1 DEF IsTable
<1>3. Total(v, S) = f[S]
  BY <1>2, TotalIsRead
<1> QED BY <1>3

LEMMA BudgetStarts == RehearsalInit => BudgetInv
<1> SUFFICES ASSUME RehearsalInit PROVE BudgetInv
  OBVIOUS
<1>1. Total(iterations, Stage) = 0 /\ noProgress = 0
  BY StagesAreFinite, TotalOfZeros DEF RehearsalInit
<1>2. engineAt \notin AttemptLabels \cup {"approval", "review", "attempted"}
  BY LabelsOfAttempts DEF RehearsalInit
<1>3. MaxIterations \in Nat /\ MaxNoProgress \in Nat
  BY PipelineAssumption
<1> QED BY <1>1, <1>2, <1>3, RehearsalStarts, RehearsalTypesStart DEF BudgetInv

LEMMA BudgetKept == BudgetInv /\ [RehearsalNext]_rehearsalVars => BudgetInv'
<1> SUFFICES ASSUME BudgetInv, [RehearsalNext]_rehearsalVars PROVE BudgetInv'
  OBVIOUS
<1>1. RehearsalInv' /\ RehearsalTypeOK'
  BY RehearsalNextKeeps, RehearsalTypesKept DEF BudgetInv
<1>2. /\ MaxIterations \in Nat /\ MaxNoProgress \in Nat
      /\ iterations \in [Stage -> Nat] /\ noProgress \in Nat
  BY PipelineAssumption DEF BudgetInv, RehearsalTypeOK
<1> DEFINE sum == Total(iterations, Stage)
           Trying == AttemptLabels \cup {"approval", "review", "attempted"}
           Spent(s, n) == s >= MaxIterations \/ n >= MaxNoProgress
<1>3. /\ sum <= MaxIterations /\ noProgress <= MaxNoProgress
      /\ engineAt \in Trying => sum < MaxIterations /\ noProgress < MaxNoProgress
  BY DEF BudgetInv
<1>4. CASE /\ UNCHANGED <<iterations, noProgress>>
           /\ engineAt' \in Trying => engineAt \in Trying
  BY <1>1, <1>3, <1>4 DEF BudgetInv
<1>5. CASE Read
  <2>1. UNCHANGED <<iterations, noProgress>>
    BY <1>5 DEF Read, ledger
  <2>2. engineAt' \in Trying => ~BudgetSpent
    BY <1>5, LabelsOfAttempts DEF Read, Goes
  <2>3. ~BudgetSpent => sum < MaxIterations /\ noProgress < MaxNoProgress
    <3>1. sum \in Nat
      BY <1>2, StagesAreFinite, TotalIsNat
    <3> QED BY <1>2, <3>1, AttemptsFold DEF BudgetSpent
  <2> QED BY <1>1, <1>3, <2>1, <2>2, <2>3 DEF BudgetInv
<1>6. CASE RecordAttempted
  <2>1. stage \in Stage /\ engineAt \in Trying
    BY <1>6 DEF RecordAttempted, BudgetInv, RehearsalInv, CarriesInv, Busy
  <2>2. /\ iterations' = [iterations EXCEPT ![stage] = @ + 1]
        /\ noProgress' = IF outcome = "promoted" THEN 0 ELSE noProgress + 1
        /\ engineAt' \notin Trying
    BY <1>6, LabelsOfAttempts DEF RecordAttempted, Goes
  <2>3. /\ \A s \in Stage : iterations[s] \in Nat
        /\ \A s \in Stage \ {stage} : iterations'[s] = iterations[s]
        /\ iterations'[stage] = iterations[stage] + 1
    BY <1>2, <2>1, <2>2
  <2>4. Total(iterations', Stage) = sum + 1 /\ sum \in Nat
    BY <2>1, <2>3, StagesAreFinite, TotalGrows
  <2>5. noProgress' <= MaxNoProgress
    BY <1>2, <1>3, <2>1, <2>2
  <2>6. Total(iterations', Stage) <= MaxIterations
    BY <1>2, <1>3, <2>1, <2>4
  <2> QED BY <1>1, <2>2, <2>5, <2>6 DEF BudgetInv
<1>7. CASE RecordAttempt
  <2>1. UNCHANGED <<iterations, noProgress>> /\ engineAt \in Trying
    BY <1>7 DEF RecordAttempt
  <2> QED BY <1>4, <2>1
<1>8. CASE \/ RecordTask \/ RecordSeeds \/ RecordApproval \/ RecordReview
           \/ RecordProduced \/ RecordPromoted \/ RecordCheckpoint \/ RecordRework
  <2>1. UNCHANGED <<iterations, noProgress>>
    BY <1>8 DEF RecordTask, RecordSeeds, RecordApproval, RecordReview, RecordProduced,
                RecordPromoted, RecordCheckpoint, RecordRework, ledger
  <2>2. engineAt' \in Trying => engineAt \in Trying
    BY <1>8, LabelsOfAttempts DEF RecordTask, RecordSeeds, RecordApproval, RecordReview,
       RecordProduced, RecordPromoted, RecordCheckpoint, RecordRework, Goes
  <2> QED BY <1>4, <2>1, <2>2
<1>9. CASE \E verdict \in {"pass", "rework-required", "blocked"}, sound \in BOOLEAN :
             RecordDisposed(verdict, sound)
  <2>1. UNCHANGED <<iterations, noProgress>> /\ engineAt \in Trying
    BY <1>9, LabelsOfAttempts DEF RecordDisposed
  <2> QED BY <1>4, <2>1
<1>10. CASE Finish \/ Dies \/ Construct \/ Reconciled
  <2>1. UNCHANGED <<iterations, noProgress>>
    BY <1>10 DEF Finish, Dies, Construct, Reconciled, ledger
  <2>2. engineAt' \in Trying => engineAt \in Trying
    BY <1>10, LabelsOfAttempts DEF Finish, Dies, Construct, Reconciled, Goes
  <2> QED BY <1>4, <2>1, <2>2
<1>11. CASE (\E s \in Stage : Reconcile(s)) \/ UNCHANGED rehearsalVars
  <2>1. UNCHANGED <<iterations, noProgress, engineAt>>
    BY <1>11 DEF Reconcile, rehearsalVars, ledger
  <2> QED BY <1>4, <2>1
<1> QED BY <1>5, <1>6, <1>7, <1>8, <1>9, <1>10, <1>11 DEF RehearsalNext, EngineStep, Recovers

\* What an attempt earned, in the engine's labels.
LEMMA EarnedMeans ==
  /\ engineAt \in {"produced", "promoted"} => Earned = "pass"
  /\ engineAt = "rework" => Earned = "return"
  /\ engineAt \notin {"produced", "promoted", "rework"} => Earned = "nothing"
  /\ engineAt' \in {"produced", "promoted"} => Earned' = "pass"
  /\ engineAt' = "rework" => Earned' = "return"
  /\ engineAt' \notin {"produced", "promoted", "rework"} => Earned' = "nothing"
BY DEF Earned

LEMMA CountsFold ==
  /\ AttemptCount' = Total(iterations', Stage)
  /\ iterations' = iterations => AttemptCount' = AttemptCount
<1>1. AttemptCount' = Total(iterations', Stage)
  BY DEF AttemptCount, MapThenSumSet, MapThenFoldSet, Total, IsTable, Pick
<1> QED BY <1>1, AttemptsFold

\* The recorded attempt is paid for, within the budget.
LEMMA AttemptIsATry ==
  ASSUME BudgetInv, RecordAttempted
  PROVE  Gatekeeper!GateNext
<1>1. stage \in Stage /\ engineAt = "attempted"
  BY DEF RecordAttempted, BudgetInv, RehearsalInv, CarriesInv, Busy
<1>2. AttemptCount < MaxIterations /\ noProgress < MaxNoProgress
  BY <1>1, AttemptsFold DEF BudgetInv
<1>3. AttemptCount' = AttemptCount + 1
  <2>1. /\ iterations \in [Stage -> Nat]
        /\ iterations' = [iterations EXCEPT ![stage] = @ + 1]
    BY DEF BudgetInv, RehearsalTypeOK, RecordAttempted
  <2>2. /\ \A s \in Stage : iterations[s] \in Nat
        /\ \A s \in Stage \ {stage} : iterations'[s] = iterations[s]
        /\ iterations'[stage] = iterations[stage] + 1
    BY <1>1, <2>1
  <2> QED BY <1>1, <2>2, StagesAreFinite, TotalGrows, AttemptsFold, CountsFold
<1>4. /\ complete' = complete
      /\ noProgress' = IF outcome = "promoted" THEN 0 ELSE noProgress + 1
      /\ \/ outcome = "promoted" /\ engineAt' = "produced"
         \/ outcome # "promoted" /\ engineAt' \in {"rework", "stopped"}
  BY DEF RecordAttempted, Goes
<1>5. Earned = "nothing" /\ Earned' \in {"pass", "return", "nothing"}
      /\ (Earned' = "pass" <=> outcome = "promoted")
  BY <1>1, <1>4, EarnedMeans
<1>6. Gatekeeper!Try(Earned')
  BY <1>2, <1>3, <1>4, <1>5 DEF Gatekeeper!Try
<1> QED BY <1>5, <1>6 DEF Gatekeeper!GateNext

\* A promotion passes the engine's stage, which is the next one.
LEMMA PromotionPasses ==
  ASSUME BudgetInv, RecordPromoted
  PROVE  Gatekeeper!GateNext
<1>1. /\ stage \in Stage \ complete /\ \A t \in Stage : t < stage => t \in complete
      /\ complete' = complete \cup {stage}
      /\ UNCHANGED <<iterations, noProgress>>
      /\ engineAt = "promoted" /\ engineAt' = "checkpoint"
  BY DEF RecordPromoted, Goes, BudgetInv, RehearsalInv, CarriesInv, Busy
<1>2. Gatekeeper!Pass
  BY <1>1, EarnedMeans, CountsFold DEF Gatekeeper!Pass
<1> QED BY <1>2 DEF Gatekeeper!GateNext

LEMMA ReworkReturns ==
  ASSUME BudgetInv, RecordRework
  PROVE  Gatekeeper!GateNext
<1>1. /\ target \in Stage
      /\ complete' = {s \in complete : s < target}
      /\ UNCHANGED <<iterations, noProgress>>
      /\ engineAt = "rework" /\ engineAt' = "reading"
  BY DEF RecordRework, Goes, BudgetInv, RehearsalInv, CarriesInv
<1>2. Gatekeeper!Return
  BY <1>1, EarnedMeans, CountsFold DEF Gatekeeper!Return
<1> QED BY <1>2 DEF Gatekeeper!GateNext

\* Every other step leaves the stages and the counts, and keeps or loses what was earned.
LEMMA OthersLose ==
  ASSUME UNCHANGED <<complete, iterations, noProgress>>,
         engineAt' \notin {"produced", "promoted", "rework"} \/ Earned' = Earned
  PROVE  [Gatekeeper!GateNext]_(Gatekeeper!gateVars)
BY EarnedMeans, CountsFold DEF Gatekeeper!GateNext, Gatekeeper!Lose, Gatekeeper!gateVars

LEMMA RehearsalStepMaps ==
  BudgetInv /\ [RehearsalNext]_rehearsalVars => [Gatekeeper!GateNext]_(Gatekeeper!gateVars)
<1> SUFFICES ASSUME BudgetInv, [RehearsalNext]_rehearsalVars
             PROVE  [Gatekeeper!GateNext]_(Gatekeeper!gateVars)
  OBVIOUS
<1> DEFINE Writing == {"produced", "promoted", "rework"}
<1>1. CASE RecordAttempted
  BY <1>1, AttemptIsATry
<1>2. CASE RecordPromoted
  BY <1>2, PromotionPasses
<1>3. CASE RecordRework
  BY <1>3, ReworkReturns
<1>4. CASE RecordProduced
  <2>1. UNCHANGED <<complete, iterations, noProgress>> /\ Earned' = Earned
    BY <1>4, EarnedMeans DEF RecordProduced, Goes
  <2> QED BY <2>1, OthersLose
<1>5. CASE Read \/ RecordTask \/ RecordSeeds \/ RecordApproval \/ RecordReview \/ RecordCheckpoint
  <2>1. UNCHANGED <<complete, iterations, noProgress>>
    BY <1>5 DEF Read, RecordTask, RecordSeeds, RecordApproval, RecordReview, RecordCheckpoint, ledger
  <2>2. engineAt' \notin Writing
    BY <1>5 DEF Read, RecordTask, RecordSeeds, RecordApproval, RecordReview, RecordCheckpoint, Goes
  <2> QED BY <2>1, <2>2, OthersLose
<1>6. CASE RecordAttempt
  <2>1. UNCHANGED <<complete, iterations, noProgress>>
    BY <1>6 DEF RecordAttempt
  <2>2. engineAt' \notin Writing
    BY <1>6, FollowsInOrder, LabelsOfAttempts DEF RecordAttempt, Goes
  <2> QED BY <2>1, <2>2, OthersLose
<1>7. CASE \E verdict \in {"pass", "rework-required", "blocked"}, sound \in BOOLEAN :
             RecordDisposed(verdict, sound)
  <2>1. UNCHANGED <<complete, iterations, noProgress>>
    BY <1>7 DEF RecordDisposed
  <2>2. engineAt' \in {"attempted", "approval", "review"}
    BY <1>7 DEF RecordDisposed, Goes
  <2> QED BY <2>1, <2>2, OthersLose
<1>8. CASE Finish \/ Dies \/ Construct \/ Reconciled
  <2>1. UNCHANGED <<complete, iterations, noProgress>> /\ engineAt' \notin Writing
    BY <1>8 DEF Finish, Dies, Construct, Reconciled, ledger, Goes
  <2> QED BY <2>1, OthersLose
<1>9. CASE (\E s \in Stage : Reconcile(s)) \/ UNCHANGED rehearsalVars
  <2>1. UNCHANGED <<complete, iterations, noProgress, engineAt>>
    BY <1>9 DEF Reconcile, rehearsalVars, ledger
  <2> QED BY <2>1, OthersLose DEF Earned
<1> QED BY <1>1, <1>2, <1>3, <1>4, <1>5, <1>6, <1>7, <1>8, <1>9
        DEF RehearsalNext, EngineStep, Recovers

LEMMA RehearsalInitMaps == RehearsalInit => Gatekeeper!GateInit
<1> SUFFICES ASSUME RehearsalInit PROVE Gatekeeper!GateInit
  OBVIOUS
<1>1. AttemptCount = 0
  BY StagesAreFinite, TotalOfZeros, AttemptsFold DEF RehearsalInit
<1> QED BY <1>1, EarnedMeans DEF RehearsalInit, Gatekeeper!GateInit

\* For any pipeline and any number of engines over one ledger, each dying at any
\* append: stages are passed in order, each by an attempt of its own that the
\* budget had room for, and nothing else passes or returns one.
THEOREM RehearsalIsAStageGate == RehearsalSpec => ImplementsStageGate
<1>1. RehearsalInit => Gatekeeper!GateInit
  BY RehearsalInitMaps
<1>2. BudgetInv /\ [RehearsalNext]_rehearsalVars => [Gatekeeper!GateNext]_(Gatekeeper!gateVars)
  BY RehearsalStepMaps
<1>3. RehearsalSpec => []BudgetInv
  BY BudgetStarts, BudgetKept, PTL DEF RehearsalSpec
<1> QED BY <1>1, <1>2, <1>3, PTL DEF RehearsalSpec, ImplementsStageGate, Gatekeeper!GateSpec

\* The gate's own promise is kept by the gate's own steps.
LEMMA GateKeepsPromise ==
  ASSUME BudgetInv, Gatekeeper!Promise, [Gatekeeper!GateNext]_(Gatekeeper!gateVars), BudgetInv'
  PROVE  Gatekeeper!Promise'
<1>1. /\ complete \subseteq Stage /\ Stage \subseteq Nat \ {0}
      /\ AttemptCount \in Nat
      /\ \A s \in complete, t \in Stage : t < s => t \in complete
  <2>1. Stage \subseteq Nat \ {0}
    BY PipelineAssumption DEF Stage
  <2>2. iterations \in [Stage -> Nat] /\ complete \subseteq Stage
    BY DEF BudgetInv, RehearsalTypeOK
  <2>3. AttemptCount \in Nat
    BY <2>2, StagesAreFinite, TotalIsNat, AttemptsFold
  <2> QED BY <2>1, <2>2, <2>3 DEF Gatekeeper!Promise
<1>2. AttemptCount' <= MaxIterations /\ noProgress' <= MaxNoProgress
  BY CountsFold DEF BudgetInv
<1>3. CASE \E o \in {"pass", "return", "nothing"} : Gatekeeper!Try(o)
  <2>1. /\ complete' = complete /\ AttemptCount' = AttemptCount + 1
        /\ \A s \in complete : s <= AttemptCount
    BY <1>3 DEF Gatekeeper!Try, Gatekeeper!Promise
  <2>2. \A s \in complete' \cup {0} : s < AttemptCount'
    BY <1>1, <2>1
  <2>3. \A s \in complete' : s <= AttemptCount'
    BY <1>1, <2>1
  <2> QED BY <1>1, <1>2, <2>1, <2>2, <2>3 DEF Gatekeeper!Promise
<1>4. CASE Gatekeeper!Pass
  <2>1. PICK s \in Stage \ complete : /\ \A t \in Stage : t < s => t \in complete
                                      /\ complete' = complete \cup {s}
    BY <1>4 DEF Gatekeeper!Pass
  <2>2. /\ Earned = "pass" /\ Earned' = "nothing" /\ AttemptCount' = AttemptCount
        /\ \A t \in complete \cup {0} : t < AttemptCount
    BY <1>4 DEF Gatekeeper!Pass, Gatekeeper!Promise
  <2>3. \A u \in complete', t \in Stage : t < u => t \in complete'
    BY <1>1, <2>1
  <2>4. s <= AttemptCount
    <3>1. s = 1 \/ s - 1 \in Stage
      BY PipelineAssumption DEF Stage
    <3>2. s - 1 \in complete \cup {0}
      BY <1>1, <2>1, <3>1
    <3> QED BY <1>1, <2>2, <3>2
  <2>5. \A u \in complete' : u <= AttemptCount'
    BY <1>1, <2>1, <2>2, <2>4
  <2> QED BY <1>2, <2>2, <2>3, <2>5 DEF Gatekeeper!Promise
<1>5. CASE Gatekeeper!Return
  <2>1. PICK s \in Stage : complete' = {t \in complete : t < s}
    BY <1>5 DEF Gatekeeper!Return
  <2>2. /\ Earned' = "nothing" /\ AttemptCount' = AttemptCount
        /\ \A t \in complete : t <= AttemptCount
    BY <1>5 DEF Gatekeeper!Return, Gatekeeper!Promise
  <2>3. \A u \in complete', t \in Stage : t < u => t \in complete'
    BY <1>1, <2>1
  <2> QED BY <1>2, <2>1, <2>2, <2>3 DEF Gatekeeper!Promise
<1>6. CASE Gatekeeper!Lose \/ UNCHANGED Gatekeeper!gateVars
  <2>1. /\ complete' = complete /\ AttemptCount' = AttemptCount
        /\ Earned' = "pass" => Earned = "pass"
    BY <1>6 DEF Gatekeeper!Lose, Gatekeeper!gateVars
  <2> QED BY <1>2, <2>1 DEF Gatekeeper!Promise
<1> QED BY <1>3, <1>4, <1>5, <1>6 DEF Gatekeeper!GateNext

LEMMA PromiseStarts == RehearsalInit => Gatekeeper!Promise
<1> SUFFICES ASSUME RehearsalInit PROVE Gatekeeper!Promise
  OBVIOUS
<1>1. complete = {} /\ AttemptCount = 0 /\ noProgress = 0 /\ Earned = "nothing"
  BY RehearsalInitMaps DEF Gatekeeper!GateInit
<1> QED BY <1>1, PipelineAssumption DEF Gatekeeper!Promise

\* What the gate gives the owner of the budget holds of the rehearsal itself: the
\* complete stages are a prefix that cost an attempt each, and no more attempts are
\* recorded than agreed, in all and in a row.
THEOREM RehearsalKeepsBudget == RehearsalSpec => []Gatekeeper!Promise
<1>1. RehearsalInit => BudgetInv /\ Gatekeeper!Promise
  BY BudgetStarts, PromiseStarts
<1>2. BudgetInv /\ Gatekeeper!Promise /\ [RehearsalNext]_rehearsalVars
        => BudgetInv' /\ Gatekeeper!Promise'
  BY BudgetKept, RehearsalStepMaps, GateKeepsPromise
<1> QED BY <1>1, <1>2, PTL DEF RehearsalSpec

-----------------------------------------------------------------------------
\* The three components side by side: a step of one is a step or a stutter of each.

LEMMA SupervisionStarts == MCInit => PreviewInv /\ SpendInv /\ BudgetInv
BY PreviewStarts, SpendStarts, BudgetStarts DEF MCInit

LEMMA SupervisionKeeps ==
  PreviewInv /\ SpendInv /\ BudgetInv /\ [MCNext]_supervisionVars
    => PreviewInv' /\ SpendInv' /\ BudgetInv'
<1> SUFFICES ASSUME PreviewInv, SpendInv, BudgetInv, [MCNext]_supervisionVars
             PROVE  PreviewInv' /\ SpendInv' /\ BudgetInv'
  OBVIOUS
<1>1. [PreviewNext]_previewVars /\ [GatewayNext]_modelVars /\ [RehearsalNext]_rehearsalVars
  BY DEF MCNext, supervisionVars
<1> QED BY <1>1, PreviewNextKeeps, SpendKeeps, BudgetKept

\* For any number of previews, model requests and engines over any pipeline, every
\* variable of the three components keeps its type: a preview call waits only
\* where its caller put it, usage that was not reported is never counted, and an
\* engine works on a stage of its pipeline.
THEOREM SupervisionTypes == MCSpec => []SupervisionTypeOK
<1>1. MCSpec => [](PreviewInv /\ SpendInv /\ BudgetInv)
  BY SupervisionStarts, SupervisionKeeps, PTL DEF MCSpec
<1>2. PreviewInv /\ SpendInv /\ BudgetInv => SupervisionTypeOK
  BY DEF PreviewInv, SpendInv, BudgetInv, SupervisionTypeOK
<1> QED BY <1>1, <1>2, PTL
=============================================================================
