---------------------------- MODULE RecordsProofs ----------------------------
(***************************************************************************)
(* What the agent broker, the action authorizations, the decisions about   *)
(* pictures and the changes of data promise, for any number of calls,      *)
(* grants, approvals, budgets, pictures and databases; and the types of    *)
(* these and of the candidate set.                                         *)
(***************************************************************************)
EXTENDS MCRecords, CandidateSetProofs, FiniteSetTheorems, TLAPS

-----------------------------------------------------------------------------
(* The broker.                                                             *)

\* The calls the budget of an attempt has been spent on: those that started
\* their operation, and those whose permission is being recorded.
Claims(a) == {c \in BrokerCall : caller[c] = a /\ (c \in dispatched \/ brokerAt[c] = "record-allowed")}

BrokerCoreOK ==
  /\ grant \in [Attempt -> Grants]
  /\ caller \in [BrokerCall -> Attempt]
  /\ brokerAt \in [BrokerCall -> BrokerLabels]
  /\ opsSpent \in [Attempt -> Nat]
  /\ dispatched \subseteq BrokerCall

CountInv == \A a \in Attempt : Cardinality(Claims(a)) <= opsSpent[a] /\ opsSpent[a] <= grant[a].maxOperations
UnstartedInv == \A c \in BrokerCall : brokerAt[c] \in {"idle", "body"} => c \notin dispatched
BrokerInv == BrokerCoreOK /\ CountInv /\ UnstartedInv

LEMMA GrantsCount == BrokerCoreOK => \A a \in Attempt : grant[a].maxOperations \in Nat \ {0}
BY BrokerAssumption DEF BrokerCoreOK, Grant

LEMMA ClaimsAreFinite == \A a : IsFiniteSet(Claims(a)) /\ Cardinality(Claims(a)) \in Nat
<1> SUFFICES ASSUME NEW a PROVE IsFiniteSet(Claims(a)) /\ Cardinality(Claims(a)) \in Nat
  OBVIOUS
<1>1. Claims(a) \in SUBSET BrokerCall
  BY DEF Claims
<1>2. IsFiniteSet(Claims(a))
  BY <1>1, FS_Subset, BrokerAssumption
<1> QED BY <1>2, FS_CardinalityType

LEMMA BrokerStarts == BrokerInit => BrokerInv
<1> SUFFICES ASSUME BrokerInit PROVE BrokerInv
  OBVIOUS
<1>1. BrokerCoreOK
  BY DEF BrokerInit, BrokerCoreOK, BrokerLabels
<1>2. \A a \in Attempt : Claims(a) = {}
  BY DEF BrokerInit, Claims
<1>3. CountInv
  <2> SUFFICES ASSUME NEW a \in Attempt
               PROVE  Cardinality(Claims(a)) <= opsSpent[a] /\ opsSpent[a] <= grant[a].maxOperations
    BY DEF CountInv
  <2>1. Cardinality(Claims(a)) = 0 /\ opsSpent[a] = 0
    BY <1>2, FS_EmptySet DEF BrokerInit
  <2>2. grant[a].maxOperations \in Nat
    BY <1>1, GrantsCount
  <2> QED BY <2>1, <2>2
<1> QED BY <1>1, <1>3 DEF BrokerInit, UnstartedInv, BrokerInv

\* A step that claims nothing new and leaves the counts alone keeps the budget.
LEMMA NoClaimKeeps ==
  ASSUME BrokerInv, UNCHANGED <<grant, opsSpent>>, \A a \in Attempt : Claims(a)' \subseteq Claims(a)
  PROVE  CountInv'
<1> SUFFICES ASSUME NEW a \in Attempt
             PROVE  /\ Cardinality(Claims(a)') <= opsSpent[a]
                    /\ opsSpent[a] <= grant[a].maxOperations
  BY DEF CountInv
<1>1. Cardinality(Claims(a)') <= Cardinality(Claims(a)) /\ Cardinality(Claims(a)') \in Nat
  BY ClaimsAreFinite, FS_Subset, FS_CardinalityType
<1>2. Cardinality(Claims(a)) \in Nat /\ opsSpent[a] \in Nat
  BY ClaimsAreFinite DEF BrokerInv, BrokerCoreOK
<1> QED BY <1>1, <1>2 DEF BrokerInv, CountInv

\* What a step of one call does to the labels.
LEMMA LabelMoves ==
  ASSUME BrokerInv, NEW c \in BrokerCall, NEW label \in BrokerLabels, BrokerGoes(c, label)
  PROVE  /\ brokerAt' \in [BrokerCall -> BrokerLabels]
         /\ brokerAt'[c] = label
         /\ \A d \in BrokerCall : d # c => brokerAt'[d] = brokerAt[d]
BY DEF BrokerGoes, BrokerInv, BrokerCoreOK

\* Every step of a call but the decision: it claims nothing new.
QuietStep(c) ==
  PresentGrant(c) \/ UnreadableBody(c) \/ DenialReturns(c) \/ OperationReturns(c)
  \/ OperationThrows(c) \/ CreationReturns(c)

LEMMA QuietKeeps ==
  ASSUME BrokerInv, NEW c \in BrokerCall, QuietStep(c)
  PROVE  BrokerInv'
<1>1. UNCHANGED <<grant, caller, opsSpent, dispatched>>
  BY DEF QuietStep, PresentGrant, UnreadableBody, DenialReturns, OperationReturns, OperationThrows,
         CreationReturns
<1>2. PICK label \in BrokerLabels \ {"idle", "record-allowed"} :
           BrokerGoes(c, label) /\ (label = "body" => brokerAt[c] = "idle")
  <2>1. CASE PresentGrant(c) \/ UnreadableBody(c) \/ DenialReturns(c) \/ OperationThrows(c)
    BY <2>1 DEF PresentGrant, UnreadableBody, DenialReturns, OperationThrows, BrokerLabels, Replies
  <2>2. CASE OperationReturns(c)
    <3>1. BrokerGoes(c, "record-created") \/ BrokerGoes(c, "200")
      BY <2>2 DEF OperationReturns
    <3> QED BY <3>1 DEF BrokerLabels, Replies
  <2>3. CASE CreationReturns(c)
    BY <2>3 DEF CreationReturns, BrokerLabels, Replies
  <2> QED BY <2>1, <2>2, <2>3 DEF QuietStep
<1>3. /\ brokerAt' \in [BrokerCall -> BrokerLabels]
      /\ brokerAt'[c] = label
      /\ \A d \in BrokerCall : d # c => brokerAt'[d] = brokerAt[d]
  BY <1>2, LabelMoves
<1>4. \A a \in Attempt : Claims(a)' \subseteq Claims(a)
  BY <1>1, <1>2, <1>3 DEF Claims
<1>5. CountInv'
  BY <1>1, <1>4, NoClaimKeeps
<1> QED BY <1>1, <1>2, <1>3, <1>5 DEF BrokerInv, BrokerCoreOK, UnstartedInv

LEMMA AllowanceKeeps ==
  ASSUME BrokerInv, NEW c \in BrokerCall, AllowanceReturns(c)
  PROVE  BrokerInv'
<1>1. UNCHANGED <<grant, caller, opsSpent>> /\ brokerAt[c] = "record-allowed"
  BY DEF AllowanceReturns
<1>2. PICK label \in {"400", "operation"} :
           BrokerGoes(c, label) /\ dispatched' \subseteq dispatched \cup {c} /\ dispatched \subseteq dispatched'
  BY DEF AllowanceReturns, Begin
<1>3. /\ brokerAt' \in [BrokerCall -> BrokerLabels]
      /\ brokerAt'[c] = label
      /\ \A d \in BrokerCall : d # c => brokerAt'[d] = brokerAt[d]
  BY <1>2, LabelMoves DEF BrokerLabels, Replies
<1>4. \A a \in Attempt : Claims(a)' \subseteq Claims(a)
  BY <1>1, <1>2, <1>3 DEF Claims
<1>5. CountInv'
  BY <1>1, <1>4, NoClaimKeeps
<1> QED BY <1>1, <1>2, <1>3, <1>5 DEF BrokerInv, BrokerCoreOK, UnstartedInv

\* The decision: one operation is counted, and at most one call claims it.
LEMMA AuthoriseKeeps ==
  ASSUME BrokerInv, NEW c \in BrokerCall, NEW r \in Requests, Authorise(c, r)
  PROVE  BrokerInv'
<1>1. UNCHANGED <<grant, caller>> /\ brokerAt[c] = "body" /\ c \notin dispatched
  BY DEF Authorise, BrokerInv, UnstartedInv
<1>2. CASE Deny(c)
  <2>1. PICK label \in {"record-denied", "403"} : BrokerGoes(c, label)
    BY <1>2 DEF Deny
  <2>2. /\ brokerAt' \in [BrokerCall -> BrokerLabels]
        /\ brokerAt'[c] = label
        /\ \A d \in BrokerCall : d # c => brokerAt'[d] = brokerAt[d]
    BY <2>1, LabelMoves DEF BrokerLabels, Replies
  <2>3. \A a \in Attempt : Claims(a)' \subseteq Claims(a)
    BY <1>1, <1>2, <2>2 DEF Claims, Deny
  <2>4. CountInv'
    BY <1>1, <1>2, <2>3, NoClaimKeeps DEF Deny
  <2> QED BY <1>1, <1>2, <2>2, <2>4 DEF Deny, BrokerInv, BrokerCoreOK, UnstartedInv
<1>3. CASE Allow(c, r) /\ Authorised(grant[caller[c]], r, opsSpent[caller[c]])
  <2> DEFINE b == caller[c]
  <2>1. b \in Attempt /\ opsSpent[b] \in Nat /\ opsSpent[b] < grant[b].maxOperations
    BY <1>3 DEF Authorised, BrokerInv, BrokerCoreOK
  <2>2. opsSpent' = [opsSpent EXCEPT ![b] = opsSpent[b] + 1]
    BY <1>3 DEF Allow
  <2>3. PICK label \in {"record-allowed", "400", "operation"} :
             BrokerGoes(c, label) /\ dispatched' \subseteq dispatched \cup {c} /\ dispatched \subseteq dispatched'
    BY <1>3 DEF Allow, Begin
  <2>4. /\ brokerAt' \in [BrokerCall -> BrokerLabels]
        /\ brokerAt'[c] = label
        /\ \A d \in BrokerCall : d # c => brokerAt'[d] = brokerAt[d]
    BY <2>3, LabelMoves DEF BrokerLabels, Replies
  <2>5. opsSpent' \in [Attempt -> Nat]
    <3>1. opsSpent \in [Attempt -> Nat]
      BY DEF BrokerInv, BrokerCoreOK
    <3> QED BY <2>1, <2>2, <3>1
  <2>6. ASSUME NEW a \in Attempt
        PROVE  Cardinality(Claims(a)') <= opsSpent'[a] /\ opsSpent'[a] <= grant'[a].maxOperations
    <3>0. /\ Cardinality(Claims(a)) \in Nat /\ IsFiniteSet(Claims(a)) /\ opsSpent[a] \in Nat
          /\ Cardinality(Claims(a)) <= opsSpent[a] /\ opsSpent[a] <= grant[a].maxOperations
          /\ grant[a].maxOperations \in Nat
      BY ClaimsAreFinite, GrantsCount DEF BrokerInv, BrokerCoreOK, CountInv
    <3>1. CASE a = b
      <4>1. Claims(a)' \subseteq Claims(a) \cup {c}
        BY <1>1, <2>3, <2>4 DEF Claims
      <4>2. /\ IsFiniteSet(Claims(a) \cup {c})
            /\ Cardinality(Claims(a) \cup {c}) \in Nat
            /\ Cardinality(Claims(a) \cup {c}) <= Cardinality(Claims(a)) + 1
        <5>1. IsFiniteSet(Claims(a) \cup {c})
          BY <3>0, FS_AddElement
        <5>2. Cardinality(Claims(a) \cup {c}) =
                 IF c \in Claims(a) THEN Cardinality(Claims(a)) ELSE Cardinality(Claims(a)) + 1
          BY <3>0, FS_AddElement
        <5> QED BY <3>0, <5>1, <5>2
      <4>3. Cardinality(Claims(a)') <= Cardinality(Claims(a) \cup {c}) /\ Cardinality(Claims(a)') \in Nat
        BY <4>1, <4>2, FS_Subset, FS_CardinalityType
      <4>4. opsSpent'[a] = opsSpent[a] + 1
        BY <2>2, <3>1 DEF BrokerInv, BrokerCoreOK
      <4>5. opsSpent[a] + 1 <= grant[a].maxOperations
        BY <2>1, <3>0, <3>1
      <4>6. grant'[a].maxOperations = grant[a].maxOperations
        BY <1>1
      <4> HIDE DEF b
      <4>7. opsSpent'[a] <= grant'[a].maxOperations
        BY <4>4, <4>5, <4>6
      <4>8. Cardinality(Claims(a)') <= opsSpent'[a]
        BY <3>0, <4>2, <4>3, <4>4
      <4> QED BY <4>7, <4>8
    <3>2. CASE a # b
      <4>1. Claims(a)' \subseteq Claims(a)
        BY <1>1, <2>3, <2>4, <3>2 DEF Claims
      <4>2. Cardinality(Claims(a)') <= Cardinality(Claims(a)) /\ Cardinality(Claims(a)') \in Nat
        BY <4>1, <3>0, FS_Subset, FS_CardinalityType
      <4>3. opsSpent'[a] = opsSpent[a]
        BY <2>2, <3>2 DEF BrokerInv, BrokerCoreOK
      <4>4. grant'[a].maxOperations = grant[a].maxOperations
        BY <1>1
      <4>5. opsSpent'[a] <= grant'[a].maxOperations
        BY <3>0, <4>3, <4>4
      <4>6. Cardinality(Claims(a)') <= opsSpent'[a]
        BY <3>0, <4>2, <4>3
      <4> QED BY <4>5, <4>6
    <3> QED BY <3>1, <3>2
  <2>7. CountInv'
    BY <2>6 DEF CountInv
  <2> QED BY <1>1, <2>3, <2>4, <2>5, <2>7 DEF BrokerInv, BrokerCoreOK, UnstartedInv
<1> QED BY <1>2, <1>3 DEF Authorise

LEMMA BrokerNextKeeps == BrokerInv /\ [BrokerNext]_brokerVars => BrokerInv'
<1> SUFFICES ASSUME BrokerInv, [BrokerNext]_brokerVars PROVE BrokerInv'
  OBVIOUS
<1>1. CASE \E c \in BrokerCall : QuietStep(c)
  BY <1>1, QuietKeeps
<1>2. CASE \E c \in BrokerCall : AllowanceReturns(c)
  BY <1>2, AllowanceKeeps
<1>3. CASE \E c \in BrokerCall, r \in Requests : Authorise(c, r)
  BY <1>3, AuthoriseKeeps
<1>4. CASE GrantsExpire \/ UNCHANGED brokerVars
  <2>1. UNCHANGED <<grant, caller, brokerAt, opsSpent, dispatched>>
    BY <1>4 DEF GrantsExpire, brokerVars
  <2>2. \A a \in Attempt : Claims(a)' \subseteq Claims(a)
    BY <2>1 DEF Claims
  <2>3. CountInv'
    BY <2>1, <2>2, NoClaimKeeps
  <2> QED BY <2>1, <2>3 DEF BrokerInv, BrokerCoreOK, UnstartedInv
<1> QED BY <1>1, <1>2, <1>3, <1>4 DEF BrokerNext, QuietStep

\* However many calls an attempt overlaps, it starts no more operations than
\* its grant allows.
THEOREM BudgetNeverOverrun == BrokerSpec => []BudgetIsKept
<1>1. BrokerSpec => []BrokerInv
  BY BrokerStarts, BrokerNextKeeps, PTL DEF BrokerSpec
<1>2. BrokerInv => BudgetIsKept
  <2> SUFFICES ASSUME BrokerInv, NEW a \in Attempt
               PROVE  Cardinality({c \in dispatched : caller[c] = a}) <= grant[a].maxOperations
    BY DEF BudgetIsKept
  <2> DEFINE started == {c \in dispatched : caller[c] = a}
  <2>1. started \subseteq Claims(a)
    BY DEF Claims, BrokerInv, BrokerCoreOK
  <2>2. Cardinality(started) <= Cardinality(Claims(a)) /\ Cardinality(started) \in Nat
    BY <2>1, ClaimsAreFinite, FS_Subset, FS_CardinalityType
  <2>3. Cardinality(Claims(a)) \in Nat /\ opsSpent[a] \in Nat /\ grant[a].maxOperations \in Nat
    BY ClaimsAreFinite, GrantsCount DEF BrokerInv, BrokerCoreOK
  <2> QED BY <2>2, <2>3 DEF BrokerInv, CountInv
<1> QED BY <1>1, <1>2, PTL

\* What an operation reports as done is in the ledger, or the ledger refused it.
THEOREM WhatIsDoneIsRecorded == BrokerSpec => DoneIsRecorded
<1> DEFINE Done == \A c \in BrokerCall : (brokerAt[c] # "200" /\ brokerAt'[c] = "200") =>
                      (exists' => c \in recorded' \cup unheard')
<1>1. BrokerSpec => []BrokerInv
  BY BrokerStarts, BrokerNextKeeps, PTL DEF BrokerSpec
<1>2. BrokerInv /\ [BrokerNext]_brokerVars => [Done]_brokerVars
  <2> SUFFICES ASSUME BrokerInv, BrokerNext,
                      NEW c \in BrokerCall, brokerAt[c] # "200", brokerAt'[c] = "200", exists'
               PROVE  c \in recorded' \cup unheard'
    OBVIOUS
  <2> DEFINE Moves(d, label) == brokerAt' = [brokerAt EXCEPT ![d] = label]
  <2>1. \A d \in BrokerCall, label \in BrokerLabels : Moves(d, label) => d = c /\ label = "200"
    BY DEF BrokerInv, BrokerCoreOK
  <2>2. CASE \E d \in BrokerCall : PresentGrant(d) \/ UnreadableBody(d) \/ DenialReturns(d)
                                   \/ OperationThrows(d) \/ AllowanceReturns(d)
    <3>1. PICK d \in BrokerCall : PresentGrant(d) \/ UnreadableBody(d) \/ DenialReturns(d)
                                  \/ OperationThrows(d) \/ AllowanceReturns(d)
      BY <2>2
    <3>2. \E label \in {"body", "400", "403", "500", "operation"} : Moves(d, label)
      <4>1. CASE AllowanceReturns(d)
        BY <4>1 DEF AllowanceReturns, Begin, BrokerGoes
      <4>2. CASE ~AllowanceReturns(d)
        BY <3>1, <4>2 DEF PresentGrant, UnreadableBody, DenialReturns, OperationThrows, BrokerGoes
      <4> QED BY <4>1, <4>2
    <3> QED BY <2>1, <3>2 DEF BrokerLabels, Replies
  <2>3. CASE \E d \in BrokerCall : CreationReturns(d)
    <3>1. PICK d \in BrokerCall : CreationReturns(d)
      BY <2>3
    <3>2. d = c
      BY <2>1, <3>1 DEF CreationReturns, BrokerGoes, BrokerLabels, Replies
    <3> QED BY <3>1, <3>2 DEF CreationReturns, Appends
  <2>4. CASE \E d \in BrokerCall : OperationReturns(d)
    <3>1. PICK d \in BrokerCall : OperationReturns(d)
      BY <2>4
    <3>2. CASE d \notin recorded /\ exists'
      BY <2>1, <3>1, <3>2 DEF OperationReturns, BrokerGoes, BrokerLabels
    <3>3. CASE ~(d \notin recorded /\ exists')
      <4>1. Moves(d, "200")
        BY <3>1, <3>3 DEF OperationReturns, BrokerGoes
      <4>2. d = c
        BY <2>1, <4>1 DEF BrokerLabels, Replies
      <4> QED BY <3>1, <3>3, <4>2 DEF OperationReturns
    <3> QED BY <3>2, <3>3
  <2>5. CASE \E d \in BrokerCall, r \in Requests : Authorise(d, r)
    BY <2>1, <2>5 DEF Authorise, Allow, Deny, Begin, BrokerGoes, BrokerLabels, Replies
  <2>6. CASE GrantsExpire
    BY <2>6 DEF GrantsExpire
  <2> QED BY <2>2, <2>3, <2>4, <2>5, <2>6 DEF BrokerNext
<1> QED BY <1>1, <1>2, PTL DEF BrokerSpec, DoneIsRecorded

-----------------------------------------------------------------------------
(* The action authorizations.                                              *)

AuthLabels == {"idle", "deciding-approve", "deciding-revoke", "recording", "recording-use", "done", "threw"}

\* A permitted use holds the consumption of a row that was minted.
PermittedInv ==
  \A c \in AuthCall : verdict[c] = "permitted" => about[c] \in Minted /\ consumedBy[about[c]] = c
\* The table has one row for an approval.
UniqueInv == \A x, y \in AuthCall : x \in Minted /\ approvalOf[x] = approvalOf[y] => x = y
\* A call mints at most once, uses at most once, and decides on what it was given.
StagesInv ==
  \A c \in AuthCall :
    /\ c \in Minted => authAt[c] \notin {"idle", "deciding-approve"}
    /\ verdict[c] # "none" => authAt[c] \in {"recording-use", "done", "threw"}
    /\ authAt[c] = "deciding-approve" => about[c] \in Approval
    /\ authAt[c] = "deciding-revoke" => about[c] \in AuthCall
AuthInv == AuthTypeOK /\ PermittedInv /\ UniqueInv /\ StagesInv

LEMMA AuthStarts == AuthInit => AuthInv
<1> SUFFICES ASSUME AuthInit PROVE AuthInv
  OBVIOUS
<1>1. AuthTypeOK
  BY DEF AuthInit, AuthTypeOK, Verdicts
<1> QED BY <1>1 DEF AuthInit, AuthInv, PermittedInv, UniqueInv, StagesInv, Minted

\* What a permitted use found: a minted row nobody had used.
LEMMA PermitsMeans ==
  ASSUME NEW id, NEW misfits, Permits(id, misfits)
  PROVE  id \in Minted /\ consumedBy[id] = Nobody
<1>1. ~UseChecks(id, misfits)[1].fails /\ ~UseChecks(id, misfits)[5].fails
  BY DEF Permits, UseChecks
<1> QED BY <1>1 DEF UseChecks

\* The reason a use is refused for, if it is.
Refuses(id, misfits, reason) ==
  \E i \in DOMAIN UseChecks(id, misfits) :
    FailsFirst(id, misfits, i) /\ reason = UseChecks(id, misfits)[i].reason

LEMMA ReasonsAreVerdicts ==
  ASSUME NEW id, NEW misfits, NEW i \in DOMAIN UseChecks(id, misfits)
  PROVE  UseChecks(id, misfits)[i].reason \in Verdicts \ {"permitted"}
BY DEF UseChecks, Verdicts, Misfits

\* A use is decided one way or the other.
LEMMA UseDecides ==
  ASSUME NEW c, NEW id, NEW misfits, Use(c, id, misfits)
  PROVE  \E v \in Verdicts :
           /\ verdict' = [verdict EXCEPT ![c] = v]
           /\ \/ v = "permitted" /\ Permits(id, misfits) /\ Consume(c, id)
              \/ Refuses(id, misfits, v) /\ UNCHANGED consumedBy
<1>1. CASE /\ Permits(id, misfits)
           /\ verdict' = [verdict EXCEPT ![c] = "permitted"]
           /\ Consume(c, id)
  BY <1>1 DEF Verdicts
<1>2. CASE /\ \E i \in DOMAIN UseChecks(id, misfits) :
                /\ FailsFirst(id, misfits, i)
                /\ verdict' = [verdict EXCEPT ![c] = UseChecks(id, misfits)[i].reason]
           /\ UNCHANGED consumedBy
  BY <1>2, ReasonsAreVerdicts DEF Refuses
<1> QED BY <1>1, <1>2 DEF Use

\* What is looked at before anything a caller can repair.
LEMMA RefusesMeans ==
  ASSUME NEW id, NEW misfits, NEW reason \in Recoverable, Refuses(id, misfits, reason)
  PROVE  id \in Minted \ (revoked \cup lapsed) /\ consumedBy[id] = Nobody
<1>1. PICK i \in 1..10 : /\ UseChecks(id, misfits)[i].reason = reason
                         /\ \A j \in 1..(i - 1) : ~UseChecks(id, misfits)[j].fails
  BY DEF Refuses, FailsFirst, UseChecks
<1>2. i \in 7..10
  <2>1. /\ UseChecks(id, misfits)[1].reason = "unknown-authorization"
        /\ UseChecks(id, misfits)[2].reason = "content-tampered"
        /\ UseChecks(id, misfits)[3].reason = "wrong-operation"
        /\ UseChecks(id, misfits)[4].reason = "revoked"
        /\ UseChecks(id, misfits)[5].reason = "already-consumed"
        /\ UseChecks(id, misfits)[6].reason = "expired"
    BY DEF UseChecks
  <2> QED BY <1>1, <2>1 DEF Recoverable
<1>3. /\ ~UseChecks(id, misfits)[1].fails
      /\ ~UseChecks(id, misfits)[4].fails
      /\ ~UseChecks(id, misfits)[5].fails
      /\ ~UseChecks(id, misfits)[6].fails
  BY <1>1, <1>2
<1> QED BY <1>3 DEF UseChecks

\* The conjuncts of the invariant that a call which has not been decided, and
\* mints nothing, leaves alone.
LEMMA UndecidedKeeps ==
  ASSUME AuthInv, NEW c \in AuthCall, NEW label \in AuthLabels, NEW x \in AuthCall \cup Approval \cup {Nobody},
         authAt[c] \in {"idle", "deciding-approve", "deciding-revoke", "recording"},
         AuthGoes(c, label), Names(c, x) \/ UNCHANGED about,
         UNCHANGED <<approvalOf, consumedBy, verdict>>,
         label # "idle", label = "deciding-approve" => c \notin Minted /\ Names(c, x) /\ x \in Approval,
         label = "deciding-revoke" => Names(c, x) /\ x \in AuthCall,
         revoked' \subseteq AuthCall, lapsed' \subseteq AuthCall
  PROVE  AuthInv'
<1>1. /\ authAt' \in [AuthCall -> AuthLabels] /\ authAt'[c] = label
      /\ \A d \in AuthCall : d # c => authAt'[d] = authAt[d]
  BY DEF AuthGoes, AuthInv, AuthTypeOK, AuthLabels
<1>2. /\ about' \in [AuthCall -> AuthCall \cup Approval \cup {Nobody}]
      /\ \A d \in AuthCall : d # c => about'[d] = about[d]
      /\ Names(c, x) => about'[c] = x
  BY DEF Names, AuthInv, AuthTypeOK
<1>3. verdict[c] = "none" /\ Minted' = Minted
  BY DEF AuthInv, StagesInv, Minted
<1>4. AuthTypeOK'
  BY <1>1, <1>2 DEF AuthInv, AuthTypeOK, AuthLabels
<1>5. PermittedInv'
  BY <1>2, <1>3 DEF AuthInv, PermittedInv
<1>6. UniqueInv'
  BY <1>3 DEF AuthInv, UniqueInv
<1>7. StagesInv'
  BY <1>1, <1>2, <1>3 DEF AuthInv, StagesInv
<1> QED BY <1>4, <1>5, <1>6, <1>7 DEF AuthInv

LEMMA MintKeeps ==
  ASSUME AuthInv, NEW c \in Approver, Mint(c)
  PROVE  AuthInv'
<1> DEFINE a == about[c]
<1>1. /\ c \in AuthCall /\ authAt[c] = "deciding-approve" /\ a \in Approval /\ a # Nobody
      /\ verdict[c] = "none" /\ UNCHANGED <<consumedBy, verdict, revoked, lapsed>>
  BY AuthAssumption DEF Mint, AuthInv, StagesInv, AuthCall
<1>2. /\ about' \in [AuthCall -> AuthCall \cup Approval \cup {Nobody}]
      /\ \A d \in AuthCall : d # c => about'[d] = about[d]
  BY <1>1 DEF Mint, Names, AuthInv, AuthTypeOK
<1>3. CASE ~Insertable(a)
  <2>1. AuthGoes(c, "threw") /\ Names(c, Nobody) /\ UNCHANGED approvalOf
    BY <1>3 DEF Mint
  <2> QED BY <1>1, <2>1, UndecidedKeeps DEF AuthInv, AuthTypeOK, AuthLabels
<1>4. CASE Insertable(a)
  <2>1. approvalOf' = [approvalOf EXCEPT ![c] = a] /\ AuthGoes(c, "recording")
    BY <1>4 DEF Mint
  <2>2. /\ approvalOf' \in [AuthCall -> Approval \cup {Nobody}] /\ approvalOf'[c] = a
        /\ \A d \in AuthCall : d # c => approvalOf'[d] = approvalOf[d]
    BY <1>1, <2>1 DEF AuthInv, AuthTypeOK
  <2>3. /\ authAt' \in [AuthCall -> AuthLabels] /\ authAt'[c] = "recording"
        /\ \A d \in AuthCall : d # c => authAt'[d] = authAt[d]
    BY <1>1, <2>1 DEF AuthGoes, AuthInv, AuthTypeOK, AuthLabels
  <2>4. c \notin Minted /\ Minted' = Minted \cup {c}
    BY <1>1, <2>2 DEF AuthInv, StagesInv, Minted
  <2>5. \A d \in AuthCall : approvalOf[d] # a
    BY <1>1, <1>4 DEF Insertable, ByApproval, Minted
  <2>6. AuthTypeOK'
    BY <1>1, <1>2, <2>2, <2>3 DEF AuthInv, AuthTypeOK, AuthLabels
  <2>7. PermittedInv'
    BY <1>1, <1>2, <2>4 DEF AuthInv, PermittedInv
  <2>8. UniqueInv'
    BY <2>2, <2>4, <2>5 DEF AuthInv, UniqueInv
  <2>9. StagesInv'
    BY <1>1, <1>2, <2>3, <2>4 DEF AuthInv, StagesInv
  <2> QED BY <2>6, <2>7, <2>8, <2>9 DEF AuthInv
<1> QED BY <1>3, <1>4

\* A use that is decided: it takes the consumption, or leaves the row alone.
LEMMA UseKeeps ==
  ASSUME AuthInv, NEW c \in User, NEW id \in Approver, NEW misfits, Use(c, id, misfits)
  PROVE  AuthInv'
<1>1. /\ c \in AuthCall /\ id \in AuthCall /\ authAt[c] = "idle" /\ verdict[c] = "none"
      /\ UNCHANGED <<approvalOf, revoked, lapsed>> /\ Minted' = Minted
  BY DEF Use, AuthInv, StagesInv, AuthCall, Minted
<1>2. /\ about' \in [AuthCall -> AuthCall \cup Approval \cup {Nobody}] /\ about'[c] = id
      /\ \A d \in AuthCall : d # c => about'[d] = about[d]
  BY <1>1 DEF Use, Names, AuthInv, AuthTypeOK
<1>3. /\ authAt' \in [AuthCall -> AuthLabels] /\ authAt'[c] = "recording-use"
      /\ \A d \in AuthCall : d # c => authAt'[d] = authAt[d]
  BY <1>1 DEF Use, AuthGoes, AuthInv, AuthTypeOK, AuthLabels
<1>4. PICK v \in Verdicts :
        /\ verdict' = [verdict EXCEPT ![c] = v]
        /\ \/ v = "permitted" /\ Permits(id, misfits) /\ Consume(c, id)
           \/ Refuses(id, misfits, v) /\ UNCHANGED consumedBy
  BY UseDecides
<1>5. verdict' \in [AuthCall -> Verdicts] /\ verdict'[c] = v
      /\ \A d \in AuthCall : d # c => verdict'[d] = verdict[d]
  BY <1>1, <1>4 DEF AuthInv, AuthTypeOK
<1>6. Refuses(id, misfits, v) => v # "permitted"
  BY ReasonsAreVerdicts DEF Refuses
<1>7. consumedBy' \in [AuthCall -> AuthCall \cup {Nobody}]
  BY <1>1, <1>4 DEF Consume, AuthInv, AuthTypeOK
<1>8. AuthTypeOK'
  BY <1>1, <1>2, <1>3, <1>5, <1>7 DEF AuthInv, AuthTypeOK, AuthLabels
<1>9. PermittedInv'
  <2>1. CASE Refuses(id, misfits, v) /\ UNCHANGED consumedBy
    BY <1>1, <1>2, <1>5, <1>6, <2>1 DEF AuthInv, PermittedInv
  <2>2. CASE Permits(id, misfits) /\ Consume(c, id)
    <3>1. id \in Minted /\ consumedBy[id] = Nobody
      BY <2>2, PermitsMeans
    <3>2. consumedBy'[id] = c /\ \A x \in AuthCall : x # id => consumedBy'[x] = consumedBy[x]
      BY <1>1, <2>2, <3>1 DEF Consume, AuthInv, AuthTypeOK
    <3>3. \A d \in AuthCall : verdict[d] = "permitted" => about[d] # id
      BY <3>1, AuthAssumption DEF AuthInv, PermittedInv
    <3> QED BY <1>1, <1>2, <1>5, <3>1, <3>2, <3>3 DEF AuthInv, PermittedInv, Minted
  <2> QED BY <1>4, <2>1, <2>2
<1>10. UniqueInv' /\ StagesInv'
  BY <1>1, <1>2, <1>3, <1>5 DEF AuthInv, UniqueInv, StagesInv
<1> QED BY <1>8, <1>9, <1>10 DEF AuthInv

LEMMA AuthNextKeeps == AuthInv /\ [AuthNext]_authVars => AuthInv'
<1> SUFFICES ASSUME AuthInv, [AuthNext]_authVars PROVE AuthInv'
  OBVIOUS
<1> USE DEF AuthCall
<1>1. CASE \E c \in Approver, a \in Approval : AskApproval(c, a)
  <2>1. PICK c \in Approver, a \in Approval : AskApproval(c, a)
    BY <1>1
  <2>2. c \notin Minted
    BY <2>1 DEF AskApproval, AuthInv, StagesInv
  <2>3. CASE AuthGoes(c, "done") /\ UNCHANGED about
    BY <2>1, <2>3, UndecidedKeeps DEF AskApproval, AuthInv, AuthTypeOK, AuthLabels
  <2>4. CASE AuthGoes(c, "deciding-approve") /\ Names(c, a)
    BY <2>1, <2>2, <2>4, UndecidedKeeps DEF AskApproval, AuthInv, AuthTypeOK, AuthLabels
  <2> QED BY <2>1, <2>3, <2>4 DEF AskApproval
<1>2. CASE \E c \in Approver : Mint(c)
  BY <1>2, MintKeeps
<1>3. CASE \E c \in Approver : MintRefused(c)
  BY <1>3, UndecidedKeeps DEF MintRefused, AuthInv, AuthTypeOK, AuthLabels
<1>4. CASE \E c \in Revoker, id \in Approver : AskRevocation(c, id)
  <2>1. PICK c \in Revoker, id \in Approver : AskRevocation(c, id)
    BY <1>4
  <2>2. CASE AuthGoes(c, "deciding-revoke") /\ Names(c, id)
    BY <2>1, <2>2, UndecidedKeeps DEF AskRevocation, AuthInv, AuthTypeOK, AuthLabels
  <2>3. CASE AuthGoes(c, "threw") /\ UNCHANGED about
    BY <2>1, <2>3, UndecidedKeeps DEF AskRevocation, AuthInv, AuthTypeOK, AuthLabels
  <2> QED BY <2>1, <2>2, <2>3 DEF AskRevocation
<1>5. CASE \E c \in Revoker : Revoke(c)
  <2>1. PICK c \in Revoker : Revoke(c)
    BY <1>5
  <2>2. PICK label \in {"done", "recording"} : AuthGoes(c, label)
    BY <2>1 DEF Revoke
  <2>3. revoked' \subseteq AuthCall
    BY <2>1 DEF Revoke, AuthInv, AuthTypeOK, StagesInv
  <2> QED BY <2>1, <2>2, <2>3, UndecidedKeeps DEF Revoke, AuthInv, AuthTypeOK, AuthLabels
<1>6. CASE \E c \in User : UseWithout(c)
  <2>1. PICK c \in User : UseWithout(c)
    BY <1>6
  <2>2. /\ authAt' \in [AuthCall -> AuthLabels] /\ authAt'[c] = "recording-use"
        /\ \A d \in AuthCall : d # c => authAt'[d] = authAt[d]
    BY <2>1 DEF UseWithout, AuthGoes, AuthInv, AuthTypeOK, AuthLabels
  <2>3. /\ verdict' \in [AuthCall -> Verdicts] /\ verdict'[c] = "authorization-missing"
        /\ \A d \in AuthCall : d # c => verdict'[d] = verdict[d]
    BY <2>1 DEF UseWithout, AuthInv, AuthTypeOK, Verdicts
  <2>4. AuthTypeOK' /\ UNCHANGED <<approvalOf, consumedBy, about>> /\ authAt[c] = "idle"
    BY <2>1, <2>2, <2>3 DEF UseWithout, AuthInv, AuthTypeOK, AuthLabels
  <2>5. PermittedInv' /\ UniqueInv'
    BY <2>3, <2>4 DEF AuthInv, PermittedInv, UniqueInv, Minted
  <2>6. StagesInv'
    BY <2>2, <2>3, <2>4 DEF AuthInv, StagesInv, Minted
  <2> QED BY <2>4, <2>5, <2>6 DEF AuthInv
<1>7. CASE \E c \in User : UseReturns(c)
  <2>1. PICK c \in User : UseReturns(c)
    BY <1>7
  <2>2. PICK label \in {"done", "threw"} : AuthGoes(c, label)
    BY <2>1 DEF UseReturns
  <2>3. /\ authAt' \in [AuthCall -> AuthLabels] /\ authAt'[c] \in {"done", "threw"}
        /\ \A d \in AuthCall : d # c => authAt'[d] = authAt[d]
    BY <2>2 DEF AuthGoes, AuthInv, AuthTypeOK, AuthLabels
  <2>4. AuthTypeOK' /\ UNCHANGED <<approvalOf, consumedBy, about, verdict>> /\ authAt[c] = "recording-use"
    BY <2>1, <2>3 DEF UseReturns, AuthInv, AuthTypeOK, AuthLabels
  <2>5. PermittedInv' /\ UniqueInv'
    BY <2>4 DEF AuthInv, PermittedInv, UniqueInv, Minted
  <2>6. StagesInv'
    BY <2>3, <2>4 DEF AuthInv, StagesInv, Minted
  <2> QED BY <2>4, <2>5, <2>6 DEF AuthInv
<1>8. CASE \E c \in User, id \in Approver, misfits \in {{}} \cup {{m} : m \in Misfits} : Use(c, id, misfits)
  BY <1>8, UseKeeps
<1>9. CASE \E c \in AuthCall : Recorded(c)
  BY <1>9, UndecidedKeeps DEF Recorded, AuthInv, AuthTypeOK, AuthLabels
<1>10. CASE \E id \in Approver : Lapse(id)
  BY <1>10 DEF Lapse, AuthInv, AuthTypeOK, PermittedInv, UniqueInv, StagesInv, Minted
<1>11. CASE UNCHANGED authVars
  BY <1>11 DEF authVars, AuthInv, AuthTypeOK, PermittedInv, UniqueInv, StagesInv, Minted
<1> QED BY <1>1, <1>2, <1>3, <1>4, <1>5, <1>6, <1>7, <1>8, <1>9, <1>10, <1>11 DEF AuthNext

\* For any number of approvals, clicks and presentations, and in any order.
THEOREM AnApprovalPermitsOnce == AuthSpec => []OneUsePerApproval
<1>1. AuthSpec => []AuthInv
  BY AuthStarts, AuthNextKeeps, PTL DEF AuthSpec
<1>2. AuthInv => OneUsePerApproval
  <2> SUFFICES ASSUME AuthInv, NEW a \in Approval
               PROVE  Cardinality({c \in AuthCall : verdict[c] = "permitted" /\ approvalOf[about[c]] = a}) <= 1
    BY DEF OneUsePerApproval
  <2> DEFINE uses == {c \in AuthCall : verdict[c] = "permitted" /\ approvalOf[about[c]] = a}
  <2>1. \A c, d \in uses : c = d
    <3> SUFFICES ASSUME NEW c \in uses, NEW d \in uses PROVE c = d
      OBVIOUS
    <3>1. about[c] \in Minted /\ about[d] \in Minted /\ consumedBy[about[c]] = c /\ consumedBy[about[d]] = d
      BY DEF AuthInv, PermittedInv
    <3>2. about[c] = about[d]
      BY <3>1 DEF AuthInv, UniqueInv, Minted
    <3> QED BY <3>1, <3>2
  <2>2. CASE uses = {}
    BY <2>2, FS_EmptySet
  <2>3. CASE uses # {}
    <3>1. PICK c \in uses : uses = {c}
      BY <2>1, <2>3
    <3>2. Cardinality({c}) = 1
      BY FS_Singleton
    <3>3. Cardinality(uses) = 1
      BY ONLY <3>1, <3>2
    <3> HIDE DEF uses
    <3>4. Cardinality(uses) <= 1
      BY <3>3
    <3> QED BY <3>4 DEF uses
  <2> QED BY <2>2, <2>3
<1> QED BY <1>1, <1>2, PTL

\* A refusal that invites a retry is never given for what no retry can repair.
THEOREM RepairIsWorthwhile == AuthSpec => RefusalSaysTheWorst
<1> DEFINE Worst == \A c \in AuthCall :
              verdict'[c] # verdict[c] /\ verdict'[c] \in Recoverable =>
                /\ about'[c] \in Minted \ (revoked \cup lapsed)
                /\ consumedBy[about'[c]] = Nobody
<1>1. AuthSpec => []AuthInv
  BY AuthStarts, AuthNextKeeps, PTL DEF AuthSpec
<1>2. AuthInv /\ [AuthNext]_authVars => [Worst]_authVars
  <2> SUFFICES ASSUME AuthInv, AuthNext,
                      NEW c \in AuthCall, verdict'[c] # verdict[c], verdict'[c] \in Recoverable
               PROVE  /\ about'[c] \in Minted \ (revoked \cup lapsed)
                      /\ consumedBy[about'[c]] = Nobody
    OBVIOUS
  <2>1. CASE \E u \in User : UseWithout(u)
    BY <2>1 DEF UseWithout, Recoverable, AuthInv, AuthTypeOK, AuthCall
  <2>2. CASE \E u \in User, id \in Approver, misfits \in {{}} \cup {{m} : m \in Misfits} : Use(u, id, misfits)
    <3>1. PICK u \in User, id \in Approver, misfits \in {{}} \cup {{m} : m \in Misfits} : Use(u, id, misfits)
      BY <2>2
    <3>2. PICK v \in Verdicts :
            /\ verdict' = [verdict EXCEPT ![u] = v]
            /\ v = "permitted" \/ Refuses(id, misfits, v)
      BY <3>1, UseDecides
    <3>3. u = c /\ verdict'[c] = v
      BY <3>2 DEF AuthInv, AuthTypeOK, AuthCall
    <3>4. about'[c] = id
      BY <3>1, <3>3 DEF Use, Names, AuthInv, AuthTypeOK, AuthCall
    <3>5. Refuses(id, misfits, v)
      BY <3>2, <3>3 DEF Recoverable
    <3> QED BY <3>3, <3>4, <3>5, RefusesMeans
  <2>3. CASE UNCHANGED verdict
    BY <2>3
  <2> QED BY <2>1, <2>2, <2>3 DEF AuthNext, AskApproval, Mint, MintRefused, AskRevocation, Revoke,
                                  UseReturns, Recorded, Lapse
<1> QED BY <1>1, <1>2, PTL DEF AuthSpec, RefusalSaysTheWorst

-----------------------------------------------------------------------------
(* The pictures.                                                           *)

WorksOnPicture(c) == assetAt[c] \in {"crop", "cropped", "normalise", "normalised", "reapply"}

Sound(document) ==
  \A x \in Picture : document[x].stated /\ document[x].publish => MayApprove(x, document[x].declared)

\* A verdict is sound in the file and in every document a call holds; the
\* request of a call names what the call works on.
VerdictInv ==
  /\ AssetTypeOK
  /\ Sound(decided) /\ \A c \in AssetCall : Sound(draft[c])
  /\ \A c \in AssetCall : WorksOnPicture(c) => wanted[c].picture \in Picture
  /\ \A c \in AssetCall : assetAt[c] \in {"crop", "cropped"} => wanted[c].point \in Point

LEMMA BlankIsSound == NoDraft \in AssetDocuments /\ Sound(NoDraft)
BY DEF NoDraft, AssetDocuments, Decisions, Undecided, Sound, Framing

LEMMA NoRequestIsOne == NoAssetRequest \in AssetRequests
BY DEF NoAssetRequest, AssetRequests

LEMMA PicturesStart == AssetInit => VerdictInv
<1> SUFFICES ASSUME AssetInit PROVE VerdictInv
  OBVIOUS
<1>1. AssetTypeOK
  BY BlankIsSound, NoRequestIsOne DEF AssetInit, AssetTypeOK, AssetLabels, Framing
<1>2. Sound(decided) /\ \A c \in AssetCall : Sound(draft[c])
  BY BlankIsSound DEF AssetInit
<1> QED BY <1>1, <1>2 DEF AssetInit, VerdictInv, WorksOnPicture

\* One entry of a sound document is changed for a sound entry.
LEMMA OneEntryChanges ==
  ASSUME NEW document \in AssetDocuments, Sound(document), NEW x \in Picture, NEW entry \in Decisions,
         entry.stated /\ entry.publish => MayApprove(x, entry.declared)
  PROVE  /\ [document EXCEPT ![x] = entry] \in AssetDocuments
         /\ Sound([document EXCEPT ![x] = entry])
BY DEF AssetDocuments, Sound

\* A call that takes a sound document to the await before its write.
LEMMA HoldingKeeps ==
  ASSUME VerdictInv, NEW c \in AssetCall, NEW document \in AssetDocuments, Sound(document),
         HoldsDraft(c, document), disturbed' \in BOOLEAN,
         UNCHANGED <<pictured, decided, crops, wanted, pending>>
  PROVE  VerdictInv'
<1>1. /\ assetAt' \in [AssetCall -> AssetLabels] /\ draft' \in [AssetCall -> AssetDocuments]
      /\ assetAt'[c] = "write" /\ draft'[c] = document
      /\ \A d \in AssetCall \ {c} : assetAt'[d] = assetAt[d] /\ draft'[d] = draft[d]
  BY DEF HoldsDraft, VerdictInv, AssetTypeOK, AssetLabels
<1>2. AssetTypeOK'
  BY <1>1 DEF VerdictInv, AssetTypeOK
<1>3. Sound(decided)' /\ \A d \in AssetCall : Sound(draft[d])'
  BY <1>1 DEF VerdictInv, Sound
<1> QED BY <1>1, <1>2, <1>3 DEF VerdictInv, WorksOnPicture

\* A call that keeps its documents and moves on to another await of its own.
LEMMA MovingKeeps ==
  ASSUME VerdictInv, NEW c \in AssetCall, NEW label \in AssetLabels,
         assetAt' = [assetAt EXCEPT ![c] = label],
         pictured' \subseteq Picture, crops' \in [Picture -> Framing], disturbed' \in BOOLEAN,
         wanted' \in [AssetCall -> AssetRequests], pending' \in [AssetCall -> SUBSET (Picture \X Point)],
         \A d \in AssetCall \ {c} : wanted'[d] = wanted[d],
         label \in {"crop", "cropped", "normalise", "normalised", "reapply"} => wanted'[c].picture \in Picture,
         label \in {"crop", "cropped"} => wanted'[c].point \in Point,
         UNCHANGED <<decided, draft>>
  PROVE  VerdictInv'
<1>1. /\ assetAt' \in [AssetCall -> AssetLabels] /\ assetAt'[c] = label
      /\ \A d \in AssetCall \ {c} : assetAt'[d] = assetAt[d]
  BY DEF VerdictInv, AssetTypeOK
<1>2. AssetTypeOK'
  BY <1>1 DEF VerdictInv, AssetTypeOK
<1>3. Sound(decided)' /\ \A d \in AssetCall : Sound(draft[d])'
  BY DEF VerdictInv, Sound
<1> QED BY <1>1, <1>2, <1>3 DEF VerdictInv, WorksOnPicture

LEMMA DecisionKeeps ==
  ASSUME VerdictInv, NEW c \in AssetCall, NEW x \in Picture,
         NEW publishes \in BOOLEAN, NEW declares \in BOOLEAN, NEW agrees \in BOOLEAN,
         Decide(c, x, publishes, declares, agrees)
  PROVE  VerdictInv'
<1> DEFINE entry == Decision(x, publishes, declares, agrees)
<1>1. entry \in Decisions
  BY DEF Decision, Decisions, VerdictInv, AssetTypeOK, Framing
<1>2. entry.stated /\ entry.publish => MayApprove(x, entry.declared)
  BY DEF Decision, Decide
<1>3. HoldsDraft(c, [decided EXCEPT ![x] = entry])
  BY DEF Decide
<1>4. [decided EXCEPT ![x] = entry] \in AssetDocuments /\ Sound([decided EXCEPT ![x] = entry])
  <2> HIDE DEF entry
  <2> QED BY <1>1, <1>2, OneEntryChanges DEF VerdictInv, AssetTypeOK
<1>5. disturbed' \in BOOLEAN /\ UNCHANGED <<pictured, decided, crops, wanted, pending>>
  BY DEF Decide, AssetCallBegins, VerdictInv, AssetTypeOK
<1> QED BY <1>3, <1>4, <1>5, HoldingKeeps

LEMMA ClearKeeps ==
  ASSUME VerdictInv, NEW c \in AssetCall, NEW x \in Picture, ClearDecision(c, x)
  PROVE  VerdictInv'
<1>1. Undecided \in Decisions /\ ~Undecided.stated
  BY DEF Undecided, Decisions, Framing
<1>2. /\ [decided EXCEPT ![x] = Undecided] \in AssetDocuments
      /\ Sound([decided EXCEPT ![x] = Undecided])
  BY <1>1, OneEntryChanges DEF VerdictInv, AssetTypeOK
<1>3. disturbed' \in BOOLEAN
  BY DEF ClearDecision, AssetCallBegins, VerdictInv, AssetTypeOK
<1> QED BY <1>2, <1>3, HoldingKeeps DEF ClearDecision

LEMMA WriteKeeps ==
  ASSUME VerdictInv, NEW c \in AssetCall, WriteDecisions(c)
  PROVE  VerdictInv'
<1>1. AssetTypeOK'
  BY BlankIsSound DEF WriteDecisions, VerdictInv, AssetTypeOK, AssetLabels, AssetRequests, NoAssetRequest
<1>2. Sound(decided)' /\ \A d \in AssetCall : Sound(draft[d])'
  <2>1. decided' = draft[c] /\ \A d \in AssetCall : draft'[d] = IF d = c THEN NoDraft ELSE draft[d]
    BY DEF WriteDecisions, VerdictInv, AssetTypeOK
  <2> QED BY <2>1, BlankIsSound DEF VerdictInv, Sound
<1> QED BY <1>1, <1>2 DEF WriteDecisions, VerdictInv, WorksOnPicture, AssetTypeOK

LEMMA RecroppedKeeps ==
  ASSUME VerdictInv, NEW c \in AssetCall, Recropped(c)
  PROVE  VerdictInv'
<1> DEFINE x == wanted[c].picture
           entry == Framed(decided[x], wanted[c].point)
<1>1. x \in Picture /\ wanted[c].point \in Point
  BY DEF Recropped, VerdictInv, WorksOnPicture
<1>2. entry \in Decisions /\ (entry.stated /\ entry.publish => MayApprove(x, entry.declared))
  <2>1. decided[x] \in Decisions /\ (decided[x].stated /\ decided[x].publish => MayApprove(x, decided[x].declared))
    BY <1>1 DEF VerdictInv, AssetTypeOK, AssetDocuments, Sound
  <2>2. CASE decided[x].recorded
    BY <1>1, <2>1, <2>2 DEF Framed, Decisions, Framing
  <2>3. CASE ~decided[x].recorded
    BY <1>1, <2>3 DEF Framed, Decisions, Undecided, Framing
  <2> QED BY <2>2, <2>3
<1>3. HoldsDraft(c, [decided EXCEPT ![x] = entry])
  BY DEF Recropped
<1>4. [decided EXCEPT ![x] = entry] \in AssetDocuments /\ Sound([decided EXCEPT ![x] = entry])
  <2> HIDE DEF entry, x
  <2> QED BY <1>1, <1>2, OneEntryChanges DEF VerdictInv, AssetTypeOK
<1>5. disturbed' \in BOOLEAN /\ UNCHANGED <<pictured, decided, crops, wanted, pending>>
  BY DEF Recropped, VerdictInv, AssetTypeOK
<1> QED BY <1>3, <1>4, <1>5, HoldingKeeps

LEMMA ReplacedKeeps ==
  ASSUME VerdictInv, NEW c \in AssetCall, Replaced(c)
  PROVE  VerdictInv'
<1> DEFINE new == wanted[c].picture
           old == wanted[c].retires
           arrival == Decision(new, TRUE, wanted[c].declared, FALSE)
<1>1. new \in Picture /\ old \in Picture /\ old # new
  BY DEF Replaced, Reapplied, MayReplace, VerdictInv, WorksOnPicture, AssetTypeOK, AssetRequests
<1>2. Retired(decided[old]) \in Decisions /\ ~Retired(decided[old]).publish
  <2>1. decided[old] \in Decisions
    BY <1>1 DEF VerdictInv, AssetTypeOK, AssetDocuments
  <2> QED BY <2>1 DEF Retired, Decisions
<1>3. arrival \in Decisions /\ MayApprove(new, arrival.declared)
  <2>1. wanted[c].declared \in BOOLEAN
    BY DEF VerdictInv, AssetTypeOK, AssetRequests
  <2> QED BY <2>1 DEF Decision, Decisions, Framing, Replaced, MayReplace
<1> DEFINE half == [decided EXCEPT ![old] = Retired(decided[old])]
           whole == [half EXCEPT ![new] = arrival]
<1>4. half \in AssetDocuments /\ Sound(half)
  BY <1>1, <1>2, OneEntryChanges DEF VerdictInv, AssetTypeOK
<1>5. whole \in AssetDocuments /\ Sound(whole)
  <2> HIDE DEF half, new, arrival
  <2> QED BY <1>1, <1>3, <1>4, OneEntryChanges
<1>6. HoldsDraft(c, whole)
  BY DEF Replaced
<1>7. disturbed' \in BOOLEAN /\ UNCHANGED <<pictured, decided, crops, wanted, pending>>
  BY DEF Replaced, VerdictInv, AssetTypeOK
<1> HIDE DEF whole
<1> QED BY <1>5, <1>6, <1>7, HoldingKeeps

LEMMA BeginningKeeps ==
  ASSUME VerdictInv, NEW c \in AssetCall, NEW label \in {"crop", "normalise"}, NEW request \in AssetRequests,
         request.picture \in Picture, label = "crop" => request.point \in Point,
         AssetCallBegins(c), wanted' = [wanted EXCEPT ![c] = request],
         assetAt' = [assetAt EXCEPT ![c] = label],
         UNCHANGED <<pictured, decided, crops, draft, pending>>
  PROVE  VerdictInv'
<1>1. /\ wanted' \in [AssetCall -> AssetRequests] /\ wanted'[c] = request
      /\ \A d \in AssetCall \ {c} : wanted'[d] = wanted[d]
  BY DEF VerdictInv, AssetTypeOK
<1>2. label \in AssetLabels /\ disturbed' \in BOOLEAN /\ pictured' \subseteq Picture
      /\ crops' \in [Picture -> Framing] /\ pending' \in [AssetCall -> SUBSET (Picture \X Point)]
  BY DEF AssetLabels, AssetCallBegins, VerdictInv, AssetTypeOK
<1> QED BY <1>1, <1>2, MovingKeeps

LEMMA WorkKeeps ==
  ASSUME VerdictInv, NEW c \in AssetCall,
         CropsLand(c) \/ VariantsLand(c) \/ CallFails(c) \/ PackAttached(c) \/ IngestionEnds(c)
  PROVE  VerdictInv'
<1>1. PICK label \in {"cropped", "normalised", "done", "reapply"} :
        /\ assetAt' = [assetAt EXCEPT ![c] = label]
        /\ label # "done" => WorksOnPicture(c) /\ wanted' = wanted
        /\ label = "cropped" => assetAt[c] = "crop"
  BY DEF CropsLand, VariantsLand, CallFails, PackAttached, IngestionEnds, WorksOnPicture
<1>2. /\ wanted' \in [AssetCall -> AssetRequests]
      /\ \A d \in AssetCall \ {c} : wanted'[d] = wanted[d]
  <2>1. wanted' = wanted \/ wanted' = [wanted EXCEPT ![c] = NoAssetRequest]
    BY DEF CropsLand, VariantsLand, CallFails, PackAttached, IngestionEnds
  <2> QED BY <2>1, NoRequestIsOne DEF VerdictInv, AssetTypeOK
<1>3. pictured' \subseteq Picture /\ disturbed' \in BOOLEAN /\ UNCHANGED <<decided, draft>>
  BY DEF CropsLand, VariantsLand, CallFails, PackAttached, IngestionEnds, VerdictInv, AssetTypeOK,
         WorksOnPicture
<1>4. crops' \in [Picture -> Framing]
  BY DEF CropsLand, VariantsLand, CallFails, PackAttached, IngestionEnds, VerdictInv, AssetTypeOK,
         Framing
<1>5. pending' \in [AssetCall -> SUBSET (Picture \X Point)]
  <2>1. CASE PackAttached(c)
    <3>1. pictured \cup {wanted[c].picture} \subseteq Picture
      BY <2>1 DEF PackAttached, VerdictInv, AssetTypeOK, WorksOnPicture
    <3>2. RecordedPoints(pictured \cup {wanted[c].picture}) \in SUBSET (Picture \X Point)
      BY <3>1 DEF RecordedPoints
    <3> QED BY <2>1, <3>2 DEF PackAttached, VerdictInv, AssetTypeOK
  <2>2. CASE ~PackAttached(c)
    BY <2>2 DEF CropsLand, VariantsLand, CallFails, IngestionEnds, VerdictInv, AssetTypeOK
  <2> QED BY <2>1, <2>2
<1>6. label \in AssetLabels
  BY DEF AssetLabels
<1>7. label # "done" => wanted'[c].picture \in Picture /\ (label = "cropped" => wanted'[c].point \in Point)
  BY <1>1 DEF VerdictInv
<1> QED BY <1>1, <1>2, <1>3, <1>4, <1>5, <1>6, <1>7, MovingKeeps

LEMMA ReapplyKeeps ==
  ASSUME VerdictInv, NEW c \in AssetCall, NEW f \in Picture \X Point, Reapply(c, f)
  PROVE  VerdictInv'
<1>1. AssetTypeOK'
  BY DEF Reapply, VerdictInv, AssetTypeOK, Framing
<1> QED BY <1>1 DEF Reapply, VerdictInv, WorksOnPicture, Sound

LEMMA PicturesNextKeeps == VerdictInv /\ [AssetNext]_assetVars => VerdictInv'
<1> SUFFICES ASSUME VerdictInv, [AssetNext]_assetVars PROVE VerdictInv'
  OBVIOUS
<1>1. CASE UNCHANGED assetVars
  BY <1>1 DEF assetVars, VerdictInv, AssetTypeOK, WorksOnPicture, Sound
<1>2. ASSUME NEW c \in AssetCall, NEW x \in Picture, NEW p \in Point, Recrop(c, x, p) PROVE VerdictInv'
  <2> DEFINE request == [NoAssetRequest EXCEPT !.picture = x, !.point = p]
  <2>1. request \in AssetRequests /\ request.picture \in Picture /\ request.point \in Point
    BY DEF NoAssetRequest, AssetRequests
  <2>2. /\ AssetCallBegins(c) /\ wanted' = [wanted EXCEPT ![c] = request]
        /\ assetAt' = [assetAt EXCEPT ![c] = "crop"] /\ UNCHANGED <<pictured, decided, crops, draft, pending>>
    BY <1>2 DEF Recrop
  <2> HIDE DEF request
  <2> QED BY <2>1, <2>2, BeginningKeeps
<1>3. ASSUME NEW c \in AssetCall, NEW request \in AssetRequests, request.picture \in Picture, Ingests(c, request)
      PROVE  VerdictInv'
  BY <1>3, BeginningKeeps DEF Ingests
<1>4. ASSUME NEW c \in AssetCall, NEW x \in Picture, IngestPicture(c, x) PROVE VerdictInv'
  <2>1. /\ [NoAssetRequest EXCEPT !.picture = x] \in AssetRequests
        /\ [NoAssetRequest EXCEPT !.picture = x].picture \in Picture
    BY DEF NoAssetRequest, AssetRequests
  <2> QED BY <1>3, <1>4, <2>1 DEF IngestPicture
<1>5. ASSUME NEW c \in AssetCall, NEW x \in Picture, NEW old \in Picture, NEW declares \in BOOLEAN,
             ReplacePicture(c, old, x, declares)
      PROVE  VerdictInv'
  <2> DEFINE request == [NoAssetRequest EXCEPT !.picture = x, !.retires = old, !.declared = declares]
  <2>1. request \in AssetRequests /\ request.picture \in Picture
    BY DEF NoAssetRequest, AssetRequests
  <2>2. Ingests(c, request)
    BY <1>5 DEF ReplacePicture
  <2> HIDE DEF request
  <2> QED BY <1>3, <2>1, <2>2
<1>6. CASE AssetNext
  BY <1>2, <1>4, <1>5, <1>6, DecisionKeeps, ClearKeeps, WriteKeeps, RecroppedKeeps, ReplacedKeeps, WorkKeeps,
     ReapplyKeeps DEF AssetNext, AssetStep
<1> QED BY <1>1, <1>6

\* Whatever overlaps, no document carries an approval that somebody stated
\* without the declaration an unlicensed picture needs.
THEOREM ApprovalsAreDeclared == AssetSpec => []ApprovalIsDeclared
<1>1. VerdictInv => ApprovalIsDeclared
  BY DEF VerdictInv, Sound, ApprovalIsDeclared
<1> QED BY <1>1, PicturesStart, PicturesNextKeeps, PTL DEF AssetSpec

\* What a call has left undone while it is the only one: the files follow the
\* document the call will write, the record, or the record but for the picture
\* it is working on.
Follows(x, document) == document[x].point # Nowhere => crops[x] = document[x].point

PhaseOK(c) ==
  /\ assetAt[c] = "write" => \A x \in pictured : Follows(x, draft[c])
  /\ assetAt[c] \in {"crop", "normalise"} => \A x \in pictured : Follows(x, decided)
  /\ assetAt[c] \in {"cropped", "normalised"} => \A x \in pictured \ {wanted[c].picture} : Follows(x, decided)
  /\ assetAt[c] = "cropped" => crops[wanted[c].picture] = wanted[c].point
  /\ assetAt[c] = "reapply" =>
       /\ \A x \in pictured : Follows(x, decided) \/ <<x, decided[x].point>> \in pending[c]
       /\ \A f \in pending[c] : decided[f[1]].point = f[2]

FrameInv ==
  /\ VerdictInv
  /\ ~disturbed =>
       /\ \A c, d \in AssetCall : InFlight(c) /\ InFlight(d) => c = d
       /\ AtRest => \A x \in pictured : Follows(x, decided)
       /\ \A c \in AssetCall : PhaseOK(c)

LEMMA FramesStart == AssetInit => FrameInv
<1> SUFFICES ASSUME AssetInit PROVE FrameInv
  OBVIOUS
<1>1. \A c \in AssetCall : PhaseOK(c) /\ ~InFlight(c)
  BY DEF AssetInit, PhaseOK, InFlight
<1> QED BY <1>1, PicturesStart DEF AssetInit, FrameInv

\* A step of one call leaves the labels, the draft, the request and the
\* framings of the others alone.
MovesAlone(c) ==
  /\ \A d \in AssetCall \ {c} :
       assetAt'[d] = assetAt[d] /\ draft'[d] = draft[d] /\ wanted'[d] = wanted[d] /\ pending'[d] = pending[d]
  /\ disturbed' \in BOOLEAN
  /\ ~disturbed' => /\ ~disturbed
                    /\ \/ InFlight(c)
                       \/ assetAt[c] = "idle" /\ \A d \in AssetCall : ~InFlight(d)

LEMMA AloneSuffices ==
  ASSUME FrameInv, VerdictInv', NEW c \in AssetCall, MovesAlone(c),
         ~disturbed' => /\ PhaseOK(c)'
                        /\ ~InFlight(c)' => \A x \in pictured' : Follows(x, decided)'
  PROVE  FrameInv'
<1> SUFFICES ASSUME ~disturbed'
             PROVE  /\ \A b, d \in AssetCall : InFlight(b)' /\ InFlight(d)' => b = d
                    /\ AtRest' => \A x \in pictured' : Follows(x, decided)'
                    /\ \A d \in AssetCall : PhaseOK(d)'
  BY DEF FrameInv
<1>1. ~disturbed
  BY DEF MovesAlone
<1>2. \A d \in AssetCall \ {c} : ~InFlight(d)
  BY <1>1 DEF MovesAlone, FrameInv
<1>3. \A d \in AssetCall \ {c} : ~InFlight(d)' /\ assetAt'[d] \in {"idle", "done"}
  BY <1>2 DEF MovesAlone, InFlight
<1>4. \A d \in AssetCall \ {c} : PhaseOK(d)'
  BY <1>3 DEF PhaseOK
<1> QED BY <1>3, <1>4 DEF AtRest

\* Before its first step a call finds the files as the record has them.
LEMMA BeginsAtRest ==
  ASSUME FrameInv, NEW c \in AssetCall, AssetCallBegins(c), ~disturbed'
  PROVE  \A x \in pictured : Follows(x, decided)
BY DEF AssetCallBegins, FrameInv, AtRest

LEMMA EveryStepIsAlone ==
  ASSUME VerdictInv, NEW c \in AssetCall, AssetStep(c)
  PROVE  MovesAlone(c)
<1>1. ASSUME AssetCallBegins(c)
      PROVE  /\ disturbed' \in BOOLEAN
             /\ ~disturbed' => ~disturbed /\ assetAt[c] = "idle" /\ \A d \in AssetCall : ~InFlight(d)
  BY <1>1 DEF AssetCallBegins, VerdictInv, AssetTypeOK
<1>2. CASE \E x \in Picture :
              \/ \E publishes, declares, agrees \in BOOLEAN : Decide(c, x, publishes, declares, agrees)
              \/ ClearDecision(c, x)
  <2>1. AssetCallBegins(c) /\ UNCHANGED <<wanted, pending>> /\ \E document : HoldsDraft(c, document)
    BY <1>2 DEF Decide, ClearDecision
  <2>2. \A d \in AssetCall \ {c} : assetAt'[d] = assetAt[d] /\ draft'[d] = draft[d]
    BY <2>1 DEF HoldsDraft, VerdictInv, AssetTypeOK
  <2> QED BY <1>1, <2>1, <2>2 DEF MovesAlone
<1>3. CASE \E x \in Picture :
              \/ \E p \in Point : Recrop(c, x, p)
              \/ IngestPicture(c, x)
              \/ \E old \in Picture, declares \in BOOLEAN : ReplacePicture(c, old, x, declares)
  <2>1. /\ AssetCallBegins(c) /\ UNCHANGED <<draft, pending>>
        /\ \E request : wanted' = [wanted EXCEPT ![c] = request]
        /\ \E label : assetAt' = [assetAt EXCEPT ![c] = label]
    BY <1>3 DEF Recrop, IngestPicture, ReplacePicture, Ingests
  <2>2. \A d \in AssetCall \ {c} : assetAt'[d] = assetAt[d] /\ wanted'[d] = wanted[d]
    BY <2>1 DEF VerdictInv, AssetTypeOK
  <2> QED BY <1>1, <2>1, <2>2 DEF MovesAlone
<1>4. CASE WriteDecisions(c) \/ Recropped(c) \/ Replaced(c)
  <2>1. InFlight(c) /\ UNCHANGED <<disturbed, pending>>
    BY <1>4 DEF WriteDecisions, Recropped, Replaced, Reapplied, InFlight
  <2>2. /\ \E label : assetAt' = [assetAt EXCEPT ![c] = label]
        /\ \E document : draft' = [draft EXCEPT ![c] = document]
        /\ wanted' = wanted \/ \E request : wanted' = [wanted EXCEPT ![c] = request]
    BY <1>4 DEF WriteDecisions, Recropped, Replaced, HoldsDraft
  <2>3. \A d \in AssetCall \ {c} : assetAt'[d] = assetAt[d] /\ draft'[d] = draft[d] /\ wanted'[d] = wanted[d]
    BY <2>2 DEF VerdictInv, AssetTypeOK
  <2> QED BY <2>1, <2>3 DEF MovesAlone, VerdictInv, AssetTypeOK
<1>5. CASE \/ CropsLand(c) \/ VariantsLand(c) \/ CallFails(c) \/ PackAttached(c) \/ IngestionEnds(c)
           \/ \E f \in Picture \X Point : Reapply(c, f)
  <2>1. InFlight(c) /\ UNCHANGED draft
    BY <1>5 DEF CropsLand, VariantsLand, CallFails, PackAttached, IngestionEnds, Reapply, Reapplied, InFlight
  <2>2. /\ assetAt' = assetAt \/ \E label : assetAt' = [assetAt EXCEPT ![c] = label]
        /\ pending' = pending \/ \E framings : pending' = [pending EXCEPT ![c] = framings]
        /\ wanted' = wanted \/ \E request : wanted' = [wanted EXCEPT ![c] = request]
    BY <1>5 DEF CropsLand, VariantsLand, CallFails, PackAttached, IngestionEnds, Reapply
  <2>3. \A d \in AssetCall \ {c} : assetAt'[d] = assetAt[d] /\ pending'[d] = pending[d] /\ wanted'[d] = wanted[d]
    BY <2>2 DEF VerdictInv, AssetTypeOK
  <2>4. disturbed' \in BOOLEAN /\ (~disturbed' => ~disturbed)
    BY <1>5 DEF CropsLand, VariantsLand, CallFails, PackAttached, IngestionEnds, Reapply,
                VerdictInv, AssetTypeOK
  <2> QED BY <2>1, <2>3, <2>4 DEF MovesAlone
<1> QED BY <1>2, <1>3, <1>4, <1>5 DEF AssetStep

\* A call ends with a document the files follow.
LEMMA HoldingFollows ==
  ASSUME VerdictInv, NEW c \in AssetCall, NEW document, HoldsDraft(c, document), UNCHANGED <<pictured, crops>>,
         \A x \in pictured : Follows(x, document)
  PROVE  PhaseOK(c)' /\ InFlight(c)'
<1>1. assetAt'[c] = "write" /\ draft'[c] = document
  BY DEF HoldsDraft, VerdictInv, AssetTypeOK
<1>2. \A x \in pictured' : Follows(x, draft[c])'
  BY <1>1 DEF Follows
<1> QED BY <1>1, <1>2 DEF PhaseOK, InFlight

\* What each step of a call has to keep, when the call is alone.
KeepsFrames(c) ==
  ~disturbed' => /\ PhaseOK(c)'
                 /\ ~InFlight(c)' => \A x \in pictured' : Follows(x, decided)'

LEMMA DecisionFollows ==
  ASSUME FrameInv, NEW c \in AssetCall, NEW x \in Picture,
         NEW publishes \in BOOLEAN, NEW declares \in BOOLEAN, NEW agrees \in BOOLEAN,
         Decide(c, x, publishes, declares, agrees) \/ ClearDecision(c, x)
  PROVE  KeepsFrames(c)
<1> SUFFICES ASSUME ~disturbed' PROVE PhaseOK(c)' /\ InFlight(c)'
  BY DEF KeepsFrames
<1>1. AssetCallBegins(c) /\ UNCHANGED <<pictured, crops>>
  BY DEF Decide, ClearDecision
<1>2. PICK entry : HoldsDraft(c, [decided EXCEPT ![x] = entry]) /\ entry.point = Nowhere
  <2>1. Decision(x, publishes, declares, agrees).point = Nowhere /\ Undecided.point = Nowhere
    BY DEF Decision, Undecided
  <2>2. CASE Decide(c, x, publishes, declares, agrees)
    BY <2>1, <2>2 DEF Decide
  <2>3. CASE ClearDecision(c, x)
    BY <2>1, <2>3 DEF ClearDecision
  <2> QED BY <2>2, <2>3
<1>3. \A y \in pictured : Follows(y, [decided EXCEPT ![x] = entry])
  BY <1>1, <1>2, BeginsAtRest DEF Follows, FrameInv, VerdictInv, AssetTypeOK, AssetDocuments
<1>4. VerdictInv
  BY DEF FrameInv
<1> QED BY <1>1, <1>2, <1>3, <1>4, HoldingFollows

LEMMA BeginningFollows ==
  ASSUME FrameInv, NEW c \in AssetCall, AssetCallBegins(c), NEW label \in {"crop", "normalise"},
         assetAt' = [assetAt EXCEPT ![c] = label], UNCHANGED <<pictured, decided, crops>>
  PROVE  KeepsFrames(c)
<1> SUFFICES ASSUME ~disturbed' PROVE PhaseOK(c)' /\ InFlight(c)'
  BY DEF KeepsFrames
<1>1. assetAt'[c] = label
  BY DEF FrameInv, VerdictInv, AssetTypeOK
<1>2. \A x \in pictured' : Follows(x, decided)'
  BY BeginsAtRest DEF Follows
<1> QED BY <1>1, <1>2 DEF PhaseOK, InFlight

LEMMA WriteFollows ==
  ASSUME FrameInv, NEW c \in AssetCall, WriteDecisions(c)
  PROVE  KeepsFrames(c)
<1> SUFFICES ASSUME ~disturbed' PROVE PhaseOK(c)' /\ \A x \in pictured' : Follows(x, decided)'
  BY DEF KeepsFrames
<1>1. assetAt'[c] = "done"
  BY DEF WriteDecisions, FrameInv, VerdictInv, AssetTypeOK
<1>2. \A x \in pictured' : Follows(x, decided)'
  BY DEF WriteDecisions, FrameInv, PhaseOK, Follows
<1> QED BY <1>1, <1>2 DEF PhaseOK

LEMMA FilesFollow ==
  ASSUME FrameInv, NEW c \in AssetCall, CropsLand(c) \/ VariantsLand(c)
  PROVE  KeepsFrames(c)
<1> SUFFICES ASSUME ~disturbed' PROVE PhaseOK(c)' /\ InFlight(c)'
  BY DEF KeepsFrames
<1>1. PICK label \in {"cropped", "normalised"} :
        /\ assetAt'[c] = label
        /\ assetAt[c] \in {"crop", "normalise"}
        /\ UNCHANGED <<pictured, decided, wanted>> /\ ~disturbed
        /\ label = "cropped" => crops' = [crops EXCEPT ![wanted[c].picture] = wanted[c].point]
        /\ \A x \in Picture \ {wanted[c].picture} : crops'[x] = crops[x]
  BY DEF CropsLand, VariantsLand, FrameInv, VerdictInv, AssetTypeOK
<1>2. \A x \in pictured' \ {wanted'[c].picture} : Follows(x, decided)'
  BY <1>1 DEF FrameInv, PhaseOK, Follows, VerdictInv, AssetTypeOK
<1>3. label = "cropped" => crops'[wanted'[c].picture] = wanted'[c].point
  BY <1>1 DEF FrameInv, VerdictInv, AssetTypeOK, WorksOnPicture
<1> QED BY <1>1, <1>2, <1>3 DEF PhaseOK, InFlight

LEMMA RecroppedFollows ==
  ASSUME FrameInv, NEW c \in AssetCall, Recropped(c)
  PROVE  KeepsFrames(c)
<1> SUFFICES ASSUME ~disturbed' PROVE PhaseOK(c)' /\ InFlight(c)'
  BY DEF KeepsFrames
<1> DEFINE x == wanted[c].picture
           document == [decided EXCEPT ![x] = Framed(decided[x], wanted[c].point)]
<1>1. HoldsDraft(c, document) /\ ~disturbed /\ assetAt[c] = "cropped" /\ UNCHANGED <<pictured, crops>>
  BY DEF Recropped
<1>2. x \in Picture /\ decided[x] \in Decisions
  BY <1>1 DEF FrameInv, VerdictInv, WorksOnPicture, AssetTypeOK, AssetDocuments
<1>3. Framed(decided[x], wanted[c].point).point = wanted[c].point
  BY <1>2 DEF Framed, Decisions, Undecided
<1>4. document[x].point = crops[x] /\ \A y \in Picture \ {x} : document[y] = decided[y]
  BY <1>1, <1>2, <1>3 DEF FrameInv, PhaseOK, VerdictInv, AssetTypeOK, AssetDocuments
<1>5. \A y \in pictured \ {x} : Follows(y, decided)
  BY <1>1 DEF FrameInv, PhaseOK
<1>6. \A y \in pictured : Follows(y, document)
  <2> HIDE DEF document, x
  <2> QED BY <1>4, <1>5 DEF Follows, FrameInv, VerdictInv, AssetTypeOK
<1>7. VerdictInv
  BY DEF FrameInv
<1> HIDE DEF document
<1> QED BY <1>1, <1>6, <1>7, HoldingFollows

LEMMA PackFollows ==
  ASSUME FrameInv, NEW c \in AssetCall, PackAttached(c)
  PROVE  KeepsFrames(c)
<1> SUFFICES ASSUME ~disturbed' PROVE PhaseOK(c)' /\ InFlight(c)'
  BY DEF KeepsFrames
<1>1. /\ assetAt'[c] = "reapply" /\ pending'[c] = RecordedPoints(pictured')
      /\ UNCHANGED <<decided, crops>> /\ ~disturbed /\ pictured' \subseteq Picture
  BY DEF PackAttached, FrameInv, VerdictInv, AssetTypeOK, WorksOnPicture
<1>2. \A x \in pictured' : decided[x].point # Nowhere => <<x, decided[x].point>> \in pending'[c]
  BY <1>1 DEF RecordedPoints, FrameInv, VerdictInv, AssetTypeOK, AssetDocuments, Decisions
<1>3. \A f \in pending'[c] : decided[f[1]].point = f[2]
  BY <1>1 DEF RecordedPoints
<1> QED BY <1>1, <1>2, <1>3 DEF PhaseOK, InFlight, Follows

LEMMA ReapplyFollows ==
  ASSUME FrameInv, NEW c \in AssetCall, NEW f \in Picture \X Point, Reapply(c, f)
  PROVE  KeepsFrames(c)
<1> SUFFICES ASSUME ~disturbed' PROVE PhaseOK(c)' /\ InFlight(c)'
  BY DEF KeepsFrames
<1>1. /\ assetAt'[c] = "reapply" /\ assetAt[c] = "reapply" /\ pending'[c] = pending[c] \ {f}
      /\ UNCHANGED <<decided, pictured>> /\ ~disturbed /\ f \in pending[c]
      /\ crops'[f[1]] = f[2] /\ \A x \in Picture \ {f[1]} : crops'[x] = crops[x]
  BY DEF Reapply, FrameInv, VerdictInv, AssetTypeOK
<1>2. \A x \in pictured : Follows(x, decided) \/ <<x, decided[x].point>> \in pending[c]
  BY <1>1 DEF FrameInv, PhaseOK
<1>3. \A g \in pending[c] : decided[g[1]].point = g[2]
  BY <1>1 DEF FrameInv, PhaseOK
<1>4. \A x \in pictured : Follows(x, decided)' \/ <<x, decided[x].point>> \in pending'[c]
  <2> SUFFICES ASSUME NEW x \in pictured
               PROVE  Follows(x, decided)' \/ <<x, decided[x].point>> \in pending'[c]
    OBVIOUS
  <2>1. CASE x = f[1]
    BY <1>1, <1>3, <2>1 DEF Follows
  <2>2. CASE x # f[1]
    <3>1. x \in Picture /\ <<x, decided[x].point>> # f
      BY <2>2 DEF FrameInv, VerdictInv, AssetTypeOK
    <3>2. Follows(x, decided) => Follows(x, decided)'
      BY <1>1, <2>2, <3>1 DEF Follows
    <3> QED BY <1>1, <1>2, <3>1, <3>2
  <2> QED BY <2>1, <2>2
<1> QED BY <1>1, <1>3, <1>4 DEF PhaseOK, InFlight

LEMMA EndFollows ==
  ASSUME FrameInv, NEW c \in AssetCall, CallFails(c) \/ IngestionEnds(c)
  PROVE  KeepsFrames(c)
<1>1. CASE CallFails(c)
  BY <1>1 DEF CallFails, KeepsFrames
<1>2. CASE IngestionEnds(c)
  <2>1. /\ assetAt'[c] = "done" /\ assetAt[c] = "reapply" /\ pending[c] = {} /\ disturbed' = disturbed
        /\ UNCHANGED <<pictured, decided, crops>>
    BY <1>2 DEF IngestionEnds, Reapplied, FrameInv, VerdictInv, AssetTypeOK
  <2>2. ~disturbed => \A x \in pictured' : Follows(x, decided)'
    BY <2>1 DEF FrameInv, PhaseOK, Follows
  <2> QED BY <2>1, <2>2 DEF KeepsFrames, PhaseOK
<1> QED BY <1>1, <1>2

LEMMA ReplacedFollows ==
  ASSUME FrameInv, NEW c \in AssetCall, Replaced(c)
  PROVE  KeepsFrames(c)
<1> SUFFICES ASSUME ~disturbed' PROVE PhaseOK(c)' /\ InFlight(c)'
  BY DEF KeepsFrames
<1> DEFINE new == wanted[c].picture
           old == wanted[c].retires
           document == [decided EXCEPT ![old] = Retired(decided[old]),
                                       ![new] = Decision(new, TRUE, wanted[c].declared, FALSE)]
<1>1. /\ HoldsDraft(c, document) /\ UNCHANGED <<pictured, crops>>
      /\ ~disturbed /\ assetAt[c] = "reapply" /\ pending[c] = {}
  BY DEF Replaced, Reapplied
<1>2. new \in Picture /\ old \in Picture /\ old # new
  BY DEF Replaced, Reapplied, MayReplace, FrameInv, VerdictInv, WorksOnPicture, AssetTypeOK, AssetRequests
<1>3. Retired(decided[old]).point = decided[old].point
  <2>1. decided[old] \in Decisions
    BY <1>2 DEF FrameInv, VerdictInv, AssetTypeOK, AssetDocuments
  <2> QED BY <2>1 DEF Retired, Decisions
<1>4. document[new].point = Nowhere /\ \A y \in Picture \ {new} : document[y].point = decided[y].point
  BY <1>2, <1>3 DEF Decision, FrameInv, VerdictInv, AssetTypeOK, AssetDocuments
<1>5. \A y \in pictured : Follows(y, decided)
  BY <1>1 DEF FrameInv, PhaseOK
<1>6. \A y \in pictured : Follows(y, document)
  <2> HIDE DEF document, new
  <2> QED BY <1>4, <1>5 DEF Follows, FrameInv, VerdictInv, AssetTypeOK
<1>7. VerdictInv
  BY DEF FrameInv
<1> HIDE DEF document
<1> QED BY <1>1, <1>6, <1>7, HoldingFollows

LEMMA FramesNextKeep == FrameInv /\ [AssetNext]_assetVars => FrameInv'
<1> SUFFICES ASSUME FrameInv, [AssetNext]_assetVars PROVE FrameInv'
  OBVIOUS
<1>1. VerdictInv'
  BY PicturesNextKeeps DEF FrameInv
<1>2. CASE UNCHANGED assetVars
  BY <1>1, <1>2 DEF assetVars, FrameInv, PhaseOK, InFlight, AtRest, Follows
<1>3. CASE AssetNext
  <2>1. PICK c \in AssetCall : AssetStep(c)
    BY <1>3 DEF AssetNext
  <2>2. MovesAlone(c)
    BY <2>1, EveryStepIsAlone DEF FrameInv
  <2>3. ASSUME \E x \in Picture :
                 \/ \E p \in Point : Recrop(c, x, p)
                 \/ IngestPicture(c, x)
                 \/ \E old \in Picture, declares \in BOOLEAN : ReplacePicture(c, old, x, declares)
        PROVE  KeepsFrames(c)
    <3>1. /\ AssetCallBegins(c) /\ UNCHANGED <<pictured, decided, crops>>
          /\ \E label \in {"crop", "normalise"} : assetAt' = [assetAt EXCEPT ![c] = label]
      BY <2>3 DEF Recrop, IngestPicture, ReplacePicture, Ingests
    <3> QED BY <3>1, BeginningFollows
  <2>4. KeepsFrames(c)
    BY <2>1, <2>3, DecisionFollows, WriteFollows, FilesFollow, RecroppedFollows, PackFollows, ReapplyFollows,
       EndFollows, ReplacedFollows DEF AssetStep
  <2> QED BY <1>1, <2>2, <2>4, AloneSuffices DEF KeepsFrames
<1> QED BY <1>2, <1>3

\* While calls do not overlap and none fails with files made, a point that is on record
\* is the framing on disk whenever no call is at work.
THEOREM CropsFollowTheRecord == AssetSpec => []CropsFollowRecord
<1>1. FrameInv => CropsFollowRecord
  BY DEF FrameInv, CropsFollowRecord, Follows
<1> QED BY <1>1, FramesStart, FramesNextKeep, PTL DEF AssetSpec

-----------------------------------------------------------------------------
\* Changes of data.  An approval stands for what its approver read, and the
\* rehearsal that is about to restore does so over what it saw damaged.
ApprovalsWereRead ==
  \A a \in approvals : \E r \in reviews :
    /\ r.text \in Texts
    /\ r.named = a.grantedBy /\ r.named \in {r.by, Unnamed} /\ r.until = a.expiresAt
    /\ a.planDigest = PlanDigest(r.text)

RehearsalKnowsWhatItLost ==
  rehearsal # Absent =>
    /\ rehearsal.step \in {"damage", "restore"} => rehearsal.snapshotId # Absent
    /\ rehearsal.step = "restore" => ~rehearsal.deaf /\ rehearsal.holds # Baseline

DataInv == DataTypeOK /\ ApprovalsWereRead /\ RehearsalKnowsWhatItLost /\ VerifiedMeansRestored

LEMMA DataStarts == DataInit => DataInv
  BY DataChangeAssumption
     DEF DataInit, DataInv, DataTypeOK, ApprovalsWereRead, RehearsalKnowsWhatItLost, VerifiedMeansRestored

LEMMA PlanParts ==
  ASSUME NEW p \in Plans
  PROVE  p.id \in Migration /\ p.environment \in Environment /\ p.databaseId \in Database
<1>1. PICK planned \in Texts, text \in Texts, proposedBy \in Person \cup {Unnamed},
           expected \in SUBSET Migration :
        p = Edited(PlanDataChange(planned, proposedBy, expected), text)
  BY DEF Plans
<1> QED BY <1>1 DEF Edited, PlanDataChange, Texts

\* A plan nobody has edited: its classes and its digest are those of its text.
LEMMA PlannedParts ==
  ASSUME NEW p, AsPlanned(p)
  PROVE  /\ p.classes = Classes(p.statements) /\ p.digest = Text(p)
         /\ p.classification = IF p.statements = <<>> THEN "none" ELSE WorstClass(p.statements)
  BY DEF AsPlanned, PlanDataChange, PlanDigest, Text

LEMMA ChangeParts ==
  ASSUME NEW c \in Coherent
  PROVE  c.plan \in Plans /\ c.on \in Database /\ ~TargetRefused(c.plan, c.on) /\ ~StatementRefused(c.plan)
  BY DEF Coherent

\* A step of a rehearsal leaves the people's side alone.
LEMMA PeopleStand ==
  ASSUME DataInv, UNCHANGED <<time, people>>
  PROVE  /\ ApprovalsWereRead'
         /\ time' \in 0..MaxTime /\ applied' \in [Database -> SUBSET Migration]
         /\ \A a \in approvals' : a.grantedBy \in Person \cup {Unnamed} /\ a.environment \in Environment
  BY DEF DataInv, DataTypeOK, ApprovalsWereRead, people

LEMMA ApproveKeeps ==
  ASSUME DataInv, NEW by \in Person, NEW grantedBy \in Person \cup {Unnamed}, NEW text \in Texts,
         Approve(by, grantedBy, text)
  PROVE  DataInv'
<1>1. DataTypeOK'
  <2>1. text.environment \in Environment
    BY DEF Texts
  <2>2. \A a \in approvals' : a.grantedBy \in Person \cup {Unnamed} /\ a.environment \in Environment
    BY <2>1 DEF Approve, DataInv, DataTypeOK
  <2> QED BY <2>2 DEF Approve, DataInv, DataTypeOK, adapters
<1>2. ApprovalsWereRead'
  <2>1. \A r \in reviews : r \in reviews'
    BY DEF Approve
  <2>2. [by |-> by, named |-> grantedBy, text |-> text, until |-> time + ApprovalLife] \in reviews'
    BY DEF Approve
  <2>3. ASSUME NEW a \in approvals'
        PROVE  \E r \in reviews' : /\ r.text \in Texts
                                   /\ r.named = a.grantedBy /\ r.named \in {r.by, Unnamed}
                                   /\ r.until = a.expiresAt
                                   /\ a.planDigest = PlanDigest(r.text)
    <3>1. CASE a \in approvals
      BY <2>1, <3>1 DEF DataInv, ApprovalsWereRead
    <3>2. CASE a = [grantedBy |-> grantedBy, environment |-> text.environment,
                    expiresAt |-> time + ApprovalLife, planDigest |-> PlanDigest(text)]
      BY <2>2, <3>2 DEF Approve
    <3> QED BY <3>1, <3>2 DEF Approve
  <2> QED BY <2>3 DEF ApprovalsWereRead
<1>3. RehearsalKnowsWhatItLost' /\ VerifiedMeansRestored'
  BY DEF Approve, adapters, DataInv, RehearsalKnowsWhatItLost, VerifiedMeansRestored, Baseline
<1> QED BY <1>1, <1>2, <1>3 DEF DataInv

LEMMA RunKeeps ==
  ASSUME DataInv, NEW on \in Database, NEW id \in Migration, Run(on, id)
  PROVE  DataInv'
<1>2. applied' \in [Database -> SUBSET Migration]
  BY DEF Run, DataInv, DataTypeOK
<1> QED BY <1>2 DEF Run, adapters, DataInv, DataTypeOK, ApprovalsWereRead, RehearsalKnowsWhatItLost,
                   VerifiedMeansRestored, Baseline

LEMMA TickKeeps == DataInv /\ Tick => DataInv'
<1> SUFFICES ASSUME DataInv, Tick PROVE DataInv'
  OBVIOUS
<1>1. time' \in 0..MaxTime
  BY DataChangeAssumption DEF Tick, DataInv, DataTypeOK
<1> QED BY <1>1 DEF Tick, people, adapters, DataInv, DataTypeOK, ApprovalsWereRead, RehearsalKnowsWhatItLost,
                   VerifiedMeansRestored, Baseline

\* A capture counts to a number.
LEMMA CountParts ==
  ASSUME DataInv, NEW d \in Database, Counts(d)
  PROVE  /\ sequence' \in [Database -> 0..MaxSnapshots]
         /\ sequence'[d] \in 1..MaxSnapshots /\ sequence'[d] # Absent
<1>1. sequence[d] \in 0..MaxSnapshots /\ sequence[d] < MaxSnapshots /\ MaxSnapshots \in Nat
  BY DataChangeAssumption DEF DataInv, DataTypeOK, Counts
<1>2. sequence' \in [Database -> 0..MaxSnapshots] /\ sequence'[d] = sequence[d] + 1
  BY <1>1 DEF DataInv, DataTypeOK, Counts
<1>3. sequence'[d] \in 1..MaxSnapshots
  BY <1>1, <1>2
<1> QED BY <1>2, <1>3, DataChangeAssumption

\* A captured snapshot is one of the records, and its id is a number.
LEMMA CaptureParts ==
  ASSUME DataInv, NEW d \in Database, Captures(d)
  PROVE  /\ sequence' \in [Database -> 0..MaxSnapshots] /\ snapshots' \subseteq Snapshots
         /\ sequence'[d] \in 1..MaxSnapshots /\ sequence'[d] # Absent
<1>1. sequence' \in [Database -> 0..MaxSnapshots] /\ sequence'[d] \in 1..MaxSnapshots
      /\ sequence'[d] # Absent
  BY CountParts DEF Captures
<1>2. snapshots' \subseteq Snapshots
  BY <1>1 DEF Captures, DataInv, DataTypeOK, Snapshots
<1> QED BY <1>1, <1>2

LEMMA TakeSnapshotKeeps ==
  ASSUME DataInv, NEW d \in Database, TakeSnapshot(d)
  PROVE  DataInv'
<1>1. Captures(d)
  BY DEF TakeSnapshot
<1> QED BY <1>1, CaptureParts DEF TakeSnapshot, people, DataInv, DataTypeOK, ApprovalsWereRead,
                                  RehearsalKnowsWhatItLost, VerifiedMeansRestored, Baseline

LEMMA BeginRehearsalKeeps == DataInv /\ BeginRehearsal => DataInv'
<1> SUFFICES ASSUME DataInv, BeginRehearsal PROVE DataInv'
  OBVIOUS
<1>1. PICK rows \in 0..1, deaf \in BOOLEAN :
        rehearsal' = [step |-> "baseline", deaf |-> deaf, snapshotId |-> Absent,
                      holds |-> [schema |-> "seeded", rows |-> rows]]
  BY DEF BeginRehearsal
<1>2. rehearsal' \in Rehearsals /\ RehearsalKnowsWhatItLost'
  BY <1>1 DEF Rehearsals, Contents, RehearsalKnowsWhatItLost
<1> QED BY <1>2, PeopleStand DEF BeginRehearsal, DataInv, DataTypeOK, VerifiedMeansRestored

\* A rehearsal that ends without passing leaves evidence that says so.
LEMMA FailureKeeps ==
  ASSUME DataInv, rehearsal # Absent, Conclude(FALSE), UNCHANGED <<time, people, snapshots, restored>>,
         sequence' \in [Database -> 0..MaxSnapshots]
  PROVE  DataInv'
<1>1. rehearsal.snapshotId \in (1..MaxSnapshots) \cup {Absent}
  BY DEF DataInv, DataTypeOK, Rehearsals
<1>2. evidence' \in Evidence /\ evidence'.verified = FALSE /\ rehearsal' = Absent
  BY <1>1 DEF Conclude, Evidence, DataInv, DataTypeOK
<1> QED BY <1>2, PeopleStand DEF DataInv, DataTypeOK, RehearsalKnowsWhatItLost, VerifiedMeansRestored

\* A rehearsal that goes on does so as a rehearsal.
LEMMA GoesOnKeeps ==
  ASSUME DataInv, UNCHANGED <<time, people, evidence, restored>>,
         sequence' \in [Database -> 0..MaxSnapshots], snapshots' \subseteq Snapshots,
         rehearsal' \in Rehearsals, RehearsalKnowsWhatItLost'
  PROVE  DataInv'
  BY PeopleStand DEF DataInv, DataTypeOK, VerifiedMeansRestored

LEMMA MeasureBaselineKeeps == DataInv /\ MeasureBaseline => DataInv'
<1> SUFFICES ASSUME DataInv, MeasureBaseline PROVE DataInv'
  OBVIOUS
<1>0. rehearsal # Absent /\ rehearsal \in Rehearsals
  BY DEF MeasureBaseline, At, DataInv, DataTypeOK
<1>1. CASE Proceed("capture") /\ UNCHANGED evidence
  <2>1. rehearsal' \in Rehearsals /\ rehearsal'.step = "capture"
    BY <1>0, <1>1 DEF Proceed, Rehearsals
  <2> QED BY <1>1, <2>1, GoesOnKeeps DEF MeasureBaseline, RehearsalKnowsWhatItLost, DataInv, DataTypeOK
<1>2. CASE Conclude(FALSE)
  BY <1>0, <1>2, FailureKeeps DEF MeasureBaseline, DataInv, DataTypeOK
<1> QED BY <1>1, <1>2 DEF MeasureBaseline

LEMMA CaptureSnapshotKeeps == DataInv /\ CaptureSnapshot => DataInv'
<1> SUFFICES ASSUME DataInv, CaptureSnapshot PROVE DataInv'
  OBVIOUS
<1>0. rehearsal # Absent /\ rehearsal \in Rehearsals
  BY DEF CaptureSnapshot, At, DataInv, DataTypeOK
<1>1. CASE /\ Captures(Disposable)
           /\ rehearsal' = [rehearsal EXCEPT !.step = "damage", !.snapshotId = sequence'[Disposable]]
           /\ UNCHANGED evidence
  <2>1. Disposable \in Database
    BY DataChangeAssumption
  <2>2. rehearsal' \in Rehearsals /\ rehearsal'.step = "damage" /\ rehearsal'.snapshotId # Absent
    BY <1>0, <1>1, <2>1, CaptureParts DEF Rehearsals
  <2> QED BY <1>1, <2>1, <2>2, CaptureParts, GoesOnKeeps DEF CaptureSnapshot, RehearsalKnowsWhatItLost
<1>2. CASE Counts(Disposable) /\ Conclude(FALSE) /\ UNCHANGED snapshots
  <2>1. sequence' \in [Database -> 0..MaxSnapshots]
    BY <1>2, CountParts, DataChangeAssumption
  <2> QED BY <1>0, <1>2, <2>1, FailureKeeps DEF CaptureSnapshot
<1> QED BY <1>1, <1>2 DEF CaptureSnapshot

LEMMA DamageKeeps == DataInv /\ Damage => DataInv'
<1> SUFFICES ASSUME DataInv, Damage PROVE DataInv'
  OBVIOUS
<1>0. rehearsal # Absent /\ rehearsal \in Rehearsals /\ rehearsal.snapshotId # Absent
  BY DEF Damage, At, DataInv, DataTypeOK, RehearsalKnowsWhatItLost
<1>1. PICK content \in Contents :
        IF Reported(content) = Baseline
        THEN Conclude(FALSE)
        ELSE rehearsal' = [rehearsal EXCEPT !.step = "restore", !.holds = content] /\ UNCHANGED evidence
  BY DEF Damage
<1>2. CASE Reported(content) = Baseline
  BY <1>0, <1>1, <1>2, FailureKeeps DEF Damage, DataInv, DataTypeOK
<1>3. CASE Reported(content) # Baseline
  <2>1. ~rehearsal.deaf /\ content # Baseline
    BY <1>3 DEF Reported
  <2>2. rehearsal' \in Rehearsals /\ RehearsalKnowsWhatItLost'
    BY <1>0, <1>1, <1>3, <2>1 DEF Rehearsals, RehearsalKnowsWhatItLost, Baseline
  <2> QED BY <1>1, <1>3, <2>2, GoesOnKeeps DEF Damage, DataInv, DataTypeOK
<1> QED BY <1>2, <1>3

LEMMA RestoreKeeps == DataInv /\ Restore => DataInv'
<1> SUFFICES ASSUME DataInv, Restore PROVE DataInv'
  OBVIOUS
<1>0. /\ rehearsal # Absent /\ rehearsal \in Rehearsals /\ rehearsal.snapshotId # Absent
      /\ ~rehearsal.deaf /\ rehearsal.holds # Baseline
  BY DEF Restore, At, DataInv, DataTypeOK, RehearsalKnowsWhatItLost
<1>1. PICK content \in Contents :
        /\ Conclude(Reported(content) = Baseline)
        /\ IF rehearsal.holds # content /\ content = Baseline
           THEN restored' = [snapshotId |-> rehearsal.snapshotId, of |-> Disposable, at |-> time]
           ELSE UNCHANGED restored
  BY DEF Restore
<1>2. CASE content = Baseline
  <2>1. /\ rehearsal' = Absent
        /\ evidence' = [rehearsedAt |-> time, snapshotId |-> rehearsal.snapshotId, verified |-> TRUE]
        /\ restored' = [snapshotId |-> rehearsal.snapshotId, of |-> Disposable, at |-> time]
    BY <1>0, <1>1, <1>2 DEF Conclude, Reported
  <2>2. evidence' \in Evidence
    BY <1>0, <2>1 DEF Evidence, Rehearsals, DataInv, DataTypeOK
  <2> QED BY <1>0, <2>1, <2>2, PeopleStand DEF Restore, DataInv, DataTypeOK, RehearsalKnowsWhatItLost,
                                              VerifiedMeansRestored
<1>3. CASE content # Baseline
  <2>1. Conclude(FALSE) /\ UNCHANGED restored
    BY <1>0, <1>1, <1>3 DEF Reported
  <2> QED BY <1>0, <2>1, FailureKeeps DEF Restore, DataInv, DataTypeOK
<1> QED BY <1>2, <1>3

LEMMA DataKeeps == DataInv /\ [DataNext]_dataVars => DataInv'
<1> SUFFICES ASSUME DataInv, [DataNext]_dataVars PROVE DataInv'
  OBVIOUS
<1>1. CASE UNCHANGED dataVars
  BY <1>1 DEF dataVars, people, adapters, DataInv, DataTypeOK, ApprovalsWereRead, RehearsalKnowsWhatItLost,
              VerifiedMeansRestored, Baseline
<1>2. CASE AdapterThrows
  BY <1>2, FailureKeeps DEF AdapterThrows, DataInv, DataTypeOK
<1> QED BY <1>1, <1>2, TickKeeps, ApproveKeeps, RunKeeps, TakeSnapshotKeeps, BeginRehearsalKeeps,
           MeasureBaselineKeeps, CaptureSnapshotKeeps, DamageKeeps, RestoreKeeps DEF DataNext

LEMMA DataHolds == DataSpec => []DataInv
  BY DataStarts, DataKeeps, PTL DEF DataSpec

\* Recovery records, rehearsals and evidence are always what the code can make of them.
THEOREM DataTypes == DataSpec => []DataTypeOK
  BY DataHolds, PTL DEF DataInv

\* A rehearsal that says verified brought back, from something else, what it
\* had captured, whatever the adapter does and wherever it throws.
THEOREM VerifiedMeansItWasRestored == DataSpec => []VerifiedMeansRestored
  BY DataHolds, PTL DEF DataInv

\* A plan for production is one nobody has edited, for the database it would
\* run on, with statements that were all read.
LEMMA ProductionParts ==
  ASSUME NEW c \in InProduction
  PROVE  /\ c \in Coherent /\ AsPlanned(c.plan)
         /\ c.plan.environment = "production" /\ c.plan.databaseId = c.on
         /\ c.plan.statements # <<>> /\ "unclassified" \notin Classes(c.plan.statements)
<1>1. c \in Coherent /\ AsPlanned(c.plan) /\ c.plan.environment = "production" /\ c.plan.databaseId = c.on
  BY ChangeParts DEF InProduction, TargetRefused
<1> QED BY <1>1, ChangeParts, PlannedParts DEF StatementRefused

LEMMA ClassOrderRange ==
  /\ Range(ClassOrder) = {"additive", "backfill", "contract", "narrowing", "destructive", "unclassified"}
  /\ \A n \in 1..6 : ClassOrder[n] \in Irreversible => n >= 3
  /\ \A n \in 1..6 : n >= 3 => ClassOrder[n] \in Irreversible \cup {"unclassified"}
  /\ DOMAIN ClassOrder = 1..6
<1>1. DOMAIN ClassOrder = 1..6
  BY DEF ClassOrder
<1>2. \A n \in 1..6 : n = 1 \/ n = 2 \/ n = 3 \/ n = 4 \/ n = 5 \/ n = 6
  OBVIOUS
<1>3. /\ ClassOrder[1] = "additive" /\ ClassOrder[2] = "backfill" /\ ClassOrder[3] = "contract"
      /\ ClassOrder[4] = "narrowing" /\ ClassOrder[5] = "destructive" /\ ClassOrder[6] = "unclassified"
  BY DEF ClassOrder
<1>4. Range(ClassOrder) = {ClassOrder[n] : n \in 1..6}
  BY <1>1 DEF Range
<1>5. Range(ClassOrder) = {"additive", "backfill", "contract", "narrowing", "destructive", "unclassified"}
  BY <1>2, <1>3, <1>4
<1> QED BY <1>1, <1>2, <1>3, <1>5 DEF Irreversible

LEMMA MaxOfSome ==
  ASSUME NEW S \in SUBSET (1..6), S # {}
  PROVE  Max(S) \in S /\ \A n \in S : Max(S) >= n
<1>1. \E m \in S : \A n \in S : m >= n
  <2>1. \A n \in S : n \in Int /\ (n = 1 \/ n = 2 \/ n = 3 \/ n = 4 \/ n = 5 \/ n = 6)
    OBVIOUS
  <2>2. CASE 6 \in S
    BY <2>1, <2>2
  <2>3. CASE 5 \in S /\ 6 \notin S
    BY <2>1, <2>3
  <2>4. CASE 4 \in S /\ 5 \notin S /\ 6 \notin S
    BY <2>1, <2>4
  <2>5. CASE 3 \in S /\ 4 \notin S /\ 5 \notin S /\ 6 \notin S
    BY <2>1, <2>5
  <2>6. CASE 2 \in S /\ 3 \notin S /\ 4 \notin S /\ 5 \notin S /\ 6 \notin S
    BY <2>1, <2>6
  <2>7. CASE S = {1}
    BY <2>7
  <2>8. 1 \in S \/ 2 \in S \/ 3 \in S \/ 4 \in S \/ 5 \in S \/ 6 \in S
    BY <2>1
  <2>9. 6 \notin S /\ 5 \notin S /\ 4 \notin S /\ 3 \notin S /\ 2 \notin S => S = {1}
    BY <2>1, <2>8
  <2> QED BY <2>2, <2>3, <2>4, <2>5, <2>6, <2>7, <2>9
<1> QED BY <1>1 DEF Max

\* The worst class of a plan is one of its own, and irreversible or unread when
\* any of them is irreversible.
LEMMA WorstIsWorst ==
  ASSUME NEW statements, Classes(statements) \cap Range(ClassOrder) # {}
  PROVE  /\ WorstClass(statements) \in Classes(statements)
         /\ Classes(statements) \cap Irreversible # {} =>
              WorstClass(statements) \in Irreversible \cup {"unclassified"}
<1> DEFINE Found == {n \in DOMAIN ClassOrder : ClassOrder[n] \in Classes(statements)}
<1>1. Found \in SUBSET (1..6) /\ Found # {}
  BY ClassOrderRange DEF Range
<1>2. Max(Found) \in Found /\ \A n \in Found : Max(Found) >= n
  BY <1>1, MaxOfSome
<1>3. WorstClass(statements) = ClassOrder[Max(Found)]
  BY DEF WorstClass
<1>4. WorstClass(statements) \in Classes(statements)
  BY <1>2, <1>3
<1>5. ASSUME Classes(statements) \cap Irreversible # {}
      PROVE  WorstClass(statements) \in Irreversible \cup {"unclassified"}
  <2>1. PICK k \in Irreversible : k \in Classes(statements)
    BY <1>5
  <2>2. PICK n \in 1..6 : ClassOrder[n] = k
    BY ClassOrderRange DEF Range, Irreversible
  <2>3. n \in Found /\ n >= 3
    BY <2>1, <2>2, ClassOrderRange
  <2>4. Max(Found) \in 1..6 /\ Max(Found) >= 3
    BY <1>1, <1>2, <2>3
  <2> QED BY <1>3, <2>4, ClassOrderRange
<1> QED BY <1>4, <1>5

\* However a change is rewritten, retargeted and planned again around its
\* approvals, and however they expire, what may run on a production database was
\* read as it stands, for that database, by someone other than its proposer;
\* unless the approval or the plan names nobody.
THEOREM AllowedWasAlwaysReviewed == DataSpec => []AllowedWasReviewed
<1>1. DataInv => AllowedWasReviewed
  <2> SUFFICES ASSUME DataInv, NEW c \in InProduction, NEW recovery \in Records, NEW proof \in Proofs,
                      Allowed(c, recovery, proof)
               PROVE  \E r \in reviews :
                        /\ r.text = Text(c.plan)
                        /\ r.until > time
                        /\ r.by # c.plan.proposedBy \/ Unnamed \in {r.named, c.plan.proposedBy}
    BY DEF AllowedWasReviewed
  <2>1. c.plan.environment = "production" /\ c.plan.digest = Text(c.plan)
    BY ProductionParts, PlannedParts
  <2>2. ApprovalRequired(c.plan)
    BY <2>1 DEF ApprovalRequired
  <2>3. ~ApprovalRefused(c.plan)
    BY <2>2 DEF Allowed, Sanctioned
  <2>4. PICK a \in Live(c.plan) : c.plan.proposedBy # Unnamed => a.grantedBy # c.plan.proposedBy
    BY <2>3 DEF ApprovalRefused
  <2>5. a \in approvals /\ a.expiresAt > time /\ a.planDigest = c.plan.digest
    BY DEF Live, Bound
  <2>6. PICK r \in reviews : /\ r.text \in Texts
                             /\ r.named = a.grantedBy /\ r.named \in {r.by, Unnamed}
                             /\ r.until = a.expiresAt
                             /\ a.planDigest = PlanDigest(r.text)
    BY <2>5 DEF DataInv, ApprovalsWereRead
  <2>7. r.text = a.planDigest
    BY <2>6 DEF PlanDigest, Texts
  <2> QED BY <2>1, <2>4, <2>5, <2>6, <2>7
<1> QED BY <1>1, DataHolds, PTL

\* A plan with a statement, whichever of them it is, that the reader takes for
\* irreversible may run on a production database only beside a snapshot of that
\* database inside its window, and after a restore inside its own that did bring
\* back a snapshot of that id.
THEOREM AllowedIsAlwaysRestorable == DataSpec => []AllowedIsRestorable
<1>1. DataInv => AllowedIsRestorable
  <2> SUFFICES ASSUME DataInv, NEW c \in Losses, NEW recovery \in Records, NEW proof \in Proofs,
                      Allowed(c, recovery, proof)
               PROVE  /\ recovery \in snapshots
                      /\ recovery.of = c.on /\ time - recovery.capturedAt <= RecoveryAge
                      /\ restored = [snapshotId |-> recovery.snapshotId, of |-> Disposable,
                                     at |-> proof.rehearsedAt]
                      /\ time - proof.rehearsedAt <= RehearsalAge
    BY DEF AllowedIsRestorable
  <2>1. /\ c \in InProduction /\ Classes(c.plan.statements) \cap Irreversible # {}
        /\ c.plan.environment = "production" /\ c.plan.databaseId = c.on
    BY ProductionParts DEF Losses
  <2>2. RecoveryRequired(c.plan) /\ RehearsalRequired(c.plan)
    <3>1. c.plan.statements # <<>> /\ c.plan.classification = WorstClass(c.plan.statements)
      BY <2>1, ProductionParts, PlannedParts
    <3>2. Classes(c.plan.statements) \cap Range(ClassOrder) # {}
      BY <2>1, ClassOrderRange DEF Irreversible
    <3>3. c.plan.classification \in Irreversible
      BY <2>1, <3>1, <3>2, ProductionParts, WorstIsWorst
    <3> QED BY <2>1, <3>3 DEF RecoveryRequired, RehearsalRequired
  <2>3. ~RecoveryRefused(c.plan, recovery) /\ ~RehearsalRefused(recovery, proof)
    BY <2>2 DEF Allowed, Restorable
  <2>4. /\ recovery \in snapshots /\ recovery # Absent
        /\ recovery.of = c.on /\ ~(time - recovery.capturedAt > RecoveryAge)
    BY <2>1, <2>3 DEF RecoveryRefused, Records
  <2>5. /\ proof = evidence /\ evidence # Absent /\ evidence.verified
        /\ proof.snapshotId # Absent => proof.snapshotId = recovery.snapshotId
        /\ ~(time - proof.rehearsedAt > RehearsalAge)
    BY <2>3, <2>4 DEF RehearsalRefused, Proofs
  <2>6. /\ evidence.snapshotId # Absent
        /\ restored = [snapshotId |-> evidence.snapshotId, of |-> Disposable, at |-> evidence.rehearsedAt]
    BY <2>5 DEF DataInv, DataTypeOK, VerifiedMeansRestored
  <2>7. /\ time \in Int /\ recovery.capturedAt \in Int /\ proof.rehearsedAt \in Int
        /\ RecoveryAge \in Int /\ RehearsalAge \in Int
    BY <2>4, <2>5, DataChangeAssumption DEF DataInv, DataTypeOK, Snapshots, Evidence
  <2> QED BY <2>4, <2>5, <2>6, <2>7
<1> QED BY <1>1, DataHolds, PTL

-----------------------------------------------------------------------------
\* The five components side by side: a step of one is a step or a stutter of each.

LEMMA BrokerTypesStart == BrokerInit => BrokerTypeOK
<1> SUFFICES ASSUME BrokerInit PROVE BrokerTypeOK
  OBVIOUS
<1>1. NoRequest \in Requests
  BY DEF Requests, NoRequest
<1>2. asked \in [BrokerCall -> Requests]
  BY <1>1 DEF BrokerInit
<1>3. /\ grantExpired \in BOOLEAN /\ exists \in BOOLEAN
      /\ recorded \subseteq BrokerCall /\ unheard \subseteq BrokerCall
  BY DEF BrokerInit
<1> QED BY <1>2, <1>3, BrokerStarts DEF BrokerInv, BrokerCoreOK, BrokerTypeOK

\* What BrokerCoreOK leaves out: the flags, what is asked, and the three sets of calls.
LEMMA BrokerTypesKept == BrokerInv' /\ BrokerTypeOK /\ [BrokerNext]_brokerVars => BrokerTypeOK'
<1> SUFFICES ASSUME BrokerInv', BrokerTypeOK, [BrokerNext]_brokerVars PROVE BrokerTypeOK'
  OBVIOUS
<1> DEFINE Rest == /\ grantExpired' \in BOOLEAN /\ exists' \in BOOLEAN
                   /\ asked' \in [BrokerCall -> Requests]
                   /\ recorded' \subseteq BrokerCall /\ unheard' \subseteq BrokerCall
<1>1. CASE \E c \in BrokerCall : PresentGrant(c) \/ UnreadableBody(c) \/ DenialReturns(c)
                                 \/ OperationThrows(c)
  <2>1. UNCHANGED <<grantExpired, exists, asked, recorded, unheard>>
    BY <1>1 DEF PresentGrant, UnreadableBody, DenialReturns, OperationThrows
  <2>2. Rest
    BY <2>1 DEF BrokerTypeOK
  <2> QED BY <2>2 DEF BrokerInv, BrokerCoreOK, BrokerTypeOK
<1>2. CASE \E c \in BrokerCall : AllowanceReturns(c) \/ CreationReturns(c)
  <2>1. Rest
    BY <1>2 DEF AllowanceReturns, CreationReturns, Appends, BrokerTypeOK
  <2> QED BY <2>1 DEF BrokerInv, BrokerCoreOK, BrokerTypeOK
<1>3. CASE \E c \in BrokerCall : OperationReturns(c)
  <2>1. Rest
    BY <1>3 DEF OperationReturns, BrokerTypeOK
  <2> QED BY <2>1 DEF BrokerInv, BrokerCoreOK, BrokerTypeOK
<1>4. CASE \E c \in BrokerCall, r \in Requests : Authorise(c, r)
  <2>1. Rest
    BY <1>4 DEF Authorise, Allow, Deny, BrokerTypeOK
  <2> QED BY <2>1 DEF BrokerInv, BrokerCoreOK, BrokerTypeOK
<1>5. CASE GrantsExpire \/ UNCHANGED brokerVars
  <2>1. Rest
    BY <1>5 DEF GrantsExpire, brokerVars, BrokerTypeOK
  <2> QED BY <2>1 DEF BrokerInv, BrokerCoreOK, BrokerTypeOK
<1> QED BY <1>1, <1>2, <1>3, <1>4, <1>5 DEF BrokerNext

RecordsInv ==
  /\ BrokerInv /\ BrokerTypeOK
  /\ AuthInv
  /\ CandidateInv /\ BuiltOK
  /\ VerdictInv
  /\ DataInv

LEMMA RecordsStart == MCInit => RecordsInv
BY BrokerStarts, BrokerTypesStart, AuthStarts, CandidateStarts, BuiltStarts, PicturesStart, DataStarts
   DEF MCInit, RecordsInv

LEMMA RecordsKeep == RecordsInv /\ [MCNext]_recordsVars => RecordsInv'
<1> SUFFICES ASSUME RecordsInv, [MCNext]_recordsVars PROVE RecordsInv'
  OBVIOUS
<1>1. /\ [BrokerNext]_brokerVars /\ [AuthNext]_authVars /\ [CandidateNext]_setVars
      /\ [AssetNext]_assetVars /\ [DataNext]_dataVars
  BY DEF MCNext, recordsVars
<1>2. BrokerInv' /\ BrokerTypeOK'
  BY <1>1, BrokerNextKeeps, BrokerTypesKept DEF RecordsInv
<1>3. AuthInv' /\ CandidateInv' /\ BuiltOK'
  BY <1>1, AuthNextKeeps, CandidateNextKeeps, BuiltKept DEF RecordsInv
<1>4. VerdictInv' /\ DataInv'
  BY <1>1, PicturesNextKeeps, DataKeeps DEF RecordsInv
<1> QED BY <1>2, <1>3, <1>4 DEF RecordsInv

\* For any number of calls, approvals, sets, pictures and databases, every variable
\* of the five components keeps its type: whatever a handler wrote back from a
\* document it read before it waited is a document the component writes.
THEOREM RecordsTypes == MCSpec => []RecordsTypeOK
<1>1. MCSpec => []RecordsInv
  BY RecordsStart, RecordsKeep, PTL DEF MCSpec
<1>2. RecordsInv => RecordsTypeOK
  BY CandidateTypes DEF RecordsInv, AuthInv, VerdictInv, DataInv, RecordsTypeOK
<1> QED BY <1>1, <1>2, PTL
=============================================================================
