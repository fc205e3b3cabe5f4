----------------------------- MODULE AgentBroker -----------------------------
(***************************************************************************)
(* The agent capability broker: the one service surface a sandboxed task   *)
(* reaches.  Calls present signed grants, are authorised by                *)
(* authoriseAgentOperation, recorded in the project's ledger, and only     *)
(* then dispatched to the service.                                         *)
(*                                                                         *)
(* An action is the code between two awaits of `handle`.  All grants of    *)
(* an instance are for one project; a call that names another is denied.   *)
(* External: the ledger may reject an append, and an operation of the      *)
(* service may throw.                                                      *)
(***************************************************************************)
EXTENDS Naturals, FiniteSets

CONSTANTS BrokerCall,   \* the calls
          Attempt,      \* attempts holding a grant
          Grants        \* the grants an attempt may hold

Operations == {"project.list", "project.read", "project.create", "project.generate",
               "project.sources.ingest"}
InternalOnly == {"project.approved-build-plan.execute"}
Requests == [operation : Operations \cup InternalOnly \cup {"unregistered"}, project : BOOLEAN]

Environments == {"development", "preview", "production"}

Grant == [capabilities : SUBSET Operations,
          scopes       : BOOLEAN,    \* it owns the mutation scopes
          approval     : {"none", "elsewhere", "expired", "live"},
          environment  : Environments,
          wellFormed   : BOOLEAN,    \* its project id is a bounded identifier
          maxOperations : Nat \ {0}]

ASSUME BrokerAssumption == Grants \subseteq Grant /\ IsFiniteSet(BrokerCall)

VARIABLES grant,       \* the grant of each attempt
          grantExpired,\* the grants have expired
          exists,      \* the project is in the store
          caller,      \* the attempt behind each call
          asked,       \* what each call asks for
          brokerAt,    \* the await each call is suspended in
          opsSpent,    \* spent: operations counted against each attempt
          recorded,    \* calls whose `allowed` event is in the ledger
          dispatched,  \* history: calls whose operation was started
          unheard      \* history: calls whose event the ledger rejected

brokerVars == <<grant, grantExpired, exists, caller, asked, brokerAt, opsSpent,
                recorded, dispatched, unheard>>

NoRequest == [operation |-> "unregistered", project |-> FALSE]
Replies == {"200", "400", "403", "500"}
BrokerLabels == {"idle", "body", "record-denied", "record-allowed", "operation",
                 "record-created"} \cup Replies

BrokerTypeOK ==
  /\ grant \in [Attempt -> Grants]
  /\ grantExpired \in BOOLEAN /\ exists \in BOOLEAN
  /\ caller \in [BrokerCall -> Attempt]
  /\ asked \in [BrokerCall -> Requests]
  /\ brokerAt \in [BrokerCall -> BrokerLabels]
  /\ opsSpent \in [Attempt -> Nat]
  /\ recorded \subseteq BrokerCall
  /\ dispatched \subseteq BrokerCall
  /\ unheard \subseteq BrokerCall

BrokerInit ==
  /\ grant \in [Attempt -> Grants]
  /\ grantExpired = FALSE
  /\ exists \in BOOLEAN
  /\ caller \in [BrokerCall -> Attempt]
  /\ asked = [c \in BrokerCall |-> NoRequest]
  /\ brokerAt = [c \in BrokerCall |-> "idle"]
  /\ opsSpent = [a \in Attempt |-> 0]
  /\ recorded = {}
  /\ dispatched = {}
  /\ unheard = {}

BrokerGoes(c, label) == brokerAt' = [brokerAt EXCEPT ![c] = label]

-----------------------------------------------------------------------------
\* The registry of capabilities, and authoriseAgentOperation.

Capability == [
  operation \in Operations |->
    [scoped   |-> operation = "project.generate",
     approval |-> operation = "project.sources.ingest",
     environments |-> CASE operation \in {"project.list", "project.read"} -> Environments
                        [] operation = "project.generate" -> {"development", "preview"}
                        [] OTHER -> {"development"}]]

\* The project-scoped operations; the others need no project.
ProjectScoped == Operations \ {"project.list"}

\* Every refusal of an operation the registry offers; of the approvals a grant
\* may carry, only one for this operation and project that still lives counts.
Authorised(g, r, spent) ==
  /\ r.operation \in Operations
  /\ ~grantExpired
  /\ r.project
  /\ g.environment \in Capability[r.operation].environments
  /\ r.operation \in g.capabilities
  /\ Capability[r.operation].scoped => g.scopes
  /\ Capability[r.operation].approval => g.approval = "live"
  /\ spent < g.maxOperations

-----------------------------------------------------------------------------
\* handle.

\* nonces.register and verifyCapabilityGrant: an expired or foreign grant is
\* refused, and its refusal has no project to be recorded in.
PresentGrant(c) ==
  /\ brokerAt[c] = "idle"
  /\ \/ ~grantExpired /\ BrokerGoes(c, "body")
     \/ BrokerGoes(c, "403")
  /\ UNCHANGED <<grant, grantExpired, exists, caller, asked, opsSpent, recorded, dispatched, unheard>>

UnreadableBody(c) ==
  /\ brokerAt[c] = "body"
  /\ BrokerGoes(c, "400")
  /\ UNCHANGED <<grant, grantExpired, exists, caller, asked, opsSpent, recorded, dispatched, unheard>>

\* Past the record of an allowed decision: a malformed project id is found only
\* now; any other operation starts.
Begin(c, r) ==
  IF r.operation \in ProjectScoped /\ ~grant[caller[c]].wellFormed
  THEN BrokerGoes(c, "400") /\ UNCHANGED dispatched
  ELSE BrokerGoes(c, "operation") /\ dispatched' = dispatched \cup {c}

\* Mutant: an operation is not counted while its record is awaited.
AllowUncounted(c, r) ==
  /\ asked' = [asked EXCEPT ![c] = r]
  /\ IF exists
     THEN BrokerGoes(c, "record-allowed") /\ UNCHANGED <<opsSpent, dispatched>>
     ELSE Begin(c, r) /\ opsSpent' = [opsSpent EXCEPT ![caller[c]] = @ + 1]

\* The decision and the count are one step: nothing is awaited in between.
\* append looks for the project first, and does not wait for a ledger it lacks.
Allow(c, r) ==
  /\ asked' = [asked EXCEPT ![c] = r]
  /\ opsSpent' = [opsSpent EXCEPT ![caller[c]] = @ + 1]
  /\ IF exists THEN BrokerGoes(c, "record-allowed") /\ UNCHANGED dispatched ELSE Begin(c, r)

Deny(c) ==
  /\ BrokerGoes(c, IF exists THEN "record-denied" ELSE "403")
  /\ UNCHANGED <<asked, opsSpent, dispatched>>

Authorise(c, r) ==
  /\ brokerAt[c] = "body"
  /\ IF Authorised(grant[caller[c]], r, opsSpent[caller[c]]) THEN Allow(c, r) ELSE Deny(c)
  /\ UNCHANGED <<grant, grantExpired, exists, caller, recorded, unheard>>

DenialReturns(c) ==
  /\ brokerAt[c] = "record-denied"
  /\ BrokerGoes(c, "403")
  /\ UNCHANGED <<grant, grantExpired, exists, caller, asked, opsSpent, recorded, dispatched, unheard>>

\* The append lands, or its failure is swallowed.
Appends(c) ==
  \/ recorded' = recorded \cup {c} /\ UNCHANGED unheard
  \/ unheard' = unheard \cup {c} /\ UNCHANGED recorded

AllowanceReturns(c) ==
  /\ brokerAt[c] = "record-allowed"
  /\ Appends(c)
  /\ Begin(c, asked[c])
  /\ UNCHANGED <<grant, grantExpired, exists, caller, asked, opsSpent>>

\* Mutant: the decision to create a project is not appended again.
OperationReturnsAtOnce(c) ==
  /\ brokerAt[c] = "operation"
  /\ exists' = (exists \/ asked[c].operation = "project.create")
  /\ BrokerGoes(c, "200")
  /\ UNCHANGED <<grant, grantExpired, caller, asked, opsSpent, recorded, dispatched, unheard>>

\* An operation that returns; an unrecorded decision is then appended again.
OperationReturns(c) ==
  /\ brokerAt[c] = "operation"
  /\ exists' = (exists \/ asked[c].operation = "project.create")
  /\ BrokerGoes(c, IF c \notin recorded /\ exists' THEN "record-created" ELSE "200")
  /\ UNCHANGED <<grant, grantExpired, caller, asked, opsSpent, recorded, dispatched, unheard>>

OperationThrows(c) ==
  /\ brokerAt[c] = "operation"
  /\ BrokerGoes(c, "500")
  /\ UNCHANGED <<grant, grantExpired, exists, caller, asked, opsSpent, recorded, dispatched, unheard>>

CreationReturns(c) ==
  /\ brokerAt[c] = "record-created"
  /\ Appends(c)
  /\ BrokerGoes(c, "200")
  /\ UNCHANGED <<grant, grantExpired, exists, caller, asked, opsSpent, dispatched>>

GrantsExpire ==
  /\ ~grantExpired
  /\ grantExpired' = TRUE
  /\ UNCHANGED <<grant, exists, caller, asked, brokerAt, opsSpent, recorded, dispatched, unheard>>

BrokerNext ==
  \/ \E c \in BrokerCall : PresentGrant(c) \/ UnreadableBody(c) \/ DenialReturns(c)
                           \/ AllowanceReturns(c) \/ OperationReturns(c) \/ OperationThrows(c)
                           \/ CreationReturns(c)
  \/ \E c \in BrokerCall, r \in Requests : Authorise(c, r)
  \/ GrantsExpire

BrokerSpec == BrokerInit /\ [][BrokerNext]_brokerVars

-----------------------------------------------------------------------------
\* However its calls overlap, an attempt starts no more operations than its
\* grant allows: the count is taken before the record of the decision is awaited.
BudgetIsKept ==
  \A a \in Attempt :
    Cardinality({c \in dispatched : caller[c] = a}) <= grant[a].maxOperations

\* An operation that is reported done on a project that is there has its
\* decision in that project's ledger, or the ledger was asked and refused it:
\* also when the project was only created by that operation.
DoneIsRecorded ==
  [][\A c \in BrokerCall : (brokerAt[c] # "200" /\ brokerAt'[c] = "200") =>
       (exists' => c \in recorded' \cup unheard')]_brokerVars
=============================================================================
