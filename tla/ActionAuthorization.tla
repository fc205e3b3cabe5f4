------------------------- MODULE ActionAuthorization -------------------------
(***************************************************************************)
(* Action authorizations of one project: approve, revoke and use, with the *)
(* two tables they are kept in.  A use is decideMutation of an operation   *)
(* that requires an authorization, down to authorizeAction.                *)
(*                                                                         *)
(* An action is the code between two awaits.  An authorization is named by *)
(* the call that minted it.  SQLite statements are synchronous, and the    *)
(* record of a decision never fails its caller.                            *)
(***************************************************************************)
EXTENDS Naturals, Sequences, FiniteSets

CONSTANTS Approver, Revoker, User,   \* calls of approve, of revoke, and of an operation
          Approval,     \* approval ids an operator gives
          Nobody        \* no row, no consumption

AuthCall == Approver \cup Revoker \cup User

ASSUME AuthAssumption == Nobody \notin AuthCall \cup Approval

VARIABLES approvalOf,   \* action_authorizations: the approval of each minted row
          revoked,      \* rows with revoked_at
          lapsed,       \* rows whose expiresAt has passed
          consumedBy,   \* action_authorization_consumptions
          authAt,       \* the await each call is suspended in
          about,        \* the approval or the authorization a call names
          verdict       \* how a use was decided

authVars == <<approvalOf, revoked, lapsed, consumedBy, authAt, about, verdict>>

\* What can be wrong with a request, other than the state of the authorization.
Misfits == {"content-tampered", "wrong-operation", "wrong-environment", "base-drifted",
            "scope-widened", "budget-exceeded"}
Recoverable == {"wrong-environment", "base-drifted", "scope-widened", "budget-exceeded"}
Verdicts == Misfits \cup {"none", "permitted", "authorization-missing", "unknown-authorization",
                          "revoked", "already-consumed", "expired"}

AuthTypeOK ==
  /\ approvalOf \in [AuthCall -> Approval \cup {Nobody}]
  /\ revoked \subseteq AuthCall /\ lapsed \subseteq AuthCall
  /\ consumedBy \in [AuthCall -> AuthCall \cup {Nobody}]
  /\ authAt \in [AuthCall -> {"idle", "deciding-approve", "deciding-revoke", "recording",
                              "recording-use", "done", "threw"}]
  /\ about \in [AuthCall -> AuthCall \cup Approval \cup {Nobody}]
  /\ verdict \in [AuthCall -> Verdicts]

AuthInit ==
  /\ approvalOf = [c \in AuthCall |-> Nobody]
  /\ revoked = {}
  /\ lapsed = {}
  /\ consumedBy = [c \in AuthCall |-> Nobody]
  /\ authAt = [c \in AuthCall |-> "idle"]
  /\ about = [c \in AuthCall |-> Nobody]
  /\ verdict = [c \in AuthCall |-> "none"]

Minted == {id \in AuthCall : approvalOf[id] # Nobody}
ByApproval(a) == {id \in Minted : approvalOf[id] = a}
AuthGoes(c, label) == authAt' = [authAt EXCEPT ![c] = label]
Names(c, x) == about' = [about EXCEPT ![c] = x]

-----------------------------------------------------------------------------
\* approveActionAuthorization.

\* An approval id that is known is answered with what it gave.
AskApproval(c, a) ==
  /\ authAt[c] = "idle"
  /\ IF ByApproval(a) # {}
     THEN AuthGoes(c, "done") /\ UNCHANGED about
     ELSE AuthGoes(c, "deciding-approve") /\ Names(c, a)
  /\ UNCHANGED <<approvalOf, revoked, lapsed, consumedBy, verdict>>

\* Mutant: the table has no unique approval.
InsertableAgain(a) == TRUE

\* UNIQUE(project_id, operation, approval_id): of two that were both told there
\* was none, the second insert throws.
Insertable(a) == ByApproval(a) = {}

Mint(c) ==
  /\ authAt[c] = "deciding-approve"
  /\ IF Insertable(about[c])
     THEN /\ approvalOf' = [approvalOf EXCEPT ![c] = about[c]]
          /\ AuthGoes(c, "recording")
     ELSE UNCHANGED approvalOf /\ AuthGoes(c, "threw")
  /\ Names(c, Nobody)
  /\ UNCHANGED <<revoked, lapsed, consumedBy, verdict>>

\* A document that cannot be minted: self-approved, already expired, malformed.
MintRefused(c) ==
  /\ authAt[c] = "deciding-approve"
  /\ AuthGoes(c, "threw")
  /\ Names(c, Nobody)
  /\ UNCHANGED <<approvalOf, revoked, lapsed, consumedBy, verdict>>

\* revokeProjectActionAuthorization: it does not ask whether it was used.
AskRevocation(c, id) ==
  /\ authAt[c] = "idle"
  /\ IF id \in Minted
     THEN AuthGoes(c, "deciding-revoke") /\ Names(c, id)
     ELSE AuthGoes(c, "threw") /\ UNCHANGED about
  /\ UNCHANGED <<approvalOf, revoked, lapsed, consumedBy, verdict>>

Revoke(c) ==
  /\ authAt[c] = "deciding-revoke"
  /\ revoked' = revoked \cup {about[c]}
  /\ AuthGoes(c, IF about[c] \in revoked THEN "done" ELSE "recording")
  /\ Names(c, Nobody)
  /\ UNCHANGED <<approvalOf, lapsed, consumedBy, verdict>>

Recorded(c) ==
  /\ authAt[c] = "recording"
  /\ AuthGoes(c, "done")
  /\ UNCHANGED <<approvalOf, revoked, lapsed, consumedBy, about, verdict>>

-----------------------------------------------------------------------------
\* Mutant: what a caller can repair is looked at before the authorization's end.
UseChecksRepairFirst(id, misfits) ==
  << [fails |-> id \notin Minted,                reason |-> "unknown-authorization"],
     [fails |-> "scope-widened" \in misfits,     reason |-> "scope-widened"],
     [fails |-> id \in revoked,                  reason |-> "revoked"],
     [fails |-> consumedBy[id] # Nobody,         reason |-> "already-consumed"],
     [fails |-> id \in lapsed,                   reason |-> "expired"] >>

\* assertActionAuthorizationUsable: identity, then what no retry can repair,
\* then what one can.
UseChecks(id, misfits) ==
  << [fails |-> id \notin Minted,                reason |-> "unknown-authorization"],
     [fails |-> "content-tampered" \in misfits,  reason |-> "content-tampered"],
     [fails |-> "wrong-operation" \in misfits,   reason |-> "wrong-operation"],
     [fails |-> id \in revoked,                  reason |-> "revoked"],
     [fails |-> consumedBy[id] # Nobody,         reason |-> "already-consumed"],
     [fails |-> id \in lapsed,                   reason |-> "expired"],
     [fails |-> "wrong-environment" \in misfits, reason |-> "wrong-environment"],
     [fails |-> "base-drifted" \in misfits,      reason |-> "base-drifted"],
     [fails |-> "scope-widened" \in misfits,     reason |-> "scope-widened"],
     [fails |-> "budget-exceeded" \in misfits,   reason |-> "budget-exceeded"] >>

\* A use is permitted when nothing fails, and refused for the first thing that does.
Permits(id, misfits) == \A i \in DOMAIN UseChecks(id, misfits) : ~UseChecks(id, misfits)[i].fails
FailsFirst(id, misfits, i) ==
  /\ UseChecks(id, misfits)[i].fails
  /\ \A j \in 1..(i - 1) : ~UseChecks(id, misfits)[j].fails

\* consumeActionAuthorization: the insert is the guard.
Consume(c, id) == consumedBy' = [consumedBy EXCEPT ![id] = IF @ = Nobody THEN c ELSE @]

\* decideMutation with an authorization, and authorizeAction: the state is read,
\* checked and spent before anything is awaited.
Use(c, id, misfits) ==
  /\ authAt[c] = "idle"
  /\ Names(c, id)
  /\ \/ /\ Permits(id, misfits)
        /\ verdict' = [verdict EXCEPT ![c] = "permitted"]
        /\ Consume(c, id)
     \/ /\ \E i \in DOMAIN UseChecks(id, misfits) :
             /\ FailsFirst(id, misfits, i)
             /\ verdict' = [verdict EXCEPT ![c] = UseChecks(id, misfits)[i].reason]
        /\ UNCHANGED consumedBy
  /\ AuthGoes(c, "recording-use")
  /\ UNCHANGED <<approvalOf, revoked, lapsed>>

UseWithout(c) ==
  /\ authAt[c] = "idle"
  /\ verdict' = [verdict EXCEPT ![c] = "authorization-missing"]
  /\ AuthGoes(c, "recording-use")
  /\ UNCHANGED <<approvalOf, revoked, lapsed, consumedBy, about>>

UseReturns(c) ==
  /\ authAt[c] = "recording-use"
  /\ AuthGoes(c, IF verdict[c] = "permitted" THEN "done" ELSE "threw")
  /\ UNCHANGED <<approvalOf, revoked, lapsed, consumedBy, about, verdict>>

Lapse(id) ==
  /\ id \in Minted \ lapsed
  /\ lapsed' = lapsed \cup {id}
  /\ UNCHANGED <<approvalOf, revoked, consumedBy, authAt, about, verdict>>

AuthNext ==
  \/ \E c \in Approver : (\E a \in Approval : AskApproval(c, a)) \/ Mint(c) \/ MintRefused(c)
  \/ \E c \in Revoker : (\E id \in Approver : AskRevocation(c, id)) \/ Revoke(c)
  \/ \E c \in User : UseWithout(c) \/ UseReturns(c)
  \/ \E c \in User, id \in Approver, misfits \in {{}} \cup {{m} : m \in Misfits} : Use(c, id, misfits)
  \/ \E c \in AuthCall : Recorded(c)
  \/ \E id \in Approver : Lapse(id)

AuthSpec == AuthInit /\ [][AuthNext]_authVars

-----------------------------------------------------------------------------
\* One approval permits one action: however often the approval was clicked and
\* the authorization presented, and in whatever order those calls overlapped.
OneUsePerApproval ==
  \A a \in Approval :
    Cardinality({c \in AuthCall : verdict[c] = "permitted" /\ approvalOf[about[c]] = a}) <= 1

\* A refusal a caller can repair is only given for an authorization that is
\* still worth repairing for: not revoked, not used and not expired.
RefusalSaysTheWorst ==
  [][\A c \in AuthCall :
       verdict'[c] # verdict[c] /\ verdict'[c] \in Recoverable =>
         /\ about'[c] \in Minted \ (revoked \cup lapsed)
         /\ consumedBy[about'[c]] = Nobody]_authVars
=============================================================================
