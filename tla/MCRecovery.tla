------------------------------ MODULE MCRecovery ------------------------------
(***************************************************************************)
(* The instance TLC checks of the two components that come back from a     *)
(* dead process by reading a file that is only appended to: the event      *)
(* ledger with its read model, and the attempt with its sandbox.  The      *)
(* attempt writes its lines through the ledger, but neither reads the      *)
(* other's variables, so a behaviour is one component's: the initial       *)
(* state says which, and the other keeps its initial values.               *)
(***************************************************************************)
EXTENDS EventLedger, AttemptLifecycle

VARIABLE component

recoveryVars == <<component, ledgerVars, attemptVars>>

MCInit == /\ LedgerInit /\ AttemptInit
          /\ component \in {"ledger", "attempt"}

MCNext ==
  /\ UNCHANGED component
  /\ \/ component = "ledger" /\ LedgerNext /\ UNCHANGED attemptVars
     \/ component = "attempt" /\ AttemptNext /\ UNCHANGED ledgerVars

\* A component that has not been called has nothing to be fair to.
MCSpec == MCInit /\ [][MCNext]_recoveryVars /\ LedgerFairness /\ AttemptFairness

\* Both components keep the types of their variables.
RecoveryTypeOK == LedgerTypeOK /\ AttemptTypeOK
===============================================================================
