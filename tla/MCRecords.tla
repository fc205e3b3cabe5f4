------------------------------ MODULE MCRecords ------------------------------
(***************************************************************************)
(* The instance TLC checks of the components that answer from what they    *)
(* have on record: the agent broker, the action authorizations, the visual *)
(* candidate set, the pictures and the changes of data.  They share no     *)
(* state, so a behaviour is one component's: the initial state says which, *)
(* and the others keep their initial values.                               *)
(***************************************************************************)
EXTENDS AgentBroker, ActionAuthorization, CandidateSet, AssetGovernance, DataChange, TLC

CONSTANTS prod, lab   \* the databases of the instance

VARIABLE component

recordsVars == <<component, brokerVars, authVars, setVars, assetVars, dataVars>>

MCGrants ==
  LET grantOf(scopes, approval, environment, wellFormed, capabilities, maxOperations) ==
        [capabilities |-> capabilities, scopes |-> scopes, approval |-> approval,
         environment |-> environment, wellFormed |-> wellFormed, maxOperations |-> maxOperations]
  IN {grantOf(TRUE, "live", "development", TRUE, Operations, 1),
      grantOf(FALSE, "elsewhere", "preview", FALSE, Operations \ {"project.read"}, 2)}

\* A production database, and a preview database that rehearsals damage.
MCRegistry == (prod :> "production") @@ (lab :> "preview")
MCEnvironment == {"preview", "production"}
MCSheets == {Facts}
\* A plan that loses data before it does something harmless, and one that
\* loses data unread: its only entry was not split.
MCScripts == {<<<<"alter table", "drop column">>, <<"alter table", "add column">>>>,
              <<<<"create", "drop table">>>>}

\* People differ in name only.
MCSymmetry == Permutations(Person)

MCInit ==
  /\ BrokerInit /\ AuthInit /\ CandidateInit /\ AssetInit /\ DataInit
  /\ component \in {"broker", "authorizations", "candidates", "pictures", "data"}
  /\ component # "broker" =>
       /\ ~exists
       /\ grant = CHOOSE g \in [Attempt -> Grants] : TRUE
       /\ caller = CHOOSE c \in [BrokerCall -> Attempt] : TRUE

MCNext ==
  /\ UNCHANGED component
  /\ \/ component = "broker" /\ BrokerNext /\ UNCHANGED <<authVars, setVars, assetVars, dataVars>>
     \/ component = "authorizations" /\ AuthNext /\ UNCHANGED <<brokerVars, setVars, assetVars, dataVars>>
     \/ component = "candidates" /\ CandidateNext /\ UNCHANGED <<brokerVars, authVars, assetVars, dataVars>>
     \/ component = "pictures" /\ AssetNext /\ UNCHANGED <<brokerVars, authVars, setVars, dataVars>>
     \/ component = "data" /\ DataNext /\ UNCHANGED <<brokerVars, authVars, setVars, assetVars>>

MCSpec == MCInit /\ [][MCNext]_recordsVars

\* The component at work keeps the types of its variables.
RecordsTypeOK ==
  /\ component = "broker" => BrokerTypeOK
  /\ component = "authorizations" => AuthTypeOK
  /\ component = "candidates" => CandidateTypeOK
  /\ component = "pictures" => AssetTypeOK
  /\ component = "data" => DataTypeOK
===============================================================================
