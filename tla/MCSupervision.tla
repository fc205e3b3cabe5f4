---------------------------- MODULE MCSupervision ----------------------------
(***************************************************************************)
(* The instance TLC checks of the three components that run something      *)
(* else: the preview's child process, the provider behind the model        *)
(* gateway, and the attempts of a pipeline rehearsal.                      *)
(* They share no state, so a behaviour is one component's: the initial     *)
(* state says which, and the others keep their initial values.             *)
(***************************************************************************)
EXTENDS PreviewSupervisor, ModelGateway, PipelineRehearsal

VARIABLE component

supervisionVars == <<component, previewVars, modelVars, rehearsalVars>>

\* Three stages in the manner of config/agent-pipelines.json.
MCPipeline ==
  LET stageOf(role, reviewer, requires, produces) ==
        [role |-> role, reviewer |-> reviewer, requires |-> requires, produces |-> produces]
  IN <<stageOf("requirements-interviewer", "human", {"BuildContract"}, {"IntakeBrief"}),
       stageOf("research-agent", "product-critic", {"BuildContract", "IntakeBrief"}, {"ResearchPack"}),
       stageOf("product-discovery", "product-critic", {"ResearchPack"}, {"ProductDecision"})>>
MCSeeds == {"BuildContract"}

MCInit ==
  /\ PreviewInit /\ GatewayInit /\ RehearsalInit
  /\ component \in {"previews", "gateway", "rehearsal"}
  /\ component # "gateway" => ~enabled

MCNext ==
  /\ UNCHANGED component
  /\ \/ component = "previews" /\ PreviewNext /\ UNCHANGED <<modelVars, rehearsalVars>>
     \/ component = "gateway" /\ GatewayNext /\ UNCHANGED <<previewVars, rehearsalVars>>
     \/ component = "rehearsal" /\ RehearsalNext /\ UNCHANGED <<previewVars, modelVars>>

\* A component that has not been called has nothing to be fair to.
MCSpec ==
  /\ MCInit /\ [][MCNext]_supervisionVars
  /\ PreviewFairness /\ GatewayFairness /\ RehearsalFairness

\* Every component keeps the types of its variables.
SupervisionTypeOK == PreviewTypeOK /\ GatewayTypeOK /\ RehearsalTypeOK
===============================================================================
