------------------------------ MODULE MCServices ------------------------------
(* An instance of nine components for TLC: six small services, and the scripts   *)
(* that evaluate the system.  They share no state and do not call one another,    *)
(* so a behaviour of this module is a behaviour of one of them, which is chosen  *)
(* at the start; the others stay in an initial state.                            *)
EXTENDS MCIncidentLifecycle, SbomIngest, CredentialBroker, NvdCache, BpfLoader,
        Attribution, MCCampaign, MCDataset, MCEvaluation

CONSTANTS q1, q2, q3, q4, web, api, doc, harbor, ghcr,   \* SBOMs
          collector, verifier,                             \* the broker's pods
          process, network, syscalls, enter, leave, connect,   \* BPF
          privilege, module, exec

VARIABLE component

----
\* Four requests with one document, three for one image (two name a registry each,
\* one none), the fourth for another image.
Brings(image, reference, external) ==
  [image |-> image, document |-> doc, reference |-> reference, external |-> external]
FourUploads ==
  [q \in Requests |-> CASE q = q1 -> Brings(web, Unbound, FALSE)
                        [] q = q2 -> Brings(web, harbor, FALSE)
                        [] q = q3 -> Brings(web, ghcr, TRUE)
                        [] OTHER -> Brings(api, Unbound, FALSE)]

\* Three loans, two of them for one pod.
TwoPods == [c \in Loans |-> IF c = 3 THEN verifier ELSE collector]

\* Three objects, of which one has no ring that is drained.
ThreeObjects == <<process, network, syscalls>>
TheirPrograms == [o \in {process, network, syscalls} |->
                    IF o = network THEN {connect} ELSE {enter, leave}]
TheirRings == [o \in {process, network, syscalls} |->
                 CASE o = process -> {privilege, module} [] o = network -> {}
                   [] OTHER -> {exec}]

----
servicesVars ==
  <<incidentVars, ingestVars, brokerVars, nvdVars, loaderVars, attributionVars,
    campaignVars, datasetVars, evaluationVars, component>>

\* Where several initial states are possible, the idle component is in one of them.
ServicesInit ==
  /\ component \in {"incidents", "sboms", "credentials", "nvd", "loader", "attribution",
                    "campaign", "dataset", "evaluation"}
  /\ IncidentInit /\ IngestInit /\ BrokerInit /\ NvdInit /\ LoaderInit
  /\ AttributionInit
  /\ IF component = "campaign" THEN CampaignInit ELSE Ordered(CHOOSE c \in Campaigns : TRUE)
  /\ IF component = "dataset" THEN DatasetInit ELSE Unpackaged(CHOOSE h \in Histories : TRUE)
  /\ IF component = "evaluation" THEN EvaluationInit ELSE Unread(CHOOSE s \in Studies : TRUE)

Idle(name, variables) == component # name => UNCHANGED variables

ServicesNext ==
  /\ UNCHANGED component
  /\ \/ component = "incidents" /\ IncidentNext
     \/ component = "sboms" /\ IngestNext
     \/ component = "credentials" /\ BrokerNext
     \/ component = "nvd" /\ NvdNext
     \/ component = "loader" /\ LoaderNext
     \/ component = "attribution" /\ AttributionNext
     \/ component = "campaign" /\ CampaignNext
     \/ component = "dataset" /\ DatasetNext
     \/ component = "evaluation" /\ EvaluationNext
  /\ Idle("incidents", incidentVars) /\ Idle("sboms", ingestVars)
  /\ Idle("credentials", brokerVars) /\ Idle("nvd", nvdVars) /\ Idle("loader", loaderVars)
  /\ Idle("attribution", attributionVars) /\ Idle("campaign", campaignVars)
  /\ Idle("dataset", datasetVars) /\ Idle("evaluation", evaluationVars)

ServicesSpec == ServicesInit /\ [][ServicesNext]_servicesVars
=============================================================================
