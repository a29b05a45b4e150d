------------------------------- MODULE MCAnalysis -------------------------------
(* The instances of five components in one: what becomes of the evidence in the   *)
(* graph and in the analyses.  They share no state, so a behaviour of this module *)
(* is a behaviour of one of them, which is chosen at the start; the others stay   *)
(* in an initial state.                                                           *)
EXTENDS MCBehaviorGraph, MCCausalAnalysis, MCComponentMapping, MCDriftDetection,
        MCEvidenceSink

VARIABLE component

analysisVars ==
  <<graphVars, causalVars, mappingVars, driftVars, sinkVars, component>>

\* Where several initial states are possible, the idle component is in one of them.
AnalysisInit ==
  /\ component \in {"graph", "causal", "mapping", "drift", "evidence"}
  /\ GraphInit /\ DriftInit /\ SinkInit
  /\ IF component = "causal" THEN CausalInit
     ELSE Asked(CHOOSE r \in Requests : r.task = "batch", CHOOSE manifests \in Archives : TRUE)
  /\ IF component = "mapping" THEN MappingInit
     ELSE Before(CHOOSE events \in Sendings : TRUE)

Idle(name, variables) == component # name => UNCHANGED variables

AnalysisNext ==
  /\ UNCHANGED component
  /\ \/ component = "graph" /\ GraphNext
     \/ component = "causal" /\ CausalNext
     \/ component = "mapping" /\ MappingNext
     \/ component = "drift" /\ DriftNext
     \/ component = "evidence" /\ SinkNext
  /\ Idle("graph", graphVars) /\ Idle("causal", causalVars) /\ Idle("mapping", mappingVars)
  /\ Idle("drift", driftVars) /\ Idle("evidence", sinkVars)

AnalysisSpec == AnalysisInit /\ [][AnalysisNext]_analysisVars
=============================================================================
