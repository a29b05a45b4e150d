----------------------------- MODULE CausalAnalysis -----------------------------
(***************************************************************************)
(* The causal analysis of experiment runs (services/causal-engine):        *)
(* CausalObservationBuilder makes at most one observation of a run, the    *)
(* preflight gates of causal_validation.py decide whether an estimate is   *)
(* attempted, and estimate_causal_attribution builds the model, has DoWhy  *)
(* identify, estimate and refute the effect, and scores the answer.        *)
(*                                                                         *)
(* Three callers are modelled.  "analysis" is RunAnalysisUseCase: one run, *)
(* gated.  "batch" is build_from_run_batch behind the gates, as the tests  *)
(* of the pipeline call it.  "attribution" is RunAttributionUseCase, which *)
(* is given observations and asks no gate.  What DoWhy answers is any      *)
(* answer it can give.                                                     *)
(***************************************************************************)
EXTENDS Integers, Sequences, FiniteSets

CONSTANTS
  Archives,   \* sequences of run manifests that may be analysed
  Requests,   \* [task, target, covariates, mapping, loss, verified]
  Minimum,    \* minimum_observations of the builder and of gate G1
  Refuters,   \* number of REQUIRED_REFUTERS
  Absent        \* a field that is absent

\* A confidence of 1, in units that every penalty divides.
One == 120 * Refuters

ASSUME CausalSizes == Minimum \in Nat \ {0} /\ Refuters \in Nat \ {0}

\* RunManifest, and the oracle's finding; a stratum has a name.
RunManifests ==
  [attack : BOOLEAN, injected : BOOLEAN \cup {Absent}, completed : BOOLEAN,
   contract : {"conforming", "violating", "unestablished"},
   verified : BOOLEAN \cup {Absent}, drift : {0, 1, Absent}, alert : BOOLEAN,
   stratum : STRING]

\* What is asked of the analysis; loss is in tenths.
Questions ==
  [task : {"analysis", "batch", "attribution"}, target : {"purl", "inject"},
   covariates : BOOLEAN,
   mapping : SUBSET {"verified", "inferred", "unresolved", "invalid", "ambiguous"},
   loss : 0 .. 10, verified : BOOLEAN]

ASSUME CausalInputs ==
  Archives \subseteq Seq(RunManifests) /\ Requests \subseteq Questions

\* An absent field has no value, a run that is not excluded no reason, and an
\* analysis that goes on no status.
ASSUME AbsentAssumption ==
  /\ Absent \notin BOOLEAN /\ Absent \notin {0, 1}
  /\ Absent \notin {"failed_injection", "incomplete_run", "unknown_outcome", "completed"}

VARIABLES
  archive, request,  \* what is analysed, and how
  built,             \* the observations made so far
  excluded,          \* why the other runs made none
  phase,             \* "build", "gate", "model", "identify", "estimate", "refute" or "done"
  estimate,          \* [ate, width] once estimated
  result             \* [status, ate, confidence] of the report

causalVars == <<archive, request, built, excluded, phase, estimate, result>>

NoResult == [status |-> Absent, ate |-> Absent, confidence |-> 0]

\* What is asked for at the start, of which manifests.
Asked(r, manifests) ==
  /\ request = r /\ archive = manifests
  /\ built = <<>> /\ excluded = <<>> /\ phase = "build"
  /\ estimate = [ate |-> Absent, width |-> 0] /\ result = NoResult

CausalInit ==
  \E r \in Requests, manifests \in Archives :
    (r.task = "analysis" => Len(manifests) = 1) /\ Asked(r, manifests)

Task == request.task

-----------------------------------------------------------------------------
(* Building the observations *)

\* Faulty variant: an alert counts as drift.
AlertedPositive(m) == m.drift = 1 \/ m.alert

\* What the contract's status, the verification of the evidence and the oracle
\* say; a missing, ambiguous, incomplete or silent contract decides nothing.
Positive(m) ==
  \/ m.drift = 1 /\ ~(m.contract = "conforming" /\ m.verified = TRUE)
  \/ m.contract = "violating" /\ m.verified = TRUE

Negative(m) ==
  \/ m.contract = "conforming" /\ (m.verified = TRUE \/ m.drift = 0)
  \/ m.contract \notin {"conforming", "violating"} /\ m.drift = 0 /\ m.verified # FALSE

FailedInjection(m) == m.attack /\ m.injected = FALSE

Outcome(m) == IF Positive(m) THEN 1 ELSE IF Negative(m) THEN 0 ELSE Absent

\* The reason why a run makes no observation, in the order of the checks.
Exclusion(m) ==
  IF FailedInjection(m) THEN "failed_injection"
  ELSE IF ~m.completed THEN "incomplete_run"
  ELSE IF Outcome(m) = Absent THEN "unknown_outcome"
  ELSE Absent

Treatment(m) ==
  IF m.attack /\ (request.target = "inject" => m.injected = TRUE) THEN 1 ELSE 0

\* window_index is 0 in every observation.
Observation(i) ==
  [run |-> i, window |-> 0, t |-> Treatment(archive[i]), y |-> Outcome(archive[i]),
   x |-> archive[i].stratum]

Build ==
  /\ phase = "build"
  /\ LET i == Len(built) + Len(excluded) + 1
     IN IF i > Len(archive)
          THEN /\ phase' = IF Task = "attribution" THEN "model" ELSE "gate"
               /\ UNCHANGED <<built, excluded>>
          ELSE /\ IF Exclusion(archive[i]) = Absent
                    THEN built' = Append(built, Observation(i)) /\ UNCHANGED excluded
                    ELSE excluded' = Append(excluded, Exclusion(archive[i])) /\ UNCHANGED built
               /\ UNCHANGED phase
  /\ UNCHANGED <<archive, request, estimate, result>>

-----------------------------------------------------------------------------
(* The gates *)

Column(f) == {built[i][f] : i \in DOMAIN built}

\* The statuses of the treatment's component: only the analysis of one run is
\* given graph nodes, and an excluded run keeps none unless its outcome is unknown.
MappingStatuses ==
  IF Task = "analysis" /\ excluded \in {<<>>, <<"unknown_outcome">>} THEN request.mapping ELSE {}

Gate(passed, status) == [passed |-> passed, status |-> status]

EnoughObservations == Gate(Len(built) >= Minimum, "insufficient_evidence")

UniqueRuns == Gate(Cardinality(Column("run")) >= Minimum, "insufficient_evidence")

TreatmentVariation == Gate(Column("t") = {0, 1}, "not_identifiable")

OutcomePresent == Gate(1 \in Column("y"), "insufficient_evidence")

NoDuplicates == Gate(Cardinality(Column("window")) = Len(built), "insufficient_evidence")

MappingQuality ==
  Gate(/\ MappingStatuses # {}
       /\ MappingStatuses \cap {"unresolved", "invalid", "ambiguous"} = {},
       "ambiguous_component")

\* In the order in which they are asked.  Only the batch gives run ids and
\* treatment values; nobody gives the times of the temporal gates.
Gates ==
  <<EnoughObservations>>
    \o (IF Task = "batch" THEN <<UniqueRuns, TreatmentVariation>> ELSE <<>>)
    \o <<OutcomePresent, NoDuplicates, MappingQuality>>

End(status) == phase' = "done" /\ result' = [NoResult EXCEPT !.status = status]

Preflight ==
  /\ phase = "gate"
  /\ LET blocking == {k \in DOMAIN Gates : ~Gates[k].passed}
     IN IF blocking = {} THEN phase' = "model" /\ UNCHANGED result
        ELSE \E k \in blocking : (\A j \in blocking : k <= j) /\ End(Gates[k].status)
  /\ UNCHANGED <<archive, request, built, excluded, estimate>>

-----------------------------------------------------------------------------
(* The estimate *)

\* Faulty variant: the arms are compared over the whole table.
GlobalPositivity == Cardinality(Column("t")) = 2

\* build_causal_data_table.
Varies == Cardinality(Column("t")) = 2 /\ Cardinality(Column("y")) = 2

\* check_positivity: in every stratum of two rows or more, each arm has a
\* twentieth of the rows.
Overlaps(rows) ==
  \A t \in {0, 1} : 20 * Cardinality({i \in rows : built[i].t = t}) >= Cardinality(rows)

Stratum(x) == {i \in DOMAIN built : built[i].x = x}

Positivity ==
  IF request.covariates
    THEN \A x \in Column("x") : Cardinality(Stratum(x)) >= 2 => Overlaps(Stratum(x))
    ELSE Cardinality(Column("t")) = 2

\* An empty table has no columns: the lookup raises, and only RunAnalysisUseCase
\* would catch it.  The graph may have a cycle and DoWhy may refuse it.
ConstructModel ==
  /\ phase = "model"
  /\ IF built = <<>> THEN End(IF Task = "analysis" THEN "estimation_failed" ELSE "raised")
     ELSE IF ~Varies \/ ~Positivity THEN End("insufficient_evidence")
     ELSE End("invalid_graph") \/ (phase' = "identify" /\ UNCHANGED result)
  /\ UNCHANGED <<archive, request, built, excluded, estimate>>

IdentifyEffect ==
  /\ phase = "identify"
  /\ End("not_identifiable") \/ (phase' = "estimate" /\ UNCHANGED result)
  /\ UNCHANGED <<archive, request, built, excluded, estimate>>

\* An estimate may lack a value, or have one that is no number; width is that of
\* the confidence interval in tenths, 0 when there is none.
EstimateEffect ==
  /\ phase = "estimate"
  /\ \/ End("estimation_failed") /\ UNCHANGED estimate
     \/ /\ estimate' \in [ate : {"finite", "nan", Absent}, width : {0, 6, 9}]
        /\ phase' = "refute" /\ UNCHANGED result
  /\ UNCHANGED <<archive, request, built, excluded>>

\* The loss rate and the verification that the score is reduced by.  The analyses
\* use the defaults; RunAttributionUseCase does not hand its arguments on, and
\* the estimator uses those it was constructed with, the defaults.
Penalties == [loss |-> 0, verified |-> TRUE]

\* compute_attribution_confidence; loss in tenths.
Penalised(c, p) ==
  LET lost == (c * (10 - p.loss)) \div 10
  IN IF p.verified THEN lost ELSE lost \div 2

Widened(c) ==
  IF estimate.width <= 5 THEN c
  ELSE (c * (IF estimate.width > 7 THEN 3 ELSE 10 - estimate.width)) \div 10

Confidence(passed) ==
  IF estimate.ate = "finite"
    THEN (Widened(Penalised(One, Penalties)) * passed) \div Refuters
    ELSE 0

\* Each refuter passes or does not; one that raises does not.
Refute ==
  /\ phase = "refute" /\ phase' = "done"
  /\ \E passed \in 0 .. Refuters :
       result' = [status |-> "completed", ate |-> estimate.ate,
                  confidence |-> Confidence(passed)]
  /\ UNCHANGED <<archive, request, built, excluded, estimate>>

CausalNext ==
  Build \/ Preflight \/ ConstructModel \/ IdentifyEffect \/ EstimateEffect \/ Refute

CausalSpec == CausalInit /\ [][CausalNext]_causalVars

-----------------------------------------------------------------------------
(* Properties *)

\* What evidence that does not come from the detector establishes about a run:
\* the oracle, and the contract whose evidence was verified.
Established(m) ==
  {m.drift} \cup (IF m.verified = TRUE THEN CASE m.contract = "violating" -> {1}
                                              [] m.contract = "conforming" -> {0}
                                              [] OTHER -> {}
                  ELSE {})

\* Every run is observed or excluded once, and what is observed is a completed run
\* whose injection did not fail, with an outcome that independent evidence
\* establishes, and never an alert.
ObservationsAreGrounded ==
  /\ phase # "build" => Len(built) + Len(excluded) = Len(archive)
  /\ \A i, j \in DOMAIN built : built[i].run = built[j].run => i = j
  /\ \A i \in DOMAIN built :
       LET m == archive[built[i].run]
       IN /\ m.completed /\ ~FailedInjection(m)
          /\ built[i].y \in Established(m) \cap {0, 1}

\* An effect is reported of a table with both treatments and both outcomes in
\* which no stratum of two rows or more is of one arm only, and confidence in it
\* needs a number and a refuter that passed.  The analyses that have to pass the
\* gates never report one: one run makes one observation, and the observations of
\* several runs have the same window.
EffectsAreComparisons ==
  /\ result.status = "completed" =>
       /\ Task = "attribution"
       /\ \E i, j \in DOMAIN built : built[i].t # built[j].t
       /\ \E i, j \in DOMAIN built : built[i].y # built[j].y
       /\ request.covariates => \A i, j \in DOMAIN built :
            i # j /\ built[i].x = built[j].x =>
              \E k \in DOMAIN built : built[k].x = built[i].x /\ built[k].t # built[i].t
  /\ result.confidence > 0 => result.status = "completed" /\ result.ate = "finite"
  /\ result.confidence <= One

\* Confidence is reduced by the loss rate and the unverified contract that the
\* caller of RunAttributionUseCase states.
StatedPenaltiesApply ==
  result.confidence <= Penalised(One, [loss |-> request.loss, verified |-> request.verified])
=============================================================================
