------------------------------ MODULE Evaluation ------------------------------
(***************************************************************************)
(* The comparison with three other detectors: run_baselines loads the      *)
(* results of the campaigns, asks each baseline what it saw in the time of *)
(* each run, and the evaluator counts, for every detector, detected and    *)
(* missed attacks and false alarms, from which a table is made             *)
(* (research/evaluation/baselines and metrics).                            *)
(*                                                                         *)
(* Runs do not overlap, so the time of a detection is the run, the phase   *)
(* and the delay since the injection.  A rate is a pair of a count and     *)
(* what it is a part of; nothing is rounded.                               *)
(***************************************************************************)
EXTENDS Integers, FiniteSets, Sequences

CONSTANTS
  Studies,      \* what the comparison may be run on
  Vulnerable,       \* scanned image -> how many of its vulnerabilities count
  NotGiven

Detectors == {"falco", "trivy", "forest"}
Phases == {"baseline", "inject", "attack", "recover", "post_recovery"}
BenignPhases == {"baseline", "attack", "post_recovery"}

Alerts == [phase : Phases, delay : Nat, number : Nat]
Results ==
  [label : {0, 1}, status : {"established", "unknown_contract_state"}, injected : {TRUE, FALSE, NotGiven},
   phases : SUBSET Phases, window : Nat, image : DOMAIN Vulnerable \cup {NotGiven}, detected : BOOLEAN,
   delay : Nat \cup {NotGiven}, alerted : BOOLEAN, measured : BOOLEAN,
   named : {"exact", "among three", "wrong", NotGiven}]

ASSUME StudiesAssumption ==
  /\ Vulnerable \in [DOMAIN Vulnerable -> Nat]
  /\ \A s \in Studies :
       /\ s.results \in Seq(Results) /\ s.dryRun \in BOOLEAN
       /\ s.sightings \in [{"falco", "forest"} -> [DOMAIN s.results -> SUBSET Alerts]]

\* A campaign notes the delay of an attack with the detection it counts, which is one
\* in the window; a run that was looked into was injected into, or is known to have failed.
ASSUME ResultsAssumption ==
  /\ NotGiven \notin Nat
  /\ \A s \in Studies : \A i \in DOMAIN s.results :
       LET r == s.results[i]
       IN /\ r.status = "established" => r.injected # NotGiven
          /\ r.label = 1 => /\ r.detected <=> r.delay # NotGiven
                            /\ r.detected => r.delay <= r.window

VARIABLES
  study,        \* the results on disk, and what the other detectors can tell of each run
  progress,     \* of the script
  usable,       \* the runs that were read
  fitted,       \* what the isolation forest was fitted to
  scans,        \* scanned image -> the run during which it was scanned
  pending,      \* runs that the baseline at hand was not asked about yet
  detections,   \* detector -> detections
  reports,      \* detector -> report, or NotGiven
  published     \* reports.json and the tables

evaluationVars ==
  <<study, progress, usable, fitted, scans, pending, detections, reports, published>>

Unread(s) ==
  /\ study = s
  /\ progress = "load" /\ usable = {} /\ fitted = NotGiven /\ pending = {}
  /\ scans = [i \in DOMAIN Vulnerable |-> NotGiven]
  /\ detections = [d \in Detectors |-> {}]
  /\ reports = NotGiven /\ published = NotGiven

EvaluationInit == \E s \in Studies : Unread(s)

-----------------------------------------------------------------------------
(* Loading and setting up *)

Result(i) == study.results[i]

\* Prometheus answered for all samples of the run's overhead.
Measured(i) == Result(i).measured

\* A result one of whose samples is missing cannot be read back: that is logged.  Nor
\* can one that is still being written.
Load ==
  /\ progress = "load"
  /\ usable' = {i \in DOMAIN study.results : Measured(i)}
  /\ progress' = IF usable' = {} THEN "nothing" ELSE "setup"
  /\ UNCHANGED <<study, fitted, scans, pending, detections, reports, published>>

\* That a baseline could not be set up is logged; it is asked all the same.  The forest
\* is the one an earlier comparison saved, or fitted to the last two hours.
SetUp ==
  /\ progress = "setup"
  /\ progress' = "calibrate"
  /\ fitted' \in IF study.dryRun THEN {"saved", "synthetic"} ELSE {"saved", "recent", NotGiven}
  /\ UNCHANGED <<study, usable, scans, pending, detections, reports, published>>

Earliest(runs) == CHOOSE i \in runs : \A j \in runs : i <= j
Controls == {i \in usable : Result(i).label = 0}

\* The first control has a baseline phase to train on.
BenignPhase ==
  /\ ~study.dryRun /\ Controls # {}
  /\ "baseline" \in Result(Earliest(Controls)).phases

\* The forest is fitted again to that phase, if there are enough windows in it.
FitAgain ==
  /\ progress = "calibrate"
  /\ progress' = "falco" /\ pending' = usable
  /\ \/ UNCHANGED fitted
     \/ BenignPhase /\ fitted' = "benign"
  /\ UNCHANGED <<study, usable, scans, detections, reports, published>>

-----------------------------------------------------------------------------
(* Collecting the detections of one baseline after the other *)

\* The run has a beginning and an end.
HasTime(i) == "baseline" \in Result(i).phases

Following == [falco |-> "trivy", trivy |-> "forest", forest |-> "teardown"]

\* The runs are asked about in their order; after the last comes the next baseline.
Turn(i) ==
  /\ i = Earliest(pending)
  /\ IF pending = {i} THEN progress' = Following[progress] /\ pending' = usable
     ELSE pending' = pending \ {i} /\ UNCHANGED progress

Sees(d, i, alerts) ==
  detections' = [detections EXCEPT ![d] = @ \cup
                  {[run |-> i, phase |-> a.phase, delay |-> a.delay, number |-> a.number] : a \in alerts}]

\* The log of the pods, or, if there is nothing in it, the file: any part of it may be
\* lost.
CollectFalco(i) ==
  /\ progress = "falco" /\ Turn(i)
  /\ \E alerts \in SUBSET study.sightings.falco[i] :
       Sees("falco", i, IF HasTime(i) /\ ~study.dryRun THEN alerts ELSE {})
  /\ UNCHANGED <<study, usable, fitted, scans, reports, published>>

\* An image is scanned once; what was found has the time of the run it was scanned for,
\* the beginning of its attack phase.
ScanOf(i) == 1 .. Vulnerable[Result(i).image]

CollectTrivy(i) ==
  /\ progress = "trivy" /\ Turn(i)
  /\ \/ /\ HasTime(i) /\ "attack" \in Result(i).phases
        /\ Result(i).image # NotGiven /\ scans[Result(i).image] = NotGiven
        /\ scans' = [scans EXCEPT ![Result(i).image] = i]
        /\ Sees("trivy", i, IF study.dryRun THEN {}
                            ELSE {[phase |-> "attack", delay |-> 0, number |-> n] : n \in ScanOf(i)})
     \/ UNCHANGED <<scans, detections>>
  /\ UNCHANGED <<study, usable, fitted, reports, published>>

\* Windows Prometheus does not answer for are not scored.
ScoredWindows(i) == SUBSET study.sightings.forest[i]

\* Without a model there are no detections.
CollectForest(i) ==
  /\ progress = "forest" /\ Turn(i)
  /\ \E windows \in ScoredWindows(i) :
       Sees("forest", i, IF HasTime(i) /\ fitted # NotGiven THEN windows ELSE {})
  /\ UNCHANGED <<study, usable, fitted, scans, reports, published>>

Collect == \E i \in pending : CollectFalco(i) \/ CollectTrivy(i) \/ CollectForest(i)

\* Only Falco is removed from the cluster; that this fails is logged.
TearDown ==
  /\ progress = "teardown"
  /\ progress' = "evaluate"
  /\ UNCHANGED <<study, usable, fitted, scans, pending, detections, reports, published>>

-----------------------------------------------------------------------------
(* The evaluator *)

\* Runs whose contract state nobody established are left out.
Eligible == {i \in usable : Result(i).status = "established"}

\* inject() failed: from the notes of the phase or the message.  A run for which there
\* was no pod says neither.
NotInjected(i) == Result(i).injected = FALSE

Attacks == {i \in Eligible : Result(i).label = 1}
ValidAttacks == {i \in Attacks : ~NotInjected(i)}
Benign == {i \in Eligible : Result(i).label = 0}

Size(S) == Cardinality(S)
Rate(count, of) == IF count = NotGiven \/ of = NotGiven \/ of = 0 THEN NotGiven ELSE <<count, of>>
Together(a, b) == IF a = NotGiven \/ b = NotGiven THEN NotGiven ELSE a + b

\* _build_report.  Without a denominator there is no rate; F1 needs precision and recall,
\* and one of them above zero.
BuildReport(tp, fn, fp, tn, attacks, delays, overhead, status) ==
  LET tpr == Rate(tp, Together(tp, fn))
      precision == Rate(tp, Together(tp, fp))
  IN [status |-> status, tp |-> tp, fn |-> fn, fp |-> fp, tn |-> tn, attacks |-> attacks,
      benign |-> Size(Benign), delays |-> delays, overhead |-> overhead,
      tpr |-> tpr, fpr |-> Rate(fp, Together(fp, tn)), precision |-> precision,
      f1 |-> IF tpr = NotGiven \/ precision = NotGiven \/ tp = 0 THEN NotGiven
             ELSE <<2 * tp, 2 * tp + fp + fn>>]

\* Detected attacks that were attributed: one for the right component first, half for
\* among the first three.
Attribution ==
  LET judged == {i \in ValidAttacks : Result(i).detected /\ Result(i).named # NotGiven}
      exact == {i \in judged : Result(i).named = "exact"}
      partial == {i \in judged : Result(i).named = "among three"}
  IN IF judged = {} THEN NotGiven ELSE <<2 * Size(exact) + Size(partial), 2 * Size(judged)>>

\* PHANTOM is judged by what the results say of it: a control with any detection is one
\* false alarm.
PhantomReport ==
  LET detected == {i \in ValidAttacks : Result(i).detected}
      unresolved == Eligible = {}
      alarms == {i \in Benign : Result(i).alerted}
      delays == {<<i, Result(i).delay>> : i \in {j \in ValidAttacks : Result(j).delay # NotGiven}}
  IN BuildReport(IF unresolved THEN NotGiven ELSE Size(detected),
                 IF unresolved THEN NotGiven ELSE Size(ValidAttacks \ detected),
                 IF Benign = {} THEN NotGiven ELSE Size(alarms),
                 IF Benign = {} THEN NotGiven ELSE Size(Benign \ alarms),
                 Size(ValidAttacks), delays, "measured",
                 IF unresolved THEN "unavailable" ELSE "evaluated")

\* A detection in the attack phase counts however late it is.
InPhase(d) == d.run \in ValidAttacks /\ d.phase = "attack"

\* A detection in the attack phase of a run counts for it if it is in its window.
Timely(d) ==
  /\ d.run \in ValidAttacks /\ d.phase = "attack" /\ d.delay <= Result(d.run).window

Hits(d) == {x \in detections[d] : Timely(x)}

\* Each of the others in a control counts as a false alarm.
FalseAlarms(d) == {x \in detections[d] : x.run \in Benign /\ x.phase \in BenignPhases}

FirstHit(d, i) == CHOOSE t \in {x.delay : x \in {y \in Hits(d) : y.run = i}} :
                    \A x \in Hits(d) : x.run = i => t <= x.delay

\* Time is found in a second pass, which looks at the window again.
Delays(d) ==
  {<<i, FirstHit(d, i)>> : i \in {j \in ValidAttacks : \E x \in Hits(d) : x.run = j}}

\* Nothing seen at all is taken for telemetry that was not there.
BaselineReport(d) ==
  LET runs == {x.run : x \in Hits(d)}
      alarms == Size(FalseAlarms(d))
  IN IF detections[d] = {}
     THEN BuildReport(NotGiven, NotGiven, NotGiven, NotGiven, Size(ValidAttacks), {}, "unmeasured", "unavailable")
     ELSE BuildReport(Size(runs), Size(ValidAttacks) - Size(runs),
                      IF Benign = {} THEN NotGiven ELSE alarms,
                      IF Benign = {} THEN NotGiven
                      ELSE IF alarms > Size(Benign) THEN 0 ELSE Size(Benign) - alarms,
                      Size(ValidAttacks), Delays(d), "unmeasured", "evaluated")

Evaluate ==
  /\ progress = "evaluate"
  /\ reports' = [d \in Detectors \cup {"phantom"} |->
                   IF d = "phantom" THEN PhantomReport ELSE BaselineReport(d)]
  /\ progress' = "publish"
  /\ UNCHANGED <<study, usable, fitted, scans, pending, detections, published>>

-----------------------------------------------------------------------------
(* The tables *)

NoLess(a, b) == a[1] * b[2] >= b[1] * a[2]

\* The detectors whose value of this field is printed in bold: those with telemetry
\* that have the best of the values there are.
Compared(field) ==
  {d \in DOMAIN reports : reports[d].status # "unavailable" /\ reports[d][field] # NotGiven}

Bold(field, rising) ==
  {d \in Compared(field) : \A e \in Compared(field) :
     IF rising THEN NoLess(reports[d][field], reports[e][field])
     ELSE NoLess(reports[e][field], reports[d][field])}

Publish ==
  /\ progress = "publish"
  /\ published' = [reports |-> reports, attribution |-> Attribution,
                   bold |-> [tpr |-> Bold("tpr", TRUE), fpr |-> Bold("fpr", FALSE),
                             f1 |-> Bold("f1", TRUE)]]
  /\ progress' = "summary"
  /\ UNCHANGED <<study, usable, fitted, scans, pending, detections, reports>>

\* The summary formats every rate as a number: one that is NotGiven is an exception, and no
\* baseline has an overhead.
Summary ==
  /\ progress = "summary"
  /\ progress' = IF \A d \in DOMAIN reports :
                   /\ reports[d].tpr # NotGiven /\ reports[d].fpr # NotGiven /\ reports[d].f1 # NotGiven
                   /\ reports[d].overhead = "measured"
              THEN "done" ELSE "raised"
  /\ UNCHANGED <<study, usable, fitted, scans, pending, detections, reports, published>>

EvaluationNext ==
  Load \/ SetUp \/ FitAgain \/ Collect \/ TearDown \/ Evaluate \/ Publish \/ Summary

EvaluationSpec == EvaluationInit /\ [][EvaluationNext]_evaluationVars

-----------------------------------------------------------------------------
(* Properties *)

\* The rows of the table can be compared: every detector that has numbers is judged on
\* the same attacks, those whose intervention was made, each either detected, with one
\* delay within its window, or missed; PHANTOM's controls are either silent or not.
\* The counts of the rows are made by different code, in two passes over other data.
RowsAreComparable ==
  published # NotGiven =>
    \A d \in DOMAIN published.reports :
      LET r == published.reports[d]
      IN r.status = "evaluated" =>
           /\ r.tp + r.fn = r.attacks
           /\ \A e \in DOMAIN published.reports : published.reports[e].attacks = r.attacks
           /\ Size(r.delays) = r.tp
           /\ \A x \in r.delays :
                /\ Result(x[1]).injected = TRUE
                /\ x[2] <= Result(x[1]).window
           /\ d = "phantom" /\ r.fp # NotGiven => r.fp + r.tn = r.benign

\* "TN: benign scenario where no detection occurs." (evaluator.py:12).  Violated: of a
\* baseline every detection in a control is counted, and taken from the controls.
TrueNegativesAreSilent ==
  published # NotGiven =>
    \A d \in Detectors :
      published.reports[d].tn # NotGiven =>
        published.reports[d].tn = Size({i \in Benign : ~\E x \in FalseAlarms(d) : x.run = i})

\* "Load all ScenarioResult JSON files from raw_dir." (run_baselines.py:79).  Violated:
\* a sample that Prometheus did not answer for is saved as null, of which no number can
\* be made, and the whole result is left out.
EveryResultIsLoaded == progress # "load" => usable = DOMAIN study.results
=============================================================================
