---------------------------- MODULE MCCausalAnalysis ----------------------------
(* An instance of CausalAnalysis for TLC: every manifest alone, and all archives *)
(* of four of the manifests that a batch with attacks and benign runs consists   *)
(* of, one of which is an attack without drift.                                  *)
EXTENDS CausalAnalysis

Manifests ==
  [attack : BOOLEAN, injected : {TRUE, FALSE, Absent}, completed : BOOLEAN,
   contract : {"conforming", "violating", "unestablished"},
   verified : {TRUE, FALSE, Absent}, drift : {0, 1, Absent}, alert : BOOLEAN,
   stratum : {"low"}]

Usual(attack, drift, stratum) ==
  [attack |-> attack, injected |-> IF attack THEN TRUE ELSE Absent, completed |-> TRUE,
   contract |-> "unestablished", verified |-> Absent, drift |-> drift, alert |-> TRUE,
   stratum |-> stratum]
Sorted ==
  {Usual(TRUE, 1, x) : x \in {"low", "high"}} \cup {Usual(FALSE, 0, x) : x \in {"low", "high"}}
    \cup {Usual(TRUE, 0, "low")}
SomeArchives == {<<m>> : m \in Manifests} \cup [1 .. 4 -> Sorted]

Question(task, target, covariates, mapping, loss, verified) ==
  [task |-> task, target |-> target, covariates |-> covariates, mapping |-> mapping,
   loss |-> loss, verified |-> verified]
SomeRequests ==
  {Question("analysis", "purl", c, m, 0, TRUE) :
     c \in BOOLEAN, m \in {{}, {"verified"}, {"inferred", "ambiguous"}}}
    \cup {Question("batch", "inject", TRUE, {}, 0, TRUE)}
    \cup {Question("attribution", t, c, {}, 0, TRUE) : t \in {"purl", "inject"}, c \in BOOLEAN}
    \cup {Question("attribution", "purl", TRUE, {}, 5, FALSE)}
=============================================================================
