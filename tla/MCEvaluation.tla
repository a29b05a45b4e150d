----------------------------- MODULE MCEvaluation -----------------------------
(* Two attacks and a control that were established, with one more run that has one  *)
(* of the things that can be wrong with a result.                                   *)
EXTENDS Evaluation

CONSTANTS cart

Attack(detected, delay) ==
  [label |-> 1, status |-> "established", injected |-> TRUE, phases |-> Phases, window |-> 2,
   image |-> cart, detected |-> detected, delay |-> delay, alerted |-> detected,
   measured |-> TRUE, named |-> IF detected THEN "among three" ELSE NotGiven]

Control(alerted) ==
  [Attack(FALSE, NotGiven) EXCEPT !.label = 0, !.image = NotGiven, !.alerted = alerted]

Odd ==
  {[Attack(FALSE, NotGiven) EXCEPT !.injected = FALSE, !.phases = {"baseline", "inject"}],
   [Attack(TRUE, 1) EXCEPT !.status = "unknown_contract_state"],
   [Attack(TRUE, 1) EXCEPT !.measured = FALSE],
   [Attack(TRUE, 1) EXCEPT !.named = "exact"],
   [Control(TRUE) EXCEPT !.status = "unknown_contract_state"],
   [Control(FALSE) EXCEPT !.status = "unknown_contract_state", !.injected = NotGiven, !.phases = {}],
   Control(TRUE)}

Alert(phase, delay) == [phase |-> phase, delay |-> delay, number |-> 1]

\* What can be seen of the attacks, in their windows and after, and of the control.
Sightings(results) ==
  [falco |-> [i \in DOMAIN results |->
                CASE i = 1 -> {Alert("attack", 1), Alert("attack", 3)}
                  [] i = 2 -> {Alert("attack", 3)}
                  [] i = 3 -> {Alert("attack", 1), Alert("baseline", 0)}
                  [] OTHER -> {}],
   forest |-> [i \in DOMAIN results |-> IF i \in {1, 3} THEN {} ELSE {Alert("attack", i)}]]

Study(results, dryRun) == [results |-> results, sightings |-> Sightings(results), dryRun |-> dryRun]

SomeStudies ==
  {Study(<<Attack(TRUE, 2), Attack(FALSE, NotGiven), Control(FALSE), r>>, FALSE) : r \in Odd}
  \cup {Study(<<r>>, TRUE) : r \in Odd}
  \cup {Study(<<Attack(FALSE, NotGiven), Attack(TRUE, 0)>>, FALSE)}

ScannedImages == [i \in {cart} |-> 1]
=============================================================================
