----------------------------- MODULE MCEvidenceSink -----------------------------
(* An instance of EvidenceSink for TLC: one run, two events, an observer whose   *)
(* key is rotated, a registry, a collector that is not independent and others    *)
(* whose statements lack something, two of them with one observation_id.         *)
EXTENDS EvidenceSink

CONSTANTS run, began, ended, target, observer, successor, registry, inside

Key(isRegistry, isIndependent) == [registry |-> isRegistry, independent |-> isIndependent]

\* The first file; a rotation of the observer's key; the rotation reverted, which
\* revokes nothing itself; and one that drops a key silently.
File(n, ks, rs) ==
  [store |-> "lab", generation |-> n, revoked |-> rs,
   keys |-> [k \in ks |-> Key(k = registry, k # inside)]]
FourFiles ==
  {File(1, {observer, registry, inside}, {}),
   File(2, {successor, registry, inside}, {observer}),
   File(3, {observer, registry, inside}, {successor}),
   File(3, {registry, inside}, {observer})}

Seen(event, state, at) ==
  [run |-> run, event |-> event, workload |-> target, injected |-> TRUE, passed |-> TRUE,
   expected |-> "violating", state |-> state, behavior |-> state, referenced |-> TRUE,
   complete |-> FALSE, registry |-> registry, at |-> at]
TwoAssertions == {Seen(began, "violating", 0), Seen(began, "conforming", 0)}

Statement(key, id, event, state, behavior, complete, contract) ==
  [key |-> key, id |-> id, run |-> run, event |-> event, workload |-> target, at |-> 1,
   intact |-> TRUE, referenced |-> TRUE, complete |-> complete, state |-> state,
   behavior |-> behavior, registry |-> contract]
FourStatements ==
  {Statement(successor, 1, ended, "conforming", "conforming", TRUE, registry),
   Statement(inside, 1, began, "violating", "violating", TRUE, registry),
   Statement(observer, 9, ended, "violating", "conforming", TRUE, registry),
   Statement(observer, 9, began, "violating", "violating", TRUE, Nil)}

Body(event, admitted, processed) ==
  [run |-> run, event |-> event, workload |-> target, admitted |-> admitted,
   processed |-> processed]
TwoPosts == {Body(Nil, TRUE, "recorded"), Body(began, FALSE, "failed")}
=============================================================================
