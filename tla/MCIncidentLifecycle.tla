------------------------- MODULE MCIncidentLifecycle -------------------------
(* An instance of IncidentLifecycle for TLC: two analysts, two incidents, and   *)
(* bodies that open or reopen, or that name tags only.                          *)
EXTENDS IncidentLifecycle, TLC

CONSTANTS ana, ben, i1, i2, n1

Body(s, n, t) == [status |-> s, note |-> n, tags |-> t]
FewBodies == {Body("open", n1, FALSE), Body(None, None, TRUE)}

Colleagues == Permutations(Analysts)
=============================================================================
