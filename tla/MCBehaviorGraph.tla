---------------------------- MODULE MCBehaviorGraph ----------------------------
(* An instance of BehaviorGraph for TLC: six events of two tenants.  Four are of *)
(* one process, with and without a component, whose times are 0, 2, 1 and 2; two *)
(* of these have violations of one contract: two that name one drift event and   *)
(* one that names none, and one that names the same.                             *)
EXTENDS BehaviorGraph

CONSTANTS e1, e2, e3, e4, e5, e6, acme, umbra, pod, app, sh, cron, lib, etc, api,
          drift, rule

Event(time, process, component, relation, violations) ==
  [time |-> time, tenant |-> acme, pod |-> pod, container |-> app, process |-> process,
   component |-> component, relation |-> relation,
   quality |-> IF component = Nothing THEN 0 ELSE 1, violations |-> violations]
Reads == [type |-> "file", name |-> etc, edge |-> "reads"]
Writes == [type |-> "file", name |-> etc, edge |-> "writes"]
Connects == [type |-> "network_endpoint", name |-> api, edge |-> "connects_to"]
Violates(name) == [drift |-> name, contract |-> rule]

SixEvents ==
  [e \in {e1, e2, e3, e4, e5, e6} |->
     CASE e = e1 -> Event(0, sh, lib, Reads, <<>>)
       [] e = e2 -> Event(2, sh, lib, Reads, <<Violates(drift), Violates(drift), Violates(Nothing)>>)
       [] e = e3 -> Event(1, sh, Nothing, Writes, <<>>)
       [] e = e4 -> Event(2, sh, lib, Reads, <<Violates(drift)>>)
       [] e = e5 -> Event(3, cron, lib, Connects, <<>>)
       [] e = e6 -> [Event(1, sh, Nothing, Nothing, <<>>) EXCEPT !.tenant = umbra]]

\* Weights decay by half per tick.
Halving == [n \in 0 .. MaxTime |-> 2 ^ n]
=============================================================================
