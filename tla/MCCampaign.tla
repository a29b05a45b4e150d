------------------------------ MODULE MCCampaign ------------------------------
(* Almost every kind of scenario twice in a row, some pairs on one service, and    *)
(* requests that the preflight must stop.                                          *)
EXTENDS Campaign

CONSTANTS xz, confusion, solarwinds, spawn, egress, tamper, rollout, burst, restart, loop

Of(kind, service, label, sink) ==
  [kind |-> kind, service |-> service, label |-> label, sink |-> sink]

Catalogue ==
  [s \in Scenarios |->
     CASE s = xz -> Of("wheel", "recommendation", 1, "own port")
       [] s = confusion -> Of("mirror", "email", 1, "own port")
       [] s = solarwinds -> Of("image", "cart", 1, "own port")
       [] s = spawn -> Of("process", "recommendation", 1, "own port")
       [] s = egress -> Of("probe", "cart", 1, "own port")
       [] s = tamper -> Of("file", "recommendation", 1, "")
       [] s = rollout -> Of("update", "recommendation", 0, "")
       [] s = burst -> Of("load", "email", 0, "")
       [] s = restart -> Of("restart", "cart", 0, "")
       [] OTHER -> Of("file", "recommendation", 1, "loopback")]

GoodCluster ==
  [server |-> "lab", answers |-> TRUE, nodes |-> {"linux 5.15"}, namespace |-> "Active",
   sink |-> "ClusterIP"]

LiveRun(plan, repetitions) ==
  [plan |-> plan, repetitions |-> repetitions, execute |-> TRUE, dryRun |-> FALSE,
   context |-> "disposable", namespace |-> "phantom-eval", cluster |-> GoodCluster]

SomeCampaigns ==
  {LiveRun(<<s>>, 2) : s \in Scenarios \ {egress, burst}}
  \cup {LiveRun(<<solarwinds, egress>>, 1), LiveRun(<<burst>>, 1), LiveRun(<<rollout, xz>>, 1),
        LiveRun(<<tamper, rollout>>, 1), LiveRun(<<restart, solarwinds>>, 1),
        LiveRun(<<solarwinds, egress, restart>>, 1), LiveRun(<<spawn, rollout>>, 1)}
  \cup {[LiveRun(<<tamper>>, 1) EXCEPT !.dryRun = TRUE],
        [LiveRun(<<tamper>>, 1) EXCEPT !.execute = FALSE],
        [LiveRun(<<tamper>>, 1) EXCEPT !.context = "production"],
        [LiveRun(<<tamper>>, 1) EXCEPT !.context = "other"],
        [LiveRun(<<tamper>>, 1) EXCEPT !.context = Unknown],
        [LiveRun(<<tamper>>, 1) EXCEPT !.namespace = "default"],
        [LiveRun(<<tamper>>, 1) EXCEPT !.cluster = [GoodCluster EXCEPT !.server = "cloud"]],
        [LiveRun(<<tamper>>, 1) EXCEPT !.cluster = [GoodCluster EXCEPT !.sink = "NodePort"]]}
=============================================================================
