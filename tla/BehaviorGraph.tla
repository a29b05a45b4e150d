----------------------------- MODULE BehaviorGraph -----------------------------
(***************************************************************************)
(* The behavioural dependency graph of the causal engine                   *)
(* (services/causal-engine/app/domain/bdg.py, with UpdateBdgUseCase and    *)
(* the structural causal model that causal.py derives from it): a          *)
(* multigraph in memory to which events are applied one by one, in the     *)
(* order the stream delivers them, which is not the order of their times.  *)
(* An event may be delivered again while the worker lives.                 *)
(*                                                                         *)
(* Natural keys carry their node type here; in the code they are tuples    *)
(* whose first part is the tenant and whose other parts differ in number   *)
(* or in form from type to type.  Weights are counted in units small       *)
(* enough for what is left of them after any time to be whole.             *)
(***************************************************************************)
EXTENDS Integers, Sequences, FiniteSets, Functions

CONSTANTS
  Observed,      \* what each event says, by event_id: [time, tenant, pod, container,
                 \* process, component, relation, quality, violations]; quality is the
                 \* composite confidence q, 0 when no component is bound
  Nothing,       \* no component bound, no relation mapped, or no drift event named
  BatchSize,     \* events between snapshots
  Windows,       \* time windows of a projection
  MaxRefs,       \* _MAX_EVIDENCE_REFS
  MaxTime,       \* bound: the latest event_time
  Decay          \* what a weight is divided by in so many ticks, 1 / lambda ^ (dt / delta)

Events == DOMAIN Observed
WeightUnit == Decay[MaxTime]

NodeTypes ==
  {"workload", "container", "process", "purl", "file", "network_endpoint", "contract", "drift_event"}

\* map_event_to_relations.
RelationTypes == {"file", "network_endpoint"}

ASSUME GraphSizes ==
  /\ {BatchSize, Windows, MaxRefs} \subseteq Nat \ {0} /\ MaxTime \in Nat
  /\ \A e \in Events :
       /\ Observed[e].time \in 0 .. MaxTime /\ Observed[e].quality \in Nat
       /\ Observed[e].relation # Nothing => Observed[e].relation.type \in RelationTypes
       /\ DOMAIN Observed[e].violations \subseteq Nat \ {0} /\ IsFiniteSet(DOMAIN Observed[e].violations)
\* What is left after two times is what is left after the one of what is left after
\* the other.
ASSUME DecayAssumption ==
  /\ Decay \in [0 .. MaxTime -> Nat \ {0}] /\ Decay[0] = 1
  /\ \A a, b \in 0 .. MaxTime : a + b <= MaxTime => Decay[a + b] = Decay[a] * Decay[b]

\* GraphNode and GraphEdge.
GraphNodes == [type : NodeTypes, first : 0 .. MaxTime, last : 0 .. MaxTime, count : Nat, refs : Seq(Events)]
GraphEdges == [weight : Nat, last : 0 .. MaxTime, count : Nat, refs : Seq(Events)]

VARIABLES
  nodes,      \* natural key -> the GraphNode of it
  edges,      \* <<source, target, type>> -> the GraphEdge
  applied,    \* _idempotency_index, in the order of arrival
  since,      \* _events_since_snapshot
  snapshots   \* _snapshots, with the graph that was saved under each

graphVars == <<nodes, edges, applied, since, snapshots>>

GraphInit ==
  /\ nodes = [k \in {} |-> Nothing] /\ edges = [k \in {} |-> Nothing]
  /\ applied = <<>> /\ since = 0 /\ snapshots = <<>>

-----------------------------------------------------------------------------
(* What an event touches *)

Node(e, type, name) == <<type, Observed[e].tenant, name>>
Workload(e) == Node(e, "workload", Observed[e].pod)
Container(e) == Node(e, "container", Observed[e].container)
Process(e) == Node(e, "process", Observed[e].process)
Component(e) == Node(e, "purl", Observed[e].component)
Target(e) == Node(e, Observed[e].relation.type, Observed[e].relation.name)
Drift(e, name) == Node(e, "drift_event", name)
Contract(e, v) == Node(e, "contract", v.contract)

When(condition, upserts) == IF condition THEN upserts ELSE {}
Bound(e) == Observed[e].component # Nothing
Related(e) == Observed[e].relation # Nothing

\* An event upserts an item once of itself, as number 0, and once for each violation.
Once(items) == {<<0, k>> : k \in items}
Violated(e) == DOMAIN Observed[e].violations

\* A violation that names no drift event gets one of its own.
DriftOf(e, n) ==
  Drift(e, IF Observed[e].violations[n].drift = Nothing THEN <<e, n>>
           ELSE Observed[e].violations[n].drift)
ContractOf(e, n) == Contract(e, Observed[e].violations[n])

-----------------------------------------------------------------------------
(* Faulty variants: the bugs the properties must catch *)

\* last_seen is the time of the event that came last.
Overwritten(last, t) == t

\* The component points at its container.
Owning(e) == <<Component(e), Container(e), "belongs_to">>

-----------------------------------------------------------------------------
(* The upserts of an event *)

NodeUpserts(e) ==
  Once({Workload(e), Container(e), Process(e)})
    \cup When(Bound(e), Once({Component(e)})) \cup When(Related(e), Once({Target(e)}))
    \cup {<<n, DriftOf(e, n)>> : n \in Violated(e)}
    \cup {<<n, ContractOf(e, n)>> : n \in Violated(e)}

Belonging(e) == <<Container(e), Component(e), "belongs_to">>

EdgeUpserts(e) ==
  Once({<<Workload(e), Container(e), "runs">>, <<Container(e), Process(e), "executes">>})
    \cup When(Bound(e), Once({Belonging(e)}))
    \cup When(Related(e), Once({<<Process(e), Target(e), Observed[e].relation.edge>>}))
    \cup {<<n, <<Process(e), DriftOf(e, n), "derived_from">>>> : n \in Violated(e)}
    \cup When(Bound(e), {<<n, <<Component(e), DriftOf(e, n), "violates">>>> : n \in Violated(e)})
    \cup {<<n, <<DriftOf(e, n), ContractOf(e, n), "violates">>>> : n \in Violated(e)}

Items(upserts) == {u[2] : u \in upserts}
Times(upserts, k) == Cardinality({u \in upserts : u[2] = k})

-----------------------------------------------------------------------------
(* upsert_node and upsert_edge, n times for one event *)

Latest(last, t) == IF t > last THEN t ELSE last

\* A late event changes nothing of the weight there is.
Decayed(w, dt) == IF dt > 0 THEN w \div Decay[dt] ELSE w

\* q, the weight of one observation.
Gain(e) == Observed[e].quality * WeightUnit

\* Evidence up to the cap.
Referred(refs, e, n) ==
  LET room == MaxRefs - Len(refs)
  IN refs \o [i \in 1 .. (IF n < room THEN n ELSE room) |-> e]

UpsertNode(k, e, n) ==
  LET t == Observed[e].time
  IN IF k \in DOMAIN nodes
       THEN [nodes[k] EXCEPT !.last = Latest(@, t), !.count = @ + n,
                             !.refs = Referred(@, e, n)]
       ELSE [type |-> k[1], first |-> t, last |-> t, count |-> n,
             refs |-> Referred(<<>>, e, n)]

UpsertEdge(k, e, n) ==
  LET t == Observed[e].time
  IN IF k \in DOMAIN edges
       THEN [weight |-> Decayed(edges[k].weight, t - edges[k].last) + n * Gain(e),
             last |-> Latest(edges[k].last, t),
             count |-> edges[k].count + n,
             refs |-> Referred(edges[k].refs, e, n)]
       ELSE [weight |-> n * Gain(e), last |-> t, count |-> n,
             refs |-> Referred(<<>>, e, n)]

-----------------------------------------------------------------------------
(* Actions *)

IsNew(e) == e \notin Range(applied)

NextCount(cut) == IF cut THEN 0 ELSE since + 1

\* A snapshot's document, which leaves the idempotency index out.
Serialized(e, ns, es) == [mark |-> e, nodes |-> ns, edges |-> es]

\* update(), and the snapshot at a batch boundary, which the use case saves.
Update(e) ==
  /\ IsNew(e)
  /\ LET ns == NodeUpserts(e)
         es == EdgeUpserts(e)
         cut == since + 1 >= BatchSize
     IN /\ nodes' = [k \in DOMAIN nodes \cup Items(ns) |->
                       IF k \in Items(ns) THEN UpsertNode(k, e, Times(ns, k)) ELSE nodes[k]]
        /\ edges' = [k \in DOMAIN edges \cup Items(es) |->
                       IF k \in Items(es) THEN UpsertEdge(k, e, Times(es, k)) ELSE edges[k]]
        /\ applied' = Append(applied, e)
        /\ since' = NextCount(cut)
        /\ snapshots' = IF cut
             THEN Append(snapshots, Serialized(e, nodes', edges'))
             ELSE snapshots

\* The event was applied before: the mutation is empty.
Duplicate(e) == ~IsNew(e) /\ UNCHANGED graphVars

GraphNext == \E e \in Events : Update(e) \/ Duplicate(e)

GraphSpec == GraphInit /\ [][GraphNext]_graphVars

-----------------------------------------------------------------------------
(* The projection to a temporal graph, and the causal model made of it.     *)
(* Both see node types only, as variables.                                  *)

Semantic(type) ==
  CASE type = "workload" -> "environment"      [] type = "container" -> "image"
    [] type = "process" -> "process_behavior"  [] type = "purl" -> "component_version"
    [] type = "file" -> "file_behavior"        [] type = "network_endpoint" -> "network_behavior"
    [] type = "contract" -> "contract_deviation" [] type = "drift_event" -> "runtime_sbom_drift"

Tier(variable) ==
  CASE variable \in {"environment", "rbac", "image"} -> 0
    [] variable = "component_version" -> 1
    [] variable = "process_behavior" -> 2
    [] variable \in {"file_behavior", "network_behavior", "privilege_behavior"} -> 3
    [] variable = "contract_deviation" -> 4
    [] variable = "runtime_sbom_drift" -> 5
    [] OTHER -> 99

\* <<source, target>> of the edges, as variables.
Links(its) == {<<Semantic(k[1][1]), Semantic(k[2][1])>> : k \in its}

\* Rule 1: a later window.  Rule 2: the same window, and a higher tier.
Oriented(u, v, w, x) == w < x \/ (w = x /\ Tier(u) < Tier(v))

Projected(links) ==
  {p \in {<<<<l[1], w>>, <<l[2], x>>>> : l \in links, w, x \in 0 .. Windows - 1} :
     Oriented(p[1][1], p[2][1], p[1][2], p[2][2])}

\* is_post_treatment_mediator.
Mediator(variable) ==
  variable \in {"process_behavior", "file_behavior", "network_behavior",
                "privilege_behavior", "contract_deviation", "runtime_sbom_drift"}

\* build_scm_graph: windows are collapsed, mediators do not point at the treatment,
\* and the treatment and the other covariates get the edges the question needs.
Scm(projected, treatment, outcome, covariates) ==
  {l \in {<<p[1][1], p[2][1]>> : p \in projected} :
     l[1] # l[2] /\ ~(l[2] = treatment /\ Mediator(l[1]))}
    \cup {<<treatment, outcome>>}
    \cup {c \in covariates : ~Mediator(c)} \X {treatment, outcome}

-----------------------------------------------------------------------------
(* Properties *)

Prefix(n) == {applied[i] : i \in 1 .. n}
NodesOf(es) == UNION {Items(NodeUpserts(e)) : e \in es}
EdgesOf(es) == UNION {Items(EdgeUpserts(e)) : e \in es}

\* The sum of the numbers that a function gives to some events.
TotalOf(of) == Cardinality(UNION {{e} \X (1 .. of[e]) : e \in DOMAIN of})

LastTime(es) == CHOOSE t \in {Observed[e].time : e \in es} :
                  \A e \in es : Observed[e].time <= t

\* Whatever the order of arrival and however often an event comes, the items of the
\* graph are those of the set of events: an item is there, was seen and was counted as the
\* events say that touch it, and an edge joins two nodes of one tenant.
ItemsAreOfEvents ==
  LET seen == Range(applied)
  IN /\ DOMAIN nodes = NodesOf(seen) /\ DOMAIN edges = EdgesOf(seen)
     /\ \A k \in DOMAIN nodes :
          LET own == {e \in seen : k \in Items(NodeUpserts(e))}
          IN /\ nodes[k].count = TotalOf([e \in own |-> Times(NodeUpserts(e), k)])
             /\ nodes[k].last = LastTime(own) /\ Range(nodes[k].refs) \subseteq own
     /\ \A k \in DOMAIN edges :
          LET own == {e \in seen : k \in Items(EdgeUpserts(e))}
          IN /\ edges[k].count = TotalOf([e \in own |-> Times(EdgeUpserts(e), k)])
             /\ edges[k].last = LastTime(own) /\ Range(edges[k].refs) \subseteq own
             /\ {k[1], k[2]} \subseteq DOMAIN nodes /\ k[1][2] = k[2][2]

\* The events that touch an edge came in the order of their times.
CameInOrder(k) ==
  \A i, j \in 1 .. Len(applied) :
    i < j /\ k \in Items(EdgeUpserts(applied[i])) /\ k \in Items(EdgeUpserts(applied[j]))
      => Observed[applied[i]].time <= Observed[applied[j]].time

\* The weight of an edge is what the formula "w(t) = decay * w(t_prev) + q" gives
\* for its events in the order of their times; when they come in another order it
\* is never less than that, and never more than the sum of their qualities.
WeightsAreBounded ==
  \A k \in DOMAIN edges :
    LET own == {e \in Range(applied) : k \in Items(EdgeUpserts(e))}
        ideal == TotalOf([e \in own |-> Decayed(Times(EdgeUpserts(e), k) * Gain(e),
                                               edges[k].last - Observed[e].time)])
    IN /\ ideal <= edges[k].weight
       /\ edges[k].weight <= TotalOf([e \in own |-> Times(EdgeUpserts(e), k) * Gain(e)])
       /\ CameInOrder(k) => edges[k].weight = ideal

\* The n-th snapshot is the graph of the first n batches, marked with the last of
\* their events, and no batch is without one.
SnapshotsAreCuts ==
  /\ Len(snapshots) = Len(applied) \div BatchSize
  /\ \A n \in DOMAIN snapshots :
       /\ snapshots[n].mark = applied[n * BatchSize]
       /\ DOMAIN snapshots[n].nodes = NodesOf(Prefix(n * BatchSize))
       /\ DOMAIN snapshots[n].edges = EdgesOf(Prefix(n * BatchSize))

\* The graph and its snapshots are functions of the events that came, and, but for
\* the weights, of the set of them only.
GraphIsItsEvents == ItemsAreOfEvents /\ WeightsAreBounded /\ SnapshotsAreCuts

\* Of any variables some one is not an effect of another of them.
Acyclic(links) ==
  \A vs \in SUBSET {l[1] : l \in links} :
    vs # {} => \E v \in vs : \A l \in links : l[2] = v => l[1] \notin vs

\* The causal model that the graph gives for the code's treatment and outcome is
\* acyclic, with the Tier 0 covariates or without: collapsing the windows forgets
\* the orientation that made the projection acyclic, and nothing but the shape of
\* the graph replaces it.
ScmIsAcyclic ==
  \A t \in {"component_version", "component_version_treatment"},
     c \in {{}, {"environment", "image"}} :
    Acyclic(Scm(Projected(Links(DOMAIN edges)), t, "runtime_sbom_drift", c))
=============================================================================
