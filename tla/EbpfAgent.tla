------------------------------ MODULE EbpfAgent ------------------------------
(***************************************************************************)
(* The agent of one node (services/ebpf-agent): exec events go from the    *)
(* kernel's ring buffer (bpf/syscall_events.bpf.c) through the callback    *)
(* and the bounded queue of application/main.py to a processor, which      *)
(* attributes them to a container with the help of Redis and the           *)
(* Kubernetes API (infrastructure/k8s/attributor.py) and posts them to the *)
(* api-gateway, once (infrastructure/api/dispatcher.py).                   *)
(*                                                                         *)
(* Callback and processor share one event loop: a callback runs to its     *)
(* end, and the processor is interrupted at its awaits only.  Processes,   *)
(* containers and what the API knows of them change at any time, also      *)
(* between an event and the callback's look at /proc.  A poll may call     *)
(* back for several records in a row; here the processor may run between.  *)
(*                                                                         *)
(* A cgroup id belongs to one container for ever, or to none (Host).       *)
(***************************************************************************)
EXTENDS Integers, Sequences

CONSTANTS
  Pids,
  Containers,
  Host,       \* cgroups outside any container
  NoProcess,  \* what /proc shows of a pid that is not in use
  Unscoped,   \* containers whose cgroup directory is no "...-<id>.scope"
  Digestless, \* containers without an immutable image digest
  Watched,    \* containers in WATCH_NAMESPACES
  RingSize,   \* records rb_exec holds
  QueueSize,  \* maxsize of event_queue
  MaxEvents,  \* bound: exec events in one behaviour
  MaxFaults   \* bound: failed calls and deaths of the agent

Cgroups == Containers \cup {Host}
Ids == 1 .. MaxEvents
Event == [id : Ids, pid : Pids, cgroup : Cgroups]

ASSUME PlacesAssumption == Host \notin Containers /\ NoProcess \notin Cgroups
ASSUME NamesAssumption == Containers \cap {"absent", "invalid", "cgroup only"} = {}
ASSUME ContainersAssumption == Unscoped \cup Digestless \cup Watched \subseteq Containers
ASSUME SizesAssumption == {RingSize, QueueSize, MaxEvents} \subseteq Nat \ {0} /\ MaxFaults \in Nat

VARIABLES
  proc,        \* the cgroup /proc shows of each pid
  reported,    \* what the Kubernetes API says of each container
  made,        \* exec events so far
  ring,        \* rb_exec
  captures,    \* _CONTAINER_ID_CACHE
  queue,       \* event_queue
  identities,  \* the attributor's entries in Redis
  pc,          \* where the processor is
  hand,        \* the event it has in hand, with its container
  verdict,     \* the attribution it is about to store
  count,       \* records by stage, in the life of the agent
  faults,      \* faults so far
  posted,      \* history: what reached the gateway: [id, container]
  origin       \* history: the cgroup each event came from

node == <<proc, reported>>
kernel == <<made, ring, origin>>
vars == <<node, kernel, captures, queue, identities, pc, hand, verdict, count, faults, posted>>

\* What the callback may have found of an event's process.
Captures == {"invalid", "cgroup only"} \cup Containers
Stages == {"emitted", "reserve_failed", "received", "queued", "queue_full",
           "identity_missing", "namespace_filtered", "dispatched", "error"}

\* An ambiguous attribution is dropped like a missing one; stale is never given.
Verdicts == {"missing", "resolved"}

TypeOK ==
  /\ proc \in [Pids -> Cgroups \cup {NoProcess}]
  /\ reported \in [Containers -> {"waiting", "running", "terminated"}]
  /\ made \in 0 .. MaxEvents
  /\ ring \in Seq(Event) /\ Len(ring) <= RingSize
  /\ captures \in [Ids -> Captures \cup {"absent"}]
  /\ queue \in Seq(Event) /\ Len(queue) <= QueueSize
  /\ identities \in [Containers -> {"absent"} \cup Verdicts]
  /\ pc \in {"get", "look up", "store", "post"}
  /\ hand \in Seq([event : Event, container : Containers]) /\ Len(hand) <= 1
  /\ verdict \in Verdicts
  /\ count \in [Stages -> Nat]
  /\ faults \in 0 .. MaxFaults
  /\ posted \in Seq([id : Ids, container : Containers])
  /\ origin \in [Ids -> Cgroups]

Init ==
  /\ proc \in [Pids -> {Host, NoProcess}]
  /\ reported = [c \in Containers |-> "waiting"]
  /\ made = 0
  /\ ring = <<>>
  /\ captures = [i \in Ids |-> "absent"]
  /\ queue = <<>>
  /\ identities = [c \in Containers |-> "absent"]
  /\ pc = "get" /\ hand = <<>> /\ verdict = "missing"
  /\ count = [s \in Stages |-> 0]
  /\ faults = 0
  /\ posted = <<>>
  /\ origin = [i \in Ids |-> Host]

Fault == faults < MaxFaults /\ faults' = faults + 1

Counted(S) == [s \in Stages |-> count[s] + IF s \in S THEN 1 ELSE 0]

\* The processor is done with its event and waits for the next one.
Settle(stage) ==
  /\ pc' = "get" /\ hand' = <<>>
  /\ count' = Counted({stage})

Hold(event, container, next) ==
  /\ pc' = next
  /\ hand' = <<[event |-> event, container |-> container]>>

Holding == hand[1].container
PostOf(h) == [id |-> h.event.id, container |-> h.container]

-----------------------------------------------------------------------------
(* Faulty variants of the definitions below: the bugs the properties must catch *)

\* The inode of the process's cgroup is not compared with the event's.
LookWithoutInode(e) ==
  CASE proc[e.pid] = NoProcess -> "invalid"
    [] proc[e.pid] \in Containers \ Unscoped -> proc[e.pid]
    [] OTHER -> "cgroup only"

\* Events of other namespaces are skipped without counting.
FilterUncounted(event, container, v) ==
  IF v = "resolved" /\ container \notin Digestless
  THEN IF container \in Watched
       THEN Hold(event, container, "post") /\ UNCHANGED count
       ELSE pc' = "get" /\ hand' = <<>> /\ UNCHANGED count
  ELSE Settle("identity_missing")

\* An exception ends the processor's loop.
ErrorEndsProcessor ==
  /\ pc = "look up" /\ Fault
  /\ pc' = "stopped"
  /\ UNCHANGED <<node, kernel, captures, queue, hand, identities, verdict, count, posted>>

-----------------------------------------------------------------------------
(* The node *)

\* A process is born in the cgroup of its parent, and may reuse a pid.
Spawn(p, g) ==
  /\ proc[p] = NoProcess
  /\ g # Host => reported[g] # "terminated"
  /\ proc' = [proc EXCEPT ![p] = g]
  /\ UNCHANGED <<reported, kernel, captures, queue, identities, pc, hand, verdict, count, faults, posted>>

\* The runtime moves the first process of a container into its cgroup.
Join(p, c) ==
  /\ proc[p] = Host /\ reported[c] # "terminated"
  /\ proc' = [proc EXCEPT ![p] = c]
  /\ UNCHANGED <<reported, kernel, captures, queue, identities, pc, hand, verdict, count, faults, posted>>

ProcessExits(p) ==
  /\ proc[p] # NoProcess
  /\ proc' = [proc EXCEPT ![p] = NoProcess]
  /\ UNCHANGED <<reported, kernel, captures, queue, identities, pc, hand, verdict, count, faults, posted>>

\* The kubelet reports late: a container's processes run before and after.
Report(c) ==
  /\ \/ /\ reported[c] = "waiting"
        /\ reported' = [reported EXCEPT ![c] = "running"]
     \/ /\ reported[c] = "running" /\ \A p \in Pids : proc[p] # c
        /\ reported' = [reported EXCEPT ![c] = "terminated"]
  /\ UNCHANGED <<proc, kernel, captures, queue, identities, pc, hand, verdict, count, faults, posted>>

\* phantom_collect_exec: a full ring buffer loses the event, and counts it.
Record(e) ==
  IF Len(ring) < RingSize
  THEN ring' = Append(ring, e) /\ count' = Counted({"emitted"})
  ELSE count' = Counted({"emitted", "reserve_failed"}) /\ UNCHANGED ring

Exec(p) ==
  /\ proc[p] # NoProcess /\ made < MaxEvents
  /\ made' = made + 1
  /\ origin' = [origin EXCEPT ![made'] = proc[p]]
  /\ Record([id |-> made', pid |-> p, cgroup |-> proc[p]])
  /\ UNCHANGED <<node, captures, queue, identities, pc, hand, verdict, faults, posted>>

-----------------------------------------------------------------------------
(* rb_callback *)

\* _read_container_id_sync: /proc must show the cgroup of the event, and tells
\* the container if its directory is a runtime scope.
Look(e) ==
  IF proc[e.pid] # e.cgroup THEN "invalid"
  ELSE IF e.cgroup \in Unscoped \cup {Host} THEN "cgroup only"
  ELSE proc[e.pid]

Enqueue(e) ==
  /\ Len(queue) < QueueSize
  /\ captures' = [captures EXCEPT ![e.id] = Look(e)]
  /\ queue' = Append(queue, e)
  /\ count' = Counted({"received", "queued"})

\* QueueFull: the capture, stored before, is removed again.
Overflow(e) ==
  /\ Len(queue) >= QueueSize
  /\ count' = Counted({"received", "queue_full"})
  /\ UNCHANGED <<captures, queue>>

Callback ==
  /\ ring # <<>>
  /\ ring' = Tail(ring)
  /\ Enqueue(Head(ring)) \/ Overflow(Head(ring))
  /\ UNCHANGED <<node, made, origin, identities, pc, hand, verdict, faults, posted>>

-----------------------------------------------------------------------------
(* event_processor *)

\* The identity gate and the namespace filter, up to the post.
Gate(event, container, v) ==
  IF v = "resolved" /\ container \notin Digestless
  THEN IF container \in Watched
       THEN Hold(event, container, "post") /\ UNCHANGED count
       ELSE Settle("namespace_filtered")
  ELSE Settle("identity_missing")

Answer(c) == IF reported[c] = "running" THEN "resolved" ELSE "missing"

\* The next event, and its capture, which is removed.
Taken(e, capture) ==
  /\ pc = "get" /\ queue # <<>>
  /\ e = Head(queue) /\ capture = captures[e.id]
  /\ queue' = Tail(queue)
  /\ captures' = [captures EXCEPT ![e.id] = "absent"]
  /\ UNCHANGED <<node, kernel, identities, verdict, posted>>

\* The capture names a container: the processor awaits Redis.
TakeNamed ==
  \E e \in Event, c \in Containers :
    /\ Taken(e, c)
    /\ Hold(e, c, "look up")
    /\ UNCHANGED <<count, faults>>

\* Nothing was captured, or the cgroup is in no container the index knows (it
\* may be five seconds old), or the API answers the question with an error.
TakeUnidentified ==
  \E e \in Event, capture \in {"invalid", "cgroup only"} :
    /\ Taken(e, capture)
    /\ Settle("identity_missing")
    /\ UNCHANGED faults

\* The index of cgroup directories names the container; nothing is cached.
TakeIndexed ==
  \E e \in Event :
    /\ Taken(e, "cgroup only") /\ e.cgroup \in Unscoped
    /\ Gate(e, e.cgroup, Answer(e.cgroup))
    /\ UNCHANGED faults

\* ... or the API cannot be reached, which the attributor does not catch.
TakeIndexedRaises ==
  \E e \in Event :
    /\ Taken(e, "cgroup only") /\ e.cgroup \in Unscoped /\ Fault
    /\ Settle("error")

LookUpHit ==
  /\ pc = "look up" /\ identities[Holding] # "absent"
  /\ Gate(hand[1].event, Holding, identities[Holding])
  /\ UNCHANGED <<node, kernel, captures, queue, identities, verdict, faults, posted>>

Ask(v) ==
  /\ pc' = "store"
  /\ verdict' = v
  /\ UNCHANGED <<node, kernel, captures, queue, identities, hand, count, posted>>

LookUpMiss ==
  /\ pc = "look up" /\ identities[Holding] = "absent"
  /\ Ask(Answer(Holding))
  /\ UNCHANGED faults

\* Redis does not answer, which counts as a miss, or the API then answers with
\* an error, which counts as a missing container and is stored like one.
LookUpFails ==
  /\ pc = "look up" /\ Fault
  /\ Ask(Answer(Holding)) \/ Ask("missing")

\* The API cannot be reached: the exception ends the handling of this event.
LookUpRaises ==
  /\ pc = "look up" /\ Fault
  /\ Settle("error")
  /\ UNCHANGED <<node, kernel, captures, queue, identities, verdict, posted>>

Store ==
  /\ pc = "store"
  /\ identities' = [identities EXCEPT ![Holding] = verdict]
  /\ Gate(hand[1].event, Holding, verdict)
  /\ UNCHANGED <<node, kernel, captures, queue, verdict, faults, posted>>

StoreFails ==
  /\ pc = "store" /\ Fault
  /\ Gate(hand[1].event, Holding, verdict)
  /\ UNCHANGED <<node, kernel, captures, queue, identities, verdict, posted>>

Post ==
  /\ pc = "post"
  /\ posted' = Append(posted, PostOf(hand[1]))
  /\ Settle("dispatched")
  /\ UNCHANGED <<node, kernel, captures, queue, identities, verdict, faults>>

\* dispatch_event returns False, whether or not the gateway got the event; the
\* result is ignored.
PostFails ==
  /\ pc = "post" /\ Fault
  /\ posted' \in {posted, Append(posted, PostOf(hand[1]))}
  /\ Settle("dispatched")
  /\ UNCHANGED <<node, kernel, captures, queue, identities, verdict>>

-----------------------------------------------------------------------------
\* The TTL of an entry in Redis is over.
Expire(c) ==
  /\ identities[c] # "absent"
  /\ identities' = [identities EXCEPT ![c] = "absent"]
  /\ UNCHANGED <<node, kernel, captures, queue, pc, hand, verdict, count, faults, posted>>

\* The agent dies, or the loop raises and the processor is cancelled: what it
\* had in memory is gone, with the maps of its programs.  Its pod starts again.
Restart ==
  /\ Fault
  /\ ring' = <<>> /\ queue' = <<>>
  /\ captures' = [i \in Ids |-> "absent"]
  /\ pc' = "get" /\ hand' = <<>>
  /\ count' = [s \in Stages |-> 0]
  /\ \/ UNCHANGED posted
     \/ pc = "post" /\ posted' = Append(posted, PostOf(hand[1]))
  /\ UNCHANGED <<node, made, origin, identities, verdict>>

Process ==
  \/ TakeNamed \/ TakeUnidentified \/ TakeIndexed
  \/ LookUpHit \/ LookUpMiss \/ Store \/ Post

Misfortune ==
  TakeIndexedRaises \/ LookUpFails \/ LookUpRaises \/ StoreFails \/ PostFails \/ Restart

Next ==
  \/ \E p \in Pids :
       \/ \E g \in Cgroups : Spawn(p, g)
       \/ \E c \in Containers : Join(p, c)
       \/ ProcessExits(p) \/ Exec(p)
  \/ \E c \in Containers : Report(c) \/ Expire(c)
  \/ Callback \/ Process \/ Misfortune

\* The event loop polls the ring buffer and runs the processor; calls end or time
\* out.  Nothing is assumed of processes, containers, TTLs and the API's reports.
Spec == Init /\ [][Next]_vars /\ WF_vars(Callback) /\ WF_vars(Process)

-----------------------------------------------------------------------------
(* Properties *)

IdsIn(events) == {events[i].id : i \in DOMAIN events}

\* The captures are those of the queued events, one each: none is missing when
\* the processor looks for it, and none outlives its event and fills the memory.
CapturesMatchQueue ==
  {i \in Ids : captures[i] # "absent"} = IdsIn(queue)

\* An event is posted under the container it came from, one that the API has
\* reported as running, although the process may be gone, its pid reused by
\* another container and the attribution older than the event.
PostsNameTheirContainer ==
  \A i \in DOMAIN posted :
    LET c == posted[i].container
    IN /\ c = origin[posted[i].id]
       /\ c \in Watched \ Digestless
       /\ reported[c] # "waiting"

\* Events reach the gateway in the order they happened, each once at most, across
\* full queues, failed posts and restarts.
PostedInOrder ==
  \A i, j \in DOMAIN posted : i < j => posted[i].id < posted[j].id

\* The counters of the agent add up: what was emitted is in the ring buffer,
\* lost or received, and what was queued is in the queue, in hand or settled in
\* one way - "error" being the one the code does not count.
CountersAddUp ==
  /\ count["emitted"] = count["reserve_failed"] + Len(ring) + count["received"]
  /\ count["received"] = count["queued"] + count["queue_full"]
  /\ count["queued"] = Len(queue) + Len(hand) + count["identity_missing"]
       + count["namespace_filtered"] + count["dispatched"] + count["error"]

\* Every event is accounted for: by the counters, by the captures that go with the
\* queue, and by posts none of which is repeated or overtaken, across full queues,
\* failed calls and restarts.
RecordsAccounted == CountersAddUp /\ CapturesMatchQueue /\ PostedInOrder

\* No event stays in the agent: it is posted, dropped or lost in a restart, and
\* one that fails does not keep the others.
EveryEventLeaves ==
  LET Inside == IdsIn(ring) \cup IdsIn(queue) \cup {hand[i].event.id : i \in DOMAIN hand}
  IN \A i \in Ids : (i \in Inside) ~> (i \notin Inside)
=============================================================================
