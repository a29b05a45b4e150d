--------------------------- MODULE EbpfAgentProofs ---------------------------
(***************************************************************************)
(* The agent accounts for every record, posts in order and names the       *)
(* container an event came from, for any node, sizes of its buffers, and   *)
(* faults.  Two invariants carry it: the records inside the agent stand in *)
(* line by id from the ring buffer to the gateway, and what is known of an *)
(* event's container was true of its cgroup at some time, which is for     *)
(* ever, as a cgroup id is never given to another container.               *)
(***************************************************************************)
EXTENDS EbpfAgent, SequenceTheorems, TLAPS

\* Along the sequence the ids rise.
Rising(s) == \A i, j \in DOMAIN s : i < j => s[i].id < s[j].id

Below(A, B) == \A a \in A, b \in B : a < b

LEMMA AppendIds ==
  ASSUME NEW R, NEW s \in Seq(R), NEW e \in R
  PROVE  /\ Append(s, e) \in Seq(R) /\ Len(Append(s, e)) = Len(s) + 1
         /\ IdsIn(Append(s, e)) = IdsIn(s) \cup {e.id}
         /\ Rising(s) /\ Below(IdsIn(s), {e.id}) => Rising(Append(s, e))
<1> DEFINE t == Append(s, e)
<1>1. /\ t \in Seq(R) /\ Len(t) = Len(s) + 1 /\ Len(s) \in Nat
      /\ \A i \in 1 .. Len(s) : t[i] = s[i]
      /\ t[Len(s) + 1] = e
      /\ DOMAIN t = 1 .. Len(s) + 1 /\ DOMAIN s = 1 .. Len(s)
  OBVIOUS
<1> HIDE DEF t
<1>2. IdsIn(t) = IdsIn(s) \cup {e.id}
  <2>1. \A i \in DOMAIN t : i \in DOMAIN s \/ i = Len(s) + 1
    BY <1>1
  <2>2. \A i \in DOMAIN s : i \in DOMAIN t
    BY <1>1
  <2>3. Len(s) + 1 \in DOMAIN t
    BY <1>1
  <2>4. QED
    BY <1>1, <2>1, <2>2, <2>3 DEF IdsIn
<1>3. ASSUME Rising(s), Below(IdsIn(s), {e.id}), NEW i \in DOMAIN t, NEW j \in DOMAIN t, i < j
      PROVE  t[i].id < t[j].id
  <2>1. i \in DOMAIN s /\ t[i] = s[i]
    BY <1>1, <1>3
  <2>2. CASE j \in DOMAIN s
    BY <1>1, <1>3, <2>1, <2>2 DEF Rising
  <2>3. CASE j = Len(s) + 1
    BY <1>1, <1>3, <2>1, <2>3 DEF Below, IdsIn
  <2>4. QED
    BY <1>1, <2>2, <2>3
<1>4. QED
  BY <1>1, <1>2, <1>3 DEF t, Rising

LEMMA TailIds ==
  ASSUME NEW R, NEW s \in Seq(R), s # <<>>
  PROVE  /\ Tail(s) \in Seq(R) /\ Head(s) \in R /\ Len(Tail(s)) = Len(s) - 1
         /\ IdsIn(s) = {Head(s).id} \cup IdsIn(Tail(s))
         /\ Rising(s) => Rising(Tail(s)) /\ Below({Head(s).id}, IdsIn(Tail(s)))
<1> DEFINE t == Tail(s)
<1>1. /\ t \in Seq(R) /\ Len(t) = Len(s) - 1 /\ Len(s) \in Nat /\ Len(s) >= 1
      /\ Head(s) = s[1] /\ Head(s) \in R
      /\ \A i \in 1 .. Len(s) - 1 : t[i] = s[i + 1]
      /\ DOMAIN t = 1 .. Len(s) - 1 /\ DOMAIN s = 1 .. Len(s)
  OBVIOUS
<1> HIDE DEF t
<1>2. IdsIn(s) = {Head(s).id} \cup IdsIn(t)
  <2>1. \A i \in DOMAIN s : i = 1 \/ (i - 1 \in DOMAIN t /\ s[i] = t[i - 1])
    BY <1>1
  <2>2. \A i \in DOMAIN t : i + 1 \in DOMAIN s /\ t[i] = s[i + 1]
    BY <1>1
  <2>3. 1 \in DOMAIN s
    BY <1>1
  <2>4. \A x \in IdsIn(s) : x \in {Head(s).id} \cup IdsIn(t)
    BY <1>1, <2>1 DEF IdsIn
  <2>5. \A x \in {Head(s).id} \cup IdsIn(t) : x \in IdsIn(s)
    BY <1>1, <2>2, <2>3 DEF IdsIn
  <2>6. QED
    BY <2>4, <2>5
<1>3. ASSUME Rising(s)
      PROVE  Rising(t) /\ Below({Head(s).id}, IdsIn(t))
  <2>1. \A i \in DOMAIN t : i + 1 \in DOMAIN s /\ t[i] = s[i + 1] /\ 1 < i + 1 /\ 1 \in DOMAIN s
    BY <1>1
  <2>2. \A i, j \in DOMAIN t : i < j => i + 1 < j + 1
    BY <1>1
  <2>3. Rising(t)
    BY <1>3, <2>1, <2>2 DEF Rising
  <2>4. Below({Head(s).id}, IdsIn(t))
    <3>1. \A i \in DOMAIN t : s[1].id < t[i].id
      BY <1>3, <2>1 DEF Rising
    <3>2. QED
      BY <1>1, <3>1 DEF Below, IdsIn
  <2>5. QED
    BY <2>3, <2>4
<1>4. QED
  BY <1>1, <1>2, <1>3 DEF t

LEMMA CountedTyped ==
  ASSUME NEW S, count \in [Stages -> Nat]
  PROVE  /\ Counted(S) \in [Stages -> Nat]
         /\ \A s \in Stages : Counted(S)[s] = count[s] + IF s \in S THEN 1 ELSE 0
BY DEF Counted

-----------------------------------------------------------------------------
(* What the processor does with an event *)

Outcomes == {"identity_missing", "namespace_filtered", "dispatched", "error"}
Held == [event : Event, container : Containers]

\* There is an event in hand unless the processor waits for one.
HandMatchesPc ==
  \/ pc = "get" /\ hand = <<>>
  \/ pc # "get" /\ hand # <<>>

Settles == \E st \in Outcomes : pc' = "get" /\ hand' = <<>> /\ count' = Counted({st})
Keeps(h) == pc' \in {"look up", "store", "post"} /\ hand' = <<h>> /\ count' = count

\* It takes the next event, with its capture ...
TakeStep ==
  /\ pc = "get" /\ queue # <<>>
  /\ queue' = Tail(queue)
  /\ captures' = [captures EXCEPT ![Head(queue).id] = "absent"]
  /\ posted' = posted
  /\ Settles \/ \E c \in Containers : Keeps([event |-> Head(queue), container |-> c])

\* ... or goes on with the one it has; only an event that is settled is posted.
HandStep ==
  /\ pc # "get" /\ UNCHANGED <<queue, captures>>
  /\ \/ posted' = posted /\ (Settles \/ Keeps(hand[1]))
     \/ posted' = Append(posted, PostOf(hand[1])) /\ Settles

\* The types in portions the provers can take.
LEMMA SequenceTypes ==
  ASSUME TypeOK
  PROVE  /\ ring \in Seq(Event) /\ queue \in Seq(Event)
         /\ Len(ring) \in Nat /\ Len(queue) \in Nat
         /\ Len(ring) <= RingSize /\ Len(queue) <= QueueSize
<1>1. /\ ring \in Seq(Event) /\ queue \in Seq(Event)
      /\ Len(ring) <= RingSize /\ Len(queue) <= QueueSize
  BY DEF TypeOK
<1>2. QED
  BY <1>1

LEMMA HistoryTypes ==
  ASSUME TypeOK
  PROVE  /\ made \in 0 .. MaxEvents /\ faults \in 0 .. MaxFaults
         /\ posted \in Seq([id : Ids, container : Containers])
         /\ count \in [Stages -> Nat]
BY DEF TypeOK

LEMMA SizesTyped ==
  RingSize \in Nat \ {0} /\ QueueSize \in Nat \ {0} /\ MaxEvents \in Nat \ {0} /\ MaxFaults \in Nat
BY SizesAssumption

LEMMA HandIsOne ==
  ASSUME TypeOK, hand # <<>>
  PROVE  hand[1] \in Held /\ hand = <<hand[1]>>
<1>1. hand \in Seq(Held) /\ Len(hand) <= 1
  BY DEF TypeOK, Held
<1>2. QED
  BY <1>1

\* A fault is counted up to the bound.
LEMMA FaultsTyped ==
  ASSUME TypeOK, Fault \/ UNCHANGED faults
  PROVE  faults' \in 0 .. MaxFaults
BY HistoryTypes, SizesTyped DEF Fault

\* An event that is in hand may be posted.
LEMMA PostTyped ==
  ASSUME TypeOK, hand # <<>>
  PROVE  /\ PostOf(hand[1]) \in [id : Ids, container : Containers]
         /\ Append(posted, PostOf(hand[1])) \in Seq([id : Ids, container : Containers])
<1>1. PostOf(hand[1]) \in [id : Ids, container : Containers]
  BY HandIsOne DEF Held, PostOf, Event
<1>2. QED
  BY <1>1, HistoryTypes

LEMMA GateDecides ==
  ASSUME NEW e, NEW c, NEW v, Gate(e, c, v)
  PROVE  Settles \/ Keeps([event |-> e, container |-> c])
BY DEF Gate, Settle, Hold, Settles, Keeps, Outcomes

LEMMA ProcessorStep ==
  ASSUME TypeOK, HandMatchesPc, (Process \/ Misfortune) /\ ~Restart
  PROVE  (TakeStep \/ HandStep) /\ UNCHANGED <<node, kernel>>
<1>1. CASE TakeNamed \/ TakeUnidentified \/ TakeIndexed \/ TakeIndexedRaises
  <2>1. PICK e \in Event : \E capture : Taken(e, capture)
    BY <1>1 DEF TakeNamed, TakeUnidentified, TakeIndexed, TakeIndexedRaises
  <2>2. Settles \/ \E c \in Containers : Keeps([event |-> Head(queue), container |-> c])
    <3>1. CASE TakeNamed
      BY <3>1 DEF TakeNamed, Taken, Hold, Keeps
    <3>2. CASE TakeUnidentified \/ TakeIndexedRaises
      BY <3>2 DEF TakeUnidentified, TakeIndexedRaises, Settle, Settles, Outcomes
    <3>3. CASE TakeIndexed
      BY <3>3, GateDecides, ContainersAssumption DEF TakeIndexed, Taken
    <3>4. QED
      BY <1>1, <3>1, <3>2, <3>3
  <2>3. QED
    BY <2>1, <2>2 DEF Taken, TakeStep
<1>2. CASE LookUpHit \/ LookUpMiss \/ LookUpFails \/ LookUpRaises \/ Store \/ StoreFails
  <2>1. pc # "get" /\ UNCHANGED <<node, kernel, queue, captures, posted>>
    BY <1>2 DEF LookUpHit, LookUpMiss, LookUpFails, LookUpRaises, Store, StoreFails, Ask
  <2>2. hand[1] = [event |-> hand[1].event, container |-> hand[1].container] /\ hand = <<hand[1]>>
    BY <2>1, HandIsOne DEF HandMatchesPc, Held
  <2>3. Settles \/ Keeps(hand[1])
    <3>1. CASE LookUpMiss \/ LookUpFails
      BY <2>2, <3>1 DEF LookUpMiss, LookUpFails, Ask, Keeps
    <3>2. CASE LookUpRaises
      BY <3>2 DEF LookUpRaises, Settle, Settles, Outcomes
    <3>3. CASE LookUpHit \/ Store \/ StoreFails
      BY <2>2, <3>3, GateDecides DEF LookUpHit, Store, StoreFails, Holding
    <3>4. QED
      BY <1>2, <3>1, <3>2, <3>3
  <2>4. QED
    BY <2>1, <2>3 DEF HandStep
<1>3. CASE Post \/ PostFails
  BY <1>3 DEF Post, PostFails, HandStep, Settle, Settles, Outcomes
<1>4. QED
  BY <1>1, <1>2, <1>3 DEF Process, Misfortune

-----------------------------------------------------------------------------
(* Types *)

AgentTyped == TypeOK /\ HandMatchesPc

LEMMA EmptyTyped == \A R : <<>> \in Seq(R) /\ Len(<<>>) = 0
OBVIOUS

LEMMA OneTyped ==
  ASSUME NEW R, NEW h \in R
  PROVE  <<h>> \in Seq(R) /\ Len(<<h>>) <= 1 /\ <<h>> # <<>>
OBVIOUS

LEMMA AgentTypingStep ==
  ASSUME AgentTyped, [Next]_vars
  PROVE  AgentTyped'
<1> USE DEF AgentTyped
<1>1. CASE UNCHANGED vars
  BY <1>1 DEF vars, node, kernel, TypeOK, HandMatchesPc
<1>2. ASSUME NEW p \in Pids,
             \/ \E g \in Cgroups : Spawn(p, g)
             \/ \E c \in Containers : Join(p, c)
             \/ ProcessExits(p)
      PROVE  AgentTyped'
  BY <1>2 DEF Spawn, Join, ProcessExits, kernel, TypeOK, HandMatchesPc, Cgroups
<1>3. ASSUME NEW p \in Pids, Exec(p)
      PROVE  AgentTyped'
  <2>1. made + 1 \in Ids /\ made' = made + 1 /\ proc[p] \in Cgroups
    <3>1. proc[p] \in Cgroups
      BY <1>3 DEF Exec, TypeOK
    <3>2. QED
      BY <1>3, <3>1, HistoryTypes, SizesTyped DEF Exec, Ids
  <2>2. [id |-> made', pid |-> p, cgroup |-> proc[p]] \in Event
    BY <2>1 DEF Event
  <2>3. ring' \in Seq(Event) /\ Len(ring') <= RingSize /\ count' \in [Stages -> Nat]
    <3>1. Record([id |-> made', pid |-> p, cgroup |-> proc[p]])
      BY <1>3 DEF Exec
    <3>2. count' \in [Stages -> Nat]
      BY <3>1, HistoryTypes, CountedTyped DEF Record
    <3>3. CASE Len(ring) < RingSize
      <4> DEFINE e == [id |-> made', pid |-> p, cgroup |-> proc[p]]
      <4>1. e \in Event /\ ring' = Append(ring, e)
        BY <2>2, <3>1, <3>3 DEF Record
      <4> HIDE DEF e
      <4>2. ring' \in Seq(Event) /\ Len(ring') = Len(ring) + 1
        BY <4>1, SequenceTypes, AppendIds
      <4>3. QED
        BY <3>2, <3>3, <4>2, SequenceTypes, SizesTyped
    <3>4. CASE ~ (Len(ring) < RingSize)
      BY <3>1, <3>2, <3>4, SequenceTypes DEF Record
    <3>5. QED
      BY <3>3, <3>4
  <2>4. origin' \in [Ids -> Cgroups] /\ made' \in 0 .. MaxEvents
    <3>1. origin \in [Ids -> Cgroups] /\ origin' = [origin EXCEPT ![made'] = proc[p]]
      BY <1>3 DEF Exec, TypeOK
    <3>2. QED
      BY <2>1, <3>1, SizesTyped DEF Ids
  <2>5. UNCHANGED <<node, captures, queue, identities, pc, hand, verdict, faults, posted>>
    BY <1>3 DEF Exec
  <2>6. QED
    BY <2>3, <2>4, <2>5 DEF node, TypeOK, HandMatchesPc
<1>4. ASSUME NEW c \in Containers, Report(c) \/ Expire(c)
      PROVE  AgentTyped'
  BY <1>4 DEF Report, Expire, node, kernel, TypeOK, HandMatchesPc
<1>5. CASE Callback
  <2>1. Head(ring) \in Event /\ ring' \in Seq(Event) /\ Len(ring') = Len(ring) - 1 /\ Len(ring) \in Nat
    BY <1>5, TailIds, SequenceTypes DEF Callback
  <2>2. Head(ring).id \in Ids /\ Look(Head(ring)) \in Captures
    BY <2>1, ContainersAssumption DEF Event, Look, Captures, TypeOK, Cgroups
  <2>3. /\ queue' \in Seq(Event) /\ Len(queue') <= QueueSize
        /\ captures' \in [Ids -> Captures \cup {"absent"}]
        /\ count' \in [Stages -> Nat]
    <3>1. captures \in [Ids -> Captures \cup {"absent"}]
      BY DEF TypeOK
    <3>2. CASE Enqueue(Head(ring))
      <4>1. queue' \in Seq(Event) /\ Len(queue') <= QueueSize
        BY <2>1, <3>2, AppendIds, SequenceTypes, SizesTyped DEF Enqueue
      <4>2. captures' \in [Ids -> Captures \cup {"absent"}]
        BY <2>2, <3>1, <3>2 DEF Enqueue
      <4>3. QED
        BY <3>2, <4>1, <4>2, HistoryTypes, CountedTyped DEF Enqueue
    <3>3. CASE Overflow(Head(ring))
      BY <3>1, <3>3, HistoryTypes, CountedTyped, SequenceTypes DEF Overflow
    <3>4. QED
      BY <1>5, <3>2, <3>3 DEF Callback
  <2>4. Len(ring') <= RingSize
    BY <2>1, SequenceTypes, SizesTyped
  <2>5. QED
    BY <1>5, <2>1, <2>3, <2>4 DEF Callback, node, TypeOK, HandMatchesPc
<1>6. CASE Restart
  <2>1. posted' \in Seq([id : Ids, container : Containers])
    <3>1. CASE posted' = posted
      BY <3>1 DEF TypeOK
    <3>2. CASE pc = "post" /\ posted' = Append(posted, PostOf(hand[1]))
      BY <3>2, PostTyped DEF HandMatchesPc
    <3>3. QED
      BY <1>6, <3>1, <3>2 DEF Restart
  <2>2. faults' \in 0 .. MaxFaults
    BY <1>6, FaultsTyped DEF Restart
  <2>3. Len(ring') <= RingSize /\ Len(queue') <= QueueSize /\ Len(hand') <= 1
        /\ ring' \in Seq(Event) /\ queue' \in Seq(Event)
        /\ hand' \in Seq([event : Event, container : Containers])
    BY <1>6, EmptyTyped, SizesAssumption DEF Restart
  <2>4. QED
    BY <1>6, <2>1, <2>2, <2>3 DEF Restart, node, TypeOK, HandMatchesPc
<1>7. CASE (Process \/ Misfortune) /\ ~Restart
  <2>1. (TakeStep \/ HandStep) /\ UNCHANGED <<node, kernel>>
    BY <1>7, ProcessorStep
  <2>2. faults' \in 0 .. MaxFaults
    BY <1>7, FaultsTyped
    DEF Process, Misfortune, TakeNamed, TakeUnidentified, TakeIndexed, Taken,
        TakeIndexedRaises, LookUpHit, LookUpMiss, LookUpFails, LookUpRaises, Store, StoreFails,
        Post, PostFails
  <2>3. verdict' \in Verdicts
    BY <1>7
    DEF Process, Misfortune, TypeOK, TakeNamed, TakeUnidentified, TakeIndexed, Taken, Ask,
        TakeIndexedRaises, LookUpHit, LookUpMiss, LookUpFails, LookUpRaises, Store, StoreFails,
        Post, PostFails, Answer, Verdicts
  <2>4. identities' \in [Containers -> {"absent"} \cup Verdicts]
    BY <1>7
    DEF Process, Misfortune, TypeOK, TakeNamed, TakeUnidentified, TakeIndexed, Taken, Ask,
        TakeIndexedRaises, LookUpHit, LookUpMiss, LookUpFails, LookUpRaises, Store, StoreFails,
        Post, PostFails
  <2>5. queue' \in Seq(Event) /\ Len(queue') <= QueueSize
        /\ captures' \in [Ids -> Captures \cup {"absent"}]
    <3>1. CASE TakeStep
      <4>1. Tail(queue) \in Seq(Event) /\ Len(Tail(queue)) = Len(queue) - 1 /\ Len(queue) \in Nat
        BY <3>1, TailIds, SequenceTypes DEF TakeStep
      <4>2. captures \in [Ids -> Captures \cup {"absent"}]
        BY DEF TypeOK
      <4>3. Len(queue') <= QueueSize
        BY <3>1, <4>1, SequenceTypes, SizesTyped DEF TakeStep
      <4>4. captures' \in [Ids -> Captures \cup {"absent"}]
        BY <3>1, <4>2 DEF TakeStep
      <4>5. QED
        BY <3>1, <4>1, <4>3, <4>4 DEF TakeStep
    <3>2. CASE HandStep
      <4>1. captures \in [Ids -> Captures \cup {"absent"}]
        BY DEF TypeOK
      <4>2. QED
        BY <3>2, <4>1, SequenceTypes DEF HandStep
    <3>3. QED
      BY <2>1, <3>1, <3>2
  <2>6. /\ \/ hand' = <<>> /\ pc' = "get"
           \/ (\E h \in Held : hand' = <<h>>) /\ pc' \in {"look up", "store", "post"}
        /\ count' \in [Stages -> Nat]
    <3>1. Settles \/ \E h \in Held : Keeps(h)
      <4>1. CASE TakeStep
        <5>1. Head(queue) \in Event
          BY <4>1, TailIds, SequenceTypes DEF TakeStep
        <5>2. QED
          BY <4>1, <5>1 DEF TakeStep, Held
      <4>2. CASE HandStep
        BY <4>2, HandIsOne DEF HandStep, HandMatchesPc
      <4>3. QED
        BY <2>1, <4>1, <4>2
    <3>2. CASE Settles
      BY <3>2, CountedTyped, HistoryTypes DEF Settles
    <3>3. CASE \E h \in Held : Keeps(h)
      BY <3>3, HistoryTypes DEF Keeps
    <3>4. QED
      BY <3>1, <3>2, <3>3
  <2>7. hand' \in Seq(Held) /\ Len(hand') <= 1 /\ HandMatchesPc'
    <3>1. CASE hand' = <<>> /\ pc' = "get"
      BY <3>1, EmptyTyped DEF HandMatchesPc
    <3>2. ASSUME NEW h \in Held, hand' = <<h>>, pc' \in {"look up", "store", "post"}
          PROVE  hand' \in Seq(Held) /\ Len(hand') <= 1 /\ HandMatchesPc'
      <4>1. <<h>> \in Seq(Held) /\ Len(<<h>>) <= 1 /\ <<h>> # <<>>
        BY OneTyped
      <4>2. hand' \in Seq(Held) /\ Len(hand') <= 1 /\ hand' # <<>>
        BY Zenon, <3>2, <4>1
      <4>3. QED
        BY <3>2, <4>2 DEF HandMatchesPc
    <3>3. QED
      BY <2>6, <3>1, <3>2
  <2>8. posted' \in Seq([id : Ids, container : Containers])
    <3>1. CASE posted' = posted
      BY <3>1 DEF TypeOK
    <3>2. CASE pc # "get" /\ posted' = Append(posted, PostOf(hand[1]))
      BY <3>2, PostTyped DEF HandMatchesPc
    <3>3. QED
      BY <2>1, <3>1, <3>2 DEF TakeStep, HandStep
  <2>9. QED
    BY <2>1, <2>2, <2>3, <2>4, <2>5, <2>6, <2>7, <2>8 DEF TypeOK, Held, node, kernel
<1>8. QED
  BY <1>1, <1>2, <1>3, <1>4, <1>5, <1>6, <1>7 DEF Next, Misfortune

-----------------------------------------------------------------------------
(* The records stand in line *)

InHand == {hand[i].event.id : i \in DOMAIN hand}
Seen == IdsIn(posted) \cup InHand \cup IdsIn(queue) \cup IdsIn(ring)

\* From the gateway back to the kernel ids only rise, and the next is larger still.
InLine ==
  /\ Rising(posted) /\ Rising(queue) /\ Rising(ring)
  /\ Below(IdsIn(posted), InHand \cup IdsIn(queue) \cup IdsIn(ring))
  /\ Below(InHand, IdsIn(queue) \cup IdsIn(ring))
  /\ Below(IdsIn(queue), IdsIn(ring))
  /\ \A i \in Seen : i \in Ids /\ i <= made

AccountInv == AgentTyped /\ CountersAddUp /\ InLine /\ CapturesMatchQueue

LEMMA NoIds == IdsIn(<<>>) = {} /\ Rising(<<>>)
BY DEF IdsIn, Rising

LEMMA HandIds ==
  ASSUME TypeOK
  PROVE  /\ hand = <<>> => InHand = {} /\ Len(hand) = 0
         /\ hand # <<>> => InHand = {hand[1].event.id} /\ Len(hand) = 1
         /\ hand' = <<>> => InHand' = {} /\ Len(hand') = 0
         /\ \A h : hand' = <<h>> => InHand' = {h.event.id} /\ Len(hand') = 1
<1>1. \A h : Len(<<h>>) = 1 /\ DOMAIN <<h>> = {1} /\ <<h>>[1] = h
  OBVIOUS
<1>2. hand # <<>> => hand = <<hand[1]>>
  BY HandIsOne
<1>3. hand = <<>> => InHand = {} /\ Len(hand) = 0
  BY DEF InHand
<1>4. hand' = <<>> => InHand' = {} /\ Len(hand') = 0
  BY DEF InHand
<1>5. hand # <<>> => DOMAIN hand = {1} /\ Len(hand) = 1
  BY <1>1, <1>2
<1>6. hand # <<>> => InHand = {hand[1].event.id}
  BY <1>5 DEF InHand
<1>7. ASSUME NEW h, hand' = <<h>>
      PROVE  InHand' = {h.event.id} /\ Len(hand') = 1
  <2>1. DOMAIN hand' = {1} /\ hand'[1] = h /\ Len(hand') = 1
    BY <1>1, <1>7
  <2>2. QED
    BY <2>1 DEF InHand
<1>8. QED
  BY <1>3, <1>4, <1>5, <1>6, <1>7

\* What a step does to the line is one of these.
LEMMA LineKept ==
  ASSUME InLine, Seen \subseteq Int, made \in Int, made' \in Int, made <= made',
         Rising(posted)', Rising(queue)', Rising(ring)',
         IdsIn(posted)' \subseteq IdsIn(posted) \cup InHand,
         IdsIn(posted)' # IdsIn(posted) => InHand' = {},
         InHand' \subseteq InHand \cup IdsIn(queue),
         Below(InHand', IdsIn(queue)'),
         IdsIn(queue)' \subseteq IdsIn(queue) \cup IdsIn(ring),
         Below(IdsIn(queue)', IdsIn(ring)'),
         IdsIn(ring)' \subseteq IdsIn(ring)
  PROVE  InLine'
<1> DEFINE P == IdsIn(posted) H == InHand Q == IdsIn(queue) R == IdsIn(ring)
           p == IdsIn(posted)' h == InHand' q == IdsIn(queue)' r == IdsIn(ring)'
<1>1. Below(P, H \cup Q \cup R) /\ Below(H, Q \cup R) /\ Below(Q, R)
  BY DEF InLine
<1>2. \A i \in P \cup H \cup Q \cup R : i \in Ids /\ i <= made /\ i \in Int
  BY DEF InLine, Seen
<1>3. p \subseteq P \cup H /\ (p # P => h = {}) /\ h \subseteq H \cup Q /\ Below(h, q)
      /\ q \subseteq Q \cup R /\ Below(q, r) /\ r \subseteq R
  OBVIOUS
<1> HIDE DEF P, H, Q, R, p, h, q, r
<1>4. Below(h, q \cup r)
  BY <1>1, <1>3 DEF Below
<1>5. Below(p, h \cup q \cup r)
  <2>1. CASE p = P
    BY <1>1, <1>3, <2>1 DEF Below
  <2>2. CASE h = {}
    BY <1>1, <1>3, <2>2 DEF Below
  <2>3. QED
    BY <1>3, <2>1, <2>2
<1>6. \A i \in p \cup h \cup q \cup r : i \in Ids /\ i <= made'
  BY <1>2, <1>3
<1>7. Below(q, r)
  BY <1>3
<1>8. QED
  BY <1>4, <1>5, <1>6, <1>7 DEF InLine, Seen, p, h, q, r

\* An event in the kernel is the last of the line.
LEMMA LineGrows ==
  ASSUME InLine, made \in Int, made' = made + 1, made' \in Ids,
         Rising(posted)', Rising(queue)', Rising(ring)',
         IdsIn(posted)' = IdsIn(posted), InHand' = InHand, IdsIn(queue)' = IdsIn(queue),
         IdsIn(ring)' \subseteq IdsIn(ring) \cup {made'}
  PROVE  InLine'
<1> DEFINE P == IdsIn(posted) H == InHand Q == IdsIn(queue) R == IdsIn(ring) r == IdsIn(ring)'
<1>1. Below(P, H \cup Q \cup R) /\ Below(H, Q \cup R) /\ Below(Q, R)
  BY DEF InLine
<1>2. \A i \in P \cup H \cup Q \cup R : i \in Ids /\ i <= made /\ i \in Int
  BY SizesTyped DEF InLine, Seen, Ids
<1>3. r \subseteq R \cup {made'}
  OBVIOUS
<1> HIDE DEF P, H, Q, R, r
<1>4. \A i \in P \cup H \cup Q : i < made'
  BY <1>2
<1>5. Below(P, H \cup Q \cup r) /\ Below(H, Q \cup r) /\ Below(Q, r)
  BY <1>1, <1>3, <1>4 DEF Below
<1>6. \A i \in P \cup H \cup Q \cup r : i \in Ids /\ i <= made'
  BY <1>2, <1>3
<1>7. QED
  BY <1>5, <1>6 DEF InLine, Seen, P, H, Q, R, r

-----------------------------------------------------------------------------
(* The counters add up *)

\* A step that puts nothing in the kernel, and settles the event it takes away.
LEMMA AddingKept ==
  ASSUME AgentTyped, CountersAddUp, Len(ring') = Len(ring), Len(ring) \in Nat, Len(queue) \in Nat,
         Len(hand) \in Nat, Len(queue') \in Nat, Len(hand') \in Nat, count' = count,
         Len(queue') + Len(hand') = Len(queue) + Len(hand)
  PROVE  CountersAddUp'
<1>1. \A s \in Stages : count[s] \in Nat
  BY HistoryTypes DEF AgentTyped
<1>2. QED
  BY <1>1 DEF CountersAddUp, Stages

LEMMA AddingSettled ==
  ASSUME AgentTyped, CountersAddUp, Len(ring') = Len(ring), Len(ring) \in Nat, Len(queue) \in Nat,
         Len(hand) \in Nat, Len(queue') \in Nat, Len(hand') \in Nat,
         NEW st \in Outcomes, count' = Counted({st}),
         Len(queue') + Len(hand') = Len(queue) + Len(hand) - 1
  PROVE  CountersAddUp'
<1>1. \A s \in Stages : count[s] \in Nat /\ count'[s] = count[s] + IF s = st THEN 1 ELSE 0
  BY CountedTyped, HistoryTypes DEF AgentTyped
<1>2. count'["emitted"] = count["emitted"] /\ count'["reserve_failed"] = count["reserve_failed"]
      /\ count'["received"] = count["received"] /\ count'["queued"] = count["queued"]
      /\ count'["queue_full"] = count["queue_full"]
  <2>1. ASSUME NEW s \in Stages, s \notin Outcomes
        PROVE  count'[s] = count[s]
    <3>1. count'[s] = count[s] + 0 /\ count[s] \in Nat
      BY <1>1, <2>1
    <3>2. QED
      BY <3>1
  <2>2. {"emitted", "reserve_failed", "received", "queued", "queue_full"} \subseteq Stages \ Outcomes
    BY DEF Stages, Outcomes
  <2> HIDE DEF Stages, Outcomes
  <2>3. QED
    BY <2>1, <2>2
<1>3. /\ count["identity_missing"] \in Nat /\ count["namespace_filtered"] \in Nat
      /\ count["dispatched"] \in Nat /\ count["error"] \in Nat
      /\ count'["identity_missing"] = count["identity_missing"] + IF "identity_missing" = st THEN 1 ELSE 0
      /\ count'["namespace_filtered"] = count["namespace_filtered"] + IF "namespace_filtered" = st THEN 1 ELSE 0
      /\ count'["dispatched"] = count["dispatched"] + IF "dispatched" = st THEN 1 ELSE 0
      /\ count'["error"] = count["error"] + IF "error" = st THEN 1 ELSE 0
  BY <1>1 DEF Stages
<1>4. count["queued"] \in Nat /\ count'["queued"] \in Nat
  BY <1>1, <1>2 DEF Stages
<1>5. count["queued"] = Len(queue) + Len(hand) + count["identity_missing"]
        + count["namespace_filtered"] + count["dispatched"] + count["error"]
  BY DEF CountersAddUp
<1>6. count'["queued"] = Len(queue') + Len(hand') + count'["identity_missing"]
        + count'["namespace_filtered"] + count'["dispatched"] + count'["error"]
  <2> DEFINE a == count["identity_missing"]
             b == count["namespace_filtered"]
             c == count["dispatched"]
             d == count["error"]
             n == count["queued"]
             w == Len(queue) + Len(hand)
             v == Len(queue') + Len(hand')
  <2>1. /\ a \in Nat /\ b \in Nat /\ c \in Nat /\ d \in Nat /\ n \in Nat
        /\ w \in Nat /\ v \in Nat /\ v = w - 1 /\ n = w + a + b + c + d
    <3>1. a \in Nat /\ b \in Nat /\ c \in Nat /\ d \in Nat /\ n \in Nat
      BY <1>3, <1>4
    <3>2. w \in Nat /\ v \in Nat /\ v = w - 1
      OBVIOUS
    <3>3. n = w + a + b + c + d
      BY <1>5
    <3>4. QED
      BY <3>1, <3>2, <3>3
  <2>2. /\ a' = a + IF "identity_missing" = st THEN 1 ELSE 0
        /\ b' = b + IF "namespace_filtered" = st THEN 1 ELSE 0
        /\ c' = c + IF "dispatched" = st THEN 1 ELSE 0
        /\ d' = d + IF "error" = st THEN 1 ELSE 0
    BY <1>3
  <2>3. a' + b' + c' + d' = a + b + c + d + 1 /\ a' + b' + c' + d' \in Int
    <3> HIDE DEF a, b, c, d
    <3>1. CASE st = "identity_missing"
      BY <2>1, <2>2, <3>1
    <3>2. CASE st = "namespace_filtered"
      BY <2>1, <2>2, <3>2
    <3>3. CASE st = "dispatched"
      BY <2>1, <2>2, <3>3
    <3>4. CASE st = "error"
      BY <2>1, <2>2, <3>4
    <3>5. QED
      BY <3>1, <3>2, <3>3, <3>4 DEF Outcomes
  <2>4. n = v + (a' + b' + c' + d')
    <3> DEFINE x == a' + b' + c' + d'
    <3>1. x = a + b + c + d + 1 /\ x \in Int
      BY <2>3
    <3> HIDE DEF a, b, c, d, n, w, v, x
    <3>2. n = v + x
      BY <2>1, <3>1
    <3>3. QED
      BY <3>2 DEF x
  <2>5. /\ a' \in Int /\ b' \in Int /\ c' \in Int /\ d' \in Int
        /\ Len(queue') \in Int /\ Len(hand') \in Int
    <3>1. Len(queue') \in Int /\ Len(hand') \in Int
      OBVIOUS
    <3> HIDE DEF a, b, c, d
    <3>2. a' \in Int /\ b' \in Int /\ c' \in Int /\ d' \in Int
      BY <2>1, <2>2
    <3>3. QED
      BY <3>1, <3>2
  <2>6. n' = n
    BY <1>2
  <2>7. n' = Len(queue') + Len(hand') + a' + b' + c' + d'
    <3> DEFINE p == Len(queue')
               q == Len(hand')
    <3>1. p \in Int /\ q \in Int /\ v = p + q
      OBVIOUS
    <3> HIDE DEF a, b, c, d, n, v, p, q
    <3>2. n' = (p + q) + (a' + b' + c' + d')
      BY <2>4, <2>6, <3>1
    <3>3. p + q + a' + b' + c' + d' = (p + q) + (a' + b' + c' + d')
      BY ONLY <2>5, <3>1
    <3>4. n' = p + q + a' + b' + c' + d'
      BY ONLY <3>2, <3>3
    <3>5. QED
      BY <3>4 DEF p, q
  <2>8. QED
    BY <2>7
<1>7. QED
  BY <1>2, <1>6 DEF CountersAddUp

-----------------------------------------------------------------------------
(* Every step *)

\* The kernel and the callback count before an event is in hand.
LEMMA EarlyCounters ==
  ASSUME AgentTyped, NEW S, count' = Counted(S), S \cap Outcomes = {}
  PROVE  /\ count["emitted"] \in Nat /\ count["reserve_failed"] \in Nat
         /\ count["received"] \in Nat /\ count["queued"] \in Nat /\ count["queue_full"] \in Nat
         /\ count["identity_missing"] \in Nat /\ count["namespace_filtered"] \in Nat
         /\ count["dispatched"] \in Nat /\ count["error"] \in Nat
         /\ count'["emitted"] = IF "emitted" \in S THEN count["emitted"] + 1 ELSE count["emitted"]
         /\ count'["reserve_failed"] =
              IF "reserve_failed" \in S THEN count["reserve_failed"] + 1 ELSE count["reserve_failed"]
         /\ count'["received"] = IF "received" \in S THEN count["received"] + 1 ELSE count["received"]
         /\ count'["queued"] = IF "queued" \in S THEN count["queued"] + 1 ELSE count["queued"]
         /\ count'["queue_full"] = IF "queue_full" \in S THEN count["queue_full"] + 1 ELSE count["queue_full"]
         /\ count'["identity_missing"] = count["identity_missing"]
         /\ count'["namespace_filtered"] = count["namespace_filtered"]
         /\ count'["dispatched"] = count["dispatched"]
         /\ count'["error"] = count["error"]
<1>1. \A s \in Stages : count[s] \in Nat /\ count'[s] = count[s] + IF s \in S THEN 1 ELSE 0
  BY CountedTyped, HistoryTypes DEF AgentTyped
<1>2. \A s \in Stages : count[s] \in Nat /\ count'[s] = IF s \in S THEN count[s] + 1 ELSE count[s]
  BY <1>1
<1>3. \A s \in Outcomes : s \in Stages /\ s \notin S
  BY DEF Outcomes, Stages
<1>4. QED
  BY <1>2, <1>3 DEF Outcomes, Stages

\* What early steps must balance.
One(s, S) == IF s \in S THEN 1 ELSE 0

Balanced(S) ==
  /\ count' = Counted(S) /\ S \cap Outcomes = {}
  /\ Len(ring') = Len(ring) + One("emitted", S) - One("reserve_failed", S) - One("received", S)
  /\ One("received", S) = One("queued", S) + One("queue_full", S)
  /\ Len(queue') = Len(queue) + One("queued", S)

LEMMA EarlyBalance ==
  ASSUME AgentTyped, CountersAddUp, NEW S, Balanced(S),
         Len(ring) \in Nat, Len(ring') \in Nat, Len(queue) \in Nat, Len(queue') \in Nat,
         Len(hand) \in Nat, Len(hand') = Len(hand)
  PROVE  CountersAddUp'
<1> DEFINE e == One("emitted", S)
           f == One("reserve_failed", S)
           r == One("received", S)
           q == One("queued", S)
           o == One("queue_full", S)
<1>0. /\ e \in Int /\ f \in Int /\ r \in Int /\ q \in Int /\ o \in Int
      /\ Len(ring') = Len(ring) + e - f - r /\ r = q + o /\ Len(queue') = Len(queue) + q
  BY DEF One, Balanced
<1>1. /\ count'["emitted"] = count["emitted"] + e /\ count'["reserve_failed"] = count["reserve_failed"] + f
      /\ count'["received"] = count["received"] + r /\ count'["queued"] = count["queued"] + q
      /\ count'["queue_full"] = count["queue_full"] + o
  BY EarlyCounters DEF One, Balanced
<1>2. /\ count'["identity_missing"] = count["identity_missing"]
      /\ count'["namespace_filtered"] = count["namespace_filtered"]
      /\ count'["dispatched"] = count["dispatched"] /\ count'["error"] = count["error"]
  BY EarlyCounters DEF Balanced
<1>3. /\ count["emitted"] \in Nat /\ count["reserve_failed"] \in Nat
      /\ count["received"] \in Nat /\ count["queued"] \in Nat /\ count["queue_full"] \in Nat
      /\ count["identity_missing"] \in Nat /\ count["namespace_filtered"] \in Nat
      /\ count["dispatched"] \in Nat /\ count["error"] \in Nat
  BY EarlyCounters DEF Balanced
<1>4. /\ count["emitted"] = count["reserve_failed"] + Len(ring) + count["received"]
      /\ count["received"] = count["queued"] + count["queue_full"]
      /\ count["queued"] = Len(queue) + Len(hand) + count["identity_missing"]
           + count["namespace_filtered"] + count["dispatched"] + count["error"]
  BY DEF CountersAddUp
<1> DEFINE ce == count["emitted"]
           cf == count["reserve_failed"]
           cr == count["received"]
           cq == count["queued"]
           co == count["queue_full"]
           c1 == count["identity_missing"]
           c2 == count["namespace_filtered"]
           c3 == count["dispatched"]
           c4 == count["error"]
           lr == Len(ring)
           lq == Len(queue)
           lh == Len(hand)
<1>5. /\ ce \in Int /\ cf \in Int /\ cr \in Int /\ cq \in Int /\ co \in Int
      /\ c1 \in Int /\ c2 \in Int /\ c3 \in Int /\ c4 \in Int
      /\ lr \in Int /\ lq \in Int /\ lh \in Int /\ lr' \in Int /\ lq' \in Int
  <2>1. ce \in Int /\ cf \in Int /\ cr \in Int /\ cq \in Int /\ co \in Int
    BY <1>3
  <2>2. c1 \in Int /\ c2 \in Int /\ c3 \in Int /\ c4 \in Int
    BY <1>3
  <2>3. lr \in Int /\ lq \in Int /\ lh \in Int /\ lr' \in Int /\ lq' \in Int
    OBVIOUS
  <2>4. QED
    BY <2>1, <2>2, <2>3
<1>6. ce = cf + lr + cr /\ cr = cq + co /\ cq = lq + lh + c1 + c2 + c3 + c4
  BY <1>4
<1>7. /\ ce' = ce + e /\ cf' = cf + f /\ cr' = cr + r /\ cq' = cq + q /\ co' = co + o
      /\ c1' = c1 /\ c2' = c2 /\ c3' = c3 /\ c4' = c4 /\ lh' = lh
      /\ lr' = lr + e - f - r /\ lq' = lq + q
  BY <1>0, <1>1, <1>2
<1>8. ce' = cf' + lr' + cr' /\ cr' = cq' + co' /\ cq' = lq' + lh' + c1' + c2' + c3' + c4'
  <2> HIDE DEF e, f, r, q, o, ce, cf, cr, cq, co, c1, c2, c3, c4, lr, lq, lh
  <2>1. ce' = cf' + lr' + cr'
    BY <1>0, <1>5, <1>6, <1>7
  <2>2. cr' = cq' + co'
    BY <1>0, <1>5, <1>6, <1>7
  <2>3. cq' = lq' + lh' + c1' + c2' + c3' + c4'
    BY <1>0, <1>5, <1>6, <1>7
  <2>4. QED
    BY <2>1, <2>2, <2>3
<1>9. QED
  BY <1>8 DEF CountersAddUp

LEMMA ExecAccounts ==
  ASSUME AccountInv, NEW p \in Pids, Exec(p)
  PROVE  CountersAddUp' /\ InLine' /\ CapturesMatchQueue'
<1> USE DEF AccountInv, AgentTyped
<1> DEFINE e == [id |-> made', pid |-> p, cgroup |-> proc[p]]
<1>1. Record(e) /\ made' = made + 1 /\ UNCHANGED <<captures, queue, hand, posted>>
  BY DEF Exec
<1>2. made' \in Ids /\ made \in Int /\ proc[p] \in Cgroups
  <2>1. proc[p] \in Cgroups
    BY DEF Exec, TypeOK
  <2>2. QED
    BY <2>1, HistoryTypes, SizesTyped DEF Exec, Ids
<1>3. e \in Event /\ e.id = made'
  BY <1>1, <1>2 DEF Event
<1> HIDE DEF e
<1>5. CASE Len(ring) < RingSize
  <2>1. ring' = Append(ring, e) /\ count' = Counted({"emitted"})
    BY <1>1, <1>5 DEF Record
  <2>2. Len(ring') = Len(ring) + 1 /\ IdsIn(ring') = IdsIn(ring) \cup {made'} /\ Len(ring) \in Nat
    BY <1>3, <2>1, SequenceTypes, AppendIds
  <2>3. Below(IdsIn(ring), {e.id}) /\ Rising(ring)
    <3>1. \A i \in IdsIn(ring) : i \in Int /\ i <= made
      BY SizesTyped DEF InLine, Seen, Ids
    <3>2. QED
      BY <1>1, <1>2, <1>3, <3>1 DEF Below, InLine
  <2>4. Rising(ring')
    BY <1>3, <2>1, <2>3, SequenceTypes, AppendIds
  <2>5. InLine'
    BY <1>1, <1>2, <2>2, <2>4, LineGrows DEF InLine, InHand
  <2>6. {"emitted"} \cap Outcomes = {}
    BY DEF Outcomes
  <2>7. CountersAddUp'
    <3>1. /\ Len(queue) \in Nat /\ Len(hand) \in Nat
          /\ Len(ring') \in Nat
      BY <2>2, SequenceTypes, HandIds
    <3>2. Balanced({"emitted"})
      BY <1>1, <2>1, <2>2, <2>6, <3>1 DEF Balanced, One
    <3>3. QED
      BY <1>1, <2>2, <3>1, <3>2, EarlyBalance
  <2>8. QED
    BY <1>1, <2>5, <2>7 DEF CapturesMatchQueue
<1>6. CASE ~ (Len(ring) < RingSize)
  <2>1. ring' = ring /\ count' = Counted({"emitted", "reserve_failed"})
    BY <1>1, <1>6 DEF Record
  <2>2. InLine'
    BY <1>1, <1>2, <2>1, LineGrows DEF InLine, InHand
  <2>3. {"emitted", "reserve_failed"} \cap Outcomes = {} /\ Len(ring) \in Nat
    BY SequenceTypes DEF Outcomes
  <2>4. CountersAddUp'
    <3>1. Len(queue) \in Nat /\ Len(hand) \in Nat
      BY SequenceTypes, HandIds
    <3>2. Balanced({"emitted", "reserve_failed"})
      BY <1>1, <2>1, <2>3, <3>1 DEF Balanced, One
    <3>3. QED
      BY <1>1, <2>1, <2>3, <3>1, <3>2, EarlyBalance
  <2>5. QED
    BY <1>1, <2>2, <2>4 DEF CapturesMatchQueue
<1>7. QED
  BY <1>5, <1>6

LEMMA CallbackAccounts ==
  ASSUME AccountInv, Callback
  PROVE  CountersAddUp' /\ InLine' /\ CapturesMatchQueue'
<1> USE DEF AccountInv, AgentTyped
<1> DEFINE e == Head(ring)
<1>1. /\ ring # <<>> /\ ring' = Tail(ring) /\ (Enqueue(e) \/ Overflow(e))
      /\ UNCHANGED <<hand, posted, made>>
  BY DEF Callback
<1>2. /\ e \in Event /\ Len(ring') = Len(ring) - 1 /\ Len(ring) \in Nat
      /\ IdsIn(ring) = {e.id} \cup IdsIn(ring') /\ Rising(ring') /\ Below({e.id}, IdsIn(ring'))
  BY <1>1, SequenceTypes, TailIds DEF InLine
<1>3. e.id \in Ids /\ Look(e) # "absent"
  BY <1>2, ContainersAssumption, NamesAssumption, PlacesAssumption DEF Event, Look, TypeOK, Cgroups
<1> HIDE DEF e
<1>4. /\ Seen \subseteq Int /\ made \in Int /\ Below(InHand, IdsIn(queue))
      /\ Below(IdsIn(queue), IdsIn(ring)) /\ Below(InHand, IdsIn(ring))
  BY SizesTyped, HistoryTypes DEF InLine, Seen, Ids, Below
<1>6. CASE Enqueue(e)
  <2>1. /\ queue' = Append(queue, e) /\ captures' = [captures EXCEPT ![e.id] = Look(e)]
        /\ count' = Counted({"received", "queued"})
    BY <1>6 DEF Enqueue
  <2>2. Below(IdsIn(queue), {e.id}) /\ Rising(queue)
    BY <1>2, <1>4 DEF Below, InLine
  <2>3. /\ Len(queue') = Len(queue) + 1 /\ IdsIn(queue') = IdsIn(queue) \cup {e.id}
        /\ Rising(queue') /\ Len(queue) \in Nat
    BY <1>2, <2>1, <2>2, SequenceTypes, AppendIds
  <2>4. Below(InHand', IdsIn(queue')) /\ Below(IdsIn(queue'), IdsIn(ring'))
    BY <1>1, <1>2, <1>4, <2>3 DEF Below, InHand
  <2>5. InLine'
    BY <1>1, <1>2, <1>4, <2>3, <2>4, LineKept DEF InLine, InHand
  <2>6. CapturesMatchQueue'
    <3>1. captures \in [Ids -> Captures \cup {"absent"}]
      BY DEF TypeOK
    <3>2. \A i \in Ids : captures'[i] # "absent" <=> (captures[i] # "absent" \/ i = e.id)
      BY <1>3, <2>1, <3>1
    <3>3. QED
      BY <1>3, <2>3, <3>2 DEF CapturesMatchQueue
  <2>7. {"received", "queued"} \cap Outcomes = {}
    BY DEF Outcomes
  <2>8. CountersAddUp'
    <3>1. Len(hand) \in Nat /\ hand' = hand
      BY <1>1, HandIds
    <3>2. Len(ring') \in Nat /\ Len(queue') \in Nat
      BY <1>1, <1>2, <2>3, SequenceTypes, TailIds
    <3>3. Balanced({"received", "queued"})
      BY <1>2, <2>1, <2>3, <2>7 DEF Balanced, One
    <3>4. QED
      BY <1>2, <2>3, <3>1, <3>2, <3>3, EarlyBalance
  <2>9. QED
    BY <2>5, <2>6, <2>8
<1>7. CASE Overflow(e)
  <2>1. count' = Counted({"received", "queue_full"}) /\ UNCHANGED <<captures, queue>>
    BY <1>7 DEF Overflow
  <2>2. Below(IdsIn(queue'), IdsIn(ring'))
    BY <1>2, <1>4, <2>1 DEF Below
  <2>3. InLine'
    BY <1>1, <1>2, <1>4, <2>1, <2>2, LineKept DEF InLine, InHand
  <2>4. {"received", "queue_full"} \cap Outcomes = {}
    BY DEF Outcomes
  <2>5. CountersAddUp'
    <3>1. Len(hand) \in Nat /\ Len(queue) \in Nat /\ Len(ring') \in Nat
      BY <1>1, <1>2, SequenceTypes, HandIds, TailIds
    <3>2. Balanced({"received", "queue_full"})
      BY <1>2, <2>1, <2>4, <3>1 DEF Balanced, One
    <3>3. QED
      BY <1>1, <1>2, <2>1, <3>1, <3>2, EarlyBalance
  <2>6. QED
    BY <2>1, <2>3, <2>5 DEF CapturesMatchQueue
<1>8. QED
  BY <1>1, <1>6, <1>7

LEMMA TakeAccounts ==
  ASSUME AccountInv, TakeStep, UNCHANGED kernel
  PROVE  CountersAddUp' /\ InLine' /\ CapturesMatchQueue'
<1> USE DEF AccountInv, AgentTyped
<1> DEFINE e == Head(queue)
<1>1. /\ pc = "get" /\ queue # <<>> /\ queue' = Tail(queue) /\ posted' = posted
      /\ captures' = [captures EXCEPT ![e.id] = "absent"]
      /\ UNCHANGED <<ring, made>> /\ hand = <<>>
  BY DEF TakeStep, kernel, HandMatchesPc
<1>2. /\ e \in Event /\ Len(queue') = Len(queue) - 1 /\ Len(queue) \in Nat /\ Len(queue') \in Nat
      /\ IdsIn(queue) = {e.id} \cup IdsIn(queue') /\ Rising(queue') /\ Below({e.id}, IdsIn(queue'))
  <2>1. queue \in Seq(Event) /\ Rising(queue) /\ Len(queue) \in Nat /\ queue # <<>>
    BY <1>1, SequenceTypes DEF InLine
  <2> HIDE DEF AccountInv, AgentTyped
  <2>2. /\ e \in Event /\ queue' \in Seq(Event) /\ Len(queue') = Len(queue) - 1
        /\ IdsIn(queue) = {e.id} \cup IdsIn(queue') /\ Rising(queue') /\ Below({e.id}, IdsIn(queue'))
    BY <1>1, <2>1, TailIds
  <2>3. Len(queue') \in Nat
    BY <2>2
  <2>4. QED
    BY <2>1, <2>2, <2>3
<1>3. Settles \/ \E c \in Containers : Keeps([event |-> e, container |-> c])
  BY DEF TakeStep
<1> HIDE DEF e
<1>4. /\ \/ (hand' = <<>>) /\ (\E st \in Outcomes : count' = Counted({st}))
         \/ (\E h : hand' = <<h>> /\ h.event = e) /\ count' = count
      /\ Len(ring) \in Nat
  <2>1. Len(ring) \in Nat
    BY SequenceTypes
  <2>2. CASE Settles
    BY <2>1, <2>2 DEF Settles
  <2>3. ASSUME NEW c \in Containers, Keeps([event |-> e, container |-> c])
        PROVE  (\E h : hand' = <<h>> /\ h.event = e) /\ count' = count
    <3> DEFINE g == [event |-> e, container |-> c]
    <3>1. hand' = <<g>> /\ g.event = e /\ count' = count
      BY <2>3 DEF Keeps
    <3> HIDE DEF g
    <3>2. QED
      BY <3>1
  <2>4. QED
    BY <1>3, <2>1, <2>2, <2>3
<1>5. /\ \/ InHand' = {} /\ Len(hand') = 0 /\ (\E st \in Outcomes : count' = Counted({st}))
         \/ InHand' = {e.id} /\ Len(hand') = 1 /\ count' = count
      /\ InHand = {} /\ Len(hand) = 0
  BY <1>1, <1>4, HandIds
<1>6. CountersAddUp'
  <2>1. Len(ring') = Len(ring) /\ Len(ring) \in Nat
    BY <1>1, <1>4
  <2>2. CASE Len(hand') = 0 /\ \E st \in Outcomes : count' = Counted({st})
    <3>1. Len(queue') + Len(hand') = Len(queue) + Len(hand) - 1
      BY <1>2, <1>5, <2>2
    <3>2. PICK st \in Outcomes : count' = Counted({st})
      BY <2>2
    <3>3. QED
      BY <1>2, <1>5, <2>1, <2>2, <3>1, <3>2, AddingSettled
  <2>3. CASE Len(hand') = 1 /\ count' = count
    <3>1. Len(queue') + Len(hand') = Len(queue) + Len(hand)
      BY <1>2, <1>5, <2>3
    <3>2. QED
      BY <1>2, <1>5, <2>1, <2>3, <3>1, AddingKept
  <2>4. QED
    BY <1>5, <2>2, <2>3
<1>7. InLine'
  <2>1. Seen \subseteq Int /\ made \in Int /\ Below(IdsIn(queue), IdsIn(ring))
    BY SizesTyped, HistoryTypes DEF InLine, Seen, Ids
  <2>2. Below(IdsIn(queue'), IdsIn(ring')) /\ Below(InHand', IdsIn(queue'))
    BY <1>1, <1>2, <1>5, <2>1 DEF Below
  <2>3. QED
    BY <1>1, <1>2, <1>5, <2>1, <2>2, LineKept DEF InLine
<1>8. CapturesMatchQueue'
  <2>1. captures \in [Ids -> Captures \cup {"absent"}] /\ e.id \in Ids
    BY <1>2 DEF TypeOK, Event
  <2>2. \A i \in Ids : captures'[i] # "absent" <=> (captures[i] # "absent" /\ i # e.id)
    BY <1>1, <2>1
  <2>3. e.id \notin IdsIn(queue')
    BY <1>2, <2>1, SizesTyped DEF Below, Ids
  <2>4. QED
    BY <1>2, <2>2, <2>3 DEF CapturesMatchQueue
<1>9. QED
  BY <1>6, <1>7, <1>8

\* Posting the event in hand keeps the order: it is past all that were posted.
LEMMA PostingRises ==
  ASSUME AccountInv, hand # <<>>, posted' = Append(posted, PostOf(hand[1]))
  PROVE  Rising(posted') /\ IdsIn(posted') = IdsIn(posted) \cup InHand
<1> USE DEF AccountInv, AgentTyped
<1>1. PostOf(hand[1]) \in [id : Ids, container : Containers] /\ PostOf(hand[1]).id = hand[1].event.id
  BY PostTyped DEF PostOf
<1>2. InHand = {PostOf(hand[1]).id}
  BY <1>1, HandIds
<1>3. Rising(posted) /\ Below(IdsIn(posted), {PostOf(hand[1]).id})
  BY <1>2 DEF InLine, Below
<1>4. QED
  <2>1. posted \in Seq([id : Ids, container : Containers])
    BY HistoryTypes
  <2> DEFINE x == PostOf(hand[1])
             R == [id : Ids, container : Containers]
  <2>2. x \in R /\ posted' = Append(posted, x) /\ InHand = {x.id}
        /\ Rising(posted) /\ Below(IdsIn(posted), {x.id})
    BY <1>1, <1>2, <1>3
  <2>3. posted \in Seq(R)
    BY <2>1
  <2> HIDE DEF x, R, AccountInv, AgentTyped
  <2>4. IdsIn(Append(posted, x)) = IdsIn(posted) \cup {x.id} /\ Rising(Append(posted, x))
    BY <2>2, <2>3, AppendIds
  <2>5. QED
    BY <2>2, <2>4

LEMMA HandAccounts ==
  ASSUME AccountInv, HandStep, UNCHANGED kernel
  PROVE  CountersAddUp' /\ InLine' /\ CapturesMatchQueue'
<1> USE DEF AccountInv, AgentTyped
<1>1. /\ hand # <<>> /\ UNCHANGED <<queue, captures, ring, made>>
      /\ Len(ring) \in Nat /\ Len(queue) \in Nat
  BY SequenceTypes DEF HandStep, HandMatchesPc, kernel
<1>2. \/ (hand' = <<>>) /\ (\E st \in Outcomes : count' = Counted({st}))
      \/ (hand' = <<hand[1]>>) /\ count' = count /\ posted' = posted
  BY DEF HandStep, Settles, Keeps
<1>3. /\ \/ InHand' = {} /\ Len(hand') = 0 /\ (\E st \in Outcomes : count' = Counted({st}))
         \/ InHand' = InHand /\ Len(hand') = 1 /\ count' = count /\ posted' = posted
      /\ Len(hand) = 1
  BY <1>1, <1>2, HandIds
<1>4. CountersAddUp'
  <2>1. Len(ring') = Len(ring) /\ Len(queue') = Len(queue) /\ Len(ring) \in Nat /\ Len(queue) \in Nat
    BY <1>1
  <2>2. CASE Len(hand') = 0 /\ \E st \in Outcomes : count' = Counted({st})
    <3>1. Len(queue') + Len(hand') = Len(queue) + Len(hand) - 1
      BY <1>3, <2>1, <2>2
    <3>2. PICK st \in Outcomes : count' = Counted({st})
      BY <2>2
    <3>3. QED
      BY <1>3, <2>1, <2>2, <3>1, <3>2, AddingSettled
  <2>3. CASE Len(hand') = 1 /\ count' = count
    <3>1. Len(queue') + Len(hand') = Len(queue) + Len(hand)
      BY <1>3, <2>1, <2>3
    <3>2. QED
      BY <1>3, <2>1, <2>3, <3>1, AddingKept
  <2>4. QED
    BY <1>3, <2>2, <2>3
<1>5. Rising(posted') /\ IdsIn(posted') \subseteq IdsIn(posted) \cup InHand
  BY <1>1, PostingRises DEF HandStep, InLine
<1>6. InLine'
  <2>1. Seen \subseteq Int /\ made \in Int /\ Below(IdsIn(queue), IdsIn(ring)) /\ Below(InHand, IdsIn(queue))
    BY SizesTyped, HistoryTypes DEF InLine, Seen, Ids, Below
  <2>2. Below(InHand', IdsIn(queue'))
    BY <1>1, <1>3, <2>1 DEF Below
  <2>3. QED
    BY <1>1, <1>3, <1>5, <2>1, <2>2, LineKept DEF InLine
<1>7. QED
  BY <1>1, <1>4, <1>6 DEF CapturesMatchQueue

LEMMA RestartAccounts ==
  ASSUME AccountInv, Restart
  PROVE  CountersAddUp' /\ InLine' /\ CapturesMatchQueue'
<1> USE DEF AccountInv, AgentTyped
<1>1. /\ ring' = <<>> /\ queue' = <<>> /\ hand' = <<>> /\ made' = made
      /\ captures' = [i \in Ids |-> "absent"] /\ count' = [s \in Stages |-> 0]
  BY DEF Restart
<1>2. IdsIn(ring') = {} /\ IdsIn(queue') = {} /\ InHand' = {} /\ Rising(ring') /\ Rising(queue')
      /\ Len(ring') = 0 /\ Len(queue') = 0 /\ Len(hand') = 0
  BY <1>1, NoIds, HandIds, EmptyTyped
<1>3. \A s \in Stages : count'[s] = 0
  BY <1>1
<1>4. CountersAddUp'
  BY <1>2, <1>3 DEF CountersAddUp, Stages
<1>5. Rising(posted') /\ IdsIn(posted') \subseteq IdsIn(posted) \cup InHand
  BY PostingRises DEF Restart, InLine, HandMatchesPc
<1>6. InLine'
  <2>1. Seen \subseteq Int /\ made \in Int
    BY SizesTyped, HistoryTypes DEF InLine, Seen, Ids
  <2>2. Below(InHand', IdsIn(queue')) /\ Below(IdsIn(queue'), IdsIn(ring'))
    BY <1>2 DEF Below
  <2>3. QED
    BY <1>1, <1>2, <1>5, <2>1, <2>2, LineKept
<1>7. QED
  BY <1>1, <1>2, <1>4, <1>6 DEF CapturesMatchQueue

LEMMA AccountStart == Init => AccountInv
<1> SUFFICES ASSUME Init PROVE AccountInv
  OBVIOUS
<1>1. ring = <<>> /\ queue = <<>> /\ hand = <<>> /\ posted = <<>> /\ pc = "get" /\ made = 0
  BY DEF Init
<1>2. TypeOK
  <2>1. proc \in [Pids -> Cgroups \cup {NoProcess}]
    BY DEF Init, Cgroups
  <2>2. /\ ring \in Seq(Event) /\ Len(ring) <= RingSize /\ queue \in Seq(Event) /\ Len(queue) <= QueueSize
        /\ hand \in Seq([event : Event, container : Containers]) /\ Len(hand) <= 1
        /\ posted \in Seq([id : Ids, container : Containers])
    BY <1>1, EmptyTyped, SizesTyped
  <2>3. made \in 0 .. MaxEvents /\ faults \in 0 .. MaxFaults
    BY SizesTyped DEF Init
  <2>4. reported \in [Containers -> {"waiting", "running", "terminated"}]
        /\ captures \in [Ids -> Captures \cup {"absent"}]
        /\ identities \in [Containers -> {"absent"} \cup Verdicts]
        /\ pc \in {"get", "look up", "store", "post"} /\ verdict \in Verdicts
        /\ count \in [Stages -> Nat] /\ origin \in [Ids -> Cgroups]
    BY DEF Init, Verdicts, Cgroups
  <2>5. QED
    BY <2>1, <2>2, <2>3, <2>4 DEF TypeOK
<1>3. HandMatchesPc
  BY <1>1 DEF HandMatchesPc
<1>4. Len(ring) = 0 /\ Len(queue) = 0 /\ Len(hand) = 0 /\ InHand = {}
      /\ IdsIn(ring) = {} /\ IdsIn(queue) = {} /\ IdsIn(posted) = {}
      /\ Rising(ring) /\ Rising(queue) /\ Rising(posted)
  BY <1>1, <1>2, NoIds, HandIds, EmptyTyped
<1>5. \A s \in Stages : count[s] = 0
  BY DEF Init
<1>6. CountersAddUp
  BY <1>4, <1>5 DEF CountersAddUp, Stages
<1>7. InLine
  BY <1>4 DEF InLine, Seen, Below
<1>8. CapturesMatchQueue
  BY <1>4 DEF Init, CapturesMatchQueue
<1>9. QED
  BY <1>2, <1>3, <1>6, <1>7, <1>8 DEF AccountInv, AgentTyped

\* The inductive invariant: the counters add up, the records stand in line, and the
\* captures are those of the queue.
THEOREM AgentInvariance == Spec => []AccountInv
<1>1. ASSUME AccountInv, [Next]_vars
      PROVE  AccountInv'
  <2>1. AgentTyped'
    BY <1>1, AgentTypingStep DEF AccountInv
  <2>2. CountersAddUp' /\ InLine' /\ CapturesMatchQueue'
    <3>1. CASE UNCHANGED <<ring, queue, hand, posted, made, count, captures>>
      BY <1>1, <3>1 DEF AccountInv, CountersAddUp, InLine, Seen, InHand, CapturesMatchQueue
    <3>2. ASSUME NEW p \in Pids, Exec(p)
          PROVE  CountersAddUp' /\ InLine' /\ CapturesMatchQueue'
      BY <1>1, <3>2, ExecAccounts
    <3>3. CASE Callback
      BY <1>1, <3>3, CallbackAccounts
    <3>4. CASE (Process \/ Misfortune) /\ ~Restart
      BY <1>1, <3>4, ProcessorStep, TakeAccounts, HandAccounts DEF AccountInv, AgentTyped
    <3>5. CASE Restart
      BY <1>1, <3>5, RestartAccounts
    <3>6. ASSUME \/ UNCHANGED vars
                 \/ \E p \in Pids : \/ (\E g \in Cgroups : Spawn(p, g))
                                    \/ (\E c \in Containers : Join(p, c))
                                    \/ ProcessExits(p)
                 \/ \E c \in Containers : Report(c) \/ Expire(c)
          PROVE  UNCHANGED <<ring, queue, hand, posted, made, count, captures>>
      BY <3>6 DEF vars, kernel, Spawn, Join, ProcessExits, Report, Expire
    <3>7. QED
      BY <1>1, <3>1, <3>2, <3>3, <3>4, <3>5, <3>6 DEF Next
  <2>3. QED
    BY <2>1, <2>2 DEF AccountInv
<1>2. QED
  BY <1>1, AccountStart, PTL DEF Spec

\* TypeOK: no buffer holds more than its size, and what passes through is typed.
THEOREM AgentTyping == Spec => []TypeOK
<1>1. AccountInv => TypeOK
  BY DEF AccountInv, AgentTyped
<1>2. QED
  BY <1>1, AgentInvariance, PTL

\* RecordsAccounted: rb_callback, event_processor and the counters between them lose
\* no record unaccounted for, and dispatch_event repeats and reorders none.
THEOREM EverythingAccounted == Spec => []RecordsAccounted
<1>1. AccountInv => RecordsAccounted
  BY DEF AccountInv, RecordsAccounted, InLine, Rising, PostedInOrder
<1>2. QED
  BY <1>1, AgentInvariance, PTL

-----------------------------------------------------------------------------
(* What is known of an event's container *)

\* The API has reported the container as running at some time.
Ran(c) == reported[c] # "waiting"

\* The event carries the cgroup it came from.
Carries(e) == e.cgroup = origin[e.id]

KernelTrue == \A i \in DOMAIN ring : Carries(ring[i])

QueueTrue ==
  \A i \in DOMAIN queue :
    /\ Carries(queue[i])
    /\ captures[queue[i].id] \in Containers => captures[queue[i].id] = queue[i].cgroup

\* The event in hand, with its container, as it is about to be stored or posted.
Founded(h) ==
  /\ Carries(h.event) /\ h.container = h.event.cgroup
  /\ pc = "store" /\ verdict = "resolved" => Ran(h.container)
  /\ pc = "post" => h.container \in Watched \ Digestless /\ Ran(h.container)

HandTrue == \A i \in DOMAIN hand : Founded(hand[i])

IdentitiesTrue == \A c \in Containers : identities[c] = "resolved" => Ran(c)

NamesTrue == KernelTrue /\ QueueTrue /\ HandTrue /\ IdentitiesTrue /\ PostsNameTheirContainer
NameInv == AccountInv /\ NamesTrue

\* A sequence without its head, or with another element at its end.
LEMMA TailItems ==
  ASSUME NEW R, NEW s \in Seq(R), s # <<>>
  PROVE  /\ Head(s) = s[1] /\ 1 \in DOMAIN s
         /\ \A i \in DOMAIN Tail(s) : i + 1 \in DOMAIN s /\ Tail(s)[i] = s[i + 1]
OBVIOUS

LEMMA AppendItems ==
  ASSUME NEW R, NEW s \in Seq(R), NEW e \in R
  PROVE  \A i \in DOMAIN Append(s, e) :
           \/ i \in DOMAIN s /\ Append(s, e)[i] = s[i]
           \/ Append(s, e)[i] = e
OBVIOUS

LEMMA SeqItems == \A R, s : s \in Seq(R) => \A i \in DOMAIN s : s[i] \in R
OBVIOUS

LEMMA HandItems ==
  ASSUME NEW h
  PROVE  DOMAIN <<h>> = {1} /\ <<h>>[1] = h /\ DOMAIN <<>> = {}
OBVIOUS

\* Who was in the gateway's line stays true when reports only move on.
LEMMA PostsStay ==
  ASSUME PostsNameTheirContainer, \A c \in Containers : Ran(c) => Ran(c)',
         posted \in Seq([id : Ids, container : Containers]), posted' = posted,
         \A i \in IdsIn(posted) : origin'[i] = origin[i]
  PROVE  PostsNameTheirContainer'
<1>1. \A i \in DOMAIN posted : posted[i].container \in Containers /\ posted[i].id \in IdsIn(posted)
  <2>1. \A i \in DOMAIN posted : posted[i] \in [id : Ids, container : Containers]
    BY SeqItems
  <2>2. QED
    BY <2>1 DEF IdsIn
<1>2. QED
  BY <1>1 DEF PostsNameTheirContainer, Ran

LEMMA PostNames ==
  ASSUME NameInv, hand # <<>>, pc = "post", UNCHANGED <<reported, origin>>,
         posted' = Append(posted, PostOf(hand[1]))
  PROVE  PostsNameTheirContainer'
<1> USE DEF NameInv, NamesTrue, AccountInv, AgentTyped
<1>1. Founded(hand[1])
  <2>1. 1 \in DOMAIN hand
    BY HandIsOne, HandItems
  <2>2. QED
    BY <2>1 DEF HandTrue
<1> DEFINE x == PostOf(hand[1])
<1>2. x.container = origin[x.id] /\ x.container \in Watched \ Digestless /\ reported[x.container] # "waiting"
  BY <1>1 DEF Founded, Carries, Ran, PostOf
<1>3. /\ x \in [id : Ids, container : Containers]
      /\ posted \in Seq([id : Ids, container : Containers])
  BY PostTyped, HistoryTypes
<1> HIDE DEF x
<1>4. \A i \in DOMAIN posted' : (i \in DOMAIN posted /\ posted'[i] = posted[i]) \/ posted'[i] = x
  <2> HIDE DEF NameInv, NamesTrue, AccountInv, AgentTyped
  <2>1. posted' = Append(posted, x)
    BY DEF x
  <2>2. QED
    BY <1>3, <2>1, AppendItems
<1>5. QED
  BY <1>2, <1>4 DEF PostsNameTheirContainer

\* What was true of the records is still, while they keep their places, reports
\* only move on, and an event in the kernel gets an id that none of them has.
LEMMA StaysTrue ==
  ASSUME NameInv, \A c \in Containers : Ran(c) => Ran(c)', \A i \in Seen : origin'[i] = origin[i]
  PROVE  /\ ring' = ring => KernelTrue'
         /\ queue' = queue /\ captures' = captures => QueueTrue'
         /\ hand' = hand /\ pc' = pc /\ verdict' = verdict => HandTrue'
         /\ identities' = identities => IdentitiesTrue'
         /\ posted' = posted => PostsNameTheirContainer'
<1> USE DEF NameInv, NamesTrue, AccountInv, AgentTyped
<1>1. /\ \A i \in DOMAIN ring : ring[i].id \in Seen
      /\ \A i \in DOMAIN queue : queue[i].id \in Seen
      /\ \A i \in DOMAIN hand : hand[i].event.id \in Seen
      /\ \A i \in IdsIn(posted) : i \in Seen
  <2> HIDE DEF NameInv, NamesTrue, AccountInv, AgentTyped
  <2>1. QED
    BY DEF Seen, InHand, IdsIn
<1>2. ring' = ring => KernelTrue'
  BY <1>1 DEF KernelTrue, Carries
<1>3. queue' = queue /\ captures' = captures => QueueTrue'
  BY <1>1 DEF QueueTrue, Carries
<1>4. hand' = hand /\ pc' = pc /\ verdict' = verdict => HandTrue'
  <2>1. \A i \in DOMAIN hand : hand[i].container \in Containers
    <3>1. hand \in Seq(Held)
      BY DEF TypeOK, Held
    <3>2. \A i \in DOMAIN hand : hand[i] \in Held
      BY <3>1
    <3>3. QED
      BY <3>2 DEF Held
  <2>2. QED
    BY <1>1, <2>1 DEF HandTrue, Founded, Carries
<1>5. identities' = identities => IdentitiesTrue'
  BY DEF IdentitiesTrue
<1>6. posted' = posted => PostsNameTheirContainer'
  BY <1>1, PostsStay, HistoryTypes
<1>7. QED
  BY <1>2, <1>3, <1>4, <1>5, <1>6

\* The node, and what Redis forgets.
LEMMA NodeNames ==
  ASSUME NameInv,
         \/ UNCHANGED vars
         \/ \E p \in Pids : \/ (\E g \in Cgroups : Spawn(p, g))
                            \/ (\E c \in Containers : Join(p, c))
                            \/ ProcessExits(p)
         \/ \E c \in Containers : Report(c) \/ Expire(c)
  PROVE  NamesTrue'
<1>1. UNCHANGED <<kernel, captures, queue, pc, hand, verdict, posted>>
  BY DEF vars, Spawn, Join, ProcessExits, Report, Expire
<1>2. reported \in [Containers -> {"waiting", "running", "terminated"}]
      /\ identities \in [Containers -> {"absent"} \cup Verdicts]
  BY DEF NameInv, AccountInv, AgentTyped, TypeOK
<1>3. \A c \in Containers : Ran(c) => Ran(c)'
  <2>1. CASE UNCHANGED reported
    BY <2>1 DEF Ran
  <2>2. ASSUME NEW d \in Containers, Report(d)
        PROVE  \A c \in Containers : Ran(c) => Ran(c)'
    BY <1>2, <2>2 DEF Report, Ran
  <2>3. QED
    BY <2>1, <2>2 DEF vars, node, Spawn, Join, ProcessExits, Expire
<1>4. IdentitiesTrue'
  <2>1. CASE UNCHANGED identities
    BY <1>3, <2>1 DEF NameInv, NamesTrue, IdentitiesTrue
  <2>2. ASSUME NEW d \in Containers, Expire(d)
        PROVE  IdentitiesTrue'
    BY <1>2, <1>3, <2>2 DEF Expire, NameInv, NamesTrue, IdentitiesTrue
  <2>3. QED
    BY <2>1, <2>2 DEF vars, node, Spawn, Join, ProcessExits, Report
<1>5. QED
  BY <1>1, <1>3, <1>4, StaysTrue DEF kernel, NamesTrue

LEMMA ExecNames ==
  ASSUME NameInv, NEW p \in Pids, Exec(p)
  PROVE  NamesTrue'
<1> USE DEF NameInv, NamesTrue, AccountInv, AgentTyped
<1> DEFINE e == [id |-> made', pid |-> p, cgroup |-> proc[p]]
<1>1. /\ Record(e) /\ made' = made + 1 /\ origin' = [origin EXCEPT ![made'] = proc[p]]
      /\ UNCHANGED <<reported, captures, queue, identities, pc, hand, verdict, posted>>
  BY DEF Exec, node
<1>2. made' \in Ids /\ made \in Int /\ proc[p] \in Cgroups /\ origin \in [Ids -> Cgroups]
  <2>1. proc[p] \in Cgroups /\ origin \in [Ids -> Cgroups]
    BY DEF Exec, TypeOK
  <2>2. QED
    BY <2>1, HistoryTypes, SizesTyped DEF Exec, Ids
<1>3. e \in Event /\ e.id = made' /\ e.cgroup = proc[p]
  BY <1>1, <1>2 DEF Event
<1> HIDE DEF e
<1>4. \A i \in Seen : origin'[i] = origin[i]
  <2>1. \A i \in Seen : i \in Ids /\ i # made'
    BY <1>1, <1>2, SizesTyped DEF InLine, Ids
  <2>2. QED
    BY <1>1, <1>2, <2>1
<1>5. \A c \in Containers : Ran(c) => Ran(c)'
  BY <1>1 DEF Ran
<1>6. QueueTrue' /\ HandTrue' /\ IdentitiesTrue' /\ PostsNameTheirContainer'
  <2> HIDE DEF NameInv, NamesTrue, AccountInv, AgentTyped
  <2>1. QED
    BY <1>1, <1>4, <1>5, StaysTrue
<1>7. KernelTrue'
  <2>1. CASE ring' = ring
    BY <1>4, <1>5, <2>1, StaysTrue
  <2>2. CASE ring' = Append(ring, e)
    <3>1. \A i \in DOMAIN ring' : (i \in DOMAIN ring /\ ring'[i] = ring[i]) \/ ring'[i] = e
      <4>1. ring \in Seq(Event)
        BY SequenceTypes
      <4> HIDE DEF NameInv, NamesTrue, AccountInv, AgentTyped
      <4>2. QED
        BY <1>3, <2>2, <4>1, AppendItems
    <3>2. origin'[e.id] = e.cgroup
      BY <1>1, <1>2, <1>3
    <3>3. \A i \in DOMAIN ring : ring[i].id \in Seen
      BY DEF Seen, IdsIn
    <3>4. QED
      BY <1>4, <3>1, <3>2, <3>3 DEF KernelTrue, Carries
  <2>3. QED
    BY <1>1, <2>1, <2>2 DEF Record
<1>8. QED
  BY <1>6, <1>7 DEF NamesTrue

LEMMA CallbackNames ==
  ASSUME NameInv, Callback
  PROVE  NamesTrue'
<1> USE DEF NameInv, NamesTrue, AccountInv, AgentTyped
<1> DEFINE e == Head(ring)
<1>1. /\ ring # <<>> /\ ring' = Tail(ring) /\ (Enqueue(e) \/ Overflow(e))
      /\ UNCHANGED <<reported, origin, identities, pc, hand, verdict, posted>>
  BY DEF Callback, node
<1>2. ring \in Seq(Event) /\ queue \in Seq(Event)
  BY SequenceTypes
<1>3. (\A c \in Containers : Ran(c) => Ran(c)') /\ (\A i \in Seen : origin'[i] = origin[i])
  BY <1>1 DEF Ran
<1>4. HandTrue' /\ IdentitiesTrue' /\ PostsNameTheirContainer'
  <2> HIDE DEF NameInv, NamesTrue, AccountInv, AgentTyped
  <2>1. QED
    BY <1>1, <1>3, StaysTrue
<1>5. KernelTrue' /\ Carries(e)
  BY <1>1, <1>2, TailItems DEF KernelTrue, Carries
<1>6. e \in Event /\ e.id \in IdsIn(ring)
  BY <1>1, <1>2, TailIds
<1> HIDE DEF e
<1>7. QueueTrue'
  <2>1. CASE Overflow(e)
    BY <1>3, <2>1, StaysTrue DEF Overflow
  <2>2. CASE Enqueue(e)
    <3>1. queue' = Append(queue, e) /\ captures' = [captures EXCEPT ![e.id] = Look(e)]
      BY <2>2 DEF Enqueue
    <3>2. \A i \in DOMAIN queue' : (i \in DOMAIN queue /\ queue'[i] = queue[i]) \/ queue'[i] = e
      <4> HIDE DEF NameInv, NamesTrue, AccountInv, AgentTyped
      <4>1. QED
        BY <1>2, <1>6, <3>1, AppendItems
    <3>3. captures \in [Ids -> Captures \cup {"absent"}] /\ e.id \in Ids
      BY <1>6 DEF TypeOK, Event
    <3>4. Look(e) \in Containers => Look(e) = e.cgroup
      BY <1>6, NamesAssumption DEF Look
    <3>5. \A i \in DOMAIN queue : queue[i].id # e.id
      <4>1. Below(IdsIn(queue), IdsIn(ring)) /\ \A i \in Seen : i \in Ids
        BY DEF InLine
      <4>2. \A i \in DOMAIN queue : queue[i].id \in IdsIn(queue) /\ queue[i].id \in Seen
        BY DEF Seen, IdsIn
      <4> HIDE DEF NameInv, NamesTrue, AccountInv, AgentTyped
      <4>3. QED
        BY <1>6, <3>3, <4>1, <4>2, SizesTyped DEF Below, Ids
    <3>6. QED
      BY <1>1, <1>5, <3>1, <3>2, <3>3, <3>4, <3>5 DEF QueueTrue, Carries
  <2>3. QED
    BY <1>1, <2>1, <2>2
<1>8. QED
  BY <1>4, <1>5, <1>7 DEF NamesTrue

\* The gate lets an event go to the gateway only with a resolved identity.
LEMMA GateNames ==
  ASSUME NEW e, NEW c, NEW v, Gate(e, c, v), Carries(e), c = e.cgroup, v = "resolved" => Ran(c),
         UNCHANGED <<reported, origin>>
  PROVE  HandTrue'
<1>1. CASE v = "resolved" /\ c \notin Digestless /\ c \in Watched
  <2>1. pc' = "post" /\ hand' = <<[event |-> e, container |-> c]>>
    BY <1>1 DEF Gate, Hold
  <2>2. \A i \in DOMAIN hand' : hand'[i] = [event |-> e, container |-> c]
    BY <2>1, HandItems
  <2>3. QED
    BY <1>1, <2>1, <2>2 DEF HandTrue, Founded, Carries, Ran
<1>2. CASE ~ (v = "resolved" /\ c \notin Digestless /\ c \in Watched)
  <2>1. hand' = <<>>
    BY <1>2 DEF Gate, Settle
  <2>2. QED
    BY <2>1, HandItems DEF HandTrue
<1>3. QED
  BY <1>1, <1>2

LEMMA EmptyHand == hand' = <<>> => HandTrue'
BY HandItems DEF HandTrue

LEMMA TakeNames ==
  ASSUME NameInv, TakeNamed \/ TakeUnidentified \/ TakeIndexed \/ TakeIndexedRaises
  PROVE  QueueTrue' /\ HandTrue' /\ UNCHANGED <<ring, reported, origin, identities, posted>>
<1> USE DEF NameInv, NamesTrue, AccountInv, AgentTyped
<1>1. PICK e \in Event : \E capture : Taken(e, capture)
  BY DEF TakeNamed, TakeUnidentified, TakeIndexed, TakeIndexedRaises
<1>2. /\ queue # <<>> /\ e = Head(queue) /\ queue' = Tail(queue)
      /\ captures' = [captures EXCEPT ![e.id] = "absent"]
      /\ UNCHANGED <<ring, reported, origin, identities, posted>>
  BY <1>1 DEF Taken, node, kernel
<1>3. queue \in Seq(Event) /\ captures \in [Ids -> Captures \cup {"absent"}] /\ e.id \in Ids
  BY <1>1 DEF TypeOK, Event
<1>4. /\ e = queue[1] /\ 1 \in DOMAIN queue
      /\ \A i \in DOMAIN queue' : i + 1 \in DOMAIN queue /\ queue'[i] = queue[i + 1]
  BY <1>2, <1>3, TailItems
<1>5. Carries(e) /\ (captures[e.id] \in Containers => captures[e.id] = e.cgroup)
  BY <1>4 DEF QueueTrue
<1>6. QueueTrue'
  <2>1. \A i \in DOMAIN queue : queue[i] \in Event
    BY <1>3, SeqItems
  <2>2. \A i \in Ids : captures'[i] \in Containers => captures[i] \in Containers /\ captures'[i] = captures[i]
    BY <1>2, <1>3, NamesAssumption
  <2>3. QED
    BY <1>2, <1>4, <2>1, <2>2 DEF QueueTrue, Carries, Event
<1>7. HandTrue'
  <2>1. CASE TakeNamed
    <3>1. PICK c \in Containers : c = captures[e.id] /\ Hold(e, c, "look up")
      BY <1>2, <2>1 DEF TakeNamed, Taken
    <3> DEFINE g == [event |-> e, container |-> c]
    <3>2. pc' = "look up" /\ hand' = <<g>> /\ g.container = g.event.cgroup /\ g.event = e
      BY <1>5, <3>1 DEF Hold
    <3>3. Carries(g.event)'
      BY <1>2, <1>5 DEF Carries
    <3> HIDE DEF g
    <3>4. hand'[1] = g /\ DOMAIN hand' = {1}
      BY <3>2, HandItems
    <3>5. Founded(hand[1])'
      BY <1>2, <1>5, <3>2, <3>4 DEF Founded, Carries
    <3>6. QED
      BY <3>4, <3>5 DEF HandTrue
  <2>2. CASE TakeUnidentified \/ TakeIndexedRaises
    BY <2>2, EmptyHand DEF TakeUnidentified, TakeIndexedRaises, Settle
  <2>3. CASE TakeIndexed
    <3>1. Gate(e, e.cgroup, Answer(e.cgroup))
      BY <1>2, <2>3 DEF TakeIndexed, Taken
    <3>2. Answer(e.cgroup) = "resolved" => Ran(e.cgroup)
      BY DEF Answer, Ran
    <3>3. QED
      BY <1>2, <1>5, <3>1, <3>2, GateNames
  <2>4. QED
    BY <2>1, <2>2, <2>3
<1>8. QED
  BY <1>2, <1>6, <1>7

\* What the processor does with the event it has in hand.
LEMMA HandNames ==
  ASSUME NameInv, LookUpHit \/ LookUpMiss \/ LookUpFails \/ LookUpRaises \/ Store \/ StoreFails \/ Post \/ PostFails
  PROVE  NamesTrue'
<1> USE DEF NameInv, NamesTrue, AccountInv, AgentTyped
<1>1. /\ UNCHANGED <<ring, queue, captures, reported, origin>>
      /\ pc # "get"
  BY DEF LookUpHit, LookUpMiss, LookUpFails, LookUpRaises, Store, StoreFails, Post, PostFails, Ask, node, kernel
<1>2. /\ hand # <<>> /\ hand[1] \in Held /\ hand = <<hand[1]>> /\ Founded(hand[1])
      /\ hand[1].container = hand[1].event.cgroup /\ Carries(hand[1].event) /\ Holding \in Containers
  <2>1. hand # <<>> /\ hand[1] \in Held /\ hand = <<hand[1]>>
    BY <1>1, HandIsOne DEF HandMatchesPc
  <2>2. Founded(hand[1])
    BY <2>1, HandItems DEF HandTrue
  <2>3. QED
    BY <2>1, <2>2 DEF Founded, Held, Holding
<1>3. (\A c \in Containers : Ran(c) => Ran(c)') /\ (\A i \in Seen : origin'[i] = origin[i])
  BY <1>1 DEF Ran
<1>4. KernelTrue' /\ QueueTrue'
  <2> HIDE DEF NameInv, NamesTrue, AccountInv, AgentTyped
  <2>1. QED
    BY <1>1, <1>3, StaysTrue
<1>5. IdentitiesTrue'
  <2>1. CASE identities' = identities
    <3> HIDE DEF NameInv, NamesTrue, AccountInv, AgentTyped
    <3>1. QED
      BY <1>3, <2>1, StaysTrue
  <2>2. CASE Store
    <3>1. identities' = [identities EXCEPT ![Holding] = verdict] /\ (verdict = "resolved" => Ran(Holding))
      BY <1>2, <2>2 DEF Store, Founded, Holding
    <3>2. identities \in [Containers -> {"absent"} \cup Verdicts]
      BY DEF TypeOK
    <3>3. QED
      BY <1>1, <3>1, <3>2 DEF IdentitiesTrue, Ran
  <2>3. QED
    BY <2>1, <2>2 DEF LookUpHit, LookUpMiss, LookUpFails, LookUpRaises, StoreFails, Post, PostFails, Ask
<1>6. HandTrue'
  <2>1. CASE LookUpHit
    <3>1. identities[Holding] = "resolved" => Ran(Holding)
      BY <1>2 DEF IdentitiesTrue
    <3>2. QED
      BY <1>1, <1>2, <2>1, <3>1, GateNames DEF LookUpHit, Holding
  <2>2. CASE Store \/ StoreFails
    <3>1. Gate(hand[1].event, Holding, verdict) /\ pc = "store"
      BY <2>2 DEF Store, StoreFails
    <3>2. verdict = "resolved" => Ran(Holding)
      BY <1>2, <3>1 DEF Founded, Holding
    <3>3. QED
      BY <1>1, <1>2, <3>1, <3>2, GateNames DEF Holding
  <2>3. CASE LookUpMiss \/ LookUpFails
    <3>1. Ask(Answer(Holding)) \/ Ask("missing")
      BY <2>3 DEF LookUpMiss, LookUpFails
    <3>2. pc' = "store" /\ hand' = hand /\ (verdict' = "resolved" => Ran(Holding))
      BY <3>1 DEF Ask, Answer, Ran
    <3>3. \A i \in DOMAIN hand' : hand'[i] = hand[1]
      BY <1>2, <3>2, HandItems
    <3>4. QED
      BY <1>1, <1>2, <3>2, <3>3 DEF HandTrue, Founded, Carries, Ran, Holding
  <2>4. CASE LookUpRaises \/ Post \/ PostFails
    BY <2>4, EmptyHand DEF LookUpRaises, Post, PostFails, Settle
  <2>5. QED
    BY <2>1, <2>2, <2>3, <2>4
<1>7. PostsNameTheirContainer'
  <2>1. CASE posted' = posted
    <3> HIDE DEF NameInv, NamesTrue, AccountInv, AgentTyped
    <3>1. QED
      BY <1>3, <2>1, StaysTrue
  <2>2. CASE pc = "post" /\ posted' = Append(posted, PostOf(hand[1]))
    <3> HIDE DEF NameInv, NamesTrue, AccountInv, AgentTyped
    <3>1. QED
      BY <1>1, <1>2, <2>2, PostNames
  <2>3. QED
    BY <2>1, <2>2 DEF LookUpHit, LookUpMiss, LookUpFails, LookUpRaises, Store, StoreFails, Post, PostFails, Ask
<1>8. QED
  BY <1>4, <1>5, <1>6, <1>7 DEF NamesTrue

LEMMA RestartNames ==
  ASSUME NameInv, Restart
  PROVE  NamesTrue'
<1> USE DEF NameInv, NamesTrue, AccountInv, AgentTyped
<1>1. /\ ring' = <<>> /\ queue' = <<>> /\ hand' = <<>>
      /\ UNCHANGED <<reported, origin, identities>>
      /\ posted' = posted \/ (pc = "post" /\ posted' = Append(posted, PostOf(hand[1])))
  BY DEF Restart, node
<1>2. (\A c \in Containers : Ran(c) => Ran(c)') /\ (\A i \in Seen : origin'[i] = origin[i])
  BY <1>1 DEF Ran
<1>3. KernelTrue' /\ QueueTrue' /\ HandTrue'
  BY <1>1, HandItems DEF KernelTrue, QueueTrue, HandTrue
<1>4. IdentitiesTrue' /\ (posted' = posted => PostsNameTheirContainer')
  <2> HIDE DEF NameInv, NamesTrue, AccountInv, AgentTyped
  <2>1. QED
    BY <1>1, <1>2, StaysTrue
<1>5. CASE pc = "post" /\ posted' = Append(posted, PostOf(hand[1]))
  <2>1. hand # <<>>
    BY <1>5 DEF HandMatchesPc
  <2> HIDE DEF NameInv, NamesTrue, AccountInv, AgentTyped
  <2>2. PostsNameTheirContainer'
    BY <1>1, <1>5, <2>1, PostNames
  <2>3. QED
    BY <1>3, <1>4, <2>2 DEF NamesTrue
<1>6. QED
  BY <1>1, <1>3, <1>4, <1>5 DEF NamesTrue

LEMMA NameStart == Init => NamesTrue
<1> SUFFICES ASSUME Init PROVE NamesTrue
  OBVIOUS
<1>1. ring = <<>> /\ queue = <<>> /\ hand = <<>> /\ posted = <<>> /\ identities = [c \in Containers |-> "absent"]
  BY DEF Init
<1>2. KernelTrue /\ QueueTrue /\ HandTrue /\ PostsNameTheirContainer
  BY <1>1, HandItems DEF KernelTrue, QueueTrue, HandTrue, PostsNameTheirContainer
<1>3. IdentitiesTrue
  BY <1>1 DEF IdentitiesTrue
<1>4. QED
  BY <1>2, <1>3 DEF NamesTrue

\* The inductive invariant: whatever the agent believes of an event's container,
\* captured, cached or in hand, was true of the cgroup the event came from.
THEOREM NameInvariance == Spec => []NameInv
<1>1. ASSUME NameInv, AccountInv', [Next]_vars
      PROVE  NameInv'
  <2>1. NameInv /\ (NamesTrue' => NameInv')
    BY <1>1 DEF NameInv
  <2>2. ASSUME NEW p \in Pids, Exec(p)
        PROVE  NameInv'
    BY <2>1, <2>2, ExecNames
  <2>3. CASE Callback
    BY <2>1, <2>3, CallbackNames
  <2>4. CASE TakeNamed \/ TakeUnidentified \/ TakeIndexed \/ TakeIndexedRaises
    <3>1. QueueTrue' /\ HandTrue' /\ UNCHANGED <<ring, reported, origin, identities, posted>>
      BY <2>1, <2>4, TakeNames
    <3>2. (\A c \in Containers : Ran(c) => Ran(c)') /\ (\A i \in Seen : origin'[i] = origin[i])
      BY <3>1 DEF Ran
    <3>3. QED
      BY <2>1, <3>1, <3>2, StaysTrue DEF NamesTrue, NameInv
  <2>5. CASE LookUpHit \/ LookUpMiss \/ LookUpFails \/ LookUpRaises \/ Store \/ StoreFails \/ Post \/ PostFails
    BY <2>1, <2>5, HandNames
  <2>6. CASE Restart
    BY <2>1, <2>6, RestartNames
  <2>7. CASE \/ UNCHANGED vars
             \/ \E p \in Pids : \/ (\E g \in Cgroups : Spawn(p, g))
                                \/ (\E c \in Containers : Join(p, c))
                                \/ ProcessExits(p)
             \/ \E c \in Containers : Report(c) \/ Expire(c)
    BY <2>1, <2>7, NodeNames
  <2>8. QED
    BY <1>1, <2>2, <2>3, <2>4, <2>5, <2>6, <2>7 DEF Next, Process, Misfortune
<1>2. Init => NameInv
  BY NameStart, AccountStart DEF NameInv
<1>3. QED
  BY <1>1, <1>2, AgentInvariance, PTL DEF Spec

\* PostsNameTheirContainer: what rb_callback captures, the attributor looks up and
\* caches, and dispatch_event posts names the container of the event's own cgroup.
THEOREM PostsAreNamed == Spec => []PostsNameTheirContainer
<1>1. NameInv => PostsNameTheirContainer
  BY DEF NameInv, NamesTrue
<1>2. QED
  BY <1>1, NameInvariance, PTL
=============================================================================
