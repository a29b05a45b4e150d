------------------------- MODULE GraphConsumerProofs -------------------------
(***************************************************************************)
(* Nothing the workers acknowledge is lost, duplicates count once and      *)
(* every snapshot is whole, for any stream, number of workers, batch sizes *)
(* and faults.  None of this needs to know which messages a batch holds:   *)
(* only that the event of the message in hand is in the worker's graph     *)
(* while its snapshot is being saved.                                      *)
(***************************************************************************)
EXTENDS GraphConsumer, FiniteSetTheorems, TLAPS

\* The state of the workers is a function of the worker.
WorkersHave(f) == f = [w \in Workers |-> f[w]]

MemoryTyped ==
  /\ WorkersHave(pc) /\ WorkersHave(batch) /\ WorkersHave(acks)
  /\ WorkersHave(graph) /\ WorkersHave(since)

\* What is in a graph was applied, so a graph that dies with its worker leaves
\* its acknowledged events accounted for.
GraphsWereApplied == \A w \in Workers : graph[w] \subseteq applied

\* The save of a snapshot runs after its event entered the graph.
SavedIsApplied == \A w \in Workers : pc[w] = "save" => Event(w) \in graph[w]

HandledInv == MemoryTyped /\ GraphsWereApplied /\ SavedIsApplied /\ AckedIsHandled

-----------------------------------------------------------------------------
(* What the steps of a worker do to memory, whatever else they change *)

\* A step that leaves the graphs alone, acknowledges with Redis at most what was
\* about to be, and puts on a worker's list at most a message that is handled.
Settles(w) ==
  /\ UNCHANGED <<graph, applied>>
  /\ dlq \subseteq dlq'
  /\ acked' \subseteq acked \cup acks[w]
  /\ \E S : /\ acks' = [acks EXCEPT ![w] = S]
            /\ S \subseteq acks[w] \cup {i \in S : Stream[i] \in graph[w] \/ i \in dlq'}
  /\ \E p, b : /\ pc' = [pc EXCEPT ![w] = p] /\ p # "save"
               /\ batch' = [batch EXCEPT ![w] = b]

LEMMA SettlesKeeps ==
  ASSUME HandledInv, NEW w \in Workers, Settles(w), WorkersHave(since)'
  PROVE  HandledInv'
<1> USE DEF HandledInv, Settles
<1>1. PICK S, p, b : /\ acks' = [acks EXCEPT ![w] = S]
                     /\ S \subseteq acks[w] \cup {i \in S : Stream[i] \in graph[w] \/ i \in dlq'}
                     /\ pc' = [pc EXCEPT ![w] = p] /\ p # "save"
                     /\ batch' = [batch EXCEPT ![w] = b]
  OBVIOUS
<1>2. MemoryTyped'
  BY <1>1 DEF MemoryTyped, WorkersHave
<1>3. GraphsWereApplied'
  BY DEF GraphsWereApplied
<1>4. SavedIsApplied'
  BY <1>1 DEF SavedIsApplied, Event, Current, MemoryTyped, WorkersHave
<1>5. \A i \in acked' : Stream[i] \in applied' \/ i \in dlq'
  BY DEF AckedIsHandled, GraphsWereApplied
<1>6. \A v \in Workers : \A i \in acks'[v] : Stream[i] \in graph'[v] \/ i \in dlq'
  BY <1>1 DEF AckedIsHandled, MemoryTyped, WorkersHave
<1>7. QED
  BY <1>2, <1>3, <1>4, <1>5, <1>6 DEF AckedIsHandled

\* Going on with the next message.
LEMMA AdvanceMoves ==
  ASSUME NEW w \in Workers, NEW ack \in BOOLEAN, Advance(w, ack)
  PROVE  /\ acks' = [acks EXCEPT ![w] = IF ack THEN acks[w] \cup {Current(w)} ELSE acks[w]]
         /\ \E p \in {"flush", "work"} : pc' = [pc EXCEPT ![w] = p]
         /\ batch' = [batch EXCEPT ![w] = Tail(batch[w])]
BY DEF Advance

LEMMA HandledStep ==
  ASSUME HandledInv, [Next]_vars
  PROVE  HandledInv'
<1> USE DEF HandledInv
<1>1. CASE UNCHANGED vars
  BY <1>1 DEF vars, redis, memory, history, MemoryTyped, WorkersHave, GraphsWereApplied,
              SavedIsApplied, Event, Current, AckedIsHandled
<1>2. ASSUME NEW w \in Workers, Read(w) \/ \E T \in SUBSET Pending : Reclaim(w, T)
      PROVE  HandledInv'
  <2>1. Settles(w) /\ since' = since
    BY <1>2 DEF Read, Reclaim, Goto, Settles, memory, history, MemoryTyped, WorkersHave
  <2>2. QED
    BY <2>1, SettlesKeeps DEF MemoryTyped, WorkersHave
<1>3. ASSUME NEW w \in Workers,
             \/ ReadReplyLost(w) \/ ReclaimReplyLost(w) \/ IdleFlush(w) \/ SaveFails(w)
             \/ Reject(w) \/ GiveUp(w) \/ ReclaimAborts(w) \/ Flush(w) \/ FlushFails(w)
      PROVE  HandledInv'
  <2>1. Settles(w) /\ since' = since
    BY <1>3
    DEF ReadReplyLost, ReclaimReplyLost, IdleFlush, SaveFails, Reject, GiveUp, ReclaimAborts,
        Flush, FlushFails, AfterFlush, Goto, Settles, redis, memory, history,
        MemoryTyped, WorkersHave
  <2>2. QED
    BY <2>1, SettlesKeeps DEF MemoryTyped, WorkersHave
<1>4. ASSUME NEW w \in Workers,
             Duplicate(w) \/ SaveSnapshot(w) \/ LeavePending(w) \/ DeadLetter(w) \/ DeadLetterFails(w)
      PROVE  HandledInv'
  <2>1. PICK ack \in BOOLEAN :
          /\ Advance(w, ack) /\ UNCHANGED <<graph, applied, acked, since>> /\ dlq \subseteq dlq'
          /\ ack => Event(w) \in graph[w] \/ Current(w) \in dlq'
    BY <1>4 DEF Duplicate, SaveSnapshot, LeavePending, DeadLetter, DeadLetterFails, Goto,
                redis, memory, history, SavedIsApplied
  <2>2. Settles(w)
    <3> DEFINE S == IF ack THEN acks[w] \cup {Current(w)} ELSE acks[w]
    <3>1. /\ acks' = [acks EXCEPT ![w] = S]
          /\ \E p \in {"flush", "work"} : pc' = [pc EXCEPT ![w] = p]
          /\ batch' = [batch EXCEPT ![w] = Tail(batch[w])]
      BY <2>1, AdvanceMoves
    <3>2. S \subseteq acks[w] \cup {i \in S : Stream[i] \in graph[w] \/ i \in dlq'}
      <4>1. CASE ack
        BY <2>1, <4>1 DEF Event
      <4>2. CASE ~ack
        BY <4>2
      <4>3. QED
        BY <4>1, <4>2
    <3> HIDE DEF S
    <3>3. QED
      BY <2>1, <3>1, <3>2 DEF Settles
  <2>3. QED
    BY <2>1, <2>2, SettlesKeeps DEF MemoryTyped, WorkersHave
<1>5. ASSUME NEW w \in Workers, Apply(w) \/ ApplyAndCut(w)
      PROVE  HandledInv'
  <2>1. /\ graph' = [graph EXCEPT ![w] = graph[w] \cup {Event(w)}]
        /\ applied' = applied \cup {Event(w)}
        /\ UNCHANGED <<acked, dlq>>
        /\ \E n : since' = [since EXCEPT ![w] = n]
    BY <1>5 DEF Apply, ApplyAndCut, AddToGraph, redis
  <2>2. GraphsWereApplied'
    BY <2>1 DEF GraphsWereApplied, MemoryTyped, WorkersHave
  <2>3. CASE Apply(w)
    <3>1. Advance(w, TRUE)
      BY <2>3 DEF Apply
    <3>2. PICK p \in {"flush", "work"} : pc' = [pc EXCEPT ![w] = p]
      BY <3>1, AdvanceMoves
    <3>3. acks' = [acks EXCEPT ![w] = acks[w] \cup {Current(w)}]
          /\ batch' = [batch EXCEPT ![w] = Tail(batch[w])]
      BY <3>1, AdvanceMoves
    <3>4. MemoryTyped' /\ SavedIsApplied'
      BY <2>1, <3>2, <3>3 DEF MemoryTyped, WorkersHave, SavedIsApplied, Event, Current
    <3>5. AckedIsHandled'
      BY <2>1, <3>3 DEF AckedIsHandled, MemoryTyped, WorkersHave, Event
    <3>6. QED
      BY <2>2, <3>4, <3>5
  <2>4. CASE ApplyAndCut(w)
    <3>1. pc' = [pc EXCEPT ![w] = "save"] /\ UNCHANGED <<batch, acks>>
      BY <2>4 DEF ApplyAndCut, Goto
    <3>2. MemoryTyped' /\ SavedIsApplied'
      BY <2>1, <3>1 DEF MemoryTyped, WorkersHave, SavedIsApplied, Event, Current
    <3>3. AckedIsHandled'
      BY <2>1, <3>1 DEF AckedIsHandled, MemoryTyped, WorkersHave
    <3>4. QED
      BY <2>2, <3>2, <3>3
  <2>5. QED
    BY <1>5, <2>3, <2>4
<1>6. ASSUME NEW w \in Workers, Crash(w)
      PROVE  HandledInv'
  BY <1>6 DEF Crash, redis, history, MemoryTyped, WorkersHave, GraphsWereApplied,
              SavedIsApplied, Event, Current, AckedIsHandled
<1>7. QED
  BY <1>1, <1>2, <1>3, <1>4, <1>5, <1>6 DEF Next, Process, Misfortune, Idle

\* The inductive invariant: what leaves the pending list was in a graph first.
THEOREM HandledInvariance == Spec => []HandledInv
<1>1. Init => HandledInv
  BY DEF Init, HandledInv, MemoryTyped, WorkersHave, GraphsWereApplied, SavedIsApplied,
         AckedIsHandled
<1>2. HandledInv /\ [Next]_vars => HandledInv'
  BY HandledStep
<1>3. QED
  BY <1>1, <1>2, PTL DEF Spec

\* AckedIsHandled: no message is acknowledged (_flush_acks) unless its event entered
\* a graph or it was copied to the dead-letter stream, whatever crashes and fails.
THEOREM NothingDropped == Spec => []AckedIsHandled
BY HandledInvariance, PTL DEF HandledInv

-----------------------------------------------------------------------------
(* Remainders: induction-free facts about % *)

LEMMA Division ==
  ASSUME NEW c \in Nat, NEW N \in Nat \ {0}
  PROVE  c \div N \in Nat /\ c % N \in 0 .. N - 1 /\ c = N * (c \div N) + (c % N)
BY SMTT(30)

LEMMA OneRemainder ==
  ASSUME NEW N \in Nat \ {0}, NEW q \in Nat, NEW p \in Nat,
         NEW r \in 0 .. N - 1, NEW s \in 0 .. N - 1, N * q + r = N * p + s
  PROVE  r = s
BY SMTT(30)

LEMMA NextRemainder ==
  ASSUME NEW c \in Nat, NEW N \in Nat \ {0}
  PROVE  (c + 1) % N = IF (c % N) + 1 < N THEN (c % N) + 1 ELSE 0
<1> DEFINE q == c \div N
           r == c % N
           p == (c + 1) \div N
           s == (c + 1) % N
<1>1. q \in Nat /\ r \in 0 .. N - 1 /\ c = N * q + r
  BY Division
<1>2. p \in Nat /\ s \in 0 .. N - 1 /\ c + 1 = N * p + s
  <2>1. c + 1 \in Nat
    OBVIOUS
  <2>2. QED
    BY <2>1, Division
<1> HIDE DEF q, r, p, s
<1>3. CASE r + 1 < N
  <2>1. N * q + (r + 1) = N * p + s
    BY <1>1, <1>2
  <2>2. r + 1 \in 0 .. N - 1
    BY <1>1, <1>3
  <2>3. s = r + 1
    BY <1>1, <1>2, <2>1, <2>2, OneRemainder
  <2>4. QED
    BY <1>3, <2>3 DEF r, s
<1>4. CASE r + 1 >= N
  <2>1. N * (q + 1) + 0 = N * p + s
    BY <1>1, <1>2, <1>4
  <2>2. q + 1 \in Nat /\ 0 \in 0 .. N - 1
    BY <1>1
  <2>3. s = 0
    BY <1>2, <2>1, <2>2, OneRemainder
  <2>4. ~ (r + 1 < N)
    BY <1>1, <1>4
  <2>5. QED
    BY <2>3, <2>4 DEF r, s
<1>5. QED
  BY <1>1, <1>3, <1>4

LEMMA ZeroRemainder == 0 % CutSize = 0
<1>1. CutSize \in Nat \ {0}
  BY SizesAssumption
<1>2. CutSize * 0 + 0 = CutSize * (0 \div CutSize) + (0 % CutSize)
  BY <1>1, Division
<1>3. QED
  BY <1>1, <1>2, Division, OneRemainder

-----------------------------------------------------------------------------
(* Counting and cutting *)

\* A graph is finite, and the counter is its size since the last cut.
Counted ==
  \A w \in Workers : IsFiniteSet(graph[w]) /\ since[w] = Cardinality(graph[w]) % CutSize

\* While a snapshot is being saved the counter stands where the cut put it.
CutIsFresh == \A w \in Workers : pc[w] = "save" => since[w] = 0

CountInv == HandledInv /\ Counted /\ CutIsFresh /\ SnapshotsAreWhole

LEMMA OneMore ==
  ASSUME CountInv, NEW w \in Workers, AddToGraph(w)
  PROVE  /\ IsFiniteSet(graph'[w]) /\ graph'[w] = graph[w] \cup {Event(w)}
         /\ \A v \in Workers \ {w} : graph'[v] = graph[v]
         /\ Cardinality(graph'[w]) % CutSize
              = IF since[w] + 1 < CutSize THEN since[w] + 1 ELSE 0
<1>1. graph' = [graph EXCEPT ![w] = graph[w] \cup {Event(w)}] /\ Event(w) \notin graph[w]
  BY DEF AddToGraph
<1>2. graph'[w] = graph[w] \cup {Event(w)} /\ \A v \in Workers \ {w} : graph'[v] = graph[v]
  BY <1>1 DEF CountInv, HandledInv, MemoryTyped, WorkersHave
<1>3. IsFiniteSet(graph[w]) /\ since[w] = Cardinality(graph[w]) % CutSize
  BY DEF CountInv, Counted
<1>4. IsFiniteSet(graph'[w]) /\ Cardinality(graph'[w]) = Cardinality(graph[w]) + 1
  <2>1. IsFiniteSet(graph[w] \cup {Event(w)})
        /\ Cardinality(graph[w] \cup {Event(w)}) = Cardinality(graph[w]) + 1
    BY <1>1, <1>3, FS_AddElement
  <2>2. QED
    BY <1>2, <2>1
<1>5. Cardinality(graph[w]) \in Nat
  BY <1>3, FS_CardinalityType
<1>6. CutSize \in Nat \ {0}
  BY SizesAssumption
<1>7. QED
  BY <1>2, <1>3, <1>4, <1>5, <1>6, NextRemainder

LEMMA CountStep ==
  ASSUME CountInv, [Next]_vars
  PROVE  CountInv'
<1>1. HandledInv'
  BY HandledStep DEF CountInv
<1> USE DEF CountInv
<1>2. ASSUME UNCHANGED <<graph, since, saved>>,
             \A w \in Workers : pc'[w] = "save" => pc[w] = "save"
      PROVE  CountInv'
  BY <1>1, <1>2 DEF Counted, CutIsFresh, SnapshotsAreWhole
<1>3. ASSUME NEW w \in Workers, Apply(w)
      PROVE  CountInv'
  <2>1. since[w] + 1 < CutSize /\ since' = [since EXCEPT ![w] = since[w] + 1]
        /\ saved' = saved /\ AddToGraph(w)
    BY <1>3 DEF Apply
  <2>2. \E p \in {"flush", "work"} : pc' = [pc EXCEPT ![w] = p]
    BY <1>3, AdvanceMoves DEF Apply
  <2>3. since'[w] = since[w] + 1 /\ \A v \in Workers \ {w} : since'[v] = since[v]
    BY <2>1 DEF HandledInv, MemoryTyped, WorkersHave
  <2>4. Counted'
    BY <2>1, <2>3, OneMore DEF Counted
  <2>5. CutIsFresh'
    BY <2>2, <2>3 DEF CutIsFresh, HandledInv, MemoryTyped, WorkersHave
  <2>6. QED
    BY <1>1, <2>1, <2>4, <2>5 DEF SnapshotsAreWhole
<1>4. ASSUME NEW w \in Workers, ApplyAndCut(w)
      PROVE  CountInv'
  <2>1. since[w] + 1 >= CutSize /\ since' = [since EXCEPT ![w] = 0]
        /\ saved' = saved /\ AddToGraph(w) /\ pc' = [pc EXCEPT ![w] = "save"]
    BY <1>4 DEF ApplyAndCut, Goto
  <2>2. since'[w] = 0 /\ \A v \in Workers \ {w} : since'[v] = since[v]
    BY <2>1 DEF HandledInv, MemoryTyped, WorkersHave
  <2>3. ~ (since[w] + 1 < CutSize)
    <3>1. Cardinality(graph[w]) \in Nat /\ CutSize \in Nat \ {0}
      BY FS_CardinalityType, SizesAssumption DEF Counted
    <3>2. since[w] \in Nat
      BY <3>1, Division DEF Counted
    <3>3. QED
      BY <2>1, <3>1, <3>2
  <2>4. Counted'
    BY <2>1, <2>2, <2>3, OneMore DEF Counted
  <2>5. CutIsFresh'
    BY <2>1, <2>2 DEF CutIsFresh, HandledInv, MemoryTyped, WorkersHave
  <2>6. QED
    BY <1>1, <2>1, <2>4, <2>5 DEF SnapshotsAreWhole
<1>5. ASSUME NEW w \in Workers, SaveSnapshot(w)
      PROVE  CountInv'
  <2>1. saved' = saved \cup {[trigger |-> Event(w), graph |-> graph[w]]}
        /\ pc[w] = "save" /\ UNCHANGED <<graph, since>> /\ Advance(w, TRUE)
    BY <1>5 DEF SaveSnapshot, memory
  <2>2. \E p \in {"flush", "work"} : pc' = [pc EXCEPT ![w] = p]
    BY <2>1, AdvanceMoves
  <2>3. Event(w) \in graph[w] /\ Cardinality(graph[w]) % CutSize = 0
    BY <2>1 DEF HandledInv, SavedIsApplied, Counted, CutIsFresh
  <2>4. SnapshotsAreWhole'
    BY <2>1, <2>3 DEF SnapshotsAreWhole
  <2>5. CutIsFresh' /\ Counted'
    BY <2>1, <2>2 DEF CutIsFresh, Counted, HandledInv, MemoryTyped, WorkersHave
  <2>6. QED
    BY <1>1, <2>4, <2>5
<1>6. ASSUME NEW w \in Workers, Crash(w)
      PROVE  CountInv'
  <2>1. /\ graph' = [graph EXCEPT ![w] = {}] /\ since' = [since EXCEPT ![w] = 0]
        /\ pc' = [pc EXCEPT ![w] = "loop"] /\ saved' = saved
    BY <1>6 DEF Crash
  <2>2. IsFiniteSet({}) /\ Cardinality({}) % CutSize = 0
    <3>1. IsFiniteSet({}) /\ Cardinality({}) = 0
      BY FS_EmptySet
    <3>2. QED
      BY <3>1, ZeroRemainder
  <2>3. Counted' /\ CutIsFresh'
    BY <2>1, <2>2 DEF Counted, CutIsFresh, HandledInv, MemoryTyped, WorkersHave
  <2>4. QED
    BY <1>1, <2>1, <2>3 DEF SnapshotsAreWhole
<1>7. ASSUME NEW w \in Workers,
             \/ Duplicate(w) \/ LeavePending(w) \/ DeadLetter(w) \/ DeadLetterFails(w)
      PROVE  CountInv'
  <2>1. UNCHANGED <<graph, since, saved>> /\ \E ack \in BOOLEAN : Advance(w, ack)
    BY <1>7 DEF Duplicate, LeavePending, DeadLetter, DeadLetterFails, memory
  <2>2. \E p \in {"flush", "work"} : pc' = [pc EXCEPT ![w] = p]
    BY <2>1, AdvanceMoves
  <2>3. QED
    BY <1>2, <2>1, <2>2 DEF HandledInv, MemoryTyped, WorkersHave
<1>8. ASSUME NEW w \in Workers,
             \/ Read(w) \/ (\E T \in SUBSET Pending : Reclaim(w, T))
             \/ ReadReplyLost(w) \/ ReclaimReplyLost(w) \/ IdleFlush(w) \/ SaveFails(w)
             \/ Reject(w) \/ GiveUp(w) \/ ReclaimAborts(w) \/ Flush(w) \/ FlushFails(w)
      PROVE  CountInv'
  <2>1. /\ UNCHANGED <<graph, since, saved>>
        /\ pc' = pc \/ \E p : p # "save" /\ pc' = [pc EXCEPT ![w] = p]
    BY <1>8 DEF Read, Reclaim, ReadReplyLost, ReclaimReplyLost, IdleFlush, SaveFails, Reject,
                GiveUp, ReclaimAborts, Flush, FlushFails, AfterFlush, Goto, memory
  <2>2. QED
    BY <1>2, <2>1 DEF HandledInv, MemoryTyped, WorkersHave
<1>9. CASE UNCHANGED vars
  BY <1>2, <1>9 DEF vars, memory
<1>10. QED
  BY <1>2, <1>3, <1>4, <1>5, <1>6, <1>7, <1>8, <1>9 DEF Next, Process, Misfortune, Idle

\* The inductive invariant: the counter and the graph agree, and a snapshot is
\* saved of the graph as it was cut.
THEOREM CountInvariance == Spec => []CountInv
<1>1. Init => CountInv
  <2>1. Init => HandledInv
    BY DEF Init, HandledInv, MemoryTyped, WorkersHave, GraphsWereApplied, SavedIsApplied,
           AckedIsHandled
  <2>2. IsFiniteSet({}) /\ Cardinality({}) = 0
    BY FS_EmptySet
  <2>3. QED
    BY <2>1, <2>2, ZeroRemainder DEF Init, CountInv, Counted, CutIsFresh, SnapshotsAreWhole
<1>2. CountInv /\ [Next]_vars => CountInv'
  BY CountStep
<1>3. QED
  BY <1>1, <1>2, PTL DEF Spec

\* EventsCountOnce: the idempotency index keeps redelivered and duplicated messages
\* out of the count of events since the last cut.
THEOREM CountsOnce == Spec => []EventsCountOnce
<1>1. CountInv => EventsCountOnce
  BY DEF CountInv, Counted, EventsCountOnce
<1>2. QED
  BY <1>1, CountInvariance, PTL

\* SnapshotsAreWhole: save_snapshot, awaited after the counter was reset, saves a
\* full number of batches with the event that completed the last.
THEOREM WholeSnapshots == Spec => []SnapshotsAreWhole
BY CountInvariance, PTL DEF CountInv
=============================================================================
