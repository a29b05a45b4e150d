--------------------------- MODULE GraphConsumer ---------------------------
(***************************************************************************)
(* The causal-engine workers that read drift events from the Redis stream  *)
(* and apply them to their Behavioral Dependency Graph                     *)
(* (services/causal-engine/app/infrastructure/redis_consumer.py, with      *)
(* UpdateBdgUseCase and BehavioralDependencyGraph.update behind it).       *)
(*                                                                         *)
(* The stream is fixed; that its entries arrive over time is covered by    *)
(* reads of any size up to the batch.  Entries the gateway wrote twice are *)
(* two messages of one event.  A worker is one asyncio task: it interleaves*)
(* with the others, with Redis and with PostgreSQL at its awaits only.     *)
(* The graph and its idempotency index live in the worker's memory: the    *)
(* model keeps the events applied, the index is that set.  Nobody loads a  *)
(* saved snapshot, so a restarted worker begins with an empty graph.       *)
(***************************************************************************)
EXTENDS Integers, Sequences, FiniteSetsExt

CONSTANTS
  Workers,      \* worker processes; two overlap during a rolling update
  Events,       \* event ids
  Stream,       \* the entries of the stream, each the event it carries
  Rejected,     \* events CausalEventV1 rejects on this side
  ReadBatch,    \* _BATCH_SIZE: entries per XREADGROUP or XAUTOCLAIM
  AckBatch,     \* _ACK_BATCH_SIZE
  MaxAttempts,  \* _MAX_DELIVERY_ATTEMPTS
  CutSize,      \* BDG_BATCH_SIZE: events between two snapshot cuts
  MaxFaults     \* crashes and failed or unanswered calls in one behaviour

ASSUME StreamAssumption == Stream \in Seq(Events) /\ Rejected \subseteq Events
ASSUME SizesAssumption ==
  /\ {ReadBatch, AckBatch, MaxAttempts, CutSize} \subseteq Nat \ {0}
  /\ MaxFaults \in Nat

Messages == DOMAIN Stream
Snapshot == [trigger : Events, graph : SUBSET Events]

VARIABLES
  read,        \* last-delivered-id of the consumer group
  deliveries,  \* times_delivered of each message
  acked,       \* messages no longer in the pending entries list
  dlq,         \* messages copied to phantom:dlq:graph.update
  saved,       \* rows of bdg_snapshots
  pc,          \* where each worker is
  mode,        \* whether its batch was read or reclaimed
  batch,       \* what is left of its batch, the message in hand first
  acks,        \* its _pending_acks
  graph,       \* the events its graph holds = its idempotency index
  since,       \* its _events_since_snapshot
  faults,      \* faults so far
  applied,     \* history: events that entered some worker's graph
  failures     \* history: processing failures of each message

redis == <<read, deliveries, acked, dlq>>
memory == <<graph, since>>
history == <<applied, failures>>
vars == <<redis, saved, pc, mode, batch, acks, memory, faults, history>>

Pending == (1 .. read) \ acked
Current(w) == Head(batch[w])
Event(w) == Stream[Current(w)]

TypeOK ==
  /\ read \in 0 .. Len(Stream)
  /\ deliveries \in [Messages -> Nat]
  /\ acked \subseteq Messages
  /\ dlq \subseteq Messages
  /\ saved \subseteq Snapshot
  /\ pc \in [Workers -> {"loop", "work", "save", "failed", "dead_letter", "flush"}]
  /\ mode \in [Workers -> {"read", "reclaim"}]
  /\ batch \in [Workers -> Seq(Messages)]
  /\ acks \in [Workers -> SUBSET Messages]
  /\ graph \in [Workers -> SUBSET Events]
  /\ since \in [Workers -> 0 .. CutSize - 1]
  /\ faults \in 0 .. MaxFaults
  /\ applied \subseteq Events
  /\ failures \in [Messages -> Nat]

Init ==
  /\ read = 0
  /\ deliveries = [i \in Messages |-> 0]
  /\ acked = {} /\ dlq = {} /\ saved = {}
  /\ pc = [w \in Workers |-> "loop"]
  /\ mode = [w \in Workers |-> "read"]
  /\ batch = [w \in Workers |-> <<>>]
  /\ acks = [w \in Workers |-> {}]
  /\ graph = [w \in Workers |-> {}]
  /\ since = [w \in Workers |-> 0]
  /\ faults = 0
  /\ applied = {}
  /\ failures = [i \in Messages |-> 0]

Fault == faults < MaxFaults /\ faults' = faults + 1

Goto(w, from, to) == pc[w] = from /\ pc' = [pc EXCEPT ![w] = to]

\* Done with the message in hand, to be acknowledged or not: the next one, or
\* a flush when the batch is over.  Only the read loop flushes in between.
Advance(w, ack) ==
  /\ acks' = [acks EXCEPT ![w] = IF ack THEN @ \cup {Current(w)} ELSE @]
  /\ batch' = [batch EXCEPT ![w] = Tail(@)]
  /\ pc' = [pc EXCEPT ![w] =
              IF \/ Tail(batch[w]) = <<>>
                 \/ mode[w] = "read" /\ Cardinality(acks'[w]) >= AckBatch
              THEN "flush" ELSE "work"]

-----------------------------------------------------------------------------
(* Faulty variants of the actions below: the bugs the properties must catch *)

\* The graph has no idempotency index: every delivery counts.
AddAgain(w) ==
  /\ Event(w) \notin Rejected
  /\ graph' = [graph EXCEPT ![w] = @ \cup {Event(w)}]
  /\ applied' = applied \cup {Event(w)}

\* The result of _handle_dead_letter is ignored.
AcknowledgedAnyway(w) ==
  /\ pc[w] = "dead_letter" /\ Fault
  /\ dlq' \in {dlq, dlq \cup {Current(w)}}
  /\ Advance(w, TRUE)
  /\ UNCHANGED <<read, deliveries, acked, saved, mode, memory, history>>

\* A restarted worker restores the counter, not the graph.
RestartWithCounter(w) ==
  /\ Fault
  /\ pc' = [pc EXCEPT ![w] = "loop"]
  /\ batch' = [batch EXCEPT ![w] = <<>>]
  /\ acks' = [acks EXCEPT ![w] = {}]
  /\ graph' = [graph EXCEPT ![w] = {}]
  /\ UNCHANGED <<redis, saved, mode, since, history>>

\* A message delivered as often as it may be is no longer claimed.
ClaimWithAttemptsLeft(S) ==
  /\ S # {} /\ S \subseteq {i \in Pending : deliveries[i] < MaxAttempts}
  /\ Cardinality(S) <= ReadBatch
  /\ deliveries' = [i \in Messages |-> IF i \in S THEN deliveries[i] + 1 ELSE deliveries[i]]

-----------------------------------------------------------------------------
(* Taking messages *)

\* XREADGROUP ">" gives the next entries, to one worker of the group, once.
Deliver(k) ==
  /\ read + k <= Len(Stream)
  /\ read' = read + k
  /\ deliveries' = [i \in Messages |-> IF i \in read + 1 .. read + k THEN 1 ELSE deliveries[i]]

Read(w) ==
  /\ Goto(w, "loop", "work")
  /\ \E k \in 1 .. ReadBatch :
       /\ Deliver(k)
       /\ batch' = [batch EXCEPT ![w] = [j \in 1 .. k |-> read + j]]
  /\ mode' = [mode EXCEPT ![w] = "read"]
  /\ UNCHANGED <<acked, dlq, saved, acks, memory, faults, history>>

\* The entries are in the pending list, but the worker never sees them.
ReadReplyLost(w) ==
  /\ pc[w] = "loop" /\ Fault
  /\ \E k \in 1 .. ReadBatch : Deliver(k)
  /\ UNCHANGED <<acked, dlq, saved, pc, mode, batch, acks, memory, history>>

\* XAUTOCLAIM takes over entries idle for 30 s, whoever they were delivered
\* to, and counts a delivery.  Which ones are idle is a matter of time: the
\* model lets it be any of the pending ones.
Claim(S) ==
  /\ S # {} /\ S \subseteq Pending /\ Cardinality(S) <= ReadBatch
  /\ deliveries' = [i \in Messages |-> IF i \in S THEN deliveries[i] + 1 ELSE deliveries[i]]

InOrder(S) == CHOOSE s \in [1 .. Cardinality(S) -> S] :
                \A i, j \in 1 .. Cardinality(S) : i < j => s[i] < s[j]

Reclaim(w, S) ==
  /\ Goto(w, "loop", "work")
  /\ Claim(S)
  /\ batch' = [batch EXCEPT ![w] = InOrder(S)]
  /\ mode' = [mode EXCEPT ![w] = "reclaim"]
  /\ UNCHANGED <<read, acked, dlq, saved, acks, memory, faults, history>>

ReclaimReplyLost(w) ==
  /\ pc[w] = "loop" /\ Fault
  /\ \E S \in SUBSET Pending : Claim(S)
  /\ UNCHANGED <<read, acked, dlq, saved, pc, mode, batch, acks, memory, history>>

-----------------------------------------------------------------------------
(* _process_message *)

\* The index knows the event: an empty mutation, and success.
Duplicate(w) ==
  /\ pc[w] = "work"
  /\ Event(w) \in graph[w] \ Rejected
  /\ Advance(w, TRUE)
  /\ UNCHANGED <<redis, saved, mode, memory, faults, history>>

AddToGraph(w) ==
  /\ Event(w) \notin graph[w] \cup Rejected
  /\ graph' = [graph EXCEPT ![w] = @ \cup {Event(w)}]
  /\ applied' = applied \cup {Event(w)}

Apply(w) ==
  /\ pc[w] = "work"
  /\ AddToGraph(w)
  /\ since[w] + 1 < CutSize
  /\ since' = [since EXCEPT ![w] = @ + 1]
  /\ Advance(w, TRUE)
  /\ UNCHANGED <<redis, saved, mode, faults, failures>>

\* The event completes a batch: the graph cuts a snapshot and resets its
\* counter before the use case awaits save_snapshot.
ApplyAndCut(w) ==
  /\ Goto(w, "work", "save")
  /\ AddToGraph(w)
  /\ since[w] + 1 >= CutSize
  /\ since' = [since EXCEPT ![w] = 0]
  /\ UNCHANGED <<redis, saved, mode, batch, acks, faults, failures>>

SaveSnapshot(w) ==
  /\ pc[w] = "save"
  /\ saved' = saved \cup {[trigger |-> Event(w), graph |-> graph[w]]}
  /\ Advance(w, TRUE)
  /\ UNCHANGED <<redis, mode, memory, faults, applied, failures>>

CountFailure(w) == failures' = [failures EXCEPT ![Current(w)] = @ + 1]

SaveFails(w) ==
  /\ Goto(w, "save", "failed") /\ Fault
  /\ CountFailure(w)
  /\ UNCHANGED <<redis, saved, mode, batch, acks, memory, applied>>

Reject(w) ==
  /\ Goto(w, "work", "failed")
  /\ Event(w) \in Rejected
  /\ CountFailure(w)
  /\ UNCHANGED <<redis, saved, mode, batch, acks, memory, faults, applied>>

-----------------------------------------------------------------------------
(* After a failure *)

\* The read loop counts attempts in memory, and each message is read once: its
\* count is 1.  A reclaim asks Redis (1 when the entry is gone by now).
AttemptsOf(w) ==
  IF mode[w] = "reclaim" /\ Current(w) \in Pending THEN deliveries[Current(w)] ELSE 1

LeavePending(w) ==
  /\ pc[w] = "failed" /\ AttemptsOf(w) < MaxAttempts
  /\ Advance(w, FALSE)
  /\ UNCHANGED <<redis, saved, mode, memory, faults, history>>

GiveUp(w) ==
  /\ Goto(w, "failed", "dead_letter")
  /\ AttemptsOf(w) >= MaxAttempts
  /\ UNCHANGED <<redis, saved, mode, batch, acks, memory, faults, history>>

\* The question to Redis fails: the reclaim gives up the rest of its batch,
\* without a flush.
ReclaimAborts(w) ==
  /\ Goto(w, "failed", "loop") /\ Fault
  /\ mode[w] = "reclaim"
  /\ batch' = [batch EXCEPT ![w] = <<>>]
  /\ UNCHANGED <<redis, saved, mode, acks, memory, history>>

DeadLetter(w) ==
  /\ pc[w] = "dead_letter"
  /\ dlq' = dlq \cup {Current(w)}
  /\ Advance(w, TRUE)
  /\ UNCHANGED <<read, deliveries, acked, saved, mode, memory, faults, history>>

\* XADD to the dead-letter stream raises, done or not: no acknowledgement.
DeadLetterFails(w) ==
  /\ pc[w] = "dead_letter" /\ Fault
  /\ dlq' \in {dlq, dlq \cup {Current(w)}}
  /\ Advance(w, FALSE)
  /\ UNCHANGED <<read, deliveries, acked, saved, mode, memory, history>>

-----------------------------------------------------------------------------
(* Acknowledging *)

AfterFlush(w) ==
  /\ pc[w] = "flush"
  /\ pc' = [pc EXCEPT ![w] = IF batch[w] = <<>> THEN "loop" ELSE "work"]

\* XACK of the whole list.  When some were gone already the count differs and
\* each is looked up again: none is pending any more, the list ends empty.
Flush(w) ==
  /\ AfterFlush(w)
  /\ acked' = acked \cup acks[w]
  /\ acks' = [acks EXCEPT ![w] = {}]
  /\ UNCHANGED <<read, deliveries, dlq, saved, mode, batch, memory, faults, history>>

\* An exception keeps the list for the next flush, whatever XACK did.
FlushFails(w) ==
  /\ acks[w] # {}
  /\ AfterFlush(w) /\ Fault
  /\ acked' \in {acked, acked \cup acks[w]}
  /\ UNCHANGED <<read, deliveries, dlq, saved, mode, batch, acks, memory, history>>

\* A read that times out flushes what an earlier flush left.
IdleFlush(w) ==
  /\ acks[w] # {}
  /\ Goto(w, "loop", "flush")
  /\ UNCHANGED <<redis, saved, mode, batch, acks, memory, faults, history>>

-----------------------------------------------------------------------------
\* The process dies and the pod starts again, with nothing in its memory.
Crash(w) ==
  /\ Fault
  /\ pc' = [pc EXCEPT ![w] = "loop"]
  /\ batch' = [batch EXCEPT ![w] = <<>>]
  /\ acks' = [acks EXCEPT ![w] = {}]
  /\ graph' = [graph EXCEPT ![w] = {}]
  /\ since' = [since EXCEPT ![w] = 0]
  /\ UNCHANGED <<redis, saved, mode, history>>

Process(w) ==
  \/ Duplicate(w) \/ Apply(w) \/ ApplyAndCut(w) \/ SaveSnapshot(w) \/ Reject(w)
  \/ LeavePending(w) \/ GiveUp(w) \/ DeadLetter(w) \/ Flush(w)

Misfortune(w) ==
  \/ ReadReplyLost(w) \/ ReclaimReplyLost(w) \/ SaveFails(w) \/ ReclaimAborts(w)
  \/ DeadLetterFails(w) \/ FlushFails(w) \/ Crash(w)

\* Everything read is acknowledged and the workers wait for new entries.
Idle ==
  /\ \A w \in Workers : pc[w] = "loop"
  /\ read = Len(Stream) /\ Pending = {}
  /\ UNCHANGED vars

Next ==
  \/ \E w \in Workers :
       \/ Read(w) \/ IdleFlush(w) \/ Process(w) \/ Misfortune(w)
       \/ \E S \in SUBSET Pending : Reclaim(w, S)
  \/ Idle

\* A worker goes on with what it has in hand, and while entries are pending some
\* worker reclaims again and again: at its start and at every sixth round of its
\* loop, and an entry that nobody touches for 30 s is idle.  Nothing is assumed
\* of new reads, nor of the flush after a read that times out.
Fairness ==
  /\ \A w \in Workers : WF_vars(Process(w))
  /\ SF_vars(\E w \in Workers : \E S \in SUBSET Pending : Reclaim(w, S))

Spec == Init /\ [][Next]_vars /\ Fairness

-----------------------------------------------------------------------------
(* Properties *)

\* No message leaves the pending list unless its event entered a graph or the
\* message was copied to the dead-letter stream: through crashes, redelivery to
\* another worker and flushes that fail, nothing is dropped.  What a worker is about
\* to acknowledge is in its own graph, not only in that of one which has since died.
AckedIsHandled ==
  /\ \A i \in acked : Stream[i] \in applied \/ i \in dlq
  /\ \A w \in Workers : \A i \in acks[w] : Stream[i] \in graph[w] \/ i \in dlq

\* Redelivered and duplicated messages count once: the counter of events since
\* the last cut agrees with the number of distinct events in the graph.
EventsCountOnce ==
  \A w \in Workers : since[w] = Cardinality(graph[w]) % CutSize

\* A snapshot is saved of a full number of batches, and holds the event that
\* completed it, although the save runs after the counter was reset and may
\* be repeated by another worker.
SnapshotsAreWhole ==
  \A s \in saved :
    /\ s.trigger \in s.graph
    /\ s.graph # {} /\ Cardinality(s.graph) % CutSize = 0

\* Every delivered message is settled in the end, however its worker died or
\* lost it, provided the faults end.
EveryDeliverySettles ==
  \A i \in Messages : (i <= read) ~> (i \in acked)

\* "After _MAX_DELIVERY_ATTEMPTS consecutive processing failures for the same
\* message ID" (redis_consumer.py:33).  Violated: times_delivered also counts
\* deliveries that were never processed.
DeadLettersFailedEnough ==
  \A i \in dlq : failures[i] >= MaxAttempts
=============================================================================
