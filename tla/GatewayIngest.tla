--------------------------- MODULE GatewayIngest ---------------------------
(***************************************************************************)
(* Drift-event ingestion by the replicas of the api-gateway                *)
(* (services/api-gateway/app/application/commands.py,                      *)
(* IngestDriftEventCommand): the transactional outbox in PostgreSQL, the   *)
(* publication of the outbox row to the Redis stream, and the answer.      *)
(*                                                                         *)
(* One request handler is one process; it takes one action per awaited     *)
(* database or Redis call, so the handlers of all replicas interleave      *)
(* where the event loop lets them.  PostgreSQL runs at READ COMMITTED: the *)
(* rows a transaction wrote are invisible to others until Commit, but its  *)
(* entry in the unique index already blocks an insert of the same event.   *)
(*                                                                         *)
(* The surrogate ids (drift_event_id, bdg_update_id) are fresh uuids drawn *)
(* by one request, so a row is identified by the request that inserted it. *)
(***************************************************************************)
EXTENDS Integers, Sequences

CONSTANTS
  Requests,      \* POST /api/v1/drift-events calls
  Replicas,      \* gateway processes (api-gateway-deployment.yaml: replicas: 2)
  Events,        \* agent-supplied (event_id, tenant_id) pairs
  Routes,        \* what each request may carry, and where it may be routed
  LockKey,       \* hash(str(event_id)) as each replica computes it
  Unpublishable, \* events whose payload CausalEventV1 rejects
  Nobody         \* in the place of a request, that there is none

Route == [event : Events, replica : Replicas]

ASSUME RoutesAssumption == Routes \in [Requests -> SUBSET Route]

\* PYTHONHASHSEED is random, so every process has its own map from events to
\* keys.  Nothing is assumed of it: keys may collide across events, replicas.
ASSUME LockKeyAssumption == LockKey \in [Replicas \X Events -> Nat]

ASSUME PayloadAssumption == Unpublishable \subseteq Events
ASSUME NobodyAssumption == Nobody \notin Requests

VARIABLES
  driftEvents,  \* committed rows of drift_events
  outbox,       \* status of the graph_mutations_outbox row of each request
  stream,       \* phantom:stream of BDG mutations, in XADD order
  fanout,       \* rows announced to the WebSocket subscribers
  pc,           \* where each handler is
  target,       \* row id the handler is publishing
  answer,       \* what the handler has decided to answer
  route         \* the event each request carries and its replica; never changes

vars == <<driftEvents, outbox, stream, fanout, pc, target, answer, route>>
durable == <<driftEvents, outbox>>

Row == [event : Events, id : Requests]
Statuses == {"absent", "pending", "failed", "published"}
HandlerStates ==
  {"idle", "lookup", "lock", "recheck", "insert", "outbox", "commit",
   "get_outbox", "xadd", "mark_published", "mark_failed", "fanout", "done", "crashed"}
NoAnswer == [status |-> "none", delivery |-> "none"]
Answers == [status : {"none", "accepted", "duplicate", "conflict", "error"},
            delivery : {"none", "published", "pending"}]

\* A handler whose transaction is open, and one that has written in it.
InTransaction(r) == pc[r] \in {"recheck", "insert", "outbox", "commit"}
HasInserted(r) == pc[r] \in {"outbox", "commit"}
Answered(r) == pc[r] = "done"
Active(r) == pc[r] \notin {"idle", "done", "crashed"}

EventOf(r) == route[r].event
ReplicaOf(r) == route[r].replica
Key(r) == LockKey[<<ReplicaOf(r), EventOf(r)>>]
RowsOf(e) == {row \in driftEvents : row.event = e}
MessagesOf(id) == {i \in DOMAIN stream : stream[i].id = id}

TypeOK ==
  /\ driftEvents \subseteq Row
  /\ outbox \in [Requests -> Statuses]
  /\ stream \in Seq(Row)
  /\ fanout \subseteq Requests
  /\ pc \in [Requests -> HandlerStates]
  /\ target \in [Requests -> Requests]
  /\ answer \in [Requests -> Answers]
  /\ route \in [Requests -> Route]

Init ==
  /\ driftEvents = {}
  /\ outbox = [r \in Requests |-> "absent"]
  /\ stream = <<>>
  /\ fanout = {}
  /\ pc = [r \in Requests |-> "idle"]
  /\ target = [r \in Requests |-> r]
  /\ answer = [r \in Requests |-> NoAnswer]
  /\ route \in {f \in [Requests -> Route] : \A r \in Requests : f[r] \in Routes[r]}

-----------------------------------------------------------------------------
(* Control-flow helpers *)

Goto(r, from, to) == pc[r] = from /\ pc' = [pc EXCEPT ![r] = to]

\* The handler leaves with an answer.  An open transaction ends here, which
\* releases the advisory lock and, unless it has committed, rolls it back.
Reply(r, status, delivery) ==
  /\ pc' = [pc EXCEPT ![r] = "done"]
  /\ answer' = [answer EXCEPT ![r] = [status |-> status, delivery |-> delivery]]

\* _publish_outbox_record returns ok: the creator of the row goes on to the
\* fan-out, a handler that found the row answers "duplicate".
PublishReturns(r, ok) ==
  LET delivery == IF ok THEN "published" ELSE "pending"
  IN IF target[r] = r
     THEN /\ pc' = [pc EXCEPT ![r] = "fanout"]
          /\ answer' = [answer EXCEPT ![r] =
                          [status |-> "accepted", delivery |-> delivery]]
     ELSE Reply(r, "duplicate", delivery)

-----------------------------------------------------------------------------
(* Faulty variants of the actions below: the bugs the properties must catch *)

\* The advisory lock is not taken.
NoAdvisoryLock(r) ==
  /\ Goto(r, "lock", "recheck")
  /\ UNCHANGED <<durable, stream, fanout, target, answer>>

\* The unique violation is caught and the INSERT tried again.
RetryInsert(r) ==
  /\ pc[r] = "insert" /\ RowsOf(EventOf(r)) # {}
  /\ UNCHANGED <<durable, stream, fanout, pc, target, answer>>

\* The outbox row is written on a connection of its own.
OutboxOutsideTransaction(r) ==
  /\ Goto(r, "outbox", "commit")
  /\ outbox' = [outbox EXCEPT ![r] = "pending"]
  /\ UNCHANGED <<driftEvents, stream, fanout, target, answer>>

\* An exception of XADD is swallowed before the row is marked.
XaddErrorIgnored(r) ==
  /\ Goto(r, "xadd", "mark_published")
  /\ UNCHANGED <<durable, stream, fanout, target, answer>>

\* An exception of mark_outbox_published is swallowed.
MarkPublishedErrorIgnored(r) ==
  /\ pc[r] = "mark_published"
  /\ PublishReturns(r, TRUE)
  /\ UNCHANGED <<durable, stream, fanout, target>>

-----------------------------------------------------------------------------
(* Pre-transaction fast path *)

Arrive(r) ==
  /\ Goto(r, "idle", "lookup")
  /\ UNCHANGED <<durable, stream, fanout, target, answer, route>>

\* get_by_event_id finds a committed row: publish it again, answer duplicate.
LookupHit(r) ==
  /\ Goto(r, "lookup", "get_outbox")
  /\ \E row \in RowsOf(EventOf(r)) : target' = [target EXCEPT ![r] = row.id]
  /\ UNCHANGED <<durable, stream, fanout, answer>>

\* No row yet: the SBOM binding is resolved (an await that changes no state)
\* and the payload built before the transaction begins.
LookupMiss(r) ==
  /\ RowsOf(EventOf(r)) = {}
  /\ Goto(r, "lookup", "lock")
  /\ UNCHANGED <<durable, stream, fanout, target, answer>>

-----------------------------------------------------------------------------
(* The transaction *)

\* pg_advisory_xact_lock: held until the transaction of its holder ends.
AcquireLock(r) ==
  /\ \A q \in Requests : InTransaction(q) => Key(q) # Key(r)
  /\ Goto(r, "lock", "recheck")
  /\ UNCHANGED <<durable, stream, fanout, target, answer>>

\* The in-transaction check finds a row: answer at once, publish nothing.
RecheckHit(r) ==
  /\ pc[r] = "recheck"
  /\ RowsOf(EventOf(r)) # {}
  /\ Reply(r, "duplicate", "none")
  /\ UNCHANGED <<durable, stream, fanout, target>>

RecheckMiss(r) ==
  /\ RowsOf(EventOf(r)) = {}
  /\ Goto(r, "recheck", "insert")
  /\ UNCHANGED <<durable, stream, fanout, target, answer>>

\* The unique index on (event_id, tenant_id) makes the INSERT wait for an
\* open transaction that has inserted the same event ...
InsertEvent(r) ==
  /\ RowsOf(EventOf(r)) = {}
  /\ \A q \in Requests : HasInserted(q) => EventOf(q) # EventOf(r)
  /\ Goto(r, "insert", "outbox")
  /\ UNCHANGED <<durable, stream, fanout, target, answer>>

\* ... and fail with UniqueViolationError when that one has committed.
InsertConflict(r) ==
  /\ pc[r] = "insert"
  /\ RowsOf(EventOf(r)) # {}
  /\ Reply(r, "conflict", "none")
  /\ UNCHANGED <<durable, stream, fanout, target>>

\* insert_outbox_record and update_event_outbox_id, both inside the
\* transaction and on its own rows.
InsertOutbox(r) ==
  /\ Goto(r, "outbox", "commit")
  /\ UNCHANGED <<durable, stream, fanout, target, answer>>

CommitRows(r) ==
  /\ driftEvents' = driftEvents \cup {[event |-> EventOf(r), id |-> r]}
  /\ outbox' = [outbox EXCEPT ![r] = "pending"]

Commit(r) ==
  /\ Goto(r, "commit", "get_outbox")
  /\ CommitRows(r)
  /\ target' = [target EXCEPT ![r] = r]
  /\ UNCHANGED <<stream, fanout, answer>>

\* The commit took effect but the connection broke before its reply.
CommitReplyLost(r) ==
  /\ pc[r] = "commit"
  /\ CommitRows(r)
  /\ Reply(r, "error", "none")
  /\ UNCHANGED <<stream, fanout, target>>

\* Any awaited database call outside the publication's try block may raise:
\* the transaction, if open, rolls back and the handler answers 500.
DatabaseError(r) ==
  /\ pc[r] \in {"lookup", "lock", "recheck", "insert", "outbox", "commit", "get_outbox"}
  /\ Reply(r, "error", "none")
  /\ UNCHANGED <<durable, stream, fanout, target, route>>

-----------------------------------------------------------------------------
(* _publish_outbox_record *)

GetOutbox(r) ==
  /\ pc[r] = "get_outbox"
  /\ IF outbox[target[r]] \in {"absent", "published"}
     THEN PublishReturns(r, outbox[target[r]] = "published")
     ELSE pc' = [pc EXCEPT ![r] = "xadd"] /\ UNCHANGED answer
  /\ UNCHANGED <<durable, stream, fanout, target>>

AppendMessage(r) ==
  /\ EventOf(r) \notin Unpublishable
  /\ stream' = Append(stream, [event |-> EventOf(r), id |-> target[r]])

Xadd(r) ==
  /\ Goto(r, "xadd", "mark_published")
  /\ AppendMessage(r)
  /\ UNCHANGED <<durable, fanout, target, answer>>

\* Redis appended the message, but the reply did not arrive.
XaddReplyLost(r) ==
  /\ Goto(r, "xadd", "mark_failed")
  /\ AppendMessage(r)
  /\ UNCHANGED <<durable, fanout, target, answer>>

\* CausalEventV1 rejects the payload, or Redis is not reachable.
XaddFails(r) ==
  /\ Goto(r, "xadd", "mark_failed")
  /\ UNCHANGED <<durable, stream, fanout, target, answer>>

\* The UPDATE is unconditional.
MarkPublished(r) ==
  /\ pc[r] = "mark_published"
  /\ outbox' = [outbox EXCEPT ![target[r]] = "published"]
  /\ PublishReturns(r, TRUE)
  /\ UNCHANGED <<driftEvents, stream, fanout, target>>

\* mark_outbox_published raises, whether or not the UPDATE took effect: the
\* same except clause handles it as handles a failed XADD.
MarkPublishedFails(r) ==
  /\ Goto(r, "mark_published", "mark_failed")
  /\ \/ UNCHANGED outbox
     \/ outbox' = [outbox EXCEPT ![target[r]] = "published"]
  /\ UNCHANGED <<driftEvents, stream, fanout, target, answer>>

\* WHERE status <> 'published'; an exception of this UPDATE is only logged.
MarkFailed(r) ==
  /\ pc[r] = "mark_failed"
  /\ \/ outbox' = [outbox EXCEPT ![target[r]] = IF @ = "published" THEN @ ELSE "failed"]
     \/ UNCHANGED outbox
  /\ PublishReturns(r, FALSE)
  /\ UNCHANGED <<driftEvents, stream, fanout, target>>

\* The fan-out runs whether or not the delivery succeeded; its exceptions are
\* swallowed.
FanOut(r) ==
  /\ Goto(r, "fanout", "done")
  /\ fanout' \in {fanout, fanout \cup {r}}
  /\ UNCHANGED <<durable, stream, target, answer>>

-----------------------------------------------------------------------------
\* A replica process dies: its handlers vanish, its connections close, and
\* PostgreSQL rolls their open transactions back.
Crash(p) ==
  /\ \E r \in Requests : ReplicaOf(r) = p /\ Active(r)
  /\ pc' = [r \in Requests |-> IF ReplicaOf(r) = p /\ Active(r) THEN "crashed" ELSE pc[r]]
  /\ UNCHANGED <<durable, stream, fanout, target, answer, route>>

Transact(r) ==
  \/ AcquireLock(r) \/ RecheckHit(r) \/ RecheckMiss(r)
  \/ InsertEvent(r) \/ InsertConflict(r) \/ InsertOutbox(r)
  \/ Commit(r) \/ CommitReplyLost(r)

Publish(r) ==
  \/ GetOutbox(r) \/ Xadd(r) \/ XaddReplyLost(r) \/ XaddFails(r)
  \/ MarkPublished(r) \/ MarkPublishedFails(r) \/ MarkFailed(r)

\* What a running handler does next.
Handle(r) ==
  /\ LookupHit(r) \/ LookupMiss(r) \/ Transact(r) \/ Publish(r) \/ FanOut(r)
  /\ UNCHANGED route

\* No request is being handled and none will arrive.
Quiescent == (\A r \in Requests : pc[r] \in {"done", "crashed"}) /\ UNCHANGED vars

Next ==
  \/ \E r \in Requests : Arrive(r) \/ Handle(r) \/ DatabaseError(r)
  \/ \E p \in Replicas : Crash(p)
  \/ Quiescent

\* The event loop and the database run every handler that can go on.  Nothing
\* obliges a client to post, a query to fail or a replica to crash.
Spec == Init /\ [][Next]_vars /\ \A r \in Requests : WF_vars(Handle(r))

-----------------------------------------------------------------------------
(* What is promised of the events, seen in this state *)

RecordOf(e) ==
  IF RowsOf(e) = {} THEN Nobody ELSE (CHOOSE row \in RowsOf(e) : TRUE).id

Delivery ==
  INSTANCE EventDelivery WITH
    Posts <- Requests,
    carries <- [r \in Requests |-> EventOf(r)],
    recorder <- [e \in Events |-> RecordOf(e)],
    sent <- {<<stream[i].event, stream[i].id>> : i \in DOMAIN stream},
    marked <- {row.event : row \in {w \in driftEvents : outbox[w.id] = "published"}},
    announced <- fanout,
    told <- [r \in Requests |-> IF Answered(r) THEN answer[r] ELSE NoAnswer]

-----------------------------------------------------------------------------
(* Properties *)

\* At most one row per event is ever committed, although two replicas hold
\* different advisory locks for it: the unique index decides.
OneRowPerEvent ==
  \A a, b \in driftEvents : a.event = b.event => a = b

\* "writes a row here atomically with every accepted drift event"
\* (002_graph_mutations_outbox.sql:5): the event row and the outbox row of a
\* request exist together or not at all, whatever failed or crashed.
OutboxMatchesEvents ==
  {row.id : row \in driftEvents} = {r \in Requests : outbox[r] # "absent"}

\* The publication never runs ahead of the commit: each message of the stream
\* carries the ids of the one row committed for its event, so all copies that
\* retries produced agree and the consumer can recognise them.
StreamOnlyCommitted ==
  \A i \in DOMAIN stream : stream[i] \in driftEvents

\* The outbox says "published" only of a row the stream holds, although the
\* status and the stream are written by two stores and several handlers.
PublishedIsInStream ==
  \A r \in Requests : outbox[r] = "published" => MessagesOf(r) # {}

\* A client is never told more than what is durable: "accepted" means the
\* request's own row, "duplicate" a row of its event, and a delivery of
\* "published" that the outbox row says so.
AnswersAreDurable ==
  \A r \in Requests : Answered(r) =>
    /\ answer[r].status = "accepted" => [event |-> EventOf(r), id |-> r] \in driftEvents
    /\ answer[r].status = "duplicate" => RowsOf(EventOf(r)) # {}
    /\ answer[r].delivery = "published" =>
         \E row \in RowsOf(EventOf(r)) : outbox[row.id] = "published"

\* Two requests for one event are never both accepted, nor is an event
\* announced to the subscribers under two ids.
AcceptedOnce ==
  \A q, r \in Requests :
    /\ EventOf(q) = EventOf(r)
    /\ \/ Answered(q) /\ Answered(r) /\ {answer[q].status, answer[r].status} = {"accepted"}
       \/ {q, r} \subseteq fanout
    => q = r

\* The advisory lock does its job where its key is shared: a request fails on
\* the unique index only when the row came from a holder of another key, that
\* is, from another replica.
ConflictOnlyAcrossKeys ==
  \A r \in Requests : answer[r].status = "conflict" =>
    \E row \in RowsOf(EventOf(r)) : Key(row.id) # Key(r)

\* A handler that saw its XADD fail never takes back the "published" another
\* handler recorded for the same row (mark_outbox_failed's WHERE clause).
PublishedIsFinal ==
  [][\A r \in Requests : outbox[r] = "published" => outbox'[r] = "published"]_vars

\* The handlers implement EventDelivery: an event is recorded once, in the step of
\* one commit; what is in the stream, marked, announced and answered is of that
\* record, also after lost replies, failed calls and crashes.
DeliversEvents == Delivery!DeliverySpec

\* Neither the advisory lock nor the wait in the unique index can block a
\* handler for ever: each request is answered, unless its replica dies.
EveryRequestEnds ==
  \A r \in Requests : (pc[r] = "lookup") ~> (pc[r] \in {"done", "crashed"})

\* "ConflictError: Not raised — duplicates are returned with status='duplicate'"
\* (commands.py:181).  Violated: the keys of two replicas differ.
DuplicatesNeverConflict ==
  \A r \in Requests : answer[r].status # "conflict"

\* "failed row requeue — periodic job retries rows where status = 'failed'"
\* (002_graph_mutations_outbox.sql:63).  Violated: nothing in the code polls
\* the outbox, only another POST of the same event publishes it again.
OutboxIsDrained ==
  \A r \in Requests :
    (outbox[r] = "failed" /\ EventOf(r) \notin Unpublishable) ~> (outbox[r] = "published")
=============================================================================
