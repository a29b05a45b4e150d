------------------------ MODULE GatewayIngestProofs ------------------------
(***************************************************************************)
(* Safety of GatewayIngest for every set of requests, replicas and events, *)
(* every routing and every map of events to lock keys.                     *)
(*                                                                         *)
(* The properties are not inductive by themselves: that one row is         *)
(* committed per event rests on where the handlers stand inside their      *)
(* transactions, which the parts of IInv state.                            *)
(***************************************************************************)
EXTENDS GatewayIngest, SequenceTheorems, TLAPS

OwnRow(r) == [event |-> EventOf(r), id |-> r]
Uncommitted == {"idle", "lookup", "lock", "recheck", "insert", "outbox", "commit"}
Publishing == {"get_outbox", "xadd", "mark_published", "mark_failed"}

RowsAreOwn == \A row \in driftEvents : row = OwnRow(row.id)

\* Before its commit a request owns no row.
UncommittedHasNoRow ==
  \A r \in Requests : pc[r] \in Uncommitted => outbox[r] = "absent"

\* The entry in the unique index excludes both rows and other open inserts.
InsertIsExclusive ==
  \A r \in Requests : HasInserted(r) =>
    /\ RowsOf(EventOf(r)) = {}
    /\ \A q \in Requests : HasInserted(q) /\ EventOf(q) = EventOf(r) => q = r

\* The advisory lock admits one open transaction per key, and what it guards:
\* a row that appears after the recheck comes from a holder of another key.
LockIsExclusive ==
  \A q, r \in Requests : InTransaction(q) /\ InTransaction(r) /\ Key(q) = Key(r) => q = r

RowsSinceRecheck ==
  \A r \in Requests : pc[r] = "insert" =>
    \A row \in RowsOf(EventOf(r)) : Key(row.id) # Key(r)

PublishesCommitted ==
  \A r \in Requests :
    /\ pc[r] \in Publishing => [event |-> EventOf(r), id |-> target[r]] \in driftEvents
    /\ pc[r] = "mark_published" => MessagesOf(target[r]) # {}
    /\ pc[r] = "fanout" \/ r \in fanout \/ answer[r].status = "accepted" =>
         OwnRow(r) \in driftEvents

DecidedIsDurable ==
  \A r \in Requests :
    /\ answer[r].status = "duplicate" => RowsOf(EventOf(r)) # {}
    /\ answer[r].delivery = "published" =>
         \E row \in RowsOf(EventOf(r)) : outbox[row.id] = "published"

\* The form of OutboxMatchesEvents that speaks of one request at a time.
RowIffOutbox ==
  \A r \in Requests : OwnRow(r) \in driftEvents <=> outbox[r] # "absent"

Core ==
  /\ RowsAreOwn
  /\ OneRowPerEvent
  /\ UncommittedHasNoRow
  /\ InsertIsExclusive
  /\ LockIsExclusive
  /\ RowsSinceRecheck
  /\ RowIffOutbox
  /\ StreamOnlyCommitted
  /\ PublishedIsInStream
  /\ PublishesCommitted
  /\ DecidedIsDurable

IInv == TypeOK /\ Core /\ ConflictOnlyAcrossKeys

-----------------------------------------------------------------------------
\* An answer leaves pc and answer well typed.
LEMMA ReplyType ==
  ASSUME TypeOK, NEW r \in Requests,
         NEW s \in {"accepted", "duplicate", "conflict", "error"},
         NEW d \in {"none", "published", "pending"},
         Reply(r, s, d)
  PROVE  /\ pc' = [pc EXCEPT ![r] = "done"]
         /\ answer' = [answer EXCEPT ![r] = [status |-> s, delivery |-> d]]
         /\ answer' \in [Requests -> Answers]
<1>1. [status |-> s, delivery |-> d] \in Answers
  BY DEF Answers
<1> QED
  BY <1>1 DEF Reply, TypeOK

\* Both ways out of _publish_outbox_record keep the types of pc and answer.
LEMMA PublishReturnsType ==
  ASSUME TypeOK, NEW r \in Requests, NEW ok \in BOOLEAN, PublishReturns(r, ok)
  PROVE  /\ pc' = [pc EXCEPT ![r] = IF target[r] = r THEN "fanout" ELSE "done"]
         /\ \E s \in {"accepted", "duplicate"}, d \in {"published", "pending"} :
              answer' = [answer EXCEPT ![r] = [status |-> s, delivery |-> d]]
         /\ answer' \in [Requests -> Answers]
<1> DEFINE d == IF ok THEN "published" ELSE "pending"
<1>1. CASE target[r] = r
  <2>1. /\ pc' = [pc EXCEPT ![r] = "fanout"]
        /\ answer' = [answer EXCEPT ![r] = [status |-> "accepted", delivery |-> d]]
    BY <1>1 DEF PublishReturns
  <2>2. [status |-> "accepted", delivery |-> d] \in Answers
    BY DEF Answers
  <2> QED
    BY <1>1, <2>1, <2>2 DEF TypeOK
<1>2. CASE target[r] # r
  <2>1. Reply(r, "duplicate", d)
    BY <1>2 DEF PublishReturns
  <2>2. d \in {"none", "published", "pending"} /\ d \in {"published", "pending"}
    OBVIOUS
  <2> HIDE DEF d
  <2> QED
    BY <1>2, <2>1, <2>2, ReplyType
<1> QED
  BY <1>1, <1>2

\* No step of a handler, and no crash, breaks a type.
LEMMA TypingStep ==
  ASSUME TypeOK, [Next]_vars
  PROVE  TypeOK'
<1> USE DEF TypeOK, HandlerStates, durable, Goto, CommitRows, AppendMessage
<1>1. ASSUME NEW r \in Requests, Arrive(r) PROVE TypeOK'
  BY <1>1 DEF Arrive
<1>2. ASSUME NEW r \in Requests, LookupHit(r) \/ LookupMiss(r), UNCHANGED route
      PROVE TypeOK'
  BY <1>2 DEF LookupHit, LookupMiss, RowsOf, Row
<1>3. ASSUME NEW r \in Requests, Transact(r), UNCHANGED route PROVE TypeOK'
  <2> USE <1>3
  <2>1. CASE AcquireLock(r) \/ RecheckMiss(r) \/ InsertEvent(r) \/ InsertOutbox(r)
    BY <2>1 DEF AcquireLock, RecheckMiss, InsertEvent, InsertOutbox
  <2>2. CASE RecheckHit(r) \/ InsertConflict(r)
    <3>1. Reply(r, "duplicate", "none") \/ Reply(r, "conflict", "none")
      BY <2>2 DEF RecheckHit, InsertConflict
    <3>2. answer' \in [Requests -> Answers] /\ pc' = [pc EXCEPT ![r] = "done"]
      BY <3>1, ReplyType
    <3> QED
      BY <2>2, <3>2 DEF RecheckHit, InsertConflict
  <2>3. CASE Commit(r) \/ CommitReplyLost(r)
    <3>1. OwnRow(r) \in Row
      BY DEF OwnRow, Row, EventOf, Route
    <3>2. CommitRows(r) => driftEvents' \subseteq Row /\ outbox' \in [Requests -> Statuses]
      BY <3>1 DEF OwnRow, Statuses
    <3>3. CASE Commit(r)
      BY <3>2, <3>3 DEF Commit
    <3>4. CASE CommitReplyLost(r)
      BY <3>2, <3>4, ReplyType DEF CommitReplyLost
    <3> QED
      BY <2>3, <3>3, <3>4
  <2> QED
    BY <1>3, <2>1, <2>2, <2>3 DEF Transact
<1>4. ASSUME NEW r \in Requests, Publish(r), UNCHANGED route PROVE TypeOK'
  <2>1. CASE GetOutbox(r)
    <3>1. CASE outbox[target[r]] \in {"absent", "published"}
      <4>1. PublishReturns(r, outbox[target[r]] = "published")
        BY <2>1, <3>1 DEF GetOutbox
      <4>2. answer' \in [Requests -> Answers] /\ pc' \in [Requests -> HandlerStates]
        BY <4>1, PublishReturnsType
      <4> QED
        BY <1>4, <2>1, <4>2 DEF GetOutbox
    <3>2. CASE outbox[target[r]] \notin {"absent", "published"}
      BY <1>4, <2>1, <3>2 DEF GetOutbox
    <3> QED
      BY <3>1, <3>2
  <2>2. CASE Xadd(r) \/ XaddReplyLost(r)
    <3>1. [event |-> EventOf(r), id |-> target[r]] \in Row
      BY DEF Row, EventOf, Route
    <3>2. AppendMessage(r)
      BY <2>2 DEF Xadd, XaddReplyLost
    <3>3. stream' \in Seq(Row)
      BY <3>1, <3>2, AppendProperties
    <3> QED
      BY <1>4, <2>2, <3>3 DEF Xadd, XaddReplyLost
  <2>3. CASE XaddFails(r)
    BY <1>4, <2>3 DEF XaddFails
  <2>4. CASE MarkPublished(r) \/ MarkPublishedFails(r) \/ MarkFailed(r)
    <3>1. CASE MarkPublishedFails(r)
      BY <1>4, <3>1 DEF MarkPublishedFails, Statuses
    <3>2. CASE MarkPublished(r) \/ MarkFailed(r)
      <4>1. PublishReturns(r, TRUE) \/ PublishReturns(r, FALSE)
        BY <3>2 DEF MarkPublished, MarkFailed
      <4>2. answer' \in [Requests -> Answers] /\ pc' \in [Requests -> HandlerStates]
        BY <4>1, PublishReturnsType
      <4> QED
        BY <1>4, <3>2, <4>2 DEF MarkPublished, MarkFailed, Statuses
    <3> QED
      BY <2>4, <3>1, <3>2
  <2> QED
    BY <1>4, <2>1, <2>2, <2>3, <2>4 DEF Publish
<1>5. ASSUME NEW r \in Requests, FanOut(r), UNCHANGED route PROVE TypeOK'
  BY <1>5 DEF FanOut
<1>6. ASSUME NEW r \in Requests, DatabaseError(r) PROVE TypeOK'
  BY <1>6, ReplyType DEF DatabaseError
<1>7. ASSUME NEW p \in Replicas, Crash(p) PROVE TypeOK'
  BY <1>7 DEF Crash
<1>8. CASE UNCHANGED vars
  BY <1>8 DEF vars
<1> QED
  BY <1>1, <1>2, <1>3, <1>4, <1>5, <1>6, <1>7, <1>8 DEF Next, Handle, Quiescent

\* Every variable keeps its type, whatever the handlers, the stores' errors and
\* the crashes do.
THEOREM Typing == Spec => []TypeOK
<1>1. Init => TypeOK
  BY DEF Init, TypeOK, HandlerStates, Statuses, Answers, NoAnswer
<1>2. TypeOK /\ [Next]_vars => TypeOK'
  BY TypingStep
<1>3. QED
  BY <1>1, <1>2, PTL DEF Spec

-----------------------------------------------------------------------------
\* A conflict once explained stays explained: rows and routes never go away.
LEMMA ConflictStable ==
  ASSUME ConflictOnlyAcrossKeys, route' = route, driftEvents \subseteq driftEvents',
         \A r \in Requests : answer'[r].status = "conflict" => answer[r].status = "conflict"
  PROVE  ConflictOnlyAcrossKeys'
<1>1. \A r : EventOf(r)' = EventOf(r) /\ Key(r)' = Key(r)
  BY DEF Key, EventOf, ReplicaOf
<1> SUFFICES ASSUME NEW r \in Requests, answer'[r].status = "conflict"
             PROVE  \E row \in RowsOf(EventOf(r))' : Key(row.id)' # Key(r)'
  BY DEF ConflictOnlyAcrossKeys
<1>2. PICK row \in RowsOf(EventOf(r)) : Key(row.id) # Key(r)
  BY DEF ConflictOnlyAcrossKeys
<1>3. row \in RowsOf(EventOf(r))'
  BY <1>1 DEF RowsOf
<1>4. Key(row.id)' # Key(r)'
  BY <1>1, <1>2
<1> QED
  BY <1>3, <1>4

\* Marking a row the handler is publishing neither makes nor loses a row.
LEMMA MarkKeepsRows ==
  ASSUME TypeOK, RowsAreOwn, RowIffOutbox, PublishesCommitted,
         NEW r \in Requests, pc[r] \in Publishing,
         NEW st \in {"failed", "published"},
         outbox' = [outbox EXCEPT ![target[r]] = st],
         UNCHANGED <<driftEvents, route>>
  PROVE  /\ \A q \in Requests : outbox'[q] = "absent" <=> outbox[q] = "absent"
         /\ RowIffOutbox'
<1>1. target[r] \in Requests /\ [event |-> EventOf(r), id |-> target[r]] \in driftEvents
  BY DEF TypeOK, PublishesCommitted
<1>2. OwnRow(target[r]) \in driftEvents
  BY <1>1 DEF RowsAreOwn, OwnRow
<1>3. outbox[target[r]] # "absent"
  BY <1>1, <1>2 DEF RowIffOutbox
<1>4. \A q \in Requests : outbox'[q] = "absent" <=> outbox[q] = "absent"
  BY <1>1, <1>3 DEF TypeOK
<1>5. \A q \in Requests : OwnRow(q)' = OwnRow(q)
  BY DEF OwnRow, EventOf
<1> QED
  BY <1>4, <1>5 DEF RowIffOutbox

\* Whichever way _publish_outbox_record comes back, with the row marked or not,
\* Core survives: the row the handler published is still committed.
LEMMA PublishReturnsCore ==
  ASSUME IInv, TypeOK', NEW r \in Requests, pc[r] \in Publishing,
         UNCHANGED <<driftEvents, stream, fanout, target, route>>,
         RowIffOutbox',
         \A q \in Requests : outbox'[q] = "absent" <=> outbox[q] = "absent",
         \A q \in Requests : outbox[q] = "published" => outbox'[q] = "published",
         \A q \in Requests : outbox'[q] = "published" => MessagesOf(q) # {},
         NEW ok \in BOOLEAN, PublishReturns(r, ok),
         ok => outbox'[target[r]] = "published"
  PROVE  Core'
<1> USE DEF IInv, TypeOK, Core, RowsAreOwn, OneRowPerEvent, UncommittedHasNoRow,
            InsertIsExclusive, LockIsExclusive, RowsSinceRecheck, RowIffOutbox,
            StreamOnlyCommitted, PublishedIsInStream, PublishesCommitted,
            DecidedIsDurable, OwnRow, Uncommitted, Publishing, InTransaction,
            HasInserted, RowsOf, MessagesOf, Key, EventOf, ReplicaOf
<1>1. PICK s \in {"accepted", "duplicate"}, d \in {"published", "pending"} :
        /\ pc' = [pc EXCEPT ![r] = IF target[r] = r THEN "fanout" ELSE "done"]
        /\ answer' = [answer EXCEPT ![r] = [status |-> s, delivery |-> d]]
        /\ s = "accepted" <=> target[r] = r
        /\ d = "published" <=> ok
  BY DEF PublishReturns, Reply
<1>2. [event |-> EventOf(r), id |-> target[r]] \in RowsOf(EventOf(r))
  OBVIOUS
<1>3. DecidedIsDurable'
  <2> SUFFICES ASSUME NEW q \in Requests
               PROVE  /\ answer'[q].status = "duplicate" => RowsOf(EventOf(q))' # {}
                      /\ answer'[q].delivery = "published" =>
                           \E row \in RowsOf(EventOf(q))' : outbox'[row.id] = "published"
    OBVIOUS
  <2>1. RowsOf(EventOf(q))' = RowsOf(EventOf(q))
    OBVIOUS
  <2>2. CASE q = r
    BY <1>1, <1>2, <2>1, <2>2
  <2>3. CASE q # r
    <3>1. answer'[q] = answer[q]
      BY <1>1, <2>3
    <3>2. \A row \in RowsOf(EventOf(q)) : row.id \in Requests
      BY DEF Row
    <3> QED
      BY <2>1, <3>1, <3>2
  <2> QED
    BY <2>2, <2>3
<1>4. PublishesCommitted'
  BY <1>1, <1>2
<1>5. UncommittedHasNoRow' /\ InsertIsExclusive'
  BY <1>1
<1>6. LockIsExclusive' /\ RowsSinceRecheck'
  BY <1>1
<1>7. RowsAreOwn' /\ OneRowPerEvent' /\ StreamOnlyCommitted' /\ PublishedIsInStream'
  OBVIOUS
<1> QED
  BY <1>3, <1>4, <1>5, <1>6, <1>7

\* Core survives every step.  The steps that matter: AcquireLock and
\* InsertEvent, whose guards keep the transactions apart, the commits, which
\* add a row, and the publication, which must find its row still committed.
LEMMA CoreStep ==
  ASSUME IInv, TypeOK', [Next]_vars
  PROVE  Core'
<1> USE DEF IInv, TypeOK, Core, RowsAreOwn, OneRowPerEvent, UncommittedHasNoRow,
            InsertIsExclusive, LockIsExclusive, RowsSinceRecheck, RowIffOutbox,
            StreamOnlyCommitted, PublishedIsInStream, PublishesCommitted,
            DecidedIsDurable, OwnRow, Uncommitted, Publishing, InTransaction,
            HasInserted, RowsOf, MessagesOf, Key, EventOf, ReplicaOf, durable, Goto, Reply
<1>1. ASSUME NEW r \in Requests, Arrive(r) PROVE Core'
  BY <1>1 DEF Arrive
<1>2. ASSUME NEW r \in Requests, LookupHit(r), UNCHANGED route PROVE Core'
  BY <1>2 DEF LookupHit
<1>3. ASSUME NEW r \in Requests, LookupMiss(r), UNCHANGED route PROVE Core'
  BY <1>3 DEF LookupMiss
<1>4. ASSUME NEW r \in Requests, AcquireLock(r), UNCHANGED route PROVE Core'
  <2>1. LockIsExclusive'
    <3>1. \A q \in Requests : Key(q)' = Key(q)
      BY <1>4
    <3>2. \A q \in Requests : InTransaction(q)' => InTransaction(q) \/ q = r
      BY <1>4 DEF AcquireLock
    <3>3. \A q \in Requests : InTransaction(q) => Key(q) # Key(r)
      BY <1>4 DEF AcquireLock
    <3> SUFFICES ASSUME NEW p \in Requests, NEW q \in Requests,
                        InTransaction(p)', InTransaction(q)', Key(p)' = Key(q)'
                 PROVE  p = q
      OBVIOUS
    <3>4. CASE p = r \/ q = r
      BY ONLY <3>1, <3>2, <3>3, <3>4, Key(p)' = Key(q)', InTransaction(p)', InTransaction(q)'
    <3>5. CASE p # r /\ q # r
      <4>1. InTransaction(p) /\ InTransaction(q) /\ Key(p) = Key(q)
        BY ONLY <3>1, <3>2, <3>5, Key(p)' = Key(q)', InTransaction(p)', InTransaction(q)'
      <4> QED
        BY <4>1
    <3> QED
      BY <3>4, <3>5
  <2>2. RowsAreOwn' /\ OneRowPerEvent' /\ UncommittedHasNoRow' /\ InsertIsExclusive'
    BY <1>4 DEF AcquireLock
  <2>3. RowsSinceRecheck' /\ RowIffOutbox' /\ StreamOnlyCommitted' /\ PublishedIsInStream'
    BY <1>4 DEF AcquireLock
  <2>4. PublishesCommitted' /\ DecidedIsDurable'
    BY <1>4 DEF AcquireLock
  <2> QED
    BY <2>1, <2>2, <2>3, <2>4
<1>5. ASSUME NEW r \in Requests, RecheckHit(r), UNCHANGED route PROVE Core'
  BY <1>5 DEF RecheckHit
<1>6. ASSUME NEW r \in Requests, RecheckMiss(r), UNCHANGED route PROVE Core'
  BY <1>6 DEF RecheckMiss
<1>7. ASSUME NEW r \in Requests, InsertEvent(r), UNCHANGED route PROVE Core'
  BY <1>7 DEF InsertEvent
<1>8. ASSUME NEW r \in Requests, InsertConflict(r), UNCHANGED route PROVE Core'
  BY <1>8 DEF InsertConflict
<1>9. ASSUME NEW r \in Requests, InsertOutbox(r), UNCHANGED route PROVE Core'
  BY <1>9 DEF InsertOutbox
<1>10. ASSUME NEW r \in Requests, Commit(r), UNCHANGED route PROVE Core'
  BY <1>10 DEF Commit, CommitRows
<1>11. ASSUME NEW r \in Requests, CommitReplyLost(r), UNCHANGED route PROVE Core'
  <2>1. RowsAreOwn' /\ OneRowPerEvent' /\ InsertIsExclusive'
    BY <1>11 DEF CommitReplyLost, CommitRows
  <2>5. UncommittedHasNoRow'
    BY <1>11 DEF CommitReplyLost, CommitRows
  <2>2. LockIsExclusive' /\ RowsSinceRecheck' /\ RowIffOutbox'
    BY <1>11 DEF CommitReplyLost, CommitRows
  <2>3. StreamOnlyCommitted' /\ PublishedIsInStream'
    BY <1>11 DEF CommitReplyLost, CommitRows
  <2>4. PublishesCommitted' /\ DecidedIsDurable'
    <3>1. /\ driftEvents' = driftEvents \cup {OwnRow(r)}
          /\ outbox' = [outbox EXCEPT ![r] = "pending"] /\ outbox[r] = "absent"
          /\ pc' = [pc EXCEPT ![r] = "done"]
          /\ answer' = [answer EXCEPT ![r] = [status |-> "error", delivery |-> "none"]]
          /\ UNCHANGED <<stream, fanout, target, route>>
      BY <1>11 DEF CommitReplyLost, CommitRows
    <3>2. PublishesCommitted'
      BY <3>1
    <3>3. DecidedIsDurable'
      BY <3>1
    <3> QED
      BY <3>2, <3>3
  <2> QED
    BY <2>1, <2>2, <2>3, <2>4, <2>5
<1>12. ASSUME NEW r \in Requests, DatabaseError(r) PROVE Core'
  BY <1>12 DEF DatabaseError
<1>13. ASSUME NEW r \in Requests, GetOutbox(r), UNCHANGED route PROVE Core'
  <2>1. CASE outbox[target[r]] \in {"absent", "published"}
    <3>1. PublishReturns(r, outbox[target[r]] = "published")
      BY <1>13, <2>1 DEF GetOutbox
    <3>2. UNCHANGED <<driftEvents, outbox, stream, fanout, target, route>> /\ pc[r] = "get_outbox"
      BY <1>13 DEF GetOutbox
    <3>3. RowIffOutbox'
      BY <3>2
    <3>4. (outbox[target[r]] = "published") \in BOOLEAN
      OBVIOUS
    <3> QED
      BY <3>1, <3>2, <3>3, <3>4, PublishReturnsCore
  <2>2. CASE outbox[target[r]] \notin {"absent", "published"}
    BY <1>13, <2>2 DEF GetOutbox
  <2> QED
    BY <2>1, <2>2
<1>14. ASSUME NEW r \in Requests, Xadd(r) \/ XaddReplyLost(r), UNCHANGED route PROVE Core'
  <2> DEFINE m == [event |-> EventOf(r), id |-> target[r]]
  <2>1. m \in driftEvents /\ m \in Row /\ stream' = Append(stream, m)
    BY <1>14 DEF Xadd, XaddReplyLost, AppendMessage
  <2>2. /\ Len(stream') = Len(stream) + 1
        /\ \A i \in DOMAIN stream : stream'[i] = stream[i]
        /\ stream'[Len(stream) + 1] = m
        /\ DOMAIN stream' = 1 .. (Len(stream) + 1)
        /\ DOMAIN stream = 1 .. Len(stream)
    BY <2>1, AppendProperties
  <2>3. StreamOnlyCommitted'
    <3>1. \A i \in DOMAIN stream' : i \in DOMAIN stream \/ i = Len(stream) + 1
      BY <2>2
    <3> QED
      BY <1>14, <2>1, <2>2, <3>1 DEF Xadd, XaddReplyLost
  <2>4. \A q \in Requests : MessagesOf(q) # {} \/ q = target[r] => MessagesOf(q)' # {}
    <3>1. DOMAIN stream \subseteq DOMAIN stream' /\ Len(stream) + 1 \in DOMAIN stream'
      BY <2>2
    <3>2. m.id = target[r]
      OBVIOUS
    <3> SUFFICES ASSUME NEW q \in Requests, MessagesOf(q) # {} \/ q = target[r]
                 PROVE  \E i \in DOMAIN stream' : stream'[i].id = q
      OBVIOUS
    <3>3. CASE q = target[r]
      BY ONLY <2>2, <3>1, <3>2, <3>3
    <3>4. CASE MessagesOf(q) # {}
      <4>1. PICK i \in DOMAIN stream : stream[i].id = q
        BY <3>4
      <4> QED
        BY <2>2, <3>1, <4>1
    <3> QED
      BY <3>3, <3>4
  <2>5. UNCHANGED <<driftEvents, outbox, route, fanout, target, answer>>
    BY <1>14 DEF Xadd, XaddReplyLost
  <2>6. pc' = [pc EXCEPT ![r] = "mark_published"] \/ pc' = [pc EXCEPT ![r] = "mark_failed"]
    BY <1>14 DEF Xadd, XaddReplyLost
  <2>7. pc[r] = "xadd"
    BY <1>14 DEF Xadd, XaddReplyLost
  <2> HIDE DEF m, MessagesOf
  <2>8. PublishesCommitted' /\ PublishedIsInStream'
    <3>1. PublishedIsInStream'
      BY <2>4, <2>5 DEF PublishedIsInStream
    <3>2. \A q \in Requests \ {r} : pc'[q] = pc[q]
      BY <2>6
    <3>3. PublishesCommitted'
      BY <2>4, <2>5, <2>6, <2>7, <3>2 DEF PublishesCommitted
    <3> QED
      BY <3>1, <3>3
  <2>9. RowsAreOwn' /\ OneRowPerEvent' /\ UncommittedHasNoRow' /\ InsertIsExclusive'
    BY <2>5, <2>6, <2>7
  <2>10. LockIsExclusive'
    BY <2>5, <2>6, <2>7
  <2>11. RowsSinceRecheck'
    BY <2>5, <2>6, <2>7
  <2>12. RowIffOutbox' /\ DecidedIsDurable'
    BY <2>5
  <2> QED
    BY <2>3, <2>8, <2>9, <2>10, <2>11, <2>12
<1>15. ASSUME NEW r \in Requests, XaddFails(r), UNCHANGED route PROVE Core'
  BY <1>15 DEF XaddFails
<1>16. ASSUME NEW r \in Requests, MarkPublished(r), UNCHANGED route PROVE Core'
  <2>1. outbox' = [outbox EXCEPT ![target[r]] = "published"] /\ pc[r] = "mark_published"
    BY <1>16 DEF MarkPublished
  <2>2. UNCHANGED <<driftEvents, stream, fanout, target, route>> /\ PublishReturns(r, TRUE)
    BY <1>16 DEF MarkPublished
  <2>3. RowIffOutbox' /\ \A q \in Requests : outbox'[q] = "absent" <=> outbox[q] = "absent"
    BY <2>1, <2>2, MarkKeepsRows
  <2>4. \A q \in Requests : outbox'[q] = "published" => MessagesOf(q) # {}
    <3>1. MessagesOf(target[r]) # {}
      BY <2>1
    <3> HIDE DEF MessagesOf
    <3> QED
      BY <2>1, <3>1
  <2> QED
    BY <2>1, <2>2, <2>3, <2>4, PublishReturnsCore
<1>17. ASSUME NEW r \in Requests, MarkPublishedFails(r), UNCHANGED route PROVE Core'
  <2>1. /\ outbox' = outbox \/ outbox' = [outbox EXCEPT ![target[r]] = "published"]
        /\ pc[r] = "mark_published" /\ pc' = [pc EXCEPT ![r] = "mark_failed"]
    BY <1>17 DEF MarkPublishedFails
  <2>2. UNCHANGED <<driftEvents, stream, fanout, target, answer, route>>
    BY <1>17 DEF MarkPublishedFails
  <2>3. RowIffOutbox' /\ \A q \in Requests : outbox'[q] = "absent" <=> outbox[q] = "absent"
    <3>1. CASE outbox' = outbox
      BY <2>2, <3>1
    <3>2. CASE outbox' = [outbox EXCEPT ![target[r]] = "published"]
      BY <2>1, <2>2, <3>2, MarkKeepsRows
    <3> QED
      BY <2>1, <3>1, <3>2
  <2>4. PublishedIsInStream'
    <3>1. MessagesOf(target[r]) # {}
      BY <2>1
    <3>2. \A q \in Requests : MessagesOf(q)' = MessagesOf(q)
      BY <2>2
    <3> HIDE DEF MessagesOf
    <3> QED
      BY <2>1, <3>1, <3>2
  <2>7. DecidedIsDurable'
    <3>1. \A q \in Requests : outbox[q] = "published" => outbox'[q] = "published"
      BY <2>1
    <3>2. \A e : RowsOf(e)' = RowsOf(e) /\ \A row \in RowsOf(e) : row.id \in Requests
      BY <2>2 DEF Row
    <3>3. \A q \in Requests : EventOf(q)' = EventOf(q) /\ answer'[q] = answer[q]
      BY <2>2
    <3> HIDE DEF RowsOf, EventOf
    <3> QED
      BY <3>1, <3>2, <3>3
  <2>5. UncommittedHasNoRow' /\ InsertIsExclusive' /\ PublishesCommitted'
    BY <2>1, <2>2, <2>3
  <2>6. LockIsExclusive' /\ RowsSinceRecheck'
    BY <2>1, <2>2
  <2> QED
    BY <2>2, <2>3, <2>4, <2>5, <2>6, <2>7
<1>18. ASSUME NEW r \in Requests, MarkFailed(r), UNCHANGED route PROVE Core'
  <2>1. UNCHANGED <<driftEvents, stream, fanout, target, route>> /\ PublishReturns(r, FALSE)
    BY <1>18 DEF MarkFailed
  <2>2. pc[r] = "mark_failed"
    BY <1>18 DEF MarkFailed
  <2>3. CASE outbox' = outbox
    <3>1. RowIffOutbox'
      BY <2>1, <2>3
    <3> QED
      BY <2>1, <2>2, <2>3, <3>1, PublishReturnsCore
  <2>4. CASE outbox' = [outbox EXCEPT ![target[r]] = "failed"] /\ outbox[target[r]] # "published"
    <3>1. RowIffOutbox' /\ \A q \in Requests : outbox'[q] = "absent" <=> outbox[q] = "absent"
      BY <2>1, <2>2, <2>4, MarkKeepsRows
    <3>2. \A q \in Requests : outbox'[q] = "published" <=> outbox[q] = "published"
      BY <2>4
    <3> QED
      BY <2>1, <2>2, <3>1, <3>2, PublishReturnsCore
  <2> QED
    BY <1>18, <2>3, <2>4 DEF MarkFailed
<1>19. ASSUME NEW r \in Requests, FanOut(r), UNCHANGED route PROVE Core'
  BY <1>19 DEF FanOut
<1>20. ASSUME NEW p \in Replicas, Crash(p) PROVE Core'
  <2>1. UNCHANGED <<driftEvents, outbox, stream, fanout, target, answer, route>>
    BY <1>20 DEF Crash
  <2>2. \A r \in Requests : pc'[r] = pc[r] \/ pc'[r] = "crashed"
    BY <1>20 DEF Crash
  <2>3. UncommittedHasNoRow' /\ InsertIsExclusive' /\ PublishesCommitted'
    BY <2>1, <2>2
  <2>4. LockIsExclusive' /\ RowsSinceRecheck'
    BY <2>1, <2>2
  <2> QED
    BY <2>1, <2>3, <2>4
<1>21. CASE UNCHANGED vars
  BY <1>21 DEF vars
<1> HIDE DEF IInv, TypeOK, Core
<1> QED
  BY <1>1, <1>2, <1>3, <1>4, <1>5, <1>6, <1>7, <1>8, <1>9, <1>10, <1>11, <1>12, <1>13,
     <1>14, <1>15, <1>16, <1>17, <1>18, <1>19, <1>20, <1>21
     DEF Next, Handle, Transact, Publish, Quiescent

\* Only InsertConflict answers "conflict", and there the lock has been held
\* since the recheck: whoever committed the row meanwhile holds another key.
LEMMA ConflictStep ==
  ASSUME IInv, TypeOK', [Next]_vars
  PROVE  ConflictOnlyAcrossKeys'
<1> USE DEF IInv, TypeOK, Core, durable, Goto
<1> DEFINE NoNewConflict ==
      \A r \in Requests : answer'[r].status = "conflict" => answer[r].status = "conflict"
<1>1. SUFFICES ASSUME NEW r \in Requests, InsertConflict(r), UNCHANGED route
               PROVE  ConflictOnlyAcrossKeys'
  <2>1. ASSUME NEW r \in Requests, Arrive(r) \/ LookupHit(r) \/ LookupMiss(r)
                 \/ AcquireLock(r) \/ RecheckMiss(r) \/ InsertEvent(r) \/ InsertOutbox(r)
                 \/ Xadd(r) \/ XaddReplyLost(r) \/ XaddFails(r) \/ MarkPublishedFails(r)
                 \/ FanOut(r),
               UNCHANGED route
        PROVE  ConflictOnlyAcrossKeys'
    BY <2>1, ConflictStable
       DEF Arrive, LookupHit, LookupMiss, AcquireLock, RecheckMiss, InsertEvent,
           InsertOutbox, Xadd, XaddReplyLost, XaddFails, MarkPublishedFails, FanOut
  <2>2. ASSUME NEW r \in Requests, RecheckHit(r) \/ CommitReplyLost(r) \/ DatabaseError(r),
               UNCHANGED route
        PROVE  ConflictOnlyAcrossKeys'
    <3>1. NoNewConflict /\ driftEvents \subseteq driftEvents'
      BY <2>2 DEF RecheckHit, CommitReplyLost, DatabaseError, Reply, CommitRows
    <3> QED
      BY <2>2, <3>1, ConflictStable
  <2>3. ASSUME NEW r \in Requests, Commit(r), UNCHANGED route PROVE ConflictOnlyAcrossKeys'
    BY <2>3, ConflictStable DEF Commit, CommitRows
  <2>4. ASSUME NEW r \in Requests, GetOutbox(r) \/ MarkPublished(r) \/ MarkFailed(r),
               UNCHANGED route
        PROVE  ConflictOnlyAcrossKeys'
    <3>1. driftEvents' = driftEvents
      BY <2>4 DEF GetOutbox, MarkPublished, MarkFailed
    <3>2. \/ answer' = answer
          \/ \E ok \in BOOLEAN : PublishReturns(r, ok)
      BY <2>4 DEF GetOutbox, MarkPublished, MarkFailed
    <3>3. NoNewConflict
      BY <3>2 DEF PublishReturns, Reply
    <3> QED
      BY <2>4, <3>1, <3>3, ConflictStable
  <2>5. ASSUME NEW p \in Replicas, Crash(p) PROVE ConflictOnlyAcrossKeys'
    BY <2>5, ConflictStable DEF Crash
  <2>6. CASE UNCHANGED vars
    BY <2>6, ConflictStable DEF vars
  <2>7. ASSUME NEW r \in Requests, Arrive(r) \/ DatabaseError(r) PROVE UNCHANGED route
    BY <2>7 DEF Arrive, DatabaseError
  <2> HIDE DEF IInv, TypeOK, Core
  <2> QED
    BY <1>1, <2>1, <2>2, <2>3, <2>4, <2>5, <2>6, <2>7
       DEF Next, Handle, Transact, Publish, Quiescent
<1>2. \A q : EventOf(q)' = EventOf(q) /\ Key(q)' = Key(q) /\ RowsOf(EventOf(q))' = RowsOf(EventOf(q))
  BY <1>1 DEF InsertConflict, EventOf, ReplicaOf, Key, RowsOf
<1>3. PICK row \in RowsOf(EventOf(r)) : Key(row.id) # Key(r)
  BY <1>1 DEF InsertConflict, RowsSinceRecheck
<1>4. answer' = [answer EXCEPT ![r] = [status |-> "conflict", delivery |-> "none"]]
  BY <1>1 DEF InsertConflict, Reply
<1> SUFFICES ASSUME NEW q \in Requests, answer'[q].status = "conflict"
             PROVE  \E w \in RowsOf(EventOf(q))' : Key(w.id)' # Key(q)'
  BY DEF ConflictOnlyAcrossKeys
<1>5. CASE q = r
  BY <1>2, <1>3, <1>5
<1>6. CASE q # r
  <2>1. answer[q].status = "conflict"
    BY <1>4, <1>6
  <2>2. PICK w \in RowsOf(EventOf(q)) : Key(w.id) # Key(q)
    BY <2>1 DEF ConflictOnlyAcrossKeys
  <2> QED
    BY <1>2, <2>2
<1> QED
  BY <1>5, <1>6

-----------------------------------------------------------------------------
\* IInv holds of every behaviour of the gateway.
THEOREM Invariance == Spec => []IInv
<1>1. Init => IInv
  <2> SUFFICES ASSUME Init PROVE IInv
    OBVIOUS
  <2>1. TypeOK
    BY DEF Init, TypeOK, HandlerStates, Statuses, Answers, NoAnswer
  <2>2. Core /\ ConflictOnlyAcrossKeys
    BY DEF Init, Core, RowsAreOwn, OneRowPerEvent, UncommittedHasNoRow, InsertIsExclusive,
           LockIsExclusive, RowsSinceRecheck, RowIffOutbox, StreamOnlyCommitted,
           PublishedIsInStream, PublishesCommitted, DecidedIsDurable, NoAnswer,
           ConflictOnlyAcrossKeys, InTransaction, HasInserted, Publishing, Uncommitted
  <2> QED
    BY <2>1, <2>2 DEF IInv
<1>2. IInv /\ [Next]_vars => IInv'
  BY TypingStep, CoreStep, ConflictStep DEF IInv
<1>3. QED
  BY <1>1, <1>2, PTL DEF Spec

\* Whatever the routing, the keys and the failures: one row per event.
THEOREM OneRow == Spec => []OneRowPerEvent
<1>1. IInv => OneRowPerEvent
  BY DEF IInv, Core
<1>2. QED
  BY <1>1, Invariance, PTL

\* The event row and the outbox row of a request exist together or not at all.
THEOREM AtomicRows == Spec => []OutboxMatchesEvents
<1>1. IInv => OutboxMatchesEvents
  <2> SUFFICES ASSUME IInv PROVE OutboxMatchesEvents
    OBVIOUS
  <2>1. \A row \in driftEvents : row.id \in Requests /\ row = OwnRow(row.id)
    BY DEF IInv, Core, TypeOK, Row, RowsAreOwn
  <2>2. \A r \in Requests : OwnRow(r) \in driftEvents <=> outbox[r] # "absent"
    BY DEF IInv, Core, RowIffOutbox
  <2>3. \A r : OwnRow(r).id = r
    BY DEF OwnRow
  <2> QED
    BY <2>1, <2>2, <2>3 DEF OutboxMatchesEvents
<1>2. QED
  BY <1>1, Invariance, PTL

\* Nothing is published before it is committed, and nothing is called published
\* that the stream does not hold.
THEOREM PublicationIsHonest == Spec => [](StreamOnlyCommitted /\ PublishedIsInStream)
<1>1. IInv => StreamOnlyCommitted /\ PublishedIsInStream
  BY DEF IInv, Core
<1>2. QED
  BY <1>1, Invariance, PTL

\* No answer promises more than the stores hold.
THEOREM DurableAnswers == Spec => []AnswersAreDurable
<1>1. IInv => AnswersAreDurable
  BY DEF IInv, Core, PublishesCommitted, DecidedIsDurable, AnswersAreDurable, OwnRow
<1>2. QED
  BY <1>1, Invariance, PTL

\* Of all requests for one event at most one is accepted, at most one announced.
THEOREM AcceptOnce == Spec => []AcceptedOnce
<1>1. IInv => AcceptedOnce
  <2> SUFFICES ASSUME IInv, NEW q \in Requests, NEW r \in Requests, EventOf(q) = EventOf(r),
                      \/ {answer[q].status, answer[r].status} = {"accepted"}
                      \/ {q, r} \subseteq fanout
               PROVE  q = r
    BY DEF AcceptedOnce
  <2>1. \/ answer[q].status = "accepted" /\ answer[r].status = "accepted"
        \/ {q, r} \subseteq fanout
    OBVIOUS
  <2>2. OwnRow(q) \in driftEvents /\ OwnRow(r) \in driftEvents
    BY <2>1 DEF IInv, Core, PublishesCommitted
  <2>3. OwnRow(q) = OwnRow(r)
    BY <2>2 DEF IInv, Core, OneRowPerEvent, OwnRow
  <2> QED
    BY <2>3 DEF OwnRow
<1>2. QED
  BY <1>1, Invariance, PTL

\* A unique violation reaches a client only across different lock keys.
THEOREM ConflictAcrossKeys == Spec => []ConflictOnlyAcrossKeys
<1>1. IInv => ConflictOnlyAcrossKeys
  BY DEF IInv
<1>2. QED
  BY <1>1, Invariance, PTL

\* No handler takes "published" back.
THEOREM PublishedStays == Spec => PublishedIsFinal
<1>1. IInv /\ [Next]_vars => [\A r \in Requests : outbox[r] = "published" => outbox'[r] = "published"]_vars
  <2> SUFFICES ASSUME IInv, Next, NEW q \in Requests, outbox[q] = "published"
               PROVE  outbox'[q] = "published"
    OBVIOUS
  <2>1. ASSUME NEW r \in Requests, Commit(r) \/ CommitReplyLost(r)
        PROVE  outbox'[q] = "published"
    <3>1. outbox[r] = "absent"
      BY <2>1 DEF Commit, CommitReplyLost, Goto, IInv, Core, UncommittedHasNoRow, Uncommitted
    <3> QED
      BY <2>1, <3>1 DEF Commit, CommitReplyLost, CommitRows, IInv, TypeOK
  <2>2. ASSUME NEW r \in Requests, MarkPublished(r) \/ MarkPublishedFails(r) \/ MarkFailed(r)
        PROVE  outbox'[q] = "published"
    BY <2>2 DEF MarkPublished, MarkPublishedFails, MarkFailed, IInv, TypeOK
  <2>3. ASSUME NEW r \in Requests,
               \/ Arrive(r) \/ LookupHit(r) \/ LookupMiss(r) \/ AcquireLock(r) \/ RecheckHit(r)
               \/ RecheckMiss(r) \/ InsertEvent(r) \/ InsertConflict(r) \/ InsertOutbox(r)
               \/ DatabaseError(r) \/ GetOutbox(r) \/ Xadd(r) \/ XaddReplyLost(r)
               \/ XaddFails(r) \/ FanOut(r)
        PROVE  outbox' = outbox
    BY <2>3 DEF Arrive, LookupHit, LookupMiss, AcquireLock, RecheckHit, RecheckMiss,
                InsertEvent, InsertConflict, InsertOutbox, DatabaseError, GetOutbox, Xadd,
                XaddReplyLost, XaddFails, FanOut, durable
  <2>4. ASSUME NEW p \in Replicas, Crash(p) PROVE outbox' = outbox
    BY <2>4 DEF Crash, durable
  <2>5. CASE UNCHANGED vars
    BY <2>5 DEF vars
  <2> QED
    BY <2>1, <2>2, <2>3, <2>4, <2>5 DEF Next, Handle, Transact, Publish, Quiescent
<1>2. QED
  BY <1>1, Invariance, PTL DEF Spec, PublishedIsFinal

-----------------------------------------------------------------------------
(***************************************************************************)
(* GatewayIngest implements EventDelivery, for every number of requests    *)
(* and replicas.  A step of the gateway does two things at once: it may    *)
(* change the stores (StoreStep) and it may answer a request (ToldStep).   *)
(* Each is shown to be one of the abstract specification; that an answer   *)
(* is honest follows from the invariant of the state it leads to.          *)
(***************************************************************************)

\* The answer of a handler that is about to fan out is decided.
FanOutIsDecided ==
  \A r \in Requests : pc[r] = "fanout" => answer[r].status = "accepted"

\* No answer but this one changes, and no request but this one ends.
OthersSilent(r) ==
  \A q \in Requests \ {r} :
    /\ (pc'[q] = "done") = (pc[q] = "done")
    /\ pc[q] = "done" => answer'[q] = answer[q]

Ends(r) ==
  /\ pc[r] # "done" /\ pc'[r] = "done" /\ answer'[r].status # "none"
  /\ OthersSilent(r)

NoneEnds ==
  \A q \in Requests :
    /\ (pc'[q] = "done") = (pc[q] = "done")
    /\ pc[q] = "done" => answer'[q] = answer[q]

\* A request that answers ends, with a status.
LEMMA ReplyEnds ==
  ASSUME TypeOK, NEW r \in Requests,
         NEW s \in {"accepted", "duplicate", "conflict", "error"},
         NEW d \in {"none", "published", "pending"},
         pc[r] # "done", Reply(r, s, d)
  PROVE  Ends(r)
<1>1. pc' = [pc EXCEPT ![r] = "done"] /\ answer' = [answer EXCEPT ![r] = [status |-> s, delivery |-> d]]
  BY DEF Reply
<1>2. pc \in [Requests -> HandlerStates] /\ answer \in [Requests -> Answers]
  BY DEF TypeOK
<1>3. answer'[r].status # "none" /\ pc'[r] = "done"
  BY <1>1, <1>2
<1>4. OthersSilent(r)
  BY <1>1, <1>2 DEF OthersSilent
<1>5. QED
  BY <1>3, <1>4 DEF Ends

\* A handler whose publication returns ends, or is about to fan out.
LEMMA PublishEnds ==
  ASSUME TypeOK, NEW r \in Requests, NEW ok \in BOOLEAN,
         pc[r] \notin {"done", "fanout"}, PublishReturns(r, ok)
  PROVE  (Ends(r) \/ NoneEnds) /\ (FanOutIsDecided => FanOutIsDecided')
<1> USE DEF TypeOK, FanOutIsDecided
<1>1. CASE target[r] = r
  <2>1. PICK d : pc' = [pc EXCEPT ![r] = "fanout"]
                 /\ answer' = [answer EXCEPT ![r] = [status |-> "accepted", delivery |-> d]]
    BY <1>1 DEF PublishReturns
  <2>2. NoneEnds
    BY <2>1 DEF NoneEnds
  <2>3. FanOutIsDecided => FanOutIsDecided'
    BY <2>1
  <2>4. QED
    BY <2>2, <2>3
<1>2. CASE target[r] # r
  <2>1. PICK d \in {"published", "pending"} : Reply(r, "duplicate", d)
    BY <1>2 DEF PublishReturns
  <2>2. Ends(r)
    BY <2>1, ReplyEnds
  <2>3. FanOutIsDecided => FanOutIsDecided'
    BY <2>1 DEF Reply
  <2>4. QED
    BY <2>2, <2>3
<1>3. QED
  BY <1>1, <1>2

-----------------------------------------------------------------------------
\* Every step ends one request at the most, and decides before it fans out.
LEMMA ToldStep ==
  ASSUME TypeOK, FanOutIsDecided, [Next]_vars
  PROVE  /\ NoneEnds \/ \E r \in Requests : Ends(r)
         /\ FanOutIsDecided'
<1> USE DEF TypeOK, FanOutIsDecided, NoneEnds
<1>1. CASE UNCHANGED vars
  BY <1>1 DEF vars
<1>2. ASSUME NEW r \in Requests, Arrive(r)
      PROVE  NoneEnds /\ FanOutIsDecided'
  BY <1>2 DEF Arrive, Goto
<1>3. ASSUME NEW r \in Requests, LookupHit(r) \/ LookupMiss(r)
      PROVE  NoneEnds /\ FanOutIsDecided'
  BY <1>3 DEF LookupHit, LookupMiss, Goto
<1>4. ASSUME NEW r \in Requests, Transact(r)
      PROVE  (NoneEnds \/ Ends(r)) /\ FanOutIsDecided'
  <2>1. CASE AcquireLock(r) \/ RecheckMiss(r) \/ InsertEvent(r) \/ InsertOutbox(r) \/ Commit(r)
    BY <2>1 DEF AcquireLock, RecheckMiss, InsertEvent, InsertOutbox, Commit, Goto
  <2>2. CASE RecheckHit(r) \/ InsertConflict(r) \/ CommitReplyLost(r)
    <3>1. PICK st \in {"duplicate", "conflict", "error"} :
            Reply(r, st, "none") /\ pc[r] # "done"
      BY <2>2 DEF RecheckHit, InsertConflict, CommitReplyLost
    <3>2. Ends(r)
      BY <3>1, ReplyEnds
    <3>3. QED
      BY <3>1, <3>2 DEF Reply
  <2>3. QED
    BY <1>4, <2>1, <2>2 DEF Transact
<1>5. ASSUME NEW r \in Requests, Publish(r)
      PROVE  (NoneEnds \/ Ends(r)) /\ FanOutIsDecided'
  <2>1. CASE Xadd(r) \/ XaddReplyLost(r) \/ XaddFails(r) \/ MarkPublishedFails(r)
    BY <2>1 DEF Xadd, XaddReplyLost, XaddFails, MarkPublishedFails, Goto
  <2>2. CASE GetOutbox(r) \/ MarkPublished(r) \/ MarkFailed(r)
    <3>1. CASE GetOutbox(r) /\ outbox[target[r]] \notin {"absent", "published"}
      BY <3>1 DEF GetOutbox
    <3>2. CASE ~(GetOutbox(r) /\ outbox[target[r]] \notin {"absent", "published"})
      <4>1. PICK ok \in BOOLEAN : PublishReturns(r, ok) /\ pc[r] \notin {"done", "fanout"}
        BY <2>2, <3>2 DEF GetOutbox, MarkPublished, MarkFailed
      <4>2. QED
        BY <4>1, PublishEnds
    <3>3. QED
      BY <3>1, <3>2
  <2>3. QED
    BY <1>5, <2>1, <2>2 DEF Publish
<1>6. ASSUME NEW r \in Requests, FanOut(r)
      PROVE  Ends(r) /\ FanOutIsDecided'
  BY <1>6 DEF FanOut, Goto, Ends, OthersSilent
<1>7. ASSUME NEW r \in Requests, DatabaseError(r)
      PROVE  Ends(r) /\ FanOutIsDecided'
  <2>1. Ends(r)
    BY <1>7, ReplyEnds DEF DatabaseError
  <2>2. QED
    BY <1>7, <2>1 DEF DatabaseError, Reply
<1>8. ASSUME NEW p \in Replicas, Crash(p)
      PROVE  NoneEnds /\ FanOutIsDecided'
  BY <1>8 DEF Crash, Active
<1>9. QED
  BY <1>1, <1>2, <1>3, <1>4, <1>5, <1>6, <1>7, <1>8 DEF Next, Handle, Quiescent
-----------------------------------------------------------------------------
(* What the abstract variables are of this state *)

Recorder == [e \in Events |-> RecordOf(e)]
Sent == {<<stream[i].event, stream[i].id>> : i \in DOMAIN stream}
Marked == {row.event : row \in {w \in driftEvents : outbox[w.id] = "published"}}

LEMMA ChooseOnly ==
  ASSUME NEW S, NEW x \in S, \A a, b \in S : a = b
  PROVE  (CHOOSE y \in S : TRUE) = x
OBVIOUS

\* The record of an event is the id of its row, now and after the step.
LEMMA RecordOfRow ==
  ASSUME TypeOK, OneRowPerEvent, TypeOK', OneRowPerEvent'
  PROVE  \A e \in Events :
           /\ \A row \in driftEvents : row.event = e => RecordOf(e) = row.id
           /\ \A row \in driftEvents' : row.event = e => RecordOf(e)' = row.id
           /\ RowsOf(e) = {} => RecordOf(e) = Nobody
           /\ RowsOf(e)' = {} => RecordOf(e)' = Nobody
<1> SUFFICES ASSUME NEW e \in Events
             PROVE  /\ \A row \in driftEvents : row.event = e => RecordOf(e) = row.id
                    /\ \A row \in driftEvents' : row.event = e => RecordOf(e)' = row.id
                    /\ RowsOf(e) = {} => RecordOf(e) = Nobody
                    /\ RowsOf(e)' = {} => RecordOf(e)' = Nobody
  OBVIOUS
<1>1. ASSUME NEW row \in driftEvents, row.event = e PROVE RecordOf(e) = row.id
  <2>1. row \in RowsOf(e) /\ \A a, b \in RowsOf(e) : a = b
    BY <1>1 DEF RowsOf, OneRowPerEvent
  <2>2. (CHOOSE y \in RowsOf(e) : TRUE) = row
    BY <2>1, ChooseOnly
  <2>3. QED
    BY <2>1, <2>2 DEF RecordOf
<1>2. ASSUME NEW row \in driftEvents', row.event = e PROVE RecordOf(e)' = row.id
  <2>1. row \in RowsOf(e)' /\ \A a, b \in RowsOf(e)' : a = b
    BY <1>2 DEF RowsOf, OneRowPerEvent
  <2>2. (CHOOSE y \in RowsOf(e)' : TRUE) = row
    BY <2>1, ChooseOnly
  <2>3. QED
    BY <2>1, <2>2 DEF RecordOf
<1>3. QED
  BY <1>1, <1>2 DEF RecordOf

\* The event of a request never changes.
LEMMA RouteFixed ==
  ASSUME [Next]_vars
  PROVE  route' = route
BY DEF Next, vars, Arrive, Handle, DatabaseError, Crash, Quiescent

\* What a step does to the two stores and to the subscribers.
CommitsOwnRow(r) ==
  pc[r] = "commit" /\ CommitRows(r) /\ UNCHANGED <<stream, fanout>>
AppendsCopy(r) ==
  pc[r] = "xadd" /\ AppendMessage(r) /\ UNCHANGED <<durable, fanout>>
MarksPublished(r) ==
  /\ pc[r] = "mark_published" /\ outbox' = [outbox EXCEPT ![target[r]] = "published"]
  /\ UNCHANGED <<driftEvents, stream, fanout>>
MarksFailed(r) ==
  /\ outbox' = [outbox EXCEPT ![target[r]] = IF @ = "published" THEN @ ELSE "failed"]
  /\ pc[r] = "mark_failed"
  /\ UNCHANGED <<driftEvents, stream, fanout>>
Announces(r) ==
  pc[r] = "fanout" /\ fanout' = fanout \cup {r} /\ UNCHANGED <<durable, stream>>

LEMMA StoreStep ==
  ASSUME [Next]_vars
  PROVE  \/ UNCHANGED <<durable, stream, fanout>>
         \/ \E r \in Requests : \/ CommitsOwnRow(r) \/ AppendsCopy(r) \/ MarksPublished(r)
                                \/ MarksFailed(r) \/ Announces(r)
<1> USE DEF durable, Goto
<1>1. CASE UNCHANGED vars
  BY <1>1 DEF vars
<1>2. ASSUME NEW r \in Requests, Arrive(r) \/ LookupHit(r) \/ LookupMiss(r) \/ DatabaseError(r)
      PROVE  UNCHANGED <<durable, stream, fanout>>
  BY <1>2 DEF Arrive, LookupHit, LookupMiss, DatabaseError
<1>3. ASSUME NEW r \in Requests, Transact(r)
      PROVE  UNCHANGED <<durable, stream, fanout>> \/ CommitsOwnRow(r)
  BY <1>3 DEF Transact, AcquireLock, RecheckHit, RecheckMiss, InsertEvent, InsertConflict,
              InsertOutbox, Commit, CommitReplyLost, CommitsOwnRow
<1>4. ASSUME NEW r \in Requests, Publish(r)
      PROVE  \/ UNCHANGED <<durable, stream, fanout>>
             \/ AppendsCopy(r) \/ MarksPublished(r) \/ MarksFailed(r)
  BY <1>4 DEF Publish, GetOutbox, Xadd, XaddReplyLost, XaddFails, MarkPublished,
              MarkPublishedFails, MarkFailed, AppendsCopy, MarksPublished, MarksFailed
<1>5. ASSUME NEW r \in Requests, FanOut(r)
      PROVE  UNCHANGED <<durable, stream, fanout>> \/ Announces(r)
  BY <1>5 DEF FanOut, Announces
<1>6. ASSUME NEW p \in Replicas, Crash(p)
      PROVE  UNCHANGED <<durable, stream, fanout>>
  BY <1>6 DEF Crash
<1>7. QED
  BY <1>1, <1>2, <1>3, <1>4, <1>5, <1>6 DEF Next, Handle, Quiescent

-----------------------------------------------------------------------------
(* Each of these is an action of EventDelivery. *)

RecordAction(r) ==
  /\ RecordOf(EventOf(r)) = Nobody
  /\ Recorder' = [Recorder EXCEPT ![EventOf(r)] = r]
  /\ Sent' = Sent /\ Marked' = Marked /\ fanout' = fanout
SendAction(e) ==
  /\ RecordOf(e) # Nobody
  /\ Sent' = Sent \cup {<<e, RecordOf(e)>>}
  /\ Recorder' = Recorder /\ Marked' = Marked /\ fanout' = fanout
MarkAction(e) ==
  /\ <<e, RecordOf(e)>> \in Sent
  /\ Marked' = Marked \cup {e}
  /\ Recorder' = Recorder /\ Sent' = Sent /\ fanout' = fanout
AnnounceAction(r) ==
  /\ RecordOf(EventOf(r)) = r
  /\ fanout' = fanout \cup {r}
  /\ Recorder' = Recorder /\ Sent' = Sent /\ Marked' = Marked

LEMMA CommitRecords ==
  ASSUME IInv, IInv', NEW r \in Requests, CommitsOwnRow(r), route' = route
  PROVE  RecordAction(r)
<1> USE DEF CommitsOwnRow, CommitRows, IInv, Core
<1>1. /\ driftEvents' = driftEvents \cup {OwnRow(r)}
      /\ outbox' = [outbox EXCEPT ![r] = "pending"]
      /\ EventOf(r) \in Events /\ outbox[r] = "absent"
  BY DEF OwnRow, TypeOK, EventOf, Route, UncommittedHasNoRow, Uncommitted
<1>2. RowsOf(EventOf(r)) = {}
  BY DEF InsertIsExclusive, HasInserted
<1>3. \A row \in driftEvents : row.id # r
  BY <1>1 DEF RowsAreOwn, RowIffOutbox
<1>4. PICK e \in Events : e = EventOf(r)
  BY <1>1
<1>5. RecordOf(e) = Nobody
  BY <1>2, <1>4, RecordOfRow
<1>6. RecordOf(e)' = r
  <2>1. OwnRow(r) \in driftEvents' /\ OwnRow(r).event = e /\ OwnRow(r).id = r
    BY <1>1, <1>4 DEF OwnRow
  <2>2. QED
    BY <2>1, RecordOfRow
<1>7. Recorder' = [Recorder EXCEPT ![EventOf(r)] = r]
  <2>1. ASSUME NEW x \in Events, x # e PROVE RecordOf(x)' = RecordOf(x)
    <3>1. RowsOf(x)' = RowsOf(x)
      BY <1>1, <1>4, <2>1 DEF RowsOf, OwnRow
    <3>2. QED
      BY <3>1 DEF RecordOf
  <2>2. QED
    BY <1>4, <1>6, <2>1 DEF Recorder
<1>8. Marked' = Marked
  BY <1>1, <1>3 DEF Marked, TypeOK, OwnRow, Row
<1>9. QED
  BY <1>4, <1>5, <1>7, <1>8 DEF RecordAction, Sent

\* A copy that is sent carries the record of its event.
LEMMA CopySends ==
  ASSUME IInv, IInv', NEW r \in Requests, AppendsCopy(r)
  PROVE  SendAction(EventOf(r))
<1> DEFINE m == [event |-> EventOf(r), id |-> target[r]]
<1> USE DEF AppendsCopy, AppendMessage, IInv, Core, durable
<1>1. m \in driftEvents /\ EventOf(r) \in Events /\ target[r] \in Requests
  BY DEF PublishesCommitted, Publishing, TypeOK, EventOf, Route
<1>2. RecordOf(EventOf(r)) = target[r]
  BY <1>1, RecordOfRow
<1>3. stream' = Append(stream, m) /\ stream \in Seq(Row) /\ m \in Row
  BY <1>1 DEF TypeOK
<1>4. /\ Len(stream) \in Nat /\ DOMAIN stream = 1 .. Len(stream)
      /\ DOMAIN stream' = 1 .. (Len(stream) + 1) /\ stream'[Len(stream) + 1] = m
      /\ \A i \in 1 .. Len(stream) : stream'[i] = stream[i]
  BY <1>3
<1>5. Sent' = Sent \cup {<<EventOf(r), target[r]>>}
  BY <1>4 DEF Sent
<1>6. Recorder' = Recorder /\ Marked' = Marked
  BY DEF Recorder, RecordOf, RowsOf, Marked
<1>7. QED
  BY <1>1, <1>2, <1>5, <1>6, NobodyAssumption DEF SendAction

LEMMA MarkMarks ==
  ASSUME IInv, IInv', NEW r \in Requests, MarksPublished(r)
  PROVE  MarkAction(EventOf(r))
<1> DEFINE m == [event |-> EventOf(r), id |-> target[r]]
<1> USE DEF MarksPublished, IInv, Core
<1>1. m \in driftEvents /\ EventOf(r) \in Events /\ target[r] \in Requests
  BY DEF PublishesCommitted, Publishing, TypeOK, EventOf, Route
<1>2. RecordOf(EventOf(r)) = target[r]
  BY <1>1, RecordOfRow
<1>3. \A row \in driftEvents : row.id = target[r] => row = m
  BY <1>1 DEF RowsAreOwn
<1>4. PICK i \in DOMAIN stream : stream[i].id = target[r]
  BY DEF PublishesCommitted, MessagesOf
<1>5. stream[i] = m
  BY <1>3, <1>4 DEF StreamOnlyCommitted
<1>6. <<EventOf(r), target[r]>> \in Sent
  BY <1>4, <1>5 DEF Sent
<1>7. Marked' = Marked \cup {EventOf(r)}
  BY <1>1, <1>3 DEF Marked, TypeOK, Row
<1>8. Recorder' = Recorder /\ Sent' = Sent /\ fanout' = fanout
  BY DEF Recorder, RecordOf, RowsOf, Sent
<1>9. QED
  BY <1>2, <1>6, <1>7, <1>8 DEF MarkAction

\* mark_outbox_failed changes nothing of what is promised.
LEMMA FailureIsSilent ==
  ASSUME IInv, NEW r \in Requests, MarksFailed(r)
  PROVE  Recorder' = Recorder /\ Sent' = Sent /\ Marked' = Marked /\ fanout' = fanout
<1>1. \A q \in Requests : (outbox'[q] = "published") = (outbox[q] = "published")
  BY DEF MarksFailed, IInv, TypeOK
<1>2. Marked' = Marked
  BY <1>1 DEF Marked, MarksFailed, IInv, TypeOK, Row
<1>3. QED
  BY <1>2 DEF MarksFailed, Recorder, RecordOf, RowsOf, Sent

LEMMA FanOutAnnounces ==
  ASSUME IInv, IInv', NEW r \in Requests, Announces(r)
  PROVE  AnnounceAction(r)
<1> USE DEF Announces, IInv, Core
<1>1. OwnRow(r) \in driftEvents /\ EventOf(r) \in Events
  BY DEF PublishesCommitted, TypeOK, EventOf, Route
<1>2. RecordOf(EventOf(r)) = r
  BY <1>1, RecordOfRow DEF OwnRow
<1>3. QED
  BY <1>2 DEF AnnounceAction, Recorder, RecordOf, RowsOf, Sent, Marked, durable

-----------------------------------------------------------------------------
(* The composition: stores, answers, initial states *)

Told == [r \in Requests |-> IF Answered(r) THEN answer[r] ELSE NoAnswer]

StoresAct ==
  \/ \E r \in Requests : RecordAction(r) \/ AnnounceAction(r)
  \/ \E e \in Events : SendAction(e) \/ MarkAction(e)
  \/ Recorder' = Recorder /\ Sent' = Sent /\ Marked' = Marked /\ fanout' = fanout

LEMMA StoresRefine ==
  ASSUME IInv, IInv', [Next]_vars
  PROVE  StoresAct
<1>1. CASE UNCHANGED <<durable, stream, fanout>>
  BY <1>1 DEF StoresAct, Recorder, RecordOf, RowsOf, Sent, Marked, durable
<1>2. ASSUME NEW r \in Requests,
             \/ CommitsOwnRow(r) \/ AppendsCopy(r) \/ MarksPublished(r)
             \/ MarksFailed(r) \/ Announces(r)
      PROVE  StoresAct
  <2>1. EventOf(r) \in Events
    BY DEF IInv, TypeOK, EventOf, Route
  <2>2. QED
    BY <1>2, <2>1, RouteFixed, CommitRecords, CopySends, MarkMarks, FailureIsSilent,
       FanOutAnnounces DEF StoresAct
<1>3. QED
  BY <1>1, <1>2, StoreStep

\* What the client of r learns in the step in which r ends is so after the step.
HonestTo(r) ==
  LET what == answer'[r]
  IN /\ what.status = "accepted" => Recorder'[EventOf(r)] = r
     /\ what.status = "duplicate" => Recorder'[EventOf(r)] # Nobody
     /\ what.delivery = "published" => EventOf(r) \in Marked'

LEMMA EndIsHonest ==
  ASSUME IInv, IInv', NEW r \in Requests, Ends(r), route' = route
  PROVE  HonestTo(r)
<1>1. EventOf(r)' = EventOf(r) /\ EventOf(r) \in Events
  BY DEF EventOf, IInv, TypeOK, Route
<1>2. AnswersAreDurable'
  BY DEF IInv, Core, PublishesCommitted, DecidedIsDurable, AnswersAreDurable, OwnRow
<1>3. pc'[r] = "done"
  BY DEF Ends
<1>4. ASSUME answer'[r].status = "accepted" PROVE RecordOf(EventOf(r))' = r
  <2>1. [event |-> EventOf(r), id |-> r] \in driftEvents'
    BY <1>1, <1>2, <1>3, <1>4 DEF AnswersAreDurable, Answered
  <2>2. QED
    BY <1>1, <2>1, RecordOfRow DEF IInv, Core
<1>5. ASSUME NEW row \in RowsOf(EventOf(r))'
      PROVE  RecordOf(EventOf(r))' = row.id /\ row.id \in Requests /\ row \in driftEvents'
             /\ row.event = EventOf(r)
  <2>1. row \in driftEvents' /\ row.event = EventOf(r)
    BY <1>1, <1>5 DEF RowsOf
  <2>2. QED
    BY <1>1, <2>1, RecordOfRow DEF IInv, Core, TypeOK, Row
<1>6. ASSUME answer'[r].status = "duplicate" PROVE RecordOf(EventOf(r))' # Nobody
  <2>1. PICK row : row \in RowsOf(EventOf(r))'
    BY <1>1, <1>2, <1>3, <1>6 DEF AnswersAreDurable, Answered
  <2>2. QED
    BY <1>5, <2>1, NobodyAssumption
<1>7. ASSUME answer'[r].delivery = "published" PROVE EventOf(r) \in Marked'
  <2>1. PICK row : row \in RowsOf(EventOf(r))' /\ outbox'[row.id] = "published"
    BY <1>1, <1>2, <1>3, <1>7 DEF AnswersAreDurable, Answered
  <2>2. QED
    BY <1>5, <2>1 DEF Marked
<1>8. QED
  BY <1>1, <1>4, <1>6, <1>7 DEF HonestTo, Recorder

TellAction ==
  \/ Told' = Told
  \/ \E r \in Requests, what \in [status : {"accepted", "duplicate", "conflict", "error"},
                                  delivery : {"none", "published", "pending"}] :
       /\ Told[r] = NoAnswer /\ Told' = [Told EXCEPT ![r] = what]
       /\ what = answer'[r] /\ HonestTo(r)

LEMMA AnswersRefine ==
  ASSUME IInv, IInv', FanOutIsDecided, [Next]_vars
  PROVE  TellAction /\ FanOutIsDecided'
<1>1. (NoneEnds \/ \E r \in Requests : Ends(r)) /\ FanOutIsDecided'
  BY ToldStep DEF IInv
<1>2. CASE NoneEnds
  BY <1>1, <1>2 DEF NoneEnds, TellAction, Told, Answered
<1>3. ASSUME NEW r \in Requests, Ends(r) PROVE TellAction
  <2>1. answer'[r] \in [status : {"accepted", "duplicate", "conflict", "error"},
                        delivery : {"none", "published", "pending"}]
    BY <1>3 DEF IInv, TypeOK, Answers, Ends
  <2>2. Told[r] = NoAnswer
    BY <1>3 DEF Told, Answered, Ends
  <2>3. Told' = [Told EXCEPT ![r] = answer'[r]]
    BY <1>3 DEF Told, Answered, Ends, OthersSilent
  <2>4. HonestTo(r)
    BY <1>3, RouteFixed, EndIsHonest
  <2>5. QED
    BY <2>1, <2>2, <2>3, <2>4 DEF TellAction
<1>4. QED
  BY <1>1, <1>2, <1>3

\* The gateway is an event delivery service: whatever its replicas, PostgreSQL and
\* Redis do, each of its steps is one of EventDelivery or stutters.
THEOREM Implementation == Spec => DeliversEvents
<1>1. Init => Delivery!DeliveryInit /\ FanOutIsDecided
  <2> SUFFICES ASSUME Init PROVE Delivery!DeliveryInit /\ FanOutIsDecided
    OBVIOUS
  <2>1. \A r \in Requests : EventOf(r) \in Events
    BY RoutesAssumption DEF Init, EventOf, Route
  <2>2. \A e \in Events : RecordOf(e) = Nobody
    BY DEF Init, RecordOf, RowsOf
  <2>3. {<<stream[i].event, stream[i].id>> : i \in DOMAIN stream} = {}
    BY DEF Init
  <2>4. {row.event : row \in {w \in driftEvents : outbox[w.id] = "published"}} = {}
    BY DEF Init
  <2>5. Told = [p \in Requests |-> Delivery!Silent]
    BY DEF Init, Told, Answered, NoAnswer, Delivery!Silent
  <2>6. FanOutIsDecided
    BY DEF Init, FanOutIsDecided
  <2>7. QED
    BY <2>1, <2>2, <2>3, <2>4, <2>5, <2>6 DEF Init, Delivery!DeliveryInit, Told
<1>2. IInv /\ IInv' /\ FanOutIsDecided /\ [Next]_vars
      => [Delivery!DeliveryNext]_Delivery!deliveryVars /\ FanOutIsDecided'
  <2> SUFFICES ASSUME IInv, IInv', FanOutIsDecided, [Next]_vars
               PROVE  Delivery!DeliveryNext /\ FanOutIsDecided'
    OBVIOUS
  <2>1. [r \in Requests |-> EventOf(r)]' = [r \in Requests |-> EventOf(r)]
    BY RouteFixed DEF EventOf
  <2>2. \A r \in Requests : EventOf(r) \in Events
    BY DEF IInv, TypeOK, EventOf, Route
  <2>3. \/ \E p \in Requests : Delivery!Record(p) \/ Delivery!Announce(p)
        \/ \E e \in Events : Delivery!Send(e) \/ Delivery!Mark(e)
        \/ UNCHANGED <<Recorder, Sent, Marked, fanout>>
    <3>1. ASSUME NEW r \in Requests, RecordAction(r) PROVE Delivery!Record(r)
      BY <2>2, <3>1 DEF RecordAction, Recorder, Sent, Marked, Delivery!Record
    <3>2. ASSUME NEW r \in Requests, AnnounceAction(r) PROVE Delivery!Announce(r)
      BY <2>2, <3>2 DEF AnnounceAction, Recorder, Sent, Marked, Delivery!Announce
    <3>3. ASSUME NEW e \in Events, SendAction(e) PROVE Delivery!Send(e)
      BY <3>3 DEF SendAction, Recorder, Sent, Marked, Delivery!Send
    <3>4. ASSUME NEW e \in Events, MarkAction(e) PROVE Delivery!Mark(e)
      BY <3>4 DEF MarkAction, Recorder, Sent, Marked, Delivery!Mark
    <3>5. QED
      BY <3>1, <3>2, <3>3, <3>4, StoresRefine DEF StoresAct
  <2>4. Delivery!Tell
    <3>1. ASSUME NEW r \in Requests, NEW what, what = answer'[r], HonestTo(r)
          PROVE  Delivery!Honest(r, what)
      BY <2>2, <3>1 DEF HonestTo, Recorder, Delivery!Honest, Marked
    <3>2. QED
      BY <3>1, AnswersRefine DEF TellAction, Told, NoAnswer, Delivery!Tell, Delivery!Silent
  <2>5. QED
    BY <2>1, <2>3, <2>4, AnswersRefine DEF Delivery!DeliveryNext, Recorder, Sent, Marked
<1>3. QED
  BY <1>1, <1>2, Invariance, PTL DEF Spec, DeliversEvents, Delivery!DeliverySpec
=============================================================================
