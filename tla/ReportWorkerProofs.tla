-------------------------- MODULE ReportWorkerProofs --------------------------
(***************************************************************************)
(* What the report workers announce is in both stores, and what they       *)
(* acknowledge was announced or given up, for any requests, workers,       *)
(* revisions and faults.  Rows and objects are overwritten but never       *)
(* removed, and every object is of the evidence: that is why another       *)
(* worker's failure under the same key cannot take a completion back.      *)
(***************************************************************************)
EXTENDS ReportWorker, TLAPS

\* A worker that is not waiting for new entries has a message in hand.
HasMessage == \A w \in Workers : pc[w] # "loop" => batch[w] # <<>>

WorkInv == TypeOK /\ HasMessage

LEMMA KeysTyped ==
  ASSUME NEW k \in Keys
  PROVE  k = <<k[1], k[2]>> /\ k[1] \in Incidents /\ k[2] \in 1 .. MaxRevision
BY DEF Keys

LEMMA SavedTyped ==
  ASSUME TypeOK, NEW w \in Workers, document[w] # NoDocument
  PROVE  /\ Saved(w) \in [Keys -> Documents \cup {NoDocument}]
         /\ Saved(w)[key[w]] # NoDocument
         /\ \A k \in Keys : reports[k] # NoDocument => Saved(w)[k] # NoDocument
<1>1. key[w] \in Keys /\ document[w] \in Documents /\ reports[key[w]] \in Documents \cup {NoDocument}
  BY DEF TypeOK, Keys
<1>2. PICK d \in Documents : Saved(w) = [reports EXCEPT ![key[w]] = d]
  <2>1. CASE reports[key[w]] = NoDocument
    BY <1>1, <2>1 DEF Saved
  <2>2. CASE reports[key[w]] # NoDocument
    <3>1. [document[w] EXCEPT !.hash = reports[key[w]].hash] \in Documents
      BY <1>1, <2>2 DEF Documents
    <3>2. QED
      BY <2>2, <3>1 DEF Saved
  <2>3. QED
    BY <2>1, <2>2
<1>3. \A e \in Documents : e # NoDocument
  BY DEF Documents, NoDocument
<1>4. QED
  BY <1>1, <1>2, <1>3 DEF TypeOK

LEMMA RequestTyped ==
  ASSUME WorkInv, NEW w \in Workers, pc[w] # "loop"
  PROVE  /\ Current(w) \in Messages
         /\ Request(w).incident \in Incidents \cup {NoIncident}
         /\ Tail(batch[w]) \in Seq(Messages)
<1>1. batch[w] \in Seq(Messages) /\ batch[w] # <<>>
  BY DEF WorkInv, TypeOK, HasMessage
<1>2. Current(w) \in Messages /\ Tail(batch[w]) \in Seq(Messages)
  BY <1>1 DEF Current
<1>3. Stream[Current(w)] \in [incident : Incidents \cup {NoIncident}, retries : Nat]
  <2> DEFINE R == [incident : Incidents \cup {NoIncident}, retries : Nat]
  <2>1. Stream \in Seq(R) /\ Current(w) \in DOMAIN Stream
    BY <1>2, StreamAssumption DEF Messages
  <2> HIDE DEF R
  <2>2. Stream[Current(w)] \in R
    BY <2>1
  <2>3. QED
    BY <2>2 DEF R
<1>4. QED
  BY <1>2, <1>3 DEF Request

-----------------------------------------------------------------------------
(* What a worker holds at each point of GenerateReportUseCase.execute *)

Writing == {"save", "store", "announce"}

\* The document it is about to store is of the evidence, or says it failed; the
\* row comes before the object, and both before the announcement.
WrittenBy(w) ==
  /\ pc[w] \in Writing \cup {"record_failure"} => document[w] # NoDocument
  /\ pc[w] \in Writing => document[w].hash = "evidence"
  /\ pc[w] \in {"store", "announce", "announce_failure"} => reports[key[w]] # NoDocument
  /\ pc[w] = "announce" => objects[key[w]] # NoDocument

\* It works under the incident of its request, and acknowledges that only after
\* the completion, or the copy to the dead-letter stream.
AnsweredBy(w) ==
  /\ pc[w] \in Writing \cup {"evidence"} => key[w][1] = Request(w).incident
  /\ pc[w] = "ack" => \E c \in completed : c.key[1] = Request(w).incident
  /\ pc[w] = "dead_ack" => Current(w) \in dlq

WorkersInOrder == \A w \in Workers : WrittenBy(w) /\ AnsweredBy(w)

\* Every object, and every completion, is of the evidence.
ObjectsAreEvidence ==
  /\ \A k \in Keys : objects[k] # NoDocument => objects[k].hash = "evidence"
  /\ \A c \in completed : c.document.hash = "evidence"

\* Completions and announced failures have their rows and objects.
Backed ==
  /\ \A c \in completed : objects[c.key] # NoDocument /\ reports[c.key] # NoDocument
  /\ \A i \in failed : \E r \in 1 .. MaxRevision : reports[<<i, r>>] # NoDocument

ReportInv ==
  /\ WorkInv /\ WorkersInOrder /\ ObjectsAreEvidence /\ Backed /\ AckedIsAnswered

-----------------------------------------------------------------------------
(* Types *)

LEMMA TypingStep ==
  ASSUME WorkInv, WorkersInOrder, [Next]_vars
  PROVE  WorkInv'
<1> USE DEF WorkInv
<1>1. ASSUME NEW w \in Workers, Read(w)
      PROVE  WorkInv'
  <2>1. PICK k \in 1 .. ReadBatch :
          /\ read + k <= Len(Stream) /\ read' = read + k
          /\ batch' = [batch EXCEPT ![w] = [j \in 1 .. k |-> read + j]]
    BY <1>1 DEF Read, Deliver
  <2>2. ReadBatch \in Nat /\ Len(Stream) \in Nat /\ read \in Nat /\ Messages = 1 .. Len(Stream)
    BY SizesAssumption, StreamAssumption DEF TypeOK, Messages
  <2>3. [j \in 1 .. k |-> read + j] \in Seq(Messages) /\ [j \in 1 .. k |-> read + j] # <<>>
    <3>1. k \in Nat /\ \A j \in 1 .. k : read + j \in Messages
      BY <2>1, <2>2
    <3>2. [j \in 1 .. k |-> read + j] \in Seq(Messages) /\ Len([j \in 1 .. k |-> read + j]) = k
      BY <3>1
    <3>3. QED
      BY <3>2
  <2>4. HasMessage'
    BY <1>1, <2>1, <2>3 DEF Read, Goto, TypeOK, HasMessage
  <2>5. TypeOK'
    BY <1>1, <2>1, <2>2, <2>3 DEF Read, Goto, TypeOK, stores
  <2>6. QED
    BY <2>4, <2>5
<1>2. ASSUME NEW w \in Workers, Acknowledge(w) \/ LeaveForRetry(w)
      PROVE  WorkInv'
  <2>1. Current(w) \in Messages /\ Tail(batch[w]) \in Seq(Messages)
    BY <1>2, RequestTyped DEF Acknowledge, LeaveForRetry
  <2>2. Advance(w)
    BY <1>2 DEF Acknowledge, LeaveForRetry
  <2>3. HasMessage'
    BY <2>2 DEF Advance, HasMessage, TypeOK
  <2>4. TypeOK'
    BY <1>2, <2>1, <2>2 DEF Acknowledge, LeaveForRetry, Advance, TypeOK, redis, stores
  <2>5. QED
    BY <2>3, <2>4
<1>3. ASSUME NEW w \in Workers, Restart(w)
      PROVE  WorkInv'
  <2>1. HasMessage'
    BY <1>3 DEF Restart, HasMessage, TypeOK
  <2>2. read' \in 0 .. Len(Stream) /\ acked' \subseteq Messages /\ dlq' \subseteq Messages
    <3>1. CASE pc[w] = "loop"
      BY <1>3, <3>1, SizesAssumption, StreamAssumption DEF Restart, TypeOK, redis, Deliver
    <3>2. CASE pc[w] # "loop"
      BY <1>3, <3>2, RequestTyped DEF Restart, TypeOK, redis
    <3>3. QED
      BY <3>1, <3>2
  <2>3. faults' \in 0 .. MaxFaults
    BY <1>3, SizesAssumption DEF Restart, Fault, TypeOK
  <2>4. TypeOK'
    BY <1>3, <2>2, <2>3 DEF Restart, TypeOK, stores
  <2>5. QED
    BY <2>1, <2>4
<1>4. ASSUME NEW w \in Workers,
             \/ Invalid(w) \/ GiveUp(w) \/ GetIncident(w) \/ GetIncidentFails(w) \/ Assemble(w)
             \/ EvidenceFails(w)
      PROVE  WorkInv'
  <2>1. pc[w] # "loop"
    BY <1>4 DEF Invalid, GiveUp, GetIncident, GetIncidentFails, Assemble, EvidenceFails, Goto
  <2>2. HasMessage'
    BY <1>4, <2>1 DEF Invalid, GiveUp, GetIncident, GetIncidentFails, Assemble, EvidenceFails,
                      Goto, HasMessage, TypeOK
  <2>3. key' \in [Workers -> Keys]
    <3>1. CASE GetIncident(w) \/ GetIncidentFails(w)
      <4>1. Request(w).incident # NoIncident => Request(w).incident \in Incidents
        BY <2>1, RequestTyped
      <4>2. PICK n : key' = [key EXCEPT ![w] = <<Request(w).incident, n>>]
                     /\ Request(w).incident # NoIncident
                     /\ (n = 1 \/ n = revision[Request(w).incident])
        BY <3>1 DEF GetIncident, GetIncidentFails
      <4>3. n \in 1 .. MaxRevision
        BY <4>1, <4>2, SizesAssumption DEF TypeOK
      <4>4. QED
        BY <4>1, <4>2, <4>3 DEF TypeOK, Keys
    <3>2. CASE ~ (GetIncident(w) \/ GetIncidentFails(w))
      BY <1>4, <3>2 DEF Invalid, GiveUp, Assemble, EvidenceFails, TypeOK, Keys
    <3>3. QED
      BY <3>1, <3>2
  <2>4. document' \in [Workers -> Documents \cup {NoDocument}]
    BY <1>4 DEF Invalid, GiveUp, GetIncident, GetIncidentFails, Assemble, EvidenceFails,
                FailedDocument, Documents, TypeOK
  <2>5. faults' \in 0 .. MaxFaults
    BY <1>4, SizesAssumption DEF Invalid, GiveUp, GetIncident, GetIncidentFails, Assemble,
                EvidenceFails, Fault, TypeOK
  <2>6. pc' = [pc EXCEPT ![w] = pc'[w]]
        /\ pc'[w] \in {"work", "evidence", "save", "record_failure", "dead_letter"}
    BY <1>4 DEF Invalid, GiveUp, GetIncident, GetIncidentFails, Assemble, EvidenceFails, Goto, TypeOK
  <2>7. UNCHANGED <<revision, redis, stores, batch>>
    BY <1>4 DEF Invalid, GiveUp, GetIncident, GetIncidentFails, Assemble, EvidenceFails
  <2>8. TypeOK'
    BY <2>3, <2>4, <2>5, <2>6, <2>7 DEF TypeOK, redis, stores, Keys
  <2>9. QED
    BY <2>2, <2>8
<1>5. ASSUME NEW w \in Workers,
             \/ SaveReport(w) \/ StoreObject(w) \/ Announce(w) \/ OutputFails(w)
             \/ RecordFailure(w) \/ AnnounceFailure(w) \/ RecordingFails(w)
      PROVE  WorkInv'
  <2> DEFINE To == {"store", "announce", "ack", "record_failure", "announce_failure", "retry"}
  <2>1. pc[w] \in Writing \cup {"record_failure", "announce_failure"}
        /\ pc' = [pc EXCEPT ![w] = pc'[w]] /\ pc'[w] \in To
    BY <1>5 DEF SaveReport, StoreObject, Announce, OutputFails, RecordFailure, AnnounceFailure,
                RecordingFails, Goto, TypeOK, Writing
  <2>2. UNCHANGED <<revision, redis, batch, key>>
    BY <1>5 DEF SaveReport, StoreObject, Announce, OutputFails, RecordFailure, AnnounceFailure,
                RecordingFails
  <2>3. HasMessage'
    BY <2>1, <2>2 DEF HasMessage, TypeOK, Writing
  <2>4. key[w] \in Keys /\ key[w][1] \in Incidents
    BY DEF TypeOK, Keys
  <2>5. pc[w] # "announce_failure" => document[w] \in Documents
    BY <2>1 DEF WorkersInOrder, WrittenBy, TypeOK
  <2>6. reports' \in [Keys -> Documents \cup {NoDocument}]
    <3>1. \/ reports' = reports
          \/ reports' = Saved(w) /\ pc[w] \in {"save", "record_failure"}
      <4>1. CASE SaveReport(w) \/ RecordFailure(w)
        BY <4>1 DEF SaveReport, RecordFailure, Goto
      <4>2. CASE OutputFails(w) \/ RecordingFails(w)
        BY <4>2 DEF OutputFails, RecordingFails
      <4>3. CASE StoreObject(w) \/ Announce(w) \/ AnnounceFailure(w)
        BY <4>3 DEF StoreObject, Announce, AnnounceFailure
      <4>4. QED
        BY <1>5, <4>1, <4>2, <4>3
    <3>2. QED
      BY <3>1, SavedTyped DEF WorkersInOrder, WrittenBy, TypeOK, Writing
  <2>7. objects' \in [Keys -> Documents \cup {NoDocument}]
    BY <1>5, <2>4, <2>5 DEF SaveReport, StoreObject, Announce, OutputFails, RecordFailure,
       AnnounceFailure, RecordingFails, TypeOK
  <2>8. completed' \subseteq [key : Keys, document : Documents]
    <3>1. \/ completed' = completed
          \/ /\ pc[w] = "announce"
             /\ completed' = completed \cup {[key |-> key[w], document |-> document[w]]}
      BY <1>5 DEF SaveReport, StoreObject, Announce, OutputFails, RecordFailure, AnnounceFailure,
                  RecordingFails, Goto
    <3>2. QED
      BY <2>4, <2>5, <3>1 DEF TypeOK
  <2>9. failed' \subseteq Incidents
    BY <1>5, <2>4 DEF SaveReport, StoreObject, Announce, OutputFails, RecordFailure,
       AnnounceFailure, RecordingFails, TypeOK
  <2>10. document' \in [Workers -> Documents \cup {NoDocument}]
    <3>1. FailedDocument("evidence") \in Documents
      BY DEF FailedDocument, Documents
    <3>2. document' = document \/ document' = [document EXCEPT ![w] = FailedDocument("evidence")]
      BY <1>5 DEF SaveReport, StoreObject, Announce, OutputFails, RecordFailure, AnnounceFailure,
                  RecordingFails
    <3>3. QED
      BY <3>1, <3>2 DEF TypeOK
  <2>11. faults' \in 0 .. MaxFaults
    BY <1>5, SizesAssumption DEF SaveReport, StoreObject, Announce, OutputFails, RecordFailure,
       AnnounceFailure, RecordingFails, Fault, TypeOK
  <2>12. TypeOK'
    BY <2>1, <2>2, <2>6, <2>7, <2>8, <2>9, <2>10, <2>11 DEF TypeOK, redis
  <2>13. QED
    BY <2>3, <2>12
<1>6. ASSUME NEW w \in Workers, AcknowledgeFails(w) \/ DeadLetter(w)
      PROVE  WorkInv'
  <2>1. pc[w] # "loop"
    BY <1>6 DEF AcknowledgeFails, DeadLetter, Goto
  <2>2. Current(w) \in Messages
    BY <2>1, RequestTyped
  <2>3. HasMessage'
    BY <1>6, <2>1 DEF AcknowledgeFails, DeadLetter, Goto, HasMessage, TypeOK
  <2>4. TypeOK'
    <3>1. CASE AcknowledgeFails(w)
      BY <2>2, <3>1, SizesAssumption DEF AcknowledgeFails, Goto, Fault, TypeOK, stores
    <3>2. CASE DeadLetter(w)
      BY <2>2, <3>2 DEF DeadLetter, Goto, TypeOK, stores
    <3>3. QED
      BY <1>6, <3>1, <3>2
  <2>5. QED
    BY <2>3, <2>4
<1>7. ASSUME NEW i \in Incidents, UpdateIncident(i)
      PROVE  WorkInv'
  BY <1>7, SizesAssumption DEF UpdateIncident, TypeOK, HasMessage, redis, stores
<1>8. CASE UNCHANGED vars
  BY <1>8 DEF vars, redis, stores, TypeOK, HasMessage
<1>9. QED
  BY <1>1, <1>2, <1>3, <1>4, <1>5, <1>6, <1>7, <1>8 DEF Next, Process, Misfortune, Idle

-----------------------------------------------------------------------------
(* Nothing is taken back *)

\* Rows, objects, completions and dead letters stay, and are of the evidence.
Kept ==
  /\ \A k \in Keys : reports[k] # NoDocument => reports'[k] # NoDocument
  /\ \A k \in Keys : objects[k] # NoDocument => objects'[k] # NoDocument
  /\ completed \subseteq completed' /\ dlq \subseteq dlq'

\* The other workers are where they were.
OthersStay(w) ==
  \A v \in Workers \ {w} :
    pc'[v] = pc[v] /\ batch'[v] = batch[v] /\ key'[v] = key[v] /\ document'[v] = document[v]

LEMMA OthersKeepOrder ==
  ASSUME WorkInv, WorkersInOrder, Kept, NEW w \in Workers, OthersStay(w),
         WrittenBy(w)', AnsweredBy(w)'
  PROVE  WorkersInOrder'
<1>1. ASSUME NEW v \in Workers \ {w}
      PROVE  WrittenBy(v)' /\ AnsweredBy(v)'
  <2>1. WrittenBy(v) /\ AnsweredBy(v) /\ key[v] \in Keys
    BY DEF WorkersInOrder, WorkInv, TypeOK, Keys
  <2>2. pc'[v] = pc[v] /\ batch'[v] = batch[v] /\ key'[v] = key[v] /\ document'[v] = document[v]
    BY DEF OthersStay
  <2>3. WrittenBy(v)'
    BY <2>1, <2>2 DEF WrittenBy, Kept
  <2>4. AnsweredBy(v)'
    BY <2>1, <2>2 DEF AnsweredBy, Kept, Request, Current
  <2>5. QED
    BY <2>3, <2>4
<1>2. QED
  BY <1>1 DEF WorkersInOrder

\* A row that is saved is one under the worker's key.
LEMMA SavingKeeps ==
  ASSUME WorkInv, WorkersInOrder, NEW w \in Workers, pc[w] \in {"save", "record_failure"},
         reports' = Saved(w)
  PROVE  /\ \A k \in Keys : reports[k] # NoDocument => reports'[k] # NoDocument
         /\ reports'[key[w]] # NoDocument
BY SavedTyped DEF WorkInv, WorkersInOrder, WrittenBy, Writing

\* What a step may do to the stores and the acknowledgements.
LEMMA ReportStep ==
  ASSUME ReportInv, [Next]_vars
  PROVE  /\ Kept /\ ObjectsAreEvidence'
         /\ \A c \in completed' \ completed :
              objects'[c.key] # NoDocument /\ reports'[c.key] # NoDocument
         /\ \A i \in failed' \ failed : \E r \in 1 .. MaxRevision : reports'[<<i, r>>] # NoDocument
         /\ \A m \in acked' \ acked :
              m \in dlq' \/ \E c \in completed' : c.key[1] = Stream[m].incident
<1> DEFINE Claim ==
      /\ Kept /\ ObjectsAreEvidence'
      /\ \A c \in completed' \ completed :
           objects'[c.key] # NoDocument /\ reports'[c.key] # NoDocument
      /\ \A i \in failed' \ failed : \E r \in 1 .. MaxRevision : reports'[<<i, r>>] # NoDocument
      /\ \A m \in acked' \ acked :
           m \in dlq' \/ \E c \in completed' : c.key[1] = Stream[m].incident
<1> USE DEF ReportInv
<1>1. ASSUME UNCHANGED <<stores, acked>>, dlq \subseteq dlq'
      PROVE  Claim
  BY <1>1 DEF stores, Kept, ObjectsAreEvidence
<1>2. ASSUME NEW w \in Workers, pc[w] \in {"ack", "dead_ack"}, UNCHANGED <<stores, dlq>>,
             acked' \in {acked, acked \cup {Current(w)}}
      PROVE  Claim
  BY <1>2 DEF stores, Kept, ObjectsAreEvidence, WorkersInOrder, AnsweredBy, Request
<1>3. ASSUME NEW w \in Workers, pc[w] \in {"save", "record_failure"}, reports' = Saved(w),
             UNCHANGED <<objects, completed, failed, acked, dlq>>
      PROVE  Claim
  BY <1>3, SavingKeeps DEF Kept, ObjectsAreEvidence
<1>4. ASSUME NEW w \in Workers, pc[w] = "store", objects' = [objects EXCEPT ![key[w]] = document[w]],
             UNCHANGED <<reports, completed, failed, acked, dlq>>
      PROVE  Claim
  BY <1>4 DEF Kept, ObjectsAreEvidence, WorkersInOrder, WrittenBy, Writing, WorkInv, TypeOK, Keys
<1>5. ASSUME NEW w \in Workers, pc[w] = "announce",
             completed' = completed \cup {[key |-> key[w], document |-> document[w]]},
             UNCHANGED <<reports, objects, failed, acked, dlq>>
      PROVE  Claim
  BY <1>5 DEF Kept, ObjectsAreEvidence, WorkersInOrder, WrittenBy, Writing
<1>6. ASSUME NEW w \in Workers, pc[w] = "announce_failure", failed' = failed \cup {key[w][1]},
             UNCHANGED <<reports, objects, completed, acked, dlq>>
      PROVE  Claim
  <2>1. key[w] \in Keys
    BY DEF WorkInv, TypeOK, Keys
  <2>2. key[w] = <<key[w][1], key[w][2]>> /\ key[w][2] \in 1 .. MaxRevision
    BY <2>1, KeysTyped
  <2>3. reports'[<<key[w][1], key[w][2]>>] # NoDocument
    BY <1>6, <2>2 DEF WorkersInOrder, WrittenBy
  <2>4. QED
    BY <1>6, <2>2, <2>3 DEF Kept, ObjectsAreEvidence
<1> HIDE DEF Claim
<1>7. ASSUME NEW w \in Workers, Read(w) \/ Process(w) \/ Misfortune(w)
      PROVE  Claim
  <2>1. CASE \/ Read(w) \/ Invalid(w) \/ GetIncident(w) \/ Assemble(w) \/ LeaveForRetry(w)
             \/ GiveUp(w) \/ DeadLetter(w) \/ GetIncidentFails(w) \/ EvidenceFails(w)
    BY <1>1, <2>1 DEF Read, Invalid, GetIncident, Assemble, LeaveForRetry, GiveUp, DeadLetter,
       GetIncidentFails, EvidenceFails, redis
  <2>2. CASE Acknowledge(w) \/ AcknowledgeFails(w)
    BY <1>2, <2>2 DEF Acknowledge, AcknowledgeFails, Goto
  <2>3. CASE Restart(w)
    BY <1>1, <1>2, <2>3 DEF Restart, redis
  <2>4. CASE SaveReport(w) \/ RecordFailure(w)
    BY <1>3, <2>4 DEF SaveReport, RecordFailure, Goto, redis
  <2>5. CASE StoreObject(w)
    BY <1>4, <2>5 DEF StoreObject, Goto, redis
  <2>6. CASE Announce(w)
    BY <1>5, <2>6 DEF Announce, Goto, redis
  <2>7. CASE AnnounceFailure(w)
    BY <1>6, <2>7 DEF AnnounceFailure, Goto, redis
  <2>8. CASE OutputFails(w)
    BY <1>1, <1>3, <1>4, <1>5, <2>8 DEF OutputFails, redis, stores
  <2>9. CASE RecordingFails(w)
    BY <1>1, <1>3, <1>6, <2>9 DEF RecordingFails, redis, stores
  <2>10. QED
    BY <1>7, <2>1, <2>2, <2>3, <2>4, <2>5, <2>6, <2>7, <2>8, <2>9 DEF Process, Misfortune
<1>8. ASSUME NEW i \in Incidents, UpdateIncident(i)
      PROVE  Claim
  BY <1>1, <1>8 DEF UpdateIncident, redis
<1>9. ASSUME UNCHANGED vars
      PROVE  Claim
  BY <1>1, <1>9 DEF vars, redis
<1>10. Claim
  BY <1>7, <1>8, <1>9 DEF Next, Idle
<1>11. QED
  BY <1>10 DEF Claim

-----------------------------------------------------------------------------
(* The workers stay in order *)

LEMMA OrderStep ==
  ASSUME ReportInv, [Next]_vars
  PROVE  WorkersInOrder'
<1> USE DEF ReportInv
<1>1. Kept /\ WorkInv /\ WorkInv'
  BY ReportStep, TypingStep
<1>2. ASSUME UNCHANGED <<stores, pc, batch, key, document, dlq>>
      PROVE  WorkersInOrder'
  BY <1>2 DEF WorkersInOrder, WrittenBy, AnsweredBy, Request, Current, stores
<1>3. ASSUME NEW w \in Workers, Read(w) \/ Process(w) \/ Misfortune(w)
      PROVE  WorkersInOrder'
  <2>1. OthersStay(w)
    <3>1. CASE Read(w)
      BY <1>1, <3>1 DEF OthersStay, WorkInv, TypeOK, Goto, Advance, Read
    <3>2. CASE Process(w)
      <4>1. CASE Invalid(w) \/ GetIncident(w) \/ Assemble(w) \/ SaveReport(w)
        BY <1>1, <4>1 DEF OthersStay, WorkInv, TypeOK, Goto, Advance, Invalid, GetIncident,
           Assemble, SaveReport
      <4>2. CASE StoreObject(w) \/ Announce(w) \/ RecordFailure(w) \/ AnnounceFailure(w)
        BY <1>1, <4>2 DEF OthersStay, WorkInv, TypeOK, Goto, Advance, StoreObject, Announce,
           RecordFailure, AnnounceFailure
      <4>3. CASE Acknowledge(w) \/ LeaveForRetry(w) \/ GiveUp(w) \/ DeadLetter(w)
        BY <1>1, <4>3 DEF OthersStay, WorkInv, TypeOK, Goto, Advance, Acknowledge,
           LeaveForRetry, GiveUp, DeadLetter
      <4>4. QED
        BY <3>2, <4>1, <4>2, <4>3 DEF Process
    <3>3. CASE Misfortune(w)
      BY <1>1, <3>3 DEF OthersStay, WorkInv, TypeOK, Misfortune, Goto, Advance, GetIncidentFails,
         EvidenceFails, OutputFails, RecordingFails, AcknowledgeFails, Restart
    <3>4. QED
      BY <1>3, <3>1, <3>2, <3>3
  <2>2. ASSUME WrittenBy(w)', AnsweredBy(w)'
        PROVE  WorkersInOrder'
    BY <1>1, <2>1, <2>2, OthersKeepOrder
  <2>3. /\ pc \in [Workers -> {"loop", "work", "evidence", "save", "store", "announce",
                               "ack", "record_failure", "announce_failure", "retry",
                               "dead_letter", "dead_ack"}]
        /\ key[w] \in Keys /\ WrittenBy(w) /\ AnsweredBy(w)
    BY <1>1 DEF WorkInv, TypeOK, Keys, WorkersInOrder
  <2>4. ASSUME pc'[w] \in {"loop", "work", "retry", "dead_letter"}
        PROVE  WorkersInOrder'
    BY <2>2, <2>4 DEF WrittenBy, AnsweredBy, Writing
  <2>5. CASE Read(w) \/ Invalid(w) \/ GiveUp(w) \/ AcknowledgeFails(w) \/ Restart(w)
    BY <2>3, <2>4, <2>5 DEF Read, Invalid, GiveUp, AcknowledgeFails, Restart, Goto
  <2>6. CASE Acknowledge(w) \/ LeaveForRetry(w)
    BY <2>3, <2>4, <2>6 DEF Acknowledge, LeaveForRetry, Advance
  <2>7. CASE AnnounceFailure(w) \/ RecordingFails(w)
    BY <2>3, <2>4, <2>7 DEF AnnounceFailure, RecordingFails, Goto
  <2>8. CASE GetIncident(w)
    <3>1. pc'[w] = "evidence" /\ batch' = batch /\ key'[w][1] = Request(w).incident
      BY <1>1, <2>3, <2>8 DEF GetIncident, Goto, WorkInv, TypeOK
    <3>2. QED
      BY <2>2, <3>1 DEF WrittenBy, AnsweredBy, Writing, Request, Current
  <2>9. CASE Assemble(w)
    <3>1. pc'[w] = "save" /\ pc[w] = "evidence" /\ UNCHANGED <<batch, key>>
          /\ document'[w].hash = "evidence" /\ document'[w].sections = "evidence"
      BY <1>1, <2>3, <2>9 DEF Assemble, Goto, WorkInv, TypeOK
    <3>2. document'[w] # NoDocument
      BY <3>1 DEF NoDocument
    <3>3. QED
      BY <2>2, <2>3, <3>1, <3>2 DEF WrittenBy, AnsweredBy, Writing, Request, Current
  <2>10. CASE GetIncidentFails(w) \/ EvidenceFails(w) \/ OutputFails(w)
    <3>1. pc'[w] = "record_failure" /\ document'[w].status = "failed"
      BY <1>1, <2>3, <2>10 DEF GetIncidentFails, EvidenceFails, OutputFails, Goto, FailedDocument,
                               WorkInv, TypeOK
    <3>2. document'[w] # NoDocument
      BY <3>1 DEF NoDocument
    <3>3. QED
      BY <2>2, <3>1, <3>2 DEF WrittenBy, AnsweredBy, Writing
  <2>11. CASE SaveReport(w) \/ RecordFailure(w)
    <3>1. reports' = Saved(w) /\ UNCHANGED <<batch, key, document>>
          /\ \/ pc[w] = "save" /\ pc'[w] = "store"
             \/ pc[w] = "record_failure" /\ pc'[w] = "announce_failure"
      BY <2>3, <2>11 DEF SaveReport, RecordFailure, Goto
    <3>2. reports'[key'[w]] # NoDocument
      BY <1>1, <3>1, SavingKeeps
    <3>3. QED
      BY <2>2, <2>3, <3>1, <3>2 DEF WrittenBy, AnsweredBy, Writing, Request, Current
  <2>12. CASE StoreObject(w)
    <3>1. pc[w] = "store" /\ pc'[w] = "announce" /\ UNCHANGED <<batch, key, document, reports>>
          /\ objects'[key[w]] = document[w]
      BY <1>1, <2>3, <2>12 DEF StoreObject, Goto, WorkInv, TypeOK, Keys
    <3>2. QED
      BY <2>2, <2>3, <3>1 DEF WrittenBy, AnsweredBy, Writing, Request, Current
  <2>13. CASE Announce(w)
    <3>1. pc[w] = "announce" /\ pc'[w] = "ack" /\ UNCHANGED <<batch, key>>
          /\ [key |-> key[w], document |-> document[w]] \in completed'
      BY <2>3, <2>13 DEF Announce, Goto
    <3>2. \E c \in completed' : c.key[1] = Request(w).incident
      BY <2>3, <3>1 DEF AnsweredBy, Writing
    <3>3. QED
      BY <2>2, <3>1, <3>2 DEF WrittenBy, AnsweredBy, Writing, Request, Current
  <2>14. CASE DeadLetter(w)
    <3>1. pc'[w] = "dead_ack" /\ batch' = batch /\ Current(w) \in dlq'
      BY <2>3, <2>14 DEF DeadLetter, Goto
    <3>2. QED
      BY <2>2, <3>1 DEF WrittenBy, AnsweredBy, Writing, Current
  <2>15. QED
    BY <1>3, <2>5, <2>6, <2>7, <2>8, <2>9, <2>10, <2>11, <2>12, <2>13, <2>14
    DEF Process, Misfortune
<1>4. ASSUME NEW i \in Incidents, UpdateIncident(i)
      PROVE  WorkersInOrder'
  BY <1>2, <1>4 DEF UpdateIncident, redis
<1>5. CASE UNCHANGED vars
  BY <1>2, <1>5 DEF vars, redis
<1>6. QED
  BY <1>3, <1>4, <1>5 DEF Next, Idle

-----------------------------------------------------------------------------
(* The theorems *)

LEMMA ReportStart == Init => ReportInv
<1> SUFFICES ASSUME Init PROVE ReportInv
  OBVIOUS
<1>1. TypeOK
  <2>1. 1 \in 1 .. MaxRevision /\ MaxFaults \in Nat /\ Len(Stream) \in Nat
    BY SizesAssumption, StreamAssumption
  <2>2. \A i \in Incidents : <<i, 1>> \in Incidents \X (1 .. MaxRevision)
    BY <2>1
  <2>3. key \in [Workers -> Incidents \X (1 .. MaxRevision)]
    BY <2>2 DEF Init
  <2>4. <<>> \in Seq(Messages)
    OBVIOUS
  <2>5. QED
    BY <2>1, <2>3, <2>4 DEF Init, TypeOK
<1>2. QED
  BY <1>1 DEF Init, ReportInv, WorkInv, HasMessage, WorkersInOrder, WrittenBy, AnsweredBy, Writing,
              ObjectsAreEvidence, Backed, AckedIsAnswered

\* The inductive invariant: rows before objects before announcements before
\* acknowledgements, and nothing is taken back.
THEOREM ReportInvariance == Spec => []ReportInv
<1>1. ASSUME ReportInv, [Next]_vars
      PROVE  ReportInv'
  <2>1. WorkInv' /\ WorkersInOrder' /\ ObjectsAreEvidence'
    BY <1>1, TypingStep, OrderStep, ReportStep DEF ReportInv
  <2>2. Backed'
    <3>1. \A c \in completed : c.key \in Keys
      BY <1>1 DEF ReportInv, WorkInv, TypeOK
    <3>2. \A i \in failed, r \in 1 .. MaxRevision : <<i, r>> \in Keys
      BY <1>1 DEF ReportInv, WorkInv, TypeOK, Keys
    <3>3. \A c \in completed' : objects'[c.key] # NoDocument /\ reports'[c.key] # NoDocument
      BY <1>1, <3>1, ReportStep DEF ReportInv, Backed, Kept
    <3>4. \A i \in failed' : \E r \in 1 .. MaxRevision : reports'[<<i, r>>] # NoDocument
      BY <1>1, <3>2, ReportStep DEF ReportInv, Backed, Kept
    <3>5. QED
      BY <3>3, <3>4 DEF Backed
  <2>3. AckedIsAnswered'
    BY <1>1, ReportStep DEF ReportInv, AckedIsAnswered, Kept
  <2>4. QED
    BY <2>1, <2>2, <2>3 DEF ReportInv
<1>2. QED
  BY <1>1, ReportStart, PTL DEF Spec

\* TypeOK: types of the tables, the stream and what the workers hold.
THEOREM ReportTyping == Spec => []TypeOK
<1>1. ReportInv => TypeOK
  BY DEF ReportInv, WorkInv
<1>2. QED
  BY <1>1, ReportInvariance, PTL

\* CompletionIsBacked: what publish_report_complete announced is in both stores with
\* the hash it gave, whatever other workers save or fail to save under the same key.
THEOREM CompletionsStand == Spec => []CompletionIsBacked
<1>1. ReportInv => CompletionIsBacked
  BY DEF ReportInv, WorkInv, TypeOK, Backed, ObjectsAreEvidence, CompletionIsBacked
<1>2. QED
  BY <1>1, ReportInvariance, PTL

\* AckedIsAnswered: XACK follows the announcement or the copy to the dead-letter
\* stream, so no request disappears without a trace.
THEOREM AcksAreAnswers == Spec => []AckedIsAnswered
<1>1. ReportInv => AckedIsAnswered
  BY DEF ReportInv
<1>2. QED
  BY <1>1, ReportInvariance, PTL
=============================================================================
