---------------------------- MODULE ReportWorker ----------------------------
(***************************************************************************)
(* The report-generator's workers                                          *)
(* (services/report-generator/app/interface/worker.py, with                *)
(* GenerateReportUseCase and its repositories): they read report requests  *)
(* from a Redis stream, assemble the incident's evidence into a report,    *)
(* and store it in PostgreSQL and in the object store.                     *)
(*                                                                         *)
(* No source writes the stream the workers read, so its entries are a      *)
(* constant.  Nothing claims pending entries: an entry is delivered once.  *)
(* A worker handles its messages one by one and interleaves with the       *)
(* others, and with updates of the incidents, at its awaits.               *)
(***************************************************************************)
EXTENDS Integers, Sequences

CONSTANTS
  Workers,       \* worker processes; two overlap during a rolling update
  Incidents,
  NoIncident,    \* the incident of a request that names none
  Stream,        \* the requests: [incident, retries], retries being retry_count
  ReadBatch,     \* entries per XREADGROUP
  MaxRetries,    \* the limit of retry_count
  MaxRevision,   \* bound: revisions of an incident
  MaxFaults      \* bound: failed calls, deaths and shutdowns in one behaviour

ASSUME NoIncidentAssumption == NoIncident \notin Incidents
ASSUME StreamAssumption ==
  Stream \in Seq([incident : Incidents \cup {NoIncident}, retries : Nat])
ASSUME SizesAssumption ==
  {ReadBatch, MaxRetries, MaxRevision} \subseteq Nat \ {0} /\ MaxFaults \in Nat

Messages == DOMAIN Stream
Keys == Incidents \X (1 .. MaxRevision)

\* A report is of the evidence or of nothing, and its hash is that of the
\* evidence's ids or of empty lists.
Documents == [status : {"complete", "partial", "failed"},
              sections : {"evidence", "none"}, hash : {"evidence", "none"}]
NoDocument == [status |-> "absent", sections |-> "none", hash |-> "none"]

VARIABLES
  revision,    \* revision of each row of incidents
  read,        \* last-delivered-id of the consumer group
  acked,       \* messages no longer pending
  dlq,         \* messages copied to report.deadletter
  reports,     \* rows of incident_reports
  objects,     \* documents in the object store
  completed,   \* report.complete: [key, document]
  failed,      \* report.failed: incidents
  pc,          \* where each worker is
  batch,       \* what is left of its batch, the message in hand first
  key,         \* incident and revision it works on
  document,    \* the document it is about to store
  faults       \* faults so far

redis == <<read, acked, dlq>>
stores == <<reports, objects, completed, failed>>
vars == <<revision, redis, stores, pc, batch, key, document, faults>>

TypeOK ==
  /\ revision \in [Incidents -> 1 .. MaxRevision]
  /\ read \in 0 .. Len(Stream)
  /\ acked \subseteq Messages
  /\ dlq \subseteq Messages
  /\ reports \in [Keys -> Documents \cup {NoDocument}]
  /\ objects \in [Keys -> Documents \cup {NoDocument}]
  /\ completed \subseteq [key : Keys, document : Documents]
  /\ failed \subseteq Incidents
  /\ pc \in [Workers -> {"loop", "work", "evidence", "save", "store", "announce",
                         "ack", "record_failure", "announce_failure", "retry",
                         "dead_letter", "dead_ack"}]
  /\ batch \in [Workers -> Seq(Messages)]
  /\ key \in [Workers -> Incidents \X (1 .. MaxRevision)]
  /\ document \in [Workers -> Documents \cup {NoDocument}]
  /\ faults \in 0 .. MaxFaults

Init ==
  /\ revision = [i \in Incidents |-> 1]
  /\ read = 0 /\ acked = {} /\ dlq = {}
  /\ reports = [k \in Keys |-> NoDocument]
  /\ objects = [k \in Keys |-> NoDocument]
  /\ completed = {} /\ failed = {}
  /\ pc = [w \in Workers |-> "loop"]
  /\ batch = [w \in Workers |-> <<>>]
  /\ key \in [Workers -> {<<i, 1>> : i \in Incidents}]
  /\ document = [w \in Workers |-> NoDocument]
  /\ faults = 0

Current(w) == Head(batch[w])
Request(w) == Stream[Current(w)]

Fault == faults < MaxFaults /\ faults' = faults + 1

Goto(w, from, to) == pc[w] = from /\ pc' = [pc EXCEPT ![w] = to]

\* Done with the message in hand: the next one, or the next read.
Advance(w) ==
  /\ batch' = [batch EXCEPT ![w] = Tail(@)]
  /\ pc' = [pc EXCEPT ![w] = IF Tail(batch[w]) = <<>> THEN "loop" ELSE "work"]

\* save_report: a conflict updates the status and the sections only.
Saved(w) ==
  LET row == reports[key[w]]
      new == document[w]
  IN [reports EXCEPT ![key[w]] =
        IF row = NoDocument THEN new ELSE [new EXCEPT !.hash = row.hash]]

-----------------------------------------------------------------------------
(* Faulty variants of the actions below: the bugs the properties must catch *)

\* The completion is announced before the object is stored.
AnnounceEarly(w) ==
  /\ Goto(w, "save", "store")
  /\ reports' = Saved(w)
  /\ completed' = completed \cup {[key |-> key[w], document |-> document[w]]}
  /\ UNCHANGED <<revision, redis, objects, failed, batch, key, document, faults>>

\* Requests to the dead-letter stream are not acknowledged.
AcknowledgeReports(w) ==
  /\ pc[w] \in {"ack", "dead_ack"}
  /\ acked' = IF pc[w] = "ack" THEN acked \cup {Current(w)} ELSE acked
  /\ Advance(w)
  /\ UNCHANGED <<revision, read, dlq, stores, key, document, faults>>

\* Every request is acknowledged, failed or not.
AcknowledgeFailure(w) ==
  /\ pc[w] = "retry" /\ Request(w).retries + 1 < MaxRetries
  /\ acked' = acked \cup {Current(w)}
  /\ Advance(w)
  /\ UNCHANGED <<revision, read, dlq, stores, key, document, faults>>

-----------------------------------------------------------------------------
(* Reading *)

Deliver(k) ==
  /\ read + k <= Len(Stream)
  /\ read' = read + k

Read(w) ==
  /\ Goto(w, "loop", "work")
  /\ \E k \in 1 .. ReadBatch :
       /\ Deliver(k)
       /\ batch' = [batch EXCEPT ![w] = [j \in 1 .. k |-> read + j]]
  /\ UNCHANGED <<revision, acked, dlq, stores, key, document, faults>>

\* A request without an incident goes to the dead-letter stream at once.
Invalid(w) ==
  /\ Goto(w, "work", "dead_letter")
  /\ Request(w).incident = NoIncident
  /\ UNCHANGED <<revision, redis, stores, batch, key, document, faults>>

-----------------------------------------------------------------------------
(* GenerateReportUseCase.execute *)

FailedDocument(hash) == [status |-> "failed", sections |-> "none", hash |-> hash]

GetIncident(w) ==
  /\ Goto(w, "work", "evidence")
  /\ LET i == Request(w).incident
     IN i # NoIncident /\ key' = [key EXCEPT ![w] = <<i, revision[i]>>]
  /\ UNCHANGED <<revision, redis, stores, batch, document, faults>>

\* Before the incident is known, its revision counts as 1.
GetIncidentFails(w) ==
  /\ Goto(w, "work", "record_failure") /\ Fault
  /\ Request(w).incident # NoIncident
  /\ key' = [key EXCEPT ![w] = <<Request(w).incident, 1>>]
  /\ document' = [document EXCEPT ![w] = FailedDocument("none")]
  /\ UNCHANGED <<revision, redis, stores, batch>>

\* Three queries and the assembly.  What is missing decides the status.
Assemble(w) ==
  /\ Goto(w, "evidence", "save")
  /\ \E status \in {"complete", "partial", "failed"} :
       document' = [document EXCEPT
         ![w] = [status |-> status, sections |-> "evidence", hash |-> "evidence"]]
  /\ UNCHANGED <<revision, redis, stores, batch, key, faults>>

\* One of the queries raises: the hash has not been computed yet.
EvidenceFails(w) ==
  /\ Goto(w, "evidence", "record_failure") /\ Fault
  /\ document' = [document EXCEPT ![w] = FailedDocument("none")]
  /\ UNCHANGED <<revision, redis, stores, batch, key>>

SaveReport(w) ==
  /\ Goto(w, "save", "store")
  /\ reports' = Saved(w)
  /\ UNCHANGED <<revision, redis, objects, completed, failed, batch, key, document, faults>>

StoreObject(w) ==
  /\ Goto(w, "store", "announce")
  /\ objects' = [objects EXCEPT ![key[w]] = document[w]]
  /\ UNCHANGED <<revision, redis, reports, completed, failed, batch, key, document, faults>>

Announce(w) ==
  /\ Goto(w, "announce", "ack")
  /\ completed' = completed \cup {[key |-> key[w], document |-> document[w]]}
  /\ UNCHANGED <<revision, redis, reports, objects, failed, batch, key, document, faults>>

\* One of the three raises, done or not: a failed report, with the hash, is
\* recorded in place of the one that may be there.
OutputFails(w) ==
  /\ pc[w] \in {"save", "store", "announce"} /\ Fault
  /\ pc' = [pc EXCEPT ![w] = "record_failure"]
  /\ document' = [document EXCEPT ![w] = FailedDocument("evidence")]
  /\ \/ UNCHANGED <<reports, objects, completed>>
     \/ /\ pc[w] = "save" /\ reports' = Saved(w)
        /\ UNCHANGED <<objects, completed>>
     \/ /\ pc[w] = "store" /\ objects' = [objects EXCEPT ![key[w]] = document[w]]
        /\ UNCHANGED <<reports, completed>>
     \/ /\ pc[w] = "announce"
        /\ completed' = completed \cup {[key |-> key[w], document |-> document[w]]}
        /\ UNCHANGED <<reports, objects>>
  /\ UNCHANGED <<revision, redis, failed, batch, key>>

RecordFailure(w) ==
  /\ Goto(w, "record_failure", "announce_failure")
  /\ reports' = Saved(w)
  /\ UNCHANGED <<revision, redis, objects, completed, failed, batch, key, document, faults>>

AnnounceFailure(w) ==
  /\ Goto(w, "announce_failure", "retry")
  /\ failed' = failed \cup {key[w][1]}
  /\ UNCHANGED <<revision, redis, reports, objects, completed, batch, key, document, faults>>

\* That is logged only.
RecordingFails(w) ==
  /\ pc[w] \in {"record_failure", "announce_failure"} /\ Fault
  /\ pc' = [pc EXCEPT ![w] = "retry"]
  /\ \/ UNCHANGED <<reports, failed>>
     \/ pc[w] = "record_failure" /\ reports' = Saved(w) /\ UNCHANGED failed
     \/ pc[w] = "announce_failure" /\ failed' = failed \cup {key[w][1]} /\ UNCHANGED reports
  /\ UNCHANGED <<revision, redis, objects, completed, batch, key, document>>

-----------------------------------------------------------------------------
(* _handle_message, afterwards *)

Acknowledge(w) ==
  /\ pc[w] \in {"ack", "dead_ack"}
  /\ acked' = acked \cup {Current(w)}
  /\ Advance(w)
  /\ UNCHANGED <<revision, read, dlq, stores, key, document, faults>>

\* XACK after a report is inside the try: a failure counts as one of the report.
AcknowledgeFails(w) ==
  /\ Goto(w, "ack", "retry") /\ Fault
  /\ acked' \in {acked, acked \cup {Current(w)}}
  /\ UNCHANGED <<revision, read, dlq, stores, batch, key, document>>

\* "message_failed_will_retry": the worker goes on, the entry stays pending.
LeaveForRetry(w) ==
  /\ pc[w] = "retry" /\ Request(w).retries + 1 < MaxRetries
  /\ Advance(w)
  /\ UNCHANGED <<revision, redis, stores, key, document, faults>>

GiveUp(w) ==
  /\ Goto(w, "retry", "dead_letter")
  /\ Request(w).retries + 1 >= MaxRetries
  /\ UNCHANGED <<revision, redis, stores, batch, key, document, faults>>

DeadLetter(w) ==
  /\ Goto(w, "dead_letter", "dead_ack")
  /\ dlq' = dlq \cup {Current(w)}
  /\ UNCHANGED <<revision, read, acked, stores, batch, key, document, faults>>

-----------------------------------------------------------------------------
\* The process ends and the pod starts again: a crash; an exception of Redis
\* that leaves the loop (from a read or the dead-letter path, done or not); or,
\* between two messages, a shutdown that leaves the rest of the batch.
Restart(w) ==
  /\ Fault
  /\ pc' = [pc EXCEPT ![w] = "loop"]
  /\ batch' = [batch EXCEPT ![w] = <<>>]
  /\ document' = [document EXCEPT ![w] = NoDocument]
  /\ \/ UNCHANGED redis
     \/ /\ pc[w] = "loop" /\ \E k \in 1 .. ReadBatch : Deliver(k)
        /\ UNCHANGED <<acked, dlq>>
     \/ /\ pc[w] = "dead_letter" /\ dlq' = dlq \cup {Current(w)}
        /\ UNCHANGED <<read, acked>>
     \/ /\ pc[w] = "dead_ack" /\ acked' = acked \cup {Current(w)}
        /\ UNCHANGED <<read, dlq>>
  /\ UNCHANGED <<revision, stores, key>>

\* The gateway's UpdateIncidentCommand: a new revision of the same evidence.
UpdateIncident(i) ==
  /\ revision[i] < MaxRevision
  /\ revision' = [revision EXCEPT ![i] = @ + 1]
  /\ UNCHANGED <<redis, stores, pc, batch, key, document, faults>>

Process(w) ==
  \/ Invalid(w) \/ GetIncident(w) \/ Assemble(w) \/ SaveReport(w) \/ StoreObject(w)
  \/ Announce(w) \/ RecordFailure(w) \/ AnnounceFailure(w)
  \/ Acknowledge(w) \/ LeaveForRetry(w) \/ GiveUp(w) \/ DeadLetter(w)

Misfortune(w) ==
  \/ GetIncidentFails(w) \/ EvidenceFails(w) \/ OutputFails(w) \/ RecordingFails(w)
  \/ AcknowledgeFails(w) \/ Restart(w)

\* Every entry was delivered and every worker waits for new ones.
Idle ==
  /\ read = Len(Stream) /\ \A w \in Workers : pc[w] = "loop"
  /\ UNCHANGED vars

Next ==
  \/ \E w \in Workers : Read(w) \/ Process(w) \/ Misfortune(w)
  \/ \E i \in Incidents : UpdateIncident(i)
  \/ Idle

\* A worker goes on with the message in hand and reads again.
Fairness == \A w \in Workers : WF_vars(Process(w)) /\ WF_vars(Read(w))

Spec == Init /\ [][Next]_vars /\ Fairness

-----------------------------------------------------------------------------
(* Properties *)

\* A completed report that was announced is where the announcement says, with
\* the hash it gives, and has a row, whatever other workers store or fail to
\* store under the same key afterwards; a failure that was announced has a row too.
CompletionIsBacked ==
  /\ \A c \in completed :
       /\ objects[c.key] # NoDocument
       /\ objects[c.key].hash = c.document.hash
       /\ reports[c.key] # NoDocument
  /\ \A i \in failed : \E r \in 1 .. MaxRevision : reports[<<i, r>>] # NoDocument

\* A request is acknowledged only when its report was announced or it is in the
\* dead-letter stream: nothing disappears without a trace.
AckedIsAnswered ==
  \A m \in acked : m \in dlq \/ \E c \in completed : c.key[1] = Stream[m].incident

\* A delivered request is acknowledged in the end, as long as nothing fails.
UndisturbedSettles ==
  \A m \in Messages : (m <= read) ~> (m \in acked \/ faults > 0)

\* "report_worker.message_failed_will_retry" (worker.py:159): a request that
\* failed is tried again and settled.  Violated: it stays pending for ever, as
\* the loop reads new entries only and nothing adds it again.
FailedIsRetried ==
  \A m \in Messages :
    (\E w \in Workers : pc[w] = "retry" /\ Current(w) = m) ~> (m \in acked)
=============================================================================
