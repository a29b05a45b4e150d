-------------------------- MODULE SbomVerification --------------------------
(***************************************************************************)
(* Signature verification of one SBOM by the sbom-service                  *)
(* (services/sbom-service/app/application/use_cases/                       *)
(* verify_sbom_signature.py, its routes and its PostgreSQL repositories).  *)
(*                                                                         *)
(* POST /verification looks up the newest job of the SBOM, inserts a job   *)
(* and runs it as a background task of the replica that took the request;  *)
(* there is no queue behind the table and nothing takes up a job whose     *)
(* task is gone.  Each request makes one job at most, so it names it.      *)
(* Requests interleave, on one replica or several, at every query.  The    *)
(* cosign call touches no shared state and is part of the step that loads  *)
(* the SBOM; its answer is any of the three the adapter can give.          *)
(***************************************************************************)
EXTENDS Integers, FiniteSets

CONSTANTS
  Requests,   \* POSTs of the SBOM's verification
  NoJob,      \* the SQL NULL of a column that holds a job's result
  MaxFaults   \* failed queries and deaths of a replica in one behaviour

ASSUME RequestsAssumption == IsFiniteSet(Requests)
ASSUME NoJobAssumption == NoJob \notin Requests
ASSUME FaultsAssumption == MaxFaults \in Nat

VARIABLES
  jobs,        \* status of each request's row of verification_jobs
  submittedAt, \* submitted_at of that row
  sbom,        \* the verification columns of the SBOM's row
  pc,          \* where each request, then its background task, is
  outcome,     \* what cosign said of each job
  result,      \* the SBOM entity its task is about to write
  faults,      \* faults so far
  overlapped   \* history: a request found no job while another was in hand

vars == <<jobs, submittedAt, sbom, pc, outcome, result, faults, overlapped>>

Columns == [status : {"pending", "verified", "failed"},
            by     : Requests \cup {NoJob},   \* signing_identity, issuer, verified_at
            rekor  : Requests \cup {NoJob}]   \* rekor_entry_uuid
Ingested == [status |-> "pending", by |-> NoJob, rekor |-> NoJob]

Active == {"queued", "running"}
Rows == {j \in Requests : jobs[j] # "none"}
Newest(J) == CHOOSE j \in J : \A k \in J : submittedAt[k] <= submittedAt[j]
InProgress == Rows # {} /\ jobs[Newest(Rows)] \in Active
InHand(r) == pc[r] \in {"claim", "verify", "save_job", "save_sbom"}

\* A verified signature, a refused one, or no answer from Sigstore.
CosignAnswers == {"verified", "invalid", "unavailable"}

TypeOK ==
  /\ jobs \in [Requests -> {"none", "queued", "running", "verified", "failed"}]
  /\ submittedAt \in [Requests -> 0 .. Cardinality(Requests)]
  /\ sbom \in Columns
  /\ pc \in [Requests -> {"new", "insert", "claim", "verify", "save_job", "save_sbom", "end"}]
  /\ outcome \in [Requests -> {"none"} \cup CosignAnswers]
  /\ result \in [Requests -> Columns]
  /\ faults \in 0 .. MaxFaults
  /\ overlapped \in BOOLEAN

Init ==
  /\ jobs = [r \in Requests |-> "none"]
  /\ submittedAt = [r \in Requests |-> 0]
  /\ sbom = Ingested
  /\ pc = [r \in Requests |-> "new"]
  /\ outcome = [r \in Requests |-> "none"]
  /\ result = [r \in Requests |-> Ingested]
  /\ faults = 0
  /\ overlapped = FALSE

Goto(r, from, to) == pc[r] = from /\ pc' = [pc EXCEPT ![r] = to]

Fault == faults < MaxFaults /\ faults' = faults + 1

-----------------------------------------------------------------------------
(* Faulty variants of the actions below: the bugs the properties must catch *)

\* The job waits for something to take it up: no task is scheduled.
InsertWithoutTask(r) ==
  /\ Goto(r, "insert", "end")
  /\ jobs' = [jobs EXCEPT ![r] = "queued"]
  /\ UNCHANGED <<submittedAt, sbom, outcome, result, faults, overlapped>>

\* Any failure of cosign fails the SBOM.
UnavailableFails(r) ==
  /\ Goto(r, "verify", "save_job")
  /\ \/ /\ outcome' = [outcome EXCEPT ![r] = "verified"]
        /\ result' = [result EXCEPT ![r] = [status |-> "verified", by |-> r, rekor |-> r]]
     \/ /\ outcome' \in {[outcome EXCEPT ![r] = o] : o \in {"invalid", "unavailable"}}
        /\ result' = [result EXCEPT ![r] = [sbom EXCEPT !.status = "failed", !.by = NoJob]]
  /\ UNCHANGED <<jobs, submittedAt, sbom, faults, overlapped>>

\* The SBOM is written before its job.
SbomFirst(r) ==
  /\ Goto(r, "save_job", "save_sbom")
  /\ sbom' = result[r]
  /\ UNCHANGED <<jobs, submittedAt, outcome, result, faults, overlapped>>

-----------------------------------------------------------------------------
(* EnqueueVerificationUseCase *)

\* The newest job is queued or running: 409.
Refuse(r) ==
  /\ Goto(r, "new", "end")
  /\ InProgress
  /\ UNCHANGED <<jobs, submittedAt, sbom, outcome, result, faults, overlapped>>

\* There is none: the request takes the time and goes on to insert a job.
LookUp(r) ==
  /\ Goto(r, "new", "insert")
  /\ ~InProgress
  /\ submittedAt' = [submittedAt EXCEPT
                       ![r] = Cardinality({k \in Requests : submittedAt[k] > 0}) + 1]
  /\ overlapped' = (overlapped \/ \E k \in Requests : pc[k] = "insert" \/ InHand(k))
  /\ UNCHANGED <<jobs, sbom, outcome, result, faults>>

Insert(r) ==
  /\ Goto(r, "insert", "claim")
  /\ jobs' = [jobs EXCEPT ![r] = "queued"]
  /\ UNCHANGED <<submittedAt, sbom, outcome, result, faults, overlapped>>

\* The INSERT raises, or commits without an answer: no task is scheduled.
InsertFails(r) ==
  /\ Goto(r, "insert", "end") /\ Fault
  /\ jobs' \in {jobs, [jobs EXCEPT ![r] = "queued"]}
  /\ UNCHANGED <<submittedAt, sbom, outcome, result, overlapped>>

-----------------------------------------------------------------------------
(* RunVerificationUseCase, as a background task *)

\* A job that is not queued is left alone.
Claim(r) ==
  /\ Goto(r, "claim", "verify")
  /\ jobs[r] = "queued"
  /\ jobs' = [jobs EXCEPT ![r] = "running"]
  /\ UNCHANGED <<submittedAt, sbom, outcome, result, faults, overlapped>>

\* mark_verified replaces all columns, mark_verification_failed leaves the
\* Rekor entry, and an unavailable service keeps the SBOM as it was loaded.
Judged(r, answer) ==
  CASE answer = "verified" ->
         {[status |-> "verified", by |-> r, rekor |-> entry] : entry \in {r, NoJob}}
    [] answer = "invalid" -> {[sbom EXCEPT !.status = "failed", !.by = NoJob]}
    [] answer = "unavailable" -> {sbom}

Verify(r) ==
  /\ Goto(r, "verify", "save_job")
  /\ \E answer \in CosignAnswers :
       /\ outcome' = [outcome EXCEPT ![r] = answer]
       /\ \E judged \in Judged(r, answer) : result' = [result EXCEPT ![r] = judged]
  /\ UNCHANGED <<jobs, submittedAt, sbom, faults, overlapped>>

EndJob(r) == [jobs EXCEPT ![r] = IF outcome[r] = "verified" THEN "verified" ELSE "failed"]

SaveJob(r) ==
  /\ Goto(r, "save_job", "save_sbom")
  /\ jobs' = EndJob(r)
  /\ UNCHANGED <<submittedAt, sbom, outcome, result, faults, overlapped>>

SaveSbom(r) ==
  /\ Goto(r, "save_sbom", "end")
  /\ sbom' = result[r]
  /\ UNCHANGED <<jobs, submittedAt, outcome, result, faults, overlapped>>

\* A query of the task raises, having taken effect or not, and nothing catches
\* the exception; or its replica dies.
TaskDies(r) ==
  /\ InHand(r) /\ Fault
  /\ pc' = [pc EXCEPT ![r] = "end"]
  /\ \/ UNCHANGED <<jobs, sbom>>
     \/ pc[r] = "claim" /\ jobs' = [jobs EXCEPT ![r] = "running"] /\ UNCHANGED sbom
     \/ pc[r] = "save_job" /\ jobs' = EndJob(r) /\ UNCHANGED sbom
     \/ pc[r] = "save_sbom" /\ sbom' = result[r] /\ UNCHANGED jobs
  /\ UNCHANGED <<submittedAt, outcome, result, overlapped>>

-----------------------------------------------------------------------------
Step(r) ==
  \/ Refuse(r) \/ LookUp(r) \/ Insert(r)
  \/ Claim(r) \/ Verify(r) \/ SaveJob(r) \/ SaveSbom(r)

Quiescent == \A r \in Requests : pc[r] = "end"

Next ==
  \/ \E r \in Requests : Step(r) \/ InsertFails(r) \/ TaskDies(r)
  \/ Quiescent /\ UNCHANGED vars

\* A request that was taken up goes on, and so does its task: the event loop runs
\* what is ready, queries and cosign end or time out.  No client need send one.
Fairness == \A r \in Requests : WF_vars(pc[r] # "new" /\ Step(r))

Spec == Init /\ [][Next]_vars /\ Fairness

-----------------------------------------------------------------------------
(* Properties *)

\* An SBOM counts as verified only if the job that verified it says so too,
\* whatever stale copy of the row another task wrote back: the resolver trusts
\* the column, an auditor the job.
VerifiedHasJob ==
  sbom.status = "verified" => sbom.by # NoJob /\ jobs[sbom.by] = "verified"

\* Without faults and without two requests in hand at once, the SBOM shows what the
\* last job to get an answer from Sigstore found, and an unavailable service
\* leaves it alone.
VerdictStands ==
  LET Answered == {r \in Requests : outcome[r] \in {"verified", "invalid"}}
  IN Quiescent /\ faults = 0 /\ ~overlapped =>
       IF Answered = {} THEN sbom = Ingested
       ELSE LET last == Newest(Answered)
            IN IF outcome[last] = "verified" THEN sbom.status = "verified" /\ sbom.by = last
               ELSE sbom.status = "failed" /\ sbom.by = NoJob

\* A refused request was refused for a job that ends, unless something failed:
\* whoever asks later is not refused for ever.
EveryJobEnds ==
  \A r \in Requests :
    (jobs[r] \in Active) ~> (jobs[r] \in {"verified", "failed"} \/ faults > 0)

\* "Rejects with VerificationAlreadyInProgressError if a job is already in the
\* queued or running state for this SBOM" (verify_sbom_signature.py:85).
\* Violated: two requests look for a job before either inserts one.
OneActiveJob ==
  Cardinality({r \in Requests : jobs[r] \in Active}) <= 1
=============================================================================
