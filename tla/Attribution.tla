------------------------------ MODULE Attribution ------------------------------
(***************************************************************************)
(* Attribution jobs and PCEPS scores at the gateway                        *)
(* (services/api-gateway: SubmitAttributionCommand and SubmitPCEPSCommand  *)
(* in application/commands.py, AttributionRepository and PCEPSRepository). *)
(*                                                                         *)
(* A job is a row and a message that announces it; a score is computed by  *)
(* the causal engine and recorded here for audit.  The row comes first and *)
(* must succeed; the message and the record of a score are best effort.    *)
(* The causal engine is external: it has no endpoint for scores yet, and   *)
(* nobody reads the stream of jobs.                                        *)
(***************************************************************************)
EXTENDS Integers, FiniteSets

CONSTANTS
  Submissions,    \* requests for an attribution; each makes its own attribution_id
  ScoreRequests,  \* requests for a score
  ScoreIds,       \* score_id, which the engine may choose
  NoId            \* no id known yet

VARIABLES
  ticket,     \* where each submission is, or how it was answered
  jobs,       \* attribution_jobs, all 'queued'
  notices,    \* phantom:attribution:jobs
  scoring,    \* where each request for a score is, or how it was answered
  scoreId,    \* the id of its score
  scores      \* pceps_scores

attributionVars == <<ticket, jobs, notices, scoring, scoreId, scores>>

AttributionTypeOK ==
  /\ ticket \in [Submissions -> {"insert", "notify", "answer", "queued", "failed"}]
  /\ jobs \subseteq Submissions /\ notices \subseteq Submissions
  /\ scoring \in [ScoreRequests -> {"engine", "record", "answer", "scored", "failed"}]
  /\ scoreId \in [ScoreRequests -> ScoreIds \cup {NoId}]
  /\ scores \subseteq [id : ScoreIds, job : Submissions]

AttributionInit ==
  /\ ticket = [s \in Submissions |-> "insert"]
  /\ jobs = {} /\ notices = {}
  /\ scoring = [r \in ScoreRequests |-> "engine"]
  /\ scoreId = [r \in ScoreRequests |-> NoId]
  /\ scores = {}

TicketOf(s, from, to) == ticket[s] = from /\ ticket' = [ticket EXCEPT ![s] = to]
ScoringOf(r, from, to) == scoring[r] = from /\ scoring' = [scoring EXCEPT ![r] = to]

-----------------------------------------------------------------------------
(* Faulty variants: the bugs the property must catch *)

\* The job is announced before its row is there.
AnnounceFirst(s) ==
  /\ TicketOf(s, "insert", "notify")
  /\ notices' = notices \cup {s}
  /\ UNCHANGED <<jobs, scoring, scoreId, scores>>

-----------------------------------------------------------------------------
(* Submitting a job *)

\* create_job: the row, 'queued'.
CreateJob(s) ==
  /\ TicketOf(s, "insert", "notify")
  /\ jobs' = jobs \cup {s}
  /\ UNCHANGED <<notices, scoring, scoreId, scores>>

\* The INSERT fails (a reference to nothing, a lost connection: then the row may
\* be there), and the client gets an error.
CreateJobFails(s) ==
  /\ TicketOf(s, "insert", "failed")
  /\ jobs' \in {jobs, jobs \cup {s}}
  /\ UNCHANGED <<notices, scoring, scoreId, scores>>

\* publish_attribution_job, whose failure is only logged; Redis may have appended
\* the message all the same.
Notify(s) ==
  /\ TicketOf(s, "notify", "answer")
  /\ notices' \in {notices, notices \cup {s}}
  /\ UNCHANGED <<jobs, scoring, scoreId, scores>>

AnswerQueued(s) ==
  /\ TicketOf(s, "answer", "queued")
  /\ UNCHANGED <<jobs, notices, scoring, scoreId, scores>>

-----------------------------------------------------------------------------
(* Scoring *)

\* submit_pceps_score: the engine's result; the gateway makes an id if it has none.
EngineScores(r) ==
  /\ ScoringOf(r, "engine", "record")
  /\ \E id \in ScoreIds : scoreId' = [scoreId EXCEPT ![r] = id]
  /\ UNCHANGED <<ticket, jobs, notices, scores>>

\* The engine cannot be reached, or answers with an error.
EngineFails(r) ==
  /\ ScoringOf(r, "engine", "failed")
  /\ UNCHANGED <<ticket, jobs, notices, scoreId, scores>>

\* pceps_scores_pkey and the reference to attribution_jobs.
Recordable(row) == row.job \in jobs /\ \A other \in scores : other.id # row.id

\* create_score, for the attribution that the client named, whatever it was.
RecordScore(r) ==
  /\ ScoringOf(r, "record", "answer")
  /\ \E s \in Submissions :
       LET row == [id |-> scoreId[r], job |-> s]
       IN Recordable(row) /\ scores' = scores \cup {row}
  /\ UNCHANGED <<ticket, jobs, notices, scoreId>>

\* It fails, for a constraint or otherwise, and that is only logged.
RecordFails(r) ==
  /\ ScoringOf(r, "record", "answer")
  /\ UNCHANGED <<ticket, jobs, notices, scoreId, scores>>

AnswerScore(r) ==
  /\ ScoringOf(r, "answer", "scored")
  /\ UNCHANGED <<ticket, jobs, notices, scoreId, scores>>

AttributionNext ==
  \/ \E s \in Submissions : \/ CreateJob(s) \/ CreateJobFails(s)
                            \/ Notify(s) \/ AnswerQueued(s)
  \/ \E r \in ScoreRequests : \/ EngineScores(r) \/ EngineFails(r)
                              \/ RecordScore(r) \/ RecordFails(r) \/ AnswerScore(r)

AttributionSpec == AttributionInit /\ [][AttributionNext]_attributionVars

-----------------------------------------------------------------------------
(* Property *)

\* Whatever is announced or promised exists: a message, an answer "queued" and a
\* recorded score all name a job whose row is stored, whichever query failed and
\* whatever id the client or the engine made up.
TicketsAreBacked ==
  /\ notices \subseteq jobs
  /\ {s \in Submissions : ticket[s] = "queued"} \subseteq jobs
  /\ {row.job : row \in scores} \subseteq jobs
=============================================================================
