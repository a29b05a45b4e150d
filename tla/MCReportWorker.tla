--------------------------- MODULE MCReportWorker ---------------------------
(* An instance of ReportWorker for TLC: two workers, two requests for one       *)
(* incident, the second at its last retry, and one that names no incident.      *)
EXTENDS ReportWorker

CONSTANTS w1, w2, inc

ThreeRequests == <<[incident |-> inc, retries |-> 0],
                   [incident |-> inc, retries |-> 2],
                   [incident |-> NoIncident, retries |-> 0]>>
=============================================================================
