------------------------------ MODULE EvidenceSink ------------------------------
(***************************************************************************)
(* The ground truth of the evaluation (research/evaluation): an observer   *)
(* signs what it saw of a scenario (scenario_observer.py); the evidence    *)
(* sink authenticates and evaluates a signed observation (oracle.py) and   *)
(* stores one receipt for each run and event, in SQLite                    *)
(* (evidence_store.py).  The trust configuration is read when the sink     *)
(* starts and pinned in the same database.  The sink's handlers run in     *)
(* threads: a request is checked first and stored in a transaction later.  *)
(* The sink crashes and restarts, keys are rotated, and the database is    *)
(* backed up and restored (evidence_backup.py, evidence_s3.py).            *)
(*                                                                         *)
(* A run stands for a run_id with its scenario_id.  A signature that does  *)
(* not fit its payload, and any malformed field, is "not intact".          *)
(***************************************************************************)
EXTENDS Integers, FiniteSets

CONSTANTS
  Assertions,      \* what the observer is given: [run, event, workload, injected, passed,
                   \* expected, state, behavior, referenced, complete, registry, at]
  ObserverKey,     \* the key_id it signs with
  Collected,       \* statements that other collectors signed
  Posts,           \* what is posted, besides a statement: [run, event, admitted,
                   \* workload, processed]; admitted: the contract's selector has it
  Configurations,  \* trust files: [store, generation, keys, revoked]; keys: key_id ->
                   \* [registry, independent]
  MaxAge, Skew,    \* max_age_seconds and future_skew_seconds, in ticks
  LastTick,        \* bound: the last tick of the clock
  MaxSigned,       \* bound: observations signed by the observer
  MaxInFlight,     \* bound: requests that are checked and not yet stored
  Nil              \* no statement, receipt, configuration, event, registry or backup

ASSUME SinkSizes ==
  /\ {MaxAge, Skew, LastTick, MaxSigned, MaxInFlight} \subseteq Nat
  /\ \A c \in Configurations : c.generation \in Nat /\ Nil \notin c.revoked

\* What the files revoke: key ids, which are never empty.
Revocable == UNION {c.revoked : c \in Configurations}

ASSUME NilIsNoTrust == Nil \notin [config : Configurations, revoked : SUBSET Revocable]

VARIABLES
  signed,    \* the statements of the observer
  loaded,    \* [keys, revoked] of the running sink, or Nil when it is down
  inFlight,  \* the receipts that passed the checks and are not yet stored
  trust,     \* the row of oracle_trust_state: [config, revoked], or Nil
  receipts,  \* evidence_receipts: <<run, event>> -> content
  consumed,  \* consumed_oracle_observations: <<key, id>> -> <<run, event>>
  saved,     \* the database as it was backed up last, or Nil
  sinkClock  \* of the sink and of the observer

sinkVars == <<signed, loaded, inFlight, trust, receipts, consumed, saved, sinkClock>>
database == <<trust, receipts, consumed>>

Empty == [x \in {} |-> Nil]

SinkInit ==
  /\ signed = {} /\ loaded = Nil /\ inFlight = {} /\ sinkClock = 0
  /\ trust = Nil /\ receipts = Empty /\ consumed = Empty /\ saved = Nil

-----------------------------------------------------------------------------
(* The observer *)

InTime(at) == sinkClock - at <= MaxAge /\ at - sinkClock <= Skew

\* It signs only what its policy expected to see, of an intervention that was made.
Attests(a) ==
  /\ a.injected /\ a.passed /\ a.state \in {"violating", "conforming"}
  /\ a.state = a.expected /\ a.referenced /\ InTime(a.at) /\ a.registry # Nil
  /\ a.expected = "conforming" => a.complete

\* Each sinkClock with a new observation_id.
Observe(a) ==
  /\ Attests(a) /\ Cardinality(signed) < MaxSigned
  /\ signed' = signed \cup
       {[key |-> ObserverKey, id |-> Cardinality(signed) + 1, run |-> a.run,
         event |-> a.event, workload |-> a.workload, at |-> a.at, intact |-> TRUE,
         referenced |-> a.referenced, complete |-> a.complete, state |-> a.state,
         behavior |-> a.behavior, registry |-> a.registry]}
  /\ UNCHANGED <<loaded, inFlight, database, saved, sinkClock>>

-----------------------------------------------------------------------------
(* Trust *)

Active(c) == DOMAIN c.keys

\* Faulty variant: only the keys that the new file revokes count.
Forgetful(c) == c.revoked

\* What has ever been revoked.
AllRevoked(c) == IF trust = Nil THEN c.revoked ELSE trust.revoked \cup c.revoked

\* apply_trust_configuration: the file is the pinned one, or a later one that lists
\* every key it drops, and activates none that was revoked.
Applicable(c) ==
  trust # Nil =>
    /\ c.store = trust.config.store
    /\ \/ c = trust.config
       \/ /\ c.generation > trust.config.generation
          /\ Active(trust.config) \subseteq Active(c) \cup c.revoked
          /\ Active(c) \cap AllRevoked(c) = {}

\* SinkRuntime; with a file that is refused the sink does not start.
Start(c) ==
  /\ loaded = Nil /\ Active(c) \cap c.revoked = {} /\ Applicable(c)
  /\ trust' = [config |-> c, revoked |-> AllRevoked(c)]
  /\ loaded' = [keys |-> c.keys, revoked |-> AllRevoked(c)]
  /\ UNCHANGED <<signed, inFlight, receipts, consumed, saved, sinkClock>>

\* The process ends, and with it the requests that are not stored.
Stop ==
  /\ loaded # Nil /\ loaded' = Nil /\ inFlight' = {}
  /\ UNCHANGED <<signed, database, saved, sinkClock>>

-----------------------------------------------------------------------------
(* The oracle *)

\* _verify_nested_contract_attestation: without an attestation the contract is not
\* verified; one of any other key than a registry's is refused.
AttestationStands(l, x) ==
  x.registry # Nil =>
    x.registry \notin l.revoked /\ x.registry \in DOMAIN l.keys /\ l.keys[x.registry].registry

\* verify_signed_observation, when it is not stale.
Authentic(l, x) ==
  /\ x.key \notin l.revoked /\ x.key \in DOMAIN l.keys /\ x.intact
  /\ AttestationStands(l, x)

\* _matches_contract: what the behavior is under the constraints, if that can be told.
Assessed(x) == IF x.behavior \in {"violating", "conforming"} THEN x.behavior ELSE "unknown"

\* _classify_contract_observations, of one observation: a violation is one however
\* little was seen, compliance needs the whole interval.
Classified(x, admitted) ==
  IF ~admitted \/ (Assessed(x) = "conforming" /\ ~x.complete) THEN "unknown" ELSE Assessed(x)

\* Faulty variant: the collector's word is taken.
Claimed(l, x, admitted) ==
  IF l.keys[x.key].independent /\ x.referenced THEN x.state ELSE "unknown"

\* evaluate_signed_observation, of an authentic one of the requested run.
Verdict(l, x, admitted) ==
  IF /\ l.keys[x.key].independent /\ x.referenced
     /\ x.state = "conforming" => x.complete
     /\ x.registry # Nil
     /\ Classified(x, admitted) = x.state
    THEN x.state ELSE "unknown"

-----------------------------------------------------------------------------
(* Receipts *)

\* What a retry must have in common with the receipt that is there.
Unsigned(b) ==
  [workload |-> b.workload, processed |-> b.processed, statement |-> Nil,
   outcome |-> "unknown", independent |-> FALSE]

Signed(b, x) ==
  [workload |-> b.workload, processed |-> b.processed, statement |-> x,
   outcome |-> Verdict(loaded, x, b.admitted), independent |-> loaded.keys[x.key].independent]

\* An attempt without a signed observation, or one whose observation is accepted:
\* of the run, the workload and the event that the request names, if it names one.
Checks(b, x) ==
  IF x = Nil THEN [identity |-> <<b.run, b.event>>, content |-> Unsigned(b)]
  ELSE IF /\ Authentic(loaded, x) /\ InTime(x.at)
          /\ x.run = b.run /\ x.workload = b.workload /\ b.event \in {Nil, x.event}
    THEN [identity |-> <<b.run, x.event>>, content |-> Signed(b, x)]
  ELSE Nil

\* submit_receipt up to the transaction; a request that is refused ends here.
Check(b, x) ==
  /\ loaded # Nil /\ Cardinality(inFlight) < MaxInFlight /\ Checks(b, x) # Nil
  /\ inFlight' = inFlight \cup {Checks(b, x)}
  /\ UNCHANGED <<signed, loaded, database, saved, sinkClock>>

ObservationOf(c) == <<c.statement.key, c.statement.id>>

\* Faulty variant: an observation may be used again.
Unconsumed(c) == TRUE

IsUnused(c) == c.statement # Nil => ObservationOf(c) \notin DOMAIN consumed
IsFree(i) == i \notin DOMAIN receipts

\* _persist: an identity that is there is a retry or a conflict, an observation that
\* was consumed a replay; neither changes anything.
Persist(r) ==
  /\ inFlight' = inFlight \ {r}
  /\ IF IsFree(r.identity) /\ IsUnused(r.content)
       THEN /\ receipts' = [i \in DOMAIN receipts \cup {r.identity} |->
                              IF i = r.identity THEN r.content ELSE receipts[i]]
            /\ consumed' =
                 IF r.content.statement = Nil THEN consumed
                 ELSE [o \in DOMAIN consumed \cup {ObservationOf(r.content)} |->
                         IF o = ObservationOf(r.content) THEN r.identity ELSE consumed[o]]
       ELSE UNCHANGED <<receipts, consumed>>
  /\ UNCHANGED <<signed, loaded, trust, saved, sinkClock>>

-----------------------------------------------------------------------------
(* Backups *)

\* backup_database copies the live database, and it is verified.
Backup ==
  /\ trust # Nil
  /\ saved' = [trust |-> trust, receipts |-> receipts, consumed |-> consumed]
  /\ UNCHANGED <<signed, loaded, inFlight, database, sinkClock>>

\* restore_database makes a new file, with which the sink is started then.
Restore ==
  /\ loaded = Nil /\ saved # Nil
  /\ trust' = saved.trust /\ receipts' = saved.receipts /\ consumed' = saved.consumed
  /\ UNCHANGED <<signed, loaded, inFlight, saved, sinkClock>>

TimePasses ==
  /\ sinkClock < LastTick /\ sinkClock' = sinkClock + 1
  /\ UNCHANGED <<signed, loaded, inFlight, database, saved>>

SinkNext ==
  \/ \E a \in Assertions : Observe(a)
  \/ \E c \in Configurations : Start(c)
  \/ Stop
  \/ \E b \in Posts : \E x \in signed \cup Collected \cup {Nil} : Check(b, x)
  \/ \E r \in inFlight : Persist(r)
  \/ Backup \/ Restore \/ TimePasses

SinkSpec == SinkInit /\ [][SinkNext]_sinkVars

-----------------------------------------------------------------------------
(* Properties *)

\* A confirmed receipt is of an observation of its own run, event and workload, by a
\* collector that was trusted as independent, under a contract that a registry
\* signed, and the behavior decides as the collector said: nothing else becomes
\* ground truth, through rotations, crashes and restores.
ConfirmedIsEstablished ==
  \A i \in DOMAIN receipts :
    LET r == receipts[i]
        x == r.statement
    IN r.outcome # "unknown" =>
         /\ x # Nil /\ i = <<x.run, x.event>> /\ x.workload = r.workload
         /\ r.independent /\ x.referenced /\ x.intact /\ x.registry # Nil
         /\ r.outcome = x.state /\ x.behavior = x.state
         /\ x.state = "conforming" => x.complete
         /\ {x.key, x.registry} \subseteq Active(trust.config) \cup trust.revoked

\* The receipts with an observation and the observations that were consumed are one
\* to one, after a crash and in a restored database too.
OneReceiptPerObservation ==
  /\ \A i \in DOMAIN receipts :
       receipts[i].statement # Nil =>
         /\ ObservationOf(receipts[i]) \in DOMAIN consumed
         /\ consumed[ObservationOf(receipts[i])] = i
  /\ \A o \in DOMAIN consumed :
       /\ consumed[o] \in DOMAIN receipts /\ receipts[consumed[o]].statement # Nil
       /\ ObservationOf(receipts[consumed[o]]) = o

\* Unless an older database is restored, a receipt is never changed, what was
\* revoked stays revoked, a key that is dropped is revoked, and no receipt is stored
\* on the word of a key that was.
HistoryStands ==
  [][\/ saved # Nil /\ trust' = saved.trust /\ receipts' = saved.receipts
     \/ /\ DOMAIN receipts \subseteq DOMAIN receipts'
        /\ \A i \in DOMAIN receipts : receipts'[i] = receipts[i]
        /\ trust # Nil =>
             /\ trust'.config.generation >= trust.config.generation
             /\ trust.revoked \subseteq trust'.revoked
             /\ Active(trust.config) \subseteq Active(trust'.config) \cup trust'.revoked
             /\ Active(trust'.config) \cap trust'.revoked = {}
        /\ \A i \in DOMAIN receipts' \ DOMAIN receipts :
             LET x == receipts'[i].statement
             IN x # Nil => {x.key, x.registry} \cap trust.revoked = {}]_sinkVars

\* "An identical retry for the same event returns the existing receipt"
\* (EVIDENCE_SINK.md:40): what was posted for a stored receipt is accepted again.
\* Violated: freshness and trust are checked before the receipt is looked for.
RetriesReturnReceipts ==
  loaded # Nil =>
    \A i \in DOMAIN receipts :
      \E b \in Posts : Checks(b, receipts[i].statement) = [identity |-> i, content |-> receipts[i]]
=============================================================================
