# Formal models of Phantom

Phantom watches processes with eBPF, attributes what they do to containers,
collects drift events centrally, keeps a behavioural dependency graph (BDG) of
them, and supports incidents, reports, signed SBOMs and causal analyses around
that; scripts beside it stage attacks in a lab cluster and score what it saw.
This directory holds TLA+ specifications of the parts of it where concurrency,
failure and ordering decide whether it is correct, the TLC configurations that
check them on small instances, and TLAPS proofs of the most important results
for instances of any size.

Paths below are relative to the repository's root; `gw/` stands for
`services/api-gateway/app/`, `ce/` for `services/causal-engine/app/`, `sb/` for
`services/sbom-service/app/`, `rg/` for `services/report-generator/app/`, `ag/`
for `services/ebpf-agent/` and `ev/` for `research/evaluation/`.

To run: `tlc -workers 2 -config MCX.cfg M` for a run, `tlapm MProofs.tla` for
proofs.  `PROJECT.json` lists the runs, the lines of code each definition
models (`map`), for each property a plausible bug that violates it (`mutants`),
the hazards and the findings.

## 1. Inventory

The path of an event:

    kernel hooks --ring buffers--> agent callback --queue--> processor
       (Redis cache, Kubernetes API)     |
                                         v  POST /api/v1/drift-events
    gateway replicas --one transaction--> drift_events + graph_mutations_outbox
           |  \--Pub/Sub--> WebSocket subscribers
           v  XADD phantom:drift-events
    causal-engine workers (consumer group) --> BDG in memory --> bdg_snapshots

Beside it, analysts create incidents; report workers turn an incident's
evidence into documents; the sbom-service ingests and verifies SBOMs, and the
gateway asks it which component an event comes from.

| Component | State | Operations | Hard behaviour | Correct when |
|---|---|---|---|---|
| eBPF hooks (`ag/bpf/process_events.bpf.c`) | per-CPU stashes, ring buffers, loss counters | enter hook stores, exit hook emits | tasks switched out and migrated between the hooks; full buffers | an event carries the values of its own call; each loss is counted |
| file, network, exec programs (`ag/bpf/*_events.bpf.c`) | stashes, ring buffers | as above; exec and network emit at once | full buffers | as above |
| agent pipeline (`ag/application/main.py`) | identity captures, bounded queue, counters | callback, processor, post | the process is gone when the callback looks; full queue; failing calls; restart | posts name the event's own container, in order; captures do not accumulate |
| Kubernetes attributor (`ag/infrastructure/k8s/attributor.py`) | Redis cache, pod index | attribute, refresh index | stale or negative cached answers | an attribution names the container that made the event |
| BPF loader (`ag/infrastructure/ebpf/loader.py`) | handles | load_all, close_all | third object fails after two are attached | all attached or all released |
| event parser | none | bytes to objects | layout | right object for size and kind |
| gateway ingestion (`gw/application/commands.py`) | drift_events, outbox, stream | post of an event | replicas with different lock keys, lost replies, deaths between stores | one row per event, published only if durable |
| graph-update consumer (`ce/infrastructure/redis_consumer.py`) | pending entries, dead letters, buffered acks | read, reclaim, process, ack | redelivery, death with a batch in hand, failed XACK | nothing dropped, nothing counted twice |
| behavioural graph (`ce/domain/bdg.py`) | nodes, edges, idempotency index, counter | update, decay, cut, project | redelivery after a failed save; cycles; evictions | idempotent; snapshots whole; projection acyclic |
| SBOM ingestion (`sb/application/use_cases/ingest_sbom.py`) | sboms, components, objects | ingest, bind image | two uploads of one SBOM; object stored and row refused | what was answered stays; one row per digest and image |
| signature verification (`.../verify_sbom_signature.py`) | verification_jobs, SBOM's verdict columns | enqueue, run | check-then-insert; stale write-back; task dies | verdict backed by a job; jobs end |
| component mapping (`sb/domain/mapping/`, `gw/application/commands.py`) | the binding stored with an event | ask, resolve, supply, store | SBOMs judged between two reads; repeated events; ambiguity | names a component only when it is identified, and for good |
| report worker (`rg/interface/worker.py`, `rg/application/use_cases.py`) | incident_reports, objects, streams | read, assemble, store, announce, ack | three stores, failures between them; shutdown in a batch | announced reports exist; nothing acked without a trace |
| incident lifecycle (`gw/application/commands.py`) | incidents (revision, status) | create, update, archive, list | concurrent editors; paging | no lost update; listings are complete |
| attribution jobs (`gw/.../attribution_router.py`) | attribution_jobs, pceps_scores, stream | submit, score | lost notification; best-effort record | what is announced exists |
| live stream | subscriptions | subscribe, fan out | slow client | only tenant's events |
| drift detection (`ag/domain/`) | contracts, calibrations | train, calibrate, decide | guard order, back-off, few windows | drift scores above benign; abstains when it must |
| causal analysis (`ce/application/`, `ce/domain/`) | observations, result | build, gate, estimate, refute | contradicting sources; constant columns | an effect compares comparable runs |
| NVD client and cache (`ce/infrastructure/nvd/`) | request times, Redis locks | get, cached get | sleepers wake together; expired lock deleted | limit kept, one fetch per key |
| AWS credential broker (`services/aws-credential-broker/app.py`) | cached credentials | get | time read before the lock | never serves expired credentials |
| evaluation campaign (`ev/scenarios/`, `ev/attacks/`) | cluster, attack objects' notes, results on disk | preflight, inject, poll, recover, save | calls that fail after taking effect; rollouts that do not end; aborted campaigns | residue can be told from the results; index is complete |
| evidence sink (`ev/evidence_store.py`, `ev/oracle.py`) | receipts, consumed observations, pinned trust | observe, submit, rotate, back up | check before transaction; crash; rotation; restore | only established evidence becomes ground truth, once |
| data set (`ev/dataset/packager.py`) | traces, labels, manifest, splits | package | interrupted over an older one; growing campaigns | checksums that fit mean one data set; splits hold out |
| comparison (`ev/baselines/`, `ev/metrics/`) | detections, reports | collect, evaluate, publish | two evaluators, missing data | rows are about the same attacks |
| authentication, read side, report renderer, frontend, deployment, other scripts | none of their own | | | |

`PROJECT.json` has the same list with the modules and the status of each.
Some components are unconnected at present, which the models respect: the drift
detector and the behavioural contracts are not called by the agent, the NVD
cache is not instantiated, `phantom:attribution:jobs` has no reader, no source
writes the stream the report workers read, the causal engine has no endpoint
for the scores the gateway asks it for, and nobody restores a graph from its
snapshots.

## 2. Modules

Each module is one component with its environment (databases, Redis, the
kernel's scheduler, the cluster) as the code sees it.  One action is what runs
between two awaits (Python) or within one hook (eBPF); a sequential script is
one step per call that can fail.  `MCServices` and `MCAnalysis` put nine and
five components that share nothing into one run each: a behaviour is one of the
components', chosen at the start.  Their variables and definitions have names of
their own for that (`incidentVars`, `IngestNext`).

### EventDelivery

What the gateway promises, without replicas, transactions or handlers: an event
is recorded by one post at most, only then are copies of it in the stream, it is
marked as published when one is there, for good, and a client is told nothing
that is not so.  A step changes the stores or tells a client, or both.
`GatewayIngest` implements it under the refinement mapping at its end
(`Delivery`): `recorder` is the request whose row is committed, `sent` what the
stream holds, `marked` the rows whose status is 'published', `announced` the
posts that were fanned out, `told` the answers of handlers that are done.

### GatewayIngest

`IngestDriftEventCommand` and the outbox functions behind it.  A request handler
is a process; `pc` names the call it awaits next.

| Action | Code |
|---|---|
| `Arrive` | the route; the client picks a replica |
| `LookupHit`, `LookupMiss` | the look-up before the transaction |
| `AcquireLock` | `pg_advisory_xact_lock(hash(str(event_id)))`: waits for a holder of the same key |
| `RecheckHit`, `RecheckMiss` | the look-up under the lock |
| `InsertEvent`, `InsertConflict`, `InsertOutbox`, `Commit` | the transaction; an insert waits inside the unique index for an open insert of the event |
| `CommitReplyLost`, `DatabaseError` | the database failing, answering or not |
| `GetOutbox`, `Xadd`, `XaddReplyLost`, `XaddFails`, `MarkPublished(Fails)`, `MarkFailed` | `_publish_outbox_record` |
| `FanOut` | the announcement, after a new row only |
| `Crash(p)` | a replica dies with all its handlers |

`LockKey` is a constant map from replica and event to a key, because Python
salts `hash` per process; nothing is assumed of it, so keys of one event may
differ between replicas and keys of different events may collide.  Rows written
by an open transaction are derived from `pc` (`HasInserted`), since READ
COMMITTED hides them and the index does not.

### GraphConsumer

The consumer group with its workers.  `Read` and `Reclaim` take up to
`ReadBatch` entries; `Process` bundles the steps a worker owes: `Duplicate`,
`Apply`, `ApplyAndCut`, `SaveSnapshot`, `Reject`, `LeavePending`, `GiveUp`,
`DeadLetter`, `Flush`; `Misfortune` bundles what may go wrong: `SaveFails`,
`ReadReplyLost`, `ReclaimReplyLost`, `ReclaimAborts`, `DeadLetterFails`,
`FlushFails`, `Crash`.  The graph is the set of events applied to it, which is
the idempotency index of `bdg.py`; `since` is its batch counter.  A worker that
restarts has an empty graph: `load_snapshot` has no caller.  The stream is
fixed: that it grows is covered by reads of any size.

### SbomVerification

One SBOM, several POSTs of its verification, each with its background task:
`LookUp`/`Refuse`, `Insert`, `Claim`, `Verify`, `SaveJob`, `SaveSbom`, and the
faults `InsertFails`, `TaskDies`.  Cosign answers verified, invalid or
unavailable.  The SBOM is loaded by `Verify` and written back whole by
`SaveSbom`, in another transaction than the job.

### ReportWorker

`Read`, then for each message `Invalid` or `GetIncident`, `Assemble`,
`SaveReport`, `StoreObject`, `Announce`, `Acknowledge`; on a failure
`RecordFailure`, `AnnounceFailure`, then `GiveUp`/`DeadLetter` or
`LeaveForRetry`.  `UpdateIncident` bumps the revision under the worker.  A
`Restart` is a death or a shutdown: what was read and not handled stays pending
and nothing reads it again.

### SyscallStash

Tasks on CPUs: `SwitchIn`, `SwitchOut` are the kernel's scheduler, `Enter` and
`Exit` a hooked call with its two hooks, `Drain` the agent's poll.  Each family
(privilege, namespace, module) has a stash per CPU, a ring buffer and a loss
counter per CPU.  `setgid`, `unshare`, `init_module` and `delete_module` have
no hook that fills a stash.  Tasks may be in a call when the programs attach.

### EbpfAgent

`Spawn`, `Join`, `ProcessExits`, `Exec` are the node's processes, `Report` the
Kubernetes API learning of a container, `Expire` the TTL of the Redis cache.
`Callback` is `rb_callback` (`Look` at `/proc`, then `Enqueue` or `Overflow`),
`Process` the processor: take an event with its capture, gate it on its
identity and namespace, look it up in Redis or ask the API, store the verdict,
post it once.  `Misfortune` is a failed call or a `Restart`.  Callback and
processor share an event loop, so a callback is one action.

### IncidentLifecycle

`CreateBegin`/`CreateCommit`/`CreateFails`, `Get`, `Patch`/`PatchRefused`,
`Archive`, `ListFirst`, `ListNext`.  An analyst keeps the version they last saw,
whose answer may be lost; `replaced` remembers which updates were applied.

### SbomIngest

`Step(q)` is the next await of an upload: look up the row, bind the reference,
store the object, insert row and components; `Dies` the replica.  The insert
fails on the unique index and is answered as the code does.

### ComponentMapping

`Ask` reads which SBOMs of the image there are, `Resolve` the components of the
verified one and the tiers of evidence (hash, path, prefix), `Abstain` is a call
that fails, `Store` what the gateway keeps, `Lose` a post that ends without it.
`Upload` and `Judge` happen in between.

### BehaviorGraph and CausalAnalysis

`Update(e)` upserts all nodes and edges of an event, decays weights, and cuts a
snapshot at the batch boundary.  What an event upserts is a set of items with a
number each, since one item may be upserted for several violations (`Times`);
those upserts have the event's time, so their order does not matter.  Weights are
exact: `Decay` says what a weight is divided by in so many ticks, is
multiplicative, and the unit of a weight is one that stays whole (so the factor
of a tick is one over a whole number; the code's floats admit any).  `Projected`
and `Scm` are the projection and the causal model as functions of the graph.  In `CausalAnalysis`
three callers build observations (`Build`), pass or fail the gates (`Preflight`,
one operator per gate) and run the stages of the estimate; DoWhy may answer
anything at each.

### DriftDetection

`Fetch`, `Train`, `Sign`, `SaveContract`, `Calibrate`, `Decide`.  A score is kept
as the fraction whose logarithm the code takes (`Reduced` to its lowest terms,
which keeps TLC's numbers small) with the length of the window it is divided by,
so that `Above` compares integers, by powers where the lengths differ.  The
criterion that chooses an order and prunes contexts may choose any of
`TrainedModels`.  Calibration keeps the long windows by their place (`Scored`).
Where the code sorts their scores and interpolates between two of them, `Ranked`
names each of the two by how many scores are below it and not above it, and the
threshold is that pair; a score between the two may be decided either way.
The penalty of a window with losses is a fraction too, at least 1: a power of
the score's fraction over a multiple of its length.

### CredentialBroker, NvdCache, BpfLoader, Attribution

Small state machines with one hazard each.  In the broker a request reads the
time (`Reviewed`), queues for the lock, and judges the cache by that time
(`LookUp`).  In the cache, callers contend for a lock in Redis that may expire
and is deleted by name, then for slots of the limiter's window.  The loader is
`SkipObject`, `LoadObject`, `AttachFails`, `ObjectFails`, `AddRing(Fails)`, the
polls, and what is released on each way out.  A ticket is a row, a message and
an answer; a score is the engine's answer and a best-effort row.

### Campaign

`SafetyPreflight` (with each of its layers as a guard), then for each attempt
`Begin` or `NoPod`/`Raises`/`Aborts`, `Inject`, `Verify`, `Poll`, `Recover`,
`PostRecovery`, `SaveResult`, `PersistReceipt`, and `WriteIndex`.  Interventions
are of nine kinds, six attacks and three controls; what each leaves in the
cluster, notes in its object and can take back is `Leaves`, `Remembers` and
`RecoverX`.  A kubectl call may fail with or without effect.  A service is the
image and the note that its deployment asks for and, apart from them, what runs
in its pods: while a rollout has not ended the old pods run on, beside the new
ones or without them (`Rolling`), also when `recover()` has answered TRUE
(`ImageIsSet`).  What may be left after such an answer is `LeftBy` a scenario,
and what the results so far may have left in a service is `Tolerated` there.

### EvidenceSink

`Observe` signs; `Start(c)` applies a trust configuration, `Stop` is a crash or
an end; `Check` authenticates a request in its thread and `Persist` stores it in
a later transaction; `Backup`, `Restore`, `TimePasses`.  Signatures are intact or not.

### Dataset and Evaluation

`Read` computes everything from the results on disk, `Write` writes the next
file, `Interrupted` leaves a torn one; `ResultSaved` is the campaign going on.
The rows of the traces are a function of run and event, and the parts of the
split are sets of runs.
`Evaluation` is `Load`, `SetUp`, `FitAgain`, `Collect` for each detector and
run, `TearDown`, `Evaluate`, `Publish`, `Summary`; rates are pairs of counts.

## 3. Runs

| Run | Instance | Shows |
|---|---|---|
| `gateway_ingest` | 3 posts, replicas east and west with different keys, 2 events whose keys collide, one unpublishable; unlimited faults | `OutboxMatchesEvents`, `AnswersAreDurable`, `ConflictOnlyAcrossKeys`, the refinement `DeliversEvents`, `EveryRequestEnds` |
| `graph_consumer` | 2 workers, 4 entries (one event twice, one rejected), batches, acks, attempts and cuts of 2, 1 fault | `AckedIsHandled`, `EventsCountOnce`, `SnapshotsAreWhole`, `EveryDeliverySettles` |
| `sbom_verification` | 3 requests, 2 faults | `VerifiedHasJob`, `VerdictStands`, `EveryJobEnds` |
| `sbom_one_job` | same | violates `OneActiveJob` |
| `report_worker` | 2 workers, 1 incident with 2 revisions, 3 requests (one at its last retry, one invalid), 2 faults | `CompletionIsBacked`, `AckedIsAnswered`, `UndisturbedSettles` |
| `report_retry` | same | violates `FailedIsRetried` |
| `syscall_stash` | 2 tasks, 2 CPUs, 4 calls, 2 values, buffers of 1, 3 calls in all; symmetric in tasks and CPUs | `UninterruptedIsOwn`, `LossIsCounted` |
| `ebpf_agent` | 1 pid reused by 3 containers and the host, 2 events, buffer and queue of 1, 2 faults | `PostsNameTheirContainer`, `RecordsAccounted`, `EveryEventLeaves` |
| `services` | see below | `NoLostUpdate`, `AnswerStands`, `LentIsUsable`, `LockAndLimitHold`, `PollsAttachedAndEndsEmpty`, `TicketsAreBacked`, `ResidueIsReported`, `IndexIsComplete`, `VerifiedIsWhole`, `HeldOutIsHeldOut`, `RowsAreComparable` |
| `analysis` | see below | `GraphIsItsEvents`, `ScmIsAcyclic`, `ObservationsAreGrounded`, `EffectsAreComparisons`, `NamedIsIdentified`, `DecisionsAreSound`, `ConfirmedIsEstablished`, `OneReceiptPerObservation`, `HistoryStands` |
| `incident_paging` | 2 analysts, 2 incidents, pages of 1 | violates `ListingIsComplete` |
| `campaign_delay` | the campaigns of `services` | violates `FirstDetectionCounts` |

A violating run checks one statement of a comment, a docstring or a log line of
the code and finds the behaviour that breaks it; `findings` in `PROJECT.json`
quotes the line.  Statements that were refuted as well but have no run of their
own are in section 5.

`services`: 2 analysts, 2 incidents, 3 revisions, bodies that reopen or only
tag; 4 uploads of one document, one of them for another image; 3 loans of 2
pods with sessions of 3 ticks; 2 callers of the NVD with one slot per 2 ticks;
3 BPF objects; 2 submissions and 2 scores; campaigns of every kind of scenario
twice in a row, and of two or three scenarios that share a service; 2 packagings while a second campaign
ends; 2 attacks and a control with one more, deficient run.

`analysis`: 6 events of 2 tenants whose times are not in the order of arrival,
batches of 2, weights that halve per tick; every run manifest alone and all archives of four of them; 3 SBOMs
and 2 events at once, or one that comes with a binding; 3 trainings, all windows of one or two tokens, 5
calibrations, losses that count double; an observer whose key is rotated, a registry, collectors whose
statements lack something, 2 requests in flight.

**Bounds.**  `MaxFaults` bounds faults: two suffice for a failure while another
one is being handled, and in `graph_consumer` one on top of unlimited reclaims
by the other worker, which already are redeliveries.  Two workers or replicas
suffice where the conflict is between two actors; three requests let a third one
meet the leftovers of two that raced.  Queues, batches and buffers are at the
smallest size at which they are full, partly full and empty in turn.  Ids stand
for what they identify; revisions and calls are capped by `MaxRevision` and
`MaxCalls`, events of the agent by `MaxEvents`, clocks by `MaxTime`, `Horizon`
and `LastTick`, which exceed the lifetimes they are compared with; a campaign
polls once per phase (`MaxPolls`), since a later poll returns all that an
earlier one did.  Symmetry (tasks and CPUs; analysts) is used in runs without
liveness properties only.  Deadlock is not checked where the system may stop:
when all requests are answered or a script has ended.

**Fairness.**  Each module with a liveness property assumes weak fairness of
what an event loop owes a ready coroutine: `Handle(r)` of the gateway, `Process`
of the workers and the agent, `Callback`, `Read` of the report workers, a
started verification.  Calls end or time out, so no action waits on a fault.
`GraphConsumer` assumes strong fairness of `Reclaim` by some worker: entries
become claimable and stop being so as they are touched, and the loop claims at
its start and at every sixth round for ever.  Nothing is assumed of clients,
faults, the scheduler, TTLs or the Kubernetes API.  In `gateway_ingest` liveness
needs no fairness of `Crash`: a dead holder's lock and index entry are free at
once, which is what PostgreSQL does when the connection closes.

## 4. Proofs

Eight modules hold the proofs.  They assume nothing beyond the named `ASSUME`s
of the modules they are about.  Most of these give the constants their types,
say that the requests of one SBOM, the SBOMs and their components are finitely
many, that the marks the models use for "absent" are no names or values
(`NamesAssumption`, `NilIsNoTrust`, `AbsentAssumption`, `NoneIsNoThreshold`), that
the detector's inputs are sequences of tokens and its reserved tokens finitely
many (`DriftInputs`), that a scenario's manifest calls an attack an attack and a
control benign (`ManifestAssumption`), that paths are indexed (`MappingPaths`),
and that the broker's margin is shorter than a session (`BrokerTimes`; 20 minutes
and an hour in the code).  Three say more of what the
code is given, each what another part of the code writes:

- `DecayAssumption`: what is left of a weight after two times is what is left
  after the second of what is left after the first (`lambda ** (dt / delta)`);
- `ResultsAssumption`: a result that counts a detection of an attack has its
  delay, which is in the window, as `ScenarioRunner` writes it (and as
  `IndexIsComplete` says of the campaign's results);
- `HistoriesAssumption`: results have different ids, since each is kept in a file
  that is named for its run.

None of the safety properties is inductive; what follows names what was missing.

**GatewayIngestProofs**: for any replicas, **any** map of events to lock keys,
any routing and any number of faults.  `IInv` adds:

- `InsertIsExclusive`: who has inserted an event in an open transaction is alone
  in that and no row of the event is committed - the unique index, without which
  `OneRowPerEvent` would not survive a `Commit`;
- `LockIsExclusive` and `RowsSinceRecheck`: transactions with one key exclude
  each other, and a row that turned up between recheck and insert comes from
  another key - the reason for `ConflictOnlyAcrossKeys`;
- `RowIffOutbox`, `UncommittedHasNoRow`, `RowsAreOwn`: what a commit adds;
- `PublishesCommitted`: a handler that publishes has a committed row as target,
  and one about to mark it published has put it in the stream;
- `DecidedIsDurable`: what a handler has decided to answer already holds.

The same module has `Implementation`, that `GatewayIngest` implements
`EventDelivery`.  A step's effect is split in two: on the stores (`StoreStep`,
`StoresRefine`: a record is made, sent, marked or announced, or nothing is) and
on what clients were told (`ToldStep`, `EndIsHonest`).  The bridge is
`RecordOfRow`, from a row to the request whose post it came from, which needs
`IInv`; `FanOutIsDecided` keeps announcements to new rows.

**GraphConsumerProofs**: `HandledInv` (`GraphsWereApplied`, `SavedIsApplied`)
relates pending entries, graphs in memory and saved snapshots; `CountInv`
(`Counted`, `CutIsFresh`) the size of a graph to the batch counter, with the
remainders reasoned about directly rather than by induction.

**ReportWorkerProofs**: rows come before objects, objects before announcements,
announcements before acknowledgements, and nothing written is taken back.  An
object in the store is always evidence of its report, whichever attempt wrote it.

**EbpfAgentProofs**: `AccountInv` has the counters, the captures, and `InLine`:
the ids of events rise from the gateway back through hand, queue and ring to the
kernel, so that a record that is posted cannot return.  `NameInv` says that what
is believed of an event's container - in the kernel's record, the queue, the
hand, the cache - was once true of its cgroup (`KernelTrue`, `QueueTrue`,
`HandTrue`, `IdentitiesTrue`), which a reused pid does not change.

**SbomProofs**: for `VerifiedHasJob`, what tasks hold in memory between their
load of the SBOM and their write (`VerdictsAreBacked`), and that ended jobs are
final (`VerifiedAtEnd`), so a stale SBOM that is written back still has its job.
`CalmInv` is for `VerdictStands`, which speaks of the end of a run without
faults and overlaps: as long as there were none, one request works at a time and
it is the newest (`OneWorks`), writes back what it read and was told
(`WritesOwn`), and the SBOM shows the last answer (`ShowsLast`); that look-ups
take growing times (`TimesAreCounted`) makes "newest" and "last" the same.  For
`NamedIsIdentified`, that what was read for an event stays the event's own
(`ReadsAreOwn`), and `BoundByHash`: only the hash tier names a component.

**ServiceProofs**, for the small state machines:

- hooks: the cause of `UninterruptedIsOwn` is `StashKept`: a call that kept its
  CPU finds in the stash of its family and CPU what its enter hook stored.  This
  is inductive only with `OneTaskPerCPU`: another task's enter hook then runs on
  another CPU.  `LossInv` is for `LossIsCounted`, a sum over the CPUs, which is
  stated as the size of a set of numbered losses, so that a loss more is one
  element more (`LossesGrow`);
- incidents: `SeenOrPassed` (a row at the revision someone saw is what they saw)
  and `AppliedIsPassed` give `NoLostUpdate`;
- uploads: `RowsAreTheirs`, `DocumentsFirst`, `AnswersAreRows`;
- broker: `LockIsHeld`, `ClocksAreRead` (STS was called after the time was read)
  and `SessionsAreOwn`;
- loader: `HandlesAreOpen`, `LoadedIsAttached`, `ClosedHoldsNothing`;
- tickets: `JobsComeFirst`;
- evidence: `OneToOne` and `Confirmed` are stated of a database, and hold of the
  live one and of the backup; `TrustSound` (the pinned file activates nothing
  that was ever revoked) and `JudgedByPinned` (a receipt in flight was judged by
  it) carry `ConfirmedIsEstablished` and `HistoryStands`.

**DriftProofs**: for any trainings, windows, order, sizes and quantile.
`ThresholdInv` says what a decision rests on: whatever is trained was fetched
and is long enough, a contract is there only once it is saved, every benign window
is long, the threshold is that of the benign windows (`ThresholdOf`), and the
decision is among the `Outcomes`.  With it `DecisionsAreSound` is two facts of
arithmetic:

- `DriftIsAboveBenign`: `Above` is a strict order in which every two scores can
  be compared (`AboveIsPowers`, `AtMostTransitive`: powers of integers are
  monotonic, so no logarithm is needed).  Therefore the score at a place exists
  (`HighestOf`, `RankedFacts`), and a window that is decided as drift, being
  above the lower neighbour of the quantile at least, is above the `Rank + 1`
  benign windows that are not above that neighbour;
- `KnownScoresAreDivergences`: of the ratios of expected to observed frequencies
  that a window's divergence multiplies, those of one context and token sum to
  the probability of the token in the model times the length of the context's
  part of the window, so all of them sum to no more than the length of the window
  (`FactorsAtMost`); and a product of n positive fractions that sum to at most n
  is at most one.  The last is the inequality of the means, proved by setting
  one factor to the mean and giving what is over to another (`Smoothed`, `Means`).

`KnownWindowsDiverge` is the second fact for windows of any length, of which
`KnownScoresAreDivergences`, the property that TLC can enumerate, has the first
few.  The products and sums are folds with one factor per token.  What they
compute is shown by induction all the same: `NatSteps` and `SetSteps` state
induction of a *set* of numbers or of subsets, which is a first-order fact that
follows from the well-foundedness of `<`, and the laws of folds (that a fold
exists, does not depend on an order, and splits along a partition) rest on it.

**AnalysisProofs**:

- graph: `GraphInv` says of each node and edge what the events applied so far that
  touch it make of it.  Sums are sizes of sets (`TotalOf`), so one event more adds a
  disjoint part; the bounds of a weight are preserved because decay is monotonic
  and multiplicative, and exact as long as events came in the order of their times
  (`WeightsFollow`).  `BatchesCount` (events = batches + remainder) carries the
  cuts.
- causal model: `EdgesRise`: each relation an event can add leads to a variable of
  a higher `Rank`, and so does each edge the model adds.  A set of variables has
  one of least rank, which no other of them leads to.  The rank is not the tiers'
  order: drift events come before the contracts they violate.
- causal analysis: `ObservationsAreOwn` (which runs are behind the builder and that
  a row is its run's observation), `TasksArePlaced` (a batch does not get behind
  the gates: all of its rows have window 0) and `ComparedOnly`.
- campaign: `CampaignInv` relates attempt, results and receipts; `ClusterInv` has
  `NothingElseIsLeft`: as long as every saved result says that it injected and
  recovered, deployments are clean between runs and their pods hold only what is
  `Tolerated`; during a run only what the intervention in hand can take back is
  changed, and what was noted is the clean state (`InPlace`); after a recovery
  that says it succeeded there is nothing more in the pod than what it does not
  look at (`Undone`), which the result, once saved, makes tolerated
  (`ToleratedGrows`).
- NVD: `Stamped`: the stamps in the window are the last slots given, from the end
  backwards, but for those that have left; `SleepsAlone`: who sleeps alone sleeps
  for the oldest of them.  Both hold until callers crowd.
- data set: whatever manifest is there is of one moment (`ManifestIsRead`), and
  the tables of a packaging are there when its manifest is written
  (`TablesComeFirst`); `OneIsLater` shows that the order of runs by repetition
  and file is strict and total, so a held out family has one last run, and
  `HeldOutLater` that it is trained on earlier ones.
- comparison: the rows are those of what was collected (`RowsAreOfSightings`); that
  they can be compared is a fact about the metrics: how counts of attacks and
  controls, hits and first hits relate, for any results and sightings.

Theorems about properties that no run checks by themselves any more
(`TypeOK`, `OneRowPerEvent`, `StreamOnlyCommitted`, `AcceptedOnce`,
`PublishedIsFinal`) are kept: `DeliversEvents` implies them or rests on them.

**Model-checked only.**  The liveness properties `EveryRequestEnds`,
`EveryDeliverySettles`, `EveryJobEnds`, `UndisturbedSettles` and
`EveryEventLeaves`: under fairness they need ENABLED, which is out of the
prover's reach.  All invariants, action properties and refinements that the
passing runs check are theorems.  The library's induction theorems, whose
parameter is an operator, cannot be instantiated by the provers here; where an
argument takes induction it is over a set (`DriftProofs`) or avoided by stating a
sum as the size of a set (`SyscallStash`, `BehaviorGraph`).  No module has a
recursive operator.

## 5. What is not modelled, and divergences without a run

Formats (JSON, SQL, HTML, PDF, binary layout), tokens, metrics, tracing,
statistics and floating point are left out, and so is time beyond "it may have
passed" (TTL, idle time, timeouts), except where a property is about it (the
broker, the limiter, freshness of evidence).  Redis and PostgreSQL do not lose
what they confirmed.  `NOTIFY`, archive trimming of streams (`MAXLEN`) and the
schema migrations are not modelled.

Not modelled are the event parser (layout of bytes), the report renderer
(layout), PCEPS scoring (a formula without an endpoint that calls it; the ticket
around it is in `Attribution`), the gateway's read side, authentication and
middleware (queries and checks without state), the frontend, the deployment
files, and the research tools that print or plot.  Of the live stream, the
fan-out is in `GatewayIngest` and the sockets are left out.

### Statements of the modules that were refuted

Each is a definition with the line it quotes; the modules' runs do not check it.

| Definition | Why it fails |
|---|---|
| `GatewayIngest!DuplicatesNeverConflict` | `gw/application/commands.py:181`; replicas salt their hashes differently, so a duplicate may be answered 409 |
| `GatewayIngest!OutboxIsDrained` | `002_graph_mutations_outbox.sql:63`; the periodic job does not exist |
| `GraphConsumer!DeadLettersFailedEnough` | `ce/infrastructure/redis_consumer.py:33`; deliveries that were never processed count |
| `SyscallStash!BeforeIsOwn` | `ag/bpf/process_events.bpf.c:18`; `setgid` has no enter hook |
| `CausalAnalysis!StatedPenaltiesApply` | `ce/application/use_cases.py:266-320` does not hand on the loss rate and the contract |
| `EvidenceSink!RetriesReturnReceipts` | `ev/evidence_store.py:320`, `EVIDENCE_SINK.md:40`; freshness and trust are judged before the receipt is looked for |
| `Evaluation!TrueNegativesAreSilent`, `EveryResultIsLoaded` | `ev/metrics/evaluator.py:12`; `ev/baselines/run_baselines.py:79` |
| `Campaign!RecoveredWorkerIsGone` | `ev/attacks/solarwinds_style.py:425,432`; that the rollout fails is only logged, and nobody looks for the worker |
| `SbomIngest!OneImagePerDocument` | the unique index has the image digest in it |

### Further observations

Event path:

- `ce/infrastructure/redis_consumer.py:98`, "acknowledged only after the BDG
  update succeeds": if `save_snapshot` fails, the event is already in the
  idempotency index, so the redelivery is a duplicate that succeeds, the message
  is acknowledged and the snapshot of that cut is never saved.  The model has
  this behaviour; `SnapshotsAreWhole` speaks of the ones that were saved.
- `ce/infrastructure/graph_store.py`: no start loads a snapshot, so a restarted
  engine begins with an empty graph and acknowledged events are in none.  The
  idempotency index is not serialized.
- `gw/application/commands.py:82`: `get_outbox_record` is outside the `try`, so
  an accepted event may be answered 500 (the client's retry then finds it).
  `RecheckHit` answers "duplicate" without publishing a pending row.
  `attempt_count` is a SMALLINT that nothing caps.
- `ag/application/main.py:622-623`, "so that in-flight events are not silently
  dropped": the queue is dropped at shutdown.  541-542 counts an event as
  dispatched although the post failed; 547-552 drops one without a counter
  after an unexpected exception; 518-523 "must NOT filter MISSING events"
  although 368-435 drops them before.
- `ag/infrastructure/k8s/attributor.py:416`: an API error is cached as MISSING
  for a minute; `invalidate` is never called.
- `ag/include/phantom_helpers.h:74`, "User space replaces this with a proper
  UUID": it keeps the id made of clock and CPU, so nodes can collide and the
  gateway answers "duplicate" for another node's event.  `reserve_failures` is
  not read by the agent, and `event_loss_observed` is always false.
- The WebSocket's `resume_after` is accepted and ignored.  The hand-off notes in
  `docs/` describe a bounded retry queue in the agent and a 409 for an event id
  with another digest; neither exists.

Services:

- `sb/interface/routers.py:613`: after the death of a verification task its job
  stays active and each later request is refused with 409.
  `mark_verification_failed` leaves the `rekor_entry_uuid` of an older verdict.
- `rg/application/use_cases.py:49,97-108`: a failed `GetIncident` writes a FAILED
  report over revision 1, and a failed announcement writes FAILED over a COMPLETE
  row; the upsert (`rg/infrastructure/postgres_repository.py:217-220`) keeps the
  old `evidence_hash`.
- The gateway's `publish_report_job` writes `phantom:report:jobs` and has no
  caller; the worker reads `phantom:stream:report.generate`.  Nobody reads
  `phantom:attribution:jobs` or calls `update_job_result`; a score that cannot
  be recorded is answered as if it were.
- A PATCH with nothing but tags is answered 404; archived incidents can be
  reopened by PATCH.
- `NvdCache` says that it re-checks the cache after it took the lock, and does
  not.  Sleepers of the limiter wake together and may exceed the limit, which is
  why `LockAndLimitHold` speaks of uncrowded windows.
- A request of the broker that waited for the lock longer than the margin may be
  lent an expired session.
- With an interpreter, the path evidence of the mapping has no confidence; a
  `sbom_binding` in a request is stored as given, whatever SBOM it names (`Supply`;
  the agent sends none).

Graph and analyses:

- `first_seen_at` is the first event processed, not the first observed.  A
  violation without a `drift_event_id` gets a random one, which another graph of
  the same events will not have.  A projection filters nodes by tenant, not
  edges.  Several violations of one
  contract in one event count several times.
- All observations of a batch have window 0, so the duplicate gate blocks each
  batch of two or more; `build_from_run_batch` has no node data, so the mapping
  gate blocks; nodes carry no `mapping_status`; the gates for times are never
  given times.  A verified "conforming" overrides the oracle's contradiction.
  Empty observations raise a `KeyError` although `dowhy_estimator` says that it
  never raises; a completed analysis may carry no finite effect.  The default
  treatment is no variable of a projection.
- Nobody outside the tests constructs the drift decider or its calibration.
  Windows with novel tokens may score below benign ones because the weight of
  novelty is 0 by default.  The instance's loss penalty is 2, the proofs' any
  fraction of 1 or more (1.5 by default).

Evaluation:

- A run whose injection fails, or whose verification or attack phase raises (an
  answer of the API that is no JSON does), is never recovered, so the next
  baseline starts with its residue (`ResidueIsReported` is about what is recorded
  of it).  An attack object notes the state it finds, so after a failed recovery
  the next run restores the residue and reports success.  Three kinds of recovery
  swallow failures inside a pod, and the one of the image that of its rollout:
  each answers TRUE over a process that may still run, which is all that
  `ResidueIsReported` tolerates.  `solarwinds_style.py` sets the image back with a
  plain `kubectl`, without the `--context` of its other calls; the model takes
  kubectl's own context to be the campaign's.  Detections after the
  recovery are asked for since after it, so there are none; each poll returns all
  since the injection although its docstring says "only new records"; detections
  are not filtered by pod.
- A retry after five minutes, or after a rotation, is refused as stale; an
  observation that is made again has a new id and conflicts; an unsigned receipt
  with the event's id blocks the signed one; the restore of an older backup takes
  revocations back.  The receipts of the TCP beacon, which only append, are left
  out.
- Polls that overlap become duplicate rows of the data set although their id is
  "stable"; `is_compromised` is derived from `is_true_positive` though it is said
  never to be; the split files are not among the checksums; with two campaigns
  one repetition may be in validation and test.
- Each run the current runner writes has an unknown ground truth and is excluded
  from the comparison, so the model takes results that were labelled elsewhere.
  A null metric leaves a whole result out silently; false positives of baselines
  are counted per detection; a silent baseline counts as missing telemetry; the
  isolation forest is trained on windows with attacks in them; Trivy's labels
  carry no image, so it never scans; Falco is not filtered by namespace;
  `_print_summary` raises at the end, after the files are written.

## 6. Plan

Order: first the event path, where an error loses or falsifies evidence; then
what analysts do with it; then the helpers and the evaluation.

Done: the event path from the hooks to the graph, each component with its
faults; the gateway's abstract specification and its refinement, checked and
proved; the services around it; the analyses; the evaluation from the campaign
to the published comparison; proofs of every safety and action property that a
passing run checks.

Next models:

1. `DriftDelivery`: the composition of the gateway's outbox, the stream and the
   consumer, with "an accepted event is published, and counted in a graph once"
   as its specification; two nodes whose event ids may collide.
2. The analyses as they will be called: the detector in the agent, runs with
   windows of their own, a consumer of `phantom:attribution:jobs` - once the code
   connects them.

Next proofs: that the campaign keeps `ResultsAssumption` and
`HistoriesAssumption`, with the results of `Campaign` mapped to those of
`Evaluation` and `Dataset`; the safety of `DriftDelivery`.
