---------------------------- MODULE ServiceProofs ----------------------------
(***************************************************************************)
(* What the small services promise, for any number of their clients.  Each *)
(* section is about one module, and its invariant is what that promise     *)
(* rests on: a revision is one version of an incident, an upload is only   *)
(* told of rows, the broker judges its cache by a time read before it      *)
(* asked for new credentials, an object that is loaded is attached unless  *)
(* loading failed, a job is stored before anything is said of it, the      *)
(* evidence sink judges by the trust that is pinned with its receipts, and *)
(* the hooks of a system call that keeps its CPU share a stash of it.      *)
(***************************************************************************)
EXTENDS IncidentLifecycle, SbomIngest, CredentialBroker, BpfLoader, Attribution,
        EvidenceSink, SyscallStash, FiniteSetTheorems, TLAPS

-----------------------------------------------------------------------------
(* Incidents.  No analyst overwrites what they have not seen: a row is     *)
(* never at the revision of a version someone saw without being that       *)
(* version, since a revision is used once per incident, by whichever of    *)
(* PATCH and DELETE got there.                                             *)

\* Of the types, only this is needed: incidents and versions have revisions.
HasRevision(r) == "revision" \in DOMAIN r /\ r.revision \in Nat

VersionsTyped ==
  /\ \A i \in DOMAIN rows : i \in Incidents /\ HasRevision(rows[i])
  /\ view = [a \in Analysts |-> view[a]]
  /\ \A a \in Analysts : view[a] # None =>
       /\ view[a] = Version(view[a].incident, view[a].row)
       /\ HasRevision(view[a].row)

\* What an analyst saw is the row, or the row has gone past that revision.
SeenOrPassed ==
  \A a \in Analysts : view[a] # None =>
    /\ view[a].incident \in DOMAIN rows
    /\ \/ view[a].row = rows[view[a].incident]
       \/ view[a].row.revision < rows[view[a].incident].revision

\* An update that was applied is behind its incident's revision.
AppliedIsPassed ==
  \A u \in replaced :
    /\ u.incident \in DOMAIN rows /\ u.revision \in Nat
    /\ u.revision < rows[u.incident].revision

IncidentInv == VersionsTyped /\ SeenOrPassed /\ AppliedIsPassed

-----------------------------------------------------------------------------
\* A patch or an archiving puts a row with the next revision in the place of one.
Succeeds(i, r) ==
  /\ HasRevision(r)
  /\ i \in DOMAIN rows => rows[i].revision < r.revision

LEMMA UpdatedSucceeds ==
  ASSUME VersionsTyped, NEW p, NEW i \in DOMAIN rows
  PROVE  Succeeds(i, Updated(rows[i], p))
BY DEF Succeeds, Updated, VersionsTyped, HasRevision

LEMMA ArchivedSucceeds ==
  ASSUME VersionsTyped, NEW i \in DOMAIN rows
  PROVE  Succeeds(i, Archived(rows[i]))
BY DEF Succeeds, Archived, VersionsTyped, HasRevision

\* Writing a row with a revision of its own, and answering with it, keeps the
\* invariant of what analysts saw.
LEMMA WriteKeeps ==
  ASSUME VersionsTyped, SeenOrPassed,
         NEW a \in Analysts, NEW i \in Incidents, NEW r, Succeeds(i, r),
         Set(i, r), Answer(a, i, r)
  PROVE  VersionsTyped' /\ SeenOrPassed'
<1>1. rows' = [j \in DOMAIN rows \cup {i} |-> IF j = i THEN r ELSE rows[j]]
  BY DEF Set
<1>2. DOMAIN rows' = DOMAIN rows \cup {i} /\ rows'[i] = r
      /\ \A j \in DOMAIN rows \ {i} : rows'[j] = rows[j]
  BY <1>1
<1>3. view' = view \/ view' = [view EXCEPT ![a] = Version(i, r)]
  BY DEF Answer
<1>4. VersionsTyped'
  BY <1>2, <1>3 DEF VersionsTyped, Succeeds, Version
<1>5. ASSUME NEW b \in Analysts, view'[b] # None
      PROVE  /\ view'[b].incident \in DOMAIN rows'
             /\ \/ view'[b].row = rows'[view'[b].incident]
                \/ view'[b].row.revision < rows'[view'[b].incident].revision
  <2>1. CASE view'[b] = view[b]
    <3>1. view[b].incident \in DOMAIN rows
          /\ \/ view[b].row = rows[view[b].incident]
             \/ view[b].row.revision < rows[view[b].incident].revision
      BY <1>5, <2>1 DEF SeenOrPassed
    <3>2. view[b].row.revision \in Nat
      BY <1>5, <2>1 DEF VersionsTyped, HasRevision
    <3>3. CASE view[b].incident = i
      <4>1. rows[i].revision < r.revision /\ rows[i].revision \in Nat /\ r.revision \in Nat
        BY <3>1, <3>3 DEF Succeeds, VersionsTyped, HasRevision
      <4>2. view[b].row.revision < r.revision
        BY <3>1, <3>2, <3>3, <4>1
      <4>3. QED
        BY <1>2, <2>1, <3>3, <4>2
    <3>4. CASE view[b].incident # i
      BY <1>2, <2>1, <3>1, <3>4
    <3>5. QED
      BY <3>3, <3>4
  <2>2. CASE view'[b] = Version(i, r)
    BY <1>2, <2>2 DEF Version
  <2>3. QED
    BY <1>3, <2>1, <2>2 DEF VersionsTyped
<1>6. QED
  BY <1>4, <1>5 DEF SeenOrPassed

LEMMA WriteKeepsApplied ==
  ASSUME VersionsTyped, AppliedIsPassed, NEW i \in Incidents, NEW r, Succeeds(i, r), Set(i, r)
  PROVE  \A u \in replaced :
           u.incident \in DOMAIN rows' /\ u.revision < rows'[u.incident].revision
<1>1. rows' = [j \in DOMAIN rows \cup {i} |-> IF j = i THEN r ELSE rows[j]]
  BY DEF Set
<1>2. SUFFICES ASSUME NEW u \in replaced
               PROVE  u.incident \in DOMAIN rows' /\ u.revision < rows'[u.incident].revision
  OBVIOUS
<1>3. u.incident \in DOMAIN rows /\ u.revision < rows[u.incident].revision /\ u.revision \in Nat
  BY DEF AppliedIsPassed
<1>4. rows[u.incident].revision \in Nat
  BY <1>3 DEF VersionsTyped, HasRevision
<1>5. CASE u.incident = i
  BY <1>1, <1>3, <1>4, <1>5 DEF Succeeds, HasRevision
<1>6. CASE u.incident # i
  BY <1>1, <1>3, <1>6
<1>7. QED
  BY <1>5, <1>6

-----------------------------------------------------------------------------
(* The invariant, and what an update may write *)

LEMMA IncidentStart == IncidentInit => IncidentInv
BY DEF IncidentInit, IncidentInv, VersionsTyped, SeenOrPassed, AppliedIsPassed

\* An update that is applied was written against the row it replaces, and every
\* earlier one against an earlier revision.
WellFounded(u) ==
  /\ view[u.analyst] = Version(u.incident, rows[u.incident])
  /\ \A w \in replaced : w.incident = u.incident => w.revision < u.revision

LEMMA IncidentStep ==
  ASSUME IncidentInv, [IncidentNext]_incidentVars
  PROVE  IncidentInv' /\ \A u \in replaced' \ replaced : WellFounded(u)
<1> USE DEF IncidentInv
<1>1. ASSUME UNCHANGED <<rows, view, replaced>>
      PROVE  IncidentInv' /\ \A u \in replaced' \ replaced : WellFounded(u)
  BY <1>1 DEF VersionsTyped, SeenOrPassed, AppliedIsPassed
<1>2. ASSUME NEW a \in Analysts, NEW i \in Incidents, CreateCommit(a, i)
      PROVE  IncidentInv' /\ \A u \in replaced' \ replaced : WellFounded(u)
  <2>1. PICK r : Succeeds(i, r) /\ Set(i, r) /\ Answer(a, i, r)
    BY <1>2 DEF CreateCommit, Succeeds, HasRevision
  <2>2. replaced' = replaced
    BY <1>2 DEF CreateCommit
  <2>3. QED
    BY <2>1, <2>2, WriteKeeps, WriteKeepsApplied DEF AppliedIsPassed
<1>3. ASSUME NEW a \in Analysts, NEW i \in Incidents, Archive(a, i)
      PROVE  IncidentInv' /\ \A u \in replaced' \ replaced : WellFounded(u)
  <2>1. PICK r : Succeeds(i, r) /\ Set(i, r) /\ Answer(a, i, r)
    BY <1>3, ArchivedSucceeds DEF Archive
  <2>2. replaced' = replaced
    BY <1>3 DEF Archive
  <2>3. QED
    BY <2>1, <2>2, WriteKeeps, WriteKeepsApplied DEF AppliedIsPassed
<1>4. ASSUME NEW a \in Analysts, NEW i \in Incidents, Get(a, i)
      PROVE  IncidentInv' /\ \A u \in replaced' \ replaced : WellFounded(u)
  <2>1. i \in DOMAIN rows /\ view' = [view EXCEPT ![a] = Version(i, rows[i])]
        /\ rows' = rows /\ replaced' = replaced
    BY <1>4 DEF Get
  <2>2. QED
    BY <2>1 DEF VersionsTyped, SeenOrPassed, AppliedIsPassed, Version
<1>5. ASSUME NEW a \in Analysts, NEW p \in Bodies, PatchRefused(a, p)
      PROVE  IncidentInv' /\ \A u \in replaced' \ replaced : WellFounded(u)
  <2>1. view' = [view EXCEPT ![a] = None] /\ rows' = rows /\ replaced' = replaced
    BY <1>5 DEF PatchRefused
  <2>2. QED
    BY <2>1 DEF VersionsTyped, SeenOrPassed, AppliedIsPassed
<1>6. ASSUME NEW a \in Analysts, NEW p \in Bodies, Patch(a, p)
      PROVE  IncidentInv' /\ \A u \in replaced' \ replaced : WellFounded(u)
  <2> DEFINE i == view[a].incident
             e == view[a].row.revision
             u == [incident |-> i, revision |-> e, analyst |-> a]
  <2>1. view[a] # None /\ Matches(i, e) /\ replaced' = replaced \cup {u}
        /\ Set(i, Updated(rows[i], p)) /\ Answer(a, i, Updated(rows[i], p))
    BY <1>6 DEF Patch
  <2>2. i \in DOMAIN rows /\ i \in Incidents /\ rows[i].revision = e /\ e \in Nat
    BY <2>1 DEF Matches, VersionsTyped, HasRevision
  <2>3. Succeeds(i, Updated(rows[i], p))
    BY <2>2, UpdatedSucceeds
  <2>4. VersionsTyped' /\ SeenOrPassed'
    BY <2>1, <2>2, <2>3, WriteKeeps
  <2>5. view[a].row = rows[i]
    BY <2>1, <2>2 DEF SeenOrPassed
  <2>6. \A w \in replaced : /\ w.incident \in DOMAIN rows' /\ w.revision \in Nat
                            /\ w.revision < rows'[w.incident].revision
    BY <2>1, <2>2, <2>3, WriteKeepsApplied DEF AppliedIsPassed
  <2>7. i \in DOMAIN rows' /\ e < rows'[i].revision
    BY <2>1, <2>2, <2>3 DEF Set, Succeeds
  <2>8. AppliedIsPassed'
    BY <2>1, <2>2, <2>6, <2>7 DEF AppliedIsPassed
  <2>9. view[a] = Version(i, rows[i])
    BY <2>1, <2>5 DEF VersionsTyped, Version
  <2>10. \A w \in replaced : w.incident = i => w.revision < e
    BY <2>2 DEF AppliedIsPassed
  <2>11. QED
    BY <2>1, <2>4, <2>8, <2>9, <2>10 DEF WellFounded
<1>7. QED
  BY <1>1, <1>2, <1>3, <1>4, <1>5, <1>6
  DEF IncidentNext, incidentVars, Tick, CreateBegin, CreateFails, ListFirst, ListNext

\* The inductive invariant: a revision is one version (see above).
THEOREM IncidentInvariance == IncidentSpec => []IncidentInv
<1>1. IncidentInv /\ [IncidentNext]_incidentVars => IncidentInv'
  BY IncidentStep
<1>2. QED
  BY <1>1, IncidentStart, PTL DEF IncidentSpec

\* NoLostUpdate: of the updates written against one revision (_do_update_revision's
\* WHERE revision = expected) at most one is applied, and none over a state its
\* author has not seen.
THEOREM NothingOverwritten == IncidentSpec => NoLostUpdate
<1> DEFINE A == \A u \in replaced' \ replaced : WellFounded(u)
<1>1. IncidentInv /\ [IncidentNext]_incidentVars => [A]_incidentVars
  BY IncidentStep
<1>2. IncidentSpec => [][A]_incidentVars
  BY <1>1, IncidentInvariance, PTL DEF IncidentSpec
<1>3. QED
  BY <1>2 DEF NoLostUpdate, WellFounded

-----------------------------------------------------------------------------
(* Attribution jobs *)

\* A job's row is there before anything is said of it.
JobsComeFirst == \A s \in Submissions : ticket[s] \in {"notify", "answer", "queued"} => s \in jobs

TicketInv ==
  /\ ticket \in [Submissions -> {"insert", "notify", "answer", "queued", "failed"}]
  /\ JobsComeFirst /\ TicketsAreBacked

LEMMA TicketStep ==
  ASSUME TicketInv, [AttributionNext]_attributionVars
  PROVE  TicketInv'
<1> USE DEF TicketInv, JobsComeFirst, TicketsAreBacked, TicketOf
<1>1. ASSUME NEW s \in Submissions, CreateJob(s) \/ CreateJobFails(s)
      PROVE  TicketInv'
  BY <1>1 DEF CreateJob, CreateJobFails
<1>2. ASSUME NEW s \in Submissions, Notify(s) \/ AnswerQueued(s)
      PROVE  TicketInv'
  BY <1>2 DEF Notify, AnswerQueued
<1>3. ASSUME NEW r \in ScoreRequests, RecordScore(r)
      PROVE  TicketInv'
  <2>1. PICK s \in Submissions : s \in jobs /\ scores' = scores \cup {[id |-> scoreId[r], job |-> s]}
    BY <1>3 DEF RecordScore, Recordable
  <2>2. {row.job : row \in scores'} \subseteq jobs
    BY <2>1
  <2>3. QED
    BY <1>3, <2>2 DEF RecordScore
<1>4. CASE \/ UNCHANGED attributionVars
           \/ \E r \in ScoreRequests : EngineScores(r) \/ EngineFails(r) \/ RecordFails(r) \/ AnswerScore(r)
  BY <1>4 DEF EngineScores, EngineFails, RecordFails, AnswerScore, attributionVars
<1>5. QED
  BY <1>1, <1>2, <1>3, <1>4 DEF AttributionNext

\* TicketsAreBacked: create_job comes before publish_attribution_job and before the
\* answer, and a recorded score refers to a stored job.
THEOREM TicketsBacked == AttributionSpec => []TicketsAreBacked
<1>1. AttributionInit => TicketInv
  BY DEF AttributionInit, TicketInv, JobsComeFirst, TicketsAreBacked
<1>2. TicketInv => TicketsAreBacked
  BY DEF TicketInv
<1>3. QED
  BY <1>1, <1>2, TicketStep, PTL DEF AttributionSpec

-----------------------------------------------------------------------------
(* The loader of BPF objects *)

\* The loader has a handle for what the kernel holds for it, and for nothing else.
HandlesAreOpen == open = handles /\ \A l \in linked : l[1] \in open

\* What was loaded is attached, and rings are of what was loaded.
LoadedIsAttached ==
  /\ \A o \in open : LinksOf(o) \subseteq linked
  /\ \A r \in fds : r[1] \in open
  /\ phase \in {"load", "bind", "poll"} => polled \subseteq fds

ClosedHoldsNothing ==
  /\ phase \in {"close", "ended"} => open = {} /\ linked = {}
  /\ phase = "ended" => polled = {}

LoaderInv == HandlesAreOpen /\ LoadedIsAttached /\ ClosedHoldsNothing

LEMMA LoaderStep ==
  ASSUME LoaderInv, [LoaderNext]_loaderVars
  PROVE  LoaderInv'
<1> USE DEF LoaderInv, HandlesAreOpen, LoadedIsAttached, ClosedHoldsNothing
<1>1. CASE UNCHANGED loaderVars \/ SkipObject \/ ObjectFails \/ AllLoaded
           \/ (\E attached \in SUBSET (Objects \X Programs) : AttachFails(attached))
           \/ AddRingFails \/ StartPolling \/ StopPolling
  BY <1>1 DEF loaderVars, SkipObject, ObjectFails, AllLoaded, AttachFails, AddRingFails,
              StartPolling, StopPolling, Loading, LinksOf
<1>2. ASSUME NEW attached, LoadObject(attached)
      PROVE  LoaderInv'
  <2>1. PICK maps \in SUBSET RingsOf[Object] :
          /\ phase = "load" /\ UNCHANGED <<phase, polled>>
          /\ open' = open \cup {Object} /\ handles' = handles \cup {Object}
          /\ linked' = linked \cup LinksOf(Object) /\ fds' = fds \cup ({Object} \X maps)
    BY <1>2 DEF LoadObject, Loading
  <2>2. \A l \in LinksOf(Object) : l[1] = Object
    BY DEF LinksOf
  <2>3. \A r \in {Object} \X maps : r[1] = Object
    OBVIOUS
  <2>4. \A o \in open' : LinksOf(o)' = LinksOf(o)
    BY DEF LinksOf
  <2>5. QED
    BY <2>1, <2>2, <2>3, <2>4
<1>3. CASE AddRing
  BY <1>3 DEF AddRing, LinksOf
<1>4. CASE CloseAll
  BY <1>4 DEF CloseAll, LinksOf
<1>5. CASE FreeRings
  BY <1>5 DEF FreeRings, LinksOf
<1>6. QED
  BY <1>1, <1>2, <1>3, <1>4, <1>5 DEF LoaderNext

\* PollsAttachedAndEndsEmpty: _load_one releases an object that does not attach, and
\* close_all and ring_buffer__free what did, from wherever async_main is left.
THEOREM NothingIsLeftAttached == LoaderSpec => []PollsAttachedAndEndsEmpty
<1>1. LoaderInit => LoaderInv
  BY DEF LoaderInit, LoaderInv, HandlesAreOpen, LoadedIsAttached, ClosedHoldsNothing
<1>2. LoaderInv => PollsAttachedAndEndsEmpty
  BY DEF LoaderInv, HandlesAreOpen, LoadedIsAttached, ClosedHoldsNothing, PollsAttachedAndEndsEmpty
<1>3. QED
  BY <1>1, <1>2, LoaderStep, PTL DEF LoaderSpec

-----------------------------------------------------------------------------
(* The credential broker *)

\* One call is behind the lock, and nobody has an answer before the review.
LockIsHeld ==
  /\ waiters \in Seq(Loans)
  /\ stage = [c \in Loans |-> stage[c]] /\ lent = [c \in Loans |-> lent[c]]
  /\ \A c \in Loans : stage[c] \in {"locked", "sts"} => holder = {c}
  /\ \A c \in Loans : stage[c] = "review" => lent[c] = NoSession

\* No clock that was read is ahead, and STS is called after the time was read.
ClocksAreRead ==
  /\ time \in Nat /\ called \in Nat /\ asked = [c \in Loans |-> asked[c]]
  /\ \A c \in Loans : asked[c] \in Nat /\ asked[c] <= time
  /\ \A c \in Loans : stage[c] = "sts" => asked[c] <= called

\* A session is cached under the pod it was opened for.
SessionsAreOwn ==
  /\ cache = [p \in Pods |-> cache[p]]
  /\ \A p \in Pods : cache[p] # NoSession => cache[p].pod = p /\ cache[p].expires \in Int

BrokerInv == LockIsHeld /\ ClocksAreRead /\ SessionsAreOwn /\ LentIsUsable

LEMMA HeadOfQueue ==
  ASSUME NEW R, NEW s \in Seq(R), NEW x \in R
  PROVE  /\ s # <<>> => Head(s) \in R /\ Tail(s) \in Seq(R)
         /\ Append(s, x) \in Seq(R) /\ <<>> \in Seq(R)
OBVIOUS

\* An answer that is the pod's own and outlasts the margin keeps the promise.
LEMMA ReplyKeeps ==
  ASSUME BrokerInv, NEW c \in Loans, NEW session, Reply(c, session),
         UNCHANGED <<time, asked, waiters, called>>, stage[c] \in {"locked", "sts"},
         session.pod = PodOf[c],
         time - asked[c] <= Margin => session.expires > time
  PROVE  LockIsHeld' /\ ClocksAreRead' /\ LentIsUsable'
<1> USE DEF BrokerInv
<1>1. /\ stage' = [d \in Loans |-> IF d = c THEN "answered" ELSE stage[d]]
      /\ lent' = [d \in Loans |-> IF d = c THEN [session |-> session, at |-> time] ELSE lent[d]]
      /\ holder' = {}
  BY DEF Reply, LockIsHeld
<1>2. \A d \in Loans : d # c => stage[d] \notin {"locked", "sts"}
  BY DEF LockIsHeld
<1>3. LockIsHeld'
  BY <1>1, <1>2 DEF LockIsHeld
<1>4. ClocksAreRead'
  BY <1>1 DEF ClocksAreRead
<1>5. LentIsUsable'
  <2>1. ASSUME NEW d \in Loans, d # c, lent'[d] # NoSession
        PROVE  /\ lent'[d].session.pod = PodOf[d]
               /\ lent'[d].at - asked'[d] <= Margin => lent'[d].session.expires > lent'[d].at
    BY <1>1, <2>1 DEF LentIsUsable
  <2>2. lent'[c].session = session /\ lent'[c].at = time /\ asked'[c] = asked[c]
    BY <1>1
  <2>3. QED
    BY <2>1, <2>2 DEF LentIsUsable
<1>6. QED
  BY <1>3, <1>4, <1>5

LEMMA BrokerStep ==
  ASSUME BrokerInv, [BrokerNext]_brokerVars
  PROVE  BrokerInv'
<1> USE DEF BrokerInv
<1>1. ASSUME NEW c \in Loans, ReviewFails(c)
      PROVE  BrokerInv'
  BY <1>1 DEF ReviewFails, LockIsHeld, ClocksAreRead, SessionsAreOwn, LentIsUsable
<1>2. ASSUME NEW c \in Loans, Reviewed(c)
      PROVE  BrokerInv'
  <2>1. /\ stage[c] = "review" /\ lent[c] = NoSession /\ asked' = [asked EXCEPT ![c] = time]
        /\ UNCHANGED <<time, called, cache, lent>>
        /\ \/ stage' = [stage EXCEPT ![c] = "locked"] /\ holder = {} /\ holder' = {c} /\ waiters' = waiters
           \/ stage' = [stage EXCEPT ![c] = "waiting"] /\ holder' = holder /\ waiters' = Append(waiters, c)
    BY <1>2 DEF Reviewed, LockIsHeld
  <2>2. waiters' \in Seq(Loans)
    BY <2>1, HeadOfQueue DEF LockIsHeld
  <2>3. LockIsHeld'
    BY <2>1, <2>2 DEF LockIsHeld
  <2>4. ClocksAreRead'
    <3>1. asked' = [d \in Loans |-> IF d = c THEN time ELSE asked[d]]
      BY <2>1 DEF ClocksAreRead
    <3>2. \A d \in Loans : stage'[d] = "sts" => stage[d] = "sts" /\ d # c
      BY <2>1 DEF LockIsHeld
    <3>3. QED
      BY <2>1, <3>1, <3>2 DEF ClocksAreRead
  <2>5. QED
    BY <2>1, <2>3, <2>4 DEF SessionsAreOwn, LentIsUsable, ClocksAreRead
<1>3. CASE TakeLock
  <2>1. PICK c \in Loans : /\ holder = {} /\ holder' = {c} /\ stage' = [stage EXCEPT ![c] = "locked"]
                           /\ waiters # <<>> /\ c = Head(waiters) /\ waiters' \in Seq(Loans)
    <3>1. waiters # <<>> /\ waiters \in Seq(Loans)
      BY <1>3 DEF TakeLock, LockIsHeld
    <3>2. Head(waiters) \in Loans /\ Tail(waiters) \in Seq(Loans)
      BY <3>1, HeadOfQueue
    <3>3. QED
      BY <1>3, <3>2 DEF TakeLock
  <2>2. LockIsHeld'
    BY <1>3, <2>1 DEF LockIsHeld, TakeLock
  <2>3. QED
    BY <1>3, <2>1, <2>2 DEF TakeLock, LockIsHeld, ClocksAreRead, SessionsAreOwn, LentIsUsable
<1>4. ASSUME NEW c \in Loans, LookUp(c)
      PROVE  BrokerInv'
  <2> DEFINE session == cache[PodOf[c]]
  <2>1. stage[c] = "locked" /\ UNCHANGED <<time, asked, waiters, cache>>
    BY <1>4 DEF LookUp
  <2>2. CASE session # NoSession /\ Fresh(session, asked[c])
    <3>1. Reply(c, session) /\ UNCHANGED called
      BY <1>4, <2>2 DEF LookUp
    <3>2. session.pod = PodOf[c] /\ session.expires \in Int /\ session.expires - asked[c] > Margin
      BY <2>2 DEF SessionsAreOwn, Pods, Fresh
    <3> HIDE DEF session
    <3>3. time - asked[c] <= Margin => session.expires > time
      BY <3>2, BrokerTimes DEF ClocksAreRead
    <3>4. LockIsHeld' /\ ClocksAreRead' /\ LentIsUsable'
      BY <2>1, <3>1, <3>2, <3>3, ReplyKeeps
    <3>5. QED
      BY <2>1, <3>4 DEF SessionsAreOwn
  <2>3. CASE ~ (session # NoSession /\ Fresh(session, asked[c]))
    <3>1. stage' = [stage EXCEPT ![c] = "sts"] /\ called' = time /\ UNCHANGED <<holder, lent>>
      BY <1>4, <2>3 DEF LookUp
    <3>2. \A d \in Loans : stage'[d] = "sts" => d = c
      BY <2>1, <3>1 DEF LockIsHeld
    <3>3. LockIsHeld'
      BY <2>1, <3>1 DEF LockIsHeld
    <3>4. ClocksAreRead'
      BY <2>1, <3>1, <3>2 DEF ClocksAreRead
    <3>5. QED
      BY <2>1, <3>1, <3>3, <3>4 DEF SessionsAreOwn, LentIsUsable
  <2>4. QED
    BY <2>2, <2>3
<1>5. ASSUME NEW c \in Loans, Assumed(c)
      PROVE  BrokerInv'
  <2>1. PICK opened \in called .. time :
          /\ cache' = [cache EXCEPT ![PodOf[c]] = [pod |-> PodOf[c], expires |-> opened + Lifetime]]
          /\ Reply(c, [pod |-> PodOf[c], expires |-> opened + Lifetime])
    BY <1>5 DEF Assumed
  <2> DEFINE session == [pod |-> PodOf[c], expires |-> opened + Lifetime]
  <2>2. stage[c] = "sts" /\ UNCHANGED <<time, asked, waiters, called>>
    BY <1>5 DEF Assumed
  <2>3. session.pod = PodOf[c] /\ session.expires = opened + Lifetime
    OBVIOUS
  <2>4. cache' = [cache EXCEPT ![PodOf[c]] = session] /\ Reply(c, session)
    BY <2>1
  <2> HIDE DEF session
  <2>5. time - asked[c] <= Margin => session.expires > time
    BY <2>2, <2>3, BrokerTimes DEF ClocksAreRead
  <2>6. LockIsHeld' /\ ClocksAreRead' /\ LentIsUsable'
    BY <2>2, <2>3, <2>4, <2>5, ReplyKeeps
  <2>7. session.expires \in Int
    BY <2>3, BrokerTimes DEF ClocksAreRead
  <2>8. SessionsAreOwn'
    <3>1. PodOf[c] \in Pods
      BY DEF Pods
    <3>2. cache' = [cache EXCEPT ![PodOf[c]] = session] /\ Reply(c, session)
      BY <2>4
    <3>3. \A p \in Pods : (cache'[p] = session /\ p = PodOf[c]) \/ cache'[p] = cache[p]
      BY <3>1, <3>2 DEF SessionsAreOwn
    <3>4. QED
      BY <2>3, <2>7, <3>1, <3>2, <3>3 DEF SessionsAreOwn
  <2>9. QED
    BY <2>6, <2>8
<1>6. ASSUME NEW c \in Loans, AssumeFails(c)
      PROVE  BrokerInv'
  <2>1. /\ stage' = [stage EXCEPT ![c] = "unavailable"] /\ stage[c] = "sts" /\ holder' = {}
        /\ UNCHANGED <<time, asked, waiters, called, cache, lent>>
    BY <1>6 DEF AssumeFails
  <2>2. stage' = [d \in Loans |-> IF d = c THEN "unavailable" ELSE stage[d]]
    BY <2>1 DEF LockIsHeld
  <2>3. LockIsHeld'
    BY <2>1, <2>2 DEF LockIsHeld
  <2>4. ClocksAreRead'
    BY <2>1, <2>2 DEF ClocksAreRead
  <2>5. QED
    BY <2>1, <2>2, <2>3, <2>4 DEF SessionsAreOwn, LentIsUsable
<1>7. CASE Passes
  BY <1>7 DEF Passes, LockIsHeld, ClocksAreRead, SessionsAreOwn, LentIsUsable
<1>8. CASE UNCHANGED brokerVars
  BY <1>8 DEF brokerVars, LockIsHeld, ClocksAreRead, SessionsAreOwn, LentIsUsable
<1>9. QED
  BY <1>1, <1>2, <1>3, <1>4, <1>5, <1>6, <1>7, <1>8 DEF BrokerNext

\* LentIsUsable: CACHE_REFRESH_MARGIN, less than the lifetime of a session, pays for
\* the clock that _assume_workload_role reads before it waits for its lock.
THEOREM MarginPays == BrokerSpec => []LentIsUsable
<1>1. BrokerInit => BrokerInv
  BY HeadOfQueue DEF BrokerInit, BrokerInv, LockIsHeld, ClocksAreRead, SessionsAreOwn, LentIsUsable
<1>2. BrokerInv => LentIsUsable
  BY DEF BrokerInv
<1>3. QED
  BY <1>1, <1>2, BrokerStep, PTL DEF BrokerSpec

-----------------------------------------------------------------------------
(* Ingestion of SBOMs *)

\* A row is its request's, written when that ends, and one per image and document.
RowsAreTheirs ==
  /\ \A r \in sboms : /\ r.id \in Requests /\ pc[r.id] \in Ends
                      /\ r = [RowOf(r.id) EXCEPT !.reference = r.reference]
  /\ \A r, s \in sboms : r.id = s.id \/ (r.image = s.image /\ r.document = s.document) => r = s

\* A document is stored before its row.
DocumentsFirst ==
  /\ \A q \in Requests : pc[q] = "save" => Upload[q].external \/ q \in objects
  /\ \A r \in sboms : Upload[r.id].external \/ r.id \in objects

\* The row a request was told of, or is about to bind, is one of its own document
\* and image; until then its answer is its own id.
AnswersAreRows ==
  /\ \A q \in Requests : pc[q] \in {"verify", "find", "upload", "save"} => answer[q] = q
  /\ \A q \in Requests : pc[q] \in {"bind", "ok"} => \E r \in Existing(q) : r.id = answer[q]
  /\ \A q \in Requests : pc[q] = "ok" =>
       \A r \in sboms : r.id = answer[q] => Upload[q].reference \in {Unbound, r.reference}

IngestShape == pc = [q \in Requests |-> pc[q]] /\ answer = [q \in Requests |-> answer[q]]

IngestInv == IngestShape /\ RowsAreTheirs /\ DocumentsFirst /\ AnswersAreRows

\* What a row is at its start, and after its reference was bound.
LEMMA RowShape ==
  ASSUME NEW q \in Requests
  PROVE  /\ RowOf(q).id = q /\ RowOf(q).image = Upload[q].image
         /\ RowOf(q).document = Upload[q].document /\ RowOf(q).reference = Upload[q].reference
         /\ RowOf(q) = [RowOf(q) EXCEPT !.reference = RowOf(q).reference]
         /\ \A ref : /\ [RowOf(q) EXCEPT !.reference = ref].id = q
                     /\ [RowOf(q) EXCEPT !.reference = ref].image = Upload[q].image
                     /\ [RowOf(q) EXCEPT !.reference = ref].document = Upload[q].document
                     /\ [RowOf(q) EXCEPT !.reference = ref].reference = ref
                     /\ \A other : [[RowOf(q) EXCEPT !.reference = ref] EXCEPT !.reference = other]
                                   = [RowOf(q) EXCEPT !.reference = other]
BY DEF RowOf

\* Requests whose position alone changes.
LEMMA MovesKeep ==
  ASSUME IngestInv, NEW q \in Requests, UNCHANGED <<sboms, objects, answer>>,
         pc' = [pc EXCEPT ![q] = pc'[q]], pc[q] \notin Ends,
         pc'[q] \in {"find", "upload", "save", "conflict", "unavailable", "dead"},
         pc'[q] \in {"find", "upload", "save"} => pc[q] \in {"verify", "find", "upload", "save"},
         pc'[q] = "save" => Upload[q].external \/ q \in objects
  PROVE  IngestInv'
BY DEF IngestInv, IngestShape, RowsAreTheirs, DocumentsFirst, AnswersAreRows, Existing, RowOf, Ends

\* The row of a request is written: its transaction found none in its way.
LEMMA SaveKeeps ==
  ASSUME IngestInv, NEW q \in Requests, pc[q] = "save", IsNew(q),
         pc' = [pc EXCEPT ![q] = pc'[q]], pc'[q] \in {"ok", "unavailable"},
         sboms' = sboms \cup {RowOf(q)}, UNCHANGED <<objects, answer>>
  PROVE  IngestInv'
<1> USE DEF IngestInv
<1> DEFINE x == RowOf(q)
<1>1. /\ x.id = q /\ x.image = Upload[q].image /\ x.document = Upload[q].document
      /\ x.reference = Upload[q].reference
      /\ x = [RowOf(x.id) EXCEPT !.reference = x.reference]
  BY RowShape
<1>2. \A r \in sboms : r.id # q /\ ~ (r.image = Upload[q].image /\ r.document = Upload[q].document)
  BY DEF RowsAreTheirs, IsNew, Existing, Ends
<1>3. answer[q] = q /\ (Upload[q].external \/ q \in objects)
  BY DEF AnswersAreRows, DocumentsFirst
<1>4. \A p \in Requests : p # q => pc'[p] = pc[p]
  BY DEF IngestShape
<1> HIDE DEF x
<1>5. sboms' = sboms \cup {x}
  BY DEF x
<1>6. RowsAreTheirs'
  BY <1>1, <1>2, <1>4, <1>5 DEF RowsAreTheirs, Ends, RowOf
<1>7. DocumentsFirst'
  BY <1>1, <1>3, <1>4, <1>5 DEF DocumentsFirst
<1>8. AnswersAreRows'
  <2>1. \A p \in Requests : Existing(p) \subseteq Existing(p)'
    BY <1>5 DEF Existing
  <2>2. x \in Existing(q)'
    BY <1>1, <1>5 DEF Existing
  <2>3. \A p \in Requests : p # q /\ pc[p] = "ok" => answer[p] # q
    BY <1>2 DEF AnswersAreRows, Existing
  <2>4. QED
    BY <1>1, <1>2, <1>3, <1>4, <1>5, <2>1, <2>2, <2>3 DEF AnswersAreRows
<1>9. IngestShape'
  BY DEF IngestShape
<1>10. QED
  BY <1>6, <1>7, <1>8, <1>9

\* A row that is bound to a reference was bound to none or to this one.
LEMMA BindKeeps ==
  ASSUME IngestInv, NEW q \in Requests, pc[q] = "bind", NEW r \in sboms, r.id = answer[q],
         Bindable(r, Upload[q].reference),
         pc' = [pc EXCEPT ![q] = pc'[q]], pc'[q] \in {"ok", "unavailable"},
         sboms' = (sboms \ {r}) \cup {[r EXCEPT !.reference = Upload[q].reference]},
         UNCHANGED <<objects, answer>>
  PROVE  IngestInv'
<1> USE DEF IngestInv
<1> DEFINE ref == Upload[q].reference
           x == [r EXCEPT !.reference = ref]
<1>1. r.id \in Requests /\ pc[r.id] \in Ends /\ r = [RowOf(r.id) EXCEPT !.reference = r.reference]
  BY DEF RowsAreTheirs
<1>2. /\ x.id = r.id /\ x.image = r.image /\ x.document = r.document /\ x.reference = ref
      /\ x = [RowOf(x.id) EXCEPT !.reference = x.reference]
  <2> DEFINE p == r.id
             o == r.reference
             z == [RowOf(p) EXCEPT !.reference = ref]
  <2>1. p \in Requests /\ r = [RowOf(p) EXCEPT !.reference = o]
    BY <1>1
  <2> HIDE DEF p, o
  <2>2. r.image = Upload[p].image /\ r.document = Upload[p].document
    BY <2>1, RowShape
  <2>3. z.id = p /\ z.image = Upload[p].image /\ z.document = Upload[p].document /\ z.reference = ref
    <3> HIDE DEF ref
    <3>1. QED
      BY <2>1, RowShape
  <2>4. x = z
    <3> HIDE DEF ref
    <3>1. QED
      BY <2>1, RowShape
  <2>5. x = [RowOf(x.id) EXCEPT !.reference = x.reference]
    BY <2>3, <2>4
  <2> HIDE DEF x, z
  <2>6. QED
    BY <2>2, <2>3, <2>4, <2>5 DEF p
<1>3. r.reference \in {Unbound, ref}
  BY DEF Bindable
<1>4. \A p \in Requests : p # q => pc'[p] = pc[p]
  BY DEF IngestShape
<1>5. sboms' = (sboms \ {r}) \cup {x}
  OBVIOUS
<1> HIDE DEF x, ref
<1>6. RowsAreTheirs'
  <2>1. q # r.id
    BY <1>1 DEF Ends
  <2>2. \A s \in sboms' : s.id \in Requests /\ pc'[s.id] \in Ends
    BY <1>1, <1>2, <1>4, <1>5, <2>1 DEF RowsAreTheirs, Ends
  <2>3. \A s \in sboms' : s = [RowOf(s.id) EXCEPT !.reference = s.reference]
    BY <1>2, <1>5 DEF RowsAreTheirs
  <2>4. \A s \in sboms \ {r} : s.id # r.id /\ ~ (s.image = r.image /\ s.document = r.document)
    BY DEF RowsAreTheirs
  <2>5. \A s, u \in sboms' : s.id = u.id \/ (s.image = u.image /\ s.document = u.document) => s = u
    BY <1>2, <1>5, <2>4 DEF RowsAreTheirs
  <2>6. QED
    BY <2>2, <2>3, <2>5 DEF RowsAreTheirs, RowOf
<1>7. DocumentsFirst'
  BY <1>2, <1>4, <1>5 DEF DocumentsFirst
<1>8. AnswersAreRows'
  <2>1. ASSUME NEW p \in Requests, NEW s \in Existing(p)
        PROVE  \E u \in Existing(p)' : u.id = s.id
    BY <1>2, <1>5 DEF Existing
  <2>2. ASSUME NEW p \in Requests, pc'[p] \in {"bind", "ok"}
        PROVE  \E u \in Existing(p)' : u.id = answer[p]
    <3>1. PICK s \in Existing(p) : s.id = answer[p]
      BY <1>4, <2>2 DEF AnswersAreRows
    <3>2. QED
      BY <2>1, <3>1
  <2>3. ASSUME NEW p \in Requests, pc'[p] = "ok", NEW s \in sboms', s.id = answer[p]
        PROVE  Upload[p].reference \in {Unbound, s.reference}
    <3>1. CASE p = q
      <4>1. s = x
        BY <1>2, <1>5, <2>3, <3>1 DEF RowsAreTheirs
      <4>2. QED
        BY <1>2, <3>1, <4>1 DEF ref
    <3>2. CASE p # q /\ s = x
      <4>1. Upload[p].reference \in {Unbound, r.reference}
        BY <1>2, <1>4, <2>3, <3>2 DEF AnswersAreRows
      <4>2. QED
        BY <1>2, <1>3, <3>2, <4>1
    <3>3. CASE p # q /\ s \in sboms
      BY <1>4, <2>3, <3>3 DEF AnswersAreRows
    <3>4. QED
      BY <1>5, <3>1, <3>2, <3>3
  <2>4. QED
    BY <1>4, <2>2, <2>3 DEF AnswersAreRows
<1>9. IngestShape'
  BY DEF IngestShape
<1>10. QED
  BY <1>6, <1>7, <1>8, <1>9

LEMMA IngestStep ==
  ASSUME IngestInv, [IngestNext]_ingestVars
  PROVE  IngestInv'
<1> USE DEF IngestInv
<1>1. ASSUME NEW q \in Requests, VerifyExternal(q) \/ FindNothing(q) \/ Dies(q)
      PROVE  IngestInv'
  <2>1. /\ UNCHANGED <<sboms, objects, answer>>
        /\ pc' = [pc EXCEPT ![q] = pc'[q]] /\ pc[q] \notin Ends
        /\ pc'[q] \in {"find", "upload", "save", "conflict", "unavailable", "dead"}
        /\ pc'[q] \in {"find", "upload", "save"} => pc[q] \in {"verify", "find", "upload", "save"}
        /\ pc'[q] = "save" => Upload[q].external
    BY <1>1 DEF VerifyExternal, FindNothing, Dies, Goto, IngestShape, Ends
  <2>2. QED
    BY <2>1, MovesKeep
<1>2. ASSUME NEW q \in Requests, FindExisting(q)
      PROVE  IngestInv'
  <2>1. PICK r \in Existing(q) :
          /\ answer' = [answer EXCEPT ![q] = r.id] /\ pc[q] = "find"
          /\ pc' = [pc EXCEPT ![q] = IF Upload[q].reference \in {Unbound, r.reference} THEN "ok"
                                     ELSE IF r.reference = Unbound THEN "bind"
                                     ELSE "unavailable"]
          /\ UNCHANGED <<sboms, objects>>
    BY <1>2 DEF FindExisting, Goto
  <2>2. /\ \A p \in Requests : p # q => pc'[p] = pc[p] /\ answer'[p] = answer[p]
        /\ answer'[q] = r.id /\ pc'[q] \in {"ok", "bind", "unavailable"}
        /\ pc'[q] = "ok" => Upload[q].reference \in {Unbound, r.reference}
    BY <2>1 DEF IngestShape
  <2>3. RowsAreTheirs'
    BY <2>1, <2>2 DEF RowsAreTheirs, Ends, RowOf
  <2>4. DocumentsFirst'
    BY <2>1, <2>2 DEF DocumentsFirst
  <2>5. AnswersAreRows'
    <3>1. \A p \in Requests : Existing(p)' = Existing(p)
      BY <2>1 DEF Existing
    <3>2. \A s \in sboms : s.id = r.id => s = r
      BY DEF RowsAreTheirs, Existing
    <3>3. \A p \in Requests : pc'[p] = "ok" =>
            \A s \in sboms : s.id = answer'[p] => Upload[p].reference \in {Unbound, s.reference}
      BY <2>2, <3>2 DEF AnswersAreRows
    <3>4. \A p \in Requests : pc'[p] \in {"verify", "find", "upload", "save"} => answer'[p] = p
      BY <2>2 DEF AnswersAreRows
    <3>5. \A p \in Requests : pc'[p] \in {"bind", "ok"} => \E s \in Existing(p) : s.id = answer'[p]
      BY <2>2 DEF AnswersAreRows
    <3>6. QED
      BY <2>1, <3>1, <3>3, <3>4, <3>5 DEF AnswersAreRows
  <2>6. IngestShape'
    <3>1. PICK v : pc' = [pc EXCEPT ![q] = v]
      BY <2>1
    <3>2. pc' = [p \in Requests |-> IF p = q THEN v ELSE pc[p]]
      BY <3>1 DEF IngestShape
    <3>3. answer' = [p \in Requests |-> IF p = q THEN r.id ELSE answer[p]]
      BY <2>1 DEF IngestShape
    <3>4. QED
      BY <3>2, <3>3 DEF IngestShape
  <2>7. QED
    BY <2>3, <2>4, <2>5, <2>6
<1>3. ASSUME NEW q \in Requests, Bind(q)
      PROVE  IngestInv'
  <2>1. PICK r \in sboms :
          /\ r.id = answer[q] /\ pc[q] = "bind" /\ UNCHANGED <<objects, answer>>
          /\ IF Bindable(r, Upload[q].reference)
               THEN /\ pc' = [pc EXCEPT ![q] = "ok"]
                    /\ sboms' = (sboms \ {r}) \cup {[r EXCEPT !.reference = Upload[q].reference]}
               ELSE pc' = [pc EXCEPT ![q] = "unavailable"] /\ UNCHANGED sboms
    BY <1>3 DEF Bind, Goto
  <2>2. CASE Bindable(r, Upload[q].reference)
    <3>1. pc' = [pc EXCEPT ![q] = pc'[q]] /\ pc'[q] = "ok"
      BY <2>1, <2>2 DEF IngestShape
    <3>2. QED
      BY <2>1, <2>2, <3>1, BindKeeps
  <2>3. CASE ~ Bindable(r, Upload[q].reference)
    <3>1. pc' = [pc EXCEPT ![q] = pc'[q]] /\ pc'[q] = "unavailable" /\ pc[q] \notin Ends
      BY <2>1, <2>3 DEF IngestShape, Ends
    <3>2. QED
      BY <2>1, <2>3, <3>1, MovesKeep
  <2>4. QED
    BY <2>2, <2>3
<1>4. ASSUME NEW q \in Requests, Save(q)
      PROVE  IngestInv'
  <2>1. CASE IsNew(q)
    <3>1. /\ pc' = [pc EXCEPT ![q] = pc'[q]] /\ pc'[q] = "ok" /\ pc[q] = "save"
          /\ sboms' = sboms \cup {RowOf(q)} /\ UNCHANGED <<objects, answer>>
      BY <1>4, <2>1 DEF Save, Goto, IngestShape
    <3>2. QED
      BY <2>1, <3>1, SaveKeeps
  <2>2. CASE ~ IsNew(q)
    <3>1. /\ pc' = [pc EXCEPT ![q] = pc'[q]] /\ pc'[q] = "conflict" /\ pc[q] \notin Ends
          /\ UNCHANGED <<sboms, objects, answer>>
      BY <1>4, <2>2 DEF Save, Goto, IngestShape, Ends
    <3>2. QED
      BY <3>1, MovesKeep
  <2>3. QED
    BY <2>1, <2>2
<1>5. ASSUME NEW q \in Requests, pc[q] = "upload", pc' = [pc EXCEPT ![q] = pc'[q]],
             pc'[q] \in {"save", "unavailable"}, objects' = objects \cup {q}, UNCHANGED <<sboms, answer>>
      PROVE  IngestInv'
  BY <1>5 DEF IngestShape, RowsAreTheirs, DocumentsFirst, AnswersAreRows, Existing, RowOf, Ends
<1>6. ASSUME NEW q \in Requests, UploadDocument(q)
      PROVE  IngestInv'
  <2>1. pc' = [pc EXCEPT ![q] = pc'[q]] /\ pc'[q] = "save"
    BY <1>6 DEF UploadDocument, Goto, IngestShape
  <2>2. QED
    BY <1>5, <1>6, <2>1 DEF UploadDocument, Goto
<1>7. ASSUME NEW q \in Requests, CallFails(q)
      PROVE  IngestInv'
  <2>1. /\ pc' = [pc EXCEPT ![q] = pc'[q]] /\ pc'[q] = "unavailable" /\ pc[q] \notin Ends
        /\ UNCHANGED answer
    BY <1>7 DEF CallFails, IngestShape, Ends
  <2>2. CASE UNCHANGED <<sboms, objects>>
    BY <2>1, <2>2, MovesKeep
  <2>3. CASE pc[q] = "upload" /\ objects' = objects \cup {q} /\ UNCHANGED sboms
    BY <1>5, <2>1, <2>3
  <2>4. CASE pc[q] = "bind" /\ UNCHANGED objects
             /\ \E r \in sboms : /\ r.id = answer[q] /\ Bindable(r, Upload[q].reference)
                                 /\ sboms' = (sboms \ {r}) \cup
                                             {[r EXCEPT !.reference = Upload[q].reference]}
    BY <2>1, <2>4, BindKeeps
  <2>5. CASE pc[q] = "save" /\ IsNew(q) /\ sboms' = sboms \cup {RowOf(q)} /\ UNCHANGED objects
    BY <2>1, <2>5, SaveKeeps
  <2>6. QED
    BY <1>7, <2>2, <2>3, <2>4, <2>5 DEF CallFails
<1>8. CASE UNCHANGED ingestVars
  BY <1>8 DEF ingestVars, IngestShape, RowsAreTheirs, DocumentsFirst, AnswersAreRows, Existing, RowOf
<1>9. QED
  BY <1>1, <1>2, <1>3, <1>4, <1>6, <1>7, <1>8 DEF IngestNext, Step

\* AnswerStands: the unique index of save_with_components, and the condition of
\* bind_image_reference, keep what every earlier upload was told.
THEOREM AnswersKept == IngestSpec => []AnswerStands
<1>1. IngestInit => IngestInv
  BY DEF IngestInit, IngestInv, IngestShape, RowsAreTheirs, DocumentsFirst, AnswersAreRows
<1>2. ASSUME IngestInv
      PROVE  AnswerStands
  <2>1. SUFFICES ASSUME NEW q \in Requests, pc[q] = "ok"
                 PROVE  \E r \in sboms : /\ r.id = answer[q] /\ Existing(q) = {r}
                                         /\ Upload[q].reference \in {Unbound, r.reference}
                                         /\ Upload[r.id].external \/ r.id \in objects
    BY DEF AnswerStands
  <2>2. PICK r \in Existing(q) : r.id = answer[q]
    BY <1>2, <2>1 DEF IngestInv, AnswersAreRows
  <2>3. r \in sboms /\ \A s \in Existing(q) : s = r
    BY <1>2 DEF IngestInv, RowsAreTheirs, Existing
  <2>4. QED
    BY <1>2, <2>1, <2>2, <2>3 DEF IngestInv, AnswersAreRows, DocumentsFirst
<1>3. QED
  BY <1>1, <1>2, IngestStep, PTL DEF IngestSpec

-----------------------------------------------------------------------------
(* Evidence.  A backup is a whole database, so what holds of the live one  *)
(* must hold of the copy; and a receipt that waits for its transaction was *)
(* judged by the trust that is pinned, since only a start changes that.    *)

OneToOne(stored, used) ==
  /\ \A i \in DOMAIN stored :
       stored[i].statement # Nil =>
         /\ ObservationOf(stored[i]) \in DOMAIN used
         /\ used[ObservationOf(stored[i])] = i
  /\ \A o \in DOMAIN used :
       /\ used[o] \in DOMAIN stored /\ stored[used[o]].statement # Nil
       /\ ObservationOf(stored[used[o]]) = o

ConsumedInv ==
  OneToOne(receipts, consumed) /\ (saved # Nil => OneToOne(saved.receipts, saved.consumed))

LEMMA ConsumedStart == SinkInit => ConsumedInv
BY DEF SinkInit, ConsumedInv, OneToOne, Empty

LEMMA ConsumedStep ==
  ASSUME ConsumedInv, [SinkNext]_sinkVars
  PROVE  ConsumedInv'
<1> USE DEF ConsumedInv
<1>1. ASSUME UNCHANGED <<receipts, consumed, saved>>
      PROVE  ConsumedInv'
  BY <1>1 DEF OneToOne, ObservationOf
<1>2. ASSUME NEW r \in inFlight, Persist(r)
      PROVE  ConsumedInv'
  <2> DEFINE o == ObservationOf(r.content)
  <2>1. CASE UNCHANGED <<receipts, consumed>>
    BY <1>1, <1>2, <2>1 DEF Persist
  <2>2. CASE IsFree(r.identity) /\ IsUnused(r.content)
    <3>1. /\ receipts' = [i \in DOMAIN receipts \cup {r.identity} |->
                            IF i = r.identity THEN r.content ELSE receipts[i]]
          /\ consumed' =
               IF r.content.statement = Nil THEN consumed
               ELSE [p \in DOMAIN consumed \cup {o} |->
                       IF p = o THEN r.identity ELSE consumed[p]]
          /\ saved' = saved
      BY <1>2, <2>2 DEF Persist
    <3>2. r.identity \notin DOMAIN receipts
          /\ (r.content.statement # Nil => o \notin DOMAIN consumed)
      BY <2>2 DEF IsFree, IsUnused
    <3>3. OneToOne(receipts', consumed')
      <4>1. CASE r.content.statement = Nil
        BY <3>1, <3>2, <4>1 DEF OneToOne
      <4>2. CASE r.content.statement # Nil
        BY <3>1, <3>2, <4>2 DEF OneToOne
      <4>3. QED
        BY <4>1, <4>2
    <3>4. QED
      BY <3>1, <3>3 DEF OneToOne, ObservationOf
  <2>3. QED
    BY <1>2, <2>1, <2>2 DEF Persist
<1>3. CASE Backup
  BY <1>3 DEF Backup, database, OneToOne, ObservationOf
<1>4. CASE Restore
  BY <1>4 DEF Restore, OneToOne, ObservationOf
<1>5. QED
  BY <1>1, <1>2, <1>3, <1>4
  DEF SinkNext, sinkVars, database, Observe, Start, Stop, Check, TimePasses

\* OneReceiptPerObservation: _persist stores the receipt and the observation it
\* consumes in one transaction, and a backup has both.
THEOREM ReceiptsMatch == SinkSpec => []OneReceiptPerObservation
<1>1. ConsumedInv /\ [SinkNext]_sinkVars => ConsumedInv'
  BY ConsumedStep
<1>2. ConsumedInv => OneReceiptPerObservation
  BY DEF ConsumedInv, OneToOne, OneReceiptPerObservation
<1>3. QED
  BY <1>1, <1>2, ConsumedStart, PTL DEF SinkSpec

-----------------------------------------------------------------------------
\* The pinned file is one that was started with, and it activates no key that was
\* ever revoked.
TrustSound(t) ==
  t # Nil => t.config \in Configurations /\ Active(t.config) \cap t.revoked = {}
             /\ Nil \notin t.revoked /\ t.revoked \subseteq Revocable

\* A signed content that became, or will become, the receipt i.
Established(i, r, t) ==
  LET x == r.statement
  IN r.outcome # "unknown" =>
       /\ x # Nil /\ i = <<x.run, x.event>> /\ x.workload = r.workload
       /\ r.independent /\ x.referenced /\ x.intact /\ x.registry # Nil
       /\ r.outcome = x.state /\ x.behavior = x.state
       /\ x.state = "conforming" => x.complete
       /\ {x.key, x.registry} \subseteq Active(t.config) \cup t.revoked

\* Nothing is judged but by the pinned trust, and nothing is in flight in a sink
\* that is down.
JudgedByPinned ==
  /\ loaded = Nil => inFlight = {}
  /\ loaded # Nil => /\ trust # Nil /\ loaded.revoked = trust.revoked
                     /\ loaded.keys = trust.config.keys

\* A request in flight is of keys that are not revoked.
InFlightStands ==
  \A r \in inFlight :
    /\ Established(r.identity, r.content, trust)
    /\ LET x == r.content.statement
       IN x # Nil => {x.key, x.registry} \cap trust.revoked = {}

\* Nobody confirms anything before the first start.
Confirmed(stored, t) ==
  /\ \A i \in DOMAIN stored : Established(i, stored[i], t)
  /\ t = Nil => DOMAIN stored = {}

TrustInv ==
  /\ TrustSound(trust) /\ JudgedByPinned /\ InFlightStands /\ Confirmed(receipts, trust)
  /\ saved # Nil => /\ TrustSound(saved.trust) /\ saved.trust # Nil
                    /\ Confirmed(saved.receipts, saved.trust)

LEMMA TrustStart == SinkInit => TrustInv
BY DEF SinkInit, TrustInv, TrustSound, JudgedByPinned, InFlightStands, Confirmed, Empty

\* What a start does to the trust that is pinned.
Succeeded ==
  trust # Nil =>
    /\ trust'.config.generation >= trust.config.generation
    /\ trust.revoked \subseteq trust'.revoked
    /\ Active(trust.config) \subseteq Active(trust'.config) \cup trust'.revoked
    /\ Active(trust'.config) \cap trust'.revoked = {}

LEMMA StartSucceeds ==
  ASSUME TrustSound(trust), NEW c \in Configurations, Start(c)
  PROVE  /\ Succeeded /\ TrustSound(trust') /\ trust' # Nil
         /\ trust' = [config |-> c, revoked |-> AllRevoked(c)]
<1>1. /\ Active(c) \cap c.revoked = {} /\ Applicable(c)
      /\ trust' = [config |-> c, revoked |-> AllRevoked(c)]
  BY DEF Start
<1>2. c.generation \in Nat /\ Nil \notin c.revoked /\ c.revoked \subseteq Revocable
  BY SinkSizes DEF Revocable
<1>0. trust'.config = c /\ trust'.revoked = AllRevoked(c)
  BY <1>1
<1>3. ASSUME trust = Nil PROVE Succeeded /\ TrustSound(trust')
  <2>1. AllRevoked(c) = c.revoked
    BY <1>3 DEF AllRevoked
  <2>2. TrustSound(trust')
    BY <1>0, <1>1, <1>2, <2>1 DEF TrustSound
  <2>3. QED
    BY <1>3, <2>2 DEF Succeeded
<1>4. ASSUME trust # Nil PROVE Succeeded /\ TrustSound(trust')
  <2>1. trust.config \in Configurations /\ Active(trust.config) \cap trust.revoked = {}
        /\ trust.config.generation \in Nat /\ Nil \notin trust.revoked
        /\ trust.revoked \subseteq Revocable
    BY <1>4, SinkSizes DEF TrustSound
  <2>2. AllRevoked(c) = trust.revoked \cup c.revoked
    BY <1>4 DEF AllRevoked
  <2>3. Active(c) \cap AllRevoked(c) = {} /\ c.generation >= trust.config.generation
        /\ Active(trust.config) \subseteq Active(c) \cup c.revoked
    BY <1>1, <1>2, <1>4, <2>1, <2>2 DEF Applicable
  <2>4. TrustSound(trust')
    BY <1>0, <1>2, <2>1, <2>2, <2>3 DEF TrustSound
  <2>5. Succeeded
    BY <1>0, <2>2, <2>3 DEF Succeeded
  <2>6. QED
    BY <2>4, <2>5
<1>5. trust' \in [config : Configurations, revoked : SUBSET Revocable]
  BY <1>1, <1>2 DEF AllRevoked, TrustSound
<1>6. trust' # Nil
  BY <1>5, NilIsNoTrust
<1>7. QED
  BY <1>1, <1>3, <1>4, <1>6

\* The checks establish what they answer with.
LEMMA ChecksEstablish ==
  ASSUME TrustInv, NEW b, NEW x, loaded # Nil, Checks(b, x) # Nil
  PROVE  /\ Established(Checks(b, x).identity, Checks(b, x).content, trust)
         /\ LET y == Checks(b, x).content.statement
            IN y # Nil => {y.key, y.registry} \cap trust.revoked = {}
<1>1. CASE x = Nil
  BY <1>1 DEF Checks, Unsigned, Established
<1>2. CASE x # Nil
  <2>1. /\ Authentic(loaded, x) /\ x.workload = b.workload /\ x.run = b.run
        /\ Checks(b, x) = [identity |-> <<b.run, x.event>>, content |-> Signed(b, x)]
    BY <1>2 DEF Checks
  <2>2. loaded.revoked = trust.revoked /\ DOMAIN loaded.keys = Active(trust.config)
        /\ Nil \notin trust.revoked
    BY DEF TrustInv, JudgedByPinned, TrustSound, Active
  <2>3. x.key \notin trust.revoked /\ x.key \in Active(trust.config) /\ x.intact
        /\ (x.registry # Nil => x.registry \notin trust.revoked
                                /\ x.registry \in Active(trust.config))
    BY <2>1, <2>2 DEF Authentic, AttestationStands
  <2>4. {x.key, x.registry} \cap trust.revoked = {}
    BY <2>2, <2>3
  <2>5. ASSUME Verdict(loaded, x, b.admitted) # "unknown"
        PROVE  /\ loaded.keys[x.key].independent /\ x.referenced /\ x.registry # Nil
               /\ Verdict(loaded, x, b.admitted) = x.state /\ x.behavior = x.state
               /\ x.state = "conforming" => x.complete
    BY <2>5 DEF Verdict, Classified, Assessed
  <2>6. Established(<<b.run, x.event>>, Signed(b, x), trust)
    BY <1>2, <2>1, <2>3, <2>5 DEF Established, Signed
  <2>7. QED
    BY <2>1, <2>4, <2>6 DEF Signed
<1>3. QED
  BY <1>1, <1>2

\* What a step does to the history that was pinned and stored.
Stands ==
  \/ saved # Nil /\ trust' = saved.trust /\ receipts' = saved.receipts
  \/ /\ DOMAIN receipts \subseteq DOMAIN receipts'
     /\ \A i \in DOMAIN receipts : receipts'[i] = receipts[i]
     /\ Succeeded
     /\ \A i \in DOMAIN receipts' \ DOMAIN receipts :
          LET x == receipts'[i].statement
          IN x # Nil => {x.key, x.registry} \cap trust.revoked = {}

LEMMA SameTrustSucceeds ==
  ASSUME TrustSound(trust), trust' = trust
  PROVE  Succeeded
BY SinkSizes DEF TrustSound, Succeeded

\* A step that leaves what is pinned, stored and saved alone.
SavedStands ==
  saved # Nil => /\ TrustSound(saved.trust) /\ saved.trust # Nil
                 /\ Confirmed(saved.receipts, saved.trust)

LEMMA SameHistoryStands ==
  ASSUME TrustInv, UNCHANGED <<trust, receipts, saved>>
  PROVE  TrustSound(trust)' /\ Confirmed(receipts, trust)' /\ SavedStands' /\ Stands
<1>1. TrustSound(trust) /\ Confirmed(receipts, trust) /\ SavedStands
  BY DEF TrustInv, SavedStands
<1>2. TrustSound(trust)'
  BY <1>1 DEF TrustSound, Active
<1>3. Confirmed(receipts, trust)'
  BY <1>1 DEF Confirmed, Established
<1>4. SavedStands'
  BY <1>1 DEF SavedStands, TrustSound, Active, Confirmed, Established
<1>5. Stands
  BY <1>1, SameTrustSucceeds DEF Stands
<1>6. QED
  BY <1>2, <1>3, <1>4, <1>5

LEMMA TrustStep ==
  ASSUME TrustInv, [SinkNext]_sinkVars
  PROVE  TrustInv' /\ Stands
<1> USE DEF TrustInv
<1>1. ASSUME UNCHANGED <<loaded, inFlight, trust, receipts, saved>>
      PROVE  TrustInv' /\ Stands
  <2>1. JudgedByPinned'
    BY <1>1 DEF JudgedByPinned
  <2>2. InFlightStands'
    BY <1>1 DEF InFlightStands, Established
  <2>3. QED
    BY <1>1, <2>1, <2>2, SameHistoryStands DEF SavedStands
<1>2. ASSUME NEW c \in Configurations, Start(c)
      PROVE  TrustInv' /\ Stands
  <2>1. Succeeded /\ TrustSound(trust') /\ trust' # Nil /\ trust' = [config |-> c, revoked |-> AllRevoked(c)]
    BY <1>2, StartSucceeds
  <2>2. /\ loaded = Nil /\ inFlight' = inFlight /\ receipts' = receipts /\ saved' = saved
        /\ loaded' = [keys |-> c.keys, revoked |-> AllRevoked(c)]
    BY <1>2 DEF Start
  <2>3. inFlight' = {}
    BY <2>2 DEF JudgedByPinned
  <2>4. Confirmed(receipts, trust')
    <3>1. CASE trust = Nil
      BY <3>1 DEF Confirmed
    <3>2. CASE trust # Nil
      <4>1. Active(trust.config) \cup trust.revoked \subseteq Active(trust'.config) \cup trust'.revoked
        BY <2>1, <3>2 DEF Succeeded
      <4>2. ASSUME NEW i \in DOMAIN receipts
            PROVE  Established(i, receipts[i], trust')
        <5>1. Established(i, receipts[i], trust)
          BY DEF Confirmed
        <5>2. ASSUME receipts[i].outcome # "unknown"
              PROVE  {receipts[i].statement.key, receipts[i].statement.registry}
                       \subseteq Active(trust'.config) \cup trust'.revoked
          BY <4>1, <5>1, <5>2 DEF Established
        <5>3. QED
          BY <5>1, <5>2 DEF Established
      <4>3. QED
        BY <2>1, <4>2 DEF Confirmed
    <3>3. QED
      BY <3>1, <3>2
  <2>5. QED
    BY <2>1, <2>2, <2>3, <2>4 DEF JudgedByPinned, InFlightStands, Stands
<1>3. CASE Stop
  <2>1. loaded' = Nil /\ inFlight' = {} /\ UNCHANGED <<trust, receipts, saved>>
    BY <1>3 DEF Stop, database
  <2>2. JudgedByPinned' /\ InFlightStands'
    BY <2>1 DEF JudgedByPinned, InFlightStands
  <2>3. QED
    BY <2>1, <2>2, SameHistoryStands DEF SavedStands
<1>4. ASSUME NEW b \in Posts, NEW x \in signed \cup Collected \cup {Nil}, Check(b, x)
      PROVE  TrustInv' /\ Stands
  <2>1. /\ loaded # Nil /\ Checks(b, x) # Nil /\ inFlight' = inFlight \cup {Checks(b, x)}
        /\ UNCHANGED <<loaded, trust, receipts, saved>>
    BY <1>4 DEF Check, database
  <2>2. InFlightStands'
    BY <2>1, ChecksEstablish DEF InFlightStands, Established
  <2>3. JudgedByPinned'
    BY <2>1 DEF JudgedByPinned
  <2>4. QED
    BY <2>1, <2>2, <2>3, SameHistoryStands DEF SavedStands
<1>5. ASSUME NEW r \in inFlight, Persist(r)
      PROVE  TrustInv' /\ Stands
  <2>1. inFlight' = inFlight \ {r} /\ UNCHANGED <<loaded, trust, saved>>
    BY <1>5 DEF Persist
  <2>2. \/ receipts' = receipts
        \/ /\ r.identity \notin DOMAIN receipts
           /\ receipts' = [i \in DOMAIN receipts \cup {r.identity} |->
                             IF i = r.identity THEN r.content ELSE receipts[i]]
    BY <1>5 DEF Persist, IsFree
  <2>3. /\ Established(r.identity, r.content, trust) /\ trust # Nil
        /\ r.content.statement # Nil =>
             {r.content.statement.key, r.content.statement.registry} \cap trust.revoked = {}
    BY DEF InFlightStands, JudgedByPinned
  <2>4. Confirmed(receipts', trust)
    BY <2>2, <2>3 DEF Confirmed
  <2>5. Stands
    BY <2>1, <2>2, <2>3, SameTrustSucceeds DEF Stands
  <2>6. JudgedByPinned' /\ InFlightStands'
    BY <2>1 DEF JudgedByPinned, InFlightStands, Established
  <2>7. TrustSound(trust)'
    BY <2>1 DEF TrustSound, Active
  <2>8. (saved # Nil => TrustSound(saved.trust) /\ saved.trust # Nil
                         /\ Confirmed(saved.receipts, saved.trust))'
    BY <2>1 DEF TrustSound, Confirmed, Established, Active
  <2>9. Confirmed(receipts, trust)'
    BY <2>1, <2>4 DEF Confirmed, Established
  <2>10. QED
    BY <2>5, <2>6, <2>7, <2>8, <2>9
<1>6. CASE Backup
  <2>1. trust # Nil /\ UNCHANGED <<loaded, inFlight, trust, receipts>>
        /\ saved'.trust = trust /\ saved'.receipts = receipts
    BY <1>6 DEF Backup, database
  <2>2. QED
    BY <2>1, SameTrustSucceeds
    DEF TrustSound, JudgedByPinned, InFlightStands, Confirmed, Stands, Established, Active
<1>7. CASE Restore
  <2>1. /\ loaded = Nil /\ saved # Nil /\ trust' = saved.trust /\ receipts' = saved.receipts
        /\ UNCHANGED <<loaded, inFlight, saved>>
    BY <1>7 DEF Restore
  <2>2. inFlight = {} /\ Stands
    BY <2>1 DEF JudgedByPinned, Stands
  <2>3. JudgedByPinned' /\ InFlightStands'
    BY <2>1, <2>2 DEF JudgedByPinned, InFlightStands
  <2>4. TrustSound(trust)' /\ Confirmed(receipts, trust)'
    BY <2>1 DEF TrustSound, Confirmed, Established, Active
  <2>5. (saved # Nil => TrustSound(saved.trust) /\ saved.trust # Nil
                         /\ Confirmed(saved.receipts, saved.trust))'
    BY <2>1 DEF TrustSound, Confirmed, Established, Active
  <2>6. QED
    BY <2>2, <2>3, <2>4, <2>5
<1>8. QED
  BY <1>1, <1>2, <1>3, <1>4, <1>5, <1>6, <1>7
  DEF SinkNext, sinkVars, database, Observe, TimePasses

\* The inductive invariant: see the definitions of its parts.
THEOREM TrustInvariance == SinkSpec => []TrustInv
<1>1. TrustInv /\ [SinkNext]_sinkVars => TrustInv'
  BY TrustStep
<1>2. QED
  BY <1>1, TrustStart, PTL DEF SinkSpec

\* ConfirmedIsEstablished: evaluate_signed_observation is the only way to an outcome,
\* and apply_trust_configuration forgets no key it ever trusted.
THEOREM OnlyEstablished == SinkSpec => []ConfirmedIsEstablished
<1>1. TrustInv => ConfirmedIsEstablished
  BY DEF TrustInv, Confirmed, Established, ConfirmedIsEstablished
<1>2. QED
  BY <1>1, TrustInvariance, PTL

\* HistoryStands: a transaction only adds a receipt, and a trust file that takes a
\* key back, or drops one silently, is refused.
THEOREM NothingIsRewritten == SinkSpec => HistoryStands
<1>1. TrustInv /\ [SinkNext]_sinkVars => [Stands]_sinkVars
  BY TrustStep
<1>2. SinkSpec => [][Stands]_sinkVars
  BY <1>1, TrustInvariance, PTL DEF SinkSpec
<1>3. QED
  BY <1>2 DEF Stands, Succeeded, HistoryStands

-----------------------------------------------------------------------------
(* The system-call hooks, for any tasks, CPUs, calls and size of the ring  *)
(* buffers: a call that keeps its CPU is reported with its own value, and  *)
(* no exit hook goes uncounted.                                            *)

\* The scheduler runs one task at a time on a CPU: the reason why an enter hook
\* on one CPU leaves the stash of a call on another alone.
OneTaskPerCPU ==
  \A t, u \in Tasks : Running(t) /\ cpu[t] = cpu[u] => t = u

\* What a hook with value own may have left in the stash, as far as the exit hook
\* of the same call is concerned.
Stashed(c, value, mine) ==
  c \in Stashing /\ mine # NoArg =>
    value = mine \/ (c = "finit_module" /\ value = Zero)

\* A call that kept its CPU finds what its enter hook left there.
StashKept ==
  \A t \in Tasks : stayed[t] =>
    /\ Running(t) /\ call[t] # "none"
    /\ Stashed(call[t], stash[<<Family(call[t]), cpu[t]>>], own[t])

StashInv == TypeOK /\ OneTaskPerCPU /\ StashKept /\ UninterruptedIsOwn

-----------------------------------------------------------------------------
(* Types *)

LEMMA FamilyType == \A c \in Hooked : Family(c) \in Families
  BY DEF Hooked, Stashing, Family, Families

LEMMA CallInHooked ==
  ASSUME TypeOK, NEW t \in Tasks, call[t] # "none"
  PROVE  call[t] \in Hooked /\ call[t] \in Calls
  BY CallsAssumption DEF TypeOK

\* Whatever an enter hook stores is a value, under its family and its CPU.
LEMMA FillStashType ==
  ASSUME TypeOK, NEW t \in Tasks, NEW c \in Calls, NEW value \in Values \cup {NoArg},
         Running(t), FillStash(t, c, value)
  PROVE  stash' \in [Families \X CPUs -> Values]
<1>1. CASE c \in Stashing /\ value # NoArg
  <2>1. PICK v \in {value, Zero} : stash' = [stash EXCEPT ![<<Family(c), cpu[t]>>] = v]
    BY <1>1 DEF FillStash
  <2>2. v \in Values
    BY <1>1, ValuesAssumption
  <2>3. QED  BY <2>1, <2>2 DEF TypeOK
<1>2. CASE ~(c \in Stashing /\ value # NoArg)
  BY <1>2 DEF FillStash, TypeOK
<1>3. QED  BY <1>1, <1>2

LEMMA StashTypeInit == Init => TypeOK
  BY ValuesAssumption DEF Init, TypeOK

LEMMA StashTypeStep == TypeOK /\ [Next]_vars => TypeOK'
<1> SUFFICES ASSUME TypeOK, [Next]_vars PROVE TypeOK'
  OBVIOUS
<1>1. ASSUME NEW t \in Tasks, NEW p \in CPUs, SwitchIn(t, p) PROVE TypeOK'
  BY <1>1 DEF SwitchIn, TypeOK, history
<1>2. ASSUME NEW t \in Tasks, SwitchOut(t) PROVE TypeOK'
  BY <1>2 DEF SwitchOut, TypeOK
<1>3. ASSUME NEW t \in Tasks, NEW c \in Calls, NEW arg \in Values \cup {NoArg}, Enter(t, c, arg)
      PROVE  TypeOK'
  <2> DEFINE value == IF Family(c) = "privilege" THEN cred[t] ELSE arg
  <2>1. value \in Values \cup {NoArg}
    BY DEF TypeOK
  <2>2. FillStash(t, c, value) /\ Running(t)
    BY <1>3 DEF Enter
  <2>3. stash' \in [Families \X CPUs -> Values]
    BY <2>1, <2>2, FillStashType
  <2>4. /\ call' = [call EXCEPT ![t] = c]
        /\ own' = [own EXCEPT ![t] = value]
        /\ stayed' = [stayed EXCEPT ![t] = TRUE]
        /\ UNCHANGED <<cpu, cred, ring, lost, exits, drained>>
    BY <1>3 DEF Enter
  <2>5. QED
    <3> HIDE DEF value
    <3> QED  BY <2>1, <2>3, <2>4 DEF TypeOK
<1>4. ASSUME NEW t \in Tasks, Exit(t) PROVE TypeOK'
  <2> DEFINE f == Family(call[t])
  <2>1. call[t] \in Hooked /\ f \in Families /\ cpu[t] \in CPUs
    BY <1>4, CallInHooked, FamilyType DEF Exit, Running
  <2>2. cred' \in [Tasks -> Values]
    BY <1>4 DEF Exit, TypeOK
  <2>3. ring' \in [Families -> Seq(Record)] /\ lost' \in [Families \X CPUs -> Nat]
    <3>1. CASE Emit(t, call[t])
      <4> DEFINE rec == [task |-> t, call |-> call[t], value |-> stash[<<f, cpu[t]>>],
                         after |-> cred'[t], own |-> own[t], stayed |-> stayed[t]]
      <4>1. rec \in Record
        BY <2>1, <2>2 DEF TypeOK, Record
      <4>2. ring' = [ring EXCEPT ![f] = Append(@, rec)] /\ lost' = lost
        BY <3>1 DEF Emit
      <4> HIDE DEF rec
      <4>3. QED  BY <2>1, <4>1, <4>2 DEF TypeOK
    <3>2. CASE ReserveFails(t, call[t])
      BY <2>1, <3>2 DEF ReserveFails, TypeOK
    <3>3. QED  BY <1>4, <3>1, <3>2 DEF Exit
  <2>4. own' \in [Tasks -> Values \cup {NoArg}]
    BY <1>4, ValuesAssumption DEF Exit, TypeOK
  <2>5. /\ call' = [call EXCEPT ![t] = "none"]
        /\ exits' = [exits EXCEPT ![f] = @ + 1]
        /\ stayed' = [stayed EXCEPT ![t] = FALSE]
        /\ UNCHANGED <<cpu, stash, drained>>
    BY <1>4 DEF Exit
  <2>6. QED
    <3> HIDE DEF f
    <3> QED  BY <2>1, <2>2, <2>3, <2>4, <2>5 DEF TypeOK
<1>5. ASSUME NEW f \in Families, Drain(f) PROVE TypeOK'
  <2>1. Tail(ring[f]) \in Seq(Record)
    BY <1>5 DEF Drain, TypeOK
  <2>2. QED  BY <1>5, <2>1 DEF Drain, TypeOK
<1>6. CASE UNCHANGED vars
  BY <1>6 DEF vars, history, TypeOK
<1>7. QED  BY <1>1, <1>2, <1>3, <1>4, <1>5, <1>6 DEF Next

\* The variables keep their types: stashes hold values of a call's kind, ring
\* buffers hold records.
THEOREM StashTyping == Spec => []TypeOK
  BY StashTypeInit, StashTypeStep, PTL DEF Spec

-----------------------------------------------------------------------------
(* Uninterrupted calls *)

\* The clause of UninterruptedIsOwn for one record.
OwnRecord(rec) == rec.stayed => Stashed(rec.call, rec.value, rec.own)

LEMMA UninterruptedByRecord ==
  UninterruptedIsOwn <=> \A f \in Families : \A i \in DOMAIN ring[f] : OwnRecord(ring[f][i])
  BY DEF UninterruptedIsOwn, OwnRecord, Stashed

\* The programs may be attached while tasks are in calls; none has a hook behind it.
LEMMA StashInit == Init => StashInv
<1> SUFFICES ASSUME Init PROVE StashInv
  OBVIOUS
<1>1. OneTaskPerCPU /\ StashKept
  BY CPUsAssumption DEF Init, OneTaskPerCPU, StashKept, Running
<1>2. \A f \in Families : DOMAIN ring[f] = {}
  BY DEF Init
<1>3. QED  BY <1>1, <1>2, StashTypeInit DEF StashInv, UninterruptedIsOwn

LEMMA OneTaskStep == StashInv /\ [Next]_vars => OneTaskPerCPU'
<1> SUFFICES ASSUME StashInv, [Next]_vars PROVE OneTaskPerCPU'
  OBVIOUS
<1> USE CPUsAssumption DEF StashInv, TypeOK, OneTaskPerCPU, Running
<1>1. ASSUME NEW t \in Tasks, NEW p \in CPUs, SwitchIn(t, p) PROVE OneTaskPerCPU'
  BY <1>1 DEF SwitchIn
<1>2. ASSUME NEW t \in Tasks, SwitchOut(t) PROVE OneTaskPerCPU'
  BY <1>2 DEF SwitchOut
<1>3. ASSUME UNCHANGED cpu PROVE OneTaskPerCPU'
  BY <1>3
<1>4. QED  BY <1>1, <1>2, <1>3 DEF Next, Enter, Exit, Drain, vars

\* An enter hook stores what its own exit hook will want, and touches no stash of
\* a call on another CPU.
LEMMA FillStashKeeps ==
  ASSUME StashInv, NEW t \in Tasks, NEW c \in Calls, NEW value \in Values \cup {NoArg},
         Running(t), FillStash(t, c, value)
  PROVE  /\ Stashed(c, stash'[<<Family(c), cpu[t]>>], value)
         /\ \A u \in Tasks \ {t}, f \in Families :
              Running(u) => stash'[<<f, cpu[u]>>] = stash[<<f, cpu[u]>>]
<1> USE DEF StashInv, TypeOK
<1>1. Family(c) \in Families
  BY CallsAssumption, FamilyType
<1>2. CASE c \in Stashing /\ value # NoArg
  <2>1. PICK v \in IF c = "finit_module" THEN {value, Zero} ELSE {value} :
          stash' = [stash EXCEPT ![<<Family(c), cpu[t]>>] = v]
    BY <1>2 DEF FillStash
  <2>2. stash'[<<Family(c), cpu[t]>>] = v
    BY <1>1, <2>1 DEF Running
  <2>3. Stashed(c, v, value)
    BY <2>1 DEF Stashed
  <2>4. ASSUME NEW u \in Tasks \ {t}, NEW f \in Families, Running(u)
        PROVE  stash'[<<f, cpu[u]>>] = stash[<<f, cpu[u]>>]
    <3>1. cpu[u] # cpu[t]
      BY <2>4 DEF OneTaskPerCPU
    <3>2. QED  BY <2>1, <2>4, <3>1 DEF Running
  <2>5. QED  BY <2>2, <2>3, <2>4
<1>3. CASE ~(c \in Stashing /\ value # NoArg)
  BY <1>3 DEF FillStash, Stashed
<1>4. QED  BY <1>2, <1>3

LEMMA StashKeptStep == StashInv /\ [Next]_vars => StashKept'
<1> SUFFICES ASSUME StashInv, [Next]_vars PROVE StashKept'
  OBVIOUS
<1> USE DEF StashInv
<1>1. ASSUME NEW t \in Tasks, NEW p \in CPUs, SwitchIn(t, p) PROVE StashKept'
  BY <1>1 DEF SwitchIn, StashKept, Running, TypeOK, history, Stashed
<1>2. ASSUME NEW t \in Tasks, SwitchOut(t) PROVE StashKept'
  BY <1>2 DEF SwitchOut, StashKept, Running, TypeOK, Stashed
<1>3. ASSUME NEW t \in Tasks, NEW c \in Calls, NEW arg \in Values \cup {NoArg}, Enter(t, c, arg)
      PROVE  StashKept'
  <2> DEFINE value == IF Family(c) = "privilege" THEN cred[t] ELSE arg
  <2>1. value \in Values \cup {NoArg}
    BY DEF TypeOK
  <2>2. FillStash(t, c, value) /\ Running(t) /\ c # "none"
    BY <1>3, CallsAssumption DEF Enter, Hooked, Stashing
  <2>3. /\ call' = [call EXCEPT ![t] = c]
        /\ own' = [own EXCEPT ![t] = value]
        /\ stayed' = [stayed EXCEPT ![t] = TRUE]
        /\ cpu' = cpu
    BY <1>3 DEF Enter
  <2> HIDE DEF value
  <2>4. /\ Stashed(c, stash'[<<Family(c), cpu[t]>>], value)
        /\ \A u \in Tasks \ {t}, f \in Families :
              Running(u) => stash'[<<f, cpu[u]>>] = stash[<<f, cpu[u]>>]
    BY <2>1, <2>2, FillStashKeeps
  <2>5. SUFFICES ASSUME NEW u \in Tasks, stayed'[u]
        PROVE  /\ Running(u)' /\ call'[u] # "none"
               /\ Stashed(call'[u], stash'[<<Family(call'[u]), cpu'[u]>>], own'[u])
    BY DEF StashKept, Stashed, Running, Family, Stashing
  <2>6. CASE u = t
    <3>1. call'[u] = c /\ own'[u] = value /\ cpu'[u] = cpu[t]
      BY <2>3, <2>6 DEF TypeOK
    <3>2. QED  BY <2>2, <2>3, <2>4, <3>1 DEF Running
  <2>7. CASE u # t
    <3>1. call'[u] = call[u] /\ own'[u] = own[u] /\ cpu'[u] = cpu[u] /\ stayed[u]
      BY <2>3, <2>5, <2>7 DEF TypeOK
    <3>2. /\ Running(u) /\ call[u] # "none"
          /\ Stashed(call[u], stash[<<Family(call[u]), cpu[u]>>], own[u])
      BY <3>1 DEF StashKept
    <3>3. Family(call[u]) \in Families
      BY <3>2, CallInHooked, FamilyType
    <3>4. stash'[<<Family(call[u]), cpu[u]>>] = stash[<<Family(call[u]), cpu[u]>>]
      BY <2>4, <2>7, <3>2, <3>3
    <3>5. QED  BY <2>3, <3>1, <3>2, <3>4 DEF Running
  <2>8. QED  BY <2>6, <2>7
<1>4. ASSUME NEW t \in Tasks, Exit(t) PROVE StashKept'
  BY <1>4 DEF Exit, StashKept, Running, TypeOK, Stashed
<1>5. ASSUME NEW f \in Families, Drain(f) PROVE StashKept'
  BY <1>5 DEF Drain, StashKept, Running, Stashed
<1>6. CASE UNCHANGED vars
  BY <1>6 DEF vars, history, StashKept, Running, Stashed
<1>7. QED  BY <1>1, <1>2, <1>3, <1>4, <1>5, <1>6 DEF Next

LEMMA UninterruptedStep == StashInv /\ [Next]_vars => UninterruptedIsOwn'
<1> SUFFICES ASSUME StashInv, [Next]_vars PROVE UninterruptedIsOwn'
  OBVIOUS
<1> USE DEF StashInv
<1>1. \A f \in Families : \A i \in DOMAIN ring[f] : OwnRecord(ring[f][i])
  BY UninterruptedByRecord
<1>2. SUFFICES \A f \in Families : \A i \in DOMAIN ring'[f] : OwnRecord(ring'[f][i])
  BY DEF UninterruptedIsOwn, OwnRecord, Stashed
<1>3. ASSUME NEW t \in Tasks, Exit(t), Emit(t, call[t])
      PROVE  \A f \in Families : \A i \in DOMAIN ring'[f] : OwnRecord(ring'[f][i])
  <2> DEFINE g == Family(call[t])
             rec == [task |-> t, call |-> call[t], value |-> stash[<<g, cpu[t]>>],
                     after |-> cred'[t], own |-> own[t], stayed |-> stayed[t]]
  <2>1. OwnRecord(rec)
    BY DEF StashKept, OwnRecord
  <2>2. ring' = [ring EXCEPT ![g] = Append(@, rec)]
    BY <1>3 DEF Emit
  <2>3. g \in Families
    BY <1>3, CallInHooked, FamilyType DEF Exit
  <2> HIDE DEF rec, g
  <2>4. ASSUME NEW f \in Families, NEW i \in DOMAIN ring'[f] PROVE OwnRecord(ring'[f][i])
    <3>1. CASE f = g
      <4>1. ring[g] \in Seq(Record) /\ ring'[f] = Append(ring[g], rec)
        BY <2>2, <2>3, <3>1 DEF TypeOK
      <4>2. i \in 1..(Len(ring[g]) + 1)
        BY <4>1
      <4>3. ring'[f][i] = IF i = Len(ring[g]) + 1 THEN rec ELSE ring[g][i]
        BY <4>1, <4>2
      <4>4. i # Len(ring[g]) + 1 => i \in DOMAIN ring[g]
        BY <4>1, <4>2
      <4>5. QED  BY <1>1, <2>1, <2>3, <4>3, <4>4
    <3>2. CASE f # g
      <4>1. ring'[f] = ring[f]
        BY <2>2, <3>2 DEF TypeOK
      <4>2. QED  BY <1>1, <4>1
    <3>3. QED  BY <3>1, <3>2
  <2>5. QED  BY <2>4
<1>4. ASSUME NEW g \in Families, Drain(g)
      PROVE  \A f \in Families : \A i \in DOMAIN ring'[f] : OwnRecord(ring'[f][i])
  <2>1. ASSUME NEW f \in Families, NEW i \in DOMAIN ring'[f] PROVE OwnRecord(ring'[f][i])
    <3>1. CASE f = g
      <4>1. ring[g] \in Seq(Record) /\ ring[g] # <<>> /\ ring'[f] = Tail(ring[g])
        BY <1>4, <3>1 DEF Drain, TypeOK
      <4>2. i + 1 \in DOMAIN ring[g] /\ ring'[f][i] = ring[g][i + 1]
        BY <2>1, <4>1
      <4>3. QED  BY <1>1, <4>2
    <3>2. CASE f # g
      <4>1. ring'[f] = ring[f]
        BY <1>4, <3>2 DEF Drain, TypeOK
      <4>2. QED  BY <1>1, <2>1, <4>1
    <3>3. QED  BY <3>1, <3>2
  <2>2. QED  BY <2>1
<1>5. ASSUME UNCHANGED ring
      PROVE  \A f \in Families : \A i \in DOMAIN ring'[f] : OwnRecord(ring'[f][i])
  BY <1>1, <1>5
<1>6. QED
  BY <1>3, <1>4, <1>5 DEF Next, SwitchIn, SwitchOut, Enter, Exit, ReserveFails, vars

LEMMA StashStep == StashInv /\ [Next]_vars => StashInv'
  BY StashTypeStep, OneTaskStep, StashKeptStep, UninterruptedStep DEF StashInv

\* The inductive invariant: one task runs on a CPU, so a call that was not
\* switched out finds in the stash of its CPU what its enter hook stored there.
THEOREM StashInvariance == Spec => []StashInv
  BY StashInit, StashStep, PTL DEF Spec

\* A setuid, setresuid, setns or finit_module call that kept its CPU is reported
\* with the value it was entered with, whatever runs on the other CPUs.
THEOREM Uninterrupted == Spec => []UninterruptedIsOwn
<1>1. StashInv => UninterruptedIsOwn
  BY DEF StashInv
<1>2. QED  BY <1>1, StashInvariance, PTL

-----------------------------------------------------------------------------
(* Losses *)

LossInv ==
  /\ TypeOK /\ LossIsCounted
  /\ \A f \in Families : IsFiniteSet(Losses(f))

\* A loss more on a CPU is one number more.
LEMMA LossesGrow ==
  ASSUME TypeOK, NEW g \in Families, NEW p \in CPUs,
         lost' = [lost EXCEPT ![<<g, p>>] = @ + 1]
  PROVE  \A f \in Families :
           Losses(f)' = IF f = g THEN Losses(g) \cup {<<p, lost[<<g, p>>] + 1>>} ELSE Losses(f)
<1>1. ASSUME NEW f \in Families, NEW q \in CPUs
      PROVE  lost[<<f, q>>] \in Nat
             /\ lost'[<<f, q>>] = IF f = g /\ q = p THEN lost[<<g, p>>] + 1 ELSE lost[<<f, q>>]
  BY DEF TypeOK
<1>2. ASSUME NEW f \in Families, f # g
      PROVE  Losses(f)' = Losses(f)
  BY <1>1, <1>2 DEF Losses
<1>3. Losses(g)' = Losses(g) \cup {<<p, lost[<<g, p>>] + 1>>}
  <2> DEFINE n == lost[<<g, p>>]
             Here(m) == {p} \X (1 .. m)
  <2>1. n \in Nat /\ lost'[<<g, p>>] = n + 1
    BY <1>1
  <2>2. Here(n + 1) = Here(n) \cup {<<p, n + 1>>}
    <3> HIDE DEF n
    <3>1. 1 .. n + 1 = (1 .. n) \cup {n + 1}
      BY <2>1
    <3>2. QED
      BY <3>1
  <2>3. ASSUME NEW q \in CPUs
        PROVE  {q} \X (1 .. lost'[<<g, q>>]) =
                 IF q = p THEN Here(n) \cup {<<p, n + 1>>} ELSE {q} \X (1 .. lost[<<g, q>>])
    BY <1>1, <2>1, <2>2
  <2>4. Losses(g) = UNION {{q} \X (1 .. lost[<<g, q>>]) : q \in CPUs}
        /\ Losses(g)' = UNION {{q} \X (1 .. lost'[<<g, q>>]) : q \in CPUs}
    BY DEF Losses
  <2>5. \A x : x \in Losses(g)' <=> x \in Losses(g) \/ x = <<p, n + 1>>
    <3>1. \A x : x \in Losses(g)' <=> \E q \in CPUs : x \in {q} \X (1 .. lost'[<<g, q>>])
      BY <2>4
    <3>2. \A x : x \in Losses(g) <=> \E q \in CPUs : x \in {q} \X (1 .. lost[<<g, q>>])
      BY <2>4
    <3> HIDE DEF n
    <3>3. Here(n) = {p} \X (1 .. lost[<<g, p>>])
      BY DEF n
    <3>4. ASSUME NEW x, x \in Losses(g)'
          PROVE  x \in Losses(g) \/ x = <<p, n + 1>>
      <4>1. PICK q \in CPUs : x \in {q} \X (1 .. lost'[<<g, q>>])
        BY <3>1, <3>4
      <4>2. x \in {q} \X (1 .. lost[<<g, q>>]) \/ x = <<p, n + 1>>
        <5> HIDE DEF Here
        <5>1. CASE q = p
          BY <2>3, <3>3, <4>1, <5>1
        <5>2. CASE q # p
          BY <2>3, <4>1, <5>2
        <5>3. QED
          BY <5>1, <5>2
      <4>3. QED
        BY <3>2, <4>2
    <3>5. ASSUME NEW x, x \in Losses(g)
          PROVE  x \in Losses(g)'
      <4>1. PICK q \in CPUs : x \in {q} \X (1 .. lost[<<g, q>>])
        BY <3>2, <3>5
      <4>2. x \in {q} \X (1 .. lost'[<<g, q>>])
        <5> HIDE DEF Here
        <5>1. CASE q = p
          BY <2>3, <3>3, <4>1, <5>1
        <5>2. CASE q # p
          BY <2>3, <4>1, <5>2
        <5>3. QED
          BY <5>1, <5>2
      <4>3. QED
        BY <3>1, <4>2
    <3>6. <<p, n + 1>> \in Losses(g)'
      <4> HIDE DEF Here
      <4>1. <<p, n + 1>> \in {p} \X (1 .. lost'[<<g, p>>])
        BY <2>3
      <4>2. QED
        BY <3>1, <4>1
    <3>7. QED
      BY <3>4, <3>5, <3>6
  <2>6. QED
    BY <2>5
<1>4. QED
  BY <1>2, <1>3

LEMMA LossInit == Init => LossInv
<1> SUFFICES ASSUME Init PROVE LossInv
  OBVIOUS
<1>1. ASSUME NEW f \in Families
      PROVE  Losses(f) = {} /\ exits[f] = 0 /\ drained[f] = 0 /\ Len(ring[f]) = 0
  <2>1. exits[f] = 0 /\ drained[f] = 0 /\ ring[f] = <<>>
    BY DEF Init
  <2>2. \A p \in CPUs : lost[<<f, p>>] = 0
    BY DEF Init
  <2>3. Losses(f) = {}
    <3>1. SUFFICES ASSUME NEW x \in Losses(f) PROVE FALSE
      OBVIOUS
    <3>2. PICK p \in CPUs : x \in {p} \X (1 .. lost[<<f, p>>])
      BY DEF Losses
    <3>3. x \in {p} \X (1 .. 0)
      BY <2>2, <3>2
    <3>4. QED
      BY <3>3
  <2>4. QED
    BY <2>1, <2>3
<1>2. IsFiniteSet({}) /\ Cardinality({}) = 0
  BY FS_EmptySet
<1>3. ASSUME NEW f \in Families
      PROVE  exits[f] = drained[f] + Len(ring[f]) + Cardinality(Losses(f)) /\ IsFiniteSet(Losses(f))
  <2>1. Cardinality(Losses(f)) = 0 /\ IsFiniteSet(Losses(f))
    BY <1>1, <1>2
  <2>2. QED
    BY <1>1, <2>1
<1>4. QED
  BY <1>3, StashTypeInit DEF LossInv, LossIsCounted

\* A step that changes no counter of losses, nor what the properties add to it.
LEMMA LossStays ==
  ASSUME LossInv, UNCHANGED <<ring, lost, exits, drained>>
  PROVE  LossIsCounted' /\ \A f \in Families : IsFiniteSet(Losses(f))'
BY DEF LossInv, LossIsCounted, Losses

LEMMA LossStep == LossInv /\ [Next]_vars => LossInv'
<1> SUFFICES ASSUME LossInv, [Next]_vars PROVE LossInv'
  OBVIOUS
<1> DEFINE Counted == LossIsCounted /\ \A f \in Families : IsFiniteSet(Losses(f))
<1>1. TypeOK /\ TypeOK'
  BY StashTypeStep DEF LossInv
<1>2. ASSUME NEW f \in Families
      PROVE  /\ Len(ring[f]) \in Nat /\ exits[f] \in Nat /\ drained[f] \in Nat
             /\ IsFiniteSet(Losses(f)) /\ Cardinality(Losses(f)) \in Nat
             /\ exits[f] = drained[f] + Len(ring[f]) + Cardinality(Losses(f))
  BY <1>1, FS_CardinalityType DEF LossInv, LossIsCounted, TypeOK
<1>3. ASSUME NEW t \in Tasks, Exit(t)
      PROVE  Counted'
  <2> DEFINE g == Family(call[t])
             p == cpu[t]
  <2>1. g \in Families /\ p \in CPUs
    BY <1>1, <1>3, CallInHooked, FamilyType DEF Exit, Running
  <2>2. exits' = [exits EXCEPT ![g] = @ + 1] /\ drained' = drained
    BY <1>3 DEF Exit
  <2>3. \A f \in Families : exits'[f] = IF f = g THEN exits[f] + 1 ELSE exits[f]
    BY <1>1, <2>1, <2>2 DEF TypeOK
  <2>4. CASE Emit(t, call[t])
    <3> DEFINE rec == [task |-> t, call |-> call[t], value |-> stash[<<g, p>>],
                       after |-> cred'[t], own |-> own[t], stayed |-> stayed[t]]
    <3>1. ring' = [ring EXCEPT ![g] = Append(@, rec)] /\ lost' = lost
      BY <2>4 DEF Emit
    <3> HIDE DEF rec, g
    <3>2. \A f \in Families : Len(ring'[f]) = IF f = g THEN Len(ring[f]) + 1 ELSE Len(ring[f])
      BY <1>1, <2>1, <3>1 DEF TypeOK
    <3>3. \A f \in Families : Losses(f)' = Losses(f)
      BY <3>1 DEF Losses
    <3>4. ASSUME NEW f \in Families
          PROVE  /\ exits'[f] = drained'[f] + Len(ring'[f]) + Cardinality(Losses(f)')
                 /\ IsFiniteSet(Losses(f)')
      <4>1. Losses(f)' = Losses(f) /\ drained'[f] = drained[f]
        BY <2>2, <3>3
      <4>2. CASE f = g
        <5>1. exits'[f] = exits[f] + 1 /\ Len(ring'[f]) = Len(ring[f]) + 1
          BY <2>3, <3>2, <4>2
        <5> DEFINE x == exits[f]
                   d == drained[f]
                   l == Len(ring[f])
                   c == Cardinality(Losses(f))
        <5>2. x \in Nat /\ d \in Nat /\ l \in Nat /\ c \in Nat /\ x = d + l + c /\ IsFiniteSet(Losses(f))
          BY <1>2
        <5> HIDE DEF x, d, l, c
        <5>3. x + 1 = d + (l + 1) + c
          BY <5>2
        <5>4. QED
          BY <4>1, <5>1, <5>2, <5>3 DEF x, d, l, c
      <4>3. CASE f # g
        BY <1>2, <2>3, <3>2, <4>1, <4>3
      <4>4. QED
        BY <4>2, <4>3
    <3>5. QED
      BY <3>4 DEF LossIsCounted
  <2>5. CASE ReserveFails(t, call[t])
    <3> DEFINE n == lost[<<g, p>>]
    <3>1. lost' = [lost EXCEPT ![<<g, p>>] = @ + 1] /\ ring' = ring
      BY <2>5 DEF ReserveFails
    <3>2. n \in Nat
      BY <1>1, <2>1 DEF TypeOK
    <3> HIDE DEF g, p
    <3>3. \A f \in Families :
            Losses(f)' = IF f = g THEN Losses(g) \cup {<<p, n + 1>>} ELSE Losses(f)
      BY <1>1, <2>1, <3>1, LossesGrow
    <3>4. <<p, n + 1>> \notin Losses(g)
      <4>1. SUFFICES ASSUME <<p, n + 1>> \in Losses(g) PROVE FALSE
        OBVIOUS
      <4>2. PICK q \in CPUs : <<p, n + 1>> \in {q} \X (1 .. lost[<<g, q>>])
        BY <4>1 DEF Losses
      <4>3. q = p /\ n + 1 \in 1 .. n
        BY <4>2
      <4> HIDE DEF n
      <4>4. QED
        BY <3>2, <4>3
    <3> HIDE DEF n
    <3>5. /\ IsFiniteSet(Losses(g) \cup {<<p, n + 1>>})
          /\ Cardinality(Losses(g) \cup {<<p, n + 1>>}) = Cardinality(Losses(g)) + 1
      BY <1>2, <2>1, <3>4, FS_AddElement
    <3>6. ASSUME NEW f \in Families
          PROVE  /\ exits'[f] = drained'[f] + Len(ring'[f]) + Cardinality(Losses(f)')
                 /\ IsFiniteSet(Losses(f)')
      <4>1. ring'[f] = ring[f] /\ drained'[f] = drained[f]
        BY <2>2, <3>1
      <4>2. CASE f = g
        <5>1. Cardinality(Losses(f)') = Cardinality(Losses(f)) + 1 /\ IsFiniteSet(Losses(f)')
          BY <2>1, <3>3, <3>5, <4>2
        <5>2. exits'[f] = exits[f] + 1
          BY <2>3, <4>2
        <5> DEFINE x == exits[f]
                   d == drained[f]
                   l == Len(ring[f])
                   c == Cardinality(Losses(f))
        <5>3. x \in Nat /\ d \in Nat /\ l \in Nat /\ c \in Nat /\ x = d + l + c
          BY <1>2
        <5> HIDE DEF x, d, l, c
        <5>4. x + 1 = d + l + (c + 1)
          BY <5>3
        <5>5. QED
          BY <4>1, <5>1, <5>2, <5>4 DEF x, d, l, c
      <4>3. CASE f # g
        <5>1. Losses(f)' = Losses(f)
          BY <3>3, <4>3
        <5>2. QED
          BY <1>2, <2>3, <4>1, <4>3, <5>1
      <4>4. QED
        BY <4>2, <4>3
    <3>7. QED
      BY <3>6 DEF LossIsCounted
  <2>6. QED
    BY <1>3, <2>4, <2>5 DEF Exit
<1>4. ASSUME NEW g \in Families, Drain(g)
      PROVE  Counted'
  <2>1. \A f \in Families : Len(ring'[f]) = IF f = g THEN Len(ring[f]) - 1 ELSE Len(ring[f])
    <3>1. ring[g] # <<>> /\ ring[g] \in Seq(Record) /\ ring' = [ring EXCEPT ![g] = Tail(@)]
      BY <1>1, <1>4 DEF Drain, TypeOK
    <3>2. Len(Tail(ring[g])) = Len(ring[g]) - 1
      BY <3>1
    <3>3. QED
      BY <1>1, <3>1, <3>2 DEF TypeOK
  <2>2. \A f \in Families : drained'[f] = IF f = g THEN drained[f] + 1 ELSE drained[f]
    BY <1>1, <1>4 DEF Drain, TypeOK
  <2>3. exits' = exits /\ \A f \in Families : Losses(f)' = Losses(f)
    BY <1>4 DEF Drain, Losses
  <2>4. QED
    BY <1>2, <2>1, <2>2, <2>3 DEF LossIsCounted
<1>5. ASSUME UNCHANGED <<ring, lost, exits, drained>>
      PROVE  Counted'
  BY <1>5, LossStays
<1>6. Counted'
  BY <1>3, <1>4, <1>5 DEF Next, SwitchIn, SwitchOut, Enter, vars, history
<1>7. QED
  BY <1>1, <1>6 DEF LossInv

\* Every exit hook that ran left a record or was counted by reserve_failures, however many
\* CPUs count and whichever ring buffer was full.
THEOREM LossIsAlwaysCounted == Spec => []LossIsCounted
<1>1. LossInv => LossIsCounted
  BY DEF LossInv
<1>2. QED
  BY <1>1, LossInit, LossStep, PTL DEF Spec
=============================================================================
