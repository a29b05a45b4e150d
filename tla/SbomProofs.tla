----------------------------- MODULE SbomProofs -----------------------------
(***************************************************************************)
(* Safety of SbomVerification for any finite set of requests and any       *)
(* number of faults: types, and that a verified SBOM has a verified job,   *)
(* although tasks write back an SBOM they loaded long before.  After that, *)
(* what a verified SBOM is used for: an event is attributed to a component *)
(* only if it is identified, for any SBOMs and events.                     *)
(***************************************************************************)
EXTENDS SbomVerification, ComponentMapping, FiniteSetTheorems, TLAPS

\* A request takes the time at its look-up, once.
TimeIsTakenOnce ==
  \A r \in Requests : pc[r] = "new" => submittedAt[r] = 0

\* A job is verified by its own task, at its end.
VerifiedAtEnd ==
  \A r \in Requests : jobs[r] = "verified" => pc[r] \in {"save_sbom", "end"}

\* What a task has in its memory to write: a verdict of a job that is verified,
\* or the task's own, which it will have written to its job first.
VerdictsAreBacked ==
  \A r \in Requests : pc[r] \in {"save_job", "save_sbom"} /\ result[r].status = "verified" =>
    /\ result[r].by # NoJob
    /\ \/ jobs[result[r].by] = "verified"
       \/ pc[r] = "save_job" /\ result[r].by = r /\ outcome[r] = "verified"

IInv == TypeOK /\ TimeIsTakenOnce /\ VerifiedAtEnd /\ VerdictsAreBacked /\ VerifiedHasJob

-----------------------------------------------------------------------------
\* The next time of submission is at most the number of requests.
LEMMA TimeIsBounded ==
  ASSUME TypeOK, TimeIsTakenOnce, NEW r \in Requests, pc[r] = "new"
  PROVE  Cardinality({k \in Requests : submittedAt[k] > 0}) + 1 \in 0 .. Cardinality(Requests)
<1> DEFINE Taken == {k \in Requests : submittedAt[k] > 0}
<1>1. r \notin Taken
  BY DEF TimeIsTakenOnce
<1>2. /\ IsFiniteSet(Taken)
      /\ Cardinality(Taken) <= Cardinality(Requests)
      /\ Cardinality(Taken) = Cardinality(Requests) => Taken = Requests
  BY RequestsAssumption, FS_Subset, Taken \in SUBSET Requests
<1>3. Cardinality(Taken) \in Nat /\ Cardinality(Requests) \in Nat
  BY <1>2, RequestsAssumption, FS_CardinalityType
<1> HIDE DEF Taken
<1>4. Cardinality(Taken) # Cardinality(Requests)
  BY <1>1, <1>2
<1>5. Cardinality(Taken) + 1 \in 0 .. Cardinality(Requests)
  BY <1>2, <1>3, <1>4
<1> QED
  BY <1>5 DEF Taken

\* Whatever Sigstore answers, the SBOM to be written is well typed.
LEMMA JudgedType ==
  ASSUME TypeOK, NEW r \in Requests, NEW answer \in CosignAnswers
  PROVE  Judged(r, answer) \subseteq Columns
<1>1. CASE answer = "verified"
  BY <1>1 DEF Judged, Columns
<1>2. CASE answer = "invalid"
  <2>1. Judged(r, answer) = {[sbom EXCEPT !.status = "failed", !.by = NoJob]}
    BY <1>2 DEF Judged
  <2>2. [sbom EXCEPT !.status = "failed"] \in Columns
    BY DEF TypeOK, Columns
  <2>3. [[sbom EXCEPT !.status = "failed"] EXCEPT !.by = NoJob] \in Columns
    BY <2>2 DEF Columns
  <2> QED
    BY <2>1, <2>3
<1>3. CASE answer = "unavailable"
  BY <1>3 DEF Judged, TypeOK
<1> QED
  BY <1>1, <1>2, <1>3 DEF CosignAnswers

LEMMA InitInvariant == Init => IInv
<1> SUFFICES ASSUME Init PROVE IInv
  OBVIOUS
<1>1. Cardinality(Requests) \in Nat
  BY RequestsAssumption, FS_CardinalityType
<1>2. Ingested \in Columns
  BY DEF Ingested, Columns
<1>3. 0 \in 0 .. Cardinality(Requests) /\ 0 \in 0 .. MaxFaults
  BY <1>1, FaultsAssumption
<1>4. TypeOK
  BY <1>2, <1>3 DEF Init, TypeOK
<1> QED
  BY <1>4 DEF Init, IInv, TimeIsTakenOnce, VerifiedAtEnd, VerdictsAreBacked,
              VerifiedHasJob, Ingested

\* No query, answer of cosign or death of a task breaks a type.
LEMMA TypingStep ==
  ASSUME TypeOK, TimeIsTakenOnce, [Next]_vars
  PROVE  TypeOK'
<1> USE DEF TypeOK, Goto
<1>1. ASSUME NEW r \in Requests, Refuse(r) \/ Insert(r) \/ Claim(r) PROVE TypeOK'
  BY <1>1 DEF Refuse, Insert, Claim
<1>2. ASSUME NEW r \in Requests, LookUp(r) PROVE TypeOK'
  BY <1>2, TimeIsBounded DEF LookUp
<1>3. ASSUME NEW r \in Requests, Verify(r) PROVE TypeOK'
  BY <1>3, JudgedType DEF Verify
<1>4. ASSUME NEW r \in Requests, SaveJob(r) \/ SaveSbom(r) PROVE TypeOK'
  BY <1>4 DEF SaveJob, SaveSbom, EndJob
<1>5. ASSUME NEW r \in Requests, InsertFails(r) PROVE TypeOK'
  BY <1>5, FaultsAssumption DEF InsertFails, Fault
<1>6. ASSUME NEW r \in Requests, TaskDies(r) PROVE TypeOK'
  BY <1>6, FaultsAssumption DEF TaskDies, Fault, EndJob, InHand
<1>7. CASE UNCHANGED vars
  BY <1>7 DEF vars
<1> QED
  BY <1>1, <1>2, <1>3, <1>4, <1>5, <1>6, <1>7 DEF Next, Step

\* A job that is verified stays so: its task is past the step that ends it.
LEMMA JobsOnlyGrow ==
  ASSUME IInv, [Next]_vars
  PROVE  \A j \in Requests : jobs[j] = "verified" => jobs'[j] = "verified"
<1> SUFFICES ASSUME NEW j \in Requests, jobs[j] = "verified"
             PROVE  jobs'[j] = "verified"
  OBVIOUS
<1> USE DEF IInv, TypeOK, VerifiedAtEnd, Goto
<1>1. pc[j] \in {"save_sbom", "end"}
  OBVIOUS
<1>2. ASSUME NEW r \in Requests, Insert(r) \/ InsertFails(r) \/ Claim(r) PROVE jobs'[j] = "verified"
  BY <1>1, <1>2 DEF Insert, InsertFails, Claim
<1>3. ASSUME NEW r \in Requests, SaveJob(r) PROVE jobs'[j] = "verified"
  BY <1>1, <1>3 DEF SaveJob, EndJob
<1>4. ASSUME NEW r \in Requests, TaskDies(r) PROVE jobs'[j] = "verified"
  BY <1>1, <1>4 DEF TaskDies, EndJob
<1>5. ASSUME NEW r \in Requests, Refuse(r) \/ LookUp(r) \/ Verify(r) \/ SaveSbom(r)
      PROVE jobs'[j] = "verified"
  BY <1>5 DEF Refuse, LookUp, Verify, SaveSbom
<1>6. CASE UNCHANGED vars
  BY <1>6 DEF vars
<1> QED
  BY <1>2, <1>3, <1>4, <1>5, <1>6 DEF Next, Step

LEMMA HistoryStep ==
  ASSUME IInv, [Next]_vars
  PROVE  TimeIsTakenOnce' /\ VerifiedAtEnd'
<1> USE DEF IInv, TypeOK, TimeIsTakenOnce, VerifiedAtEnd, Goto
<1>1. ASSUME NEW r \in Requests, Refuse(r) \/ LookUp(r) \/ Insert(r) \/ Claim(r)
      PROVE  TimeIsTakenOnce' /\ VerifiedAtEnd'
  BY <1>1 DEF Refuse, LookUp, Insert, Claim
<1>2. ASSUME NEW r \in Requests, Verify(r) \/ SaveSbom(r)
      PROVE  TimeIsTakenOnce' /\ VerifiedAtEnd'
  BY <1>2 DEF Verify, SaveSbom
<1>3. ASSUME NEW r \in Requests, SaveJob(r) PROVE TimeIsTakenOnce' /\ VerifiedAtEnd'
  BY <1>3 DEF SaveJob, EndJob
<1>4. ASSUME NEW r \in Requests, InsertFails(r) PROVE TimeIsTakenOnce' /\ VerifiedAtEnd'
  BY <1>4 DEF InsertFails
<1>5. ASSUME NEW r \in Requests, TaskDies(r) PROVE TimeIsTakenOnce' /\ VerifiedAtEnd'
  BY <1>5 DEF TaskDies, EndJob
<1>6. CASE UNCHANGED vars
  BY <1>6 DEF vars
<1> QED
  BY <1>1, <1>2, <1>3, <1>4, <1>5, <1>6 DEF Next, Step

\* What a verdict rests on is there: when cosign answers it is the task's own or
\* that of the SBOM it loaded, and a job is ended before its SBOM is written.
LEMMA VerdictStep ==
  ASSUME IInv, [Next]_vars
  PROVE  VerdictsAreBacked' /\ VerifiedHasJob'
<1> USE DEF IInv, Goto
<1>0. /\ TypeOK'
      /\ \A j \in Requests : jobs[j] = "verified" => jobs'[j] = "verified"
  BY TypingStep, JobsOnlyGrow
<1>1. /\ sbom.by \in Requests \cup {NoJob}
      /\ \A q \in Requests : result[q].by \in Requests \cup {NoJob}
  BY DEF TypeOK, Columns
<1>2. ASSUME UNCHANGED sbom PROVE VerifiedHasJob'
  BY <1>0, <1>1, <1>2 DEF VerifiedHasJob
\* The tasks other than that of r have the verdicts and positions they had.
<1>3. ASSUME NEW r \in Requests, NEW q \in Requests, q # r,
             result'[q] = result[q], outcome'[q] = outcome[q], pc'[q] = pc[q],
             pc'[q] \in {"save_job", "save_sbom"}, result'[q].status = "verified"
      PROVE  /\ result'[q].by # NoJob
             /\ \/ jobs'[result'[q].by] = "verified"
                \/ pc'[q] = "save_job" /\ result'[q].by = q /\ outcome'[q] = "verified"
  BY <1>0, <1>1, <1>3 DEF VerdictsAreBacked
<1>4. ASSUME NEW r \in Requests,
             Refuse(r) \/ LookUp(r) \/ Insert(r) \/ InsertFails(r) \/ Claim(r)
      PROVE  VerdictsAreBacked' /\ VerifiedHasJob'
  <2>1. /\ UNCHANGED <<sbom, result, outcome>>
        /\ pc' = [pc EXCEPT ![r] = pc'[r]] /\ pc'[r] \notin {"save_job", "save_sbom"}
    BY <1>4 DEF Refuse, LookUp, Insert, InsertFails, Claim, TypeOK
  <2> QED
    BY <2>1, <1>2, <1>3 DEF VerdictsAreBacked, TypeOK
<1>5. ASSUME NEW r \in Requests, Verify(r) PROVE VerdictsAreBacked' /\ VerifiedHasJob'
  <2>0. PICK answer \in CosignAnswers :
          /\ outcome' = [outcome EXCEPT ![r] = answer]
          /\ \E judged \in Judged(r, answer) : result' = [result EXCEPT ![r] = judged]
    BY <1>5 DEF Verify
  <2>1. PICK judged \in Judged(r, answer) : result' = [result EXCEPT ![r] = judged]
    BY <2>0
  <2>2. /\ UNCHANGED <<sbom, jobs>> /\ pc' = [pc EXCEPT ![r] = "save_job"]
        /\ result'[r] = judged /\ outcome'[r] = answer /\ pc'[r] = "save_job"
    BY <1>5, <2>0, <2>1 DEF Verify, TypeOK
  <2>3. ASSUME judged.status = "verified"
        PROVE  /\ judged.by # NoJob
               /\ jobs'[judged.by] = "verified" \/ (judged.by = r /\ answer = "verified")
    <3>1. CASE answer = "verified"
      BY <3>1, NoJobAssumption DEF Judged
    <3>2. CASE answer = "invalid"
      <4>1. judged = [sbom EXCEPT !.status = "failed", !.by = NoJob]
        BY <3>2 DEF Judged
      <4>2. judged.status = "failed"
        BY <4>1 DEF TypeOK, Columns
      <4> QED
        BY <2>3, <4>2
    <3>3. CASE answer = "unavailable"
      <4>1. judged = sbom
        BY <3>3 DEF Judged
      <4> QED
        BY <2>2, <2>3, <4>1 DEF VerifiedHasJob
    <3> QED
      BY <3>1, <3>2, <3>3 DEF CosignAnswers
  <2>4. \A q \in Requests : q # r =>
          result'[q] = result[q] /\ outcome'[q] = outcome[q] /\ pc'[q] = pc[q]
    BY <2>0, <2>1, <2>2 DEF TypeOK
  <2> QED
    BY <1>2, <1>3, <2>2, <2>3, <2>4 DEF VerdictsAreBacked
<1>6. ASSUME NEW r \in Requests, SaveJob(r) PROVE VerdictsAreBacked' /\ VerifiedHasJob'
  <2>1. /\ UNCHANGED <<sbom, result, outcome>> /\ pc' = [pc EXCEPT ![r] = "save_sbom"]
        /\ pc[r] = "save_job" /\ jobs' = EndJob(r)
    BY <1>6 DEF SaveJob
  <2>2. outcome[r] = "verified" => jobs'[r] = "verified"
    BY <2>1 DEF EndJob, TypeOK
  <2>3. result[r].status = "verified" =>
          result[r].by # NoJob /\ jobs'[result[r].by] = "verified"
    BY <1>0, <1>1, <2>1, <2>2 DEF VerdictsAreBacked
  <2> QED
    BY <1>2, <1>3, <2>1, <2>3 DEF VerdictsAreBacked, TypeOK
<1>7. ASSUME NEW r \in Requests, pc[r] = "save_sbom", sbom' = result[r] PROVE VerifiedHasJob'
  BY <1>0, <1>1, <1>7 DEF VerdictsAreBacked, VerifiedHasJob
<1>8. ASSUME NEW r \in Requests, SaveSbom(r) \/ TaskDies(r)
      PROVE  VerdictsAreBacked' /\ VerifiedHasJob'
  <2>1. /\ UNCHANGED <<result, outcome>> /\ pc' = [pc EXCEPT ![r] = "end"]
        /\ UNCHANGED sbom \/ (pc[r] = "save_sbom" /\ sbom' = result[r])
    BY <1>8 DEF SaveSbom, TaskDies
  <2>2. VerifiedHasJob'
    BY <1>2, <1>7, <2>1
  <2> QED
    BY <1>3, <2>1, <2>2 DEF VerdictsAreBacked, TypeOK
<1>9. CASE UNCHANGED vars
  BY <1>9 DEF vars, VerdictsAreBacked, VerifiedHasJob
<1> QED
  BY <1>4, <1>5, <1>6, <1>8, <1>9 DEF Next, Step

-----------------------------------------------------------------------------
\* The conjunction that steps preserve (the use case reads, calls cosign, and
\* writes the job before the SBOM, verify_sbom_signature.py:353-421).
THEOREM Invariance == Spec => []IInv
<1>1. ASSUME IInv, [Next]_vars PROVE IInv'
  <2>1. TypeOK'
    BY <1>1, TypingStep DEF IInv
  <2> QED
    BY <1>1, <2>1, HistoryStep, VerdictStep DEF IInv
<1> QED
  BY InitInvariant, <1>1, PTL DEF Spec

\* The rows of jobs and SBOMs and the states of requests keep their types.
THEOREM Typing == Spec => []TypeOK
<1>1. IInv => TypeOK
  BY DEF IInv
<1> QED
  BY Invariance, <1>1, PTL

\* An SBOM that the resolver trusts as verified names a job that says so, however
\* many requests overlap, queries fail and tasks die (SaveJob before SaveSbom).
THEOREM VerdictHasJob == Spec => []VerifiedHasJob
<1>1. IInv => VerifiedHasJob
  BY DEF IInv
<1> QED
  BY Invariance, <1>1, PTL

-----------------------------------------------------------------------------
(* Component mapping.  What the service reads stays true of the documents  *)
(* it read, though their verdicts change before it answers.                *)

\* The records that were read for an event are of its tenant and image.
ReadsAreOwn ==
  \A e \in Mapped : asking[e] # Missing =>
    \A d \in DOMAIN asking[e] :
      /\ d \in Docs /\ verdict[d] # "absent"
      /\ Documents[d].tenant = sent[e].tenant /\ Documents[d].image = sent[e].image

MappingShape ==
  /\ asking = [e \in Mapped |-> asking[e]]
  /\ reply = [e \in Mapped |-> reply[e]]
  /\ attributed = [e \in Mapped |-> attributed[e]]
  /\ verdict = [d \in Docs |-> verdict[d]]
  /\ \A d \in Docs : verdict[d] \in {"absent", "pending", "verified", "failed"}

\* An event is asked for, answered or stored, one at a time.
StoredIsSettled ==
  \A e \in Mapped :
    /\ attributed[e] # Missing => asking[e] = Missing /\ reply[e] = Missing
    /\ reply[e] # Missing => asking[e] = Missing

MappingInv == MappingShape /\ ReadsAreOwn /\ StoredIsSettled

\* Exactly one member.
LEMMA OneMember ==
  ASSUME NEW S, IsFiniteSet(S), Cardinality(S) = 1
  PROVE  S = {CHOOSE x \in S : TRUE}
<1>1. PICK x : S = {x}
  BY FS_Singleton
<1>2. QED
  BY <1>1

\* The binding of a document that is bound names the one component with the hash.
LEMMA BoundByHash ==
  ASSUME NEW e, NEW d \in Docs, Payload(e, d).purl # Missing
  PROVE  /\ Payload(e, d).status = "bound" /\ Payload(e, d).sbom = d
         /\ WithHash(d, sent[e].hash) = {Payload(e, d).purl}
<1>1. MappingStatus(e, d) = "verified"
      /\ Payload(e, d) = Binding("bound", d, CHOOSE c \in Candidates(e, d) : TRUE)
  BY DEF Payload, Binding
<1>2. HashTier(e, d) # {} /\ ~(Cardinality(Candidates(e, d)) > 1)
  BY <1>1 DEF MappingStatus
<1>3. Candidates(e, d) = WithHash(d, sent[e].hash)
  BY <1>2 DEF Candidates, HashTier
<1>4. IsFiniteSet(WithHash(d, sent[e].hash))
  <2>1. IsFiniteSet(Purls(d)) /\ WithHash(d, sent[e].hash) \subseteq Purls(d)
    BY MappingPaths DEF Purls, Docs, WithHash
  <2>2. QED
    BY <2>1, FS_Subset
<1>5. Cardinality(WithHash(d, sent[e].hash)) = 1
  BY <1>2, <1>3, <1>4, FS_CardinalityType, FS_EmptySet DEF HashTier
<1>6. QED
  BY <1>1, <1>3, <1>4, <1>5, OneMember DEF Binding

LEMMA MappingStart == MappingInit => MappingInv
BY DEF MappingInit, Before, MappingInv, MappingShape, ReadsAreOwn, StoredIsSettled, Mapped

\* What a step may reply and store (NamedIsIdentified, for one event).
WellNamed(e) ==
  /\ reply'[e] # reply[e] /\ reply'[e] # Missing /\ reply'[e].purl # Missing
       /\ reply'[e] # sent[e].binding =>
       LET binding == reply'[e]
       IN /\ asking[e] # Missing /\ binding.status = "bound" /\ verdict[binding.sbom] # "absent"
          /\ {d \in DOMAIN asking[e] : asking[e][d] = "verified"} = {binding.sbom}
          /\ Documents[binding.sbom].tenant = sent[e].tenant
          /\ Documents[binding.sbom].image = sent[e].image
          /\ {c \in Purls(binding.sbom) : sent[e].hash \in Documents[binding.sbom].hashes[c]}
               = {binding.purl}
  /\ attributed[e] # Missing => attributed'[e] = attributed[e]

LEMMA MappingStep ==
  ASSUME MappingInv, [MappingNext]_mappingVars
  PROVE  MappingInv' /\ \A e \in Mapped : WellNamed(e)
<1> USE DEF MappingInv
<1>1. CASE UNCHANGED mappingVars
  BY <1>1 DEF mappingVars, MappingShape, ReadsAreOwn, StoredIsSettled, WellNamed, Mapped
<1>2. ASSUME NEW d \in Docs, NEW v \in {"pending", "verified", "failed"},
             Upload(d) \/ Judge(d, v)
      PROVE  MappingInv' /\ \A e \in Mapped : WellNamed(e)
  <2>1. /\ UNCHANGED <<sent, asking, reply, attributed>>
        /\ \E w \in {"pending", "verified", "failed"} : verdict' = [verdict EXCEPT ![d] = w]
    BY <1>2 DEF Upload, Judge
  <2>2. MappingShape'
    BY <2>1 DEF MappingShape, Mapped
  <2>3. ReadsAreOwn'
    BY <2>1 DEF ReadsAreOwn, MappingShape, Mapped
  <2>4. QED
    BY <2>1, <2>2, <2>3 DEF StoredIsSettled, WellNamed, Mapped
<1>3. ASSUME NEW e \in Mapped, Ask(e)
      PROVE  MappingInv' /\ \A f \in Mapped : WellNamed(f)
  <2>1. /\ asking' = [asking EXCEPT ![e] = [d \in RecordsOf(e) |-> verdict[d]]]
        /\ UNCHANGED <<sent, verdict, reply, attributed>>
        /\ attributed[e] = Missing /\ reply[e] = Missing
    BY <1>3 DEF Ask
  <2>2. MappingShape' /\ StoredIsSettled'
    BY <2>1 DEF MappingShape, StoredIsSettled, Mapped
  <2>3. ReadsAreOwn'
    <3>1. asking'[e] = [d \in RecordsOf(e) |-> verdict[d]] /\ \A f \in Mapped \ {e} : asking'[f] = asking[f]
      BY <2>1 DEF MappingShape
    <3>2. ASSUME NEW d \in DOMAIN asking'[e]
          PROVE  /\ d \in Docs /\ verdict[d] # "absent"
                 /\ Documents[d].tenant = sent[e].tenant /\ Documents[d].image = sent[e].image
      BY <3>1, <3>2 DEF RecordsOf
    <3>3. ASSUME NEW f \in Mapped \ {e}, asking'[f] # Missing, NEW d \in DOMAIN asking'[f]
          PROVE  /\ d \in Docs /\ verdict[d] # "absent"
                 /\ Documents[d].tenant = sent[f].tenant /\ Documents[d].image = sent[f].image
      BY <3>1, <3>3 DEF ReadsAreOwn
    <3>4. UNCHANGED <<sent, verdict>>
      BY <2>1
    <3>5. ASSUME NEW f \in Mapped, asking'[f] # Missing, NEW d \in DOMAIN asking'[f]
          PROVE  /\ d \in Docs /\ verdict'[d] # "absent"
                 /\ Documents[d].tenant = sent'[f].tenant /\ Documents[d].image = sent'[f].image
      <4>1. CASE f = e
        BY <3>2, <3>4, <3>5, <4>1
      <4>2. CASE f # e
        BY <3>3, <3>4, <3>5, <4>2
      <4>3. QED
        BY <4>1, <4>2
    <3>6. QED
      BY <3>4, <3>5 DEF ReadsAreOwn, Mapped
  <2>4. \A f \in Mapped : WellNamed(f)
    BY <2>1 DEF WellNamed
  <2>5. QED
    BY <2>2, <2>3, <2>4
<1>4. ASSUME NEW e \in Mapped, Resolve(e)
      PROVE  MappingInv' /\ \A f \in Mapped : WellNamed(f)
  <2> DEFINE usable == OnlyVerified(asking[e])
             d == CHOOSE x \in usable : TRUE
             found == IF Cardinality(usable) = 1 THEN Payload(e, d)
                      ELSE IF DOMAIN asking[e] = {} THEN Binding("unbound", Missing, Missing)
                      ELSE Insufficient
  <2>1. /\ asking[e] # Missing /\ reply' = [reply EXCEPT ![e] = found]
        /\ asking' = [asking EXCEPT ![e] = Missing] /\ UNCHANGED <<sent, verdict, attributed>>
    BY <1>4 DEF Resolve
  <2>2. attributed[e] = Missing
    BY <2>1 DEF StoredIsSettled
  <2> HIDE DEF found
  <2>3. MappingInv'
    <3>1. MappingShape'
      BY <2>1 DEF MappingShape, Mapped
    <3>2. StoredIsSettled'
      BY <2>1, <2>2 DEF MappingShape, StoredIsSettled, Mapped
    <3>3. ReadsAreOwn'
      BY <2>1 DEF MappingShape, ReadsAreOwn, Mapped
    <3>4. QED
      BY <3>1, <3>2, <3>3
  <2>4. reply'[e] = found /\ \A f \in Mapped \ {e} : reply'[f] = reply[f]
    BY <2>1 DEF MappingShape
  <2>5. ASSUME found.purl # Missing
        PROVE  /\ found.status = "bound" /\ usable = {found.sbom}
               /\ WithHash(found.sbom, sent[e].hash) = {found.purl}
    <3>1. Cardinality(usable) = 1 /\ found = Payload(e, d)
      BY <2>5 DEF found, Binding, Insufficient
    <3>2. usable \subseteq Docs /\ IsFiniteSet(usable)
      <4>1. DOMAIN asking[e] \subseteq Docs
        BY <2>1 DEF ReadsAreOwn
      <4>2. usable \subseteq Docs
        BY <4>1 DEF OnlyVerified
      <4>3. QED
        BY <4>2, FS_Subset, MappingPaths DEF Docs
    <3>3. usable = {d}
      BY <3>1, <3>2, OneMember
    <3>4. d \in Docs
      BY <3>2, <3>3
    <3> HIDE DEF d, usable
    <3>5. /\ Payload(e, d).status = "bound" /\ Payload(e, d).sbom = d
          /\ WithHash(d, sent[e].hash) = {Payload(e, d).purl}
      BY <2>5, <3>1, <3>4, BoundByHash
    <3>6. QED
      BY <3>1, <3>3, <3>5
  <2>6. ASSUME found.purl # Missing
        PROVE  /\ verdict[found.sbom] # "absent"
               /\ Documents[found.sbom].tenant = sent[e].tenant
               /\ Documents[found.sbom].image = sent[e].image
    <3>1. found.sbom \in DOMAIN asking[e]
      BY <2>5, <2>6 DEF OnlyVerified
    <3>2. QED
      BY <2>1, <3>1 DEF ReadsAreOwn
  <2>7. WellNamed(e)
    BY <2>1, <2>4, <2>5, <2>6 DEF WellNamed, OnlyVerified, WithHash
  <2>8. \A f \in Mapped \ {e} : WellNamed(f)
    BY <2>1, <2>4 DEF WellNamed
  <2>9. QED
    BY <2>3, <2>7, <2>8
<1>5. ASSUME NEW e \in Mapped, Abstain(e) \/ Lose(e)
      PROVE  MappingInv' /\ \A f \in Mapped : WellNamed(f)
  <2>1. PICK b \in {Insufficient, Missing} : reply' = [reply EXCEPT ![e] = b]
    BY <1>5 DEF Abstain, Lose
  <2>2. /\ attributed[e] = Missing /\ asking' = [asking EXCEPT ![e] = Missing]
        /\ UNCHANGED <<sent, verdict, attributed>>
    BY <1>5 DEF Abstain, Lose
  <2>3. MappingInv'
    <3>1. MappingShape'
      BY <2>1, <2>2 DEF MappingShape, Mapped
    <3>2. StoredIsSettled'
      BY <2>1, <2>2 DEF MappingShape, StoredIsSettled, Mapped
    <3>3. ReadsAreOwn'
      BY <2>1, <2>2 DEF MappingShape, ReadsAreOwn, Mapped
    <3>4. QED
      BY <3>1, <3>2, <3>3
  <2>4. b # Missing => b.purl = Missing
    BY <2>1 DEF Insufficient, Binding
  <2>5. QED
    BY <2>1, <2>2, <2>3, <2>4 DEF WellNamed, MappingShape
<1>6. ASSUME NEW e \in Mapped, Store(e)
      PROVE  MappingInv' /\ \A f \in Mapped : WellNamed(f)
  <2>1. /\ reply[e] # Missing /\ attributed' = [attributed EXCEPT ![e] = reply[e]]
        /\ reply' = [reply EXCEPT ![e] = Missing] /\ UNCHANGED <<sent, verdict, asking>>
    BY <1>6 DEF Store
  <2>2. attributed[e] = Missing
    BY <2>1 DEF StoredIsSettled
  <2>3. asking[e] = Missing
    BY <2>1 DEF StoredIsSettled
  <2>4. MappingInv'
    BY <2>1, <2>2, <2>3 DEF MappingShape, StoredIsSettled, ReadsAreOwn, Mapped
  <2>5. QED
    BY <2>1, <2>2, <2>4 DEF WellNamed, MappingShape
<1>7. ASSUME NEW e \in Mapped, Supply(e)
      PROVE  MappingInv' /\ \A f \in Mapped : WellNamed(f)
  <2>1. /\ attributed[e] = Missing /\ reply' = [reply EXCEPT ![e] = sent[e].binding]
        /\ UNCHANGED <<sent, verdict, asking, attributed>>
    BY <1>7 DEF Supply
  <2>2. asking[e] = Missing
    BY <1>7 DEF Supply
  <2>3. MappingInv'
    BY <2>1, <2>2 DEF MappingShape, StoredIsSettled, ReadsAreOwn, Mapped
  <2>4. QED
    BY <2>1, <2>3 DEF WellNamed, MappingShape
<1>8. QED
  BY <1>1, <1>2, <1>3, <1>4, <1>5, <1>6, <1>7 DEF MappingNext

\* NamedIsIdentified: to_causal_binding_payload names a component for the hash tier
\* only, and map_runtime_binding asks for exactly one verified record.
THEOREM NamesAreIdentified == MappingSpec => NamedIsIdentified
<1> DEFINE A == \A e \in Mapped : WellNamed(e)
<1>1. MappingInv /\ [MappingNext]_mappingVars => MappingInv' /\ [A]_mappingVars
  BY MappingStep
<1>2. MappingSpec => [][A]_mappingVars
  BY <1>1, MappingStart, PTL DEF MappingSpec
<1>3. QED
  BY <1>2, PTL DEF NamedIsIdentified, WellNamed

-----------------------------------------------------------------------------
(* The verdict that stands: without faults and overlaps, jobs follow one   *)
(* another, and each leaves its verdict in the SBOM.                       *)

Calm == faults = 0 /\ ~overlapped

Working(r) == pc[r] = "insert" \/ InHand(r)

\* Each request that took the time took a later one than those before it.
TimesAreCounted ==
  \A r \in Requests : submittedAt[r] <= Cardinality({k \in Requests : submittedAt[k] > 0})

AnsweredLate ==
  \A r \in Requests : outcome[r] # "none" => pc[r] \in {"save_job", "save_sbom", "end"}

\* One request works at a time, and it is the newest.
OneWorks ==
  \A r \in Requests : Working(r) =>
    \A k \in Requests \ {r} : ~Working(k) /\ submittedAt[k] < submittedAt[r]

\* The SBOM has the columns that the job's answer gives it.
Tells(row, j) ==
  \/ outcome[j] = "verified" /\ row.status = "verified" /\ row.by = j
  \/ outcome[j] = "invalid" /\ row.status = "failed" /\ row.by = NoJob

WritesOwn ==
  \A r \in Requests : pc[r] \in {"save_job", "save_sbom"} =>
    \/ outcome[r] \in {"verified", "invalid"} /\ Tells(result[r], r)
    \/ outcome[r] = "unavailable" /\ result[r] = sbom

\* The jobs whose answer is in the SBOM, or was.
Settled == {r \in Requests : pc[r] = "end" /\ outcome[r] \in {"verified", "invalid"}}

ShowsLast ==
  \/ Settled = {} /\ sbom = Ingested
  \/ \E j \in Settled : /\ \A k \in Settled \ {j} : submittedAt[k] < submittedAt[j]
                        /\ Tells(sbom, j)

CalmInv ==
  TimesAreCounted /\ AnsweredLate /\ (Calm => OneWorks /\ WritesOwn /\ ShowsLast)

\* The time a look-up takes is later than all others.
LEMMA LookUpIsLatest ==
  ASSUME IInv, IInv', TimesAreCounted, NEW r \in Requests, LookUp(r)
  PROVE  /\ TimesAreCounted'
         /\ \A k \in Requests \ {r} :
              submittedAt'[k] = submittedAt[k] /\ submittedAt'[k] < submittedAt'[r]
<1> DEFINE Taken == {k \in Requests : submittedAt[k] > 0}
           n == Cardinality(Taken)
<1>1. /\ pc[r] = "new" /\ submittedAt' = [submittedAt EXCEPT ![r] = n + 1]
  BY DEF LookUp, Goto
<1>2. submittedAt \in [Requests -> 0 .. Cardinality(Requests)]
  BY DEF IInv, TypeOK
<1>3. IsFiniteSet(Taken) /\ Taken \subseteq Requests
  BY RequestsAssumption, FS_Subset
<1>4. n \in Nat /\ Cardinality(Requests) \in Nat
  BY <1>3, RequestsAssumption, FS_CardinalityType
<1>5. r \notin Taken
  BY <1>1 DEF IInv, TimeIsTakenOnce
<1>6. \A k \in Requests : submittedAt[k] \in Int /\ submittedAt[k] <= n
  BY <1>2, <1>4 DEF TimesAreCounted
<1>7. /\ submittedAt'[r] = n + 1
      /\ \A k \in Requests \ {r} : submittedAt'[k] = submittedAt[k]
  BY <1>1, <1>2
<1> HIDE DEF n
<1>8. {k \in Requests : submittedAt'[k] > 0} = Taken \cup {r}
  BY <1>4, <1>7
<1>9. Cardinality(Taken \cup {r}) = n + 1
  BY <1>3, <1>5, FS_AddElement DEF n
<1>10. TimesAreCounted'
  <2>1. \A k \in Requests : submittedAt'[k] <= n + 1
    BY <1>4, <1>6, <1>7
  <2>2. QED
    BY <1>8, <1>9, <2>1 DEF TimesAreCounted
<1>11. QED
  BY <1>4, <1>6, <1>7, <1>10

\* A step of r that makes no verdict and writes no SBOM.
LEMMA CalmQuiet ==
  ASSUME IInv, CalmInv, NEW r \in Requests,
         UNCHANGED <<submittedAt, sbom, outcome, result, overlapped>>,
         faults' = 0 => faults = 0,
         \A k \in Requests \ {r} : pc'[k] = pc[k],
         Working(r)' => Working(r),
         outcome[r] \in {"none"} \/ (pc'[r] = "save_sbom" /\ pc[r] = "save_job"),
         pc'[r] \in {"save_job", "save_sbom"} => pc[r] = "save_job"
  PROVE  CalmInv'
<1>1. TimesAreCounted'
  BY DEF CalmInv, TimesAreCounted
<1>2. AnsweredLate'
  BY DEF CalmInv, AnsweredLate
<1>3. ASSUME Calm'
      PROVE  OneWorks' /\ WritesOwn' /\ ShowsLast'
  <2>1. Calm /\ OneWorks /\ WritesOwn /\ ShowsLast
    BY <1>3 DEF Calm, CalmInv
  <2>2. \A k \in Requests : Working(k)' => Working(k)
    BY DEF Working, InHand
  <2>3. OneWorks'
    BY <2>1, <2>2 DEF OneWorks
  <2>4. \A k \in Requests : pc'[k] \in {"save_job", "save_sbom"} => pc[k] \in {"save_job", "save_sbom"}
    OBVIOUS
  <2>5. WritesOwn'
    BY <2>1, <2>4 DEF WritesOwn, Tells
  <2>6. Settled' = Settled
    BY DEF Settled
  <2>7. ShowsLast'
    BY <2>1, <2>6 DEF ShowsLast, Tells, Ingested
  <2>8. QED
    BY <2>3, <2>5, <2>7
<1>4. QED
  BY <1>1, <1>2, <1>3 DEF CalmInv

LEMMA CalmLookUp ==
  ASSUME IInv, IInv', CalmInv, NEW r \in Requests, LookUp(r)
  PROVE  CalmInv'
<1>1. /\ pc[r] = "new" /\ pc' = [pc EXCEPT ![r] = "insert"]
      /\ UNCHANGED <<jobs, sbom, outcome, result, faults>>
      /\ overlapped' = (overlapped \/ \E k \in Requests : pc[k] = "insert" \/ InHand(k))
  BY DEF LookUp, Goto
<1>2. /\ TimesAreCounted'
      /\ \A k \in Requests \ {r} :
           submittedAt'[k] = submittedAt[k] /\ submittedAt'[k] < submittedAt'[r]
  BY LookUpIsLatest DEF CalmInv
<1>3. pc'[r] = "insert" /\ \A k \in Requests \ {r} : pc'[k] = pc[k]
  BY <1>1 DEF IInv, TypeOK
<1>4. outcome[r] = "none"
  BY <1>1 DEF CalmInv, AnsweredLate
<1>5. AnsweredLate'
  BY <1>1, <1>3, <1>4 DEF CalmInv, AnsweredLate
<1>6. ASSUME Calm'
      PROVE  OneWorks' /\ WritesOwn' /\ ShowsLast'
  <2>1. Calm /\ \A k \in Requests : ~Working(k)
    BY <1>1, <1>6 DEF Calm, Working
  <2>2. OneWorks /\ WritesOwn /\ ShowsLast
    BY <2>1 DEF CalmInv
  <2>3. \A k \in Requests \ {r} : ~Working(k)'
    BY <1>3, <2>1 DEF Working, InHand
  <2>4. OneWorks'
    BY <1>2, <2>3 DEF OneWorks
  <2>5. WritesOwn'
    BY <1>1, <1>3, <2>2 DEF WritesOwn, Tells
  <2>6. Settled' = Settled /\ r \notin Settled
    BY <1>1, <1>3 DEF Settled
  <2>7. \A k \in Settled : submittedAt'[k] = submittedAt[k] /\ k \in Requests
    BY <1>2, <2>6 DEF Settled
  <2>8. ShowsLast'
    BY <1>1, <2>2, <2>6, <2>7 DEF ShowsLast, Tells, Ingested
  <2>9. QED
    BY <2>4, <2>5, <2>8
<1>7. QED
  BY <1>2, <1>5, <1>6 DEF CalmInv

LEMMA CalmVerify ==
  ASSUME IInv, CalmInv, NEW r \in Requests, Verify(r)
  PROVE  CalmInv'
<1>1. /\ pc[r] = "verify" /\ pc' = [pc EXCEPT ![r] = "save_job"]
      /\ UNCHANGED <<jobs, submittedAt, sbom, faults, overlapped>>
  BY DEF Verify, Goto
<1>2. PICK answer \in CosignAnswers :
        /\ outcome' = [outcome EXCEPT ![r] = answer]
        /\ \E judged \in Judged(r, answer) : result' = [result EXCEPT ![r] = judged]
  BY DEF Verify
<1>3. PICK judged \in Judged(r, answer) : result' = [result EXCEPT ![r] = judged]
  BY <1>2
<1>4. /\ pc'[r] = "save_job" /\ outcome'[r] = answer /\ result'[r] = judged
      /\ \A k \in Requests \ {r} :
           pc'[k] = pc[k] /\ outcome'[k] = outcome[k] /\ result'[k] = result[k]
  BY <1>1, <1>2, <1>3 DEF IInv, TypeOK
<1>5. TimesAreCounted'
  BY <1>1 DEF CalmInv, TimesAreCounted
<1>6. AnsweredLate'
  BY <1>4 DEF CalmInv, AnsweredLate
<1>7. ASSUME Calm'
      PROVE  OneWorks' /\ WritesOwn' /\ ShowsLast'
  <2>1. Calm /\ OneWorks /\ WritesOwn /\ ShowsLast
    BY <1>1, <1>7 DEF Calm, CalmInv
  <2>2. \A k \in Requests : Working(k)' => Working(k)
    BY <1>1, <1>4 DEF Working, InHand
  <2>3. OneWorks'
    BY <1>1, <2>1, <2>2 DEF OneWorks
  <2>4. \/ answer \in {"verified", "invalid"} /\ Tells(judged, r)'
        \/ answer = "unavailable" /\ judged = sbom
    <3>1. CASE answer = "verified"
      BY <1>4, <3>1 DEF Judged, Tells
    <3>2. CASE answer = "invalid"
      <4>1. judged = [sbom EXCEPT !.status = "failed", !.by = NoJob]
        BY <3>2 DEF Judged
      <4>2. judged.status = "failed" /\ judged.by = NoJob
        BY <4>1 DEF IInv, TypeOK, Columns
      <4>3. QED
        BY <1>4, <3>2, <4>2 DEF Tells
    <3>3. CASE answer = "unavailable"
      BY <3>3 DEF Judged
    <3>4. QED
      BY <3>1, <3>2, <3>3 DEF CosignAnswers
  <2>5. WritesOwn'
    BY <1>1, <1>4, <2>1, <2>4 DEF WritesOwn, Tells
  <2>6. Settled' = Settled /\ r \notin Settled
    BY <1>1, <1>4 DEF Settled
  <2>7. \A k \in Settled : outcome'[k] = outcome[k]
    BY <1>4, <2>6 DEF Settled
  <2>8. ShowsLast'
    BY <1>1, <2>1, <2>6, <2>7 DEF ShowsLast, Tells, Ingested
  <2>9. QED
    BY <2>3, <2>5, <2>8
<1>8. QED
  BY <1>5, <1>6, <1>7 DEF CalmInv

LEMMA CalmSaveSbom ==
  ASSUME IInv, CalmInv, NEW r \in Requests, SaveSbom(r)
  PROVE  CalmInv'
<1>1. /\ pc[r] = "save_sbom" /\ pc' = [pc EXCEPT ![r] = "end"] /\ sbom' = result[r]
      /\ UNCHANGED <<jobs, submittedAt, outcome, result, faults, overlapped>>
  BY DEF SaveSbom, Goto
<1>2. pc'[r] = "end" /\ \A k \in Requests \ {r} : pc'[k] = pc[k]
  BY <1>1 DEF IInv, TypeOK
<1>3. TimesAreCounted'
  BY <1>1 DEF CalmInv, TimesAreCounted
<1>4. AnsweredLate'
  BY <1>1, <1>2 DEF CalmInv, AnsweredLate
<1>5. ASSUME Calm'
      PROVE  OneWorks' /\ WritesOwn' /\ ShowsLast'
  <2>1. Calm /\ OneWorks /\ WritesOwn /\ ShowsLast
    BY <1>1, <1>5 DEF Calm, CalmInv
  <2>2. \A k \in Requests \ {r} : ~Working(k) /\ submittedAt[k] < submittedAt[r]
    BY <1>1, <2>1 DEF OneWorks, Working, InHand
  <2>3. \A k \in Requests : ~Working(k)'
    BY <1>2, <2>2 DEF Working, InHand
  <2>4. OneWorks' /\ WritesOwn'
    BY <2>3 DEF OneWorks, WritesOwn, Working, InHand
  <2>5. ShowsLast'
    <3>1. CASE outcome[r] \in {"verified", "invalid"} /\ Tells(result[r], r)
      <4>1. Settled' = Settled \cup {r}
        BY <1>1, <1>2, <3>1 DEF Settled
      <4>2. r \in Settled' /\ \A k \in Settled' \ {r} : submittedAt'[k] < submittedAt'[r]
        BY <1>1, <2>2, <4>1 DEF Settled
      <4>3. Tells(sbom, r)'
        BY <1>1, <3>1 DEF Tells
      <4>4. QED
        BY <4>2, <4>3 DEF ShowsLast
    <3>2. CASE outcome[r] = "unavailable" /\ result[r] = sbom
      <4>1. Settled' = Settled /\ sbom' = sbom
        BY <1>1, <1>2, <3>2 DEF Settled
      <4>2. QED
        BY <1>1, <2>1, <4>1 DEF ShowsLast, Tells, Ingested
    <3>3. QED
      BY <1>1, <2>1, <3>1, <3>2 DEF WritesOwn
  <2>6. QED
    BY <2>4, <2>5
<1>6. QED
  BY <1>3, <1>4, <1>5 DEF CalmInv

\* After a fault nothing is said but of the times.
LEMMA CalmFault ==
  ASSUME IInv, CalmInv, NEW r \in Requests, InsertFails(r) \/ TaskDies(r)
  PROVE  CalmInv'
<1>1. /\ faults' = faults + 1 /\ UNCHANGED <<submittedAt, outcome, overlapped>>
      /\ pc' = [pc EXCEPT ![r] = "end"]
  BY DEF InsertFails, TaskDies, Fault, Goto
<1>2. faults \in Nat
  BY FaultsAssumption DEF IInv, TypeOK
<1>3. ~Calm'
  BY <1>1, <1>2 DEF Calm
<1>4. TimesAreCounted'
  BY <1>1 DEF CalmInv, TimesAreCounted
<1>5. AnsweredLate'
  BY <1>1 DEF CalmInv, AnsweredLate, IInv, TypeOK
<1>6. QED
  BY <1>3, <1>4, <1>5 DEF CalmInv

LEMMA CalmStep ==
  ASSUME IInv, IInv', CalmInv, [Next]_vars
  PROVE  CalmInv'
<1>1. ASSUME NEW r \in Requests, Refuse(r) \/ Insert(r) \/ Claim(r)
      PROVE  CalmInv'
  <2>1. /\ UNCHANGED <<submittedAt, sbom, outcome, result, overlapped, faults>>
        /\ \A k \in Requests \ {r} : pc'[k] = pc[k]
        /\ pc[r] \in {"new", "insert", "claim"} /\ pc'[r] \in {"claim", "verify", "end"}
        /\ pc'[r] # "end" => pc[r] \in {"insert", "claim"}
    BY <1>1 DEF Refuse, Insert, Claim, Goto, IInv, TypeOK
  <2>2. outcome[r] = "none"
    BY <2>1 DEF CalmInv, AnsweredLate
  <2>3. Working(r)' => Working(r)
    BY <2>1 DEF Working, InHand
  <2>4. QED
    BY <2>1, <2>2, <2>3, CalmQuiet
<1>2. ASSUME NEW r \in Requests, SaveJob(r)
      PROVE  CalmInv'
  <2>1. /\ UNCHANGED <<submittedAt, sbom, outcome, result, overlapped, faults>>
        /\ \A k \in Requests \ {r} : pc'[k] = pc[k]
        /\ pc[r] = "save_job" /\ pc'[r] = "save_sbom"
    BY <1>2 DEF SaveJob, Goto, IInv, TypeOK
  <2>2. Working(r)' => Working(r)
    BY <2>1 DEF Working, InHand
  <2>3. QED
    BY <2>1, <2>2, CalmQuiet
<1>3. CASE UNCHANGED vars
  BY <1>3 DEF vars, CalmInv, Calm, TimesAreCounted, AnsweredLate, OneWorks, WritesOwn, ShowsLast,
       Working, InHand, Tells, Settled, Ingested
<1>4. QED
  BY <1>1, <1>2, <1>3, CalmLookUp, CalmVerify, CalmSaveSbom, CalmFault DEF Next, Step

\* The last of the answers is in the SBOM when all is quiet and nothing failed or
\* overlapped: what one job wrote is not undone by another, nor by an unavailable
\* service (RunVerificationUseCase writes the job, then the SBOM as it loaded it).
THEOREM VerdictAlwaysStands == Spec => []VerdictStands
<1>1. Init => CalmInv
  <2>1. SUFFICES ASSUME Init PROVE CalmInv
    OBVIOUS
  <2>2. TimesAreCounted
    <3>1. {k \in Requests : submittedAt[k] > 0} = {} /\ \A r \in Requests : submittedAt[r] = 0
      BY <2>1 DEF Init
    <3>2. QED
      BY <3>1, FS_EmptySet DEF TimesAreCounted
  <2>3. QED
    BY <2>1, <2>2 DEF Init, CalmInv, AnsweredLate, OneWorks, WritesOwn, ShowsLast, Working,
       InHand, Settled
<1>2. IInv /\ CalmInv => VerdictStands
  <2>1. SUFFICES ASSUME IInv, CalmInv, Quiescent, Calm
                 PROVE  LET Answered == {r \in Requests : outcome[r] \in {"verified", "invalid"}}
                        IN IF Answered = {} THEN sbom = Ingested
                           ELSE LET last == Newest(Answered)
                                IN IF outcome[last] = "verified"
                                     THEN sbom.status = "verified" /\ sbom.by = last
                                   ELSE sbom.status = "failed" /\ sbom.by = NoJob
    BY DEF VerdictStands, Calm
  <2>2. Settled = {r \in Requests : outcome[r] \in {"verified", "invalid"}}
    BY <2>1 DEF Settled, Quiescent
  <2>3. ShowsLast
    BY <2>1 DEF CalmInv
  <2>4. CASE Settled = {}
    BY <2>2, <2>3, <2>4 DEF ShowsLast
  <2>5. CASE Settled # {}
    <3>1. PICK j \in Settled : /\ \A k \in Settled \ {j} : submittedAt[k] < submittedAt[j]
                               /\ Tells(sbom, j)
      BY <2>3, <2>5 DEF ShowsLast
    <3>2. \A k \in Settled : submittedAt[k] \in Int
      BY <2>1 DEF IInv, TypeOK, Settled
    <3>3. \A k \in Settled : submittedAt[k] <= submittedAt[j]
      BY <3>1, <3>2
    <3>4. \A i \in Settled : (\A k \in Settled : submittedAt[k] <= submittedAt[i]) => i = j
      BY <3>1, <3>2
    <3>5. Newest(Settled) = j
      BY <3>3, <3>4 DEF Newest
    <3>6. QED
      BY <2>2, <2>5, <3>1, <3>5 DEF Tells
  <2>6. QED
    BY <2>4, <2>5
<1>3. IInv /\ IInv' /\ CalmInv /\ [Next]_vars => CalmInv'
  BY CalmStep
<1>4. QED
  BY <1>1, <1>2, <1>3, Invariance, PTL DEF Spec
=============================================================================
