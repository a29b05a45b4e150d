---------------------------- MODULE ComponentMapping ----------------------------
(***************************************************************************)
(* Which software component a runtime event is attributed to.  The gateway *)
(* asks the SBOM service before it stores an event (commands.py,           *)
(* _resolve_runtime_binding); the service reads the SBOMs of the image     *)
(* (routers.py, map_runtime_binding), then the components of the one that  *)
(* is verified, and maps the event (domain/mapping/resolver.py).  Between  *)
(* the two reads, and before the event is stored, SBOMs are uploaded and   *)
(* verified or refused, calls fail, and the agent sends the event again.   *)
(***************************************************************************)
EXTENDS Naturals, Sequences, FiniteSets, SequencesExt

CONSTANTS
  Documents,  \* SBOM -> [tenant, image, hashes, files]: what its components, by purl,
              \* have for hashes and for files
  Sendings,   \* what may be sent: functions from events to
              \* [tenant, image, hash, path, interpreter, resource, binding]
  PathPrefixes,  \* path -> its prefixes that are indexed, the longest first
  Missing        \* an absent digest, hash, path, document, component or binding

ASSUME MappingPaths ==
  /\ IsFiniteSet(DOMAIN Documents)
  /\ \A d \in DOMAIN Documents : /\ IsFiniteSet(DOMAIN Documents[d].hashes)
                                 /\ DOMAIN Documents[d].files = DOMAIN Documents[d].hashes
                                 /\ UNION Range(Documents[d].files) \subseteq DOMAIN PathPrefixes

Docs == DOMAIN Documents

VARIABLES
  sent,      \* what each event says
  verdict,   \* SBOM -> "absent", "pending", "verified" or "failed"
  asking,    \* event -> the SBOMs read for it and their verdicts, or Missing
  reply,     \* event -> the binding the gateway holds, or Missing
  attributed \* event -> the binding stored with it and applied to the graph, or Missing

mappingVars == <<sent, verdict, asking, reply, attributed>>

Mapped == DOMAIN sent

\* Before any SBOM is uploaded; the events that come are these.
Before(events) ==
  /\ sent = events /\ verdict = [d \in Docs |-> "absent"]
  /\ asking = [e \in DOMAIN events |-> Missing] /\ reply = asking /\ attributed = asking

MappingInit == \E events \in Sendings : Before(events)

-----------------------------------------------------------------------------
(* The resolver *)

Purls(d) == DOMAIN Documents[d].hashes

WithHash(d, h) == {c \in Purls(d) : h \in Documents[d].hashes[c]}
WithFile(d, p) == {c \in Purls(d) : p \in Documents[d].files[c]}
WithPrefix(d, x) ==
  {c \in Purls(d) : \E p \in Documents[d].files[c] : x \in Range(PathPrefixes[p])}

\* An interpreter's own file says nothing of the package it runs.
OwnBinary(e) == sent[e].interpreter /\ sent[e].resource = sent[e].path

HashTier(e, d) == WithHash(d, sent[e].hash)
PathTier(e, d) == IF sent[e].interpreter THEN {} ELSE WithFile(d, sent[e].path)
FileTier(e, d) == IF OwnBinary(e) THEN {} ELSE WithFile(d, sent[e].resource)
PrefixTier(e, d) ==
  IF OwnBinary(e) \/ sent[e].resource = Missing THEN {}
  ELSE LET matching == SelectSeq(PathPrefixes[sent[e].resource], LAMBDA x : WithPrefix(d, x) # {})
       IN IF matching = <<>> THEN {} ELSE WithPrefix(d, Head(matching))

\* The first tier that has a candidate.
Candidates(e, d) ==
  IF HashTier(e, d) # {} THEN HashTier(e, d)
  ELSE IF PathTier(e, d) # {} THEN PathTier(e, d)
  ELSE IF FileTier(e, d) # {} THEN FileTier(e, d)
  ELSE PrefixTier(e, d)

MappingStatus(e, d) ==
  CASE Candidates(e, d) = {} -> "unresolved"
    [] Cardinality(Candidates(e, d)) > 1 -> "ambiguous"
    [] Cardinality(Candidates(e, d)) = 1 /\ HashTier(e, d) # {} -> "verified"
    [] OTHER -> "inferred"

Binding(status, d, c) ==
  [status |-> status, sbom |-> d, purl |-> c, confidence |-> IF c = Missing THEN 0 ELSE 10]

\* to_causal_binding_payload: only a verified mapping names its component.
Payload(e, d) ==
  CASE MappingStatus(e, d) = "verified" ->
         Binding("bound", d, CHOOSE c \in Candidates(e, d) : TRUE)
    [] MappingStatus(e, d) = "ambiguous" -> Binding("ambiguous", d, Missing)
    [] OTHER -> Binding("insufficient_evidence", d, Missing)

Insufficient == Binding("insufficient_evidence", Missing, Missing)

-----------------------------------------------------------------------------
(* A faulty variant: a bug the property must catch *)

\* Whatever was uploaded counts.
AnyRecord(read) == DOMAIN read

-----------------------------------------------------------------------------
(* Actions *)

OnlyVerified(read) == {d \in DOMAIN read : read[d] = "verified"}

Upload(d) ==
  /\ verdict[d] = "absent" /\ verdict' = [verdict EXCEPT ![d] = "pending"]
  /\ UNCHANGED <<sent, asking, reply, attributed>>

\* The verifier's verdict, and a verification that starts again.
Judge(d, v) ==
  /\ verdict[d] # "absent" /\ verdict' = [verdict EXCEPT ![d] = v]
  /\ UNCHANGED <<sent, asking, reply, attributed>>

RecordsOf(e) ==
  {d \in Docs : /\ verdict[d] # "absent" /\ Documents[d].image = sent[e].image
                /\ Documents[d].tenant = sent[e].tenant}

\* The event is new, and the service reads the SBOMs of its image, which the agent
\* always names.
Ask(e) ==
  /\ sent[e].binding = Missing
  /\ attributed[e] = Missing /\ asking[e] = Missing /\ reply[e] = Missing
  /\ asking' = [asking EXCEPT ![e] = [d \in RecordsOf(e) |-> verdict[d]]]
  /\ UNCHANGED <<sent, verdict, reply, attributed>>

\* The service maps the event with the one verified SBOM it read, and answers.
Resolve(e) ==
  /\ asking[e] # Missing
  /\ LET usable == OnlyVerified(asking[e])
     IN reply' = [reply EXCEPT ![e] =
          IF Cardinality(usable) = 1 THEN Payload(e, CHOOSE d \in usable : TRUE)
          ELSE IF DOMAIN asking[e] = {} THEN Binding("unbound", Missing, Missing)
          ELSE Insufficient]
  /\ asking' = [asking EXCEPT ![e] = Missing]
  /\ UNCHANGED <<sent, verdict, attributed>>

\* The service is not asked, for want of a container, or it does not reply: the
\* gateway abstains.
Abstain(e) ==
  /\ sent[e].binding = Missing
  /\ attributed[e] = Missing /\ reply[e] = Missing
  /\ reply' = [reply EXCEPT ![e] = Insufficient]
  /\ asking' = [asking EXCEPT ![e] = Missing]
  /\ UNCHANGED <<sent, verdict, attributed>>

\* A binding that came with the event is taken as it is, and nobody is asked.
Supply(e) ==
  /\ sent[e].binding # Missing
  /\ attributed[e] = Missing /\ asking[e] = Missing /\ reply[e] = Missing
  /\ reply' = [reply EXCEPT ![e] = sent[e].binding]
  /\ UNCHANGED <<sent, verdict, asking, attributed>>

\* The transaction commits, and the engine applies what was stored.
Store(e) ==
  /\ reply[e] # Missing
  /\ attributed' = [attributed EXCEPT ![e] = reply[e]]
  /\ reply' = [reply EXCEPT ![e] = Missing]
  /\ UNCHANGED <<sent, verdict, asking>>

\* The request ends before the commit; the event comes again.
Lose(e) ==
  /\ attributed[e] = Missing /\ (asking[e] # Missing \/ reply[e] # Missing)
  /\ asking' = [asking EXCEPT ![e] = Missing] /\ reply' = [reply EXCEPT ![e] = Missing]
  /\ UNCHANGED <<sent, verdict, attributed>>

MappingNext ==
  \/ \E d \in Docs : Upload(d) \/ \E v \in {"pending", "verified", "failed"} : Judge(d, v)
  \/ \E e \in Mapped : Ask(e) \/ Resolve(e) \/ Abstain(e) \/ Supply(e) \/ Store(e) \/ Lose(e)

MappingSpec == MappingInit /\ [][MappingNext]_mappingVars

-----------------------------------------------------------------------------
(* Properties *)

\* A reply names a component only when the event came with it, or when exactly one SBOM
\* of the event's own tenant and image was verified, as the service read them, and that
\* component alone in it has the hash of the executable that ran: no path, however
\* close, names one.  What is stored stays, whatever the later verdicts and repetitions.
NamedIsIdentified ==
  [][\A e \in Mapped :
       /\ reply'[e] # reply[e] /\ reply'[e] # Missing /\ reply'[e].purl # Missing
            /\ reply'[e] # sent[e].binding =>
            LET binding == reply'[e]
            IN /\ asking[e] # Missing /\ binding.status = "bound" /\ verdict[binding.sbom] # "absent"
               /\ {d \in DOMAIN asking[e] : asking[e][d] = "verified"} = {binding.sbom}
               /\ Documents[binding.sbom].tenant = sent[e].tenant
               /\ Documents[binding.sbom].image = sent[e].image
               /\ {c \in Purls(binding.sbom) : sent[e].hash \in Documents[binding.sbom].hashes[c]}
                    = {binding.purl}
       /\ attributed[e] # Missing => attributed'[e] = attributed[e]]_mappingVars
=============================================================================
