------------------------------ MODULE SbomIngest ------------------------------
(***************************************************************************)
(* Ingestion of SBOM documents (services/sbom-service: IngestSbomUseCase,  *)
(* PostgresSbomRepository, the S3 artifact store), for one tenant.         *)
(*                                                                         *)
(* A request looks for the row of its image and document.  If there is     *)
(* one, it is the answer, once the request's image reference is bound to   *)
(* it; if not, the document goes to the object store, unless it already    *)
(* lies in an external one, and then the row and its components are        *)
(* inserted in one transaction.  Requests interleave at the awaits, and a  *)
(* replica may die at any of them.  The digest and the structure of the    *)
(* document are checked before anything is awaited: what fails there       *)
(* leaves no trace and is not a request here.                              *)
(***************************************************************************)
EXTENDS FiniteSets

CONSTANTS
  Requests,
  Upload,     \* what each request brings: [image, document, reference, external]
  Unbound     \* the reference of a request, or a row, that has none

Images == {Upload[q].image : q \in Requests}
Documents == {Upload[q].document : q \in Requests}
References == {Upload[q].reference : q \in Requests} \cup {Unbound}

\* A reference ends in the digest of its image (the request's validator, and a
\* CHECK of the table), so it belongs to one image.
ASSUME UploadAssumption ==
  /\ \A q \in Requests : DOMAIN Upload[q] = {"image", "document", "reference", "external"}
  /\ \A q \in Requests : Upload[q].external \in BOOLEAN
  /\ \A q, p \in Requests :
       Upload[q].reference = Upload[p].reference /\ Upload[q].reference # Unbound
         => Upload[q].image = Upload[p].image

VARIABLES
  pc,        \* where each request is, or how it ended
  sboms,     \* sboms with their components: [id, image, document, reference]
  objects,   \* ids whose document is in the artifact store
  answer     \* id of the row each request was answered with, or its own

ingestVars == <<pc, sboms, objects, answer>>

\* uuid4 draws a fresh id for each request: the request stands for it.
RowOf(q) == [id |-> q, image |-> Upload[q].image, document |-> Upload[q].document,
             reference |-> Upload[q].reference]

SbomRows == [id : Requests, image : Images, document : Documents, reference : References]
Ends == {"ok", "conflict", "unavailable", "dead"}

IngestTypeOK ==
  /\ pc \in [Requests -> {"verify", "find", "bind", "upload", "save"} \cup Ends]
  /\ sboms \subseteq SbomRows
  /\ objects \subseteq Requests
  /\ answer \in [Requests -> Requests]

IngestInit ==
  /\ pc = [q \in Requests |-> IF Upload[q].external THEN "verify" ELSE "find"]
  /\ sboms = {} /\ objects = {}
  /\ answer = [q \in Requests |-> q]

\* The row a request is about: find_by_image_and_digest.
Existing(q) == {r \in sboms : r.image = Upload[q].image /\ r.document = Upload[q].document}

Goto(q, from, to) == pc[q] = from /\ pc' = [pc EXCEPT ![q] = to]

-----------------------------------------------------------------------------
(* Faulty variants: the bugs the properties must catch *)

\* bind_image_reference without its condition on the reference.
Rebindable(r, reference) == TRUE

-----------------------------------------------------------------------------
(* Actions *)

\* UPDATE ... WHERE sbom_id AND (image_reference IS NULL OR image_reference = $1).
Bindable(r, reference) == r.reference \in {Unbound, reference}

\* INSERT, under the unique index on digest, image and tenant.
IsNew(q) == Existing(q) = {}

\* verify_external_sbom: the artifact is fetched and compared.
VerifyExternal(q) ==
  /\ Goto(q, "verify", "find") \/ Goto(q, "verify", "unavailable")
  /\ UNCHANGED <<sboms, objects, answer>>

FindNothing(q) ==
  /\ Existing(q) = {}
  /\ Goto(q, "find", IF Upload[q].external THEN "save" ELSE "upload")
  /\ UNCHANGED <<sboms, objects, answer>>

\* The row of an earlier request; its reference must be the request's, be bound
\* to it, or not be asked for.
FindExisting(q) ==
  /\ \E r \in Existing(q) :
       /\ answer' = [answer EXCEPT ![q] = r.id]
       /\ Goto(q, "find", IF Upload[q].reference \in {Unbound, r.reference} THEN "ok"
                         ELSE IF r.reference = Unbound THEN "bind"
                         ELSE "unavailable")
  /\ UNCHANGED <<sboms, objects>>

\* bind_image_reference; the row may have been bound since it was read.
Bind(q) ==
  /\ \E r \in sboms :
       /\ r.id = answer[q]
       /\ IF Bindable(r, Upload[q].reference)
            THEN /\ Goto(q, "bind", "ok")
                 /\ sboms' = (sboms \ {r}) \cup {[r EXCEPT !.reference = Upload[q].reference]}
            ELSE Goto(q, "bind", "unavailable") /\ UNCHANGED sboms
  /\ UNCHANGED <<objects, answer>>

\* put_object under the fresh id.
UploadDocument(q) ==
  /\ Goto(q, "upload", "save")
  /\ objects' = objects \cup {q}
  /\ UNCHANGED <<sboms, answer>>

\* save_with_components: the transaction commits, or the unique index refuses it.
Save(q) ==
  /\ IF IsNew(q)
       THEN Goto(q, "save", "ok") /\ sboms' = sboms \cup {RowOf(q)}
       ELSE Goto(q, "save", "conflict") /\ UNCHANGED sboms
  /\ UNCHANGED <<objects, answer>>

\* A call of the database or the object store fails: 503.  The call may have done
\* its work, its reply being lost.
CallFails(q) ==
  /\ pc[q] \in {"find", "bind", "upload", "save"}
  /\ pc' = [pc EXCEPT ![q] = "unavailable"]
  /\ \/ UNCHANGED <<sboms, objects>>
     \/ pc[q] = "upload" /\ objects' = objects \cup {q} /\ UNCHANGED sboms
     \/ /\ pc[q] = "bind"
        /\ \E r \in sboms : /\ r.id = answer[q] /\ Bindable(r, Upload[q].reference)
                          /\ sboms' = (sboms \ {r}) \cup
                                      {[r EXCEPT !.reference = Upload[q].reference]}
        /\ UNCHANGED objects
     \/ pc[q] = "save" /\ IsNew(q) /\ sboms' = sboms \cup {RowOf(q)} /\ UNCHANGED objects
  /\ UNCHANGED answer

\* The replica dies.
Dies(q) ==
  /\ pc[q] \notin Ends
  /\ pc' = [pc EXCEPT ![q] = "dead"]
  /\ UNCHANGED <<sboms, objects, answer>>

Step(q) == \/ VerifyExternal(q) \/ FindNothing(q) \/ FindExisting(q) \/ Bind(q)
           \/ UploadDocument(q) \/ Save(q) \/ CallFails(q)

IngestNext ==
  \/ \E q \in Requests : Step(q) \/ Dies(q)
  \/ (\A q \in Requests : pc[q] \in Ends) /\ UNCHANGED ingestVars

IngestSpec == IngestInit /\ [][IngestNext]_ingestVars

-----------------------------------------------------------------------------
(* Properties *)

\* What a request was answered with stays: one row of its image and document, with
\* the reference it asked for, whatever other requests bind, and in whatever order;
\* and a row whose document was not already in an external store has it in ours.
AnswerStands ==
  \A q \in Requests : pc[q] = "ok" =>
    \E r \in sboms :
      /\ r.id = answer[q]
      /\ Existing(q) = {r}
      /\ Upload[q].reference \in {Unbound, r.reference}
      /\ Upload[r.id].external \/ r.id \in objects

\* "One CycloneDX document describes exactly one container image digest."
OneImagePerDocument ==
  \A r, s \in sboms : r.document = s.document => r.image = s.image
=============================================================================
