---------------------------- MODULE EventDelivery ----------------------------
(***************************************************************************)
(* What the gateway promises of the drift events that are posted to it,    *)
(* whatever its replicas, PostgreSQL and Redis do meanwhile: an event is   *)
(* recorded at most once and under the post that recorded it; the stream   *)
(* has copies of that record only; it is marked as published when it is in *)
(* the stream, for good; and what a client is told is so.                  *)
(***************************************************************************)
CONSTANTS
  Events,
  Posts,
  Nobody   \* no post has recorded the event

VARIABLES
  carries,    \* post -> its event, which never changes
  recorder,   \* event -> the post whose record of it is durable, or Nobody
  sent,       \* <<event, post>> of which there are copies in the stream
  marked,     \* events whose record is marked as published
  announced,  \* posts whose record was announced to the subscribers
  told        \* post -> [status, delivery] that its client was told

deliveryVars == <<carries, recorder, sent, marked, announced, told>>

Silent == [status |-> "none", delivery |-> "none"]

DeliveryInit ==
  /\ carries \in [Posts -> Events]
  /\ recorder = [e \in Events |-> Nobody]
  /\ sent = {} /\ marked = {} /\ announced = {}
  /\ told = [p \in Posts |-> Silent]

\* A client may be told that its post was accepted, that the event was there, that
\* it was published, or that the request failed, which tells nothing.
Honest(p, what) ==
  /\ what.status = "accepted" => recorder'[carries[p]] = p
  /\ what.status = "duplicate" => recorder'[carries[p]] # Nobody
  /\ what.delivery = "published" => carries[p] \in marked'

\* A client is told once, in a step of its own or in one that makes it true.
Tell ==
  \/ UNCHANGED told
  \/ \E p \in Posts, what \in [status : {"accepted", "duplicate", "conflict", "error"},
                               delivery : {"none", "published", "pending"}] :
       told[p] = Silent /\ told' = [told EXCEPT ![p] = what] /\ Honest(p, what)

Record(p) ==
  /\ recorder[carries[p]] = Nobody
  /\ recorder' = [recorder EXCEPT ![carries[p]] = p]
  /\ UNCHANGED <<sent, marked, announced>>

Send(e) ==
  /\ recorder[e] # Nobody
  /\ sent' = sent \cup {<<e, recorder[e]>>}
  /\ UNCHANGED <<recorder, marked, announced>>

Mark(e) ==
  /\ <<e, recorder[e]>> \in sent
  /\ marked' = marked \cup {e}
  /\ UNCHANGED <<recorder, sent, announced>>

Announce(p) ==
  /\ recorder[carries[p]] = p
  /\ announced' = announced \cup {p}
  /\ UNCHANGED <<recorder, sent, marked>>

DeliveryNext ==
  /\ \/ \E p \in Posts : Record(p) \/ Announce(p)
     \/ \E e \in Events : Send(e) \/ Mark(e)
     \/ UNCHANGED <<recorder, sent, marked, announced>>
  /\ Tell
  /\ UNCHANGED carries

DeliverySpec == DeliveryInit /\ [][DeliveryNext]_deliveryVars
=============================================================================
