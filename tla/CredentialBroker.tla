--------------------------- MODULE CredentialBroker ---------------------------
(***************************************************************************)
(* The AWS credential broker (services/aws-credential-broker/app.py): a    *)
(* pod that proves its identity is lent a short-lived session of the       *)
(* workload role.  Sessions are cached per pod, and one lock guards the    *)
(* cache over the call that opens a session.                               *)
(*                                                                         *)
(* A request reads the time, then waits for the lock, which asyncio hands  *)
(* on in the order of arrival.  What it finds under the lock is judged     *)
(* against the time it read before.                                        *)
(***************************************************************************)
EXTENDS Integers, Sequences

CONSTANTS
  Loans,        \* requests for credentials
  PodOf,        \* the pod that each of them speaks for
  Lifetime,     \* CREDENTIAL_TTL_SECONDS, in ticks
  Margin,       \* CACHE_REFRESH_MARGIN, in ticks
  Horizon,      \* bound: the last tick
  NoSession     \* no session cached, or none lent

ASSUME BrokerTimes == {Lifetime, Margin, Horizon} \subseteq Nat /\ Margin < Lifetime

Pods == {PodOf[c] : c \in Loans}
\* A session was opened for a pod and ends at an instant.
Sessions == [pod : Pods, expires : 0 .. Horizon + Lifetime]

VARIABLES
  time,      \* the clock
  stage,     \* where each call is, or how it ended
  asked,     \* 'now' of each call
  waiters,   \* who waits for the lock, first in, first out
  holder,    \* who has it: a set of one call or none
  called,    \* when its holder called STS
  cache,     \* _credentials: the session of each pod
  lent       \* what a call was answered with, and when

brokerVars == <<time, stage, asked, waiters, holder, called, cache, lent>>

BrokerTypeOK ==
  /\ time \in 0 .. Horizon
  /\ stage \in [Loans -> {"review", "waiting", "locked", "sts", "answered",
                          "unauthorized", "unavailable"}]
  /\ asked \in [Loans -> 0 .. Horizon]
  /\ waiters \in Seq(Loans)
  /\ holder \subseteq Loans
  /\ called \in 0 .. Horizon
  /\ cache \in [Pods -> Sessions \cup {NoSession}]
  /\ lent \in [Loans -> [session : Sessions, at : 0 .. Horizon] \cup {NoSession}]

BrokerInit ==
  /\ time = 0
  /\ stage = [c \in Loans |-> "review"]
  /\ asked = [c \in Loans |-> 0]
  /\ waiters = <<>> /\ holder = {} /\ called = 0
  /\ cache = [p \in Pods |-> NoSession]
  /\ lent = [c \in Loans |-> NoSession]

-----------------------------------------------------------------------------
(* Faulty variant: a session counts as fresh until it ends. *)
FreshToTheEnd(session, now) == session.expires > now

-----------------------------------------------------------------------------
(* Actions *)

Fresh(session, now) == session.expires - now > Margin

\* _review_token, TokenReview and the owners of the pod: refused, or not available.
ReviewFails(c) ==
  /\ stage[c] = "review"
  /\ stage' \in {[stage EXCEPT ![c] = s] : s \in {"unauthorized", "unavailable"}}
  /\ UNCHANGED <<time, asked, waiters, holder, called, cache, lent>>

\* It succeeds: the time is read, and the lock is taken if it is free and nobody
\* waits; otherwise the call queues.
Reviewed(c) ==
  /\ stage[c] = "review"
  /\ asked' = [asked EXCEPT ![c] = time]
  /\ IF holder = {} /\ waiters = <<>>
       THEN /\ stage' = [stage EXCEPT ![c] = "locked"]
            /\ holder' = {c} /\ UNCHANGED waiters
       ELSE /\ stage' = [stage EXCEPT ![c] = "waiting"]
            /\ waiters' = Append(waiters, c) /\ UNCHANGED holder
  /\ UNCHANGED <<time, called, cache, lent>>

TakeLock ==
  /\ holder = {} /\ waiters # <<>>
  /\ LET c == Head(waiters)
     IN holder' = {c} /\ stage' = [stage EXCEPT ![c] = "locked"]
  /\ waiters' = Tail(waiters)
  /\ UNCHANGED <<time, asked, called, cache, lent>>

Reply(c, session) ==
  /\ stage' = [stage EXCEPT ![c] = "answered"]
  /\ lent' = [lent EXCEPT ![c] = [session |-> session, at |-> time]]
  /\ holder' = {}

\* The cached session of the pod, or a call of STS.
LookUp(c) ==
  /\ stage[c] = "locked"
  /\ LET session == cache[PodOf[c]]
     IN IF session # NoSession /\ Fresh(session, asked[c])
          THEN Reply(c, session) /\ UNCHANGED called
          ELSE /\ stage' = [stage EXCEPT ![c] = "sts"]
               /\ called' = time /\ UNCHANGED <<holder, lent>>
  /\ UNCHANGED <<time, asked, waiters, cache>>

\* AssumeRole returns a session it opened at some instant since it was called.
Assumed(c) ==
  /\ stage[c] = "sts"
  /\ \E opened \in called .. time :
       LET session == [pod |-> PodOf[c], expires |-> opened + Lifetime]
       IN /\ session.expires > asked[c]
          /\ cache' = [cache EXCEPT ![PodOf[c]] = session]
          /\ Reply(c, session)
  /\ UNCHANGED <<time, asked, waiters, called>>

\* AssumeRole fails, or its answer is not valid: 503, and the cache is kept.
AssumeFails(c) ==
  /\ stage[c] = "sts"
  /\ stage' = [stage EXCEPT ![c] = "unavailable"]
  /\ holder' = {}
  /\ UNCHANGED <<time, asked, waiters, called, cache, lent>>

Passes ==
  /\ time < Horizon /\ time' = time + 1
  /\ UNCHANGED <<stage, asked, waiters, holder, called, cache, lent>>

BrokerNext ==
  \/ \E c \in Loans : \/ ReviewFails(c) \/ Reviewed(c) \/ LookUp(c)
                      \/ Assumed(c) \/ AssumeFails(c)
  \/ TakeLock
  \/ Passes

BrokerSpec == BrokerInit /\ [][BrokerNext]_brokerVars

-----------------------------------------------------------------------------
(* Property *)

\* Nobody is lent another pod's session, nor one that has ended when it is lent,
\* unless the call spent the whole margin waiting for the lock or for STS: the
\* margin is what pays for judging the cache by an old clock.
LentIsUsable ==
  \A c \in Loans : lent[c] # NoSession =>
    /\ lent[c].session.pod = PodOf[c]
    /\ lent[c].at - asked[c] <= Margin => lent[c].session.expires > lent[c].at
=============================================================================
