------------------------------- MODULE NvdCache -------------------------------
(***************************************************************************)
(* CVE records for the causal engine                                       *)
(* (services/causal-engine/app/infrastructure/nvd): NvdCache keeps them in *)
(* Redis and lets one caller fetch a missing record while the others wait  *)
(* for it; NvdClient asks the NVD, behind a limiter of a sliding window.   *)
(* One CVE; the callers are coroutines of one worker and share its         *)
(* limiter.  The lock lies in Redis, has an expiry, and is deleted by      *)
(* name.  Nothing outside the tests makes a cache yet.                     *)
(***************************************************************************)
EXTENDS Integers, Sequences, FiniteSets

CONSTANTS
  Callers,
  LockRetries,   \* _LOCK_MAX_RETRIES
  MaxAttempts,   \* max_retries of the client
  MaxRequests,   \* requests per window
  Window,        \* the window, in ticks
  LastTick,      \* bound: the last tick
  MaxExpiries    \* bound: expiries of the lock

ASSUME NvdSizes ==
  /\ {LockRetries, MaxAttempts, MaxRequests, Window} \subseteq Nat \ {0}
  /\ {LastTick, MaxExpiries} \subseteq Nat

VARIABLES
  tick,      \* time.monotonic()
  at,        \* where each caller is
  tries,     \* attempts of the lock, then of the call, so far
  locked,    \* callers whose SET NX succeeded and that have not released
  key,       \* does the lock's key exist
  cached,    \* is the record in Redis
  window,    \* _timestamps of the limiter
  until,     \* when each sleeper of the limiter wakes
  granted,   \* instants of the last slots the limiter gave, one more than its limit
  crowded,   \* has a caller come to the limiter while another slept in it
  expiries

cacheVars == <<locked, key, cached, expiries>>
limiterVars == <<window, until, granted, crowded>>
nvdVars == <<tick, at, tries, cacheVars, limiterVars>>

Places == {"read", "lock", "wait", "acquire", "sleep", "call", "backoff",
           "store", "release", "found", "missing"}

NvdTypeOK ==
  /\ tick \in 0 .. LastTick
  /\ at \in [Callers -> Places]
  /\ tries \in [Callers -> 0 .. LockRetries + MaxAttempts]
  /\ locked \subseteq Callers
  /\ key \in BOOLEAN /\ cached \in BOOLEAN /\ crowded \in BOOLEAN
  /\ window \in Seq(0 .. LastTick)
  /\ until \in [Callers -> 0 .. LastTick + Window]
  /\ granted \in Seq(0 .. LastTick)
  /\ expiries \in 0 .. MaxExpiries

NvdInit ==
  /\ tick = 0
  /\ at = [c \in Callers |-> "read"]
  /\ tries = [c \in Callers |-> 0]
  /\ locked = {} /\ key = FALSE /\ cached = FALSE
  /\ window = <<>> /\ until = [c \in Callers |-> 0]
  /\ granted = <<>> /\ crowded = FALSE
  /\ expiries = 0

Go(c, from, to) == at[c] = from /\ at' = [at EXCEPT ![c] = to]

\* The stamps that are still inside the window.  They are in the order of the clock,
\* so those that have left it are the first ones.
Recent ==
  LET stale == {k \in DOMAIN window : tick - window[k] >= Window}
  IN SubSeq(window, Cardinality(stale) + 1, Len(window))

-----------------------------------------------------------------------------
(* Faulty variants: the bugs the properties must catch *)

\* The sleep ends with the oldest stamp still inside the window.
OldestIsLast(stamps) == Head(stamps) + Window - 1

-----------------------------------------------------------------------------
(* The cache *)

\* The lock is deleted by those only who acquired it.
Holds(c) == c \in locked

\* GET of the record: a hit ends the call; a miss, or an error, does not.  The
\* first miss goes for the lock, a later one tries it again while tries are left.
ReadCache(c) ==
  /\ \/ cached /\ Go(c, "read", "found")
     \/ Go(c, "read", IF tries[c] < LockRetries THEN "lock" ELSE "acquire")
  /\ UNCHANGED <<tick, tries, cacheVars, limiterVars>>

\* SET NX EX fails: nothing catches it, and the caller has no answer.
LockRaises(c) ==
  /\ Go(c, "lock", "missing")
  /\ UNCHANGED <<tick, tries, cacheVars, limiterVars>>

\* SET NX EX: the lock is taken, and the record fetched; or it is another's.
TryLock(c) ==
  /\ IF key
       THEN Go(c, "lock", "wait") /\ UNCHANGED <<locked, key>>
       ELSE Go(c, "lock", "acquire") /\ locked' = locked \cup {c} /\ key' = TRUE
  /\ tries' = [tries EXCEPT ![c] = @ + 1]
  /\ UNCHANGED <<tick, cached, expiries, limiterVars>>

\* 100 ms later the cache is read again.
Rechecks(c) ==
  /\ Go(c, "wait", "read")
  /\ UNCHANGED <<tick, tries, cacheVars, limiterVars>>

\* The lock outlives its 30 s: a call with its retries may take longer.
LockExpires ==
  /\ key /\ expiries < MaxExpiries
  /\ key' = FALSE /\ expiries' = expiries + 1
  /\ UNCHANGED <<tick, at, tries, locked, cached, limiterVars>>

\* SETEX, which may fail; the answer is the record all the same.
Store(c) ==
  /\ Go(c, "store", "release")
  /\ cached' \in {cached, TRUE}
  /\ UNCHANGED <<tick, tries, locked, key, expiries, limiterVars>>

\* The finally clause, in which DEL may fail, and the answer.
Release(c) ==
  /\ \E end \in {"found", "missing"} : Go(c, "release", end)
  /\ key' \in IF Holds(c) THEN {key, FALSE} ELSE {key}
  /\ locked' = locked \ {c}
  /\ UNCHANGED <<tick, tries, cached, expiries, limiterVars>>

\* 24 hours pass, or someone invalidates the record.
Evicted ==
  /\ cached /\ cached' = FALSE
  /\ UNCHANGED <<tick, at, tries, locked, key, expiries, limiterVars>>

-----------------------------------------------------------------------------
(* The client and its limiter *)

OldestLeaves(stamps) == Head(stamps) + Window

Grant(c, from, stamps) ==
  /\ Go(c, from, "call")
  /\ window' = Append(stamps, tick)
  /\ granted' = LET all == Append(granted, tick)
                IN IF Len(all) > MaxRequests + 1 THEN Tail(all) ELSE all
  /\ tries' = [tries EXCEPT ![c] = 0]

\* acquire(): a slot, or a sleep until the oldest stamp has left the window.
Acquire(c) ==
  /\ at[c] = "acquire"
  /\ crowded' = (crowded \/ \E d \in Callers : at[d] = "sleep")
  /\ \/ Len(Recent) < MaxRequests /\ Grant(c, "acquire", Recent) /\ UNCHANGED until
     \/ /\ Len(Recent) >= MaxRequests /\ Go(c, "acquire", "sleep")
        /\ until' = [until EXCEPT ![c] = OldestLeaves(Recent)]
        /\ window' = Recent
        /\ UNCHANGED <<granted, tries>>
  /\ UNCHANGED <<tick, cacheVars>>

\* Whoever wakes takes a slot, without another look at the count.
Wake(c) ==
  /\ tick >= until[c]
  /\ Grant(c, "sleep", Recent)
  /\ UNCHANGED <<tick, cacheVars, until, crowded>>

\* The NVD answers with the record, or with none.
CallAnswers(c) ==
  /\ Go(c, "call", "store") \/ Go(c, "call", "release")
  /\ UNCHANGED <<tick, tries, cacheVars, limiterVars>>

\* It fails: another attempt after a pause, without a slot of its own, or the end.
FetchFails(c) ==
  /\ Go(c, "call", IF tries[c] + 1 < MaxAttempts THEN "backoff" ELSE "release")
  /\ tries' = [tries EXCEPT ![c] = @ + 1]
  /\ UNCHANGED <<tick, cacheVars, limiterVars>>

Backoff(c) ==
  /\ Go(c, "backoff", "call")
  /\ UNCHANGED <<tick, tries, cacheVars, limiterVars>>

\* The caller looks for the record again, later.
AskAgain(c) ==
  /\ Go(c, "found", "read") \/ Go(c, "missing", "read")
  /\ tries' = [tries EXCEPT ![c] = 0]
  /\ UNCHANGED <<tick, cacheVars, limiterVars>>

Elapses ==
  /\ tick < LastTick /\ tick' = tick + 1
  /\ UNCHANGED <<at, tries, cacheVars, limiterVars>>

NvdNext ==
  \/ \E c \in Callers :
       \/ ReadCache(c) \/ TryLock(c) \/ LockRaises(c) \/ Rechecks(c)
       \/ Store(c) \/ Release(c)
       \/ Acquire(c) \/ Wake(c) \/ CallAnswers(c) \/ FetchFails(c) \/ Backoff(c)
       \/ AskAgain(c)
  \/ LockExpires \/ Evicted \/ Elapses

NvdSpec == NvdInit /\ [][NvdNext]_nvdVars

-----------------------------------------------------------------------------
(* Properties *)

\* While no lock has expired, one caller at most has acquired it and not released
\* it, and its key exists: callers that went on without the lock do not give it up
\* for the one that holds it.
OneHolderUnlessExpired ==
  expiries = 0 => Cardinality(locked) <= 1 /\ (locked # {} => key)

\* As long as no caller came to the limiter while another slept in it, no window
\* has more slots than the limit.  Two that sleep together wake together, and take
\* a slot each.
UncrowdedIsWithinLimit ==
  crowded \/ \A i \in 1 .. Len(granted) - MaxRequests :
               granted[i + MaxRequests] - granted[i] >= Window

\* Both of what callers use to spare the NVD hold: the lock of a CVE and the limiter.
LockAndLimitHold == OneHolderUnlessExpired /\ UncrowdedIsWithinLimit
=============================================================================
