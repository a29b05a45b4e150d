-------------------------- MODULE MCGatewayIngest --------------------------
(* An instance of GatewayIngest for TLC: three posts, two or three of them    *)
(* of one event, on one or two replicas; the second event has a payload that  *)
(* cannot be published, and its lock key collides with the first one's.       *)
EXTENDS GatewayIngest

CONSTANTS r1, r2, r3, east, west, e1, e2

At(e, p) == [event |-> e, replica |-> p]

PostRoutes ==
  [r \in {r1, r2, r3} |->
     CASE r = r1 -> {At(e1, east)}
       [] r = r2 -> {At(e1, east), At(e1, west)}
       [] r = r3 -> {At(e1, west), At(e2, east)}]

\* Each replica hashes with its own seed.
SeededKeys ==
  [pe \in Replicas \X Events |-> IF pe[1] = east THEN 1 ELSE 2]
=============================================================================
