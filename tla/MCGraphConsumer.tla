-------------------------- MODULE MCGraphConsumer --------------------------
(* An instance of GraphConsumer for TLC: an event the gateway published twice, *)
(* one that the consumer rejects and one more, cut in batches of two.          *)
EXTENDS GraphConsumer

CONSTANTS w1, w2, a, b, bad

FourEntries == <<a, bad, a, b>>
=============================================================================
