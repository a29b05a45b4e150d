----------------------------- MODULE MCEbpfAgent -----------------------------
(* An instance of EbpfAgent for TLC: a pid that is reused, by two containers   *)
(* of watched namespaces, one of them known to the index only, and by one of   *)
(* another namespace.                                                          *)
EXTENDS EbpfAgent

CONSTANTS p1, web, job, system
=============================================================================
