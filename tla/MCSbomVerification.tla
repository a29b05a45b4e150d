------------------------- MODULE MCSbomVerification -------------------------
(* An instance of SbomVerification for TLC: three requests, so that a third can *)
(* find what two overlapping ones left.                                         *)
EXTENDS SbomVerification

CONSTANTS r1, r2, r3
=============================================================================
