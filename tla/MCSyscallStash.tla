--------------------------- MODULE MCSyscallStash ---------------------------
(* An instance of SyscallStash for TLC: two tasks on two CPUs, calls with and  *)
(* without an enter hook, and one with a string the hook may fail to read.     *)
EXTENDS SyscallStash, TLC

CONSTANTS t1, t2, cpu0, cpu1

Symmetric == Permutations({t1, t2}) \cup Permutations({cpu0, cpu1})
=============================================================================
