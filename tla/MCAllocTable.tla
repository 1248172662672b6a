---------------------------- MODULE MCAllocTable ----------------------------
(* Addresses that come back with other sizes, and a table that fills up.   *)
EXTENDS AllocTable, TLC
CONSTANTS t1, t2
Symm == Permutations(Threads)
=============================================================================
