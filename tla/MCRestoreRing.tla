---------------------------- MODULE MCRestoreRing ----------------------------
(* Allocations of three chunks and of one: the last job uses a slot again,  *)
(* and consumers overlap.  Leaving out the first clogs the ring, the second *)
(* does not.                                                                *)
EXTENDS RestoreRing, FiniteSets, TLC
CONSTANTS w1, a1, a2
MCFirst == (0 :> 0) @@ (1 :> 3)
MCCount == (0 :> 3) @@ (1 :> 1)
(* rst_pool_init_once makes the ring at least this long.                    *)
ASSUME N >= Cardinality(Workers) + 2
=============================================================================
