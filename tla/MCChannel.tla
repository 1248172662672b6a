----------------------------- MODULE MCChannel -----------------------------
(* Two threads, two CE channels and one WLC channel; three operations, so  *)
(* that the slots of a ring and of its IVs are used again.                 *)
EXTENDS Channel, TLC
CONSTANTS t1, t2
Symm == Permutations(Threads)
=============================================================================
