-------------------------- MODULE MCDirtyTracking --------------------------
(* One block of two pages, so that block granularity matters; the proofs   *)
(* are for any number of blocks.                                           *)
EXTENDS DirtyTracking, TLC
CONSTANTS b1, p1, p2
MCBlocks == {b1}
MCPages == {p1, p2}
MCBlockOf == (p1 :> b1) @@ (p2 :> b1)
=============================================================================
