------------------------- MODULE MCCapturePipeline -------------------------
(* Ranges of one page and of none, resident or not, encrypted or not;      *)
(* the two that have a page may share a slot.  Two slots per writer, as     *)
(* ckpt_core has.                                                          *)
EXTENDS CapturePipeline, FiniteSets
CONSTANTS w1, w2, s1, s2, s3, s4
MCFreeStack == <<s4, s3, s2, s1>>
MCNPages == [r \in Ranges |-> IF r % 4 = 1 THEN 1 ELSE 0]
MCStart == [r \in 1..(NRanges + 1) |-> 3 * ((r + 2) \div 4)]
ASSUME Cardinality(Slots) = 2 * Cardinality(Writers)
=============================================================================
