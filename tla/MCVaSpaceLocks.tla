-------------------------- MODULE MCVaSpaceLocks --------------------------
(* Two files; a file is opened once and closed once.                       *)
EXTENDS VaSpaceLocks
=============================================================================
