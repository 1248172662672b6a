------------------------------ MODULE MCGate -------------------------------
(* One or two threads of the owner process, and one of a child process.    *)
EXTENDS Gate
CONSTANTS t1, t2, c1
=============================================================================
