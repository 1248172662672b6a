----------------------------- MODULE MCVaBlock -----------------------------
(* Configurations of VaBlock for model checking. *)
EXTENDS VaBlock

Base == [gpus |-> {"g1"}, pages |-> {1, 2}, cc |-> FALSE, peer |-> "none", sysmem |-> FALSE,
         rd |-> FALSE, pref |-> "none", by |-> {}, evmap |-> FALSE, track |-> FALSE]

Two == [Base EXCEPT !.gpus = {"g1", "g2"}, !.pages = {1}]

\* Tracking is on where FLASH runs: GPUs that map no memory but their own.
MCModes ==
  \* Confidential Computing, tracked; two GPUs that stage through the CPU
  { [Base EXCEPT !.cc = TRUE, !.track = TRUE],
    [Two EXCEPT !.track = TRUE],
  \* GPUs that map system memory, with accessed_by or a preferred location
    [Base EXCEPT !.sysmem = TRUE, !.by = {"g1", "cpu"}, !.evmap = TRUE],
    [Base EXCEPT !.sysmem = TRUE, !.evmap = TRUE, !.pages = {1}],
    [Two EXCEPT !.sysmem = TRUE, !.by = {"g1", "g2"}],
    [Base EXCEPT !.sysmem = TRUE, !.pref = "cpu"],
  \* peers, with and without native atomics
    [Two EXCEPT !.peer = "nvlink", !.by = {"g2"}],
    [Two EXCEPT !.peer = "pcie", !.by = {"g2"}],
    [Two EXCEPT !.peer = "nvlink", !.pref = "g1"],
  \* read duplication
    [Base EXCEPT !.rd = TRUE],
    [Two EXCEPT !.rd = TRUE],
    [Two EXCEPT !.rd = TRUE, !.cc = TRUE] }
=============================================================================
