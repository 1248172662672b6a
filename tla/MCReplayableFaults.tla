------------------------- MODULE MCReplayableFaults -------------------------
EXTENDS ReplayableFaults
\* pages 1 and 2 are of one block; page 1 is read-only, page 3 not accessible,
\* faults on page 4 have a fatal type
MCPerms == <<1, 2, 0, 2>>
MCBlock == <<1, 1, 2, 2>>
A(sp, page, type, utlb) == [sp |-> sp, inst |-> sp, page |-> page, type |-> type, utlb |-> utlb]
M(cc_, policy_, events_, acc_) == [cc |-> cc_, policy |-> policy_, events |-> events_, acc |-> acc_]
\* two uTLBs fault on a read-only page, one to write and one to read
Fatal(cc_, policy_, events_) == M(cc_, policy_, events_, <<A(1, 1, Write, 1), A(1, 1, Read, 2)>>)
\* a fatal access in one VA space, a good one in another
Innocent(cc_, policy_, events_) == M(cc_, policy_, events_, <<A(1, 1, Write, 1), A(2, 2, Write, 2)>>)
\* a prefetch of a page that is not accessible, and a read of it
Invalid(policy_, events_) == M(FALSE, policy_, events_, <<A(1, 3, Prefetch, 1), A(1, 3, Read, 1)>>)
\* one uTLB reads and writes a page; another access of a fatal type
Upgrade(policy_, events_) ==
  M(FALSE, policy_, events_, <<A(1, 2, Read, 1), A(1, 2, Write, 1), A(1, 4, Write, 2)>>)
MCModes == {Fatal(FALSE, "batch_flush", 1), Fatal(FALSE, "block", 1), Fatal(TRUE, "batch", 1),
            Innocent(TRUE, "batch_flush", 0), Innocent(FALSE, "once", 1),
            Invalid("batch", 2), Upgrade("batch", 0)}
=============================================================================
