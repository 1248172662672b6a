----------------------------- MODULE AllocTable -----------------------------
(***************************************************************************)
(* The allocation table of the gate file (ckpt_gate.h), which the hooks of *)
(* libckpt_vllm.so keep with no lock and which ckpt_core, the in-app       *)
(* baseline and restore_init read.  An allocation is an interval of the    *)
(* addresses 1..Units; CUDA hands an address out again once it has been    *)
(* freed.  ckpt_core reads the count once, when it opens the gate, and the *)
(* entries below it when it has asked the driver for the managed ranges    *)
(* and for the dirty pages.                                                *)
(***************************************************************************)
EXTENDS Integers

CONSTANTS
  Threads,  \* threads, of any process sharing the gate, in the CUDA hooks
  Units,    \* size of the address space
  Max,      \* GATE_ALLOC_MAX
  None

ASSUME TableAssumption == Units \in Nat /\ Max \in Nat /\ None \notin Threads

Ranges == {r \in [va : 1..Units, size : 1..Units] : r.va + r.size <= Units + 1}

VARIABLES
  live,          \* allocations that CUDA has handed out
  count, table,  \* ckpt_alloc_hdr_t.count and the entries
  user,          \* user_va and user_size: the largest allocation
  pc, arg, idx,  \* each thread: where it is in a hook, its allocation, its slot
  cpc, n_allocs, \* ckpt_core: whether it has the gate open, the count it read
  user_read,     \* and the user_va and user_size it read
  dropped,       \* history: live allocations that found the table full
  h2d,           \* history: live allocations that received host data
  raced,         \* history: live allocations recorded while another was
  overlapped,    \* history: "yes" once two recordings have overlapped
  known          \* history: live allocations recorded when n_allocs was read

core == <<cpc, n_allocs, user_read>>
race == <<raced, overlapped>>
vars == <<live, count, table, user, pc, arg, idx, core, dropped, h2d, race, known>>

Slots == 0..(Max - 1)
Published == {i \in Slots : i < count}
Overlap(a, b) == a.va < b.va + b.size /\ b.va < a.va + a.size
Within(a, e) == e.va <= a.va /\ a.va + a.size <= e.va + e.size

(* Allocations that a hook is about to record or to free.                  *)
Pending == {arg[t] : t \in {u \in Threads : pc[u] # "idle"}}

(* The threads between reading the count and writing it back.              *)
Recorders == {t \in Threads : pc[t] \in {"va", "size", "bump"}}

Blank == [va |-> 0, size |-> 0, freed |-> FALSE, h2d |-> FALSE]

Init ==
  /\ live = {} /\ count = 0
  /\ table = [i \in Slots |-> Blank]
  /\ user = [va |-> 0, size |-> 0]
  /\ pc = [t \in Threads |-> "idle"]
  /\ arg = [t \in Threads |-> None]
  /\ idx = [t \in Threads |-> 0]
  /\ cpc = "out" /\ n_allocs = 0 /\ user_read = [va |-> 0, size |-> 0]
  /\ dropped = {} /\ h2d = {} /\ raced = {} /\ overlapped = "no" /\ known = {}

-----------------------------------------------------------------------------
(* cudaMalloc and its relatives: the allocation, then gate_record_alloc.   *)

Malloc(t, a) ==
  /\ pc[t] = "idle"
  /\ \A b \in live : ~Overlap(a, b)
  /\ live' = live \cup {a}
  /\ pc' = [pc EXCEPT ![t] = "user"]
  /\ arg' = [arg EXCEPT ![t] = a]
  /\ UNCHANGED <<count, table, user, idx, dropped, h2d, core, race, known>>

(* The largest allocation so far is compared with, then replaced.          *)
UserCheck(t) ==
  /\ pc[t] = "user"
  /\ pc' = [pc EXCEPT ![t] = IF arg[t].size > user.size THEN "userset" ELSE "slot"]
  /\ UNCHANGED <<live, count, table, user, arg, idx, dropped, h2d, core, race, known>>

UserSet(t) ==
  /\ pc[t] = "userset"
  /\ user' = arg[t]
  /\ pc' = [pc EXCEPT ![t] = "slot"]
  /\ UNCHANGED <<live, count, table, arg, idx, dropped, h2d, core, race, known>>

(* Thread t begins to record while others do.                              *)
NoteRace(t) ==
  /\ raced' = IF Recorders = {} THEN raced
              ELSE raced \cup {arg[u] : u \in Recorders \cup {t}}
  /\ overlapped' = IF Recorders = {} THEN overlapped ELSE "yes"

(* Mutant: when the table is full its last entry is used again.            *)
TakeSlotLast(t) ==
  /\ pc[t] = "slot"
  /\ idx' = [idx EXCEPT ![t] = IF count < Max THEN count ELSE Max - 1]
  /\ pc' = [pc EXCEPT ![t] = "va"]
  /\ NoteRace(t)
  /\ UNCHANGED <<live, count, table, user, arg, dropped, h2d, core, known>>

(* The next slot is the count, or none when the table is full.             *)
TakeSlot(t) ==
  /\ pc[t] = "slot"
  /\ idx' = [idx EXCEPT ![t] = count]
  /\ \/ /\ count < Max
        /\ pc' = [pc EXCEPT ![t] = "va"]
        /\ NoteRace(t)
        /\ UNCHANGED <<arg, dropped>>
     \/ /\ count >= Max
        /\ pc' = [pc EXCEPT ![t] = "idle"] /\ arg' = [arg EXCEPT ![t] = None]
        /\ dropped' = dropped \cup {arg[t]}
        /\ UNCHANGED race
  /\ UNCHANGED <<live, count, table, user, h2d, core, known>>

(* The entry is written field by field: two threads with one slot may      *)
(* leave a mixture.                                                        *)
FillVa(t) ==
  /\ pc[t] = "va"
  /\ table' = [table EXCEPT ![idx[t]].va = arg[t].va]
  /\ pc' = [pc EXCEPT ![t] = "size"]
  /\ UNCHANGED <<live, count, user, arg, idx, dropped, h2d, core, race, known>>

FillSize(t) ==
  /\ pc[t] = "size"
  /\ table' = [table EXCEPT ![idx[t]] = [va |-> table[idx[t]].va, size |-> arg[t].size,
                                         freed |-> FALSE, h2d |-> FALSE]]
  /\ pc' = [pc EXCEPT ![t] = "bump"]
  /\ UNCHANGED <<live, count, user, arg, idx, dropped, h2d, core, race, known>>

Publish(t) ==
  /\ pc[t] = "bump"
  /\ count' = idx[t] + 1
  /\ pc' = [pc EXCEPT ![t] = "idle"]
  /\ arg' = [arg EXCEPT ![t] = None]
  /\ UNCHANGED <<live, table, user, idx, dropped, h2d, core, race, known>>

-----------------------------------------------------------------------------
(* cudaFree and its relatives: gate_mark_freed, then the real free.        *)

Entries(va) == {i \in Published : table[i].va = va /\ ~table[i].freed}

(* Mutant: the oldest entry of the address is taken, freed or not.         *)
MarkFreedOldest(t, a) ==
  LET hits == {i \in Published : table[i].va = a.va} IN
  /\ pc[t] = "idle" /\ a \in live \ Pending
  /\ pc' = [pc EXCEPT ![t] = "free"]
  /\ arg' = [arg EXCEPT ![t] = a]
  /\ table' = [i \in Slots |->
                 IF i \in hits /\ \A k \in hits : i <= k
                 THEN [table[i] EXCEPT !.freed = TRUE] ELSE table[i]]
  /\ UNCHANGED <<live, count, user, idx, dropped, h2d, core, race, known>>

(* The most recent unfreed entry of the address is flagged.                *)
MarkFreed(t, a) ==
  /\ pc[t] = "idle" /\ a \in live \ Pending
  /\ pc' = [pc EXCEPT ![t] = "free"]
  /\ arg' = [arg EXCEPT ![t] = a]
  /\ table' = [i \in Slots |->
                 IF i \in Entries(a.va) /\ \A k \in Entries(a.va) : k <= i
                 THEN [table[i] EXCEPT !.freed = TRUE] ELSE table[i]]
  /\ UNCHANGED <<live, count, user, idx, dropped, h2d, core, race, known>>

Free(t) ==
  /\ pc[t] = "free"
  /\ live' = live \ {arg[t]}
  /\ dropped' = dropped \ {arg[t]} /\ h2d' = h2d \ {arg[t]}
  /\ raced' = raced \ {arg[t]} /\ known' = known \ {arg[t]}
  /\ pc' = [pc EXCEPT ![t] = "idle"]
  /\ arg' = [arg EXCEPT ![t] = None]
  /\ UNCHANGED <<count, table, user, idx, core, overlapped>>

(* Mutant: the entries are not compared with the target of the copy.       *)
MarkH2DAll(t, a, addr) ==
  /\ pc[t] = "idle" /\ a \in live \ Pending
  /\ a.va <= addr /\ addr < a.va + a.size
  /\ table' = [i \in Slots |->
                 IF i \in Published THEN [table[i] EXCEPT !.h2d = TRUE] ELSE table[i]]
  /\ h2d' = h2d \cup {a}
  /\ UNCHANGED <<live, count, user, pc, arg, idx, dropped, core, race, known>>

(* A host-to-device copy flags the first entry that covers its target,     *)
(* freed or not (save_h2d_weight, mark_h2d_flag).                          *)
MarkH2D(t, a, addr) ==
  LET hits == {i \in Published : table[i].va <= addr /\ addr < table[i].va + table[i].size} IN
  /\ pc[t] = "idle" /\ a \in live \ Pending
  /\ a.va <= addr /\ addr < a.va + a.size
  /\ table' = [i \in Slots |->
                 IF i \in hits /\ \A k \in hits : i <= k
                 THEN [table[i] EXCEPT !.h2d = TRUE] ELSE table[i]]
  /\ h2d' = h2d \cup {a}
  /\ UNCHANGED <<live, count, user, pc, arg, idx, dropped, core, race, known>>

-----------------------------------------------------------------------------
(* What the readers make of the table.                                     *)

(* Live allocations whose hook has returned and that have an entry.        *)
Recorded == live \ (Pending \cup dropped)

(* ckpt_core reads the count and the largest allocation and keeps them.    *)
CoreOpen ==
  /\ cpc = "out"
  /\ cpc' = "open" /\ n_allocs' = count /\ user_read' = user
  /\ known' = Recorded \ raced
  /\ UNCHANGED <<live, count, table, user, pc, arg, idx, dropped, h2d, race>>

CoreExit ==
  /\ cpc = "open"
  /\ cpc' = "out" /\ n_allocs' = 0 /\ user_read' = [va |-> 0, size |-> 0]
  /\ known' = {}
  /\ UNCHANGED <<live, count, table, user, pc, arg, idx, dropped, h2d, race>>

(* ckpt_core: the first entry that contains a managed range decides if the *)
(* range is captured, and if it is static (left out of base and delta).    *)
(* With no entries the largest allocation decides.                         *)
Covering(a) == {i \in Slots : i < n_allocs /\ Within(a, table[i])}
Kept(a) ==
  IF n_allocs > 0 THEN Covering(a) # {} ELSE user_read.va = 0 \/ Within(a, user_read)
Matched(a) == {i \in Covering(a) : \A k \in Covering(a) : i <= k}
Static(a) == \E i \in Matched(a) : table[i].h2d

(* The in-app baseline: the entries that are not freed.                    *)
EntryRange(i) == [va |-> table[i].va, size |-> table[i].size]
Unfreed == {i \in Published : ~table[i].freed}
BaselineRanges == {EntryRange(i) : i \in Unfreed}

Next ==
  \/ \E t \in Threads :
       \/ \E a \in Ranges : Malloc(t, a) \/ MarkFreed(t, a)
       \/ UserCheck(t) \/ UserSet(t) \/ TakeSlot(t) \/ FillVa(t) \/ FillSize(t)
       \/ Publish(t) \/ Free(t)
       \/ \E a \in Ranges, addr \in 1..Units : MarkH2D(t, a, addr)
  \/ CoreOpen \/ CoreExit

Spec == Init /\ [][Next]_vars

-----------------------------------------------------------------------------

(* The in-app baseline copies what is allocated: outside the hooks every   *)
(* live allocation has an unfreed entry, except those that found the table *)
(* full and those recorded while another thread was recording; and the     *)
(* unfreed entries are live allocations as long as no two recordings have  *)
(* overlapped.                                                             *)
BaselineIsLive ==
  Pending = {} =>
    /\ live \ (dropped \cup raced) \subseteq BaselineRanges
    /\ overlapped = "no" => BaselineRanges \subseteq live \ dropped

(* What was recorded when ckpt_core read the count, and is still there, is *)
(* captured whenever ckpt_core looks at the table again, whatever other    *)
(* threads have recorded, freed and recorded over one another meanwhile;   *)
(* except what was itself recorded while another thread was recording.     *)
LiveKept == cpc = "open" => \A a \in known : Kept(a)

(* A range is left out of base and delta as static only if the host filled *)
(* it, though addresses are used again and entries are never removed;      *)
(* except where the entry that matches first is that of a freed            *)
(* allocation, which is not skipped, and once two recordings have          *)
(* overlapped.                                                             *)
StaticIsFilled ==
  cpc = "open" /\ overlapped = "no" =>
    \A a \in known : Static(a) => a \in h2d \/ \E i \in Matched(a) : table[i].freed

-----------------------------------------------------------------------------
(* Why the two hold, as an inductive invariant.                            *)

TypeOK ==
  /\ live \subseteq Ranges /\ dropped \subseteq live /\ h2d \subseteq live
  /\ raced \subseteq live /\ known \subseteq live /\ overlapped \in {"no", "yes"}
  /\ count \in 0..Max /\ n_allocs \in 0..Max /\ cpc \in {"out", "open"}
  /\ table \in [Slots -> [va : Int, size : Int, freed : BOOLEAN, h2d : BOOLEAN]]
  /\ user \in [va : Int, size : Int] /\ user_read \in [va : Int, size : Int]
  /\ pc \in [Threads -> {"idle", "user", "userset", "slot", "va", "size", "bump", "free"}]
  /\ arg \in [Threads -> Ranges \cup {None}]
  /\ idx \in [Threads -> 0..Max]

(* What CUDA has handed out does not overlap.                              *)
Apart == \A a, b \in live : a # b => ~Overlap(a, b)

(* Threads that have yet to finish recording an allocation.                *)
Fresh == {t \in Threads : pc[t] \notin {"idle", "free"}}

(* A hook works on a live allocation of its own; one that is being         *)
(* recorded was not recorded before.                                       *)
Hooks ==
  /\ \A t \in Threads : pc[t] # "idle" => arg[t] \in live
  /\ \A t, u \in Threads : t # u /\ pc[t] # "idle" /\ pc[u] # "idle" => arg[t] # arg[u]
  /\ \A t \in Fresh : arg[t] \notin dropped \cup known

(* A thread that records alone has the slot behind the published entries,  *)
(* and puts its allocation there.                                          *)
Alone ==
  \A t \in Recorders :
    /\ idx[t] < Max
    /\ arg[t] \notin raced =>
         /\ Recorders = {t} /\ idx[t] = count
         /\ pc[t] \in {"size", "bump"} => table[count].va = arg[t].va
         /\ pc[t] = "bump" => table[count].size = arg[t].size /\ ~table[count].freed

(* Entry i is published, and no thread will write to it or unpublish it.   *)
Solid(i) == i \in Published /\ \A t \in Recorders : i < idx[t]

(* An allocation that was recorded by a thread alone has a solid entry.    *)
Owned == live \ ({arg[t] : t \in Fresh} \cup dropped \cup raced)

HaveEntry ==
  \A a \in Owned :
    \E i \in Slots : Solid(i) /\ EntryRange(i) = a /\ (a \notin Pending => ~table[i].freed)

(* So has one that ckpt_core may know of, below the count it read.         *)
KnownEntry == \A a \in known : \E i \in Slots : Solid(i) /\ i < n_allocs /\ EntryRange(i) = a

(* Without a race the unfreed entries are the recorded allocations, one    *)
(* entry each.                                                             *)
Clean ==
  overlapped = "no" =>
    /\ raced = {}
    /\ \A i \in Unfreed : EntryRange(i) \in Recorded
    /\ \A i, k \in Unfreed : EntryRange(i) = EntryRange(k) => i = k

TableInv ==
  TypeOK /\ Apart /\ Hooks /\ Alone /\ HaveEntry /\ KnownEntry /\ Clean

=============================================================================
