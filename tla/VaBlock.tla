------------------------------ MODULE VaBlock ------------------------------
(***************************************************************************)
(* One VA block of the UVM driver (uvm_va_block.c): where each page is     *)
(* resident, who maps it and how, and the steps by which a fault, an       *)
(* eviction, a tools write or the teardown of a GPU moves it.              *)
(*                                                                         *)
(* Everything the driver does here runs under the block's lock, but what   *)
(* it asks of the GPUs runs later: page table updates, copies, memsets and *)
(* chunk frees are pushes, ordered only by the block's tracker.  The model *)
(* keeps the two apart: blk is what the driver believes, hw what the page  *)
(* tables and memories really hold.  hw.q is the tracker: a sequence of    *)
(* stages, each a set of pushes that may run in any order; a later stage   *)
(* has acquired the earlier ones.  CPU page tables change at once.         *)
(*                                                                         *)
(* An operation that runs out of memory, or has to drop the lock to evict  *)
(* (NV_ERR_MORE_PROCESSING_REQUIRED), is Abandoned where it stands; its    *)
(* restart is a new fault, which selects the residency again.              *)
(***************************************************************************)
EXTENDS Integers, Sequences, FiniteSets

CONSTANTS
  Modes,      \* configurations of the VA space: hardware, policy, pages
  MaxQueue    \* bound: stages outstanding when an operation starts

VARIABLES
  mode,   \* the configuration, fixed at the start
  att,    \* att[g]: "on" with a GPU VA space, "off" without, "gone" unregistered
  peers,  \* peer access between the GPUs is enabled
  blk,    \* uvm_va_block_t
  op,     \* the operation that holds the block's lock
  hw,     \* memories, page tables and outstanding pushes
  missed  \* history: the GPUs that the last PREPARE_ALL failed to revoke

vars == <<mode, att, peers, blk, op, hw, missed>>

ASSUME ModesAssumption == MaxQueue \in Nat /\
  \A m \in Modes : /\ "cpu" \notin m.gpus
                   /\ m.cc => ~m.sysmem /\ m.peer = "none"
                   /\ m.pref \in {"cpu", "none"} \cup m.gpus
                   /\ m.by \subseteq {"cpu"} \cup m.gpus

Pages == mode.pages
Procs == {"cpu"} \cup mode.gpus

NoPte == [prot |-> 0, to |-> "none"]
Idle  == [pc |-> "idle", kind |-> "none", who |-> "none", acc |-> <<>>,
          dst |-> "none", dup |-> FALSE, moved |-> {}, np |-> <<>>, wait |-> FALSE]

Init == /\ mode \in Modes
        /\ att = [g \in mode.gpus |-> "on"]
        /\ peers = (mode.peer # "none")
        /\ blk = [resident |-> [x \in Procs |-> {}],
                  prot     |-> [x \in Procs |-> [p \in Pages |-> 0]],
                  chunk    |-> {},  alloc |-> {},
                  readdup  |-> {},  maybe |-> {},
                  evicted  |-> [g \in mode.gpus |-> {}],
                  tracking |-> FALSE, dirty |-> FALSE,
                  evq      |-> FALSE, dead  |-> FALSE]
        /\ op = Idle
        /\ hw = [cur |-> [x \in Procs |-> {}],
                 pte |-> [x \in Procs |-> [p \in Pages |-> NoPte]],
                 q   |-> <<>>]
        /\ missed = {}

-----------------------------------------------------------------------------
(* Topology and residency *)

\* accessible_from: the processors that can map memory of x
Accessible(x) == {y \in Procs : \/ y = x
                                \/ x = "cpu" /\ mode.sysmem
                                \/ x # "cpu" /\ y # "cpu" /\ peers}

\* has_native_atomics: those whose atomics on memory of x are native
Native(x) == {y \in Accessible(x) : y = x \/ (x # "cpu" /\ mode.peer = "nvlink")}

\* can_copy_from: the processors whose memory GPU d copies from without staging
CanCopyFrom(d) == {"cpu"} \cup IF peers THEN mode.gpus ELSE {}

Rank(x, y) == CASE y = x                                 -> 0
                [] y # x /\ x # "cpu" /\ y # "cpu" /\ peers -> 1
                [] y # x /\ y = "cpu"                    -> 2
                [] OTHER                                 -> 3

\* uvm_va_block_page_get_closest_resident
Closest(x, S) == CHOOSE y \in S : \A z \in S : Rank(x, y) <= Rank(x, z)

\* uvm_va_block_page_resident_processors
ResidentProcs(p) == {x \in Procs : p \in blk.resident[x]}

\* block_page_authorized_processors
Authorized(p, q) == {x \in Procs : blk.prot[x][p] >= q}

Drained == hw.q = <<>>
Free    == op.pc = "idle" /\ ~blk.dead

-----------------------------------------------------------------------------
(* Changes of mappings.  A change is a function from processors to partial *)
(* functions from pages to PTEs; the driver's bits follow it at once, the  *)
(* GPU page tables when the push runs.                                     *)

NoChange == [x \in Procs |-> <<>>]
Or(r, s) == [p \in DOMAIN r \cup DOMAIN s |-> IF p \in DOMAIN r THEN r[p] ELSE s[p]]
Both(R, S) == [x \in Procs |-> Or(R[x], S[x])]

Push(h, stage) == IF stage = {} THEN h ELSE [h EXCEPT !.q = Append(@, stage)]

\* what the driver records: pte_bits, and maybe_mapped_pages where it maps
Bits(b, R) ==
  [b EXCEPT !.prot = [x \in Procs |-> [p \in Pages |->
                        IF p \in DOMAIN R[x] THEN R[x][p].prot ELSE @[x][p]]],
            !.maybe = @ \cup {p \in Pages : \E x \in Procs :
                                p \in DOMAIN R[x] /\ R[x][p].prot > 0}]

\* what it does: CPU PTEs now, one push to each GPU that is concerned
CpuPtes(h, r) == [h EXCEPT !.pte["cpu"] = [p \in Pages |-> IF p \in DOMAIN r THEN r[p] ELSE @[p]]]

Ptes(h, R) ==
  Push(CpuPtes(h, R["cpu"]),
       {[k |-> "pte", at |-> g, set |-> R[g]] : g \in {g \in mode.gpus : DOMAIN R[g] # {}}})

MapsCpu(R) == \E p \in DOMAIN R["cpu"] : R["cpu"][p].prot > 0

\* mutant: only page table updates are waited for, not copies
CpuWaitsPtes(R) ==
  MapsCpu(R) => \A i \in DOMAIN hw.q : \A w \in hw.q[i] : w.k # "pte"

\* a CPU PTE is inserted only after the tracker's work is done
CpuWaits(R) == MapsCpu(R) => Drained

\* uvm_va_block_unmap: M gives the pages to unmap from each processor
Unmapping(M) == [x \in Procs |-> [p \in {p \in M[x] : blk.prot[x][p] > 0} |-> NoPte]]

\* uvm_va_block_revoke_prot: x loses prot l and above on P.  The CPU has no
\* separate atomic permission; its write access is revoked by mapping it
\* read-only again.
Revoking(x, P, l) ==
  [p \in {p \in P : blk.prot[x][p] >= l /\ ~(x = "cpu" /\ l = 3)} |->
     [prot |-> l - 1, to |-> Closest(x, ResidentProcs(p))]]

\* map_get_allowed_destinations
Allowed(x) == IF mode.rd \/ mode.pref = x THEN {x} ELSE {y \in Procs : x \in Accessible(y)}

\* uvm_va_block_map: pages of P that x maps with less than prot q, and that
\* are resident where x may map them, are mapped to the closest copy
Mapping(x, P, q) ==
  LET prot == IF x = "cpu" /\ q > 1 THEN 3 ELSE q
      Copies(p) == Allowed(x) \cap ResidentProcs(p)
  IN  IF x # "cpu" /\ att[x] # "on" THEN <<>>
      ELSE [p \in {p \in P : blk.prot[x][p] < prot /\ Copies(p) # {}} |->
              [prot |-> prot, to |-> Closest(x, Copies(p))]]

-----------------------------------------------------------------------------
(* Servicing: which residency, what to unmap *)

\* can_read_duplicate
CanReadDuplicate(p) == mode.rd \/ p \in blk.readdup

\* block_select_processor_residency
SelectResidency(p, x) ==
  LET here == ResidentProcs(p)
      near == Closest(x, here)
      viaPreferred == mode.pref # "none" /\ x \in Accessible(mode.pref)
  IN  IF CanReadDuplicate(p) \/ mode.pref = x THEN x
      ELSE IF here = {} THEN IF viaPreferred THEN mode.pref ELSE x
      ELSE IF x \in mode.by /\ x \in Accessible(near) THEN near
      ELSE IF near # x /\ viaPreferred THEN mode.pref
      ELSE x

\* make_resident_copy: a page that moves is unmapped everywhere, a
\* duplicated one everywhere but at the destination
MoveUnmaps(P, d) ==
  Unmapping([x \in Procs |-> (P \ blk.resident[d]) \cup IF x = d THEN {} ELSE P \cap blk.readdup])

\* block_prep_read_duplicate_mapping: before a page gets its second copy,
\* the owner of the first keeps it read-only and all others lose it
DupUnmaps(P) ==
  LET first(x) == {p \in P \ blk.readdup : p \in blk.resident[x]}
      some     == UNION {first(x) : x \in Procs}
  IN  Both(Unmapping([x \in Procs |-> some \ first(x)]),
           [x \in Procs |-> Revoking(x, first(x), 2)])

\* the common start of uvm_va_block_make_resident_copy and _read_duplicate
MakeResident(kind, x, acc, d, dup) ==
  LET P == DOMAIN acc
      R == IF dup THEN DupUnmaps(P) ELSE MoveUnmaps(P, d)
  IN  /\ Len(hw.q) <= MaxQueue
      /\ CpuWaits(R)
      /\ blk' = Bits(blk, R)
      /\ hw' = Ptes(hw, R)
      /\ op' = [Idle EXCEPT !.pc = IF P \subseteq blk.resident[d] THEN "copy" ELSE "populate",
                            !.kind = kind, !.who = x, !.acc = acc, !.dst = d, !.dup = dup]
      /\ UNCHANGED <<mode, att, peers, missed>>

\* the faulted pages: all with new residency d, and all duplicated or none
Service(x, acc) ==
  \E d \in Procs, dup \in BOOLEAN :
    /\ \A p \in DOMAIN acc : /\ blk.prot[x][p] < acc[p]
                             /\ SelectResidency(p, x) = d
                             /\ dup = (CanReadDuplicate(p) /\ acc[p] <= 1)
    /\ MakeResident("fault", x, acc, d, dup)

\* uvm_va_block_service_locked: a GPU faults on several pages at once
GpuFault(g) ==
  /\ Free
  /\ att[g] = "on"
  /\ \E F \in (SUBSET Pages) \ {{}} : \E acc \in [F -> 1..3] : Service(g, acc)

\* block_cpu_fault_locked: the CPU faults on one; a write asks for everything
\* (ATOMIC_STRONG)
CpuFault ==
  /\ Free
  /\ \E p \in Pages, a \in {1, 3} : Service("cpu", [x \in {p} |-> a])

-----------------------------------------------------------------------------
(* Servicing: memory, copies, residency *)

P_op    == DOMAIN op.acc
Missing == P_op \ blk.resident[op.dst]

\* pages a GPU cannot copy directly go through CPU memory
Staged == IF op.dst = "cpu" THEN {}
          ELSE {p \in Missing : /\ ResidentProcs(p) # {}
                                /\ ResidentProcs(p) \cap CanCopyFrom(op.dst) = {}}

Nowhere == {p \in Pages : ResidentProcs(p) = {}}

\* block_populate_gpu_chunk: a new chunk is zeroed where no page is resident
\* anywhere
PopulateGpu(g) ==
  IF g \in blk.chunk THEN /\ UNCHANGED hw
                          /\ blk' = [blk EXCEPT !.alloc = @ \cup Staged]
  ELSE /\ blk' = [blk EXCEPT !.chunk = @ \cup {g}, !.alloc = @ \cup Staged]
       /\ hw' = Push(hw, IF Nowhere = {} THEN {}
                         ELSE {[k |-> "zero", at |-> g, pages |-> Nowhere]})

\* block_populate_pages_cpu, likewise
PopulateCpu ==
  /\ blk' = [blk EXCEPT !.alloc = @ \cup Missing]
  /\ hw' = [hw EXCEPT !.cur["cpu"] = @ \cup ((Missing \ blk.alloc) \cap Nowhere)]

\* block_populate_pages: memory for the destination, and for staging
Populate ==
  /\ op.pc = "populate"
  /\ IF op.dst = "cpu" THEN PopulateCpu ELSE PopulateGpu(op.dst)
  /\ op' = [op EXCEPT !.pc = "copy"]
  /\ UNCHANGED <<mode, att, peers, missed>>

\* the copy that block_copy_resident_pages takes a missing page from
Source(p) ==
  LET here   == ResidentProcs(p)
      direct == here \cap CanCopyFrom(op.dst)
  IN  IF op.dst = "cpu" \/ direct = {} THEN Closest("cpu", here) ELSE Closest(op.dst, direct)

Copies(P, to) == {[k |-> "copy", from |-> s, to |-> to, pages |-> {p \in P : Source(p) = s}] :
                    s \in {Source(p) : p \in P}}

\* conf_computing_copy_pages_finish: the copy to CPU memory has been waited
\* for, and is decrypted there
Decrypt(h, P) == [h EXCEPT !.cur["cpu"] = (@ \ P) \cup {p \in P : p \in h.cur[Source(p)]}]

\* conf_computing_block_copy_push_cpu_to_gpu: CPU memory is encrypted before
\* the push, which carries the data of that moment
Encrypt(h, P) == {[k |-> "cap", to |-> op.dst, pages |-> P, good |-> P \cap h.cur["cpu"]]}

\* block_copy_resident_pages; a staged copy takes two stages
CopyResidentPages(h, migrated) ==
  IF mode.cc
  THEN IF op.dst = "cpu" THEN Decrypt(h, migrated)
       ELSE LET staged == Decrypt(h, Staged) IN Push(staged, Encrypt(staged, migrated))
  ELSE Push(Push(h, Copies(migrated \ Staged, op.dst) \cup Copies(Staged, "cpu")),
            IF Staged = {} THEN {}
            ELSE {[k |-> "copy", from |-> "cpu", to |-> op.dst, pages |-> Staged]})

\* block_make_resident_update_state: pages that were copied.  An eviction
\* leaves a mark on the GPUs it copied from.
UpdateState(b, migrated, sources) ==
  [b EXCEPT
     !.resident[op.dst] = @ \cup migrated,
     !.maybe = @ \ migrated,
     !.evicted = [g \in mode.gpus |->
        IF op.kind = "evict" THEN IF g \in sources THEN @[g] \cup migrated ELSE @[g]
        ELSE IF g = op.dst THEN @[g] \ migrated ELSE @[g]]]

\* block_copy_set_first_touch_residency: pages that were resident nowhere
FirstTouch(b, P) == [b EXCEPT !.resident[op.dst] = @ \cup P]

\* mutant: the mark goes, the other copies stay
BreakReadDuplicationMark(b) == [b EXCEPT !.readdup = @ \ P_op]

\* break_read_duplication_in_region: the destination has the only copy
BreakReadDuplication(b) ==
  [b EXCEPT !.readdup = @ \ P_op,
            !.resident = [x \in Procs |-> IF x = op.dst THEN @[x] ELSE @[x] \ P_op]]

\* uvm_va_block_make_resident_finish
MoveFinish(migrated, sources) ==
  BreakReadDuplication(FirstTouch(UpdateState(blk, migrated, sources), P_op))

\* the end of uvm_va_block_make_resident_read_duplicate: one copy more, and
\* the staging page stays as another
DupFinish(migrated) ==
  [blk EXCEPT
     !.resident = [x \in Procs |-> @[x] \cup IF x = op.dst THEN P_op
                                             ELSE IF x = "cpu" THEN Staged ELSE {}],
     !.readdup = @ \cup migrated \cup Staged,
     !.evicted = [g \in mode.gpus |-> IF g = op.dst THEN @[g] \ migrated ELSE @[g]]]

\* where make_resident returns to
After(kind) == CASE kind = "fault"      -> "revoke"
                 [] kind = "evict"      -> "free"
                 [] kind = "host"       -> "write"
                 [] kind = "unregister" -> "destroy"

\* the copies and the new residency; uvm_va_block_service_copy waits for
\* copies to the CPU
Copy ==
  LET migrated == {p \in Missing : ResidentProcs(p) # {}}
      sources  == {Source(p) : p \in migrated}
  IN  /\ op.pc = "copy"
      /\ mode.cc /\ migrated # {} => Drained
      /\ hw' = IF migrated = {} THEN hw ELSE CopyResidentPages(hw, migrated)
      /\ blk' = IF op.dup THEN DupFinish(migrated) ELSE MoveFinish(migrated, sources)
      /\ op' = [op EXCEPT !.pc = After(op.kind),
                          !.moved = IF op.dup THEN Missing \ migrated ELSE Missing,
                          !.wait = op.dst = "cpu" /\ migrated # {}]
      /\ UNCHANGED <<mode, att, peers, missed>>

\* an allocation or the first push of a copy fails, or the lock has to be
\* dropped to evict
Abandoned ==
  /\ op.kind \in {"fault", "evict", "host"}
  /\ op.pc \in {"populate", "copy", "revoke", "map", "others"}
  /\ op' = Idle
  /\ UNCHANGED <<mode, att, peers, blk, hw, missed>>

-----------------------------------------------------------------------------
(* Servicing: permissions and mappings (uvm_va_block_service_finish) *)

\* block_region_might_read_duplicate
MightReadDuplicate(p) == mode.rd \/ p \in blk.readdup

\* compute_new_permission: reads get write access where nobody has to lose
\* atomics for it, writes get atomics where they are native
NewPermission(p) ==
  LET n == IF op.acc[p] = 1 /\ ~MightReadDuplicate(p) /\ Authorized(p, 3) \subseteq Native(op.dst)
           THEN 2 ELSE op.acc[p]
  IN  IF n = 2 /\ op.who \in Native(op.dst) THEN 3 ELSE n

WithPermission(n) == {p \in P_op : NewPermission(p) = n}

\* The bulk restore: while the block is tracked, a GPU that faults on pages
\* of its own memory gets all of its pages in the block.  The masks of
\* permissions no page has are not cleared first: rw and rwa are what the
\* context holds from earlier (rwaOld, rwOld).
BulkRestore == blk.tracking /\ op.who # "cpu" /\ op.who = op.dst

Bulk(rwOld, rwaOld) ==
  LET rw   == IF WithPermission(2) = {} THEN rwOld ELSE WithPermission(2)
      rwa  == IF WithPermission(3) = {} THEN rwaOld ELSE WithPermission(3)
      rest == blk.resident[op.dst] \ (rwa \cup rw)
      none == WithPermission(3) = {} /\ rw = {} /\ rest = {}
      all  == IF none THEN {} ELSE rwa \cup rw \cup rest
      ro   == WithPermission(1) \ rest
  IN  [p \in all \cup ro |-> IF p \in all THEN 3 ELSE 1]

\* mutant: only pages that were written are recorded
RecordsWrites(np) == /\ blk.tracking
                     /\ op.who # "cpu"
                     /\ \E p \in P_op : op.acc[p] >= 2

\* uvm_live_migration_record_write_fault, if the rw and rwa masks have a page;
\* after a bulk restore they have every page of the GPU
Records(np) == /\ blk.tracking
               /\ op.who # "cpu"
               /\ BulkRestore \/ \E p \in DOMAIN np : np[p] >= 2

\* what the others lose: atomics next to a writer, and write access next to
\* atomics that are not native
Revocation(np) ==
  LET stay(n) == {p \in P_op \ op.moved : np[p] = n}
      native  == op.who \in Native(op.dst)
      loses(y, n) == y # op.who /\ (n = 2 \/ native => y \notin Native(op.dst))
      level(n) == IF op.who = "cpu" \/ n = 2 THEN 3 ELSE 2
  IN  [y \in Procs |-> [p \in UNION {DOMAIN Revoking(y, stay(n), level(n)) :
                                       n \in {n \in {2, 3} : loses(y, n)}} |->
                          Revoking(y, {p}, level(np[p]))[p]]]

Revoke ==
  /\ op.pc = "revoke"
  /\ op.wait => Drained
  /\ \E rwOld, rwaOld \in IF BulkRestore THEN SUBSET Pages ELSE {{}} :
       LET np == IF BulkRestore THEN Bulk(rwOld, rwaOld) ELSE [p \in P_op |-> NewPermission(p)]
           R  == Revocation(np)
       IN  /\ CpuWaits(R)
           /\ blk' = [Bits(blk, R) EXCEPT !.dirty = @ \/ Records(np)]
           /\ hw' = Ptes(hw, R)
           /\ op' = [op EXCEPT !.pc = "map", !.np = np]
  /\ UNCHANGED <<mode, att, peers, missed>>

PagesWith(n) == {p \in DOMAIN op.np : op.np[p] = n}

\* policy->accessed_by: processors that are mapped along with the faulting one
Followers ==
  IF mode.rd THEN {}
  ELSE ((mode.by \cap Accessible(op.dst)) \ {op.who})
         \ IF mode.pref \notin {"none", op.dst} THEN {mode.pref} ELSE {}

\* the faulting processor is mapped
Map ==
  LET R == [NoChange EXCEPT ![op.who] =
              Or(Mapping(op.who, PagesWith(1), 1),
                 Or(Mapping(op.who, PagesWith(2), 2), Mapping(op.who, PagesWith(3), 3)))]
  IN  /\ op.pc = "map"
      /\ CpuWaits(R)
      /\ blk' = Bits(blk, R)
      /\ hw' = Ptes(hw, R)
      /\ op' = IF Followers = {} THEN Idle ELSE [op EXCEPT !.pc = "others"]
      /\ UNCHANGED <<mode, att, peers, missed>>

\* do_block_add_mappings_after_migration: the permission of a follower
FollowerProt(y, n) ==
  IF n < 3 THEN n
  ELSE IF op.who \in Native(op.dst) THEN IF y \in Native(op.dst) THEN 3 ELSE 2
  ELSE IF op.who = "cpu" THEN 2 ELSE 1

\* uvm_va_block_add_mappings_after_migration
MapFollowers ==
  LET of(y, n) == Mapping(y, (PagesWith(n) \cap P_op) \ blk.readdup, FollowerProt(y, n))
      R == [y \in Procs |-> IF y \in Followers THEN Or(of(y, 1), Or(of(y, 2), of(y, 3))) ELSE <<>>]
  IN  /\ op.pc = "others"
      /\ CpuWaits(R)
      /\ blk' = Bits(blk, R)
      /\ hw' = Ptes(hw, R)
      /\ op' = Idle
      /\ UNCHANGED <<mode, att, peers, missed>>

-----------------------------------------------------------------------------
(* Eviction *)

\* uvm_va_block_evict_chunks: what is resident on g goes to the CPU
EvictChunks(g) ==
  /\ Free
  /\ g \in blk.chunk
  /\ MakeResident("evict", g, [p \in blk.resident[g] |-> 0], "cpu", FALSE)

\* the chunk is freed when the tracker is done with it, and a worker is
\* scheduled to map the evicted pages where they are now
FreeChunk ==
  /\ op.pc = "free"
  /\ blk' = [blk EXCEPT !.chunk = @ \ {op.who},
                        !.evq = @ \/ mode.by # {} \/ mode.evmap]
  /\ hw' = Push(hw, {[k |-> "free", at |-> op.who]})
  /\ op' = Idle
  /\ UNCHANGED <<mode, att, peers, missed>>

\* uvm_va_block_page_compute_highest_permission
HighestPermission(p, x) ==
  LET here == ResidentProcs(p)
      home == CHOOSE y \in here : TRUE
      atomics == Authorized(p, 3) \ {x}
      writers == Authorized(p, 2) \ {x}
  IN  CASE here = {}                                    -> 0
        [] Cardinality(here) > 1                        -> IF x \in here THEN 1 ELSE 0
        [] Cardinality(here) = 1 /\ x \notin Accessible(home) -> 0
        [] OTHER -> IF p \notin blk.maybe THEN 3
                    ELSE IF \E y \in atomics : y \notin Native(home) THEN 1
                    ELSE IF x \in Native(home) \/ writers = {} THEN 3 ELSE 2

\* uvm_va_block_add_mappings
AddMappings(x, P) ==
  LET by(n) == {p \in P \ blk.readdup : HighestPermission(p, x) = n}
  IN  Or(Mapping(x, by(1), 1), Or(Mapping(x, by(2), 2), Mapping(x, by(3), 3)))

\* block_add_eviction_mappings, the worker: the lock is taken for each
\* processor anew, so faults and evictions come in between
EvictionMappings(x) ==
  LET P == IF x \in mode.by THEN Pages ELSE blk.evicted[x]
      R == [NoChange EXCEPT ![x] = AddMappings(x, P)]
  IN  /\ Free
      /\ blk.evq
      /\ \/ x \in mode.by /\ ~mode.rd
         \/ x \notin mode.by \cup {"cpu"} /\ mode.evmap
      /\ Len(hw.q) <= MaxQueue
      /\ CpuWaits(R)
      /\ blk' = Bits(blk, R)
      /\ hw' = Ptes(hw, R)
      /\ UNCHANGED <<mode, att, peers, op, missed>>

EvictionMappingsEnd ==
  /\ Free
  /\ blk.evq
  /\ blk' = [blk EXCEPT !.evq = FALSE]
  /\ UNCHANGED <<mode, att, peers, op, hw, missed>>

-----------------------------------------------------------------------------
(* Operations under the VA space lock *)

\* an operation that unmaps, and ends when the tracker is done
UnmapAndWait(kind, x, M) ==
  LET R == Unmapping(M)
  IN  /\ Free
      /\ Len(hw.q) <= MaxQueue
      /\ blk' = Bits(blk, R)
      /\ hw' = Ptes(hw, R)
      /\ op' = [Idle EXCEPT !.pc = "wait", !.kind = kind, !.who = x]
      /\ UNCHANGED <<mode, att, peers, missed>>

\* uvm_va_block_remove_gpu_va_space
RemoveGpuVaSpace(g) ==
  /\ att[g] = "on"
  /\ UnmapAndWait("remove", g, [x \in Procs |-> IF x = g THEN Pages ELSE {}])

\* uvm_va_block_add_gpu_va_space
AddGpuVaSpace(g) ==
  /\ Free
  /\ att[g] = "off"
  /\ att' = [att EXCEPT ![g] = "on"]
  /\ UNCHANGED <<mode, peers, blk, op, hw, missed>>

\* uvm_va_block_disable_peer: what one GPU has only in the other's memory
DisablePeer ==
  /\ peers
  /\ UnmapAndWait("disable_peer", "none",
       [x \in Procs |-> IF x = "cpu" THEN {}
                        ELSE (UNION {blk.resident[g] : g \in mode.gpus}) \ blk.resident[x]])

\* uvm_va_block_unregister_gpu, after its VA space is gone: the pages go to
\* the CPU, then the GPU's state is destroyed
UnregisterGpu(g) ==
  /\ Free
  /\ att[g] = "off"
  /\ MakeResident("unregister", g, [p \in blk.resident[g] |-> 0], "cpu", FALSE)

\* block_destroy_gpu_state
DestroyGpuState ==
  LET g == op.who
      others == Procs \ {g}
  IN  /\ op.pc = "destroy"
      /\ blk' = [blk EXCEPT
                   !.resident[g] = {},
                   !.readdup = {p \in Pages : \E x, y \in others :
                                  x # y /\ p \in blk.resident[x] \cap blk.resident[y]},
                   !.chunk = @ \ {g},
                   !.evicted[g] = {}]
      /\ hw' = Push(hw, IF g \in blk.chunk THEN {[k |-> "free", at |-> g]} ELSE {})
      /\ op' = [op EXCEPT !.pc = "wait"]
      /\ UNCHANGED <<mode, att, peers, missed>>

\* block_kill
Kill == UnmapAndWait("kill", "none", [x \in Procs |-> Pages])

\* the tracker is done: the end of remove, disable_peer, unregister and kill
Waited ==
  /\ op.pc = "wait"
  /\ Drained
  /\ op' = Idle
  /\ peers' = (peers /\ op.kind # "disable_peer")
  /\ att' = CASE op.kind = "remove"     -> [att EXCEPT ![op.who] = "off"]
              [] op.kind = "unregister" -> [att EXCEPT ![op.who] = "gone"]
              [] OTHER                  -> att
  /\ IF op.kind = "kill"
     THEN /\ blk' = [blk EXCEPT !.dead = TRUE, !.chunk = {}, !.alloc = {}, !.readdup = {},
                                !.resident = [x \in Procs |-> {}],
                                !.evicted = [g \in mode.gpus |-> {}]]
          /\ hw' = [hw EXCEPT !.cur = [x \in Procs |-> {}]]
     ELSE UNCHANGED <<blk, hw>>
  /\ UNCHANGED <<mode, missed>>

\* memory x is written on p: its copy is the current one, and what an
\* encrypted push carries of p is not
Written(h, x, p) ==
  [h EXCEPT !.cur = [y \in Procs |-> IF y = x THEN @[y] \cup {p} ELSE @[y] \ {p}],
            !.q = [i \in DOMAIN @ |->
                     {IF w.k = "cap" THEN [w EXCEPT !.good = @ \ {p}] ELSE w : w \in @[i]}]]

\* uvm_va_block_write_from_cpu: a tools write goes to the copy that is
\* closest to the CPU, which becomes the only one
WriteFromCpu(p) ==
  LET here == ResidentProcs(p)
  IN  /\ Free
      /\ MakeResident("host", "cpu", [x \in {p} |-> 0], IF here = {} THEN "cpu" ELSE Closest("cpu", here), FALSE)

HostWrite ==
  /\ op.pc = "write"
  /\ Drained
  /\ hw' = Written(hw, op.dst, CHOOSE p \in P_op : TRUE)
  /\ op' = Idle
  /\ UNCHANGED <<mode, att, peers, blk, missed>>

\* prepare_va_space_for_migration: the flags come first, then every processor
\* that has pages loses write access.  There is no mm: the CPU's writable
\* pages stay unmapped.  Where uvm_va_block_revoke_prot_mask runs out of
\* memory the GPUs that are still to come keep what they have, and the flags
\* stay; PREPARE_ALL succeeds all the same if it prepared another VA space.
Prepare ==
  \E late \in SUBSET {g \in mode.gpus : blk.resident[g] # {}} :
    LET R == [x \in Procs |-> IF blk.resident[x] = {} \/ x \in late THEN <<>>
                              ELSE IF x = "cpu"
                              THEN [p \in {p \in Pages : blk.prot[x][p] > 1} |-> NoPte]
                              ELSE Revoking(x, Pages, 2)]
    IN  /\ Free
        /\ mode.track
        /\ Len(hw.q) <= MaxQueue
        /\ blk' = [Bits(blk, R) EXCEPT !.tracking = TRUE, !.dirty = FALSE]
        /\ hw' = Ptes(hw, R)
        /\ missed' = late
        /\ UNCHANGED <<mode, att, peers, op>>

\* uvm_api_live_migration_finalize
Finalize ==
  /\ Free
  /\ blk.tracking
  /\ blk' = [blk EXCEPT !.tracking = FALSE, !.dirty = FALSE]
  /\ missed' = {}
  /\ UNCHANGED <<mode, att, peers, op, hw>>

-----------------------------------------------------------------------------
(* Hardware *)

Effect(h, w) ==
  CASE w.k = "pte"  -> [h EXCEPT !.pte[w.at] = [p \in Pages |->
                          IF p \in DOMAIN w.set THEN w.set[p] ELSE @[p]]]
    [] w.k = "copy" -> [h EXCEPT !.cur[w.to] = (@ \ w.pages) \cup (w.pages \cap h.cur[w.from])]
    [] w.k = "cap"  -> [h EXCEPT !.cur[w.to] = (@ \ w.pages) \cup w.good]
    [] w.k = "zero" -> [h EXCEPT !.cur[w.at] = @ \cup w.pages]
    [] w.k = "free" -> [h EXCEPT !.cur[w.at] = {}]

\* a push of the first stage runs
Execute ==
  /\ ~Drained
  /\ \E w \in Head(hw.q) :
       hw' = LET rest == Head(hw.q) \ {w}
             IN  Effect([hw EXCEPT !.q = IF rest = {} THEN Tail(@) ELSE [@ EXCEPT ![1] = rest]], w)
  /\ UNCHANGED <<mode, att, peers, blk, op, missed>>

\* a processor writes through its page table
Store(x, p) ==
  /\ hw.pte[x][p].prot >= 2
  /\ hw' = Written(hw, hw.pte[x][p].to, p)
  /\ UNCHANGED <<mode, att, peers, blk, op, missed>>

Next ==
  \/ CpuFault
  \/ \E x \in Procs : EvictionMappings(x)
  \/ Populate \/ Copy \/ Abandoned \/ Revoke \/ Map \/ MapFollowers
  \/ \E g \in mode.gpus : GpuFault(g) \/ EvictChunks(g) \/ RemoveGpuVaSpace(g)
                          \/ AddGpuVaSpace(g) \/ UnregisterGpu(g)
  \/ FreeChunk \/ EvictionMappingsEnd \/ DisablePeer \/ DestroyGpuState \/ Kill \/ Waited
  \/ \E p \in Pages : WriteFromCpu(p)
  \/ HostWrite \/ Prepare \/ Finalize
  \/ Execute
  \/ \E x \in Procs, p \in Pages : Store(x, p)

Spec == Init /\ [][Next]_vars

-----------------------------------------------------------------------------
(* Properties *)

\* Coherence of managed memory: whatever a processor can read through its
\* page table, at any moment, is the last value written to the page, though
\* page tables, copies and frees run behind the driver's back; and when
\* everything has run, every resident copy is current, so no write is lost
\* to a migration, an eviction or the departure of a GPU
\* (uvm_va_block_make_resident_copy, uvm_va_block_map, block_map_cpu_page_to).
Coherent ==
  /\ \A x \in Procs, p \in Pages : hw.pte[x][p].prot > 0 => p \in hw.cur[hw.pte[x][p].to]
  /\ Free /\ Drained => \A x \in Procs : blk.resident[x] \subseteq hw.cur[x]

\* What block_check_mappings asserts of a block nobody holds, in every state:
\* a mapped page is resident where the processor can reach it and may be
\* mapped; more than one copy means read duplication, read-only and local;
\* atomics that are not native exclude every other writer; an evicted page
\* is not resident on the GPU it was evicted from.
MappingsOk ==
  Free => \A p \in Pages :
    LET here == ResidentProcs(p)
        readers == Authorized(p, 1)
        writers == Authorized(p, 2)
        atomics == Authorized(p, 3)
        reach == UNION {Accessible(y) : y \in here}
        native == UNION {Native(y) : y \in here}
    IN  /\ p \in blk.readdup => here # {}
        /\ p \notin blk.readdup => Cardinality(here) <= 1
        /\ p \notin blk.maybe => readers = {}
        /\ \A g \in mode.gpus : p \notin blk.evicted[g] \cap blk.resident[g]
        /\ \A g \in mode.gpus : p \in blk.resident[g] => g \in blk.chunk
        /\ p \in blk.resident["cpu"] => p \in blk.alloc
        /\ readers # {} => /\ here # {}
                           /\ IF Cardinality(here) > 1 THEN readers \subseteq here
                                                       ELSE readers \subseteq reach
        /\ writers # {} => Cardinality(here) = 1
        /\ atomics # {} /\ atomics \cap native = {} => Cardinality(writers) = 1
        /\ atomics \cap native # {} => atomics \subseteq native

\* What a delta checkpoint rests on: while a block is tracked and clean, once
\* the pushes of PREPARE_ALL have run, no GPU can write to it without a
\* fault; so a fault that gives back write access, to one page or to all of
\* them, has marked the block (uvm_va_block_service_finish, bulk restore).
\* The GPUs that a failed revoke did not reach are excepted, and no others:
\* neither their faults nor a retry of PREPARE_ALL may leave one out silently.
ArmedIsReadOnly ==
  blk.tracking /\ ~blk.dirty /\ Free /\ Drained =>
    \A g \in mode.gpus \ missed, p \in Pages : hw.pte[g][p].prot <= 1

-----------------------------------------------------------------------------
(* Why ArmedIsReadOnly holds where the GPUs of tracked blocks map no memory *)
(* but their own, as an inductive invariant.                                *)

\* GPUs that map no memory but their own, and follow no other's faults
LocalMode(m) == ~m.sysmem /\ m.peer = "none" /\ m.by = {}

PushOK(w) ==
  /\ w.k \in {"pte", "copy", "cap", "zero", "free"}
  /\ w.k = "pte" => w.at \in mode.gpus
  /\ w.k = "cap" => w = [k |-> "cap", to |-> w.to, pages |-> w.pages, good |-> w.good]

IsSeq(q) == q \in Seq({q[i] : i \in DOMAIN q})

HwOK(h) ==
  /\ h = [cur |-> h.cur, pte |-> h.pte, q |-> h.q]
  /\ h.pte = [x \in Procs |-> h.pte[x]]
  /\ IsSeq(h.q)
  /\ \A i \in DOMAIN h.q : \A w \in h.q[i] : PushOK(w)

\* what the driver has recorded is what the page tables hold once the pushes
\* have run: the last push to a page carries its permission
Touches(w, g, p) == w.k = "pte" /\ w.at = g /\ p \in DOMAIN w.set
Untouched(h, n, g, p) == \A i \in DOMAIN h.q : i > n => \A w \in h.q[i] : ~Touches(w, g, p)
InStep(h, prot) ==
  \A g \in mode.gpus, p \in Pages :
    /\ Untouched(h, 0, g, p) => h.pte[g][p].prot = prot[g][p]
    /\ \A i \in DOMAIN h.q : \A w \in h.q[i] :
         Touches(w, g, p) /\ Untouched(h, i, g, p) => w.set[p].prot = prot[g][p]
    /\ \A i \in DOMAIN h.q : \A v, w \in h.q[i] : Touches(v, g, p) /\ Touches(w, g, p) => v = w

Blocks ==
  [resident : [Procs -> SUBSET Pages], prot : [Procs -> [Pages -> 0..3]], chunk : SUBSET mode.gpus,
   alloc : SUBSET Pages, readdup : SUBSET Pages, maybe : SUBSET Pages,
   evicted : [mode.gpus -> SUBSET Pages], tracking : BOOLEAN, dirty : BOOLEAN, evq : BOOLEAN,
   dead : BOOLEAN]

BlkOK ==
  /\ blk \in Blocks
  /\ att \in [mode.gpus -> {"on", "off", "gone"}]
  /\ peers \in BOOLEAN /\ (peers => mode.peer # "none")

OpOK ==
  /\ op = [pc |-> op.pc, kind |-> op.kind, who |-> op.who, acc |-> op.acc, dst |-> op.dst,
           dup |-> op.dup, moved |-> op.moved, np |-> op.np, wait |-> op.wait]
  /\ op.pc \in {"idle", "populate", "copy", "revoke", "map", "others", "free", "write", "destroy", "wait"}
  /\ op.pc \in {"populate", "copy"} =>
       /\ op.kind \in {"fault", "evict", "host", "unregister"}
       /\ op.dst \in Procs /\ DOMAIN op.acc \subseteq Pages
       /\ op.kind = "evict" => op.dst = "cpu" /\ ~op.dup
       /\ op.kind = "unregister" => op.dst = "cpu" /\ ~op.dup /\ DOMAIN op.acc = blk.resident[op.who]
  /\ op.pc # "idle" /\ op.kind \in {"evict", "unregister", "remove"} => op.who \in mode.gpus
  /\ op.pc \in {"populate", "copy", "revoke", "map", "others"} => op.who \in Procs
  /\ op.pc = "revoke" => DOMAIN op.acc \subseteq Pages
  /\ op.pc = "free" => op.kind = "evict"
  /\ op.pc = "destroy" => op.kind = "unregister" /\ blk.resident[op.who] = {}
  /\ op.pc # "idle" /\ op.kind = "unregister" => att[op.who] = "off"
  /\ op.pc = "wait" /\ op.kind = "remove" => \A p \in Pages : blk.prot[op.who][p] = 0
  /\ op.pc = "wait" /\ op.kind = "kill" => \A x \in Procs, p \in Pages : blk.prot[x][p] = 0

\* a GPU without a GPU VA space maps nothing
Detached == \A g \in mode.gpus : att[g] # "on" => \A p \in Pages : blk.prot[g][p] = 0

\* a page is never lost, and is marked evicted only where it is not
Placed ==
  /\ \A x, y \in Procs : x # y => blk.resident[x] \cap blk.resident[y] \subseteq blk.readdup
  /\ \A g \in mode.gpus : /\ blk.evicted[g] \cap blk.resident[g] = {}
                           /\ \A p \in blk.evicted[g] : ResidentProcs(p) # {}

\* what a GPU maps is in its own memory, and stays until it is unmapped
MapsOwn ==
  /\ \A g \in mode.gpus, p \in Pages : blk.prot[g][p] > 0 => p \in blk.resident[g]
  /\ op.pc \in {"populate", "copy"} /\ ~op.dup =>
       \A g \in mode.gpus, p \in DOMAIN op.acc : g # op.dst => blk.prot[g][p] = 0

\* a tracked block that is clean is read-only where it was revoked, and what a fault is about to
\* map is as well
Clean ==
  blk.tracking /\ ~blk.dirty =>
    /\ \A g \in mode.gpus \ missed, p \in Pages : blk.prot[g][p] <= 1
    /\ op.pc = "map" /\ op.who # "cpu" => \A p \in DOMAIN op.np : op.np[p] \notin {2, 3}

TrackInv ==
  /\ mode \in Modes /\ BlkOK /\ OpOK /\ HwOK(hw) /\ InStep(hw, blk.prot)
  /\ Detached /\ Placed
  /\ blk.tracking => mode.track
  /\ LocalMode(mode) => MapsOwn /\ Clean

-----------------------------------------------------------------------------
(* Why Coherent holds, as an inductive invariant: what is under way for a   *)
(* page, stage by stage.  Stage 0 is what the hardware holds now, a later   *)
(* one what the pushes of that stage will make of it.                       *)

Entries(h, i, x, p) == IF i = 0 THEN {h.pte[x][p]}
                       ELSE {w.set[p] : w \in {w \in h.q[i] : Touches(w, x, p)}}
Fills(w, y, p) == \/ w.k \in {"copy", "cap"} /\ w.to = y /\ p \in w.pages
                  \/ w.k = "zero" /\ w.at = y /\ p \in w.pages
FilledAt(h, i, y, p)  == \E w \in h.q[i] : Fills(w, y, p)
FreedAt(h, i, y)      == \E w \in h.q[i] : w.k = "free" /\ w.at = y
ReadAt(h, i, y, p)    == \E w \in h.q[i] : w.k = "copy" /\ w.from = y /\ p \in w.pages
TouchedAt(h, i, x, p) == \E w \in h.q[i] : Touches(w, x, p)

\* between stages i and j, x gets another entry for p, or y a new copy of it
Remapped(h, i, j, x, p) == \E k \in DOMAIN h.q : i < k /\ k < j /\ TouchedAt(h, k, x, p)
Filled(h, i, j, y, p)   == \E k \in DOMAIN h.q : i < k /\ k < j /\ FilledAt(h, k, y, p)

\* from stage i on, the copy of p at y may be out of date: it is so now, its
\* chunk is freed, or somebody can write to another copy
Spoils(h, i, y, p) ==
  \/ i = 0 /\ p \notin h.cur[y]
  \/ i \in DOMAIN h.q /\ FreedAt(h, i, y)
  \/ \E x \in Procs : \E e \in Entries(h, i, x, p) : e.prot >= 2 /\ e.to # y

\* whatever reads the copy at y in stage t reads the last value written
Fresh(h, t, y, p) == \A i \in 0..Len(h.q) : i <= t /\ Spoils(h, i, y, p) => Filled(h, i, t, y, p)

\* nobody can write a page while a copy of it is made
Quiet(h, p) ==
  \A j \in DOMAIN h.q, y \in Procs : FilledAt(h, j, y, p) =>
    \A i \in 0..j, x \in Procs : \A e \in Entries(h, i, x, p) : e.prot >= 2 => Remapped(h, i, j, x, p)

\* copies are made of what is up to date
CopiesFresh(h, p) ==
  \A j \in DOMAIN h.q :
    /\ \A y \in Procs : ReadAt(h, j, y, p) => Fresh(h, j, y, p)
    /\ \A w \in h.q[j] : w.k = "cap" /\ p \in w.pages => p \in w.good

\* what is mapped is up to date, until the entry is replaced
MapsFresh(h, p) ==
  \A t \in 0..Len(h.q), x \in Procs : \A e \in Entries(h, t, x, p) : e.prot > 0 =>
    /\ e.to \in Procs
    /\ Fresh(h, t, e.to, p)
    /\ \A i \in (t + 1)..Len(h.q) : Spoils(h, i, e.to, p) => Remapped(h, t, i, x, p)

\* where block b has p, and memory the driver takes for a copy or for zeroes
Here(b, p)     == {x \in Procs : p \in b.resident[x]}
Holds(b, y, p) == \/ y \in Here(b, p)
                  \/ Here(b, p) = {} /\ (y \in b.chunk \/ (y = "cpu" /\ p \in b.alloc))
HeldFresh(h, b, p) == \A y \in Procs : Holds(b, y, p) => Fresh(h, Len(h.q) + 1, y, p)

\* an entry points to a copy; if it is writable, to the only one
Aimed(b, x, p, e) ==
  /\ e.prot > 0 => e.to \in Here(b, p) /\ (mode.rd => e.to = x)
  /\ e.prot >= 2 => Here(b, p) = {e.to} /\ p \notin b.readdup
LastAimed(h, b, p) ==
  \A t \in 0..Len(h.q), x \in Procs : \A e \in Entries(h, t, x, p) :
    ~Remapped(h, t, Len(h.q) + 1, x, p) => Aimed(b, x, p, e)

\* a page that is nowhere is mapped by nobody
NowhereUnmapped(h, b, p) ==
  Here(b, p) = {} => \A t \in 0..Len(h.q), x \in Procs : \A e \in Entries(h, t, x, p) : e.prot = 0

PageInv(h, b, p) == /\ Quiet(h, p) /\ CopiesFresh(h, p) /\ MapsFresh(h, p)
                    /\ HeldFresh(h, b, p) /\ LastAimed(h, b, p) /\ NowhereUnmapped(h, b, p)

PushInv(h) ==
  /\ h.cur = [x \in Procs |-> h.cur[x]]
  /\ \A x \in Procs, p \in Pages : h.pte[x][p].prot \in 0..3
  /\ \A i \in DOMAIN h.q : \A w \in h.q[i] :
       /\ w.k = "pte" => \A p \in DOMAIN w.set : w.set[p].prot \in 0..3
       /\ w.k = "copy" => {w.from, w.to} \subseteq Procs
       /\ w.k = "cap" => w.to \in Procs /\ i = 1
       /\ w.k \in {"zero", "free"} => w.at \in mode.gpus

\* what an operation under way has established
OnlyAt(p, d) == ResidentProcs(p) = {d} /\ p \notin blk.readdup
Underway ==
  /\ op.pc \in {"populate", "copy"} =>
       /\ op.kind \in {"evict", "unregister"} => P_op = blk.resident[op.who]
       /\ op.kind = "host" => P_op # {}
       /\ op.kind # "fault" => ~op.dup
       /\ op.dup => mode.rd /\ \A p \in P_op : op.acc[p] <= 1
       /\ \A p \in P_op : op.acc[p] \in 0..3
       /\ \A p \in P_op, x \in Procs :
            IF op.dup THEN blk.prot[x][p] <= 1
            ELSE p \in Missing \/ (p \in blk.readdup /\ x # op.dst) => blk.prot[x][p] = 0
  /\ op.pc = "copy" => \/ op.dst = "cpu" /\ Missing \subseteq blk.alloc
                       \/ op.dst \in blk.chunk
                       \/ Missing = {}
  /\ op.pc = "revoke" =>
       /\ op.dst \in Procs
       /\ \A p \in P_op : /\ op.acc[p] \in 0..3
                          /\ IF op.dup THEN mode.rd /\ op.acc[p] <= 1 ELSE OnlyAt(p, op.dst)
  /\ op.pc = "map" => op.dst \in Procs /\ (mode.rd => \A p \in DOMAIN op.np : op.np[p] >= 2 => OnlyAt(p, op.dst))
  /\ op.pc = "write" => op.dst \in Procs /\ P_op # {} /\ P_op \subseteq Pages /\ \A p \in P_op : OnlyAt(p, op.dst)
  /\ op.pc = "free" => blk.resident[op.who] = {}
  /\ op.pc = "others" => op.dst \in Procs
  /\ ~mode.rd => blk.readdup = {}

\* the driver's own record: what it has mapped is somewhere, what it has
\* mapped writable is at one place
Backed(b) == \A x \in Procs, p \in Pages : \E y \in Procs : Aimed(b, x, p, [prot |-> b.prot[x][p], to |-> y])

CpuInStep(h, b) == \A p \in Pages : h.pte["cpu"][p].prot = b.prot["cpu"][p]

InOrder(h, b) == /\ PushInv(h) /\ CpuInStep(h, b) /\ Backed(b)
                 /\ \A p \in Pages : PageInv(h, b, p)

\* the bulk restore maps duplicated pages writable: there the invariant fails
CoherenceInv == ~(mode.track /\ mode.rd) => InOrder(hw, blk) /\ Underway

-----------------------------------------------------------------------------
(* Why MappingsOk holds, as an inductive invariant, where tracked blocks    *)
(* are those of GPUs that map no memory but their own.                      *)

TrackedLocal(m) == m.track => LocalMode(m) /\ ~m.rd

\* block b has memory where it has pages
Stored(b) == /\ \A p \in b.readdup : Here(b, p) # {}
             /\ \A g \in mode.gpus : b.resident[g] # {} => g \in b.chunk
             /\ b.resident["cpu"] \subseteq b.alloc

\* who maps a page can reach a copy of it
Reached(b) == \A x \in Procs, p \in Pages :
                b.prot[x][p] > 0 => p \in b.maybe /\ \E y \in Here(b, p) : x \in Accessible(y)

\* atomics that are not native where the page is exclude every other writer
AtomicsAlone(b) ==
  ~mode.rd /\ ~mode.track =>
    \A p \in Pages, y, x, z \in Procs :
      p \in b.resident[y] /\ b.prot[x][p] = 3 /\ x \notin Native(y) /\ z # x => b.prot[z][p] < 2

\* what a fault has revoked before page p is mapped
Revoked(p) ==
  LET native == Native(op.dst)
  IN  op.np[p] >= 2 =>
        /\ OnlyAt(p, op.dst)
        /\ op.np[p] = 2 => op.who \notin native
        /\ op.np[p] = 2 \/ op.who \in native => Authorized(p, 3) \subseteq native
        /\ op.pc = "map" /\ op.np[p] = 3 /\ op.who \notin native => Authorized(p, 2) \subseteq {op.who}

Faulting == \/ op.pc \in {"revoke", "map", "others"}
            \/ op.pc \in {"populate", "copy"} /\ op.kind = "fault"

UnderwayMaps ==
  /\ op.pc = "copy" => Staged \subseteq blk.alloc
  /\ Faulting => op.who \in Accessible(op.dst)
  /\ Faulting /\ op.pc \notin {"map", "others"} => \A p \in P_op : blk.prot[op.who][p] < op.acc[p]
  /\ op.pc = "revoke" => \A p \in op.moved, x \in Procs : blk.prot[x][p] = 0
  /\ op.pc \in {"map", "others"} /\ ~mode.rd /\ ~mode.track => \A p \in DOMAIN op.np : Revoked(p)
  /\ op.pc = "wait" /\ op.kind = "disable_peer" =>
       \A x \in mode.gpus, p \in Pages :
         blk.prot[x][p] > 0 => p \in blk.resident[x] \/ \A g \in mode.gpus : p \notin blk.resident[g]

MappingsInv ==
  TrackedLocal(mode) => Stored(blk) /\ Reached(blk) /\ AtomicsAlone(blk) /\ UnderwayMaps

=============================================================================
