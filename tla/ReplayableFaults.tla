-------------------------- MODULE ReplayableFaults --------------------------
(***************************************************************************)
(* Replayable GPU faults: the fault buffer the GPU fills, the bottom half  *)
(* that fetches, merges, services, flushes, cancels and replays, and what  *)
(* may change under it: page permissions, evictions, channels and GPU VA   *)
(* spaces that go away.                                                    *)
(*                                                                         *)
(* A warp makes one access.  When it faults it stalls, a message travels   *)
(* to the buffer (PUT first, the valid bit later, in any order), and only  *)
(* a replay lets it try again; a prefetch does not stall.  In Confidential *)
(* Computing GSP owns the HW buffer and copies messages, encrypted, to the *)
(* buffer UVM reads.  Cancels are those of GPUs with precise VA cancel.    *)
(***************************************************************************)
EXTENDS Integers, Sequences, FiniteSets, SequencesExt, FiniteSetsExt

CONSTANTS Modes,     \* [cc, policy, events, acc]: Confidential Computing or not, the
                     \* replay policy, how many Events may happen, and the accesses,
                     \* warp -> [sp, inst, page, type, utlb]
          Block,     \* page -> VA block
          BadPages,  \* pages whose faults have a fatal type
          Perms,     \* permissions of the pages at the start
          NumEntries,  \* max_faults
          BatchSize,   \* max_batch_size
          UpdatePutRatio, MaxBatches, MaxThrottle, \* module parameters
          MaxReplays,  \* replays told apart of those pushed and not yet run
          Events       \* what may happen beside the faults
Prefetch == 0
Read == 1
Write == 2
ASSUME FaultsAssumption ==
  /\ \A m \in Modes : /\ m.cc \in BOOLEAN /\ m.policy \in {"batch", "batch_flush", "block", "once"}
                      /\ m.events \in Nat
                      /\ \A w \in DOMAIN m.acc : m.acc[w].type \in {Prefetch, Read, Write}
  /\ NumEntries \in Nat /\ NumEntries >= 2 /\ BatchSize \in 1..NumEntries
  /\ {MaxBatches, MaxThrottle} \subseteq Nat \ {0} /\ UpdatePutRatio \in 0..100
  /\ MaxReplays \in Nat /\ MaxReplays >= 2

VARIABLES mode,    \* how the system is configured and what the warps access
          st,      \* warp: run, stall, again (replayed), done, cancelled or gone
          map,     \* page -> access the GPU's mapping allows
          perm,    \* page -> -1 no range, 0 not accessible, 1 read, 2 write
          inst,    \* instance pointers: ok, nosub (no subcontext) or gone
          gvs,     \* VA spaces with a GPU VA space
          lost,    \* messages a full buffer dropped
          hwq,     \* the HW buffer of GSP
          buf, enc,     \* the entries from GET to PUT; encryption IV
          known, dec,   \* entries from cached_get to cached_put; decryption IV
          replays, \* replay_tracker: pushes not run yet
          pf,      \* prefetch_faults_enabled
          u,       \* the bottom half
          events,  \* how many more Events may happen
          fatal
gpu == <<st, lost, hwq, buf, enc>>
va == <<map, perm, inst, gvs>>
uvm == <<known, dec, pf, u>>
vars == <<mode, gpu, va, uvm, replays, events, fatal>>

cc == mode.cc
policy == mode.policy
Acc == mode.acc
Warps == DOMAIN Acc
Pages == {Acc[w].page : w \in Warps}
Spaces == {Acc[w].sp : w \in Warps}
Insts == {Acc[w].inst : w \in Warps}
Utlbs == {Acc[w].utlb : w \in Warps}
SpOf(p) == Acc[CHOOSE w \in Warps : Acc[w].page = p].sp
None == 0
Iv(n) == n % NumEntries   \* IVs are told apart modulo the size of the buffer
Wait == [mode |-> "none", ret |-> "none"]
Idle == [pc |-> "idle", cancel |-> FALSE, batch |-> <<>>, cached |-> <<>>, i |-> 1, sp |-> None,
         rep |-> FALSE, brep |-> FALSE, batches |-> 0, throttled |-> 0, thr |-> FALSE,
         fatalSp |-> None, todo |-> <<>>, flush |-> Wait, dups |-> 0, inv |-> 0, err |-> FALSE]

Init ==
  /\ mode \in Modes
  /\ st = [w \in Warps |-> "run"] /\ lost = {} /\ hwq = <<>>
  /\ buf = <<>> /\ enc = 0
  /\ map = [p \in DOMAIN Perms |-> 0] /\ perm = Perms
  /\ inst = [n \in Insts |-> "ok"] /\ gvs = Spaces
  /\ known = 0 /\ dec = 0 /\ pf = TRUE
  /\ u = Idle /\ replays = 0 /\ events = mode.events /\ fatal = FALSE

(***************************************************************************)
(* The GPU.                                                                *)
(***************************************************************************)
Needs(t) == IF t = Write THEN 2 ELSE 1
Allowed(w) == inst[Acc[w].inst] = "ok" /\ map[Acc[w].page] >= Needs(Acc[w].type)
Permitted(w) == Acc[w].page \notin BadPages /\ perm[Acc[w].page] >= Needs(Acc[w].type)

Full == Len(buf) = NumEntries - 1
Enter(w) == /\ buf' = Append(buf, [w |-> w, valid |-> FALSE, iv |-> enc])
            /\ enc' = IF cc THEN Iv(enc + 1) ELSE enc

\* a replay is over when every access it restarted has completed or faulted again
Again(f) == {w \in Warps : f[w] = "again"}
ReplayOver == replays' = IF Again(st) # {} /\ Again(st') = {} THEN replays - 1 ELSE replays

\* an access completes, or faults: it stalls and its message takes the entry at
\* PUT; a full buffer drops the message
WarpAccess(w) ==
  /\ st[w] \in {"run", "again"}
  /\ LET ok == (Allowed(w) /\ Acc[w].page \notin BadPages) \/ (Acc[w].type = Prefetch /\ ~pf)
     IN /\ st' = [st EXCEPT ![w] = IF ok \/ Acc[w].type = Prefetch THEN "done" ELSE "stall"]
        /\ hwq' = IF ok \/ ~cc THEN hwq ELSE Append(hwq, w)
        /\ lost' = IF ok \/ cc \/ ~Full THEN lost ELSE lost \cup {w}
        /\ IF ok \/ cc \/ Full THEN UNCHANGED <<buf, enc>> ELSE Enter(w)
  /\ ReplayOver
  /\ UNCHANGED <<mode, va, uvm, events, fatal>>

GspCopy ==
  /\ hwq # <<>> /\ ~Full /\ Enter(Head(hwq)) /\ hwq' = Tail(hwq)
  /\ UNCHANGED <<mode, st, lost, va, uvm, replays, events, fatal>>

SetValid(k) ==
  /\ k \in DOMAIN buf /\ ~buf[k].valid /\ buf' = [buf EXCEPT ![k].valid = TRUE]
  /\ UNCHANGED <<mode, st, lost, hwq, enc, va, uvm, replays, events, fatal>>

GpuReplay ==
  /\ replays > 0 /\ Again(st) = {} /\ ~fatal /\ lost' = {}
  /\ st' = [w \in Warps |-> IF st[w] = "stall" THEN "again" ELSE st[w]]
  /\ replays' = IF Again(st') = {} THEN replays - 1 ELSE replays
  /\ UNCHANGED <<mode, hwq, buf, enc, va, uvm, events, fatal>>

\* what a cancel does: the stalled warps it matches end, the others try again
Cancelled(S) == [w \in Warps |-> IF st[w] # "stall" THEN st[w] ELSE IF w \in S THEN "cancelled" ELSE "run"]

(***************************************************************************)
(* Applications, eviction and RM.                                          *)
(***************************************************************************)
Event(e) == e \in Events /\ events > 0 /\ events' = events - 1
Unlocked(sp) == u.sp # sp

\* mmap, munmap, mprotect: with the write lock of the VA space
ChangePerm(p) ==
  /\ Event("perm") /\ Unlocked(SpOf(p))
  /\ \E v \in {-1, 1, 2} \ {perm[p]} :
       /\ perm' = [perm EXCEPT ![p] = v]
       /\ map' = [map EXCEPT ![p] = Min({@, Max({v, 0})})]
  /\ UNCHANGED <<mode, gpu, inst, gvs, uvm, replays, fatal>>

Evict(p) ==
  /\ Event("evict") /\ map[p] > 0 /\ map' = [map EXCEPT ![p] = 0]
  /\ UNCHANGED <<mode, gpu, perm, inst, gvs, uvm, replays, fatal>>

Of(n) == {w \in Warps : Acc[w].inst = n}
Stop(S) ==
  /\ st' = [w \in Warps |-> IF w \in S /\ st[w] \in {"run", "again", "stall"} THEN "gone" ELSE st[w]]
  /\ ReplayOver

Detach(n) ==
  /\ Event("detach") /\ inst[n] # "gone" /\ Stop(Of(n)) /\ inst' = [inst EXCEPT ![n] = "gone"]
  /\ UNCHANGED <<mode, lost, hwq, buf, enc, map, perm, gvs, uvm, fatal>>

DropSubcontext(n) ==
  /\ Event("nosub") /\ inst[n] = "ok" /\ inst' = [inst EXCEPT ![n] = "nosub"]
  /\ UNCHANGED <<mode, gpu, map, perm, gvs, uvm, replays, fatal>>

Unregister(sp) ==
  /\ Event("unregister") /\ sp \in gvs /\ Unlocked(sp) /\ gvs' = gvs \ {sp}
  /\ Stop({w \in Warps : Acc[w].sp = sp})
  /\ inst' = [n \in Insts |-> IF \E w \in Of(n) : Acc[w].sp = sp THEN "gone" ELSE inst[n]]
  /\ UNCHANGED <<mode, lost, hwq, buf, enc, map, perm, uvm, fatal>>

GlobalError ==
  /\ Event("fatal") /\ ~fatal /\ fatal' = TRUE
  /\ UNCHANGED <<mode, gpu, va, uvm, replays>>

(***************************************************************************)
(* The bottom half: entry, and the loop over batches.                      *)
(***************************************************************************)
Go(r) == u' = r
Keep == UNCHANGED <<mode, va, events, fatal>>
KeepGpu == UNCHANGED gpu
KeepBuf == UNCHANGED <<known, dec>>

FirstValid == buf # <<>> /\ buf[1].valid
uvm_parent_gpu_replayable_faults_pending == known > 0 \/ FirstValid \/ buf # <<>>

\* the interrupt: the top half schedules the service
Service ==
  /\ u.pc = "idle" /\ ~fatal /\ uvm_parent_gpu_replayable_faults_pending
  /\ known' = IF known > 0 \/ FirstValid THEN known ELSE Len(buf)
  /\ Go([Idle EXCEPT !.pc = "loop"])
  /\ Keep /\ KeepGpu /\ UNCHANGED <<dec, pf, replays>>

\* after a power management cycle
uvm_parent_gpu_fault_buffer_resume ==
  /\ u.pc = "idle" /\ known < Len(buf) /\ Event("resume") /\ known' = Len(buf)
  /\ UNCHANGED <<mode, gpu, va, dec, pf, u, replays, fatal>>

ReadPut == known' = IF known = 0 THEN Len(buf) ELSE known
Clear(r) == [r EXCEPT !.batch = <<>>, !.cached = <<>>, !.todo = <<>>, !.i = 1, !.dups = 0, !.inv = 0, !.fatalSp = None]
NewBatch(r) == [Clear(r) EXCEPT !.pc = "get", !.brep = FALSE, !.thr = FALSE]
Failed(r) == [Clear(r) EXCEPT !.pc = "end", !.err = TRUE, !.sp = None]

\* the loop over batches: it ends, or a new batch starts with a read of PUT
uvm_gpu_service_replayable_faults ==
  /\ u.pc = "loop"
  /\ IF u.throttled >= MaxThrottle \/ u.batches >= MaxBatches
     THEN Go([u EXCEPT !.pc = "end"]) /\ UNCHANGED known
     ELSE ReadPut /\ Go(NewBatch([u EXCEPT !.cancel = FALSE]))
  /\ Keep /\ KeepGpu /\ UNCHANGED <<dec, pf, replays>>

\* a wait, or the start of a push, that meets the global error
UvmError ==
  /\ fatal /\ u.pc \in {"get", "translate", "flush", "skip", "wait", "clock", "cmove"}
  /\ Go(Failed(u))
  /\ Keep /\ KeepGpu /\ KeepBuf /\ UNCHANGED <<pf, replays>>

(***************************************************************************)
(* Fetch.  A batch stops at the first entry that is not ready, unless it   *)
(* is empty; the cancel path takes all entries before PUT.                 *)
(***************************************************************************)
ReadyTo(n) == \A k \in 1..n : buf[k].valid

\* bits of an access type mask are a set; a cached entry that was merged into
\* another one is filtered
Entry(w) == [w |-> w, mask |-> {Acc[w].type}, n |-> 1, filtered |-> FALSE, fatal |-> Acc[w].page \in BadPages,
             mode |-> "all", thr |-> FALSE, inv |-> FALSE]
\* mutant: the older fault represents the newer one whatever its access
fetch_fault_buffer_merge_entryOlder(es, cur, last) ==
  [es EXCEPT ![cur].filtered = TRUE, ![last].n = @ + 1, ![last].mask = @ \cup {Acc[es[cur].w].type}]

fetch_fault_buffer_merge_entry(es, cur, last) ==
  LET e == es[cur]
      l == [es[last] EXCEPT !.n = @ + 1, !.mask = @ \cup {Acc[e.w].type}]
  IN IF Acc[e.w].type > Acc[l.w].type
     THEN [es EXCEPT ![cur] = [e EXCEPT !.mask = l.mask, !.n = l.n], ![last] = [l EXCEPT !.filtered = TRUE]]
     ELSE [es EXCEPT ![cur] = [e EXCEPT !.filtered = TRUE], ![last] = l]

\* f: the entries so far, the last fault of every uTLB (0: none), the last fault
fetch_fault_buffer_try_merge_entry(f, w) ==
  LET es == Append(f.es, Entry(w))
      cur == Len(es)
      lt == f.tlb[Acc[w].utlb]
      SamePage(k) == Acc[es[k].w].inst = Acc[w].inst /\ Acc[es[k].w].page = Acc[w].page
      mergeable == cur > 1 /\ ~es[cur].fatal
  IN IF mergeable /\ lt # 0 /\ SamePage(lt)
     THEN [f EXCEPT !.es = fetch_fault_buffer_merge_entry(es, cur, lt),
                    !.tlb[Acc[w].utlb] = IF Acc[w].type > Acc[es[lt].w].type THEN cur ELSE lt]
     ELSE IF mergeable /\ SamePage(f.last) /\ Acc[w].type <= Acc[es[f.last].w].type
     THEN [f EXCEPT !.es = fetch_fault_buffer_merge_entry(es, cur, f.last)]
     ELSE [es |-> es, tlb |-> [f.tlb EXCEPT ![Acc[w].utlb] = cur], last |-> cur]

Merge(ws) == FoldLeft(fetch_fault_buffer_try_merge_entry,
                      [es |-> <<>>, tlb |-> [x \in Utlbs |-> 0], last |-> 0], ws).es
\* mutant: a flushed entry does not move the IV
TakenSilently(n) ==
  /\ buf' = SubSeq(buf, n + 1, Len(buf)) /\ known' = known - n
  /\ dec' = IF cc /\ u.pc = "get" THEN Iv(dec + n) ELSE dec

\* entries leave the buffer: the valid bit is cleared, the IV moves on
Taken(n) ==
  /\ buf' = SubSeq(buf, n + 1, Len(buf)) /\ known' = known - n
  /\ dec' = IF cc THEN Iv(dec + n) ELSE dec

\* a fetch takes at most a batch; for the cancel, all the driver knows of
Most == IF u.cancel THEN known ELSE Min({known, BatchSize})
fetch_fault_buffer_entries ==
  /\ u.pc = "get"
  /\ IF known = 0
     THEN Go([u EXCEPT !.pc = IF u.cancel THEN "cunlock" ELSE "end"]) /\ UNCHANGED <<buf, known, dec>>
     ELSE \E n \in 0..Most :
            /\ ReadyTo(n) /\ (n < Most => ~buf[n + 1].valid) /\ (IF u.cancel THEN n = Most ELSE n > 0)
            /\ Taken(n)
            /\ LET ws == [k \in 1..n |-> buf[k].w]
               IN Go([u EXCEPT !.pc = "translate", !.cached = ws,
                               !.batch = SelectSeq(Merge(ws), LAMBDA e : ~e.filtered)])
  /\ Keep /\ UNCHANGED <<st, lost, hwq, enc, pf, replays>>

\* an entry that cannot be parsed: the ones before it are taken and dropped
parse_replayable_entry_fails ==
  /\ u.pc = "get" /\ known > 0 /\ Event("parse")
  /\ \E n \in 0..(Most - 1) : ReadyTo(n + 1) /\ Taken(n)
  /\ Go(Failed(u))
  /\ UNCHANGED <<mode, va, st, lost, hwq, enc, pf, replays, fatal>>

(***************************************************************************)
(* Replay and flush.                                                       *)
(***************************************************************************)
push_replay_on_gpu(r) ==
  /\ replays' = Min({replays + 1, MaxReplays})
  /\ Go(IF r.pc = "idle" THEN r ELSE [r EXCEPT !.brep = TRUE])

Flush(r, how, ret) == [Clear(r) EXCEPT !.pc = "flush", !.flush = [mode |-> how, ret |-> ret]]

\* hw_fault_buffer_flush_locked and the read of PUT
FlushBegin ==
  /\ u.pc = "flush" /\ (u.flush.mode = "wait" => replays = 0)
  /\ IF u.flush.mode = "cached" THEN UNCHANGED <<hwq, known>>
     ELSE hwq' = <<>> /\ known' = Len(buf)
  /\ Go([u EXCEPT !.pc = "skip"])
  /\ Keep /\ UNCHANGED <<st, lost, buf, enc, dec, pf, replays>>

\* mutant: the entries are skipped and nothing is replayed
fault_buffer_flush_lockedQuiet ==
  /\ u.pc = "skip" /\ ReadyTo(known) /\ Taken(known)
  /\ LET r == [u EXCEPT !.pc = u.flush.ret, !.flush = Wait]
     IN Go(CASE r.pc = "restart" -> [r EXCEPT !.pc = "loop", !.rep = TRUE]
             [] r.pc = "cdone" -> [r EXCEPT !.pc = "loop", !.batches = @ + 1]
             [] OTHER -> r)
  /\ Keep /\ UNCHANGED <<st, lost, hwq, enc, pf, replays>>

\* fault_buffer_skip_replayable_entry for all entries before PUT, then replay;
\* a restarted batch counts as a replay, a batch with cancels as a batch
fault_buffer_flush_locked ==
  /\ u.pc = "skip" /\ ReadyTo(known) /\ Taken(known)
  /\ LET r == [u EXCEPT !.pc = u.flush.ret, !.flush = Wait]
     IN push_replay_on_gpu(CASE r.pc = "restart" -> [r EXCEPT !.pc = "loop", !.rep = TRUE]
                             [] r.pc = "cdone" -> [r EXCEPT !.pc = "loop", !.batches = @ + 1]
                             [] OTHER -> r)
  /\ Keep /\ UNCHANGED <<st, lost, hwq, enc, pf>>

BatchDone(r) == [Clear(r) EXCEPT !.pc = "loop", !.batches = @ + 1, !.throttled = @ + IF r.thr THEN 1 ELSE 0]

\* uvm_tracker_wait(replay_tracker) after a flush of the regular path
WaitReplay ==
  /\ u.pc = "wait" /\ replays = 0 /\ Go(BatchDone([u EXCEPT !.rep = TRUE]))
  /\ Keep /\ KeepGpu /\ KeepBuf /\ UNCHANGED <<pf, replays>>

\* uvm_gpu_fault_buffer_flush, with the ISR locked out
uvm_gpu_fault_buffer_flush ==
  /\ u.pc = "idle" /\ ~fatal /\ Event("flush") /\ Go(Flush(Idle, "wait", "idle"))
  /\ UNCHANGED <<mode, gpu, va, known, dec, pf, replays, fatal>>

(***************************************************************************)
(* Preprocess: instance pointers are translated to VA spaces, then the     *)
(* batch is sorted.  A pointer that cannot be translated flushes the       *)
(* buffer and starts over; one without a subcontext is cancelled first.    *)
(***************************************************************************)
Before(a, b) == \/ Acc[a.w].sp < Acc[b.w].sp
                \/ Acc[a.w].sp = Acc[b.w].sp /\ Acc[a.w].page < Acc[b.w].page
                \/ Acc[a.w].sp = Acc[b.w].sp /\ Acc[a.w].page = Acc[b.w].page /\ Acc[a.w].type > Acc[b.w].type
cmp_sort_fault_entry_by_va_space_address_access_type(es) ==
  FoldLeft(LAMBDA out, e : LET k == Cardinality({j \in 1..Len(out) : ~Before(e, out[j])})
                           IN SubSeq(out, 1, k) \o <<e>> \o SubSeq(out, k + 1, Len(out)), <<>>, es)

Restart(r) == Flush(r, "update", IF r.cancel THEN "cunlock" ELSE "restart")

\* the instance pointers of the batch that cannot be translated; the first, in
\* their order, decides
BadInsts == {n \in {Acc[u.batch[k].w].inst : k \in DOMAIN u.batch} : inst[n] # "ok"}
FirstBad == IF BadInsts = {} THEN "ok" ELSE inst[Min(BadInsts)]

translate_instance_ptrs ==
  /\ u.pc = "translate" /\ FirstBad # "ok"
  /\ IF FirstBad = "gone" THEN UNCHANGED <<st, lost>>
     ELSE replays = 0 /\ ~fatal /\ st' = Cancelled(Of(Min(BadInsts))) /\ lost' = {}
  /\ Go(Restart(u))
  /\ Keep /\ KeepBuf /\ UNCHANGED <<hwq, buf, enc, pf, replays>>

preprocess_fault_batch ==
  LET es == cmp_sort_fault_entry_by_va_space_address_access_type(u.batch)
  IN /\ u.pc = "translate" /\ FirstBad = "ok"
     /\ Go(IF u.cancel THEN [u EXCEPT !.batch = es, !.pc = "cservice",
                               !.i = 1 + Cardinality({k \in 1..Len(es) : Acc[es[k].w].sp < u.sp})]
           ELSE [u EXCEPT !.batch = es, !.i = 1, !.pc = "service"])
     /\ Keep /\ KeepGpu /\ KeepBuf /\ UNCHANGED <<pf, replays>>

(***************************************************************************)
(* Servicing one VA block.  The result of the scan: the entries with their *)
(* flags, the access every page is to be given, counters and fatal space.  *)
(***************************************************************************)
mark_fault_fatal(s, k, which) ==
  [s EXCEPT !.es[k].fatal = TRUE, !.es[k].mode = which,
            !.fatalSp = IF @ = None THEN Acc[s.es[k].w].sp ELSE @]
mark_fault_invalid_prefetch(s, k) == [s EXCEPT !.es[k].inv = TRUE, !.inv = @ + s.es[k].n]
mark_fault_throttled(s, k) == [s EXCEPT !.es[k].thr = TRUE, !.thr = TRUE]

PageOf(e) == Acc[e.w].page
check_fault_entry_duplicate(es, k) ==
  k > 1 /\ Acc[es[k].w].sp = Acc[es[k - 1].w].sp /\ PageOf(es[k]) = PageOf(es[k - 1])

fault_entry_duplicate_flags(s, k) ==
  LET a == IF s.es[k - 1].inv THEN mark_fault_invalid_prefetch(s, k) ELSE s
  IN IF s.es[k - 1].thr THEN mark_fault_throttled(a, k) ELSE a

update_batch_and_notify_fault(s, k, dup) == [s EXCEPT !.dups = @ + s.es[k].n - IF dup THEN 0 ELSE 1]

\* s.give is the access type to service the fault with, or -1
check_fault_access_permissions(s, k) ==
  LET e == s.es[k]
      t == Acc[e.w].type
      have == perm[PageOf(e)]
  IN CASE have >= Needs(t) -> [s EXCEPT !.give = t]
       [] have < Needs(t) /\ t = Prefetch -> [mark_fault_invalid_prefetch(s, k) EXCEPT !.give = -1]
       [] have < Needs(t) /\ t = Read -> [mark_fault_fatal(s, k, "all") EXCEPT !.give = -1]
       [] have < Needs(t) /\ t = Write ->
            IF Read \notin e.mask THEN [mark_fault_fatal(s, k, "write") EXCEPT !.give = -1]
            ELSE IF have >= Needs(Read) THEN [mark_fault_fatal(s, k, "write") EXCEPT !.give = Read]
            ELSE [mark_fault_fatal(s, k, "all") EXCEPT !.give = -1]

\* one entry; hint is the set of pages the thrashing heuristic throttles
ServiceEntry(s, k, first, hint) ==
  LET dup == k > first /\ check_fault_entry_duplicate(s.es, k)
      a == update_batch_and_notify_fault([s EXCEPT !.es[k].thr = FALSE, !.es[k].inv = FALSE], k, dup)
      b == IF dup THEN fault_entry_duplicate_flags(a, k) ELSE a
      p == PageOf(s.es[k])
      c == check_fault_access_permissions(b, k)
  IN IF dup /\ ~s.es[k - 1].fatal THEN b
     ELSE IF c.give = -1 \/ s.map[p] >= Needs(c.give) THEN c
     ELSE IF p \in hint THEN mark_fault_throttled(c, k)
     ELSE [c EXCEPT !.map[p] = Needs(c.give)]

Scan == [es |-> u.batch, map |-> map, fatalSp |-> u.fatalSp, dups |-> u.dups, inv |-> u.inv, thr |-> u.thr, give |-> -1]
InBlock(i) == {k \in i..Len(u.batch) : /\ Acc[u.batch[k].w].sp = Acc[u.batch[i].w].sp
                                       /\ Block[PageOf(u.batch[k])] = Block[PageOf(u.batch[i])]}

service_fault_batch_block_locked(i, hint) ==
  FoldLeft(LAMBDA s, k : ServiceEntry(s, k, i, hint), Scan, [k \in 1..Cardinality(InBlock(i)) |-> i + k - 1])

\* an address without a range: that one fault is fatal
service_fault_batch_fatal_notify(i) ==
  LET dup == check_fault_entry_duplicate(u.batch, i)
      a == IF dup THEN fault_entry_duplicate_flags(Scan, i) ELSE Scan
      b == IF Acc[u.batch[i].w].type = Prefetch THEN mark_fault_invalid_prefetch(a, i) ELSE mark_fault_fatal(a, i, "all")
  IN update_batch_and_notify_fault(b, i, dup)

service_fault_batch_dispatch(i, hint) ==
  IF perm[PageOf(u.batch[i])] = -1 THEN [s |-> service_fault_batch_fatal_notify(i), n |-> 1]
  ELSE [s |-> service_fault_batch_block_locked(i, hint), n |-> Cardinality(InBlock(i))]

Apply(r, d) == [r EXCEPT !.batch = d.s.es, !.fatalSp = d.s.fatalSp, !.dups = d.s.dups,
                         !.inv = d.s.inv, !.thr = d.s.thr, !.i = @ + d.n]
Hints == IF events > 0 /\ "throttle" \in Events THEN {{}, {PageOf(u.batch[u.i])}} ELSE {{}}
\* a hint spends one of the bounded events
Hinted(hint) == events' = IF hint = {} THEN events ELSE events - 1

(***************************************************************************)
(* service_fault_batch: VA space by VA space, block by block.              *)
(***************************************************************************)
Cur == u.batch[u.i]
CurSp == Acc[Cur.w].sp
\* faults that are fatal already, and those of a GPU VA space that is gone
ServiceSkip ==
  /\ u.pc = "service" /\ u.i <= Len(u.batch) /\ (Cur.fatal \/ CurSp \notin gvs)
  /\ Go([u EXCEPT !.i = @ + 1, !.sp = CurSp, !.fatalSp = IF Cur.fatal /\ @ = None THEN CurSp ELSE @])
  /\ Keep /\ KeepGpu /\ KeepBuf /\ UNCHANGED <<pf, replays>>

CanService == u.i <= Len(u.batch) /\ ~Cur.fatal /\ CurSp \in gvs

ServiceBlock ==
  /\ u.pc = "service" /\ CanService
  /\ \E hint \in Hints :
       LET d == service_fault_batch_dispatch(u.i, hint)
           r == [Apply(u, d) EXCEPT !.sp = CurSp]
       IN /\ map' = d.s.map /\ Hinted(hint)
          /\ IF policy = "block" /\ r.fatalSp = None THEN push_replay_on_gpu(r)
             ELSE Go(r) /\ UNCHANGED replays
  /\ UNCHANGED <<mode, gpu, perm, inst, gvs, known, dec, pf, fatal>>

\* the block cannot be serviced now: the locks are dropped and taken again
ServiceRetry ==
  /\ u.pc = "service" /\ CanService /\ Event("retry") /\ Go([u EXCEPT !.sp = None])
  /\ UNCHANGED <<mode, gpu, va, known, dec, pf, replays, fatal>>

enable_disable_prefetch_faults(on) ==
  IF pf /\ u.inv * 3 > BatchSize * 2 THEN on = FALSE ELSE on = pf \/ (on /\ ~pf)

\* out of memory: the replays of the batch count, and everything in it is to be
\* cancelled
ServiceFails ==
  /\ u.pc = "service" /\ CanService /\ Event("oom")
  /\ \E on \in BOOLEAN : enable_disable_prefetch_faults(on) /\ pf' = on
  /\ Go([u EXCEPT !.pc = "cancelall", !.sp = None, !.i = 1, !.rep = @ \/ u.brep])
  /\ UNCHANGED <<mode, gpu, va, known, dec, replays, fatal>>

UpdatePut == u.dups * 100 > Len(u.cached) * UpdatePutRatio
ReplayPolicy(r) ==
  CASE policy = "batch" -> push_replay_on_gpu(BatchDone([r EXCEPT !.rep = TRUE]))
    [] policy = "batch_flush" ->
         Go(Flush(r, IF UpdatePut THEN "update" ELSE "cached", "wait")) /\ UNCHANGED replays
    [] policy \in {"block", "once"} -> Go(BatchDone(r)) /\ UNCHANGED replays

ServiceDone ==
  /\ u.pc = "service" /\ u.i > Len(u.batch)
  /\ \E on \in BOOLEAN : enable_disable_prefetch_faults(on) /\ pf' = on
  /\ LET r == [u EXCEPT !.sp = None, !.rep = @ \/ u.brep]
     IN IF u.fatalSp = None THEN ReplayPolicy(r) ELSE Go([r EXCEPT !.pc = "clock"]) /\ UNCHANGED replays
  /\ Keep /\ KeepGpu /\ KeepBuf

Ended == [Idle EXCEPT !.err = u.err]
ServiceEnd ==
  /\ u.pc = "end"
  /\ IF (~u.err /\ policy = "once") \/ ~u.rep
     THEN push_replay_on_gpu(Ended) \/ (fatal /\ Go(Ended) /\ UNCHANGED replays)
     ELSE Go(Ended) /\ UNCHANGED replays
  /\ Keep /\ KeepGpu /\ KeepBuf /\ UNCHANGED pf

(***************************************************************************)
(* Cancel.  Under the lock of the fatal VA space: flush and replay, wait,  *)
(* fetch what came back, service it and cancel what is still fatal.        *)
(***************************************************************************)
\* the warps a cancel of the entry matches
Matches(e) == {w \in Warps : /\ Acc[w].sp = Acc[e.w].sp /\ Acc[w].page = PageOf(e)
                             /\ e.mode = "all" \/ Acc[w].type = Write}
AllMatches(es) == UNION {Matches(es[k]) : k \in 1..Len(es)}
\* mutant: the fatal faults of the batch are cancelled without a fresh look
CancelLockStale ==
  /\ u.pc = "clock"
  /\ Go([u EXCEPT !.pc = "cservice", !.sp = u.fatalSp, !.cancel = TRUE, !.i = Len(u.batch) + 1,
                  !.todo = SelectSeq(u.batch, LAMBDA e : e.fatal /\ Acc[e.w].sp = u.fatalSp)])
  /\ Keep /\ KeepGpu /\ KeepBuf /\ UNCHANGED <<pf, replays>>

CancelLock ==
  /\ u.pc = "clock" /\ Go(Flush([u EXCEPT !.sp = u.fatalSp, !.cancel = TRUE], "wait", "cmove"))
  /\ Keep /\ KeepGpu /\ KeepBuf /\ UNCHANGED <<pf, replays>>
\* mutant: the faults are fetched before the replay has brought them back
CancelMoveEarly ==
  /\ u.pc = "cmove" /\ ~fatal /\ (hwq = <<>> \/ Full)
  /\ IF u.sp \in gvs THEN ReadPut /\ Go(NewBatch(u)) ELSE Go([u EXCEPT !.pc = "cunlock"]) /\ UNCHANGED known
  /\ Keep /\ KeepGpu /\ UNCHANGED <<dec, pf, replays>>

\* the replay ran, GSP has moved the faults to UVM's buffer; is there still a GPU VA space?
CancelMove ==
  /\ u.pc = "cmove" /\ replays = 0 /\ ~fatal /\ (hwq = <<>> \/ Full)
  /\ IF u.sp \in gvs THEN ReadPut /\ Go(NewBatch(u)) ELSE Go([u EXCEPT !.pc = "cunlock"]) /\ UNCHANGED known
  /\ Keep /\ KeepGpu /\ UNCHANGED <<dec, pf, replays>>

\* service_fault_batch_for_cancel: a block is serviced, then its fatal faults
\* are cancelled; a fault of a fatal type is cancelled at once
service_fault_batch_for_cancel ==
  /\ u.pc = "cservice" /\ u.todo = <<>>
  /\ IF u.i > Len(u.batch) \/ Acc[u.batch[Min({u.i, Len(u.batch)})].w].sp # u.sp
     THEN Go([u EXCEPT !.pc = "cunlock"]) /\ UNCHANGED <<map, events>>
     ELSE IF Cur.fatal
     THEN Go([u EXCEPT !.todo = <<[Cur EXCEPT !.mode = "all"]>>, !.i = @ + 1]) /\ UNCHANGED <<map, events>>
     ELSE \E hint \in Hints :
            LET d == service_fault_batch_dispatch(u.i, hint)
            IN /\ map' = d.s.map /\ Hinted(hint)
               /\ Go([Apply(u, d) EXCEPT !.todo = SelectSeq(SubSeq(d.s.es, u.i, u.i + d.n - 1), LAMBDA e : e.fatal)])
  /\ KeepGpu /\ UNCHANGED <<mode, perm, inst, gvs, known, dec, pf, replays, fatal>>

\* it may have to start over, or find no memory
CancelServiceFails ==
  /\ u.pc = "cservice" /\ u.todo = <<>> /\ CanService
  /\ \/ Event("retry") /\ Go([u EXCEPT !.pc = "cunlock"])
     \/ Event("oom") /\ Go(Failed(u))
  /\ UNCHANGED <<mode, gpu, va, known, dec, pf, replays, fatal>>

cancel_fault_precise_va ==
  /\ u.pc = "cservice" /\ u.todo # <<>> /\ (replays = 0 \/ fatal)
  /\ IF fatal THEN Go(Failed(u)) /\ UNCHANGED <<st, lost>>
     ELSE st' = Cancelled(Matches(Head(u.todo))) /\ lost' = {} /\ Go([u EXCEPT !.todo = Tail(@)])
  /\ Keep /\ KeepBuf /\ UNCHANGED <<hwq, buf, enc, pf, replays>>

CancelUnlock ==
  /\ u.pc = "cunlock" /\ Go(Flush([u EXCEPT !.sp = None], "update", "cdone"))
  /\ Keep /\ KeepGpu /\ KeepBuf /\ UNCHANGED <<pf, replays>>

\* everything in the batch, VA space by VA space, but for those without a GPU VA
\* space; then, or when a cancel fails, flush
cancel_faults_all ==
  LET es == [k \in 1..Len(u.batch) |-> IF u.batch[k].fatal THEN u.batch[k] ELSE [u.batch[k] EXCEPT !.mode = "all"]]
      here == SelectSeq(SubSeq(es, u.i, Len(es)), LAMBDA e : Acc[e.w].sp = CurSp)
  IN /\ u.pc = "cancelall"
     /\ \/ /\ fatal \/ u.i > Len(u.batch)
           /\ Go(Flush([u EXCEPT !.err = TRUE], "update", "end")) /\ UNCHANGED <<st, lost>>
        \/ /\ ~fatal /\ u.i <= Len(u.batch) /\ (replays = 0 \/ CurSp \notin gvs)
           /\ IF CurSp \in gvs THEN st' = Cancelled(AllMatches(here)) /\ lost' = {} ELSE UNCHANGED <<st, lost>>
           /\ Go([u EXCEPT !.i = @ + Len(here)])
     /\ Keep /\ KeepBuf /\ UNCHANGED <<hwq, buf, enc, pf, replays>>

-----------------------------------------------------------------------------
UvmStep ==
  \/ Service \/ uvm_gpu_service_replayable_faults \/ UvmError \/ fetch_fault_buffer_entries
  \/ FlushBegin \/ fault_buffer_flush_locked \/ WaitReplay
  \/ translate_instance_ptrs \/ preprocess_fault_batch
  \/ ServiceSkip \/ ServiceBlock \/ ServiceDone \/ ServiceEnd
  \/ CancelLock \/ CancelMove \/ service_fault_batch_for_cancel \/ cancel_fault_precise_va
  \/ CancelUnlock \/ cancel_faults_all
Environment ==
  \/ (\E p \in Pages : ChangePerm(p) \/ Evict(p)) \/ (\E n \in Insts : Detach(n) \/ DropSubcontext(n))
  \/ (\E sp \in Spaces : Unregister(sp)) \/ GlobalError \/ uvm_parent_gpu_fault_buffer_resume
  \/ uvm_gpu_fault_buffer_flush \/ ServiceRetry \/ ServiceFails \/ CancelServiceFails
  \/ parse_replayable_entry_fails
Message == GspCopy \/ (\E k \in 1..NumEntries : SetValid(k))
Next == UvmStep \/ Environment \/ Message \/ GpuReplay \/ (\E w \in Warps : WarpAccess(w))
Spec == Init /\ [][Next]_vars

\* where the bottom half waits: for a fault, for a valid bit, for a replay, for GSP
\* (~ENABLED UvmStep, written out)
UvmWaits ==
  \/ u.pc = "idle" /\ (fatal \/ buf = <<>>)
  \/ u.pc = "get" /\ known > 0 /\ ~fatal /\ ~ReadyTo(IF u.cancel THEN known ELSE 1)
  \/ u.pc = "skip" /\ ~fatal /\ ~ReadyTo(known)
  \/ u.pc = "cmove" /\ ~fatal /\ hwq # <<>> /\ ~Full
  \/ /\ replays > 0 /\ ~fatal
     /\ \/ u.pc \in {"wait", "cmove"}
        \/ u.pc = "cancelall" /\ u.i <= Len(u.batch) /\ CurSp \in gvs
        \/ u.pc = "flush" /\ u.flush.mode = "wait"
        \/ u.pc = "cservice" /\ u.todo # <<>>
        \/ u.pc = "translate" /\ FirstBad = "nosub"

\* The bottom half is scheduled when a fault is pending and runs; messages
\* arrive, replays run, warps run.  What the environment does is not promised.
FairSpec == /\ Spec /\ ([]<>UvmWaits \/ []<><<UvmStep>>_vars) /\ WF_vars(Message) /\ WF_vars(GpuReplay)
            /\ WF_vars(\E w \in Warps : WarpAccess(w))

(***************************************************************************)
(* Properties.                                                             *)
(***************************************************************************)

InBuffer(w) == \E k \in DOMAIN buf : buf[k].w = w

\* No fault is forgotten: when the bottom half is done, every stalled warp has a
\* message on its way or in the buffer, or a replay is on its way, or it was
\* dropped by a buffer that still holds faults to be serviced.  Flushed,
\* merged, throttled, skipped and cancelled faults included.  With policy
\* "block" this needs a replay of the last batch: one whose VA spaces are all
\* gone issues none, and the end of the service relies on an earlier one.
NoFaultForgotten ==
  (u.pc = "idle" /\ ~fatal /\ ~u.err) =>
    \A w \in Warps : st[w] = "stall" =>
      \/ w \in ToSet(hwq) \/ InBuffer(w) \/ replays > 0
      \/ (w \in lost /\ buf # <<>>)

\* Why it holds.  A replay that was pushed and has not started will reach every
\* warp that is stalled now; where none is on its way, the bottom half owes one:
\* it is in a batch or a flush, which end in a replay, or has issued none yet.
Unstarted == replays - (IF Again(st) = {} THEN 0 ELSE 1)
Owed == \/ u.pc \in {"translate", "service", "cancelall", "clock", "flush", "skip", "cmove", "cservice", "cunlock"}
        \/ u.pc = "get" /\ u.cancel
        \/ u.pc \in {"loop", "get", "end"} /\ (~u.rep \/ policy = "once")
Noticed(w) == w \in ToSet(hwq) \/ InBuffer(w) \/ Unstarted > 0 \/ (w \in lost /\ buf # <<>>)
Accounted == fatal \/ u.err \/ Owed \/ \A w \in Warps : st[w] = "stall" => Noticed(w)
ReplayCount == replays \in 0..MaxReplays /\ (Again(st) # {} => replays > 0)
\* what is fetched on the cancel path is fetched for a cancel
ForCancel == (u.pc = "cmove" \/ (u.pc \in {"flush", "skip"} /\ u.flush.ret = "cmove")) => u.cancel

\* Only the guilty are cancelled: unless memory ran out, a warp that a cancel
\* ends makes an access that is not permitted at that moment, though the
\* permissions changed since its fault was first judged, or its subcontext is
\* gone.
OnlyFatalCancelled ==
  [][\A w \in Warps : (st[w] = "stall" /\ st'[w] = "cancelled" /\ u.pc # "cancelall") =>
       (~Permitted(w) \/ inst[Acc[w].inst] = "nosub")]_vars

\* Every entry the GPU wrote is read with the IV it was written with, and is
\* read once: what lies between GET and PUT is in step, whether earlier entries
\* were parsed or flushed unread.
IvInStep ==
  /\ cc => \A k \in DOMAIN buf : buf[k].iv = Iv(dec + k - 1)
  /\ known <= Len(buf)

\* The IV the GPU uses next is as far ahead of the one read next as there are
\* entries in the buffer, and the buffer is never full to its last entry.
IvAhead == cc => enc = Iv(dec + Len(buf))
FaultsType == /\ mode \in Modes /\ DOMAIN u = DOMAIN Idle
              /\ st \in [Warps -> {"run", "again", "stall", "done", "cancelled", "gone"}]
              /\ buf \in Seq([w : Warps, valid : BOOLEAN, iv : 0..(NumEntries - 1)]) /\ Len(buf) < NumEntries
              /\ hwq \in Seq(Warps) /\ known \in Nat /\ {enc, dec} \subseteq 0..(NumEntries - 1)
\* the inductive invariant; a batch of the replay policy "block" may end without a replay
FaultsInv == /\ FaultsType /\ IvAhead /\ IvInStep /\ ReplayCount /\ ForCancel
             /\ (policy # "block" => Accounted)

\* The batch speaks for every fault fetched: an unfiltered entry of the same
\* page, with an access at least as intrusive, whatever was merged.
BatchSpeaksForAll ==
  u.pc \in {"translate", "service", "cservice"} =>
    \A k \in 1..Len(u.cached) : \E j \in 1..Len(u.batch) :
      /\ Acc[u.batch[j].w].inst = Acc[u.cached[k]].inst /\ PageOf(u.batch[j]) = Acc[u.cached[k]].page
      /\ Acc[u.batch[j].w].type >= Acc[u.cached[k]].type

\* Every access comes to an end: it completes, is cancelled, or goes with its
\* channel, though pages are evicted, protected and throttled, the buffer
\* overflows and the bottom half gives up after a number of batches.
AccessEnds ==
  \A w \in UNION {DOMAIN m.acc : m \in Modes} :
    (w \in Warps /\ st[w] = "stall") ~> (w \notin Warps \/ st[w] \in {"done", "cancelled", "gone"} \/ fatal \/ u.err)
=============================================================================
