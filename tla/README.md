# FLASH: a TLA+ model of GPU checkpoint and restore

FLASH checkpoints and restores the GPU memory of a running vLLM process on a
confidential-computing H100. It consists of a modified nvidia-uvm driver
(`modified_driver_code/kernel-open/nvidia-uvm`), an `LD_PRELOAD` library inside
the application (`benchmarks/flash/libckpt_vllm.c`), a checkpointer process
(`ckpt_core.c`) that is started once per round by a long-running agent
(`ckpt_agent.c`), and the restore side of the same library. This directory
models the control of these parts, checks it with TLC on small instances and
proves the main invariants with TLAPS for every instance.

## 1. The system

| part | code | state | operations | talks to |
|---|---|---|---|---|
| dirty tracking | `uvm_live_migration.c` 90-723, hunks in `uvm_va_block.c`, `uvm_va_range.c` | per VA space: tracking active; per 2MB block: tracking enabled, dirty; PTE permissions | PREPARE_ALL, write fault, block creation, eviction, GET_DIRTY_PAGES, FINALIZE | ioctls from `ckpt_core`; GPU faults |
| page reads | `uvm_live_migration.c` 385-535, 757-3262, `uvm_conf_computing.c` | recorded physical addresses, runs, worker threads, DMA buffers, IV log, key version | two-pass reads, plain or encrypted, one thread or several (109-117), decryption (112) | ioctls from `ckpt_core`; copy-engine channels |
| locks | `uvm.c`, `uvm_live_migration.c` | power-management lock, mutex of the VA space list, lock of each VA space | ioctl, open, close, mmap, munmap, fault, suspend, deferred release | every entry point |
| channels | `uvm_channel.c`, `uvm_conf_computing.c` | GPFIFO rings, tracking semaphores, push locks and semaphore, IVs, key version, WLC and LCIC schedules | reserve, begin and end a push, control entry, wait, rotate IVs and keys | every GPU operation of the driver; the GPU |
| replayable faults | `uvm_gpu_replayable_faults.c` | fault buffer, GET and PUT, batch, replay tracker | fetch, merge, service, flush, replay, cancel | the GPU, GSP, VA blocks |
| VA block | `uvm_va_block.c`, `uvm_va_block.h` | resident masks, mapping bits, chunks, read-duplicated and evicted masks, tracker | fault service, migration, mapping, revocation, eviction, GPU teardown, tools write | faults, PREPARE_ALL, other threads through the block lock |
| handshake | `ckpt_gate.h`, `ckpt_core.c` main, `libckpt_vllm.c` 1780-2165 | the mmap'd gate file: phase, ckpt_req, baseline and delta requests and answers | request, boundary, base and delta in or out of the process, snapshot of the gate, resume | shared memory, polled by both sides |
| allocation table | `libckpt_vllm.c` 1500-1715, `ckpt_gate.h` 92-130 | up to GATE_ALLOC_MAX entries in the gate file, with FREED and H2D flags | append, mark freed, mark H2D; read by `ckpt_core`, `ckpt_baseline.c`, `restore_init` | shared memory, no lock |
| capture pipeline | `ckpt_core.c` 540-735, 1700-2190 | staging slots, a bounded work queue, writer threads | acquire, capture, enqueue, write, release, close, join | mutex and condition variables |
| dirty ranges | `ckpt_core.c` 3171-3264, 3906-4190 | list of dirty pages, list of ranges | coalesce, clip to allocations | the gate's dirty table |
| restore ring | `libckpt_vllm.c` 298-660, 1086-1270 | ring of slots with state and sequence number, job counter | dispatch, decrypt, consume, release, shutdown | mutex and condition variable per slot |
| in-app baseline | `ckpt_baseline.c` | worker pool, streams | copy every unfreed allocation to the image | called from the sync hooks |
| classifier | `ckpt_agent.c` 150-400 | per-range history of dirtiness | observe, classify, write the range list | files read by `ckpt_core` |
| restore library | `librst_vllm.c`, `restore_agent.c` | image maps | restore driven from Python | ioctl 112 |

What is hard here: the base image is read while the GPU keeps writing; what the
driver asks of the GPU (page table updates, copies, encrypted launches) runs
later than the masks that describe it; keys and IVs change between encryption
and decryption; faults are flushed, lost and replayed while the pages they are
about change; the gate is shared memory that several processes and threads poll
without a lock, and `ckpt_core` may fail or be killed anywhere between two of
its stores; the allocation hooks run on any thread; the restore ring hands
buffers between threads outside their mutexes. None of this is reached by a
test that runs one request at a time. `PROJECT.json` lists these places under
"hazards", with the properties that watch them.

## 2. Modules

**DirtyTracking** (and **Snapshot**, its abstract specification). A page has a
residency, contents and a GPU write permission; a block has the tracking and
dirty flags of `uvm_va_block_t.live_migration`. `ckpt_core` goes through a
round (`agent`): PREPARE_ALL visits the blocks one by one, first the flags
(`PrepareMark`), then the revoke of write permission (`PrepareRevoke`), which
is a GPU push executed later (`RevokeLands`). The base read runs beside GPU
writes, faults, block creation, evictions and CPU writes. It has two passes per
page: `Pass1` classifies the page under the locks (CPU pages are copied, GPU
pages noted), `Pass2` copies the noted GPU pages without locks. After the
boundary the same two passes read the pages of dirty blocks, and FINALIZE
clears the flags block by block. Contents are abstract values: encryption and
the file format are left out. `Env` says which disturbances may happen; a block
hit by one is in the history variable `disturbed`, and the safety properties
except it by name. In Snapshot these blocks are `lost`: one step copies all of
memory but for them, and DirtyTracking implements it for every `Env`.

**Gate**. `ckpt_core` is a straight-line program that differs per mode; `Path`
gives its locations for the main path (`v3`), `--pause-first`, `--stun-copy`,
and the two in-app modes (`p1d` stop-and-copy, `p1e` pre-copy). Each store to
the gate that another process can see in between is a step of its own. The
application threads run the hooks of `cudaStreamSynchronize`,
`cudaDeviceSynchronize` and `cudaMemcpyAsync`: checkpoint request, then baseline
request, then delta request, with the mutex, the waits and the detached copy
thread. A failing ioctl or copy ends the run of `ckpt_core` as its `return 1`
does, without undoing anything; a kill may come at any location; the
application may exit. What the reads do to memory is DirtyTracking's matter.

**RestoreRing**. The decrypt workers and the `cudaMalloc` hooks of a v3
restore. A critical section under a slot's mutex is one step; a thread that
waits on the slot's condition variable is asleep until a broadcast on that slot
wakes it, so a lost wakeup would show. Decryption and the copy to the GPU happen
outside the mutex and are steps of their own. `buf` and `out` hold the number
of the job whose plaintext lies there.

**AllocTable**. `cudaMalloc`, `cudaFree` and the H2D copies against the gate's
table, each access a step, with an address space small enough that freed
addresses come back. `Kept`, `Static` and `BaselineRanges` are what the readers
of the table derive from it.

**CapturePipeline**. The streaming writer of base and delta images in
`ckpt_core.c`: the main thread acquires a staging slot, captures a range into it
(how many bytes are resident is known only then), gives it the next extent of
the mapped file and queues it; writers pop, copy outside every mutex, and give
the slot back. Critical sections of the pool's and the queue's mutex are steps,
waits on their condition variables are states of their own. A byte of the file
holds the number of the range that wrote it. Failing captures, thread creation
and flush are in `Faults`; after a failed capture the header is written all the
same, as in `baseline_stream_join`, and `err` is what main returns.

**PageRead**. One call of a page-reading ioctl. `Classify*` is pass 1 with its
growing arrays; `build_runs` coalesces the GPU pages; `lm_mt_run_workers` and
`SliceStart` divide the runs. A worker alternates between two DMA buffers
(`push_begin`, `push_end`, `Consume`, `Drain`), the copy engine executes the
pushes of a channel in order, `RotateKey` changes the pool's key when the
channels are idle. The five ioctls share one worker machine and differ in the
actions of their own (`Start*`, `Loop*`, `Finish*`). A page stands for its
content and a ciphertext for the IV it was made with; decryption succeeds
exactly when the logged IV is that one. Every call that can fail may (bounded
by `MaxFaults`). `DecryptStart` and `DecryptTransfer` are ioctl 112 on what was
returned. DirtyTracking says *which* pages a read must return, PageRead how.

**VaSpaceLocks**. `th[t]` is what thread t is doing and which lock it waits
for; a reader-writer lock serves its waiters in order, as the kernel's does.
The ioctls differ in how they walk the list: PREPARE_ALL copies it and drops
the mutex (`PrepareSnapshot`), the others keep the mutex. `left` counts the read
locks GET_DIRTY_PAGES leaves behind.

**Channel**. `ch` is the driver's view of a ring, `hw` the GPU's, `ent` the
entries with the key version they were made under. A reservation first rotates
the key of its pool if RM asked for it, takes the push semaphore, claims entries
(`try_claim_channel`) and, with Confidential Computing, rotates IVs that run low.
`uvm_channel_end_push` of a CE channel then needs a second reservation, of a WLC
channel, which launches it (`internal_channel_submit_work_indirect_wlc`); the
GPU side of the schedule is `GpuWlc` and `GpuLcic`. The semaphore's IVs are in
`slot`, by value modulo the ring size.

**ReplayableFaults**. A warp that faults stalls and sends a message; PUT moves
first, the valid bit follows. The bottom half is one thread (`u`): it fetches
and merges a batch, preprocesses it, services block by block, and flushes,
replays or cancels by the policy. GSP's HW buffer and the shadow buffer are
`hwq` and `buf`, the two IV counters `enc` and `dec`. Permissions, evictions,
channels and GPU VA spaces change between the steps (`Events`).

**VaBlock**. `blk` is what the driver believes of one block, `hw` what page
tables and memories hold; `hw.q` is the tracker, a sequence of stages of pushes
that run later. `hw.cur[x]` are the pages whose copy in memory x is current. A
fault goes through `Service` (new residency, unmapping), `Populate`, `Copy`,
`Revoke`, `Map` and `MapFollowers`, the functions the driver calls in this
order; eviction, tools writes and GPU teardown share the first part. An
allocation that fails or drops the lock abandons the operation between any two
(`Abandoned`). `Modes` are the configurations: Confidential Computing, peers,
mapped system memory, read duplication, preferred location, accessed_by.
Confidential copies are staged through encrypted buffers (`Encrypt`,
`Decrypt`), and the bulk restore of FLASH is `Bulk`.

*How they fit.* Gate says when `ckpt_core` calls PREPARE_ALL, the reads and
FINALIZE; DirtyTracking what a round captures, given a driver that revokes
write access and marks blocks on faults; VaBlock shows that the fault path does
so (ArmedIsReadOnly) and keeps memory coherent meanwhile; ReplayableFaults that
every fault reaches it and returns; Channel that the pushes of all of them run
once, in order and under their key; PageRead that what is read arrives;
VaSpaceLocks that these calls may run beside one another.

The `MC*` modules only declare the model values and the concrete layouts. Each
`*_proof` module extends the module it is named after.

## 3. Runs

| run | checks | instance | distinct states |
|---|---|---|---|
| tracking | CaptureExact, WrittenIsDirty, AbsSpec (refinement of Snapshot) | one block of two pages, two values, all four disturbances | 81,331 |
| gate | BoundaryHeld, BaselineAnswersRound, SnapshotAtBoundary | one thread, all modes, three rounds, failures, kills and exit | 397,796 |
| gate_live | RoundEnds, Released | two owner threads and a child process, four modes, two rounds | 36,071 |
| ring | Exclusive, Restored, RestoreEnds, WorkersEnd | one worker, two hooks, four chunks, three slots, decrypt and H2D failures | 118,286 |
| pipeline | SlotOwned, ImageComplete, WithinMapping, PipelineEnds | two writers, four slots, a queue of four, five ranges of at most one and of no bytes, all faults | 427,064 |
| alloc_table | BaselineIsLive, LiveKept | one thread, three address units, a table of three entries | 299,753 |
| page_read | OkIsExact, RoundTrip, FailsOnlyForCause, BuffersSafe, CallEnds | nine calls of the seven ioctls, four pages in two placements, two workers, two channels, one failure, one key rotation | 250,506 |
| locks | HeldByCalls, HandsOffFreed, SuspendExcludes, EveryoneProceeds | two files, one mapping process, at most one lock left behind | about 200,000 |
| channel | RingSafe, KeyStable, WlcAtRest, IvSafe, OpsEnd | two threads, two operations, two CE channels of three entries, one WLC channel of four, one failing channel | about 330,000 |
| faults | NoFaultForgotten, IvInStep, BatchSpeaksForAll, OnlyFatalCancelled, AccessEnds | seven configurations of two or three accesses, a buffer of three entries, batches of two | 240,676 |
| va_block | Coherent, MappingsOk, ArmedIsReadOnly | twelve configurations: one GPU with one or two pages, two GPUs with one | 1,313,013 |
| v_release | Released, violated | one thread, p1e | |

*What the passing runs show.* Base plus delta is the memory at the boundary in
every block that no named disturbance hit, and a round implements an atomic
snapshot of the others. The thread that signalled the boundary stays
there, holding the mutex, until `ckpt_core` releases it, whatever fails and
however often `ckpt_core` is killed. A base taken as complete belongs to the
round unless an earlier run was killed. Ring slots are never shared, chunks
land in their own place, no wakeup is lost and a shutdown ends every worker.
Staging slots have one owner, a good image has every range in the extent its
descriptor names, and the pipeline ends, failures included. For one allocating
thread the table lists exactly the live allocations and each is captured.
A read reported as good is complete and in order, and its ciphertext decrypts
with nothing but the returned metadata, through key rotations and shared
channels; DMA buffers go back when nothing writes to them, on every error path.
No lock is lost but the one named below, and nobody waits in a circle. Rings
never run over, no push meets a key or an IV other than its own, and the
WLC/LCIC schedule comes to rest in the state its next use relies on. No fault is
forgotten by a flush, a merge or a full buffer; a cancel ends only accesses that
are not permitted when it is pushed. A page read through any page table holds
the last value written, at every moment of a migration, an eviction or a
teardown; and a block that is tracked and clean is read-only for every GPU once
the revokes of PREPARE_ALL have run.

*What the violation shows.* `v_release`: p1e stores RESUME before it withdraws
the request; a thread that reaches its next sync point in between parks again
and nobody releases it. `PROJECT.json` quotes the comment beside it.

*Exceptions written into the properties.* Some properties would fail without a
condition, and the condition names the case: `disturbed` in CaptureExact and
WrittenIsDirty (asynchronous or failed revokes, evictions between the passes of
the concurrent base read, CPU writes, which the fault handler does not record);
`~killed` in BaselineAnswersRound (baseline_done has no round number, so the
copy a killed run asked for answers the next one); the three modes of
SnapshotAtBoundary (p1e copies the gate after RESUME); `dropped` in the table
properties (a full table records nothing); `failed` in Restored (a decryption
that failed is handed on as a READY slot, and the allocation counts as restored);
`err` in ImageComplete (after a failed capture the header still counts every
range). BoundaryHeld speaks of the thread
that signalled: other threads and child processes are not stopped. gate_live
allows no failures and no exit, because an error after the boundary returns
without RESUME and the wait for the boundary does not notice an exit. The
alloc_table run has one thread: `gate_record_alloc` takes no lock, and two
threads in it can take the same slot, after which LiveKept fails. LiveKept lets
an allocation be static if a freed entry covers it; HeldByCalls and
EveryoneProceeds except the read locks GET_DIRTY_PAGES leaves behind, and
HandsOffFreed excepts PREPARE_ALL (section 4). OpsEnd excepts a control entry
no push follows (`Unfollowed`: it completes only with the push after it, and the
push may fail) and a fatal error; AccessEnds and NoFaultForgotten except an
error of the bottom half (`u.err`), after which it does not replay.
NoFaultForgotten is checked for the replay policy `block` with one VA space
only: with more it can fail (section 4). The va_block modes with tracking have GPUs that map only their own memory and no
read duplication, as FLASH is run.

*Bounds.* Two pages in a block are enough for one page to be written while
another is read under the same flag; two values tell old from new. Three rounds
let a request, its late answer and a third run meet; allocation changes are
capped at one (`MaxAllocs`), enough to tell a table before and after the
boundary. A ring of workers + 2 slots is the shortest the code builds, and one
more job than slots makes a slot be used again. Five ranges
over four slots make a slot be used again, and ranges with and without data
give extents that are empty, equal and adjacent. The table of three entries over
three units fills up, and freed addresses come back with other sizes.
In page_read four pages make three runs, so two workers get unequal slices, and
the first array (`InitCap` = 2) must grow; one failure reaches every error path,
one rotation falls between any two steps. In locks, two VA spaces are what a walk
of the list needs to hold one and wait for the other. In channel, a ring of three
entries is full after two and wraps at once, and three messages per IV make a
rotation due after one push. In faults, a buffer of three entries overflows with
three accesses, and batches of two make a service take several. In va_block one
page suffices for residency; two pages let a fault touch one and the bulk restore
another. The caps on counters are `MaxRounds`, `MaxAllocs`, `MaxFaults`,
`MaxKey`, `MaxLeak`, `MaxOps`, `MaxReplays`, `MaxQueue` and the `events` of a
fault configuration.
`CHECK_DEADLOCK FALSE` is set everywhere since the systems may stop: rounds,
jobs or table slots run out, and a failed run leaves the application parked.

*Fairness.* In gate_live: `ckpt_core` is an ordinary process once it has
started (no fairness on starting a round); each application thread keeps
running through its hook, and keeps reaching sync points, which an engine loop
does; the detached copy ends. In ring: workers and hooks are runnable
threads, and a shutdown that has begun goes on. In pipeline: the main thread and
each writer are threads of one process. In page_read: the caller, a worker that
was started, and a channel with work on it. In channel: threads, and the GPU
while no error stopped it. In faults: the bottom half runs whenever it does not
wait, messages arrive, replays and warps run; what the environment does is not
promised. These are weak, per thread. In locks the mutex of the list and the
power-management lock are taken again and again by others, and the kernel queues
their waiters: the opening, closing and mapping processes and the deferred
release queue have strong fairness; suspended systems are resumed.

## 4. Deviations

Places where the code does not do what a comment, an assertion or a test beside
it says, met while modelling. The first is a run of its own.

- `ckpt_core.c:3272` (`v_release`, above).
- `uvm_va_block.c:9077`: the revokes of PREPARE_ALL are pushed and not waited
  for, so a GPU write may land after the ioctl returned in a block that stays
  clean; `uvm_va_block.h:529` says "true if any write occurred in this 2MB block
  since PREPARE_ALL". In DirtyTracking this is the disturbance `revoke_async`.
- `ckpt_core.c:3024`: `baseline_concurrent` is not reset, so a stop-and-copy
  round after a pre-copy one copies while the application runs;
  `ckpt_gate.h:76` says "1=precopy, 0=stop&copy".
- `ckpt_core.c:3531`: the first entry that contains a range decides, freed or
  not, so a new allocation over a freed weight buffer is taken for static;
  `ckpt_gate.h:116` says "entry is stale, skip".
- `uvm_live_migration.c:332`: GET_DIRTY_PAGES ends its walk with the VA space
  lock held when the output array is full; `uvm.c:1037` asserts
  `uvm_thread_assert_all_unlocked()`. A later PREPARE_ALL or FINALIZE of that
  VA space then waits for good.
- `uvm_live_migration.c:248`: PREPARE_ALL uses VA spaces from its copy of the
  list after it dropped the mutex under which they are freed.
- `libckpt_vllm.c:1525`: two threads can take the same slot of the table.
- `uvm_va_block.c:12090`: the bulk restore is sound where GPUs map only their
  own memory. On a read-duplicated block it maps pages writable that have a
  second copy, against "there must only be one copy of the page in the system"
  (`uvm_va_block.c`, block_check_mappings_page). Where GPUs map system memory,
  the masks it reads may be left from an earlier fault, and accessed_by and
  eviction mappings give write access with no dirty mark. Neither arises with
  Confidential Computing, where GPUs map no system memory, unless an application
  asks for read duplication.
- `uvm_channel.c:883`: a failure of begin_push after the launch channel was
  reserved leaves that channel reserved; a reservation that fails on a channel
  error may keep its claim. Both only when the GPU is lost, which is why the
  claims in RingSafe are counted while there is no fatal error.
- `uvm_gpu_replayable_faults.c:2904-2966`: an error while a batch is serviced
  for cancelling ends the bottom half without a replay.
- `uvm_gpu_replayable_faults.c:2960`: "Make sure that we issue at least one
  replay if no replay has been issued yet to avoid dropping faults that do not
  show up in the buffer" counts the replays of the whole service. With the policy
  `block` a batch whose VA spaces are all gone is skipped (2282) without one, so a
  fault that a full buffer dropped after an earlier replay is answered by none
  until another fault or a flush brings one. The flush of a channel's teardown is outside
  this repository, and the default policy, batch_flush, is not affected. This
  came out of the proof of NoFaultForgotten.

## 5. Proofs

All for every value of the constants, from the named assumptions of the modules.

- `DirtyTracking_proof` (TrackingAssumption: every page has a block). The
  inductive invariant TrackingInv adds to exactness why it holds: during
  PREPARE_ALL a writable page lies in a block still to visit, or whose revoke
  is due or in flight; afterwards in a block that is dirty, in flight or
  disturbed; hence a page whose block stays clean holds what the base read
  copied (ReadInv), and pass 2 reads pages still on the GPU. From it:
  TypeCorrect, Exact (CaptureExact), NoLostWrite (WrittenIsDirty),
  DirtyMonotone (DirtyIsKept); Atomic: with any `Env`, every step maps to a step
  of Snapshot or to a stutter, where a disturbance before the boundary adds to
  `lost`; and NothingLost: with `Env = {}`, `lost` stays empty.
- `Gate_proof` (GateAssumption: the owner's threads are threads). BoundaryInv:
  a thread past the lock holds the mutex, AT_BOUNDARY is only ever the phase
  while that thread waits, and the window of `ckpt_core` is only entered from
  AT_BOUNDARY; so Invariance, GateTypeCorrect and BoundaryIsHeld, for any
  threads, modes, failures, kills and rounds. BaselineInv: until a run is killed,
  at most one copy is asked for or under way, and it is that of the round whose
  wait is open; so BaselineIsOfTheRound, for any threads. SnapshotInv: while
  the phase is AT_BOUNDARY the table is that of the boundary; so
  SnapshotIsOfTheBoundary, for an application of one thread, because a second one
  may allocate while the first waits at the boundary.
- `RestoreRing_proof` (RingAssumption: allocations have disjoint, ordered runs
  of jobs). RingInv: jobs are dispatched once, allocations applied once, and a
  slot in use has the sequence number of its user; DataInv adds what buffers
  hold. From them: RingTypeCorrect, SlotExclusive, SeqMonotone, RestoreCorrect.
- `CapturePipeline_proof` (PipelineAssumption: the worst-case offsets add up, the
  free stack lists every slot once, there is a writer). PipeInv: a slot is in
  the stack, with the main thread or with exactly one item (SlotOwned); items
  are queued in order and popped once (QueueInv); extents follow one another
  within the worst case (LayoutInv); what is due is still in its slot, and what
  is not due is in the file (WrittenInv). From it: PipelineTypeCorrect,
  SlotsOwned, Complete (ImageComplete), InMapping, AllDrained, for any number of
  writers, slots and ranges, and any queue capacity.

- `VaSpaceLocks_proof` (LocksAssumption: finitely many files, since the holders
  of the power-management lock are counted, with names that are not those of the
  other threads). LocksInv says which step of which call holds which lock (Shape,
  MutexHeld, SpaceLocks), that the power-management lock has as many readers as
  there are calls inside (Counted), how far the creation or release of each file
  has come (Lifetime), and that a freed VA space is off the list and in nobody's
  hands but those of PREPARE_ALL (OffList). From it: LocksInvariance,
  LocksTypeCorrect, LocksHeldByCalls, FreedIsLeftAlone and SuspendExcludesCalls,
  for any number of files and mappings and any length of the list.
- `AllocTable_proof` (TableAssumption). TableInv: the unfreed entries are the
  recorded live allocations, one entry each, live allocations do not overlap, and
  an entry is marked as filled from the host only if its allocation was. From it:
  TableInvariance, BaselineCopiesLive and LiveIsKept, for any address space, sizes
  and capacity. All three are for one thread, because the hooks take no lock and
  the properties fail with two (section 3).
- `VaBlock_proof` (ModesAssumption: what Confidential Computing excludes, and that
  preferences name processors). TrackInv: for every page the last push under way
  that touches its PTE, or the PTE itself if there is none, holds the driver's
  permission bits (InStep); a page has one copy unless it is marked as duplicated,
  a detached GPU has no bits, and where GPUs map only their own memory
  (`LocalMode`) a mapped page is resident there and a tracked clean block has no
  writable bit, nor has what a fault is about to map (Clean). From it:
  TrackInvariance, in every mode, and TrackedIsReadOnly (ArmedIsReadOnly), where
  tracking is used only in local modes, as in the run; section 4 says what
  happens in others. CoherenceInv accounts for the data as TrackInv does for the
  permissions, stage by stage of the pushes under way: a copy is *spoiled* in a
  stage that frees its chunk or lets somebody write another copy, and *fresh* at a
  stage if after every spoiling it has been filled again before it. While a copy
  is made nobody can write the page (Quiet); what is copied from or captured is
  fresh (CopiesFresh); a mapping is fresh, and replaced before what it points to
  is spoiled (MapsFresh); where the driver has a page, or will find zeroes or
  an old copy, it is fresh after the last stage (HeldFresh); the last entry for a
  page points to a copy, if writable to the only one (LastAimed); a page that is
  nowhere is mapped by nobody. Underway says what the operation that holds the
  lock has already established, and Backed that the driver's record agrees. It
  is inductive together with TrackInv, and gives CoherenceInvariance and
  CoherentInvariance (Coherent), in all modes but those with tracking and read
  duplication together: there the bulk restore maps duplicated pages writable
  (section 4). No mode of the run has both. MappingsInv adds what the two do not
  say of the block's record: whoever maps a page can reach a copy of it and the
  page is marked as maybe mapped (Reached), resident pages have a chunk or a CPU
  page (Stored), atomics that are not native exclude every other writer
  (AtomicsAlone), and how far the operation under way has come (UnderwayMaps): a
  moved page is mapped by nobody when the permissions are computed, and between
  the revocation and the last follower's mapping, which are steps of their own,
  those who could not keep theirs have lost them (Revoked). It gives
  MappingsInvariance and MappingsAreOk (MappingsOk) under `TrackedLocal`: any
  sharing where writes are not tracked, and tracked blocks of GPUs that map only
  their own memory, without duplication; every mode of the run is one of these.
  The hypothesis is needed, as the bulk restore maps the whole block without a
  look at who else has mapped it (section 4). For any number of GPUs, pages and
  pushes under way.
- `ReplayableFaults_proof` (FaultsAssumption: a buffer of at least two entries,
  known policies and accesses). FaultsInv has two arguments. The GPU's IV is ahead
  of the driver's by as many as the buffer holds entries, and the buffer is never
  full to its last entry (IvAhead), hence each entry is decrypted with its own IV.
  And a stalled warp has a message on its way or in the buffer, or a replay that
  has not started will reach it, or the bottom half stands where it still owes a
  replay (Accounted). From it: FaultsInvariance, EntriesInStep (IvInStep), and
  NoFaultIsForgotten for the policies other than `block` (section 4), for any
  number of warps, VA spaces and buffer entries.

Only model-checked:

- Liveness (RoundEnds, Released, RestoreEnds, WorkersEnd, PipelineEnds, CallEnds,
  EveryoneProceeds, OpsEnd, AccessEnds): out of the prover's reach, as ENABLED is.
- PageRead (OkIsExact, RoundTrip, FailsOnlyForCause, BuffersSafe) and, of
  ReplayableFaults, BatchSpeaksForAll and OnlyFatalCancelled: they speak of what a
  fold over runs, slices or fault entries returns for every input, which takes an
  induction over data that the provers do not do.
- Channel (RingSafe, KeyStable, WlcAtRest, IvSafe): safety invariants in the
  prover's reach, with no inductive invariant written yet; the wrapped indices of
  four kinds of channels that start one another make it a large one.

## 6. Not modelled

Of modelled components: in ReplayableFaults, the ATS path (1678-1913) and the
TLB-based cancel of Pascal (2345-2534, 2607-2634, 2672-2804), which this GPU does
not use; in VaBlock, PTE sizes and their splits (6057-7867), splitting of blocks
(9731-11013), UVM-Lite, HMM, NUMA nodes, indirect peers, range groups, thrashing
pins, and which pages a prefetch picks (a prefetched page is one more faulted
page); in Channel, creation and destruction of the channel manager, which run
alone; in Gate and CapturePipeline, the layout of the files.

Of components left out (`PROJECT.json` has the reasons): the dirty range table of
`ckpt_core`, the classifier of `ckpt_agent`, the in-app baseline copier beyond its
answer to the gate, the serial, v4, static and overlay restore paths,
`librst_vllm.c`, the AES-GCM helpers, the Python dump of engine state, the
emulations of other systems and the microbenchmarks. Crashes of `ckpt_core`
between data and header of an image (`ckpt_core.c:1939`) and images whose capture
failed (`ckpt_core.c:2094`) would belong to those restore paths.

Next, in this order:

1. An inductive invariant for Channel (RingSafe first).
2. DirtyRanges: coalescing and clipping of dirty pages (`ckpt_core.c`
   3171-3264, 3906-4190) against a reference definition.
3. The restore paths, with crashes between data and header.
