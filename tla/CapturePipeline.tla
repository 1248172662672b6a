-------------------------- MODULE CapturePipeline --------------------------
(***************************************************************************)
(* The streaming pipeline that writes a base or a delta image in ckpt_core *)
(* (ckpt_core.c): the main thread captures range after range into a        *)
(* staging slot of a pool, gives it an extent of the mapped file and       *)
(* queues it; writer threads copy slots to their extents and hand them     *)
(* back.  The pool and the queue each have a mutex: a critical section is  *)
(* one step, and a thread in pthread_cond_wait is asleep until a signal.   *)
(* A work item is named by its range; slot and off are its fields.         *)
(***************************************************************************)
EXTENDS Naturals, Sequences

CONSTANTS
  Writers,   \* writer threads
  Slots,     \* staging slots of the pool
  FreeStack, \* the free stack as capture_pool_init leaves it
  Capacity,  \* of the work queue
  NRanges,   \* ranges to capture
  NPages,    \* pages of a range
  PageBytes, \* of a page
  MetaBytes, \* sizeof(page_crypto_meta_t)
  Start,     \* where a range begins when all before it need the most;
             \* Start[NRanges + 1] is the size of the mapping
  Faults,    \* "capture": ioctl 115 or calloc may fail; "thread":
             \* pthread_create may fail; "sync": msync or munmap may fail
  NoSlot

Ranges == 1..NRanges
Offsets == {o \in 0..Start[NRanges + 1] : o < Start[NRanges + 1]}

(* What a range takes in the file: a byte of residency map for each page,  *)
(* the resident pages, and the metadata of the encrypted transfers.        *)
Bytes(r, resident, encrypted) ==
  NPages[r] + resident * PageBytes + encrypted * MetaBytes

(* baseline_worst_case_size: every page resident, and encrypted by itself.  *)
Most(r) == Bytes(r, NPages[r], NPages[r])

ASSUME PipelineAssumption ==
  /\ NRanges \in Nat /\ Capacity \in Nat
  /\ NPages \in [Ranges -> Nat] /\ PageBytes \in Nat /\ MetaBytes \in Nat
  /\ Start \in [1..(NRanges + 1) -> Nat]
  /\ \A r \in Ranges, q \in 1..(NRanges + 1) : r < q => Start[r] + Most(r) <= Start[q]
  /\ Writers # {}
  /\ NoSlot \notin Slots
  /\ FreeStack \in Seq(Slots)
  /\ \A s \in Slots : \E k \in 1..Len(FreeStack) : FreeStack[k] = s
  /\ \A j, k \in 1..Len(FreeStack) : j # k => FreeStack[j] # FreeStack[k]

VARIABLES
  mpc, i, mslot,        \* main thread: where it is, its range, its slot
  wpc, wr,              \* each writer: where it is, the range it works on
  free,                 \* the pool's stack of free slots, top first
  queue, closed,        \* baseline_wq_t: queued ranges, end of stream
  cur_off,              \* baseline_stream_t.cur_off
  slot, off, used,      \* of each range: its slot, the extent of its data
  buf, file,            \* whose data a slot, and a byte of the file, holds
  err,                  \* what main returns
  header                \* the image's header: of an earlier image, or this one's

pool == <<free, buf>>
main == <<mpc, i, mslot, cur_off, slot, off, used, err, header>>
work == <<wpc, wr>>
vars == <<pool, main, work, queue, closed, file>>

Extent(r) == {o \in Offsets : off[r] <= o /\ o < off[r] + used[r]}

(* The pool and the queue as they are before the writers are created; the  *)
(* file may be that of an earlier checkpoint (it is opened without O_TRUNC *)
(* to keep its pages).                                                     *)
Init ==
  /\ mpc = "start" /\ i = 1 /\ mslot = NoSlot
  /\ wpc = [w \in Writers |-> "none"] /\ wr = [w \in Writers |-> 0]
  /\ free = FreeStack /\ buf = [s \in Slots |-> 0]
  /\ queue = <<>> /\ closed = "no"
  /\ cur_off = Start[1]
  /\ slot = [r \in Ranges |-> NoSlot]
  /\ off = [r \in Ranges |-> 0] /\ used = [r \in Ranges |-> 0]
  /\ file = [o \in Offsets |-> 0]
  /\ err = "no" /\ header = "old"

-----------------------------------------------------------------------------
(* pthread_cond_signal and pthread_cond_broadcast on the queue's not_empty. *)
Sleeping == {w \in Writers : wpc[w] = "sleep"}

SignalWriter ==
  \/ Sleeping = {} /\ UNCHANGED wpc
  \/ \E w \in Sleeping : wpc' = [wpc EXCEPT ![w] = "pop"]

(* The main thread.                                                        *)
CreateWriter(w) ==
  /\ mpc = "start" /\ wpc[w] = "none"
  /\ wpc' = [wpc EXCEPT ![w] = "pop"]
  /\ UNCHANGED <<pool, main, wr, queue, closed, file>>

(* The writers that exist are told to end, and no header is written.       *)
CreateFails ==
  /\ "thread" \in Faults
  /\ mpc = "start" /\ \E w \in Writers : wpc[w] = "none"
  /\ mpc' = "undo" /\ err' = "yes" /\ closed' = "yes"
  /\ wpc' = [w \in Writers |-> IF wpc[w] = "sleep" THEN "pop" ELSE wpc[w]]
  /\ UNCHANGED <<pool, i, mslot, cur_off, slot, off, used, header, wr, queue, file>>

Started ==
  /\ mpc = "start" /\ \A w \in Writers : wpc[w] # "none"
  /\ mpc' = "acquire"
  /\ UNCHANGED <<pool, i, mslot, cur_off, slot, off, used, err, header, work,
                 queue, closed, file>>

(* capture_pool_acquire.                                                   *)
Acquire ==
  /\ mpc = "acquire" /\ i <= NRanges
  /\ IF free = <<>>
     THEN mpc' = "wait" /\ UNCHANGED <<free, mslot>>
     ELSE mslot' = Head(free) /\ free' = Tail(free) /\ mpc' = "capture"
  /\ UNCHANGED <<buf, i, cur_off, slot, off, used, err, header, work, queue,
                 closed, file>>

(* Mutant: the metadata is left out of the space a range takes.            *)
CaptureShort ==
  /\ mpc = "capture"
  /\ buf' = [buf EXCEPT ![mslot] = i]
  /\ \E resident \in 0..NPages[i] : \E encrypted \in 0..resident :
       /\ used' = [used EXCEPT ![i] = Bytes(i, resident, encrypted)]
       /\ off' = [off EXCEPT ![i] = cur_off]
       /\ cur_off' = cur_off + Bytes(i, resident, 0)
  /\ slot' = [slot EXCEPT ![i] = mslot]
  /\ mpc' = "push"
  /\ UNCHANGED <<free, i, mslot, err, header, work, queue, closed, file>>

(* ioctl 115 fills the slot; how many pages are resident on the CPU or the *)
(* GPU, and in how many transfers, of a page or more each, those of the    *)
(* GPU were encrypted, is known only then.  The descriptor is filled and   *)
(* the offset moves on before the item is queued.                          *)
Capture ==
  /\ mpc = "capture"
  /\ buf' = [buf EXCEPT ![mslot] = i]
  /\ \E resident \in 0..NPages[i] : \E encrypted \in 0..resident :
       /\ used' = [used EXCEPT ![i] = Bytes(i, resident, encrypted)]
       /\ off' = [off EXCEPT ![i] = cur_off]
       /\ cur_off' = cur_off + Bytes(i, resident, encrypted)
  /\ slot' = [slot EXCEPT ![i] = mslot]
  /\ mpc' = "push"
  /\ UNCHANGED <<free, i, mslot, err, header, work, queue, closed, file>>

(* No memory for the item, or ioctl 115 failed; what a failed read left in *)
(* the slot is not told apart from what was there, as nobody reads it.     *)
CaptureFails ==
  /\ "capture" \in Faults /\ mpc = "capture"
  /\ free' = <<mslot>> \o free /\ mslot' = NoSlot
  /\ err' = "yes" /\ mpc' = "close"
  /\ UNCHANGED <<buf, i, cur_off, slot, off, used, header, work, queue, closed, file>>

(* baseline_wq_push; with the item goes the slot.                          *)
Push ==
  /\ mpc = "push"
  /\ IF Len(queue) = Capacity
     THEN mpc' = "full" /\ UNCHANGED <<queue, i, mslot, wpc>>
     ELSE /\ queue' = Append(queue, i) /\ i' = i + 1 /\ mslot' = NoSlot
          /\ SignalWriter
          /\ mpc' = "acquire"
  /\ UNCHANGED <<pool, cur_off, slot, off, used, err, header, wr, closed, file>>

LoopEnds ==
  /\ mpc = "acquire" /\ i > NRanges
  /\ mpc' = "close"
  /\ UNCHANGED <<pool, i, mslot, cur_off, slot, off, used, err, header, work,
                 queue, closed, file>>

(* Mutant: one writer is woken for the end of the stream.                  *)
CloseOne ==
  /\ mpc = "close"
  /\ closed' = "yes" /\ mpc' = "join"
  /\ SignalWriter
  /\ UNCHANGED <<pool, i, mslot, cur_off, slot, off, used, err, header, wr, queue, file>>

(* baseline_wq_close.                                                      *)
Close ==
  /\ mpc = "close"
  /\ closed' = "yes" /\ mpc' = "join"
  /\ wpc' = [w \in Writers |-> IF wpc[w] = "sleep" THEN "pop" ELSE wpc[w]]
  /\ UNCHANGED <<pool, i, mslot, cur_off, slot, off, used, err, header, wr, queue, file>>

(* Every writer has been joined.  The table and the header are written     *)
(* whether or not a capture failed: shared_err is set nowhere.             *)
Join ==
  /\ mpc = "join" /\ \A w \in Writers : wpc[w] = "exit"
  /\ header' = "new" /\ mpc' = "done"
  /\ \/ UNCHANGED err
     \/ "sync" \in Faults /\ err' = "yes"
  /\ UNCHANGED <<pool, i, mslot, cur_off, slot, off, used, work, queue, closed, file>>

JoinCreated ==
  /\ mpc = "undo" /\ \A w \in Writers : wpc[w] \in {"none", "exit"}
  /\ mpc' = "done"
  /\ UNCHANGED <<pool, i, mslot, cur_off, slot, off, used, err, header, work,
                 queue, closed, file>>

-----------------------------------------------------------------------------
(* A writer.                                                               *)

(* Mutant: the slot goes back to the pool with the item.                   *)
PopReleases(w) ==
  /\ wpc[w] = "pop" /\ queue # <<>>
  /\ wr' = [wr EXCEPT ![w] = Head(queue)] /\ queue' = Tail(queue)
  /\ free' = <<slot[Head(queue)]>> \o free
  /\ wpc' = [wpc EXCEPT ![w] = "write"]
  /\ mpc' = IF mpc = "wait" THEN "acquire" ELSE mpc
  /\ UNCHANGED <<buf, i, mslot, cur_off, slot, off, used, err, header, closed, file>>

(* baseline_wq_pop.                                                        *)
Pop(w) ==
  /\ wpc[w] = "pop"
  /\ \/ /\ queue # <<>>
        /\ wr' = [wr EXCEPT ![w] = Head(queue)] /\ queue' = Tail(queue)
        /\ wpc' = [wpc EXCEPT ![w] = "write"]
        /\ mpc' = IF mpc = "full" THEN "push" ELSE mpc
     \/ /\ queue = <<>>
        /\ wpc' = [wpc EXCEPT ![w] = IF closed = "yes" THEN "exit" ELSE "sleep"]
        /\ UNCHANGED <<wr, queue, mpc>>
  /\ UNCHANGED <<pool, i, mslot, cur_off, slot, off, used, err, header, closed, file>>

(* The copies into the mapped file, outside every mutex.                   *)
Write(w) ==
  /\ wpc[w] = "write"
  /\ file' = [o \in Offsets |-> IF o \in Extent(wr[w]) THEN buf[slot[wr[w]]] ELSE file[o]]
  /\ wpc' = [wpc EXCEPT ![w] = "release"]
  /\ UNCHANGED <<pool, main, wr, queue, closed>>

(* capture_pool_release.                                                   *)
Release(w) ==
  /\ wpc[w] = "release"
  /\ free' = <<slot[wr[w]]>> \o free
  /\ mpc' = IF mpc = "wait" THEN "acquire" ELSE mpc
  /\ wpc' = [wpc EXCEPT ![w] = "pop"]
  /\ UNCHANGED <<buf, i, mslot, cur_off, slot, off, used, err, header, wr, queue,
                 closed, file>>

Main ==
  \/ \E w \in Writers : CreateWriter(w)
  \/ CreateFails \/ Started \/ Acquire \/ Capture \/ CaptureFails \/ Push
  \/ LoopEnds \/ Close \/ Join \/ JoinCreated

Writer(w) == Pop(w) \/ Write(w) \/ Release(w)

Next == Main \/ \E w \in Writers : Writer(w)

Spec == Init /\ [][Next]_vars

(* Threads of one process that the kernel schedules.                       *)
FairSpec == Spec /\ WF_vars(Main) /\ \A w \in Writers : WF_vars(Writer(w))

-----------------------------------------------------------------------------
(* The types of the variables; that the stack holds slots and the queue    *)
(* ranges is what the index arithmetic of pool and queue has to ensure.    *)
TypeOK ==
  /\ mpc \in {"start", "undo", "acquire", "wait", "capture", "push", "full",
              "close", "join", "done"}
  /\ i \in 1..(NRanges + 1) /\ mslot \in Slots \cup {NoSlot}
  /\ wpc \in [Writers -> {"none", "pop", "sleep", "write", "release", "exit"}]
  /\ wr \in [Writers -> 0..NRanges]
  /\ free \in Seq(Slots) /\ buf \in [Slots -> 0..NRanges]
  /\ queue \in Seq(Ranges) /\ closed \in {"no", "yes"}
  /\ cur_off \in Nat
  /\ slot \in [Ranges -> Slots \cup {NoSlot}]
  /\ off \in [Ranges -> Nat] /\ used \in [Ranges -> Nat]
  /\ file \in [Offsets -> 0..NRanges]
  /\ err \in {"no", "yes"} /\ header \in {"old", "new"}

Busy(w) == wpc[w] \in {"write", "release"}

Free(s) == \E k \in 1..Len(free) : free[k] = s

(* Range r is in the queue or with a writer, and so is its slot.           *)
Queued(r) == \E k \in 1..Len(queue) : queue[k] = r
Held(r) == Queued(r) \/ \E w \in Writers : Busy(w) /\ wr[w] = r

(* Every slot has one owner: the pool, the main thread, or one item, so    *)
(* that the next range is never captured over one that is being written.   *)
SlotOwned ==
  /\ ~Free(mslot)
  /\ \A j, k \in 1..Len(free) : j # k => free[j] # free[k]
  /\ \A s \in Slots : Free(s) \/ s = mslot \/ \E r \in Ranges : Held(r) /\ slot[r] = s
  /\ \A r \in Ranges : Held(r) =>
       /\ slot[r] \in Slots /\ ~Free(slot[r]) /\ slot[r] # mslot
       /\ \A q \in Ranges : Held(q) /\ q # r => slot[q] # slot[r]

(* An image that is reported as good has the data of every range in the    *)
(* extent that its descriptor names, and the extent lies in the mapping,   *)
(* whose size was worked out before anything was captured.                 *)
ImageComplete ==
  mpc = "done" /\ err = "no" =>
    /\ header = "new"
    /\ \A r \in Ranges :
         /\ off[r] + used[r] <= Start[NRanges + 1]
         /\ \A o \in Extent(r) : file[o] = r

(* When the pool is destroyed nobody holds a slot, failures included.      *)
Drained == mpc = "done" => queue = <<>> /\ \A s \in Slots : Free(s)

(* Why: ranges are queued in order and popped once, a thread that holds an *)
(* item holds its slot, and extents are handed out one after the other.    *)
MainInv ==
  /\ mpc \in {"capture", "push", "full"} => mslot \in Slots /\ i <= NRanges
  /\ mpc \notin {"capture", "push", "full"} => mslot = NoSlot
  /\ mpc \in {"push", "full"} => slot[i] = mslot /\ buf[mslot] = i
  /\ mpc \in {"start", "undo"} => i = 1
  /\ mpc \in {"close", "join", "done"} /\ err = "no" => i = NRanges + 1
  /\ mpc = "undo" => err = "yes"
  /\ closed = "yes" <=> mpc \in {"undo", "join", "done"}
  /\ mpc = "done" => \A w \in Writers : wpc[w] \in {"none", "exit"}
  /\ mpc = "done" /\ err = "no" => header = "new"
  /\ mpc = "done" => queue = <<>>
  /\ \A w \in Writers : wpc[w] = "exit" => closed = "yes" /\ queue = <<>>

QueueInv ==
  /\ \A k \in 1..Len(queue) : queue[k] < i
  /\ \A j, k \in 1..Len(queue) : j < k => queue[j] < queue[k]
  /\ \A w \in Writers : Busy(w) => wr[w] \in Ranges /\ wr[w] < i /\ ~Queued(wr[w])
  /\ \A w, v \in Writers : Busy(w) /\ Busy(v) /\ w # v => wr[w] # wr[v]

(* The main thread has given range r its extent.                           *)
Assigned(r) == r < i \/ (r = i /\ mpc \in {"push", "full"})

LayoutInv ==
  /\ mpc \notin {"push", "full"} => cur_off <= Start[i]
  /\ mpc \in {"push", "full"} => cur_off <= Start[i] + Most(i)
  /\ \A r \in Ranges : Assigned(r) => off[r] + used[r] <= cur_off
  /\ \A r, q \in Ranges : Assigned(r) /\ Assigned(q) /\ r < q => off[r] + used[r] <= off[q]

(* Range r still has to be written.                                        *)
Due(r) == Queued(r) \/ \E w \in Writers : wpc[w] = "write" /\ wr[w] = r

WrittenInv ==
  /\ \A r \in Ranges : Due(r) => buf[slot[r]] = r
  /\ \A r \in Ranges : r < i /\ ~Due(r) => \A o \in Extent(r) : file[o] = r

(* The inductive invariant: main thread, queue, slots, extents, contents.  *)
PipeInv == TypeOK /\ MainInv /\ QueueInv /\ SlotOwned /\ LayoutInv /\ WrittenInv

(* Every pipeline ends.                                                    *)
PipelineEnds == <>(mpc = "done")
=============================================================================
