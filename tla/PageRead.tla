------------------------------ MODULE PageRead ------------------------------
(***************************************************************************)
(* One call of a page reading ioctl of uvm_live_migration.c (109, 111,     *)
(* 113, 114, 115, 116 or 117) over a range of NPages pages, followed, for  *)
(* the ioctls that hand out ciphertext, by ioctl 112 which decrypts it.    *)
(*                                                                         *)
(* Pass 1 classifies the pages; pass 2 coalesces the GPU pages into runs   *)
(* and moves them with the copy engine through two DMA buffers per worker, *)
(* used in turn.  The workers, the copy engine and the key rotation of the *)
(* channel pool interleave; memory, thread, push and user-copy failures    *)
(* may happen at every call that can report them.                          *)
(*                                                                         *)
(* A page stands for its content.  What the copy engine writes carries the *)
(* IV <<channel, key version, number>> the engine used; what the CPU logs  *)
(* is the IV it expects.  Decryption succeeds exactly when they agree and  *)
(* the context it is done with holds that version of the key.              *)
(***************************************************************************)
EXTENDS Integers, Sequences, FiniteSets, SequencesExt

CONSTANTS NPages,     \* pages of the range
          Placements, \* functions 1..NPages -> [res, phys, dirty]
          MaxRun,     \* UVM_CONF_COMPUTING_DMA_BUFFER_SIZE in pages
          InitCap,    \* the 512 of the first gpu_pages allocation
          Threads,    \* params->num_threads
          Channels,   \* channels of the GPU_TO_CPU pool
          PoolSize,   \* DMA buffers the pool starts with
          Calls,      \* [io, flags, metaSize, target] records: the calls made
          CCModes,    \* values of g_uvm_global.conf_computing_enabled
          MaxFaults,  \* bound on injected failures
          MaxKey      \* bound on key rotations

ASSUME PageReadAssumption ==
  /\ {NPages, MaxRun, InitCap, Threads, PoolSize} \subseteq Nat \ {0}
  /\ MaxFaults \in Nat /\ MaxKey \in Nat /\ CCModes \subseteq BOOLEAN

VARIABLES cc,     \* confidential computing is enabled
          place,  \* residency, physical page and dirty flag of every page
          call,   \* the running call: io, flags, progress and outputs
          gpuPages, runs, resmap, cpuBuf,   \* the arrays of the call
          gpuBuf, meta,                     \* user's gpu_buf; crypto_meta_buf
          w,      \* the workers; worker 1 is the caller in ioctls 109-113
          chan,   \* per channel: pending pushes, IV counters, holder
          key,    \* key version of the channel pool
          fatal,  \* a channel error was seen: the engine is dead
          pool,   \* free and total DMA buffers
          plain,  \* plain_buf of ioctl 112, and its progress
          faults  \* failures injected so far
vars == <<cc, place, call, gpuPages, runs, resmap, cpuBuf, gpuBuf, meta, w,
          chan, key, fatal, pool, plain, faults>>

Page == 1..NPages
Worker == 1..Threads
Slot == {0, 1}
Nothing == "nothing"
NoIv == <<>>
\* memory that was allocated and not written: a user cell, a metadata entry,
\* a DMA buffer
Garbage == [page |-> 0, iv |-> NoIv, pos |-> 0, len |-> 0]
NoMeta == [size |-> 0, iv |-> NoIv]
EmptyBuf == [iv |-> NoIv, run |-> <<1, 0>>]

\* struct lm_mt_worker and the locals of lm_mt_worker_fn
IdleWorker == [pc |-> "off", i |-> 0, start |-> 0, count |-> 0, ch |-> Nothing,
               act |-> [c \in Slot |-> FALSE], run |-> [c \in Slot |-> <<1, 0>>],
               ti |-> [c \in Slot |-> 0], log |-> [c \in Slot |-> NoIv],
               buf |-> [c \in Slot |-> EmptyBuf],
               nbuf |-> 0, status |-> "OK", nt |-> 0]

Init ==
  /\ cc \in CCModes /\ place \in Placements
  /\ call = [io |-> 0, flags |-> {}, metaSize |-> 0, target |-> "ok", pc |-> "idle", px |-> 1,
             cap |-> 0, metaCap |-> 0, status |-> "OK", maxRun |-> MaxRun, nt |-> 0]
  /\ gpuPages = <<>> /\ runs = <<>> /\ cpuBuf = <<>>
  /\ resmap = [p \in Page |-> 2]
  /\ gpuBuf = [p \in Page |-> Garbage] /\ meta = [p \in Page |-> NoMeta]
  /\ w = [t \in Worker |-> IdleWorker]
  /\ chan = [c \in Channels |-> [ring |-> <<>>, cpuIv |-> 0, gpuIv |-> 0, by |-> 0]]
  /\ key = 0 /\ fatal = FALSE /\ pool = [free |-> PoolSize, num |-> PoolSize]
  /\ plain = [pc |-> "idle", ti |-> 0, out |-> <<>>]
  /\ faults = 0

Fault == faults < MaxFaults /\ faults' = faults + 1
NoFault == faults' = faults
Bench == call.io = 117
\* 111, 113, 115 and 116 return ciphertext; 117 does unless told to decrypt
Ciphertext == call.io \in {111, 113, 115, 116}
              \/ (Bench /\ "decrypt" \notin call.flags)
Nslots == IF Bench /\ "serial" \in call.flags THEN 1 ELSE 2
SlotOf(i) == i % Nslots
Return(s) == call' = [call EXCEPT !.pc = "done", !.status = s]
KeepPass1 == UNCHANGED <<gpuPages, resmap, cpuBuf>>
KeepEngine == UNCHANGED <<chan, key, fatal, pool>>
KeepWorld == UNCHANGED <<cc, place, plain>>

(***************************************************************************)
(* Entry: argument checks, the residency map (all absent) and the first    *)
(* arrays.  111 and 113 size the metadata with the page list; 114 without  *)
(* confidential computing is 109; 115, 116 and 117 need it.  The range may *)
(* lie in no VA space ("unmanaged"), the GPU named may be none of the VA   *)
(* space's ("foreign"), which pass 1 finds out.                            *)
(***************************************************************************)
Begin(io, metaCap) ==
  \E a \in Calls :
    /\ a.io = io
    /\ call.pc = "idle"
    /\ LET n == IF NPages < InitCap THEN NPages ELSE InitCap
       IN \/ /\ NoFault
             /\ call' = [call EXCEPT !.io = IF io = 114 /\ ~cc THEN 109 ELSE io,
                           !.flags = a.flags, !.metaSize = a.metaSize, !.target = a.target,
                           !.cap = n, !.metaCap = metaCap * n, !.pc = "pass1"]
          \/ /\ Fault
             /\ call' = [call EXCEPT !.io = io, !.pc = "done", !.status = "NO_MEMORY"]
    /\ KeepPass1 /\ KeepEngine /\ KeepWorld
    /\ UNCHANGED <<runs, gpuBuf, meta, w>>

NotSupported(io) ==
  /\ call.pc = "idle" /\ ~cc /\ \E a \in Calls : a.io = io
  /\ call' = [call EXCEPT !.io = io, !.pc = "done", !.status = "NOT_SUPPORTED"]
  /\ KeepPass1 /\ KeepEngine /\ KeepWorld
  /\ UNCHANGED <<runs, gpuBuf, meta, w, faults>>

Start109 == Begin(109, 0)
Start111 == Begin(111, 1)
Start113 == Begin(113, 1)
Start114 == Begin(114, 0)
Start115 == (cc /\ Begin(115, 1)) \/ NotSupported(115)
Start116 == (cc /\ Begin(116, 1)) \/ NotSupported(116)
Start117 == (cc /\ Begin(117, 0)) \/ NotSupported(117)

(***************************************************************************)
(* Pass 1, one page: a CPU page is copied out at once, a GPU page is       *)
(* appended to the list, which doubles when it is full.  dirtyOnly skips   *)
(* the pages of blocks that are not dirty; metaToo doubles the metadata    *)
(* together with the list.  The last page ends the pass.  Without a VA     *)
(* space the call fails, without a GPU its pages pass for absent.          *)
(***************************************************************************)
EndPass(cap) == [call EXCEPT !.px = @ + 1, !.cap = cap,
                   !.pc = IF call.px = NPages THEN "pass2" ELSE "pass1"]

Foreign == call.target = "foreign"
Absent(p) == place[p].res = "none" \/ (place[p].res = "gpu" /\ Foreign)

Classify(dirtyOnly, metaToo) ==
  LET p == call.px
      full == Len(gpuPages) >= call.cap
      cap == IF full THEN 2 * call.cap ELSE call.cap
      end == EndPass(cap)
      skip == (dirtyOnly /\ ~place[p].dirty) \/ Absent(p)
  IN /\ call.pc = "pass1"
     /\ \/ call.target = "unmanaged" /\ Return("INVALID_ADDRESS") /\ NoFault /\ KeepPass1
        \/ /\ call.target # "unmanaged"
           /\ skip
           /\ call' = EndPass(call.cap) /\ NoFault /\ KeepPass1
        \/ /\ call.target # "unmanaged" /\ ~skip /\ place[p].res = "cpu"
           /\ resmap' = [resmap EXCEPT ![p] = 0]
           /\ \/ cpuBuf' = Append(cpuBuf, p) /\ call' = EndPass(call.cap) /\ NoFault
              \/ Fault /\ Return("INVALID_ARGUMENT") /\ UNCHANGED cpuBuf
           /\ UNCHANGED gpuPages
        \/ /\ call.target # "unmanaged" /\ ~skip /\ place[p].res = "gpu"
           /\ resmap' = [resmap EXCEPT ![p] = 1]
           /\ \/ /\ gpuPages' = Append(gpuPages, [page |-> p, phys |-> place[p].phys])
                 /\ call' = IF metaToo /\ full THEN [end EXCEPT !.metaCap = cap] ELSE end
                 /\ NoFault
              \/ full /\ Fault /\ Return("NO_MEMORY") /\ UNCHANGED gpuPages
           /\ UNCHANGED cpuBuf
     /\ KeepEngine /\ KeepWorld /\ UNCHANGED <<runs, gpuBuf, meta, w>>

Classify109 == call.io = 109 /\ Classify(FALSE, FALSE)

Classify111 == call.io = 111 /\ Classify(FALSE, TRUE)
Classify113 == call.io = 113 /\ Classify(FALSE, TRUE)
lm_mt_pass1 == call.io \in {114, 115, 116, 117} /\ Classify(call.io = 116, FALSE)

(***************************************************************************)
(* Runs: consecutive list entries with consecutive physical pages, at most *)
(* max pages each.  Each run is a pair <<first entry, number of entries>>. *)
(* The user offset of entry e is e: offsets grow with the list.            *)
(***************************************************************************)
Joins(gp, max, r, e) ==
  /\ gp[e].phys = gp[e - 1].phys + 1
  /\ r[2] + 1 <= max

Coalesce(gp, max) ==
  LET Step(rs, e) ==
        IF rs # <<>> /\ Joins(gp, max, Last(rs), e)
        THEN [rs EXCEPT ![Len(rs)] = <<@[1], @[2] + 1>>]
        ELSE Append(rs, <<e, 1>>)
  IN FoldLeft(Step, <<>>, [e \in 1..Len(gp) |-> e])

\* 115 and 116 replace the metadata array by one of the list's final size;
\* 117 allocates its array now
MetaSized == call.io \in {115, 116, 117}

build_runs(s) ==
  /\ runs' = Coalesce(gpuPages, call.maxRun)
  /\ call' = [call EXCEPT !.pc = s, !.metaCap = IF MetaSized THEN call.cap ELSE @]

(***************************************************************************)
(* lm_mt_run_workers and lm_bench_run_workers: near-equal contiguous       *)
(* slices; a worker's metadata starts at its slice.  A kthread that cannot *)
(* be created counts as finished with NO_MEMORY.                           *)
(***************************************************************************)
NumThreads(nr) == IF Threads > nr THEN nr ELSE Threads
SliceCount(t, nr) == nr \div NumThreads(nr)
                     + (IF t - 1 < nr % NumThreads(nr) THEN 1 ELSE 0)
(* Mutant: the runs left over by the division are not counted.             *)
SliceStartEven(t, nr) == (t - 1) * (nr \div NumThreads(nr))

SliceStart(t, nr) ==
  FoldLeft(LAMBDA s, u : s + SliceCount(u, nr), 0, [u \in 1..(t - 1) |-> u])

Spawn(nr, failed) ==
  w' = [t \in Worker |->
          IF t > NumThreads(nr) THEN w[t]
          ELSE IF t \in failed THEN [w[t] EXCEPT !.pc = "done", !.status = "NO_MEMORY"]
          ELSE [w[t] EXCEPT !.pc = "alloc", !.start = SliceStart(t, nr),
                            !.count = SliceCount(t, nr)]]

RunWorkers ==
  /\ call.pc = "pass2" /\ cc /\ ~Foreign
  /\ build_runs(IF gpuPages = <<>> THEN "finish" ELSE "workers")
  /\ IF gpuPages = <<>> THEN NoFault /\ UNCHANGED w
     ELSE LET nr == Len(runs')
          IN \/ Spawn(nr, {}) /\ NoFault
             \/ Fault /\ \E t \in 1..NumThreads(nr) : Spawn(nr, {t})
  /\ KeepPass1 /\ KeepEngine /\ KeepWorld /\ UNCHANGED <<gpuBuf, meta>>

\* an allocation of the plain buffer, run list, metadata or worker array fails
Pass2NoMemory ==
  /\ call.pc = "pass2" /\ cc /\ ~Foreign /\ call.io \notin {111, 113} /\ Fault /\ Return("NO_MEMORY")
  /\ KeepPass1 /\ KeepEngine /\ KeepWorld /\ UNCHANGED <<runs, gpuBuf, meta, w>>

\* the ioctls with workers refuse to go on without a GPU
NoGpu ==
  /\ call.pc = "pass2" /\ Foreign /\ call.io \in {114, 115, 116, 117} /\ Return("INVALID_DEVICE")
  /\ KeepPass1 /\ KeepEngine /\ KeepWorld /\ UNCHANGED <<runs, gpuBuf, meta, w, faults>>

lm_mt_run_workers == call.io \in {114, 115, 116} /\ RunWorkers
lm_bench_run_workers == Bench /\ RunWorkers

\* 109, 111 and 113 run the same loop in the caller, over all runs
OwnLoop ==
  /\ call.pc = "pass2" /\ cc /\ ~Foreign /\ build_runs("workers")
  /\ w' = [w EXCEPT ![1].pc = "alloc", ![1].count = Len(runs')]
  /\ NoFault /\ KeepPass1 /\ KeepEngine /\ KeepWorld /\ UNCHANGED <<gpuBuf, meta>>

Loop109 == call.io = 109 /\ OwnLoop
Loop111 == call.io = 111 /\ OwnLoop
Loop113 == call.io = 113 /\ OwnLoop

(***************************************************************************)
(* Without confidential computing, or without a GPU and so without GPU     *)
(* pages, 109, 111 and 113 read run by run with a plain copy.  When the bounce buffer cannot be         *)
(* allocated the one-page buffer of pass 1 is used, and a run is one page. *)
(***************************************************************************)
SerialStart ==
  /\ call.pc = "pass2" /\ (~cc \/ (Foreign /\ call.io \in {109, 111, 113}))
  /\ \E m \in {MaxRun, 1} :
       /\ IF m = MaxRun THEN NoFault ELSE Fault
       /\ runs' = Coalesce(gpuPages, m)
       /\ call' = [call EXCEPT !.pc = "serial", !.maxRun = m]
  /\ KeepPass1 /\ KeepEngine /\ KeepWorld /\ UNCHANGED <<gpuBuf, meta, w>>

\* the user's cells of a run after a copy from a buffer that holds the run src:
\* each cell knows its page, its IV and its place in the transfer
Cells(run, src, iv) ==
  [e \in Page |-> IF e \in run[1]..(run[1] + run[2] - 1)
                  THEN IF e - run[1] < src[2]
                       THEN [page |-> gpuPages[src[1] + e - run[1]].page, iv |-> iv,
                             pos |-> e - run[1] + 1, len |-> src[2]]
                       ELSE Garbage
                  ELSE gpuBuf[e]]

SerialRun(withMeta) ==
  /\ call.pc = "serial"
  /\ IF call.nt = Len(runs)
     THEN call' = [call EXCEPT !.pc = "finish"] /\ NoFault /\ UNCHANGED <<gpuBuf, meta>>
     ELSE LET r == runs[call.nt + 1]
          IN \/ /\ gpuBuf' = Cells(r, r, NoIv)
                /\ meta' = IF withMeta
                           THEN [meta EXCEPT ![call.nt + 1] = [size |-> r[2], iv |-> NoIv]]
                           ELSE meta
                /\ call' = [call EXCEPT !.nt = @ + 1] /\ NoFault
             \/ Fault /\ Return("ERROR") /\ UNCHANGED <<gpuBuf, meta>>
  /\ KeepPass1 /\ KeepEngine /\ KeepWorld /\ UNCHANGED <<runs, w>>

Serial109 == call.io = 109 /\ SerialRun(FALSE)
Serial111 == call.io = 111 /\ SerialRun(TRUE)
Serial113 == call.io = 113 /\ SerialRun(TRUE)

(***************************************************************************)
(* DMA buffers.  An empty pool doubles; when only part of the buffers can  *)
(* be created the pool grows by those, and with none the call fails.       *)
(***************************************************************************)
Expand(n) == [free |-> pool.free + n, num |-> pool.num + n]
TakeBuffer(q) == [q EXCEPT !.free = @ - 1]
Need == Nslots + (IF Bench /\ "shared" \in call.flags THEN 1 ELSE 0)

GotBuffer(t) == [w EXCEPT ![t].nbuf = @ + 1,
                          ![t].pc = IF w[t].nbuf + 1 = Need THEN "loop" ELSE "alloc"]
NoBuffer(t) == [w EXCEPT ![t].pc = "free", ![t].status = "NO_MEMORY"]

dma_buffer_alloc(t) ==
  /\ w[t].pc = "alloc"
  /\ IF pool.free > 0
     THEN \/ w' = GotBuffer(t) /\ pool' = TakeBuffer(pool) /\ NoFault
          \/ Fault /\ w' = NoBuffer(t) /\ UNCHANGED pool
     ELSE \E n \in 0..pool.num :
            /\ IF n = pool.num THEN NoFault ELSE Fault
            /\ pool' = IF n = 0 THEN pool ELSE TakeBuffer(Expand(n))
            /\ w' = IF n = 0 THEN NoBuffer(t) ELSE GotBuffer(t)
  /\ KeepPass1 /\ KeepWorld
  /\ UNCHANGED <<call, runs, gpuBuf, meta, chan, key, fatal>>

dma_buffer_free(t) ==
  /\ w[t].pc = "free"
  /\ pool' = [pool EXCEPT !.free = @ + w[t].nbuf]
  /\ w' = [w EXCEPT ![t].pc = "done", ![t].nbuf = 0]
  /\ KeepPass1 /\ KeepWorld
  /\ UNCHANGED <<call, runs, gpuBuf, meta, chan, key, fatal, faults>>

(***************************************************************************)
(* Submission: reserve a channel, log the IV and the key version the copy  *)
(* engine will use, write the encrypt method and end the push.  The        *)
(* channel stays reserved in between, which is what makes the logged IV    *)
(* the one the engine uses.                                                *)
(***************************************************************************)
Fail(t, s) == [w EXCEPT ![t].pc = "drain", ![t].i = 0, ![t].status = s]

push_begin(t) ==
  /\ w[t].pc = "loop" /\ w[t].i < w[t].count
  /\ ~w[t].act[SlotOf(w[t].i)]
  /\ \/ \E c \in Channels :
          /\ chan[c].by = 0
          /\ chan' = [chan EXCEPT ![c].by = t]
          /\ w' = [w EXCEPT ![t].pc = "push", ![t].ch = c] /\ NoFault
     \/ Fault /\ w' = Fail(t, "ERROR") /\ UNCHANGED chan
  /\ KeepPass1 /\ KeepWorld
  /\ UNCHANGED <<call, runs, gpuBuf, meta, key, fatal, pool>>
(* Mutant: the IV is read off the engine, which may lag behind.            *)
log_gpu_encryptionLate(ch) == <<ch, key, chan[ch].gpuIv>>

log_gpu_encryption(ch) == <<ch, key, chan[ch].cpuIv>>

push_end(t) ==
  LET c == SlotOf(w[t].i)
      ti == w[t].start + w[t].i + 1
      ch == w[t].ch
  IN /\ w[t].pc = "push"
     /\ chan' = [chan EXCEPT ![ch].by = 0, ![ch].cpuIv = @ + 1,
                             ![ch].ring = Append(@, [t |-> t, c |-> c, run |-> runs[ti]])]
     /\ w' = [w EXCEPT ![t].pc = "loop", ![t].i = @ + 1, ![t].nt = @ + 1,
                       ![t].log[c] = log_gpu_encryption(ch),
                       ![t].act[c] = TRUE, ![t].run[c] = runs[ti], ![t].ti[c] = ti,
                       ![t].ch = Nothing]
     /\ KeepPass1 /\ KeepWorld
     /\ UNCHANGED <<call, runs, gpuBuf, meta, key, fatal, pool, faults>>

LoopEnd(t) ==
  /\ w[t].pc = "loop" /\ w[t].i = w[t].count
  /\ w' = [w EXCEPT ![t].pc = "drain", ![t].i = 0]
  /\ KeepPass1 /\ KeepEngine /\ KeepWorld
  /\ UNCHANGED <<call, runs, gpuBuf, meta, faults>>

(***************************************************************************)
(* Completion of the push of a slot: metadata and ciphertext, or the       *)
(* decrypted pages, go to the user's arrays.  Deliver(t, c, s) ends with   *)
(* status s.  The benchmark may leave out the copy.                        *)
(***************************************************************************)
PushPending(t, c) ==
  \E ch \in Channels : \E k \in 1..Len(chan[ch].ring) :
    chan[ch].ring[k].t = t /\ chan[ch].ring[k].c = c
Copies == ~(Bench /\ call.flags \cap {"skip", "shared"} # {})

Deliver(t, c, s) ==
  LET x == w[t]
  IN /\ meta' = IF Ciphertext \/ Bench
                THEN [meta EXCEPT ![x.ti[c]] = [size |-> x.run[c][2], iv |-> x.log[c]]]
                ELSE meta
     /\ IF ~Ciphertext /\ x.log[c] # x.buf[c].iv
        THEN s = "DECRYPT" /\ NoFault /\ UNCHANGED gpuBuf
        ELSE \/ /\ s = "OK" /\ NoFault
                /\ gpuBuf' = IF ~Copies THEN gpuBuf
                             ELSE Cells(x.run[c], x.buf[c].run,
                                        IF Ciphertext THEN x.buf[c].iv ELSE NoIv)
             \/ Copies /\ s = "INVALID_ARGUMENT" /\ Fault /\ UNCHANGED gpuBuf

\* in the loop: an error leaves the slot active for the drain, except in 117
Consume(t) ==
  LET c == SlotOf(w[t].i)
  IN /\ w[t].pc = "loop" /\ w[t].i < w[t].count /\ w[t].act[c]
     /\ \/ /\ fatal
           /\ w' = [Fail(t, "ERROR") EXCEPT ![t].act[c] = ~Bench]
           /\ UNCHANGED <<gpuBuf, meta, faults>>
        \/ /\ ~fatal /\ ~PushPending(t, c)
           /\ \E s \in {"OK", "DECRYPT", "INVALID_ARGUMENT"} :
                /\ Deliver(t, c, s)
                /\ w' = IF s = "OK" THEN [w EXCEPT ![t].act[c] = FALSE]
                        ELSE [Fail(t, s) EXCEPT ![t].act[c] = ~Bench]
     /\ KeepPass1 /\ KeepEngine /\ KeepWorld /\ UNCHANGED <<call, runs>>
(* Mutant: after an error the other slot is not waited for.                *)
DrainNoWait(t) ==
  LET c == w[t].i
      Next_(s) == [w EXCEPT ![t].act[c] = FALSE, ![t].i = @ + 1,
                            ![t].status = IF @ = "OK" THEN s ELSE @]
  IN /\ w[t].pc = "drain"
     /\ \/ c = Nslots /\ w' = [w EXCEPT ![t].pc = "free"]
           /\ UNCHANGED <<gpuBuf, meta, faults>>
        \/ /\ c < Nslots /\ (~w[t].act[c] \/ fatal \/ w[t].status # "OK")
           /\ w' = Next_(IF w[t].act[c] THEN "ERROR" ELSE "OK")
           /\ UNCHANGED <<gpuBuf, meta, faults>>
        \/ /\ c < Nslots /\ w[t].act[c] /\ ~PushPending(t, c)
           /\ \E s \in {"OK", "DECRYPT"} : Deliver(t, c, s) /\ w' = Next_(s)
     /\ KeepPass1 /\ KeepEngine /\ KeepWorld /\ UNCHANGED <<call, runs>>

\* after the loop: every active slot is waited for, and delivered unless an
\* error was seen (117 delivers all the same and keeps the first error)
Drain(t) ==
  LET c == w[t].i
      Next_(s) == [w EXCEPT ![t].act[c] = FALSE, ![t].i = @ + 1,
                            ![t].status = IF @ = "OK" THEN s ELSE @]
  IN /\ w[t].pc = "drain"
     /\ \/ c = Nslots /\ w' = [w EXCEPT ![t].pc = "free"]
           /\ UNCHANGED <<gpuBuf, meta, faults>>
        \/ /\ c < Nslots /\ (~w[t].act[c] \/ fatal)
           /\ w' = Next_(IF w[t].act[c] THEN "ERROR" ELSE "OK")
           /\ UNCHANGED <<gpuBuf, meta, faults>>
        \/ /\ c < Nslots /\ w[t].act[c] /\ ~fatal /\ ~PushPending(t, c)
           /\ \/ /\ w[t].status # "OK" /\ ~Bench
                 /\ w' = Next_("OK") /\ UNCHANGED <<gpuBuf, meta, faults>>
              \/ /\ w[t].status = "OK" \/ Bench
                 /\ \E s \in {"OK", "DECRYPT", "INVALID_ARGUMENT"} :
                      Deliver(t, c, s) /\ w' = Next_(s)
     /\ KeepPass1 /\ KeepEngine /\ KeepWorld /\ UNCHANGED <<call, runs>>

\* the plain buffer of a worker, or the run list of 109, 111 and 113, cannot
\* be allocated
WorkerNoMemory(t) ==
  /\ \/ w[t].pc = "alloc" /\ w[t].nbuf = 0 /\ call.io \in {114, 117} /\ ~Ciphertext
     \/ w[t].pc = "loop" /\ w[t].nt = 0 /\ call.io \in {109, 111, 113} /\ runs # <<>>
  /\ Fault
  /\ w' = [w EXCEPT ![t].pc = "free", ![t].status = "NO_MEMORY"]
  /\ KeepPass1 /\ KeepEngine /\ KeepWorld /\ UNCHANGED <<call, runs, gpuBuf, meta>>

(***************************************************************************)
(* The copy engine executes the pushes of a channel in order and encrypts  *)
(* with its own IV counter.                                                *)
(***************************************************************************)
CopyEngine(ch) ==
  /\ ~fatal /\ chan[ch].ring # <<>>
  /\ LET e == Head(chan[ch].ring)
     IN w' = [w EXCEPT ![e.t].buf[e.c] = [iv |-> <<ch, key, chan[ch].gpuIv>>, run |-> e.run]]
  /\ chan' = [chan EXCEPT ![ch].ring = Tail(@), ![ch].gpuIv = @ + 1]
  /\ KeepPass1 /\ KeepWorld
  /\ UNCHANGED <<call, runs, gpuBuf, meta, key, fatal, pool, faults>>

ChannelError ==
  /\ ~fatal /\ (\E ch \in Channels : chan[ch].ring # <<>>) /\ Fault
  /\ fatal' = TRUE
  /\ KeepPass1 /\ KeepWorld /\ UNCHANGED <<call, runs, gpuBuf, meta, w, chan, key, pool>>

(* Mutant: the key is rotated though pushes are in flight.                 *)
RotateKeyBusy ==
  /\ cc /\ key < MaxKey
  /\ key' = key + 1
  /\ chan' = [ch \in Channels |-> [chan[ch] EXCEPT !.cpuIv = 0, !.gpuIv = 0]]
  /\ KeepPass1 /\ KeepWorld
  /\ UNCHANGED <<call, runs, gpuBuf, meta, w, fatal, pool, faults>>

\* the pool's key is rotated with every channel idle and locked
RotateKey ==
  /\ cc /\ key < MaxKey
  /\ \A ch \in Channels : chan[ch].ring = <<>> /\ chan[ch].by = 0
  /\ key' = key + 1
  /\ chan' = [ch \in Channels |-> [chan[ch] EXCEPT !.cpuIv = 0, !.gpuIv = 0]]
  /\ KeepPass1 /\ KeepWorld
  /\ UNCHANGED <<call, runs, gpuBuf, meta, w, fatal, pool, faults>>

(***************************************************************************)
(* The caller waits for its workers and takes the first error; then the    *)
(* residency map and, for ciphertext, the metadata go to the user.         *)
(***************************************************************************)
(* Mutant: the number of threads is not clamped to the number of runs.     *)
JoinAll ==
  /\ call.pc = "workers" /\ \A t \in Worker : w[t].pc = "done"
  /\ call' = [call EXCEPT !.pc = "finish"]
  /\ KeepPass1 /\ KeepEngine /\ KeepWorld
  /\ UNCHANGED <<runs, gpuBuf, meta, w, faults>>

Join ==
  /\ call.pc = "workers" /\ \A t \in Worker : w[t].pc \in {"off", "done"}
  /\ LET bad == {t \in Worker : w[t].status # "OK"}
         nt == FoldLeft(LAMBDA s, t : s + w[t].nt, 0, [t \in Worker |-> t])
     IN call' = IF bad = {} THEN [call EXCEPT !.pc = "finish", !.nt = nt]
                ELSE [call EXCEPT !.pc = "done",
                        !.status = w[CHOOSE t \in bad : \A u \in bad : t <= u].status]
  /\ KeepPass1 /\ KeepEngine /\ KeepWorld
  /\ UNCHANGED <<runs, gpuBuf, meta, w, faults>>

Finish(withMeta) ==
  /\ call.pc = "finish"
  /\ \/ /\ ~(withMeta /\ call.nt > call.metaSize)
        /\ Return("OK") /\ NoFault
     \/ /\ withMeta /\ call.nt > call.metaSize
        /\ Return("INVALID_ARGUMENT") /\ NoFault
     \/ Return("INVALID_ARGUMENT") /\ Fault
  /\ KeepPass1 /\ KeepEngine /\ KeepWorld /\ UNCHANGED <<runs, gpuBuf, meta, w>>

Finish109 == call.io = 109 /\ Finish(FALSE)
Finish111 == call.io = 111 /\ Finish(TRUE)
Finish113 == call.io = 113 /\ Finish(TRUE)
Finish114 == call.io = 114 /\ Finish(FALSE)
Finish115 == call.io = 115 /\ Finish(TRUE)
Finish116 == call.io = 116 /\ Finish(TRUE)
Finish117 == call.io = 117 /\ Finish(FALSE)

(***************************************************************************)
(* Ioctl 112 on what the call returned: the transfers are taken in order,  *)
(* each at the offset the sizes before it add up to.  The push that only   *)
(* yields a channel is a step of its own: the context of that channel,     *)
(* whichever it is, decrypts.  It has the pool's current key; whether it   *)
(* still has an older one is up to the library.                            *)
(***************************************************************************)
DecryptStart ==
  /\ call.pc = "done" /\ call.status = "OK" /\ ~Bench /\ Ciphertext
  /\ call.nt > 0 /\ plain.pc = "idle"
  /\ \/ /\ ~fatal /\ NoFault
        /\ plain' = [plain EXCEPT !.pc = "run", !.ti = 1]
     \/ Fault /\ plain' = [plain EXCEPT !.pc = "error"]
  /\ KeepPass1 /\ KeepEngine
  /\ UNCHANGED <<cc, place, call, runs, gpuBuf, meta, w>>

\* AES-GCM accepts exactly the whole ciphertext of one encryption
Authentic(m, off) ==
  \A k \in 1..m.size : /\ gpuBuf[off + k] # Garbage
                       /\ gpuBuf[off + k].iv = m.iv
                       /\ gpuBuf[off + k].pos = k /\ gpuBuf[off + k].len = m.size

\* the key of an IV has been rotated since
Outdated(iv) == cc /\ iv[2] # key

DecryptTransfer ==
  LET m == meta[plain.ti]
      off == Len(plain.out)
      total == Len(gpuPages)
  IN /\ plain.pc = "run"
     /\ IF plain.ti > call.nt
        THEN plain' = [plain EXCEPT !.pc = "ok"] /\ NoFault
        ELSE \/ /\ m.size = 0 \/ m.size > MaxRun \/ off + m.size > total
                   \/ (cc /\ ~Authentic(m, off)) \/ Outdated(m.iv)
                /\ plain' = [plain EXCEPT !.pc = "error"] /\ NoFault
             \/ /\ m.size > 0 /\ m.size <= MaxRun /\ off + m.size <= total
                /\ cc => Authentic(m, off)
                /\ \/ /\ plain' = [plain EXCEPT !.ti = @ + 1,
                            !.out = @ \o [k \in 1..m.size |-> gpuBuf[off + k].page]]
                      /\ NoFault
                   \/ Fault /\ plain' = [plain EXCEPT !.pc = "error"]
     /\ KeepPass1 /\ KeepEngine
     /\ UNCHANGED <<cc, place, call, runs, gpuBuf, meta, w>>

Entry == Start109 \/ Start111 \/ Start113 \/ Start114 \/ Start115 \/ Start116 \/ Start117
Caller ==
  \/ Classify109 \/ Classify111 \/ Classify113 \/ lm_mt_pass1
  \/ lm_mt_run_workers \/ lm_bench_run_workers \/ Loop109 \/ Loop111 \/ Loop113
  \/ Pass2NoMemory \/ NoGpu \/ SerialStart \/ Serial109 \/ Serial111 \/ Serial113 \/ Join
  \/ Finish109 \/ Finish111 \/ Finish113 \/ Finish114 \/ Finish115 \/ Finish116
  \/ Finish117 \/ DecryptStart \/ DecryptTransfer
\* 109, 111 and 113 have the loop of the workers written out, each its own copy
PingPong(t) == push_begin(t) \/ push_end(t) \/ LoopEnd(t) \/ Consume(t)
PingPong109(t) == call.io = 109 /\ PingPong(t)
PingPong111(t) == call.io = 111 /\ PingPong(t)
PingPong113(t) == call.io = 113 /\ PingPong(t)
lm_mt_worker_fn(t) == call.io \in {114, 115, 116} /\ PingPong(t)
lm_bench_worker_fn(t) == call.io = 117 /\ PingPong(t)
Drain109(t) == call.io = 109 /\ Drain(t)
Drain111(t) == call.io = 111 /\ Drain(t)
Drain113(t) == call.io = 113 /\ Drain(t)
DrainMt(t) == call.io \in {114, 115, 116} /\ Drain(t)
DrainBench(t) == call.io = 117 /\ Drain(t)
WorkerStep(t) ==
  \/ dma_buffer_alloc(t) \/ dma_buffer_free(t) \/ WorkerNoMemory(t)
  \/ PingPong109(t) \/ PingPong111(t) \/ PingPong113(t) \/ lm_mt_worker_fn(t) \/ lm_bench_worker_fn(t)
  \/ Drain109(t) \/ Drain111(t) \/ Drain113(t) \/ DrainMt(t) \/ DrainBench(t)
Next ==
  \/ Entry \/ Caller \/ (\E t \in Worker : WorkerStep(t))
  \/ (\E ch \in Channels : CopyEngine(ch)) \/ ChannelError \/ RotateKey
Spec == Init /\ [][Next]_vars

\* The caller runs, a kthread that was started is scheduled, a channel the
\* engine has work on makes progress (or reports an error).  Key rotation and
\* failures are never promised.
Fairness == /\ WF_vars(Caller)
            /\ \A t \in Worker : WF_vars(WorkerStep(t))
            /\ \A ch \in Channels : WF_vars(CopyEngine(ch))
FairSpec == Spec /\ Fairness

-----------------------------------------------------------------------------

Skipped(p) == Absent(p) \/ (call.io = 116 /\ ~place[p].dirty)
PagesWith(code) == SelectSeq([p \in Page |-> p], LAMBDA p : resmap[p] = code)

\* A read that reports NV_OK is complete and in place: the residency map says
\* where every page of the range was, the CPU pages and the GPU pages lie in
\* the user's buffers in range order, whatever runs, slots, workers and
\* channels carried them, and the sizes in the metadata add up to the bytes
\* returned (ioctls 109-117).  109, 111 and 113 read nothing of a GPU that is
\* not the VA space's, and report its pages as absent.
OkIsExact ==
  (call.pc = "done" /\ call.status = "OK") =>
    /\ \A p \in Page : resmap[p] = IF Skipped(p) THEN 2
                                   ELSE IF place[p].res = "cpu" THEN 0 ELSE 1
    /\ cpuBuf = PagesWith(0)
    /\ Copies => \A e \in 1..Len(PagesWith(1)) :
                   gpuBuf[e] # Garbage /\ gpuBuf[e].page = PagesWith(1)[e]
    /\ (Ciphertext /\ ~Bench) =>
         /\ \A k \in 1..call.nt : meta[k] # NoMeta
         /\ FoldLeft(LAMBDA s, k : s + meta[k].size, 0, [k \in 1..call.nt |-> k])
              = Len(PagesWith(1))

\* What an encrypted read returned decrypts, with ioctl 112 and only the
\* returned metadata, to the GPU pages in range order; it fails only for an
\* injected failure or because the key of a transfer has been rotated since,
\* never for a foreign IV, though workers shared channels and the pool's key
\* was rotated during the read.
RoundTrip ==
  /\ plain.pc = "ok" => plain.out = PagesWith(1)
  /\ plain.pc = "error" =>
       \/ faults > 0
       \/ LET m == meta[plain.ti] IN Authentic(m, Len(plain.out)) /\ Outdated(m.iv)

\* A call with well-formed arguments fails only for the reason it reports: a
\* range of no VA space, a GPU that is not the VA space's, an encrypted ioctl
\* without confidential computing, a metadata array that is too short, or a
\* failure below it.  In particular the CPU decryption of 109 and 114 never
\* meets a foreign IV.
FailsOnlyForCause ==
  LET s == call.status IN
  call.pc = "done" =>
    /\ s = "INVALID_ADDRESS" => call.target = "unmanaged"
    /\ s = "INVALID_DEVICE" => Foreign /\ call.io \notin {109, 111, 113}
    /\ s = "NOT_SUPPORTED" => ~cc
    /\ s = "INVALID_ARGUMENT" => faults > 0 \/ call.nt > call.metaSize
    /\ s \in {"NO_MEMORY", "ERROR", "DECRYPT"} => faults > 0

\* DMA buffers are neither lost nor reused early: the pool's total is the free
\* ones plus those the workers hold, on every error path, and while the engine
\* is alive a worker gives its buffers back only when none of its pushes is in
\* flight, so no later user's buffer is overwritten.
BuffersSafe ==
  /\ pool.num = pool.free + FoldLeft(LAMBDA s, t : s + w[t].nbuf, 0, [t \in Worker |-> t])
  /\ \A t \in Worker : (w[t].nbuf = 0 /\ ~fatal) => \A c \in Slot : ~PushPending(t, c)

\* A call that started ends, with every worker joined: no wait for a push, a
\* buffer or a worker lasts forever, errors included.
CallEnds == (call.pc # "idle") ~> (call.pc = "done")
============================================================================
