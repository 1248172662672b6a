----------------------------- MODULE RestoreRing -----------------------------
(***************************************************************************)
(* The decrypt pipeline of a v3 restore (libckpt_vllm.c): worker threads   *)
(* take chunk jobs in order with a fetch-and-add and decrypt job j into    *)
(* ring slot j mod N; the cudaMalloc hooks consume the jobs of their       *)
(* allocation in order, copy each slot to the GPU and hand it back for job *)
(* j + N.  Each slot has a mutex and a condition variable: a critical      *)
(* section is one step, and a thread that waits is asleep until somebody   *)
(* broadcasts on its slot.                                                 *)
(*                                                                         *)
(* An allocation found in static.img, and every allocation when the pool   *)
(* could not be made, goes through the one staging buffer instead.         *)
(***************************************************************************)
EXTENDS Integers

CONSTANTS
  Workers,       \* decrypt threads
  Apps,          \* application threads that call cudaMalloc
  N,             \* g_rst_n_ring
  NJobs,         \* g_rst_n_jobs
  NAllocs,       \* g_restore_alloc_total
  First, Count,  \* g_rst_alloc_first_job, g_rst_alloc_n_jobs
  Faults,        \* "decrypt", "h2d": ioctl 112, cudaMemcpy may fail;
                 \* "pool", "thread": the ring, a worker may not be made;
                 \* "static": static.img may cover an allocation;
                 \* "short": the base image may end before its bytes
  NoJob

Allocs == 0..(NAllocs - 1)
Jobs == 0..(NJobs - 1)
Slots == 0..(N - 1)

(* What rst_precompute_jobs lays out: consecutive runs of jobs.            *)
ASSUME RingAssumption ==
  /\ N \in Nat \ {0} /\ NJobs \in Nat /\ NAllocs \in Nat
  /\ First \in [Allocs -> Nat] /\ Count \in [Allocs -> Nat]
  /\ \A i \in Allocs : First[i] + Count[i] <= NJobs
  /\ \A i, k \in Allocs : i < k => First[i] + Count[i] <= First[k]
  /\ NoJob \notin Jobs /\ NoJob \notin Allocs
  /\ Workers \cap Apps = {}

VARIABLES
  pool,              \* g_rst_pool_active, once the first hook has run
  next_dispatch,     \* g_rst_next_dispatch
  stop,              \* g_rst_workers_stop
  swept,             \* number of slots rst_pool_shutdown has broadcast on
  state, seq, buf,   \* of each slot: state, next_seq, job whose bytes it holds
  wpc, wjob,         \* each worker: where it is, its job
  alloc_idx,         \* g_restore_alloc_idx
  apc, cur, chunk,   \* each hook: where it is, its allocation, its chunk
  out,               \* job whose bytes were copied to each chunk's place
  done,              \* allocations reported as restored
  left,              \* history: allocations whose ring jobs nobody consumes
  aborted,           \* a hook returned an error: abort()
  failed             \* history: jobs whose decryption failed

ring == <<state, seq, buf>>
work == <<wpc, wjob, next_dispatch, failed>>
hooks == <<apc, cur, chunk, alloc_idx, out, done>>
vars == <<pool, ring, work, hooks, left, stop, swept, aborted>>

SlotOf(j) == j % N

(* The job that the hook of thread a waits for or copies.                  *)
JobOf(a) == First[cur[a]] + chunk[a]

(* rst_pool_init_once: no ring at all, or a ring with the workers that     *)
(* could be created, which may be none.                                    *)
Init ==
  /\ pool \in {"on", "off"} /\ (pool = "off" => "pool" \in Faults)
  /\ wpc \in [Workers -> {"fetch", "none"}]
  /\ pool = "off" => \A w \in Workers : wpc[w] = "none"
  /\ pool = "on" /\ "thread" \notin Faults => \A w \in Workers : wpc[w] = "fetch"
  /\ left = {}
  /\ next_dispatch = 0 /\ stop = "no" /\ swept = 0
  /\ state = [s \in Slots |-> "FREE"]
  /\ seq = [s \in Slots |-> s]
  /\ buf = [s \in Slots |-> NoJob]
  /\ wjob = [w \in Workers |-> 0]
  /\ alloc_idx = 0
  /\ apc = [a \in Apps |-> "idle"]
  /\ cur = [a \in Apps |-> 0]
  /\ chunk = [a \in Apps |-> 0]
  /\ out = [j \in Jobs |-> NoJob]
  /\ done = {}
  /\ aborted = "no" /\ failed = {}

-----------------------------------------------------------------------------
(* pthread_cond_broadcast: those asleep on slot s look at it again.        *)
WakeWorkers(s) ==
  [w \in Workers |-> IF wpc[w] = "sleep" /\ SlotOf(wjob[w]) = s THEN "check" ELSE wpc[w]]

WakeApps(s) ==
  [a \in Apps |-> IF apc[a] = "sleep" /\ SlotOf(JobOf(a)) = s THEN "check" ELSE apc[a]]

Fetch(w) ==
  /\ wpc[w] = "fetch"
  /\ \/ /\ stop = "no"
        /\ next_dispatch' = next_dispatch + 1
        /\ wjob' = [wjob EXCEPT ![w] = next_dispatch]
        /\ wpc' = [wpc EXCEPT ![w] = IF next_dispatch < NJobs THEN "check" ELSE "exit"]
     \/ /\ stop = "yes"
        /\ wpc' = [wpc EXCEPT ![w] = "exit"]
        /\ UNCHANGED <<next_dispatch, wjob>>
  /\ UNCHANGED <<ring, hooks, pool, left, stop, swept, aborted, failed>>

(* Mutant: a slot is READY as soon as it is taken.                         *)
AssignReady(w) ==
  LET s == SlotOf(wjob[w])
      free == state[s] = "FREE" /\ seq[s] = wjob[w]
  IN
  /\ wpc[w] = "check"
  /\ state' = IF stop = "no" /\ free THEN [state EXCEPT ![s] = "READY"] ELSE state
  /\ wpc' = [wpc EXCEPT ![w] = CASE stop = "yes" -> "exit"
                                 [] stop = "no" /\ free -> "decrypt"
                                 [] OTHER -> "sleep"]
  /\ UNCHANGED <<seq, buf, wjob, next_dispatch, hooks, pool, left, stop, swept, aborted, failed>>

(* Under the slot's mutex: take it, leave, or go to sleep on it.           *)
Assign(w) ==
  LET j == wjob[w]
      s == SlotOf(j)
      free == state[s] = "FREE" /\ seq[s] = j
  IN
  /\ wpc[w] = "check"
  /\ \/ /\ stop = "yes"
        /\ wpc' = [wpc EXCEPT ![w] = "exit"]
        /\ UNCHANGED state
     \/ /\ stop = "no" /\ free
        /\ state' = [state EXCEPT ![s] = "ASSIGNED"]
        /\ wpc' = [wpc EXCEPT ![w] = "decrypt"]
     \/ /\ stop = "no" /\ ~free
        /\ wpc' = [wpc EXCEPT ![w] = "sleep"]
        /\ UNCHANGED state
  /\ UNCHANGED <<seq, buf, wjob, next_dispatch, hooks, pool, left, stop, swept, aborted, failed>>

(* ioctl 112 into the slot's buffer, outside the mutex.  When it fails the *)
(* buffer keeps what it held.                                              *)
Decrypt(w) ==
  /\ wpc[w] = "decrypt"
  /\ \/ /\ buf' = [buf EXCEPT ![SlotOf(wjob[w])] = wjob[w]]
        /\ UNCHANGED failed
     \/ /\ "decrypt" \in Faults
        /\ failed' = failed \cup {wjob[w]}
        /\ UNCHANGED buf
  /\ wpc' = [wpc EXCEPT ![w] = "ready"]
  /\ UNCHANGED <<state, seq, wjob, next_dispatch, hooks, pool, left, stop, swept, aborted>>

(* The slot is READY, whether or not the decryption succeeded.             *)
Ready(w) ==
  LET s == SlotOf(wjob[w]) IN
  /\ wpc[w] = "ready"
  /\ state' = [state EXCEPT ![s] = "READY"]
  /\ wpc' = [WakeWorkers(s) EXCEPT ![w] = "fetch"]
  /\ apc' = WakeApps(s)
  /\ UNCHANGED <<seq, buf, wjob, next_dispatch, cur, chunk, alloc_idx, out, done,
                 pool, left, stop, swept, aborted, failed>>

-----------------------------------------------------------------------------
(* The cudaMalloc hook.                                                    *)

(* How allocation i may be restored: not at all when it is past the end of *)
(* the snapshot, in no image, or past the end of the base image; through   *)
(* the staging buffer when static.img covers it or there is no pool;       *)
(* through the ring otherwise.                                             *)
Routes(i) ==
  IF i >= NAllocs THEN {"idle"}
  ELSE (IF "static" \in Faults THEN {"stage"} ELSE {})
       \cup (IF Count[i] = 0 THEN {"idle"}
             ELSE (IF "short" \in Faults THEN {"idle"} ELSE {})
                  \cup (IF pool = "on" THEN {"check"} ELSE {"stage"}))

(* Allocations are matched with those of the checkpoint by their order.    *)
(* The calls past the end of the snapshot are cut at one.                  *)
Apply(a) ==
  /\ apc[a] = "idle" /\ alloc_idx <= NAllocs
  /\ alloc_idx' = alloc_idx + 1
  /\ cur' = [cur EXCEPT ![a] = alloc_idx]
  /\ chunk' = [chunk EXCEPT ![a] = 0]
  /\ \E next \in Routes(alloc_idx) :
       /\ apc' = [apc EXCEPT ![a] = next]
       /\ left' = IF next # "check" /\ alloc_idx < NAllocs THEN left \cup {alloc_idx} ELSE left
  /\ UNCHANGED <<ring, work, out, done, pool, stop, swept, aborted>>

(* static.img or the serial path: the bytes are put into                   *)
(* g_restore_staging, which all hooks share, and copied from there; any    *)
(* error is returned and ends the process.                                 *)
StageTo(a, next, fault) ==
  /\ \/ apc' = [apc EXCEPT ![a] = next] /\ UNCHANGED aborted
     \/ fault \in Faults /\ aborted' = "yes" /\ UNCHANGED apc
  /\ UNCHANGED <<ring, work, cur, chunk, alloc_idx, out, done, pool, left, stop, swept>>
Stage(a) == apc[a] = "stage" /\ StageTo(a, "hand", "decrypt")
Hand(a) == apc[a] = "hand" /\ StageTo(a, "idle", "h2d")

(* Mutant: any READY slot will do, whatever job its number names.          *)
AwaitAnyReady(a) ==
  /\ apc[a] = "check"
  /\ apc' = [apc EXCEPT ![a] = IF state[SlotOf(JobOf(a))] = "READY"
                               THEN "copy" ELSE "sleep"]
  /\ UNCHANGED <<ring, work, cur, chunk, alloc_idx, out, done, pool, left, stop, swept,
                 aborted>>

Await(a) ==
  LET s == SlotOf(JobOf(a)) IN
  /\ apc[a] = "check"
  /\ apc' = [apc EXCEPT ![a] = IF state[s] = "READY" /\ seq[s] = JobOf(a)
                               THEN "copy" ELSE "sleep"]
  /\ UNCHANGED <<ring, work, cur, chunk, alloc_idx, out, done, pool, left, stop, swept,
                 aborted>>

(* cudaMemcpy from the slot's buffer, outside the mutex.                   *)
Copy(a) ==
  /\ apc[a] = "copy"
  /\ out' = [out EXCEPT ![JobOf(a)] = buf[SlotOf(JobOf(a))]]
  /\ apc' = [apc EXCEPT ![a] = "release"]
  /\ UNCHANGED <<ring, work, cur, chunk, alloc_idx, done, pool, left, stop, swept,
                 aborted>>

CopyFails(a) ==
  /\ "h2d" \in Faults /\ apc[a] = "copy"
  /\ aborted' = "yes"
  /\ UNCHANGED <<ring, work, hooks, pool, left, stop, swept>>

(* Mutant: the slot is freed for the job it has just served.               *)
ReleaseSameSeq(a) ==
  LET j == JobOf(a)
      s == SlotOf(j)
      last == chunk[a] + 1 = Count[cur[a]]
  IN
  /\ apc[a] = "release"
  /\ state' = [state EXCEPT ![s] = "FREE"]
  /\ wpc' = WakeWorkers(s)
  /\ apc' = [WakeApps(s) EXCEPT ![a] = IF last THEN "idle" ELSE "check"]
  /\ chunk' = [chunk EXCEPT ![a] = chunk[a] + 1]
  /\ done' = IF last THEN done \cup {cur[a]} ELSE done
  /\ UNCHANGED <<seq, buf, wjob, next_dispatch, cur, alloc_idx, out, pool, left, stop,
                 swept, aborted, failed>>

Release(a) ==
  LET j == JobOf(a)
      s == SlotOf(j)
      last == chunk[a] + 1 = Count[cur[a]]
  IN
  /\ apc[a] = "release"
  /\ state' = [state EXCEPT ![s] = "FREE"]
  /\ seq' = [seq EXCEPT ![s] = j + N]
  /\ wpc' = WakeWorkers(s)
  /\ apc' = [WakeApps(s) EXCEPT ![a] = IF last THEN "idle" ELSE "check"]
  /\ chunk' = [chunk EXCEPT ![a] = chunk[a] + 1]
  /\ done' = IF last THEN done \cup {cur[a]} ELSE done
  /\ UNCHANGED <<buf, wjob, next_dispatch, cur, alloc_idx, out, pool, left, stop,
                 swept, aborted, failed>>

-----------------------------------------------------------------------------
(* rst_pool_shutdown, from the library's destructor: the flag first, then  *)
(* a broadcast on every slot, in turn, under its mutex.                    *)
Shutdown ==
  /\ pool = "on" /\ stop = "no" /\ alloc_idx > 0
  /\ stop' = "yes"
  /\ UNCHANGED <<ring, work, hooks, pool, left, swept, aborted>>

(* Mutant: the sweep wakes nobody.                                         *)
ShutdownSlotSilent(s) ==
  /\ stop = "yes" /\ s = swept
  /\ swept' = swept + 1
  /\ UNCHANGED <<ring, work, hooks, pool, left, stop, aborted>>

ShutdownSlot(s) ==
  /\ stop = "yes" /\ s = swept
  /\ swept' = swept + 1
  /\ wpc' = WakeWorkers(s)
  /\ apc' = WakeApps(s)
  /\ UNCHANGED <<ring, wjob, next_dispatch, cur, chunk, alloc_idx, out, done, pool,
                 left, stop, aborted, failed>>

Worker(w) == aborted = "no" /\ (Fetch(w) \/ Assign(w) \/ Decrypt(w) \/ Ready(w))

Hook(a) ==
  /\ aborted = "no"
  /\ \/ Apply(a) \/ Await(a) \/ Copy(a) \/ CopyFails(a) \/ Release(a)
     \/ Stage(a) \/ Hand(a)

Sweep == aborted = "no" /\ \E s \in Slots : ShutdownSlot(s)

Next ==
  \/ \E w \in Workers : Worker(w)
  \/ \E a \in Apps : Hook(a)
  \/ aborted = "no" /\ Shutdown
  \/ Sweep

Spec == Init /\ [][Next]_vars

(* The threads run; the application keeps allocating until the snapshot's  *)
(* allocations are used up or it is shut down; a shutdown that has begun   *)
(* goes on.                                                                *)
HookRuns(a) ==
  /\ aborted = "no"
  /\ \/ stop = "no" /\ Apply(a)
     \/ Await(a) \/ Copy(a) \/ Release(a) \/ Stage(a) \/ Hand(a)

FairSpec ==
  /\ Spec
  /\ \A w \in Workers : WF_vars(Worker(w))
  /\ \A a \in Apps : WF_vars(HookRuns(a))
  /\ WF_vars(Sweep)

-----------------------------------------------------------------------------
TypeOK ==
  /\ next_dispatch \in Nat /\ alloc_idx \in Nat
  /\ stop \in {"no", "yes"} /\ aborted \in {"no", "yes"} /\ swept \in Nat
  /\ state \in [Slots -> {"FREE", "ASSIGNED", "READY"}]
  /\ seq \in [Slots -> Nat]
  /\ buf \in [Slots -> Jobs \cup {NoJob}]
  /\ wpc \in [Workers -> {"fetch", "check", "sleep", "decrypt", "ready", "exit", "none"}]
  /\ wjob \in [Workers -> Nat]
  /\ apc \in [Apps -> {"idle", "check", "sleep", "copy", "release", "stage", "hand"}]
  /\ cur \in [Apps -> Nat] /\ chunk \in [Apps -> Nat]
  /\ out \in [Jobs -> Jobs \cup {NoJob}]
  /\ pool \in {"on", "off"} /\ left \subseteq Allocs
  /\ done \subseteq Allocs /\ failed \subseteq Jobs

(* While a hook copies from a slot no worker writes to it, and a worker    *)
(* that writes has the slot to itself, though both do so outside the       *)
(* slot's mutex.                                                           *)
Exclusive ==
  /\ \A w \in Workers, a \in Apps :
       wpc[w] \in {"decrypt", "ready"} /\ apc[a] \in {"copy", "release"} =>
         SlotOf(wjob[w]) # SlotOf(JobOf(a))
  /\ \A w, v \in Workers :
       w # v /\ wpc[w] \in {"decrypt", "ready"} /\ wpc[v] \in {"decrypt", "ready"} =>
         SlotOf(wjob[w]) # SlotOf(wjob[v])

(* The place of chunk j holds its plaintext, unless its decryption failed.  *)
Placed(j) == j \in failed \/ out[j] = j

JobsOf(i) == First[i]..(First[i] + Count[i] - 1)

(* An allocation reported as restored has, in each chunk's place, the      *)
(* plaintext of that chunk and never that of another, where the chunk      *)
(* could be decrypted.                                                     *)
Restored ==
  \A i \in done : \A j \in JobsOf(i) : Placed(j)

(* A slot's number never goes back: a consumed chunk is never served again.*)
SeqGrows == [][\A s \in Slots : seq'[s] >= seq[s]]_vars

(* Why: the slot's next_seq names the only job that may use it, and jobs   *)
(* and allocations are handed out once.                                    *)
Busy(a) == apc[a] \in {"check", "sleep", "copy", "release"}

Staging(a) == apc[a] \in {"stage", "hand"}

HasJob(w) == wpc[w] \in {"check", "sleep", "decrypt", "ready"}

WorkerInv ==
  \A w \in Workers :
    /\ HasJob(w) => wjob[w] < next_dispatch /\ wjob[w] \in Jobs
    /\ wpc[w] \in {"decrypt", "ready"} =>
         state[SlotOf(wjob[w])] = "ASSIGNED" /\ seq[SlotOf(wjob[w])] = wjob[w]

DistinctJobs ==
  \A w, v \in Workers : w # v /\ HasJob(w) /\ HasJob(v) => wjob[w] # wjob[v]

HookInv ==
  \A a \in Apps : Busy(a) =>
    /\ cur[a] \in Allocs /\ cur[a] < alloc_idx /\ cur[a] \notin done
    /\ chunk[a] < Count[cur[a]]
    /\ apc[a] \in {"copy", "release"} =>
         state[SlotOf(JobOf(a))] = "READY" /\ seq[SlotOf(JobOf(a))] = JobOf(a)

StageInv == \A a \in Apps : Staging(a) => cur[a] \in Allocs

DistinctAllocs ==
  /\ \A a, b \in Apps : a # b /\ Busy(a) /\ Busy(b) => cur[a] # cur[b]
  /\ \A i \in done : i < alloc_idx

RingInv == TypeOK /\ WorkerInv /\ DistinctJobs /\ HookInv /\ StageInv /\ DistinctAllocs

(* What the slots and the finished chunks hold.                            *)
DataInv ==
  /\ \A s \in Slots : state[s] = "READY" => seq[s] \in failed \/ buf[s] = seq[s]
  /\ \A w \in Workers : wpc[w] = "ready" =>
       wjob[w] \in failed \/ buf[SlotOf(wjob[w])] = wjob[w]
  /\ \A a \in Apps : apc[a] = "release" => Placed(JobOf(a))
  /\ \A a \in Apps : Busy(a) =>
       \A j \in First[cur[a]]..(First[cur[a]] + chunk[a] - 1) : Placed(j)
  /\ Restored

(* The ring may never get as far as allocation i: there is no worker, or a *)
(* job that nobody consumes keeps the slot of one of its jobs or of one    *)
(* before them.                                                            *)
Clogged(i) ==
  \/ \A w \in Workers : wpc[w] = "none"
  \/ \E k \in left : \E j \in JobsOf(k) : j + N < First[i] + Count[i]

(* Every allocation that takes the ring path is restored, unless the       *)
(* process ends first or the ring is clogged before it.                    *)
RestoreEnds ==
  \A i \in Allocs :
    (alloc_idx > i /\ Count[i] > 0 /\ i \notin left) ~>
    (i \in done \/ stop = "yes" \/ aborted = "yes" \/ Clogged(i))

(* rst_pool_shutdown can join every worker: none sleeps through the stop.  *)
WorkersEnd ==
  (stop = "yes") ~> (aborted = "yes" \/ \A w \in Workers : wpc[w] \in {"exit", "none"})
=============================================================================
