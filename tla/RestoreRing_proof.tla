------------------------- MODULE RestoreRing_proof -------------------------
(***************************************************************************)
(* Proofs about RestoreRing, for any ring length, any number of workers,   *)
(* of application threads, of jobs and of allocations.                     *)
(***************************************************************************)
EXTENDS RestoreRing, TLAPS

(* A job has a slot of the ring.                                           *)
LEMMA SlotType == \A j \in Nat : SlotOf(j) \in Slots
  BY RingAssumption DEF SlotOf, Slots

(* The chunks of an allocation are jobs, and allocations share none.       *)
LEMMA JobLayout ==
  ASSUME NEW i \in Allocs, NEW k \in Allocs, NEW c \in Nat, NEW d \in Nat,
         c < Count[i], d < Count[k]
  PROVE  /\ First[i] + c \in Jobs
         /\ First[i] + c = First[k] + d => i = k /\ c = d
<1>1. i \in Nat /\ k \in Nat /\ First[i] \in Nat /\ First[k] \in Nat
      /\ Count[i] \in Nat /\ Count[k] \in Nat
  BY RingAssumption DEF Allocs
<1>2. First[i] + Count[i] <= NJobs BY RingAssumption
<1>3. i < k => First[i] + Count[i] <= First[k] BY RingAssumption
<1>4. k < i => First[k] + Count[k] <= First[i] BY RingAssumption
<1> QED BY <1>1, <1>2, <1>3, <1>4, RingAssumption DEF Jobs

(* Nothing is dispatched, allocated or ready at the start.                 *)
LEMMA InitInv == Init => RingInv
<1> SUFFICES ASSUME Init PROVE RingInv OBVIOUS
<1>1. TypeOK BY RingAssumption DEF Init, TypeOK, Slots, Jobs, Allocs
<1>2. \A w \in Workers : ~HasJob(w) BY DEF Init, HasJob
<1>3. WorkerInv /\ DistinctJobs BY <1>2 DEF WorkerInv, DistinctJobs, HasJob
<1>4. HookInv /\ StageInv /\ DistinctAllocs
  BY DEF Init, HookInv, StageInv, DistinctAllocs, Busy, Staging
<1> QED BY <1>1, <1>3, <1>4 DEF RingInv

(* Where a hook may go when it is called.                                  *)
LEMMA RoutesFacts ==
  ASSUME TypeOK, NEW next \in Routes(alloc_idx)
  PROVE  /\ next \in {"idle", "stage", "check"}
         /\ next # "idle" => alloc_idx \in Allocs
         /\ next = "check" => Count[alloc_idx] > 0
<1>1. alloc_idx \in Nat /\ NAllocs \in Nat BY RingAssumption DEF TypeOK
<1>2. CASE alloc_idx >= NAllocs BY <1>2 DEF Routes
<1>3. CASE ~(alloc_idx >= NAllocs)
  <2>1. alloc_idx \in Allocs BY <1>1, <1>3 DEF Allocs
  <2>2. Count[alloc_idx] \in Nat BY <2>1, RingAssumption
  <2> QED BY <1>3, <2>1, <2>2 DEF Routes
<1> QED BY <1>2, <1>3

(* A hook that uses the staging buffer has an allocation of the snapshot.  *)
LEMMA StageStep ==
  ASSUME TypeOK, StageInv, [Next]_vars
  PROVE  StageInv'
<1> USE DEF StageInv, Staging, TypeOK
<1>1. ASSUME NEW a \in Apps, Apply(a) PROVE StageInv'
  <2>1. PICK next \in Routes(alloc_idx) : apc' = [apc EXCEPT ![a] = next] BY <1>1 DEF Apply
  <2>2. next = "stage" => alloc_idx \in Allocs BY <2>1, RoutesFacts
  <2>3. next # "hand" BY <2>1, RoutesFacts
  <2> QED BY <1>1, <2>1, <2>2, <2>3 DEF Apply
<1>2. ASSUME NEW a \in Apps, Await(a) \/ Copy(a) \/ CopyFails(a) \/ Stage(a) \/ Hand(a) PROVE StageInv'
  BY <1>2 DEF Await, Copy, CopyFails, Stage, Hand, StageTo, hooks
<1>3. ASSUME NEW a \in Apps, Release(a) PROVE StageInv'
  BY <1>3 DEF Release, WakeApps
<1>4. ASSUME NEW w \in Workers, Fetch(w) \/ Assign(w) \/ Decrypt(w) PROVE StageInv'
  BY <1>4 DEF Fetch, Assign, Decrypt, hooks
<1>5. ASSUME NEW w \in Workers, Ready(w) PROVE StageInv'
  BY <1>5 DEF Ready, WakeApps
<1>6. ASSUME NEW s \in Slots, ShutdownSlot(s) PROVE StageInv'
  BY <1>6 DEF ShutdownSlot, WakeApps
<1>7. CASE Shutdown BY <1>7 DEF Shutdown, hooks
<1>8. CASE UNCHANGED vars BY <1>8 DEF vars, hooks
<1> QED BY <1>1, <1>2, <1>3, <1>4, <1>5, <1>6, <1>7, <1>8 DEF Next, Worker, Hook, Sweep

(* Every step keeps the invariant.  One step per action, one per conjunct.  *)
LEMMA InvStep == RingInv /\ [Next]_vars => RingInv'
<1> SUFFICES ASSUME RingInv, [Next]_vars PROVE RingInv' OBVIOUS
<1>a. \A x \in Apps : Busy(x) => JobOf(x) \in Jobs /\ JobOf(x) \in Nat
  BY JobLayout, RingAssumption DEF RingInv, HookInv, JobOf, TypeOK, Jobs
<1>b. \A x, y \in Apps : x # y /\ Busy(x) /\ Busy(y) => JobOf(x) # JobOf(y)
  BY JobLayout DEF RingInv, HookInv, DistinctAllocs, JobOf, TypeOK
<1>s. StageInv' BY StageStep DEF RingInv
<1> USE SlotType, RingAssumption, <1>a, <1>b, <1>s DEF RingInv
<1>1. ASSUME NEW w \in Workers, Fetch(w) PROVE RingInv'
  <2>1. TypeOK'
    <3>1. UNCHANGED <<ring, hooks, pool, left, stop, swept, aborted, failed>> BY <1>1 DEF Fetch
    <3>2. \E l \in {"exit", "check"} : wpc' = [wpc EXCEPT ![w] = l] BY <1>1 DEF Fetch
    <3>3. wpc' \in [Workers -> {"fetch", "check", "sleep", "decrypt", "ready", "exit", "none"}]
      BY <3>2 DEF TypeOK
    <3>4. next_dispatch' \in Nat /\ wjob' \in [Workers -> Nat]
      BY <1>1 DEF Fetch, TypeOK
    <3> QED BY <3>1, <3>3, <3>4 DEF ring, hooks, TypeOK
  <2>2. ASSUME NEW v \in Workers PROVE
         /\ HasJob(v)' => wjob'[v] < next_dispatch' /\ wjob'[v] \in Jobs
         /\ wpc'[v] \in {"decrypt", "ready"} =>
              state'[SlotOf(wjob'[v])] = "ASSIGNED" /\ seq'[SlotOf(wjob'[v])] = wjob'[v]
    <3>1. CASE v # w BY <1>1, <3>1 DEF Fetch, ring, TypeOK, WorkerInv, HasJob
    <3>2. CASE v = w
      <4>1. next_dispatch \in Nat BY DEF TypeOK
      <4>2. next_dispatch < NJobs => next_dispatch \in Jobs BY <4>1 DEF Jobs
      <4> QED BY <1>1, <3>2, <4>1, <4>2 DEF Fetch, ring, TypeOK, WorkerInv, HasJob
    <3> QED BY <3>1, <3>2
  <2>3. ASSUME NEW u \in Workers, NEW v \in Workers, u # v, HasJob(u)', HasJob(v)'
        PROVE  wjob'[u] # wjob'[v]
    <3>1. \A x \in Workers : x # w => wjob'[x] = wjob[x] /\ wpc'[x] = wpc[x]
      BY <1>1 DEF Fetch, TypeOK
    <3>2. HasJob(w)' => wjob'[w] = next_dispatch BY <1>1 DEF Fetch, TypeOK, HasJob
    <3>3. \A x \in Workers : x # w /\ HasJob(x)' => HasJob(x) /\ wjob[x] # next_dispatch
      BY <3>1 DEF HasJob, WorkerInv, TypeOK
    <3> QED BY <2>3, <3>1, <3>2, <3>3 DEF DistinctJobs
  <2>4. HookInv'
    BY <1>1 DEF Fetch, ring, hooks, TypeOK, HookInv, DistinctAllocs, WorkerInv, HasJob, Busy, JobOf
  <2>5. DistinctAllocs'
    BY <1>1 DEF Fetch, ring, hooks, TypeOK, DistinctAllocs, HookInv, Busy
  <2> QED BY <2>1, <2>2, <2>3, <2>4, <2>5 DEF WorkerInv, DistinctJobs
<1>2. ASSUME NEW w \in Workers, Assign(w) PROVE RingInv'
  <2>1. TypeOK'
    <3>1. UNCHANGED <<seq, buf, wjob, next_dispatch, hooks, pool, left, stop, swept, aborted,
                    failed>>
      BY <1>2 DEF Assign
    <3>2. wpc[w] = "check" BY <1>2 DEF Assign
    <3>3. \E l \in {"exit", "decrypt", "sleep"} : wpc' = [wpc EXCEPT ![w] = l] BY <1>2 DEF Assign
    <3>4. state' = state \/ state' = [state EXCEPT ![SlotOf(wjob[w])] = "ASSIGNED"] BY <1>2 DEF Assign
    <3> QED BY <3>1, <3>2, <3>3, <3>4 DEF hooks, TypeOK, WorkerInv, HookInv, Busy, HasJob
  <2>2. WorkerInv'
    BY <1>2 DEF Assign, hooks, TypeOK, WorkerInv, DistinctJobs, HookInv, HasJob, Busy
  <2>3. DistinctJobs'
    <3>1. UNCHANGED <<seq, buf, wjob, next_dispatch, hooks, pool, left, stop, swept, aborted,
                    failed>>
      BY <1>2 DEF Assign
    <3>2. wpc[w] = "check" BY <1>2 DEF Assign
    <3>3. \E l \in {"exit", "decrypt", "sleep"} : wpc' = [wpc EXCEPT ![w] = l] BY <1>2 DEF Assign
    <3>4. state' = state \/ state' = [state EXCEPT ![SlotOf(wjob[w])] = "ASSIGNED"] BY <1>2 DEF Assign
    <3> QED BY <3>1, <3>2, <3>3, <3>4 DEF hooks, TypeOK, WorkerInv, DistinctJobs, HasJob
  <2>4. HookInv'
    BY <1>2 DEF Assign, hooks, TypeOK, HookInv, DistinctAllocs, WorkerInv, HasJob, Busy, JobOf
  <2>5. DistinctAllocs'
    BY <1>2 DEF Assign, hooks, TypeOK, DistinctAllocs, HookInv, Busy
  <2> QED BY <2>1, <2>2, <2>3, <2>4, <2>5
<1>3. ASSUME NEW w \in Workers, Decrypt(w) PROVE RingInv'
  <2>1. TypeOK'
    BY <1>3 DEF Decrypt, hooks, TypeOK, WorkerInv, HookInv, Busy, HasJob
  <2>2. WorkerInv'
    BY <1>3 DEF Decrypt, hooks, TypeOK, WorkerInv, DistinctJobs, HookInv, HasJob, Busy
  <2>3. DistinctJobs'
    BY <1>3 DEF Decrypt, hooks, TypeOK, WorkerInv, DistinctJobs, HasJob
  <2>4. HookInv'
    BY <1>3 DEF Decrypt, hooks, TypeOK, HookInv, DistinctAllocs, WorkerInv, HasJob, Busy, JobOf
  <2>5. DistinctAllocs'
    BY <1>3 DEF Decrypt, hooks, TypeOK, DistinctAllocs, HookInv, Busy
  <2> QED BY <2>1, <2>2, <2>3, <2>4, <2>5
<1>4. ASSUME NEW w \in Workers, Ready(w) PROVE RingInv'
  <2>1. TypeOK'
    BY <1>4 DEF Ready, WakeWorkers, WakeApps, TypeOK, WorkerInv, HookInv, Busy, HasJob
  <2>2. WorkerInv'
    BY <1>4 DEF Ready, WakeWorkers, WakeApps, TypeOK, WorkerInv, DistinctJobs, HookInv, HasJob, Busy
  <2>3. DistinctJobs'
    BY <1>4 DEF Ready, WakeWorkers, WakeApps, TypeOK, WorkerInv, DistinctJobs, HasJob
  <2>4. HookInv'
    BY <1>4 DEF Ready, WakeWorkers, WakeApps, TypeOK, HookInv, DistinctAllocs, WorkerInv, HasJob, Busy, JobOf
  <2>5. DistinctAllocs'
    BY <1>4 DEF Ready, WakeWorkers, WakeApps, TypeOK, DistinctAllocs, HookInv, Busy
  <2> QED BY <2>1, <2>2, <2>3, <2>4, <2>5
<1>5. ASSUME NEW a \in Apps, Apply(a) PROVE RingInv'
  <2>r. PICK next \in Routes(alloc_idx) :
          /\ apc' = [apc EXCEPT ![a] = next]
          /\ left' = IF next # "check" /\ alloc_idx < NAllocs THEN left \cup {alloc_idx} ELSE left
    BY <1>5 DEF Apply
  <2>n. /\ next \in {"idle", "stage", "check"}
        /\ next # "idle" => alloc_idx \in Allocs
        /\ next = "check" => Count[alloc_idx] > 0
    BY <2>r, RoutesFacts
  <2>1. TypeOK'
    <3>1. apc' \in [Apps -> {"idle", "check", "sleep", "copy", "release", "stage", "hand"}]
      BY <2>r, <2>n DEF TypeOK
    <3>2. left' \subseteq Allocs
      <4>1. alloc_idx \in Nat BY DEF TypeOK
      <4>2. alloc_idx < NAllocs => alloc_idx \in Allocs BY <4>1, RingAssumption DEF Allocs
      <4>3. left \subseteq Allocs BY DEF TypeOK
      <4>4. left' = left \/ (alloc_idx < NAllocs /\ left' = left \cup {alloc_idx})
        BY <2>r
      <4> QED BY <4>2, <4>3, <4>4
    <3>3. /\ alloc_idx' \in Nat /\ cur' \in [Apps -> Nat] /\ chunk' \in [Apps -> Nat]
      BY <1>5 DEF Apply, TypeOK
    <3>4. UNCHANGED <<state, seq, buf, wpc, wjob, next_dispatch, failed, out, done, pool,
                      stop, swept, aborted>>
      BY <1>5 DEF Apply, ring, work
    <3> QED BY <3>1, <3>2, <3>3, <3>4 DEF TypeOK
  <2>2. WorkerInv'
    BY <1>5 DEF Apply, ring, work, TypeOK, WorkerInv, DistinctJobs, HookInv, HasJob, Busy
  <2>3. DistinctJobs'
    BY <1>5 DEF Apply, ring, work, TypeOK, WorkerInv, DistinctJobs, HasJob
  <2>a. alloc_idx \in Nat /\ alloc_idx' = alloc_idx + 1 /\ alloc_idx \notin done
    BY <1>5 DEF Apply, DistinctAllocs, TypeOK
  <2>b. alloc_idx < NAllocs => alloc_idx \in Allocs BY <2>a DEF Allocs
  <2>c. \A b \in Apps : Busy(b) => cur[b] \in Nat /\ cur[b] < alloc_idx BY DEF HookInv, TypeOK
  <2>k. apc'[a] = next BY <2>r DEF TypeOK
  <2>h. next = "check" => alloc_idx < NAllocs BY <2>n DEF Allocs
  <2>4. ASSUME NEW b \in Apps, Busy(b)' PROVE
         /\ cur'[b] \in Allocs /\ cur'[b] < alloc_idx' /\ cur'[b] \notin done'
         /\ chunk'[b] < Count[cur'[b]]
         /\ apc'[b] \in {"copy", "release"} =>
              state'[SlotOf(JobOf(b)')] = "READY" /\ seq'[SlotOf(JobOf(b)')] = JobOf(b)'
    <3> USE <1>5, <2>4, <2>a DEF Apply
    <3>1. CASE b = a
      <4>1. alloc_idx < NAllocs /\ Count[alloc_idx] > 0 /\ apc'[a] = "check"
        BY ONLY <3>1, <2>4, <2>k, <2>h, <2>n DEF Busy
      <4>2. cur'[a] = alloc_idx /\ chunk'[a] = 0 /\ done' = done BY DEF TypeOK
      <4>3. Count[alloc_idx] \in Nat BY <4>1, <2>b
      <4> QED BY <3>1, <4>1, <4>2, <4>3, <2>b
    <3>2. CASE b # a
      <4>1. Busy(b) BY <3>2 DEF Busy, TypeOK
      <4>2. cur'[b] = cur[b] /\ chunk'[b] = chunk[b] /\ apc'[b] = apc[b] /\ done' = done
        BY <3>2 DEF TypeOK
      <4>3. JobOf(b)' = JobOf(b) BY <4>2 DEF JobOf
      <4> QED BY <4>1, <4>2, <4>3, <2>c DEF HookInv, ring
    <3> QED BY <3>1, <3>2
  <2>5. DistinctAllocs'
    <3>1. \A b \in Apps : Busy(b)' => cur'[b] = (IF b = a THEN alloc_idx ELSE cur[b])
      BY <1>5 DEF Apply, Busy, TypeOK
    <3>2. \A b \in Apps : b # a => (Busy(b)' <=> Busy(b)) BY <1>5 DEF Apply, Busy, TypeOK
    <3>3. \A x, y \in Apps : x # y /\ Busy(x)' /\ Busy(y)' => cur'[x] # cur'[y]
      BY <3>1, <3>2, <2>a, <2>c DEF DistinctAllocs
    <3>4. \A x \in done' : x < alloc_idx'
      BY <1>5, <2>a DEF Apply, DistinctAllocs, TypeOK, Allocs
    <3> QED BY <3>3, <3>4 DEF DistinctAllocs
  <2> QED BY <2>1, <2>2, <2>3, <2>4, <2>5 DEF HookInv
<1>6. ASSUME NEW a \in Apps, Await(a) PROVE RingInv'
  <2>1. TypeOK'
    BY <1>6 DEF Await, ring, work, TypeOK, WorkerInv, HookInv, Busy, HasJob
  <2>2. WorkerInv'
    BY <1>6 DEF Await, ring, work, TypeOK, WorkerInv, DistinctJobs, HookInv, HasJob, Busy
  <2>3. DistinctJobs'
    BY <1>6 DEF Await, ring, work, TypeOK, WorkerInv, DistinctJobs, HasJob
  <2>4. HookInv'
    BY <1>6 DEF Await, ring, work, TypeOK, HookInv, DistinctAllocs, WorkerInv, HasJob, Busy, JobOf
  <2>5. DistinctAllocs'
    BY <1>6 DEF Await, ring, work, TypeOK, DistinctAllocs, HookInv, Busy
  <2> QED BY <2>1, <2>2, <2>3, <2>4, <2>5
<1>7. ASSUME NEW a \in Apps, Copy(a) PROVE RingInv'
  <2>1. TypeOK'
    BY <1>7 DEF Copy, ring, work, TypeOK, WorkerInv, HookInv, Busy, HasJob
  <2>2. WorkerInv'
    BY <1>7 DEF Copy, ring, work, TypeOK, WorkerInv, DistinctJobs, HookInv, HasJob, Busy
  <2>3. DistinctJobs'
    BY <1>7 DEF Copy, ring, work, TypeOK, WorkerInv, DistinctJobs, HasJob
  <2>4. HookInv'
    BY <1>7 DEF Copy, ring, work, TypeOK, HookInv, DistinctAllocs, WorkerInv, HasJob, Busy, JobOf
  <2>5. DistinctAllocs'
    BY <1>7 DEF Copy, ring, work, TypeOK, DistinctAllocs, HookInv, Busy
  <2> QED BY <2>1, <2>2, <2>3, <2>4, <2>5
<1>8. ASSUME NEW a \in Apps, CopyFails(a) PROVE RingInv'
  <2>1. TypeOK'
    BY <1>8 DEF CopyFails, ring, work, hooks, TypeOK, WorkerInv, HookInv, Busy, HasJob
  <2>2. WorkerInv'
    BY <1>8 DEF CopyFails, ring, work, hooks, TypeOK, WorkerInv, DistinctJobs, HookInv, HasJob, Busy
  <2>3. DistinctJobs'
    BY <1>8 DEF CopyFails, ring, work, hooks, TypeOK, WorkerInv, DistinctJobs, HasJob
  <2>4. HookInv'
    BY <1>8 DEF CopyFails, ring, work, hooks, TypeOK, HookInv, DistinctAllocs, WorkerInv, HasJob, Busy, JobOf
  <2>5. DistinctAllocs'
    BY <1>8 DEF CopyFails, ring, work, hooks, TypeOK, DistinctAllocs, HookInv, Busy
  <2> QED BY <2>1, <2>2, <2>3, <2>4, <2>5
<1>9. ASSUME NEW a \in Apps, Release(a) PROVE RingInv'
  <2>1. TypeOK'
    BY <1>9 DEF Release, WakeWorkers, WakeApps, TypeOK, WorkerInv, HookInv, Busy, HasJob
  <2>2. WorkerInv'
    BY <1>9 DEF Release, WakeWorkers, WakeApps, TypeOK, WorkerInv, DistinctJobs, HookInv, HasJob, Busy
  <2>3. DistinctJobs'
    BY <1>9 DEF Release, WakeWorkers, WakeApps, TypeOK, WorkerInv, DistinctJobs, HasJob
  <2>4. ASSUME NEW b \in Apps, Busy(b)' PROVE
         /\ cur'[b] \in Allocs /\ cur'[b] < alloc_idx' /\ cur'[b] \notin done'
         /\ chunk'[b] < Count[cur'[b]]
         /\ apc'[b] \in {"copy", "release"} =>
              state'[SlotOf(JobOf(b)')] = "READY" /\ seq'[SlotOf(JobOf(b)')] = JobOf(b)'
    <3> USE <1>9, <2>4 DEF Release
    <3>1. Busy(a) /\ Busy(b) BY DEF Busy, WakeApps, TypeOK
    <3>2. UNCHANGED <<cur, alloc_idx>> /\ chunk' = [chunk EXCEPT ![a] = chunk[a] + 1] OBVIOUS
    <3>3. CASE b = a
      <4>1. chunk[a] + 1 # Count[cur[a]] BY <3>3 DEF Busy, TypeOK, WakeApps
      <4>2. done' = done BY <4>1
      <4>3. chunk[a] + 1 < Count[cur[a]]
        <5>1. cur[a] \in Allocs /\ chunk[a] < Count[cur[a]] BY <3>1 DEF HookInv
        <5>2. chunk[a] \in Nat /\ Count[cur[a]] \in Nat BY <5>1 DEF TypeOK
        <5> QED BY <5>1, <5>2, <4>1
      <4>4. apc'[b] = "check" BY <3>3, <4>1 DEF TypeOK, WakeApps
      <4> QED BY <3>1, <3>2, <3>3, <4>2, <4>3, <4>4 DEF HookInv, TypeOK
    <3>4. CASE b # a
      <4>1. cur[b] # cur[a] BY <3>1, <3>4 DEF DistinctAllocs
      <4>2. JobOf(b)' = JobOf(b) BY <3>2, <3>4 DEF JobOf, TypeOK
      <4>3. apc'[b] \in {"copy", "release"} => apc[b] = apc'[b] BY <3>4 DEF WakeApps, TypeOK
      <4>4. apc[b] \in {"copy", "release"} => SlotOf(JobOf(b)) # SlotOf(JobOf(a))
        BY <3>1, <3>4, <1>b DEF HookInv
      <4>5. apc[b] \in {"copy", "release"} =>
              state'[SlotOf(JobOf(b))] = "READY" /\ seq'[SlotOf(JobOf(b))] = JobOf(b)
        BY <3>1, <4>4 DEF HookInv, TypeOK
      <4>6. cur'[b] \notin done' BY <3>1, <3>2, <4>1 DEF HookInv
      <4>7. chunk'[b] < Count[cur'[b]] BY <3>1, <3>2, <3>4 DEF HookInv, TypeOK
      <4> QED BY <3>1, <3>2, <4>2, <4>3, <4>5, <4>6, <4>7 DEF HookInv
    <3> QED BY <3>3, <3>4
  <2>5. DistinctAllocs'
    BY <1>9 DEF Release, WakeWorkers, WakeApps, TypeOK, DistinctAllocs, HookInv, Busy
  <2> QED BY <2>1, <2>2, <2>3, <2>4, <2>5 DEF HookInv
<1>10. CASE Shutdown
  <2>1. TypeOK'
    BY <1>10 DEF Shutdown, ring, work, hooks, TypeOK, WorkerInv, HookInv, Busy, HasJob
  <2>2. WorkerInv'
    BY <1>10 DEF Shutdown, ring, work, hooks, TypeOK, WorkerInv, DistinctJobs, HookInv, HasJob, Busy
  <2>3. DistinctJobs'
    BY <1>10 DEF Shutdown, ring, work, hooks, TypeOK, WorkerInv, DistinctJobs, HasJob
  <2>4. HookInv'
    BY <1>10 DEF Shutdown, ring, work, hooks, TypeOK, HookInv, DistinctAllocs, WorkerInv, HasJob, Busy, JobOf
  <2>5. DistinctAllocs'
    BY <1>10 DEF Shutdown, ring, work, hooks, TypeOK, DistinctAllocs, HookInv, Busy
  <2> QED BY <2>1, <2>2, <2>3, <2>4, <2>5
<1>11. ASSUME NEW s \in Slots, ShutdownSlot(s) PROVE RingInv'
  <2>1. TypeOK'
    BY <1>11 DEF ShutdownSlot, ring, WakeWorkers, WakeApps, TypeOK, WorkerInv, HookInv, Busy, HasJob
  <2>2. WorkerInv'
    BY <1>11 DEF ShutdownSlot, ring, WakeWorkers, WakeApps, TypeOK, WorkerInv, DistinctJobs,
       HookInv, HasJob, Busy
  <2>3. DistinctJobs'
    BY <1>11 DEF ShutdownSlot, ring, WakeWorkers, WakeApps, TypeOK, WorkerInv, DistinctJobs, HasJob
  <2>4. HookInv'
    BY <1>11 DEF ShutdownSlot, ring, WakeWorkers, WakeApps, TypeOK, HookInv, DistinctAllocs,
       WorkerInv, HasJob, Busy, JobOf
  <2>5. DistinctAllocs'
    BY <1>11 DEF ShutdownSlot, ring, WakeWorkers, WakeApps, TypeOK, DistinctAllocs, HookInv, Busy
  <2> QED BY <2>1, <2>2, <2>3, <2>4, <2>5
<1>13. ASSUME NEW a \in Apps, Stage(a) \/ Hand(a) PROVE RingInv'
  <2>0. cur[a] \in Allocs BY <1>13 DEF Stage, Hand, StageTo, StageInv, Staging
  <2>s. UNCHANGED <<ring, work, cur, chunk, alloc_idx, out, done, pool, left, stop, swept>>
    BY <1>13 DEF Stage, Hand, StageTo
  <2>p. \A x \in Apps : apc'[x] = apc[x] \/ apc'[x] \in {"hand", "idle"}
    BY <1>13 DEF Stage, Hand, StageTo, TypeOK
  <2>1. TypeOK'
    <3>1. apc' \in [Apps -> {"idle", "check", "sleep", "copy", "release", "stage", "hand"}]
      BY <1>13 DEF Stage, Hand, StageTo, TypeOK
    <3>2. aborted' \in {"no", "yes"} BY <1>13 DEF Stage, Hand, StageTo, TypeOK
    <3> QED BY <2>s, <3>1, <3>2 DEF ring, work, TypeOK
  <2>2. WorkerInv' /\ DistinctJobs' BY <2>s DEF ring, work, WorkerInv, DistinctJobs, HasJob
  <2>3. \A x \in Apps : Busy(x)' => Busy(x) /\ apc'[x] = apc[x] BY <2>p DEF Busy
  <2>4. HookInv' BY <2>s, <2>3 DEF ring, HookInv, JobOf, SlotOf
  <2>5. DistinctAllocs' BY <2>s, <2>3 DEF DistinctAllocs
  <2> QED BY <2>1, <2>2, <2>4, <2>5
<1>12. CASE UNCHANGED vars
  BY <1>12 DEF vars, ring, work, hooks, TypeOK, WorkerInv, DistinctJobs, HookInv,
     DistinctAllocs, HasJob, Busy, JobOf
<1> QED
  BY <1>1, <1>2, <1>3, <1>4, <1>5, <1>6, <1>7, <1>8, <1>9, <1>10, <1>11, <1>12, <1>13
  DEF Next, Worker, Hook, Sweep

(* The ring's invariant holds in every state.                               *)
THEOREM Invariance == Spec => []RingInv
  BY InitInv, InvStep, PTL DEF Spec

(* The ring's fields and the threads' positions have their types.           *)
THEOREM RingTypeCorrect == Spec => []TypeOK
<1>1. RingInv => TypeOK BY DEF RingInv
<1> QED BY <1>1, Invariance, PTL

(* A slot is written by one worker at a time and never while a hook copies  *)
(* from it, for any ring length, also below the code's workers + 2.         *)
THEOREM SlotExclusive == Spec => []Exclusive
<1>1. RingInv => Exclusive
  <2> SUFFICES ASSUME RingInv PROVE Exclusive OBVIOUS
  <2>1. \A w \in Workers, a \in Apps :
          wpc[w] \in {"decrypt", "ready"} /\ apc[a] \in {"copy", "release"} =>
            SlotOf(wjob[w]) # SlotOf(JobOf(a))
    BY DEF RingInv, WorkerInv, HookInv, Busy
  <2>2. \A w, v \in Workers :
          w # v /\ wpc[w] \in {"decrypt", "ready"} /\ wpc[v] \in {"decrypt", "ready"} =>
            SlotOf(wjob[w]) # SlotOf(wjob[v])
    BY DEF RingInv, WorkerInv, DistinctJobs, HasJob
  <2> QED BY <2>1, <2>2 DEF Exclusive
<1> QED BY <1>1, Invariance, PTL

(* The number of a slot only grows.                                         *)
THEOREM SeqMonotone == Spec => SeqGrows
<1> DEFINE Grows == \A s \in Slots : seq'[s] >= seq[s]
<1>1. RingInv /\ [Next]_vars => [Grows]_vars
  <2> SUFFICES ASSUME RingInv, Next PROVE Grows OBVIOUS
  <2>1. CASE UNCHANGED seq BY <2>1 DEF RingInv, TypeOK
  <2>2. ASSUME NEW a \in Apps, Release(a) PROVE Grows
    <3>1. Busy(a) /\ seq[SlotOf(JobOf(a))] = JobOf(a)
      BY <2>2 DEF Release, RingInv, HookInv, Busy
    <3>2. JobOf(a) + N >= JobOf(a)
      <4>1. JobOf(a) \in Nat
        BY <3>1, RingAssumption DEF RingInv, HookInv, TypeOK, JobOf
      <4> QED BY <4>1, RingAssumption
    <3> QED BY <2>2, <3>1, <3>2 DEF Release, RingInv, TypeOK
  <2>3. UNCHANGED seq \/ \E a \in Apps : Release(a)
    BY DEF Next, Worker, Hook, Sweep, Fetch, Assign, Decrypt, Ready, Apply, Await, Copy,
       CopyFails, Stage, Hand, StageTo, Shutdown, ShutdownSlot, ring
  <2> QED BY <2>1, <2>2, <2>3
<1> QED BY <1>1, Invariance, PTL DEF Spec, SeqGrows

-----------------------------------------------------------------------------
(* The data.                                                                *)

(* Every step keeps what the slots and the finished chunks hold.            *)
LEMMA DataStep ==
  ASSUME RingInv, DataInv, [Next]_vars
  PROVE  DataInv'
<1>a. \A x \in Apps : Busy(x) => JobOf(x) \in Jobs /\ JobOf(x) \in Nat
  BY JobLayout, RingAssumption DEF RingInv, HookInv, JobOf, TypeOK, Jobs
<1>b. \A x \in Workers : wpc[x] \in {"decrypt", "ready"} =>
        state[SlotOf(wjob[x])] = "ASSIGNED" /\ seq[SlotOf(wjob[x])] = wjob[x] /\ wjob[x] \in Jobs
  BY DEF RingInv, WorkerInv, HasJob
<1>c. \A x \in Apps : apc[x] \in {"copy", "release"} =>
        state[SlotOf(JobOf(x))] = "READY" /\ seq[SlotOf(JobOf(x))] = JobOf(x)
  BY DEF RingInv, HookInv, Busy
<1>t. TypeOK BY DEF RingInv
<1>k. \A j \in Jobs : j \in Nat BY RingAssumption DEF Jobs
<1> USE SlotType, RingAssumption, <1>a, <1>b, <1>c, <1>t, <1>k
<1>1. ASSUME NEW w \in Workers, Fetch(w) PROVE DataInv'
  BY <1>1 DEF Fetch, ring, hooks, DataInv, Restored, JobsOf, Placed, work, Busy, JobOf, TypeOK
<1>2. ASSUME NEW w \in Workers, Assign(w) PROVE DataInv'
  <2>1. UNCHANGED <<seq, buf, wjob, hooks, failed>> BY <1>2 DEF Assign
  <2>2. \A s \in Slots : state'[s] = "READY" => state[s] = "READY"
    BY <1>2 DEF Assign, TypeOK
  <2>3. \A v \in Workers : wpc'[v] = "ready" => wpc[v] = "ready"
    BY <1>2 DEF Assign, TypeOK
  <2> QED BY <2>1, <2>2, <2>3 DEF hooks, DataInv, Restored, JobsOf, Placed, work, Busy, JobOf
<1>3. ASSUME NEW w \in Workers, Decrypt(w) PROVE DataInv'
  <2>1. /\ failed \subseteq failed'
        /\ \/ wjob[w] \in failed' /\ UNCHANGED buf
           \/ buf' = [buf EXCEPT ![SlotOf(wjob[w])] = wjob[w]]
    BY <1>3 DEF Decrypt
  <2>2. UNCHANGED <<state, seq, wjob, hooks>> /\ wpc[w] = "decrypt"
        /\ wpc' = [wpc EXCEPT ![w] = "ready"]
    BY <1>3 DEF Decrypt
  <2>3. \A s \in Slots : state'[s] = "READY" => seq'[s] \in failed' \/ buf'[s] = seq'[s]
    BY <2>1, <2>2 DEF DataInv, TypeOK
  <2>4. \A v \in Workers : wpc'[v] = "ready" =>
          wjob'[v] \in failed' \/ buf'[SlotOf(wjob'[v])] = wjob'[v]
    BY <2>1, <2>2 DEF DataInv, TypeOK
  <2> QED BY <2>1, <2>2, <2>3, <2>4 DEF hooks, DataInv, Restored, JobsOf, Placed, work, Busy, JobOf
<1>4. ASSUME NEW w \in Workers, Ready(w) PROVE DataInv'
  <2>1. UNCHANGED <<seq, buf, wjob, cur, chunk, out, done, failed>> /\ wpc[w] = "ready"
        /\ state' = [state EXCEPT ![SlotOf(wjob[w])] = "READY"]
    BY <1>4 DEF Ready
  <2>2. \A s \in Slots : state'[s] = "READY" => seq'[s] \in failed' \/ buf'[s] = seq'[s]
    BY <2>1 DEF DataInv, TypeOK
  <2>3. \A v \in Workers : wpc'[v] = "ready" => wpc[v] = "ready"
    BY <1>4 DEF Ready, WakeWorkers, TypeOK
  <2>4. \A x \in Apps : (Busy(x)' => Busy(x)) /\ (apc'[x] = "release" => apc[x] = "release")
    BY <1>4 DEF Ready, WakeApps, Busy, TypeOK
  <2> QED BY <2>1, <2>2, <2>3, <2>4 DEF DataInv, Restored, JobsOf, Placed, work, JobOf
<1>5. ASSUME NEW a \in Apps, Apply(a) PROVE DataInv'
  <2>1. UNCHANGED <<ring, work, out, done>> /\ apc[a] = "idle" BY <1>5 DEF Apply
  <2>2. \A x \in Apps : x # a => cur'[x] = cur[x] /\ chunk'[x] = chunk[x] /\ apc'[x] = apc[x]
    BY <1>5 DEF Apply, TypeOK
  <2>r. PICK next \in Routes(alloc_idx) : apc' = [apc EXCEPT ![a] = next] BY <1>5 DEF Apply
  <2>n. next \in {"idle", "stage", "check"} /\ (next # "idle" => alloc_idx \in Allocs)
    BY <2>r, RoutesFacts
  <2>3. chunk'[a] = 0 /\ apc'[a] = next /\ apc'[a] # "release"
    BY <1>5, <2>r, <2>n DEF Apply, TypeOK
  <2>4. ASSUME NEW x \in Apps, Busy(x)',
               NEW j \in First[cur'[x]]..(First[cur'[x]] + chunk'[x] - 1)
        PROVE Placed(j)'
    <3>1. CASE x # a BY <2>1, <2>2, <2>4, <3>1 DEF DataInv, Busy, Placed, work
    <3>2. CASE x = a
      <4>1. alloc_idx \in Allocs /\ cur'[a] = alloc_idx
        BY <1>5, <2>4, <2>n, <2>3, <3>2 DEF Apply, Busy, TypeOK
      <4>2. First[cur'[a]] \in Nat BY <4>1
      <4>3. FALSE BY <2>3, <2>4, <3>2, <4>2
      <4> QED BY <4>3
    <3> QED BY <3>1, <3>2
  <2>5. \A x \in Apps : apc'[x] = "release" => Placed(JobOf(x))'
    BY <2>1, <2>2, <2>3 DEF DataInv, JobOf, Placed, work
  <2> QED BY <2>1, <2>4, <2>5 DEF ring, work, DataInv, Restored, JobsOf, Placed, work
<1>6. ASSUME NEW a \in Apps, Await(a) PROVE DataInv'
  BY <1>6 DEF Await, ring, work, DataInv, Restored, JobsOf, Placed, work, Busy, JobOf, TypeOK
<1>7. ASSUME NEW a \in Apps, Copy(a) PROVE DataInv'
  <2>1. UNCHANGED <<ring, work, cur, chunk, done>> /\ apc[a] = "copy"
        /\ apc' = [apc EXCEPT ![a] = "release"]
        /\ out' = [out EXCEPT ![JobOf(a)] = buf[SlotOf(JobOf(a))]]
    BY <1>7 DEF Copy
  <2>2. JobOf(a) \in Jobs 
        /\ (JobOf(a) \in failed \/ buf[SlotOf(JobOf(a))] = JobOf(a))
    BY <2>1 DEF DataInv, Busy
  <2>3. \A j \in Jobs : Placed(j) => Placed(j)' BY <2>1, <2>2 DEF TypeOK, Placed, work
  <2>4. JobOf(a) \in failed' \/ out'[JobOf(a)] = JobOf(a) BY <2>1, <2>2 DEF TypeOK, work
  <2>5. \A x \in Apps : apc'[x] = "release" => Placed(JobOf(x))'
    BY <2>1, <2>3, <2>4 DEF DataInv, JobOf, Busy, TypeOK, Placed, work
  <2>6. ASSUME NEW x \in Apps, Busy(x)',
               NEW j \in First[cur'[x]]..(First[cur'[x]] + chunk'[x] - 1)
        PROVE Placed(j)'
    <3>1. Busy(x) /\ cur'[x] = cur[x] /\ chunk'[x] = chunk[x] BY <2>1, <2>6 DEF Busy, TypeOK
    <3>2. cur[x] \in Allocs /\ chunk[x] < Count[cur[x]] /\ chunk[x] \in Nat
      BY <3>1 DEF RingInv, HookInv, TypeOK
    <3>3. First[cur[x]] \in Nat /\ Count[cur[x]] \in Nat /\ First[cur[x]] + Count[cur[x]] <= NJobs
      BY <3>2
    <3>4. j \in Jobs BY <3>1, <3>2, <3>3 DEF Jobs
    <3>5. Placed(j) BY <3>1 DEF DataInv
    <3> QED BY <3>4, <3>5, <2>3
  <2>7. Restored'
    <3> SUFFICES ASSUME NEW i \in done, NEW j \in First[i]..(First[i] + Count[i] - 1)
                 PROVE  Placed(j)'
      BY <2>1 DEF Restored, JobsOf, Placed
    <3>1. i \in Allocs BY DEF TypeOK
    <3>2. First[i] \in Nat /\ Count[i] \in Nat /\ First[i] + Count[i] <= NJobs BY <3>1
    <3>3. j \in Jobs BY <3>2 DEF Jobs
    <3>4. Placed(j) BY DEF DataInv, Restored, JobsOf, Placed, work
    <3> QED BY <3>3, <3>4, <2>3
  <2> QED BY <2>1, <2>5, <2>6, <2>7 DEF ring, work, DataInv
<1>8. ASSUME NEW a \in Apps, CopyFails(a) PROVE DataInv'
  BY <1>8 DEF CopyFails, ring, work, hooks, DataInv, Restored, JobsOf, Placed, work, Busy, JobOf
<1>9. ASSUME NEW a \in Apps, Release(a) PROVE DataInv'
  <2>1. UNCHANGED <<buf, wjob, cur, out, failed>> /\ apc[a] = "release" /\ Busy(a)
        /\ state' = [state EXCEPT ![SlotOf(JobOf(a))] = "FREE"]
        /\ seq' = [seq EXCEPT ![SlotOf(JobOf(a))] = JobOf(a) + N]
        /\ chunk' = [chunk EXCEPT ![a] = chunk[a] + 1]
    BY <1>9 DEF Release, Busy
  <2>2. \A s \in Slots : state'[s] = "READY" => seq'[s] \in failed' \/ buf'[s] = seq'[s]
    BY <2>1 DEF DataInv, TypeOK
  <2>3. \A v \in Workers : wpc'[v] = "ready" => wpc[v] = "ready"
    BY <1>9 DEF Release, WakeWorkers, TypeOK
  <2>4. \A x \in Apps : (Busy(x)' => Busy(x))
          /\ (apc'[x] = "release" => x # a /\ apc[x] = "release")
    BY <1>9 DEF Release, WakeApps, Busy, TypeOK
  <2>5. cur[a] \in Allocs /\ chunk[a] \in Nat /\ First[cur[a]] \in Nat /\ Count[cur[a]] \in Nat
    BY <2>1 DEF RingInv, HookInv, TypeOK
  <2>6. \A j \in First[cur[a]]..(First[cur[a]] + (chunk[a] + 1) - 1) : Placed(j)
    <3> TAKE j \in First[cur[a]]..(First[cur[a]] + (chunk[a] + 1) - 1)
    <3>1. CASE j = First[cur[a]] + chunk[a] BY <2>1, <3>1 DEF DataInv, JobOf
    <3>2. CASE j # First[cur[a]] + chunk[a]
      <4>1. j \in First[cur[a]]..(First[cur[a]] + chunk[a] - 1) BY <2>5, <3>2
      <4> QED BY <2>1, <4>1 DEF DataInv
    <3> QED BY <3>1, <3>2
  <2>7. \A x \in Apps : apc'[x] = "release" => Placed(JobOf(x))'
    BY <2>1, <2>4 DEF DataInv, JobOf, TypeOK, Placed
  <2>8. \A x \in Apps : Busy(x)' =>
          \A j \in First[cur'[x]]..(First[cur'[x]] + chunk'[x] - 1) : Placed(j)'
    <3> TAKE x \in Apps
    <3>1. CASE x = a
      <4>1. chunk'[a] = chunk[a] + 1 BY <2>1 DEF TypeOK
      <4> QED BY <2>1, <2>6, <3>1, <4>1 DEF Placed
    <3>2. CASE x # a
      <4>1. chunk'[x] = chunk[x] BY <2>1, <3>2 DEF TypeOK
      <4> QED BY <2>1, <2>4, <4>1 DEF DataInv, Placed
    <3> QED BY <3>1, <3>2
  <2>9. Restored'
    <3>1. CASE chunk[a] + 1 = Count[cur[a]]
      <4>1. done' = done \cup {cur[a]} BY <1>9, <3>1 DEF Release
      <4> QED BY <2>1, <2>6, <3>1, <4>1 DEF DataInv, Restored, JobsOf, Placed, work
    <3>2. CASE chunk[a] + 1 # Count[cur[a]]
      <4>1. done' = done BY <1>9, <3>2 DEF Release
      <4> QED BY <2>1, <4>1 DEF DataInv, Restored, JobsOf, Placed, work
    <3> QED BY <3>1, <3>2
  <2> QED BY <2>1, <2>2, <2>3, <2>7, <2>8, <2>9 DEF DataInv
<1>10. CASE Shutdown
  BY <1>10 DEF Shutdown, ring, work, hooks, DataInv, Restored, JobsOf, Placed, work, Busy, JobOf
<1>11. ASSUME NEW s \in Slots, ShutdownSlot(s) PROVE DataInv'
  <2>1. UNCHANGED <<ring, wjob, cur, chunk, out, done, failed>> BY <1>11 DEF ShutdownSlot
  <2>2. \A v \in Workers : wpc'[v] = "ready" => wpc[v] = "ready"
    BY <1>11 DEF ShutdownSlot, WakeWorkers, TypeOK
  <2>3. \A x \in Apps : (Busy(x)' => Busy(x)) /\ (apc'[x] = "release" => apc[x] = "release")
    BY <1>11 DEF ShutdownSlot, WakeApps, Busy, TypeOK
  <2> QED BY <2>1, <2>2, <2>3 DEF ring, DataInv, Restored, JobsOf, Placed, work, JobOf
<1>13. ASSUME NEW a \in Apps, Stage(a) \/ Hand(a) PROVE DataInv'
  <2>1. UNCHANGED <<ring, work, cur, chunk, alloc_idx, out, done>> BY <1>13 DEF Stage, Hand, StageTo
  <2>2. \A x \in Apps : apc'[x] = apc[x] \/ apc'[x] \in {"hand", "idle"}
    BY <1>13 DEF Stage, Hand, StageTo, TypeOK
  <2> QED BY <2>1, <2>2 DEF ring, work, DataInv, Restored, JobsOf, Placed, Busy, JobOf
<1>12. CASE UNCHANGED vars
  BY <1>12 DEF vars, ring, work, hooks, DataInv, Restored, JobsOf, Placed, work, Busy, JobOf
<1> QED
  BY <1>1, <1>2, <1>3, <1>4, <1>5, <1>6, <1>7, <1>8, <1>9, <1>10, <1>11, <1>12, <1>13
  DEF Next, Worker, Hook, Sweep

(* Every allocation reported as restored holds its own plaintext, chunk by  *)
(* chunk, except for the chunks that could not be decrypted, for any sizes  *)
(* and any interleaving.                                                    *)
THEOREM RestoreCorrect == Spec => []Restored
<1>1. Init => DataInv BY DEF Init, DataInv, Restored, JobsOf, Placed, work, Busy, Slots
<1>2. RingInv /\ DataInv /\ [Next]_vars => DataInv'
  BY DataStep
<1>3. DataInv => Restored BY DEF DataInv
<1> QED BY <1>1, <1>2, <1>3, Invariance, PTL DEF Spec
=============================================================================
