-------------------------------- MODULE Gate --------------------------------
(***************************************************************************)
(* The checkpoint handshake over the mmap'd gate file (ckpt_gate.h):       *)
(* ckpt_core, run once per round by ckpt_agent, against the threads of the *)
(* applications that loaded libckpt_vllm.so and enter it from every        *)
(* cudaStreamSynchronize and cudaDeviceSynchronize.                        *)
(*                                                                         *)
(* ckpt_core is a straight-line program that differs per mode, so its      *)
(* control state is a mode and a position in that mode's path:             *)
(*   v3     concurrent base, boundary, delta (the main path)               *)
(*   pause  --pause-first: boundary, then base and delta                   *)
(*   stun   --stun-copy: boundary, then a copy of the given ranges         *)
(*   p1d    in-app stop-and-copy baseline, no boundary                     *)
(*   p1e    in-app concurrent baseline, boundary, in-app delta             *)
(***************************************************************************)
EXTENDS Naturals, Sequences

CONSTANTS
  Threads,    \* application threads that enter the sync hooks
  Owner,      \* the threads of the process that owns the gate (app_pid)
  Modes,      \* modes in which ckpt_core is started
  Env,        \* "fail": ioctls and copies may fail; "kill": ckpt_core may be
              \* killed; "exit": the owner process may exit
  MaxRounds,  \* bound on the number of ckpt_core runs
  MaxAllocs,  \* bound on the changes of the allocation table
  NoThread

Path ==
  [v3    |-> <<"open", "prepare", "base", "request", "boundary", "delta",
               "snapshot", "finalize", "unrequest", "resume">>,
   pause |-> <<"open", "prepare", "request", "boundary", "base", "delta",
               "snapshot", "finalize", "unrequest", "resume">>,
   stun  |-> <<"open", "request", "boundary", "copy", "snapshot",
               "unrequest", "resume">>,
   p1d   |-> <<"open", "signal", "await", "empty", "snapshot", "clear">>,
   p1e   |-> <<"open", "prepare", "signal", "await", "request", "boundary",
               "dirty", "awaitdelta", "resume", "unrequest", "snapshot",
               "clear", "finalize">>]

ASSUME GateAssumption ==
  /\ Owner \subseteq Threads
  /\ NoThread \notin Threads
  /\ Modes \subseteq DOMAIN Path
  /\ MaxRounds \in Nat /\ MaxAllocs \in Nat

VARIABLES
  phase, ckpt_req,                    \* gate: the boundary handshake
  breq, bdone, berr, bconc,           \* gate: baseline_req .. baseline_concurrent
  dreq, ddone, derr,                  \* gate: delta_req, delta_done, delta_err
  table,                              \* gate: version of the allocation table
  mode, step, round,                  \* ckpt_core; step = 0 when none runs
  snap,                               \* allocation table in snap_ckpt_gate
  saved,                              \* ckpt_agent has copied it, or has none to
  pc,                                 \* where each thread is in its hook
  via,                                \* the hook it is in: sync or memcpy
  claim,                              \* round whose baseline a thread copies
  bg,                                 \* rounds whose detached copy is running
  mutex,                              \* g_ckpt_mutex
  init,                               \* g_init_signaled
  copied, killed                      \* history: rounds whose base copy ended,
                                      \* whether a run was ever killed

gate == <<phase, ckpt_req, breq, bdone, berr, bconc, dreq, ddone, derr>>
core == <<mode, step, round, snap, saved, killed>>
app == <<pc, via, claim, bg, mutex, init, copied>>
vars == <<gate, table, core, app>>

Init ==
  /\ phase = "INVALID" /\ ckpt_req = 0
  /\ breq = 0 /\ bdone = 0 /\ berr = 0 /\ bconc = 0
  /\ dreq = 0 /\ ddone = 0 /\ derr = 0
  /\ table = 0
  /\ mode \in Modes /\ step = 0 /\ round = 0
  /\ snap = 0 /\ saved = TRUE
  /\ pc = [t \in Threads |-> "run"]
  /\ via = [t \in Threads |-> "sync"]
  /\ claim = [t \in Threads |-> 0]
  /\ bg = {} /\ mutex = NoThread /\ init = FALSE
  /\ copied = {} /\ killed = FALSE

-----------------------------------------------------------------------------
(* ckpt_core.                                                              *)

At(loc) == step > 0 /\ Path[mode][step] = loc

(* ckpt_core goes on to its next location, or ends.                        *)
Proceed ==
  /\ step' = IF step = Len(Path[mode]) THEN 0 ELSE step + 1
  /\ UNCHANGED <<mode, round, saved, killed>>

(* ckpt_core returns 1: it undoes nothing.                                 *)
Quit == step' = 0 /\ UNCHANGED <<mode, round, saved, killed>>

(* An operation that may fail ends the run when it does.                   *)
Try == Proceed \/ ("fail" \in Env /\ Quit)

(* ckpt_agent starts a run once the application has signalled INIT, as     *)
(* long as the process that owns the gate is alive.                        *)
CoreStart(m) ==
  /\ step = 0 /\ saved /\ round < MaxRounds /\ phase # "INVALID"
  /\ \A t \in Owner : pc[t] # "gone"
  /\ mode' = m /\ step' = 1 /\ round' = round + 1 /\ saved' = FALSE
  /\ UNCHANGED <<gate, table, snap, killed, app>>

(* The run is over, well or not: ckpt_agent copies the gate once more, to  *)
(* the file that a restore reads, with the application running.            *)
AgentCopy ==
  /\ step = 0 /\ ~saved
  /\ snap' = table /\ saved' = TRUE
  /\ UNCHANGED <<gate, table, mode, step, round, killed, app>>

(* A gate left in RESUME by an earlier run has its requests reset, one in  *)
(* INIT is taken as it is.  What follows (opening nvidia-uvm, listing the  *)
(* ranges) touches nothing shared and may fail.                            *)
GateOpen ==
  /\ At("open") /\ phase \in {"INIT", "RESUME"}
  /\ Try
  /\ IF phase = "RESUME"
     THEN /\ ckpt_req' = 0 /\ breq' = 0 /\ bdone' = 0 /\ berr' = 0
          /\ dreq' = 0 /\ ddone' = 0 /\ derr' = 0
     ELSE UNCHANGED <<ckpt_req, breq, bdone, berr, dreq, ddone, derr>>
  /\ UNCHANGED <<phase, bconc, table, snap, app>>

(* Sixty seconds without INIT or RESUME.                                   *)
GateTimeout ==
  /\ At("open") /\ phase \notin {"INIT", "RESUME"}
  /\ Quit
  /\ UNCHANGED <<gate, table, snap, app>>

(* PREPARE_ALL: what it does to the pages is in DirtyTracking.             *)
Prepare ==
  /\ At("prepare") /\ Try
  /\ UNCHANGED <<gate, table, snap, app>>

(* Base and delta reads by ckpt_core itself (ioctls 109-116).              *)
ReadPages ==
  /\ At("base") \/ At("delta")
  /\ Try
  /\ UNCHANGED <<gate, table, snap, app>>

(* --stun-copy goes on to resume the application when a read or a write    *)
(* fails, but not when it has no memory for its captures.                  *)
StunCopy ==
  /\ At("copy") /\ Try
  /\ UNCHANGED <<gate, table, snap, app>>

(* The empty delta image that goes with an in-app stop-and-copy base.      *)
WriteEmptyDelta ==
  /\ At("empty") /\ Try
  /\ UNCHANGED <<gate, table, snap, app>>

(* Mutant: the answer of an earlier round is not cleared.                  *)
SignalStaleDone ==
  /\ At("signal") /\ Proceed
  /\ breq' = 1
  /\ bconc' = IF mode = "p1e" THEN 1 ELSE bconc
  /\ UNCHANGED <<phase, ckpt_req, bdone, berr, dreq, ddone, derr, table, snap, app>>

Signal ==
  /\ At("signal") /\ Proceed
  /\ bdone' = 0 /\ berr' = 0 /\ breq' = 1
  /\ bconc' = IF mode = "p1e" THEN 1 ELSE bconc
  /\ UNCHANGED <<phase, ckpt_req, dreq, ddone, derr, table, snap, app>>

AwaitBaseline ==
  /\ At("await") /\ bdone = 1
  /\ IF berr = 1 THEN Quit ELSE Proceed
  /\ UNCHANGED <<gate, table, snap, app>>

Request ==
  /\ At("request") /\ Proceed
  /\ ckpt_req' = 1
  /\ UNCHANGED <<phase, breq, bdone, berr, bconc, dreq, ddone, derr, table,
                 snap, app>>

AwaitBoundary ==
  /\ At("boundary") /\ phase = "AT_BOUNDARY" /\ Proceed
  /\ UNCHANGED <<gate, table, snap, app>>

(* GET_DIRTY_PAGES, the dirty table, and the request for an in-app delta.  *)
SignalDelta ==
  /\ At("dirty") /\ Try
  /\ IF step' = 0 THEN UNCHANGED <<dreq, ddone, derr>>
     ELSE ddone' = 0 /\ derr' = 0 /\ dreq' = 1
  /\ UNCHANGED <<phase, ckpt_req, breq, bdone, berr, bconc, table, snap, app>>

AwaitDelta ==
  /\ At("awaitdelta") /\ ddone = 1 /\ Proceed
  /\ UNCHANGED <<gate, table, snap, app>>

(* The copy of the gate file made by ckpt_core.                            *)
SnapshotGate ==
  /\ At("snapshot") /\ Proceed
  /\ snap' = table
  /\ UNCHANGED <<gate, table, app>>

ClearRequests ==
  /\ At("clear") /\ Proceed
  /\ breq' = 0
  /\ dreq' = IF mode = "p1e" THEN 0 ELSE dreq
  /\ UNCHANGED <<phase, ckpt_req, bdone, berr, bconc, ddone, derr, table,
                 snap, app>>

(* FINALIZE; its failure is printed and ignored.                           *)
Finalize ==
  /\ At("finalize") /\ Proceed
  /\ UNCHANGED <<gate, table, snap, app>>

(* A failed in-app delta is looked at once the application is released.    *)
Unrequest ==
  /\ At("unrequest")
  /\ ckpt_req' = 0
  /\ IF mode = "p1e" /\ derr = 1 THEN Quit ELSE Proceed
  /\ UNCHANGED <<phase, breq, bdone, berr, bconc, dreq, ddone, derr, table,
                 snap, app>>

(* Mutant: the gate goes back to INIT, which no waiting thread looks for.  *)
ResumeAsInit ==
  /\ At("resume") /\ Proceed
  /\ phase' = "INIT"
  /\ UNCHANGED <<ckpt_req, breq, bdone, berr, bconc, dreq, ddone, derr, table,
                 snap, app>>

Resume ==
  /\ At("resume") /\ Proceed
  /\ phase' = "RESUME"
  /\ UNCHANGED <<ckpt_req, breq, bdone, berr, bconc, dreq, ddone, derr, table,
                 snap, app>>

Killed ==
  /\ "kill" \in Env /\ step > 0
  /\ step' = 0 /\ killed' = TRUE
  /\ UNCHANGED <<gate, table, mode, round, snap, saved, app>>

Core ==
  \/ \E m \in Modes : CoreStart(m)
  \/ AgentCopy
  \/ GateOpen \/ GateTimeout \/ Prepare \/ ReadPages \/ StunCopy
  \/ WriteEmptyDelta
  \/ Signal \/ AwaitBaseline \/ Request \/ AwaitBoundary
  \/ SignalDelta \/ AwaitDelta \/ SnapshotGate \/ ClearRequests
  \/ Finalize \/ Unrequest \/ Resume

-----------------------------------------------------------------------------
(* The application's hooks.                                                *)

Goto(t, loc) == pc' = [pc EXCEPT ![t] = loc]

(* The outcome of an in-app copy.                                          *)
Outcome == IF "fail" \in Env THEN {0, 1} ELSE {0}

(* cudaMalloc and cudaFree hooks change the allocation table.              *)
Alloc(t) ==
  /\ pc[t] = "run" /\ table < MaxAllocs
  /\ table' = table + 1
  /\ UNCHANGED <<gate, core, app>>

(* The real call has returned: only this thread's work is done.            *)
Enter(t, hook) ==
  /\ pc[t] = "run"
  /\ Goto(t, "ckpt") /\ via' = [via EXCEPT ![t] = hook]
  /\ IF t \in Owner /\ ~init
     THEN init' = TRUE /\ phase' = "INIT"
     ELSE UNCHANGED <<init, phase>>
  /\ UNCHANGED <<ckpt_req, breq, bdone, berr, bconc, dreq, ddone, derr, table,
                 core, claim, bg, mutex, copied>>

Sync(t) == Enter(t, "sync")

(* cudaMemcpyAsync waits for the device when a checkpoint is asked for; it *)
(* looks for no baseline or delta request on its way out.                  *)
MemcpyAsync(t) == t \in Owner /\ ckpt_req = 1 /\ Enter(t, "memcpy")

(* Where a thread goes when it leaves maybe_checkpoint_post_sync.          *)
After(t) == IF via[t] = "sync" THEN "baseline" ELSE "run"

CkptCheck(t) ==
  /\ pc[t] = "ckpt"
  /\ Goto(t, IF t \in Owner /\ ckpt_req = 1 THEN "lock" ELSE After(t))
  /\ UNCHANGED <<gate, table, core, via, claim, bg, mutex, init, copied>>

(* The request is looked at again under the mutex.                         *)
Lock(t) ==
  /\ pc[t] = "lock" /\ mutex = NoThread
  /\ IF ckpt_req = 1 THEN mutex' = t /\ Goto(t, "held")
                     ELSE UNCHANGED mutex /\ Goto(t, After(t))
  /\ UNCHANGED <<gate, table, core, via, claim, bg, init, copied>>

(* The engine state is dumped, then the boundary is signalled.             *)
Park(t) ==
  /\ pc[t] = "held"
  /\ Goto(t, "park")
  /\ phase' = "AT_BOUNDARY"
  /\ UNCHANGED <<ckpt_req, breq, bdone, berr, bconc, dreq, ddone, derr, table,
                 core, via, claim, bg, mutex, init, copied>>

(* Mutant: the wait ends when the request is withdrawn.                    *)
UnparkOnRequest(t) ==
  /\ pc[t] = "park" /\ ckpt_req = 0
  /\ mutex' = NoThread
  /\ Goto(t, After(t))
  /\ UNCHANGED <<gate, table, core, via, claim, bg, init, copied>>

Unpark(t) ==
  /\ pc[t] = "park" /\ phase = "RESUME"
  /\ mutex' = NoThread
  /\ Goto(t, After(t))
  /\ UNCHANGED <<gate, table, core, via, claim, bg, init, copied>>

(* A delta is claimed by one thread, parked or passing its hook.           *)
ClaimDelta(t) ==
  /\ \/ pc[t] = "park" /\ phase # "RESUME" /\ Goto(t, "parkcopy")
     \/ pc[t] = "delta" /\ Goto(t, "deltacopy")
  /\ dreq = 1 /\ dreq' = 2
  /\ UNCHANGED <<phase, ckpt_req, breq, bdone, berr, bconc, ddone, derr, table,
                 core, via, claim, bg, mutex, init, copied>>

DeltaCopied(t) ==
  /\ \/ pc[t] = "parkcopy" /\ Goto(t, "park")
     \/ pc[t] = "deltacopy" /\ Goto(t, "run")
  /\ \E e \in Outcome : derr' = (IF e = 1 THEN 1 ELSE derr)
  /\ ddone' = 1
  /\ UNCHANGED <<phase, ckpt_req, breq, bdone, berr, bconc, dreq, table, core,
                 via, claim, bg, mutex, init, copied>>

NoDelta(t) ==
  /\ pc[t] = "delta" /\ dreq # 1
  /\ Goto(t, "run")
  /\ UNCHANGED <<gate, table, core, via, claim, bg, mutex, init, copied>>

(* One thread claims the baseline: in concurrent mode it starts a detached *)
(* thread, or reports that it could not, and goes on; otherwise it copies  *)
(* in place.                                                               *)
ClaimBaseline(t) ==
  /\ pc[t] = "baseline" /\ breq = 1
  /\ breq' = 2
  /\ \/ /\ bconc = 1
        /\ bg' = bg \cup {round} /\ Goto(t, "delta")
        /\ UNCHANGED <<bdone, berr, claim>>
     \/ /\ bconc = 1 /\ "fail" \in Env
        /\ berr' = 1 /\ bdone' = 1 /\ Goto(t, "delta")
        /\ UNCHANGED <<bg, claim>>
     \/ /\ bconc = 0
        /\ claim' = [claim EXCEPT ![t] = round] /\ Goto(t, "copy")
        /\ UNCHANGED <<bdone, berr, bg>>
  /\ UNCHANGED <<phase, ckpt_req, bconc, dreq, ddone, derr, table, core, via, mutex,
                 init, copied>>

NoBaseline(t) ==
  /\ pc[t] = "baseline" /\ breq # 1
  /\ Goto(t, "delta")
  /\ UNCHANGED <<gate, table, core, via, claim, bg, mutex, init, copied>>

(* Mutant: a finished copy leaves baseline_done as it was.                 *)
ReportSilent(r) ==
  /\ \E e \in Outcome : berr' = (IF e = 1 THEN 1 ELSE berr)
  /\ copied' = copied \cup {r}
  /\ UNCHANGED <<phase, ckpt_req, breq, bdone, bconc, dreq, ddone, derr, table,
                 core, mutex, init>>

(* A copy of round r ends: the outcome goes to the gate, whoever asks.     *)
Report(r) ==
  /\ \E e \in Outcome : berr' = (IF e = 1 THEN 1 ELSE berr)
  /\ bdone' = 1
  /\ copied' = copied \cup {r}
  /\ UNCHANGED <<phase, ckpt_req, breq, bconc, dreq, ddone, derr, table, core,
                 mutex, init>>

BaselineCopied(t) ==
  /\ pc[t] = "copy"
  /\ Report(claim[t])
  /\ Goto(t, "delta")
  /\ UNCHANGED <<via, claim, bg>>

BackgroundCopied(r) ==
  /\ r \in bg
  /\ Report(r)
  /\ bg' = bg \ {r}
  /\ UNCHANGED <<pc, via, claim>>

(* A thread of the owner process runs the library's destructor: DONE, then *)
(* 200 ms in which the other threads go on.                                *)
Fini(t) ==
  /\ "exit" \in Env
  /\ t \in Owner /\ pc[t] = "run"
  /\ \A u \in Owner : pc[u] # "fini"
  /\ phase' = "DONE"
  /\ Goto(t, "fini")
  /\ UNCHANGED <<ckpt_req, breq, bdone, berr, bconc, dreq, ddone, derr, table,
                 core, via, claim, bg, mutex, init, copied>>

(* The owner process ends, with every thread of it.                        *)
Exit ==
  /\ \E t \in Owner : pc[t] = "fini"
  /\ pc' = [t \in Threads |-> IF t \in Owner THEN "gone" ELSE pc[t]]
  /\ bg' = {}
  /\ UNCHANGED <<gate, table, core, via, claim, mutex, init, copied>>

Hook(t) ==
  \/ Sync(t) \/ MemcpyAsync(t) \/ CkptCheck(t) \/ Lock(t) \/ Park(t) \/ Unpark(t)
  \/ ClaimDelta(t) \/ DeltaCopied(t) \/ NoDelta(t)
  \/ ClaimBaseline(t) \/ NoBaseline(t) \/ BaselineCopied(t)

Background == \E r \in 0..MaxRounds : BackgroundCopied(r)

Next ==
  \/ Core \/ Killed
  \/ \E t \in Threads : Hook(t) \/ Alloc(t) \/ Fini(t)
  \/ Background \/ Exit

Spec == Init /\ [][Next]_vars

(* ckpt_core, once started, is a process that runs; a round may never be   *)
(* started.  An application thread keeps reaching synchronization points   *)
(* and the kernel lets it run through its hook.                            *)
FairSpec ==
  /\ Spec
  /\ WF_vars(step > 0 /\ Core)
  /\ \A t \in Threads : WF_vars(Hook(t))
  /\ WF_vars(Background)

-----------------------------------------------------------------------------
TypeOK ==
  /\ phase \in {"INVALID", "INIT", "AT_BOUNDARY", "RESUME", "DONE"}
  /\ ckpt_req \in {0, 1} /\ bconc \in {0, 1}
  /\ breq \in {0, 1, 2} /\ bdone \in {0, 1} /\ berr \in {0, 1}
  /\ dreq \in {0, 1, 2} /\ ddone \in {0, 1} /\ derr \in {0, 1}
  /\ table \in 0..MaxAllocs /\ snap \in 0..MaxAllocs
  /\ mode \in Modes /\ step \in 0..Len(Path[mode]) /\ round \in 0..MaxRounds
  /\ init \in BOOLEAN /\ killed \in BOOLEAN /\ saved \in BOOLEAN
  /\ pc \in [Threads -> {"run", "ckpt", "lock", "held", "park", "parkcopy",
                         "baseline", "copy", "delta", "deltacopy", "fini",
                         "gone"}]
  /\ via \in [Threads -> {"sync", "memcpy"}]
  /\ claim \in [Threads -> 0..MaxRounds]
  /\ bg \subseteq 0..MaxRounds /\ copied \subseteq 0..MaxRounds
  /\ mutex \in Threads \cup {NoThread}

(* The positions of a run after the boundary, up to the application's      *)
(* release.                                                                *)
WindowOf == [v3 |-> 6..10, pause |-> 5..10, stun |-> 4..7, p1d |-> {}, p1e |-> 7..9]

Window == step \in WindowOf[mode]

(* ckpt_core has passed this location.                                     *)
Past(loc) == \E i \in 1..(step - 1) : Path[mode][i] = loc

Stopped(t) == pc[t] \in {"park", "parkcopy"}

(* The owner process is on its way out.                                    *)
Leaving == \E t \in Owner : pc[t] \in {"fini", "gone"}

(* From the boundary to its release, the thread that signalled it stays in *)
(* its wait and holds the checkpoint mutex, whatever the other threads do, *)
(* whatever fails and however often ckpt_core is killed and started again. *)
BoundaryHeld ==
  Window /\ ~Leaving =>
    phase = "AT_BOUNDARY" /\ mutex \in Owner /\ Stopped(mutex)

(* A base that ckpt_core takes as complete was copied for this round, not  *)
(* by a copy that an earlier run left behind, as long as no run is killed. *)
BaselineAnswersRound ==
  ~killed /\ Past("await") => round \in copied

(* Why: the boundary is signalled by the thread that holds the mutex, and  *)
(* only ckpt_core moves the phase on, at the end of the window.            *)
BoundaryInv ==
  /\ TypeOK
  /\ step > 1 => init
  /\ ~init => phase \in {"INVALID", "DONE"}
  /\ \A t \in Owner : pc[t] \notin {"run", "fini", "gone"} => init
  /\ \A t \in Threads :
       /\ pc[t] \in {"lock", "held", "park", "parkcopy"} => t \in Owner
       /\ pc[t] \in {"held", "park", "parkcopy"} => mutex = t
  /\ Window /\ ~Leaving => phase = "AT_BOUNDARY"
  /\ phase = "AT_BOUNDARY" /\ ~Leaving => mutex \in Owner /\ Stopped(mutex)

(* Where the wait for the base is in each path; 0 where there is none.     *)
AwaitAt == [v3 |-> 0, pause |-> 0, stun |-> 0, p1d |-> 3, p1e |-> 4]

(* Why: unless a run is killed, it waits from its request until the copy   *)
(* has answered it, so there is at most one copy under way, it is for the  *)
(* run that waits, and it is not answered yet.                             *)
Awaiting == step > 0 /\ step = AwaitAt[mode]

OneCopy ==
  /\ breq = 1 => Awaiting /\ bdone = 0 /\ berr = 0 /\ bg = {}
  /\ bg # {} => Awaiting /\ bdone = 0 /\ breq = 2 /\ bg = {round}
  /\ \A t \in Threads : pc[t] = "copy" =>
       /\ Awaiting /\ bdone = 0 /\ breq = 2 /\ bg = {} /\ claim[t] = round
       /\ \A u \in Threads : pc[u] = "copy" => u = t

BaselineInv ==
  ~killed =>
    /\ OneCopy
    /\ Awaiting /\ bdone = 1 /\ berr = 0 => round \in copied
    /\ AwaitAt[mode] > 0 /\ step > AwaitAt[mode] => round \in copied

(* Every run of ckpt_core ends.                                            *)
RoundEnds == step > 0 ~> step = 0

(* A thread stopped at the boundary is released.                           *)
Released == \A t \in Threads : Stopped(t) ~> ~Stopped(t)
=============================================================================
