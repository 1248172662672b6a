---------------------------- MODULE VaSpaceLocks ----------------------------
(***************************************************************************)
(* Who may touch a VA space, and when: the power-management lock every     *)
(* entry point tries, the mutex of the global list of VA spaces, and the   *)
(* reader-writer lock of each VA space, as taken by the live-migration     *)
(* ioctls, by mmap and munmap, by the GPU fault bottom half, and by the    *)
(* opening and closing of /dev/nvidia-uvm, with suspend and the deferred   *)
(* release it causes.                                                      *)
(*                                                                         *)
(* The lock of a VA space is three locks.  A writer takes                  *)
(* serialize_writers_lock, then queues with the readers on                 *)
(* read_acquire_write_release_lock, then waits for the readers inside to   *)
(* leave; a reader passes through the second one, so that it is not        *)
(* admitted ahead of a writer that queued there before it; a reader that   *)
(* calls into RM takes the first one instead and keeps it.  The VA space   *)
(* and its file are one: space s belongs to file s, and thread s is the    *)
(* process that opened it.  The live-migration caller is "agent", the      *)
(* fault bottom half "isr", the power management thread "pm", and the      *)
(* deferred release queue "drq".                                           *)
(***************************************************************************)
EXTENDS Integers, Sequences, FiniteSets, SequencesExt

CONSTANTS Spaces, \* the files that may be opened
          Mappers, \* the processes that map and unmap memory
          Leaky \* the VA spaces a read lock may be left behind on, once
ASSUME LocksAssumption ==
  /\ Leaky \subseteq Spaces /\ Mappers \subseteq Spaces /\ IsFiniteSet(Spaces)
  /\ Spaces \cap {"agent", "isr", "pm", "drq", "none"} = {}

VARIABLES fd,      \* private_data of the file
          list,    \* g_uvm_global.va_spaces.list
          freed,   \* VA spaces that were destroyed
          pm,      \* g_uvm_global.pm.lock: readers, writer
          mutex,   \* holder of g_uvm_global.va_spaces.lock
          rd, wr,  \* read holds and write holder of every VA space lock
          ser,     \* holder of serialize_writers_lock of every VA space
          wait,    \* the queue on its read_acquire_write_release_lock, in order
          th,      \* every thread: operation, progress, VA space, spaces to do
          queue,   \* deferred_release_q
          left     \* read locks left behind, per VA space
vars == <<fd, list, freed, pm, mutex, rd, wr, ser, wait, th, queue, left>>

Thread == Spaces \cup {"agent", "isr", "pm", "drq"}
Ioctls == {"prepare", "dirty", "ranges", "finalize", "read"}
Idle == [op |-> "none", pc |-> "idle", s |-> "none", todo |-> <<>>]

Init ==
  /\ fd = [s \in Spaces |-> "uninitialized"]
  /\ list = <<>> /\ freed = {} /\ queue = <<>>
  /\ pm = [r |-> 0, w |-> FALSE] /\ mutex = "none"
  /\ rd = [s \in Spaces |-> [t \in Thread |-> 0]]
  /\ wr = [s \in Spaces |-> "none"] /\ ser = [s \in Spaces |-> "none"]
  /\ wait = [s \in Spaces |-> <<>>]
  /\ th = [t \in Thread |-> Idle]
  /\ left = [s \in Spaces |-> 0]

(***************************************************************************)
(* Locks.                                                                  *)
(***************************************************************************)
\* uvm_down_read_trylock(pm.lock): fails while a writer holds it or waits
PmFree == ~pm.w /\ th["pm"].pc = "idle"
PmDown == pm' = [pm EXCEPT !.r = @ + 1]
PmUp == pm' = [pm EXCEPT !.r = @ - 1]

\* the queue on read_acquire_write_release_lock
Enqueue(t, s) == wait' = [wait EXCEPT ![s] = Append(@, t)]
Dequeue(t, s) == wait' = [wait EXCEPT ![s] = Remove(@, t)]
Ahead(t, s) == {wait[s][k] : k \in 1..(IndexFirstSubSeq(<<t>>, wait[s]) - 1)}
(* Mutant: a reader yields to every writer that waits.                     *)
down_readYields(t) ==
  LET s == th[t].s
  IN /\ th[t].pc = "wantr" /\ wr[s] = "none"
     /\ \A u \in Thread : ~(th[u].pc \in {"wants", "wantw"} /\ th[u].s = s)
     /\ rd' = [rd EXCEPT ![s][t] = @ + 1] /\ Dequeue(t, s)
     /\ th' = [th EXCEPT ![t].pc = "inr"]
     /\ UNCHANGED <<fd, list, freed, pm, mutex, wr, ser, queue, left>>

down_read(t) ==
  LET s == th[t].s
  IN /\ th[t].pc = "wantr" /\ wr[s] = "none"
     /\ \A u \in Ahead(t, s) : th[u].pc = "wantr"
     /\ rd' = [rd EXCEPT ![s][t] = @ + 1] /\ Dequeue(t, s)
     /\ th' = [th EXCEPT ![t].pc = "inr"]
     /\ UNCHANGED <<fd, list, freed, pm, mutex, wr, ser, queue, left>>

\* the first lock of a writer, which then queues for the second one
serialize_writers(t) ==
  LET s == th[t].s
  IN /\ th[t].pc = "wants" /\ ser[s] = "none"
     /\ ser' = [ser EXCEPT ![s] = t] /\ Enqueue(t, s)
     /\ th' = [th EXCEPT ![t].pc = "wantw"]
     /\ UNCHANGED <<fd, list, freed, pm, mutex, rd, wr, queue, left>>

\* a reader that calls into RM: no writer is inside or on its way
down_read_rm(t) ==
  LET s == th[t].s
  IN /\ th[t].pc = "wantm" /\ ser[s] = "none" /\ wr[s] = "none"
     /\ ser' = [ser EXCEPT ![s] = t] /\ rd' = [rd EXCEPT ![s][t] = @ + 1]
     /\ th' = [th EXCEPT ![t].pc = "inr"]
     /\ UNCHANGED <<fd, list, freed, pm, mutex, wr, queue, left, wait>>

down_write(t) ==
  LET s == th[t].s
  IN /\ th[t].pc = "wantw" /\ wr[s] = "none" /\ \A u \in Thread : rd[s][u] = 0
     /\ Ahead(t, s) = {}
     /\ wr' = [wr EXCEPT ![s] = t] /\ Dequeue(t, s)
     /\ th' = [th EXCEPT ![t].pc = "inw"]
     /\ UNCHANGED <<fd, list, freed, pm, mutex, rd, ser, queue, left>>

UpRead(t) == rd' = [rd EXCEPT ![th[t].s][t] = @ - 1] /\ UNCHANGED wr
Unserialize(t) == ser' = [ser EXCEPT ![th[t].s] = "none"]
UpWrite(t) == wr' = [wr EXCEPT ![th[t].s] = "none"] /\ Unserialize(t) /\ UNCHANGED rd

(***************************************************************************)
(* The live-migration ioctls, through uvm_unlocked_ioctl.                  *)
(***************************************************************************)
ag == th["agent"]
Go(r) == th' = [th EXCEPT !["agent"] = r]

uvm_unlocked_ioctl(op) ==
  /\ ag.pc = "idle" /\ PmFree /\ PmDown
  /\ Go([Idle EXCEPT !.op = op, !.pc = "mutex"])
  /\ UNCHANGED <<fd, list, freed, mutex, rd, wr, ser, queue, left, wait>>

\* PREPARE_ALL copies the list under the mutex and drops it before it works;
\* without memory for the copy it gives up
PrepareSnapshot ==
  /\ ag.op = "prepare" /\ ag.pc = "mutex" /\ mutex = "none"
  /\ \/ Go([ag EXCEPT !.pc = "next", !.todo = list])
     \/ list # <<>> /\ Go([ag EXCEPT !.pc = "exit"])
  /\ UNCHANGED <<fd, list, freed, pm, mutex, rd, wr, ser, queue, left, wait>>
(* Mutant: the mutex is dropped once the list head was read.               *)
TakeMutexBriefly ==
  /\ ag.op # "prepare" /\ ag.pc = "mutex" /\ mutex = "none"
  /\ Go([ag EXCEPT !.pc = "next", !.todo = list])
  /\ UNCHANGED <<fd, list, freed, pm, mutex, rd, wr, ser, queue, left, wait>>

\* the others keep the mutex for the whole walk
TakeMutex ==
  /\ ag.op # "prepare" /\ ag.pc = "mutex" /\ mutex = "none"
  /\ mutex' = "agent" /\ Go([ag EXCEPT !.pc = "next", !.todo = list])
  /\ UNCHANGED <<fd, list, freed, pm, rd, wr, ser, queue, left, wait>>

NextTo(pc) == Go([ag EXCEPT !.pc = pc, !.s = Head(ag.todo), !.todo = Tail(@)])
NextSpace ==
  /\ ag.pc = "next"
  /\ IF ag.todo = <<>>
     THEN /\ mutex' = IF mutex = "agent" THEN "none" ELSE mutex
          /\ Go([ag EXCEPT !.pc = "exit", !.s = "none"]) /\ UNCHANGED wait
     ELSE /\ UNCHANGED mutex
          /\ IF ag.op \in {"prepare", "finalize"}
             THEN NextTo("wants") /\ UNCHANGED wait
             ELSE NextTo("wantr") /\ Enqueue("agent", Head(ag.todo))
  /\ UNCHANGED <<fd, list, freed, pm, rd, wr, ser, queue, left>>

Again == Go([ag EXCEPT !.pc = "next"])
Stop == Go([ag EXCEPT !.pc = "next", !.todo = <<>>])

\* the revokes of one VA space; a failure goes on with the next one
prepare_va_space ==
  /\ ag.op = "prepare" /\ ag.pc = "inw" /\ UpWrite("agent") /\ Again
  /\ UNCHANGED <<fd, list, freed, pm, mutex, queue, left, wait>>

finalize_va_space ==
  /\ ag.op = "finalize" /\ ag.pc = "inw" /\ UpWrite("agent") /\ Again
  /\ UNCHANGED <<fd, list, freed, pm, mutex, queue, left, wait>>

\* the walk of one VA space; when the output is full or cannot be written the
\* call leaves through a label behind the unlock of the VA space
dirty_va_space ==
  /\ ag.op = "dirty" /\ ag.pc = "inr"
  /\ \/ UpRead("agent") /\ Again /\ UNCHANGED left
     \/ /\ ag.s \in Leaky /\ left[ag.s] = 0
        /\ left' = [left EXCEPT ![ag.s] = @ + 1] /\ Stop /\ UNCHANGED <<rd, wr>>
  /\ UNCHANGED <<fd, list, freed, pm, mutex, ser, queue, wait>>
(* Mutant: a full output ends the walk with the VA space still locked.     *)
ranges_va_spaceLocked ==
  /\ ag.op = "ranges" /\ ag.pc = "inr" /\ Stop
  /\ UNCHANGED <<fd, list, freed, pm, mutex, rd, wr, ser, queue, left, wait>>

\* a full output ends the walk, after the unlock
ranges_va_space ==
  /\ ag.op = "ranges" /\ ag.pc = "inr" /\ UpRead("agent") /\ (Again \/ Stop)
  /\ UNCHANGED <<fd, list, freed, pm, mutex, ser, queue, left, wait>>

\* pass 1 of the page reads: the space that holds the address is kept locked
\* while its pages are classified, the others are skipped
read_va_space ==
  /\ ag.op = "read" /\ ag.pc = "inr" /\ UpRead("agent") /\ (Again \/ Stop)
  /\ UNCHANGED <<fd, list, freed, pm, mutex, ser, queue, left, wait>>

IoctlReturn ==
  /\ ag.pc = "exit" /\ PmUp /\ Go(Idle)
  /\ UNCHANGED <<fd, list, freed, mutex, rd, wr, ser, queue, left, wait>>

(***************************************************************************)
(* The processes: UVM_INITIALIZE, mmap and munmap, close.                  *)
(***************************************************************************)
Set(t, op, pc, s) == th' = [th EXCEPT ![t] = [Idle EXCEPT !.op = op, !.pc = pc, !.s = s]]

uvm_api_initialize(s) ==
  /\ th[s].pc = "idle" /\ fd[s] = "uninitialized" /\ PmFree /\ PmDown
  /\ fd' = [fd EXCEPT ![s] = "initializing"] /\ Set(s, "init", "create", s)
  /\ UNCHANGED <<list, freed, mutex, rd, wr, ser, queue, left, wait>>

\* uvm_va_space_create appends to the list under the mutex, or fails
va_space_create(s) ==
  /\ th[s].pc = "create" /\ mutex = "none"
  /\ \/ fd' = [fd EXCEPT ![s] = "va_space"] /\ list' = Append(list, s)
     \/ fd' = [fd EXCEPT ![s] = "uninitialized"] /\ UNCHANGED list
  /\ PmUp /\ th' = [th EXCEPT ![s] = Idle]
  /\ UNCHANGED <<freed, mutex, rd, wr, ser, queue, left, wait>>

\* without memory for the vma wrapper it leaves before the VA space lock
uvm_mmap(s) ==
  /\ s \in Mappers /\ th[s].pc = "idle" /\ fd[s] = "va_space" /\ PmFree /\ PmDown
  /\ \E pc \in {"wants", "exit"} : Set(s, "mmap", pc, s)
  /\ UNCHANGED <<fd, list, freed, mutex, rd, wr, ser, queue, left, wait>>

mmap_nomem(s) ==
  /\ th[s].op = "mmap" /\ th[s].pc = "exit" /\ PmUp /\ th' = [th EXCEPT ![s] = Idle]
  /\ UNCHANGED <<fd, list, freed, mutex, rd, wr, ser, queue, left, wait>>

\* munmap, or the exit of the process, which stops the user channels under the
\* read lock first; takes no power-management lock
uvm_vm_close_managed(s) ==
  /\ s \in Mappers /\ th[s].pc = "idle" /\ fd[s] = "va_space"
  /\ \E pc \in {"wants", "wantm"} : Set(s, "close", pc, s)
  /\ UNCHANGED <<fd, list, freed, pm, mutex, rd, wr, ser, queue, left, wait>>

stop_all_user_channels(s) ==
  /\ th[s].op = "close" /\ th[s].pc = "inr" /\ UpRead(s) /\ Unserialize(s)
  /\ th' = [th EXCEPT ![s].pc = "wants"]
  /\ UNCHANGED <<fd, list, freed, pm, mutex, queue, left, wait>>

AppUnlock(s) ==
  /\ th[s].op \in {"mmap", "close"} /\ th[s].pc = "inw" /\ UpWrite(s)
  /\ IF th[s].op = "mmap" THEN PmUp ELSE UNCHANGED pm
  /\ th' = [th EXCEPT ![s] = Idle]
  /\ UNCHANGED <<fd, list, freed, mutex, queue, left, wait>>
(* Mutant: a file closed during suspend is destroyed at once.              *)
uvm_releaseAtOnce(s) ==
  /\ th[s].pc = "idle" /\ fd[s] = "va_space"
  /\ fd' = [fd EXCEPT ![s] = "released"]
  /\ PmDown /\ Set(s, "destroy", "unlink", s)
  /\ UNCHANGED <<list, freed, mutex, rd, wr, ser, queue, left, wait>>

\* the last close of the file: at once, or deferred while power management has
\* the lock
uvm_release(s) ==
  /\ th[s].pc = "idle" /\ fd[s] = "va_space"
  /\ fd' = [fd EXCEPT ![s] = "released"]
  /\ IF PmFree
     THEN PmDown /\ Set(s, "destroy", "unlink", s) /\ UNCHANGED queue
     ELSE queue' = Append(queue, s) /\ UNCHANGED <<pm, th>>
  /\ UNCHANGED <<list, freed, mutex, rd, wr, ser, left, wait>>

uvm_release_deferred ==
  /\ th["drq"].pc = "idle" /\ queue # <<>> /\ PmFree /\ PmDown
  /\ Set("drq", "destroy", "unlink", Head(queue)) /\ queue' = Tail(queue)
  /\ UNCHANGED <<fd, list, freed, mutex, rd, wr, ser, left, wait>>

\* uvm_va_space_destroy: off the list under the mutex; then the bottom half is
\* flushed and the space is torn down under its write lock and freed
va_space_unlink(t) ==
  /\ th[t].pc = "unlink" /\ mutex = "none"
  /\ list' = RemoveFirst(list, th[t].s) /\ th' = [th EXCEPT ![t].pc = "flush"]
  /\ UNCHANGED <<fd, freed, pm, mutex, rd, wr, ser, queue, left, wait>>

va_space_flush(t) ==
  /\ th[t].pc = "flush" /\ th["isr"].s # th[t].s
  /\ th' = [th EXCEPT ![t].pc = "wants"]
  /\ UNCHANGED <<fd, list, freed, pm, mutex, rd, wr, ser, queue, left, wait>>

va_space_free(t) ==
  /\ th[t].op = "destroy" /\ th[t].pc = "inw" /\ UpWrite(t) /\ PmUp
  /\ freed' = freed \cup {th[t].s} /\ th' = [th EXCEPT ![t] = Idle]
  /\ UNCHANGED <<fd, list, mutex, queue, left, wait>>

(***************************************************************************)
(* The GPU fault bottom half, and suspend and resume.                      *)
(***************************************************************************)
FaultStart ==
  /\ th["isr"].pc = "idle"
  /\ \E k \in 1..Len(list) : Set("isr", "fault", "wantr", list[k]) /\ Enqueue("isr", list[k])
  /\ UNCHANGED <<fd, list, freed, pm, mutex, rd, wr, ser, queue, left>>

FaultDone ==
  /\ th["isr"].pc = "inr" /\ UpRead("isr") /\ th' = [th EXCEPT !["isr"] = Idle]
  /\ UNCHANGED <<fd, list, freed, pm, mutex, ser, queue, left, wait>>

Suspend ==
  /\ th["pm"].pc = "idle" /\ Set("pm", "suspend", "wantpm", "none")
  /\ UNCHANGED <<fd, list, freed, pm, mutex, rd, wr, ser, queue, left, wait>>

Suspended ==
  /\ th["pm"].pc = "wantpm" /\ pm.r = 0 /\ ~pm.w
  /\ pm' = [pm EXCEPT !.w = TRUE] /\ th' = [th EXCEPT !["pm"].pc = "suspended"]
  /\ UNCHANGED <<fd, list, freed, mutex, rd, wr, ser, queue, left, wait>>

Resume ==
  /\ th["pm"].pc = "suspended" /\ pm' = [pm EXCEPT !.w = FALSE]
  /\ th' = [th EXCEPT !["pm"] = Idle]
  /\ UNCHANGED <<fd, list, freed, mutex, rd, wr, ser, queue, left, wait>>

\* what a thread starts on its own, and what it does once it has started
Begin ==
  \/ (\E op \in Ioctls : uvm_unlocked_ioctl(op)) \/ FaultStart \/ Suspend
  \/ (\E s \in Spaces : uvm_api_initialize(s) \/ uvm_mmap(s)
                        \/ uvm_vm_close_managed(s) \/ uvm_release(s))
WriteStep(t) == serialize_writers(t) \/ down_write(t)
AgentStep ==
  \/ PrepareSnapshot \/ TakeMutex \/ NextSpace \/ prepare_va_space \/ finalize_va_space
  \/ dirty_va_space \/ ranges_va_space \/ read_va_space \/ IoctlReturn
  \/ down_read("agent") \/ WriteStep("agent")
DestroyStep(t) == va_space_unlink(t) \/ va_space_flush(t) \/ va_space_free(t)
AppStep(s) ==
  \/ va_space_create(s) \/ mmap_nomem(s) \/ down_read_rm(s) \/ stop_all_user_channels(s)
  \/ AppUnlock(s) \/ WriteStep(s) \/ DestroyStep(s)
DrqStep == uvm_release_deferred \/ WriteStep("drq") \/ DestroyStep("drq")
IsrStep == down_read("isr") \/ FaultDone
PmStep == Suspended \/ Resume
Next == Begin \/ AgentStep \/ DrqStep \/ IsrStep \/ PmStep \/ (\E s \in Spaces : AppStep(s))
Spec == Init /\ [][Next]_vars

\* Every thread runs; a waiter of the list mutex or of serialize_writers_lock
\* gets it in the end, and the deferred release queue gets the power-management
\* lock.  No thread has to start anything, except that what is suspended is
\* resumed.
Fairness ==
  /\ SF_vars(AgentStep) /\ WF_vars(IsrStep) /\ WF_vars(PmStep) /\ SF_vars(DrqStep)
  /\ \A s \in Spaces : SF_vars(AppStep(s))
FairSpec == Spec /\ Fairness

-----------------------------------------------------------------------------

\* A thread that runs no call holds no lock: neither the power-management lock,
\* nor the list mutex, nor the lock of a VA space, on every path out of every
\* ioctl, but for the read locks GET_DIRTY_PAGES leaves behind when it ends its
\* walk early.  The readers of the power-management lock are the calls.
HeldByCalls ==
  /\ \A t \in Thread : th[t].pc = "idle" =>
       \A s \in Spaces : wr[s] # t /\ ser[s] # t /\ rd[s][t] = IF t = "agent" THEN left[s] ELSE 0
  /\ ag.pc \in {"idle", "exit"} => mutex = "none"
  /\ pm.r = Cardinality({t \in Thread \ {"pm", "isr"} :
                           th[t].pc # "idle" /\ th[t].op # "close"})

\* No thread has a VA space in hand that was freed, except PREPARE_ALL, which
\* works from a copy of the list it took before it dropped the mutex.  The walks
\* that keep the mutex are safe because a VA space leaves the list under it.
HandsOffFreed ==
  \A t \in Thread : (th[t].s \in freed /\ th[t].pc # "idle") =>
                      (t = "agent" /\ ag.op = "prepare")

\* Suspend excludes the calls: while power management has the lock, no ioctl,
\* mmap or release is inside the driver, and a file closed meanwhile waits in
\* the queue for its VA space to be destroyed.
SuspendExcludes ==
  /\ pm.w => /\ ag.pc = "idle" /\ th["drq"].pc = "idle"
             /\ \A s \in Spaces : th[s].op \in {"none", "close"}
  /\ \A s \in Spaces : fd[s] = "released" =>
       \/ s \in freed \/ s \in ToSet(queue)
       \/ \E t \in Thread : th[t].op = "destroy" /\ th[t].s = s

-----------------------------------------------------------------------------
\* Why the three hold, as an inductive invariant.

Ops == Ioctls \cup {"none", "init", "mmap", "close", "destroy", "fault", "suspend"}
Pcs == {"idle", "mutex", "next", "wantr", "wantm", "inr", "wants", "wantw", "inw", "exit",
        "create", "unlink", "flush", "wantpm", "suspended"}
Files == Spaces \cup {"none"}
Progress == [op : Ops, pc : Pcs, s : Files, todo : Seq(Spaces)]

TypeOK ==
  /\ fd \in [Spaces -> {"uninitialized", "initializing", "va_space", "released"}]
  /\ list \in Seq(Spaces) /\ freed \subseteq Spaces /\ queue \in Seq(Spaces)
  /\ pm \in [r : Int, w : BOOLEAN] /\ mutex \in {"none", "agent"}
  /\ rd \in [Spaces -> [Thread -> Int]] /\ wr \in [Spaces -> Thread \cup {"none"}]
  /\ ser \in [Spaces -> Thread \cup {"none"}] /\ th \in [Thread -> Progress]
  /\ left \in [Spaces -> Int]

\* what each thread runs, where it may be in it, and on whose VA space
Shape ==
  /\ \A t \in Thread :
       /\ th[t].op = "none" <=> th[t].pc = "idle"
       /\ th[t].pc = "idle" => th[t].s = "none"
       /\ th[t].pc \in {"wantr", "wantm", "inr", "wants", "wantw", "inw", "unlink", "flush", "create"}
            => th[t].s \in Spaces
  /\ ag.op \in Ioctls \cup {"none"}
  /\ ag.pc \in {"idle", "mutex", "next", "wantr", "inr", "wants", "wantw", "inw", "exit"}
  /\ th["isr"].op \in {"none", "fault"} /\ th["isr"].pc \in {"idle", "wantr", "inr"}
  /\ th["pm"].op \in {"none", "suspend"} /\ th["pm"].pc \in {"idle", "wantpm", "suspended"}
  /\ th["pm"].s = "none"
  /\ th["drq"].op \in {"none", "destroy"}
  /\ th["drq"].pc \in {"idle", "unlink", "flush", "wants", "wantw", "inw"}
  /\ \A s \in Spaces :
       /\ th[s].s \in {s, "none"}
       /\ th[s].op \in {"none", "init", "mmap", "close", "destroy"}
       /\ th[s].op = "init" <=> th[s].pc = "create"
       /\ th[s].op = "mmap" => th[s].pc \in {"wants", "wantw", "inw", "exit"}
       /\ th[s].op = "close" => th[s].pc \in {"wantm", "inr", "wants", "wantw", "inw"}
       /\ th[s].op = "destroy" => th[s].pc \in {"unlink", "flush", "wants", "wantw", "inw"}

Walking == ag.pc \in {"next", "wantr", "inr", "wants", "wantw", "inw"}

\* a lock is held by the thread that is at the place where it has it
MutexHeld == mutex = "agent" <=> ag.op # "prepare" /\ Walking
SpaceLocks ==
  \A s \in Spaces, t \in Thread :
    /\ wr[s] = t <=> th[t].pc = "inw" /\ th[t].s = s
    /\ rd[s][t] = (IF t = "agent" THEN left[s] ELSE 0)
                  + (IF th[t].pc = "inr" /\ th[t].s = s THEN 1 ELSE 0)

\* where a thread has serialize_writers_lock: a writer until it leaves, and a
\* process that stops its channels
Serializes(t) == th[t].pc \in {"wantw", "inw"} \/ (th[t].pc = "inr" /\ th[t].op = "close")
SerialHeld == \A s \in Spaces, t \in Thread : ser[s] = t <=> th[t].s = s /\ Serializes(t)

Calls == {t \in Thread \ {"pm", "isr"} : th[t].pc # "idle" /\ th[t].op # "close"}
Counted ==
  /\ pm.r = Cardinality(Calls)
  /\ pm.w <=> th["pm"].pc = "suspended"
  /\ pm.w => Calls = {}

\* the life of a file: one thread at a time opens, uses or destroys it
Destroys(t, s) == th[t].op = "destroy" /\ th[t].s = s
Lifetime ==
  /\ \A s \in Spaces :
       /\ th[s].op = "init" <=> fd[s] = "initializing"
       /\ th[s].op \in {"mmap", "close"} => fd[s] = "va_space"
       /\ (s \in ToSet(queue) \/ s \in freed \/ Destroys(s, s) \/ Destroys("drq", s)) => fd[s] = "released"
       /\ fd[s] = "released" => \/ s \in freed \/ s \in ToSet(queue)
                                \/ Destroys(s, s) \/ Destroys("drq", s)
       /\ s \in freed => s \notin ToSet(queue) /\ ~Destroys(s, s) /\ ~Destroys("drq", s)
       /\ s \in ToSet(queue) => ~Destroys(s, s) /\ ~Destroys("drq", s)
       /\ ~(Destroys(s, s) /\ Destroys("drq", s))
       /\ s \in ToSet(list) => fd[s] \in {"va_space", "released"} /\ s \notin freed
  /\ \A i, j \in 1..Len(queue) : queue[i] = queue[j] => i = j
  /\ \A i, j \in 1..Len(list) : list[i] = list[j] => i = j

\* a VA space off the list is not picked up again, and flushing the bottom half
\* leaves nobody on it
OffList ==
  /\ \A t \in Thread : th[t].op = "destroy" =>
       /\ th[t].pc # "unlink" => th[t].s \notin ToSet(list)
       /\ th[t].pc \in {"wants", "wantw", "inw"} => th["isr"].s # th[t].s
  /\ th["isr"].s \notin freed
  /\ ag.op # "prepare" /\ Walking =>
       /\ ag.s \in ToSet(list) \cup {"none"}
       /\ ToSet(ag.todo) \subseteq ToSet(list)
  /\ ag.op # "prepare" /\ ~Walking => ag.s = "none"

LocksInv == TypeOK /\ Shape /\ MutexHeld /\ SpaceLocks /\ SerialHeld /\ Counted /\ Lifetime /\ OffList

-----------------------------------------------------------------------------
Left == \E s \in Spaces : left[s] > 0
\* Unless a read lock was left behind, the GPU fault bottom half gets its VA
\* space lock and every closed file's VA space is destroyed, though ioctls,
\* mappings and suspend keep coming: the three kinds of locks are never waited
\* for in a circle.  A VA space once destroyed stays so, hence the moment at
\* which nothing is outstanding comes again and again.
EveryoneProceeds ==
  []<>(Left \/ (th["isr"].pc = "idle" /\ \A s \in Spaces : fd[s] = "released" => s \in freed))
============================================================================
