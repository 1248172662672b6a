--------------------------- MODULE DirtyTracking ---------------------------
(***************************************************************************)
(* Write-fault dirty tracking in the modified UVM driver, and the capture  *)
(* of a base image and a delta on top of it (uvm_live_migration.c, and the *)
(* FLASH hunks of uvm_va_block.c and uvm_va_range.c).                      *)
(*                                                                         *)
(* A checkpoint round of ckpt_core is PREPARE_ALL, a base read of every    *)
(* page while the application keeps running, a stop at a boundary, a read  *)
(* of the pages of the dirty 2MB blocks, FINALIZE and RESUME.  Memory is a *)
(* set of 4KB pages grouped into va_blocks; the dirty flag is one per      *)
(* block.  The image is what a restore rebuilds: the base with the delta   *)
(* laid over it.                                                           *)
(***************************************************************************)

CONSTANTS
  Pages,     \* 4KB pages of the captured managed ranges
  Blocks,    \* 2MB va_blocks of those ranges
  BlockOf,   \* the block of each page
  Values,    \* contents of a page
  Zero,      \* contents of a page that was never populated
  NoSnap,    \* no snapshot exists
  Env        \* which disturbances of the tracking the environment produces

(* What can come between a write and its dirty flag:                       *)
(*   revoke_async  the revoke is a GPU push that PREPARE_ALL never waits   *)
(*                 for, so it may land after the ioctl has returned        *)
(*   revoke_fail   a revoke (or its context) fails; PREPARE_ALL still      *)
(*                 reports NV_OK for the other VA spaces it prepared       *)
(*   evict         memory pressure moves a block's pages to the host       *)
(*   host_write    the CPU writes a managed page (a CPU fault)             *)
Disturbances == {"revoke_async", "revoke_fail", "evict", "host_write"}

ASSUME TrackingAssumption ==
  /\ BlockOf \in [Pages -> Blocks]
  /\ Zero \in Values
  /\ Env \subseteq Disturbances

VARIABLES
  agent,     \* where ckpt_core is in its round
  todo,      \* blocks PREPARE_ALL or FINALIZE has still to visit
  marked,    \* the block whose flags are set and whose revoke is due
  active,    \* va_space->migration_tracking_active
  blocks,    \* va_blocks that exist
  tracking,  \* blocks with live_migration.migration_tracking_enabled
  dirty,     \* blocks with live_migration.dirty
  res,       \* residency of each page
  hw,        \* pages whose PTE lets the GPU write now
  inflight,  \* blocks with a revoke pushed and not yet executed
  mem,       \* contents of memory
  app,       \* "running", or "stopped" at the boundary
  scan,      \* progress of the page read over each page
  image,     \* what the base and the delta, read so far, rebuild
  written,   \* history: blocks written since PREPARE_ALL returned
  disturbed  \* history: blocks a disturbance made unsafe in this round

vars == <<agent, todo, marked, active, blocks, tracking, dirty, res, hw,
          inflight, mem, app, scan, image, written, disturbed>>

PagesOf(b) == {p \in Pages : BlockOf[p] = b}

(* The fault handler takes the va_space lock for reading; PREPARE_ALL and  *)
(* FINALIZE hold it for writing while they walk the blocks.                *)
VaSpaceWriteLocked == agent \in {"prepare", "finalize"}

(* PREPARE_ALL has returned and the application has not been stopped yet.  *)
Precopy == agent \in {"base", "quiesce"}

(* PREPARE_ALL has returned and the delta has not been read yet.           *)
Tracked == {"base", "quiesce", "delta"}

Init ==
  /\ agent = "idle" /\ app = "running"
  /\ todo = {} /\ marked = {} /\ active = FALSE
  /\ blocks = {} /\ tracking = {} /\ dirty = {}
  /\ res = [p \in Pages |-> "absent"]
  /\ hw = {} /\ inflight = {}
  /\ mem = [p \in Pages |-> Zero]
  /\ scan = [p \in Pages |-> "todo"]
  /\ image = [p \in Pages |-> Zero]
  /\ written = {} /\ disturbed = {}

-----------------------------------------------------------------------------
(* PREPARE_ALL (ioctl 102).                                                *)

PrepareStart ==
  /\ agent = "idle" /\ app = "running"
  /\ agent' = "prepare"
  /\ todo' = blocks
  /\ written' = {} /\ disturbed' = {}
  /\ UNCHANGED <<marked, active, blocks, tracking, dirty, res, hw, inflight,
                 mem, app, scan, image>>

(* The flags of a block are set before its write permission is revoked.    *)
PrepareMark(b) ==
  /\ agent = "prepare" /\ marked = {} /\ b \in todo
  /\ dirty' = dirty \ {b}
  /\ tracking' = tracking \cup {b}
  /\ marked' = {b}
  /\ todo' = todo \ {b}
  /\ UNCHANGED <<agent, active, blocks, res, hw, inflight, mem, app, scan,
                 image, written, disturbed>>

(* The revoke is pushed to the GPU under the block lock; nothing waits for *)
(* the block's tracker.                                                    *)
PrepareRevoke(b) ==
  /\ agent = "prepare" /\ b \in marked
  /\ marked' = {}
  /\ \/ hw' = hw \ PagesOf(b) /\ inflight' = inflight \ {b}
     \/ /\ "revoke_async" \in Env
        /\ hw \cap PagesOf(b) # {}
        /\ inflight' = inflight \cup {b} /\ UNCHANGED hw
  /\ UNCHANGED <<agent, todo, active, blocks, tracking, dirty, res, mem, app,
                 scan, image, written, disturbed>>

StartBaseRead ==
  /\ agent' = "base"
  /\ scan' = [p \in Pages |-> "todo"]

PrepareDone ==
  /\ agent = "prepare" /\ todo = {} /\ marked = {}
  /\ active' = TRUE
  /\ StartBaseRead
  /\ UNCHANGED <<todo, marked, blocks, tracking, dirty, res, hw, inflight,
                 mem, app, image, written, disturbed>>

(* The walk of this VA space is abandoned, but the agent's own VA space    *)
(* was prepared, so the ioctl reports NV_OK and the round goes on.         *)
PrepareFail ==
  /\ "revoke_fail" \in Env
  /\ agent = "prepare" /\ todo \cup marked # {}
  /\ disturbed' = todo \cup marked \cup (IF active THEN {} ELSE Blocks \ blocks)
  /\ todo' = {} /\ marked' = {}
  /\ StartBaseRead
  /\ UNCHANGED <<active, blocks, tracking, dirty, res, hw, inflight, mem, app,
                 image, written>>

RevokeLands(b) ==
  /\ b \in inflight
  /\ inflight' = inflight \ {b}
  /\ hw' = hw \ PagesOf(b)
  /\ UNCHANGED <<agent, todo, marked, active, blocks, tracking, dirty, res,
                 mem, app, scan, image, written, disturbed>>

-----------------------------------------------------------------------------
(* The application: GPU stores, GPU faults, and what moves its pages.      *)

(* A write that the dirty flag of its block does not cover.                *)
Unrecorded(b) == IF Precopy /\ b \notin dirty THEN {b} ELSE {}

GpuWrite(p, v) ==
  /\ app = "running" /\ p \in hw
  /\ mem' = [mem EXCEPT ![p] = v]
  /\ written' = IF Precopy THEN written \cup {BlockOf[p]} ELSE written
  /\ disturbed' = IF BlockOf[p] \in inflight
                  THEN disturbed \cup Unrecorded(BlockOf[p]) ELSE disturbed
  /\ UNCHANGED <<agent, todo, marked, active, blocks, tracking, dirty, res, hw,
                 inflight, app, scan, image>>

(* Mutant: a block created during the round is not tracked.                *)
BlockCreateUntracked(b) == blocks' = blocks \cup {b} /\ UNCHANGED tracking

(* A block that a fault creates inherits tracking from the VA space.       *)
BlockCreate(b) ==
  /\ blocks' = blocks \cup {b}
  /\ tracking' = IF b \notin blocks /\ active THEN tracking \cup {b} ELSE tracking

(* Service of a replayable fault: the page becomes resident on the GPU;    *)
(* in a tracked block every resident page is mapped read-write-atomic, on  *)
(* a read fault too, and the block is recorded dirty first.  An untracked  *)
(* read fault may or may not be promoted to write permission.              *)
GpuFault(p) ==
  LET b == BlockOf[p]
      landed == IF b \in inflight THEN hw \ PagesOf(b) ELSE hw
  IN
  /\ app = "running" /\ ~VaSpaceWriteLocked /\ p \notin hw
  /\ BlockCreate(b)
  /\ res' = [res EXCEPT ![p] = "gpu"]
  /\ inflight' = inflight \ {b}
  /\ \/ /\ b \in tracking'
        /\ dirty' = dirty \cup {b}
        /\ hw' = landed \cup {q \in PagesOf(b) : res'[q] = "gpu"}
     \/ /\ b \notin tracking'
        /\ UNCHANGED dirty
        /\ hw' \in {landed, landed \cup {p}}
  /\ UNCHANGED <<agent, todo, marked, active, mem, app, scan, image, written,
                 disturbed>>

(* A page of b waits for pass 2, and what pass 2 reads will be used.       *)
BetweenPasses(b) ==
  /\ \E p \in PagesOf(b) : scan[p] = "gpu"
  /\ agent = "delta" \/ (Precopy /\ b \notin dirty)

(* Eviction holds the block lock only, not the va_space lock.  Memory      *)
(* pressure does not wait for the application: it may come while it stands *)
(* at the boundary, between the passes of the delta read.                  *)
Evict(b) ==
  /\ "evict" \in Env
  /\ \E p \in PagesOf(b) : res[p] = "gpu"
  /\ res' = [p \in Pages |-> IF p \in PagesOf(b) /\ res[p] = "gpu"
                             THEN "cpu" ELSE res[p]]
  /\ hw' = hw \ PagesOf(b)
  /\ inflight' = inflight \ {b}
  /\ disturbed' = IF BetweenPasses(b) THEN disturbed \cup {b} ELSE disturbed
  /\ UNCHANGED <<agent, todo, marked, active, blocks, tracking, dirty, mem,
                 app, scan, image, written>>

(* A CPU fault moves the page to the host; only GPU faults are recorded.   *)
HostWrite(p, v) ==
  LET b == BlockOf[p] IN
  /\ "host_write" \in Env /\ app = "running" /\ ~VaSpaceWriteLocked
  /\ BlockCreate(b)
  /\ res' = [res EXCEPT ![p] = "cpu"]
  /\ hw' = hw \ {p}
  /\ mem' = [mem EXCEPT ![p] = v]
  /\ written' = IF Precopy THEN written \cup {b} ELSE written
  /\ disturbed' = disturbed \cup Unrecorded(b)
  /\ UNCHANGED <<agent, todo, marked, active, dirty, inflight, app, scan, image>>

-----------------------------------------------------------------------------
(* The page read (ioctls 109, 111, 113-116): pass 1 classifies pages under *)
(* the locks and copies the host ones; pass 2 copies the GPU ones by the   *)
(* physical address it recorded, with no lock.  Interleaving the passes    *)
(* page by page covers every grouping of pages into ioctl calls.           *)

(* Mutant: the base read, too, leaves out the blocks that are not dirty.   *)
DirtyOnlyAlways == agent \in {"base", "delta"}

DirtyOnly == agent = "delta"

(* A copy of a page that the GPU is writing may return anything.           *)
CopyOf(p) == IF app = "running" /\ p \in hw /\ BlockOf[p] \in written
             THEN Values ELSE {mem[p]}

Pass1(p) ==
  /\ agent \in {"base", "delta"} /\ scan[p] = "todo"
  /\ LET skip == DirtyOnly /\ BlockOf[p] \notin tracking \cap dirty IN
     /\ scan' = [scan EXCEPT ![p] = IF ~skip /\ res[p] = "gpu"
                                    THEN "gpu" ELSE "done"]
     /\ \/ /\ ~skip /\ res[p] = "cpu"
           /\ \E v \in CopyOf(p) : image' = [image EXCEPT ![p] = v]
        \/ /\ ~DirtyOnly /\ res[p] = "absent"
           /\ image' = [image EXCEPT ![p] = Zero]
        \/ /\ skip \/ res[p] = "gpu" \/ (DirtyOnly /\ res[p] = "absent")
           /\ UNCHANGED image
  /\ UNCHANGED <<agent, todo, marked, active, blocks, tracking, dirty, res, hw,
                 inflight, mem, app, written, disturbed>>

Pass2(p) ==
  /\ agent \in {"base", "delta"} /\ scan[p] = "gpu"
  /\ scan' = [scan EXCEPT ![p] = "done"]
  /\ \E v \in (IF res[p] = "gpu" THEN CopyOf(p) ELSE Values) :
        image' = [image EXCEPT ![p] = v]
  /\ UNCHANGED <<agent, todo, marked, active, blocks, tracking, dirty, res, hw,
                 inflight, mem, app, written, disturbed>>

ScanDone == \A p \in Pages : scan[p] = "done"

(* A failed base read ends ckpt_core without FINALIZE; a failed delta read *)
(* ends it without FINALIZE and without RESUME.                            *)
ReadFail ==
  /\ agent \in {"base", "delta"}
  /\ agent' = IF agent = "base" THEN "idle" ELSE "wedged"
  /\ UNCHANGED <<todo, marked, active, blocks, tracking, dirty, res, hw,
                 inflight, mem, app, scan, image, written, disturbed>>

BaseDone ==
  /\ agent = "base" /\ ScanDone
  /\ agent' = "quiesce"
  /\ UNCHANGED <<todo, marked, active, blocks, tracking, dirty, res, hw,
                 inflight, mem, app, scan, image, written, disturbed>>

(* Mutant: the application signals the boundary and does not wait.         *)
AtBoundaryRunsOn ==
  /\ agent = "quiesce" /\ app = "running"
  /\ agent' = "delta"
  /\ scan' = [p \in Pages |-> "todo"]
  /\ UNCHANGED <<todo, marked, active, blocks, tracking, dirty, res, hw,
                 inflight, mem, app, image, written, disturbed>>

(* The application reaches the boundary with the GPU idle and waits there. *)
AtBoundary ==
  /\ agent = "quiesce" /\ app = "running"
  /\ app' = "stopped"
  /\ agent' = "delta"
  /\ scan' = [p \in Pages |-> "todo"]
  /\ UNCHANGED <<todo, marked, active, blocks, tracking, dirty, res, hw,
                 inflight, mem, image, written, disturbed>>

DeltaDone ==
  /\ agent = "delta" /\ ScanDone
  /\ agent' = "captured"
  /\ UNCHANGED <<todo, marked, active, blocks, tracking, dirty, res, hw,
                 inflight, mem, app, scan, image, written, disturbed>>

-----------------------------------------------------------------------------
(* FINALIZE (ioctl 101) and RESUME, in either order: the main path runs    *)
(* FINALIZE while the application is stopped, the in-process path after    *)
(* it has resumed.                                                         *)

FinalizeStart ==
  /\ agent = "captured"
  /\ agent' = "finalize"
  /\ active' = FALSE
  /\ todo' = blocks
  /\ UNCHANGED <<marked, blocks, tracking, dirty, res, hw, inflight, mem, app,
                 scan, image, written, disturbed>>

(* The flags are cleared; mapping the resident pages back may fail, and    *)
(* then they stay read-only until they fault.                              *)
FinalizeBlock(b) ==
  /\ agent = "finalize" /\ b \in todo
  /\ todo' = todo \ {b}
  /\ tracking' = tracking \ {b}
  /\ dirty' = dirty \ {b}
  /\ \/ /\ hw' = hw \cup {p \in PagesOf(b) : res[p] = "gpu"}
        /\ inflight' = inflight \ {b}
     \/ UNCHANGED <<hw, inflight>>
  /\ UNCHANGED <<agent, marked, active, blocks, res, mem, app, scan, image,
                 written, disturbed>>

(* No memory for a block context: the range is skipped, its blocks keep    *)
(* their flags.                                                            *)
FinalizeSkip(b) ==
  /\ agent = "finalize" /\ b \in todo
  /\ todo' = todo \ {b}
  /\ UNCHANGED <<agent, marked, active, blocks, tracking, dirty, res, hw,
                 inflight, mem, app, scan, image, written, disturbed>>

FinalizeDone ==
  /\ agent = "finalize" /\ todo = {}
  /\ agent' = "finished"
  /\ UNCHANGED <<todo, marked, active, blocks, tracking, dirty, res, hw,
                 inflight, mem, app, scan, image, written, disturbed>>

Resume ==
  /\ app = "stopped" /\ agent \in {"captured", "finished"}
  /\ app' = "running"
  /\ UNCHANGED <<agent, todo, marked, active, blocks, tracking, dirty, res, hw,
                 inflight, mem, scan, image, written, disturbed>>

RoundEnd ==
  /\ agent = "finished" /\ app = "running"
  /\ agent' = "idle"
  /\ UNCHANGED <<todo, marked, active, blocks, tracking, dirty, res, hw,
                 inflight, mem, app, scan, image, written, disturbed>>

-----------------------------------------------------------------------------
Agent ==
  \/ PrepareStart \/ PrepareDone \/ PrepareFail
  \/ \E b \in Blocks : PrepareMark(b) \/ PrepareRevoke(b)
  \/ \E p \in Pages : Pass1(p) \/ Pass2(p)
  \/ ReadFail \/ BaseDone \/ DeltaDone
  \/ FinalizeStart \/ FinalizeDone
  \/ \E b \in Blocks : FinalizeBlock(b) \/ FinalizeSkip(b)
  \/ Resume \/ RoundEnd

Application ==
  \/ \E p \in Pages, v \in Values : GpuWrite(p, v) \/ HostWrite(p, v)
  \/ \E p \in Pages : GpuFault(p)
  \/ \E b \in Blocks : Evict(b) \/ RevokeLands(b)
  \/ AtBoundary

Next == Agent \/ Application

Spec == Init /\ [][Next]_vars

-----------------------------------------------------------------------------
(* Types of the flags the driver keeps and of ckpt_core's progress.        *)
TypeOK ==
  /\ agent \in {"idle", "prepare", "base", "quiesce", "delta", "captured",
                "finalize", "finished", "wedged"}
  /\ app \in {"running", "stopped"}
  /\ todo \subseteq Blocks /\ marked \subseteq Blocks
  /\ active \in BOOLEAN
  /\ blocks \subseteq Blocks /\ tracking \subseteq Blocks /\ dirty \subseteq Blocks
  /\ res \in [Pages -> {"cpu", "gpu", "absent"}]
  /\ hw \subseteq Pages /\ inflight \subseteq Blocks
  /\ mem \in [Pages -> Values] /\ image \in [Pages -> Values]
  /\ scan \in [Pages -> {"todo", "gpu", "done"}]
  /\ written \subseteq Blocks /\ disturbed \subseteq Blocks

(* The image is exact: once the delta has been read and until the          *)
(* application resumes, the base with the delta over it is the memory of   *)
(* the stopped application, in every block no disturbance touched          *)
(* (PREPARE_ALL, the fault handler's recording and the two reads together).*)
CaptureExact ==
  agent \in {"captured", "finalize", "finished"} /\ app = "stopped" =>
    \A p \in Pages : BlockOf[p] \notin disturbed => image[p] = mem[p]

(* Every block written since PREPARE_ALL returned is dirty when the delta  *)
(* is chosen, unless one of the named disturbances hit it (the fault       *)
(* handler records before it maps).                                        *)
WrittenIsDirty ==
  agent \in Tracked => written \ disturbed \subseteq dirty

(* No fault, eviction or read clears a dirty flag between PREPARE_ALL and  *)
(* FINALIZE, so the delta only grows until it is read.                     *)
DirtyIsKept ==
  [][(agent \in Tracked /\ agent' \in Tracked) => (dirty \subseteq dirty')]_vars

(* Why the image is exact, as an inductive invariant.  While blocks are    *)
(* tracked, a page the GPU can write lies in a block that is dirty, or     *)
(* whose revoke is in flight, or that was disturbed; so a page whose block *)
(* is neither dirty nor disturbed still holds what the base read copied.   *)
Structure ==
  /\ tracking \subseteq blocks /\ dirty \subseteq blocks
  /\ todo \subseteq blocks /\ marked \subseteq blocks
  /\ agent # "prepare" => marked = {}
  /\ \A b, c \in marked : b = c
  /\ agent \notin {"prepare", "finalize"} => todo = {}
  /\ agent \in {"delta", "wedged"} => app = "stopped"
  /\ agent \in {"idle", "prepare", "base", "quiesce"} => app = "running"
  /\ \A p \in Pages :
       /\ p \in hw => res[p] = "gpu"
       /\ res[p] # "absent" => BlockOf[p] \in blocks
       /\ res[p] = "absent" => mem[p] = Zero

PrepareInv ==
  agent = "prepare" =>
    /\ written = {} /\ disturbed = {}
    /\ blocks \ todo \subseteq tracking
    /\ \A p \in hw : BlockOf[p] \in todo \cup marked \cup inflight

TrackedInv ==
  agent \in Tracked =>
    /\ blocks \subseteq tracking \cup disturbed
    /\ active \/ Blocks \ blocks \subseteq disturbed
    /\ written \subseteq dirty \cup disturbed
    /\ \A p \in hw : BlockOf[p] \in dirty \cup inflight \cup disturbed

(* The pages that the delta will not replace.                              *)
KeepsBase(p) == BlockOf[p] \notin dirty \/ res[p] = "absent"

ReadInv ==
  \A p \in Pages : BlockOf[p] \notin disturbed =>
    /\ (agent = "base" /\ KeepsBase(p) /\ scan[p] = "done") => image[p] = mem[p]
    /\ (agent = "base" /\ KeepsBase(p) /\ scan[p] = "gpu") => res[p] = "gpu"
    /\ (agent \in {"quiesce", "delta"} /\ KeepsBase(p)) => image[p] = mem[p]
    /\ (agent = "delta" /\ scan[p] = "done") => image[p] = mem[p]
    /\ (agent = "delta" /\ scan[p] = "gpu") => res[p] = "gpu"

TrackingInv ==
  TypeOK /\ Structure /\ PrepareInv /\ TrackedInv /\ ReadInv /\ CaptureExact

SnapBar == IF agent \in {"captured", "finalize", "finished"} THEN image ELSE NoSnap

Lost == {p \in Pages : BlockOf[p] \in disturbed}

Abs == INSTANCE Snapshot WITH snap <- SnapBar, lost <- Lost

(* The round implements the abstract snapshot: what the base and the delta *)
(* rebuild from the moment the delta is read is one atomic copy of memory, *)
(* but for the blocks a disturbance hit until then, and it stays           *)
(* so after the application has resumed and until the round ends.          *)
AbsSpec == Abs!Spec

=============================================================================
