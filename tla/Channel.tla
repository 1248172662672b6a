------------------------------ MODULE Channel ------------------------------
(***************************************************************************)
(* Pushes to the GPU: reservation of a channel, the GPFIFO ring of every   *)
(* channel, the tracking semaphore that tells which entries completed, and *)
(* with Confidential Computing the launch of a CE push through a WLC       *)
(* channel, the rotation of IVs and of the key of a pool.                  *)
(*                                                                         *)
(* There is one CE pool and one WLC pool.  The LCIC channel paired with    *)
(* WLC channel w is lcic[w].  `ent` is the driver's own record of a ring:  *)
(* an entry remembers the key version under which its push was encrypted,  *)
(* and whether the GPU ran it.  What the GPU reads is `mem`, the ring in   *)
(* GPU memory: the driver writes it itself without Confidential Computing, *)
(* and with it only the launch that runs on a WLC channel does.            *)
(***************************************************************************)
EXTENDS Integers, FiniteSets, FiniteSetsExt

CONSTANTS Threads,
          Ce, Wlc,      \* channels of the CE pool and of the WLC pool (numbers)
          NumGpfifo,    \* GPFIFO entries of a CE channel
          WlcGpfifo,    \* GPFIFO entries of a WLC channel
          MaxComplete,  \* entries one uvm_channel_update_progress completes
          IvMin, IvLimit, IvFull, \* messages left: lower bound, rotation limit, after rotation
          Asked,        \* pools for which RM has set the key rotation notifier
          CtrlOn,       \* channels control entries are written to
          Failing,      \* channels that may fail
          MaxOps        \* bound on operations
ASSUME ChannelAssumption ==
  /\ Ce \cap Wlc = {} /\ Ce # {} /\ Ce \cup Wlc \subseteq Nat \ {0}
  /\ NumGpfifo \in Nat /\ NumGpfifo >= 3 /\ WlcGpfifo \in Nat /\ WlcGpfifo >= 4 /\ WlcGpfifo % 2 = 0
  /\ Asked \subseteq {"CE", "WLC"} /\ CtrlOn \subseteq Ce /\ Failing \subseteq Ce \cup Wlc
  /\ MaxComplete \in Nat \ {0} /\ MaxOps \in Nat
  /\ IvMin \in Nat /\ IvMin >= 2 /\ IvLimit >= IvMin /\ IvFull > IvLimit

VARIABLES cc,     \* g_uvm_global.conf_computing_enabled
          ch,     \* cpu_put, gpu_get, current_gpfifo_count, queued_value, gpu_put
          ent,    \* gpfifo_entries, the driver's record
          mem,    \* the GPFIFO of each CE channel in GPU memory
          slot,   \* IV slots of the tracking semaphore: the value each decrypts
          locks,  \* push_locks of both pools
          sem,    \* push_sem of each pool
          key,    \* key rotation of each pool: mutex, version, pending
          plock,  \* holder of the pool lock
          iv,     \* messages left to each channel before its IV wraps
          lcic,   \* LCIC: queued_value, completed value, messages left, kicked
          skipped, \* channels a control entry of which was never submitted
          hw,     \* the GPU's GET, PUT and semaphore of each channel
          job,    \* the encrypted launch in the static buffer of each WLC
          err, fatal, \* channels with an error; the global fatal error
          th, ops
vars == <<cc, ch, ent, mem, slot, locks, sem, key, plock, iv, lcic, skipped, hw, job, err, fatal, th, ops>>

Chan == Ce \cup Wlc
None == 0
Pools == {"CE", "WLC"}
Pool(c) == IF c \in Ce THEN "CE" ELSE "WLC"
Members(p) == IF p = "CE" THEN Ce ELSE Wlc
Idle == [pc |-> "idle", op |-> "none", pool |-> "CE", c |-> None, w |-> None, n |-> 0, todo |-> {}, v |-> 0]
NoEntry == [kind |-> "none", val |-> 0, ver |-> 0, run |-> TRUE]
\* what a slot of the GPFIFO in GPU memory says of an entry
Image(e) == [kind |-> e.kind, val |-> e.val]
NoJob == [c |-> None, at |-> 0, e |-> Image(NoEntry), put |-> 0, ver |-> 0, val |-> 0]

\* channel_pool_num_gpfifo_entries
Size(c) == IF c \in Ce THEN NumGpfifo ELSE WlcGpfifo
LcicGpfifo == 4

\* After initialisation: every channel has run one control entry and one push;
\* the schedule of a WLC channel is primed (PUT two ahead of GET) and all but
\* one of its entries are blocked
Init ==
  /\ cc \in BOOLEAN
  /\ ch = [c \in Chan |-> [put |-> 2, get |-> 2, queued |-> 1, gpput |-> 2,
                           count |-> IF c \in Ce THEN 0 ELSE WlcGpfifo - 2]]
  /\ ent = [c \in Chan |-> [i \in 0..(Size(c) - 1) |-> NoEntry]]
  /\ mem = [c \in Ce |-> [i \in 0..(Size(c) - 1) |-> Image(NoEntry)]]
  /\ slot = [c \in Chan |-> [i \in 0..(Size(c) - 1) |-> IF i = 1 THEN 1 ELSE 0]]
  /\ locks = {}
  /\ sem = [p \in Pools |-> Cardinality(Members(p))]
  /\ key = [p \in Pools |-> [mutex |-> "none", ver |-> 0, pending |-> cc /\ p \in Asked]]
  /\ plock = [p \in Pools |-> "none"]
  /\ iv = [c \in Chan |-> IvFull]
  /\ lcic = [w \in Wlc |-> [queued |-> 1, sem |-> 1, left |-> IvFull, kicked |-> FALSE,
                           ivs |-> [i \in 0..(LcicGpfifo - 1) |-> IF i = 1 THEN 1 ELSE 0]]]
  /\ skipped = {}
  /\ hw = [c \in Chan |-> [get |-> 2, put |-> IF c \in Ce THEN 2 ELSE 4 % WlcGpfifo, sem |-> 1]]
  /\ job = [w \in Wlc |-> NoJob]
  /\ err = {} /\ fatal = FALSE
  /\ th = [t \in Threads |-> Idle] /\ ops = 0

(***************************************************************************)
(* The ring of a channel.                                                  *)
(***************************************************************************)
Pending(c) == (ch[c].put - ch[c].get) % Size(c)

channel_get_available_gpfifo_entries(c) == Size(c) - 1 - ch[c].count - Pending(c)
(* Mutant: no entry is kept free, so a full ring looks empty.              *)
try_claim_channelFull(c, n) == channel_get_available_gpfifo_entries(c) + 1 >= n

try_claim_channel(c, n) == channel_get_available_gpfifo_entries(c) >= n

\* entries update_progress_with_max completes: those the semaphore has
\* reached, in ring order, and not more than the maximum
CompletedUpTo(c, most) ==
  Max({k \in 0..Min({Pending(c), most}) :
         \A i \in 0..(k - 1) : ent[c][(ch[c].get + i) % Size(c)].val <= hw[c].sem})
Completed(c) == CompletedUpTo(c, MaxComplete)
update_progress(c) == [ch EXCEPT ![c].get = (@ + Completed(c)) % Size(c)]
Drained(c) == Pending(c) = Completed(c)

\* uvm_gpu_tracking_semaphore_is_completed of the LCIC channel
LcicIdle(w) == lcic[w].sem = lcic[w].queued

Go(t, r) == th' = [th EXCEPT ![t] = r]
Free(p) == plock[p] = "none"

(***************************************************************************)
(* Reservation.  In Confidential Computing a push first settles a pending  *)
(* key rotation of the pool, then takes a unit of push_sem, then locks a   *)
(* channel; without it a channel is shared by its pushes.                  *)
(***************************************************************************)
\* a push on any channel of the pool, or a control entry on a given one
Start(t, op, c) ==
  /\ th[t].pc = "idle" /\ ops < MaxOps /\ ops' = ops + 1
  /\ Go(t, [Idle EXCEPT !.op = op, !.c = c, !.n = IF op = "ctrl" THEN 2 ELSE 1,
                        !.todo = IF op = "wait" THEN Chan ELSE {},
                        !.pc = IF op = "wait" THEN "idling" ELSE IF cc THEN "rotate" ELSE "claim"])
  /\ UNCHANGED <<cc, ch, ent, mem, skipped, slot, locks, sem, key, plock, iv, lcic, hw, job, err, fatal>>

\* channel_pool_rotate_key_if_pending takes the mutex even to learn that
\* nothing is pending
channel_pool_rotate_key_if_pending(t) ==
  LET p == th[t].pool
  IN /\ th[t].pc = "rotate" /\ key[p].mutex = "none"
     /\ IF key[p].pending
        THEN /\ key' = [key EXCEPT ![p].mutex = t]
             /\ Go(t, [th[t] EXCEPT !.pc = "down", !.todo = Members(p)])
        ELSE Go(t, [th[t] EXCEPT !.pc = "sem"]) /\ UNCHANGED key
     /\ UNCHANGED <<cc, ch, ent, mem, skipped, slot, locks, sem, plock, iv, lcic, hw, job, err, fatal, ops>>
\* one uvm_down for every channel of the pool
channel_pool_reserve_all_channels(t) ==
  LET p == th[t].pool
      c == Min(th[t].todo)
  IN /\ th[t].pc = "down" /\ sem[p] > 0
     /\ sem' = [sem EXCEPT ![p] = @ - 1]
     /\ Go(t, IF th[t].todo = {c} THEN [th[t] EXCEPT !.pc = "drain", !.todo = Members(p)]
              ELSE [th[t] EXCEPT !.todo = @ \ {c}])
     /\ UNCHANGED <<cc, ch, ent, mem, skipped, slot, locks, key, plock, iv, lcic, hw, job, err, fatal, ops>>

\* uvm_channel_wait of a CE channel: the progress of one poll, and how it ends
Poll(c) == Free(Pool(c)) /\ ch' = update_progress(c)
(* Mutant: the poll's result is ignored.                                   *)
WaitOkEarly(c) == ~fatal /\ c \notin err

WaitOk(c) == Drained(c) /\ ~fatal /\ c \notin err
WaitFails(c) == fatal \/ c \in err
\* uvm_channel_check_errors makes a channel error a global one; looking for
\* the entry to blame, it completes all that the semaphore has reached
NoteError(c) == fatal' = (fatal \/ c \in err)
Settled(c) ==
  IF c \in err THEN [ch EXCEPT ![c].get = (@ + CompletedUpTo(c, Size(c))) % Size(c)] ELSE ch
\* a reservation in the CE pool just fails; one in the WLC pool fails a push
\* that holds a CE channel
Failed(t) == IF th[t].pool = "CE" THEN Idle ELSE [th[t] EXCEPT !.pc = "fail"]
(* Mutant: after a rotation one unit of the semaphore is not given back.   *)
EndRotationShort(t, next) ==
  LET p == th[t].pool
  IN /\ sem' = [sem EXCEPT ![p] = @ + Cardinality(Members(p)) - 1]
     /\ Go(t, next)

EndRotation(t, next) ==
  LET p == th[t].pool
  IN /\ sem' = [sem EXCEPT ![p] = @ + Cardinality(Members(p))]
     /\ Go(t, next)

\* every channel is waited for; a WLC channel through its LCIC
channel_pool_rotate_key_locked(t) ==
  LET p == th[t].pool
      c == Min(th[t].todo)
      next == [th[t] EXCEPT !.todo = @ \ {c}]
  IN /\ th[t].pc = "drain" /\ th[t].todo # {}
     /\ \/ /\ IF p = "CE" THEN WaitOk(c) /\ Poll(c) ELSE LcicIdle(c) /\ ~WaitFails(c) /\ UNCHANGED ch
           /\ Go(t, next) /\ UNCHANGED <<sem, key, fatal>>
        \/ /\ p = "CE" /\ ~Drained(c) /\ ~WaitFails(c) /\ Completed(c) > 0 /\ Poll(c)
           /\ UNCHANGED <<th, sem, key, fatal>>
        \/ /\ WaitFails(c) /\ NoteError(c) /\ IF p = "CE" THEN Free(p) /\ ch' = Settled(c) ELSE UNCHANGED ch
           /\ EndRotation(t, Failed(t)) /\ key' = [key EXCEPT ![p].mutex = "none"]
     /\ UNCHANGED <<cc, ent, mem, skipped, slot, locks, plock, iv, lcic, hw, job, err, ops>>

\* RM rotates the key, or is busy and the rotation stays pending, or fails:
\* then the reservation fails, and no channel has an error
uvm_conf_computing_rotate_pool_key(t) ==
  LET p == th[t].pool
  IN /\ th[t].pc = "drain" /\ th[t].todo = {}
     /\ \/ /\ key' = [key EXCEPT ![p] = [mutex |-> "none", ver |-> @.ver + 1, pending |-> FALSE]]
           /\ EndRotation(t, [th[t] EXCEPT !.pc = "sem"])
        \/ /\ key' = [key EXCEPT ![p].mutex = "none"]
           /\ EndRotation(t, [th[t] EXCEPT !.pc = "sem"]) \/ EndRotation(t, Failed(t))
     /\ UNCHANGED <<cc, ch, ent, mem, skipped, slot, locks, plock, iv, lcic, hw, job, err, fatal, ops>>

down_push_sem(t) ==
  LET p == th[t].pool
  IN /\ th[t].pc = "sem" /\ sem[p] > 0 /\ sem' = [sem EXCEPT ![p] = @ - 1]
     /\ Go(t, [th[t] EXCEPT !.pc = "claim"])
     /\ UNCHANGED <<cc, ch, ent, mem, skipped, slot, locks, key, plock, iv, lcic, hw, job, err, fatal, ops>>

\* channels the reservation may use: any of the pool, or the given one
Targets(t) == IF th[t].pool = "CE" /\ th[t].op = "ctrl" THEN {th[t].c} ELSE Members(th[t].pool)
Need(t) == IF th[t].pool = "CE" THEN th[t].n ELSE 1
Claimed(t, c) ==
  IF th[t].pool = "WLC" THEN [th[t] EXCEPT !.w = c, !.pc = "launchiv"]
  ELSE [th[t] EXCEPT !.c = c, !.pc = IF cc THEN "iv" ELSE IF th[t].op = "ctrl" THEN "ctrl" ELSE "begin"]
Take(t, c, chn) ==
  /\ ch' = [chn EXCEPT ![c].count = @ + Need(t)]
  /\ locks' = IF cc THEN locks \cup {c} ELSE locks
  /\ Go(t, Claimed(t, c))

\* the first pass: the first channel that is not locked and has room
channel_reserve_in_pool(t) ==
  LET able == {c \in Targets(t) : c \notin locks /\ try_claim_channel(c, Need(t))}
  IN /\ th[t].pc = "claim" /\ Free(th[t].pool)
     /\ IF able # {} THEN Take(t, Min(able), ch)
        ELSE Go(t, [th[t] EXCEPT !.pc = "spin"]) /\ UNCHANGED <<ch, locks>>
     /\ UNCHANGED <<cc, ent, mem, skipped, slot, sem, key, plock, iv, lcic, hw, job, err, fatal, ops>>

\* then, channel by channel: update, try again, check errors
channel_reserve_spin(t, c) ==
  /\ th[t].pc = "spin" /\ c \in Targets(t) /\ Free(th[t].pool)
  /\ LET chn == update_progress(c)
         room == channel_get_available_gpfifo_entries(c) + Completed(c) >= Need(t)
     IN \/ /\ c \notin locks /\ room /\ Take(t, c, chn)
           /\ UNCHANGED <<sem, fatal>>
        \/ /\ ~(c \notin locks /\ room) /\ ch' = IF c \in err THEN Settled(c) ELSE chn
           /\ IF c \in err THEN /\ sem' = IF cc THEN [sem EXCEPT ![th[t].pool] = @ + 1] ELSE sem
                                /\ Go(t, Failed(t))
              ELSE UNCHANGED <<sem, th>>
           /\ NoteError(c) /\ UNCHANGED locks
        \* without Confidential Computing the reservation of a given channel
        \* claims once more before it looks at the error, and keeps the claim
        \/ /\ ~cc /\ th[t].op = "ctrl" /\ room /\ c \in err /\ fatal' = TRUE
           /\ ch' = [Settled(c) EXCEPT ![c].count = @ + Need(t)]
           /\ Go(t, Idle) /\ UNCHANGED <<locks, sem>>
  /\ UNCHANGED <<cc, ent, mem, skipped, slot, key, plock, iv, lcic, hw, job, err, ops>>

(***************************************************************************)
(* IV rotation, then the launch channel, then the push itself.             *)
(***************************************************************************)
AfterIv(t) ==
  CASE th[t].pc = "iv" -> IF th[t].op = "ctrl" THEN [th[t] EXCEPT !.pc = "ctrl"]
                          ELSE [th[t] EXCEPT !.pool = "WLC", !.pc = "rotate"]
    [] th[t].pc = "launchiv" -> [th[t] EXCEPT !.pc = IF th[t].op = "ctrl" THEN "launch" ELSE "lciciv"]
    [] th[t].pc = "lciciv" -> [th[t] EXCEPT !.pc = "begin"]

\* uvm_conf_computing_rotate_channel_ivs_below_limit: below the limit the
\* channel is waited for and RM rotates its IV.  RM may be busy: the push goes
\* on unless too few messages are left, a control entry tries again.  RM may
\* also fail, and so does the push
maybe_rotate_channel_ivs(t) ==
  LET k == th[t].pc
      c == IF k = "iv" THEN th[t].c ELSE th[t].w
      left == IF k = "lciciv" THEN lcic[c].left ELSE iv[c]
      idle == IF k = "lciciv" THEN LcicIdle(c) ELSE Drained(c) /\ Free(Pool(c))
  IN /\ k \in {"iv", "launchiv", "lciciv"}
     /\ \/ left > IvLimit /\ Go(t, AfterIv(t)) /\ UNCHANGED <<ch, iv, lcic, fatal>>
        \/ /\ left <= IvLimit /\ WaitFails(c) /\ NoteError(c)
           /\ IF k = "lciciv" THEN UNCHANGED ch ELSE Free(Pool(c)) /\ ch' = Settled(c)
           /\ Go(t, [th[t] EXCEPT !.pc = "fail"]) /\ UNCHANGED <<iv, lcic>>
        \/ /\ left <= IvLimit /\ ~WaitFails(c) /\ k # "lciciv" /\ ~Drained(c) /\ Poll(c)
           /\ UNCHANGED <<iv, lcic, fatal, th>>
        \/ /\ left <= IvLimit /\ ~WaitFails(c) /\ idle
           /\ ch' = IF k = "lciciv" THEN ch ELSE update_progress(c)
           /\ \/ /\ IF k = "lciciv" THEN lcic' = [lcic EXCEPT ![c].left = IvFull] /\ UNCHANGED iv
                   ELSE iv' = [iv EXCEPT ![c] = IvFull] /\ UNCHANGED lcic
                 /\ Go(t, AfterIv(t))
              \/ /\ Go(t, IF left < IvMin THEN [th[t] EXCEPT !.pc = "fail"]
                          ELSE IF k = "iv" /\ th[t].op = "ctrl" THEN th[t]
                          ELSE AfterIv(t))
                 /\ UNCHANGED <<iv, lcic>>
              \/ Go(t, [th[t] EXCEPT !.pc = "fail"]) /\ UNCHANGED <<iv, lcic>>
           /\ UNCHANGED fatal
     /\ UNCHANGED <<cc, ent, mem, skipped, slot, locks, sem, key, plock, hw, job, err, ops>>

\* uvm_channel_release of what a failed push holds; a control entry whose
\* submission failed, and of which the GPU knows nothing then, is followed by
\* its push all the same
uvm_channel_release(t) ==
  LET r == th[t]
      goOn == r.op = "ctrl" /\ r.pool = "WLC"
      rel == (IF goOn THEN {} ELSE {r.c}) \cup (IF r.w = None THEN {} ELSE {r.w})
  IN /\ r.pc = "fail" /\ \A c \in rel : Free(Pool(c))
     /\ ch' = [c \in Chan |-> IF c \in rel THEN [ch[c] EXCEPT !.count = @ - IF c = r.c THEN r.n ELSE 1]
                              ELSE ch[c]]
     /\ locks' = locks \ rel
     /\ sem' = [p \in Pools |-> sem[p] + Cardinality(rel \cap Members(p))]
     /\ Go(t, IF goOn THEN [r EXCEPT !.op = "push", !.pool = "CE", !.w = None, !.pc = "iv"] ELSE Idle)
     /\ skipped' = IF goOn THEN skipped \cup {r.c} ELSE skipped
     /\ UNCHANGED <<cc, ent, mem, slot, key, plock, iv, lcic, hw, job, err, fatal, ops>>

\* uvm_pushbuffer_begin_push fails after a fatal error; the launch channel
\* that was reserved before it is then not released
uvm_channel_begin_push(t) ==
  LET c == th[t].c
  IN /\ th[t].pc = "begin"
     /\ \/ Go(t, [th[t] EXCEPT !.pc = "body", !.pool = "CE"])
        \/ fatal /\ Go(t, [th[t] EXCEPT !.pc = IF cc THEN "fail" ELSE "idle", !.pool = "CE", !.w = None])
     /\ ch' = IF ~cc /\ th'[t].pc = "idle" THEN [ch EXCEPT ![c].count = @ - th[t].n] ELSE ch
     /\ UNCHANGED <<cc, ent, mem, skipped, slot, locks, sem, key, plock, iv, lcic, hw, job, err, fatal, ops>>

(***************************************************************************)
(* The end of a push.                                                      *)
(***************************************************************************)
Next1(c) == (ch[c].put + 1) % Size(c)
Entry(kind, c) == [kind |-> kind, val |-> ch[c].queued + 1, ver |-> key[Pool(c)].ver, run |-> FALSE]
Prev1(c) == (ch[c].put - 1) % Size(c)
(* Mutant: one slot too few for the IVs.                                   *)
IvIndexShort(c, v) == v % (Size(c) - 1)

\* iv_index: a notifier counts two for every value
IvIndex(c, v) == v % Size(c)

\* ++queued_value, the entry at cpu_put, and the IV slot of the value released
Queue(c) ==
  /\ ent' = [ent EXCEPT ![c][ch[c].put] = Entry("normal", c)]
  /\ slot' = IF cc THEN [slot EXCEPT ![c][IvIndex(c, ch[c].queued + 1)] = ch[c].queued + 1] ELSE slot

\* without Confidential Computing the push is submitted under the pool lock
internal_channel_submit_work(t) ==
  LET c == th[t].c
  IN /\ th[t].pc = "body" /\ ~cc /\ Free("CE")
     /\ Queue(c)
     /\ ch' = [ch EXCEPT ![c].queued = @ + 1, ![c].count = @ - 1, ![c].put = Next1(c)]
     /\ mem' = [mem EXCEPT ![c][ch[c].put] = Image(Entry("normal", c))]
     /\ hw' = [hw EXCEPT ![c].put = Next1(c)]
     /\ Go(t, Idle)
     /\ UNCHANGED <<cc, skipped, locks, sem, key, plock, iv, lcic, job, err, fatal, ops>>

\* with it, uvm_channel_end_push keeps the pool lock while the push is launched;
\* its messages: the semaphore payload and, for some pushes, the push itself
uvm_channel_end_push(t) ==
  LET c == th[t].c
  IN /\ th[t].pc = "body" /\ cc /\ Free("CE")
     /\ plock' = [plock EXCEPT !["CE"] = t]
     /\ Queue(c)
     /\ ch' = [ch EXCEPT ![c].queued = @ + 1, ![c].count = @ - 1]
     /\ \E used \in 1..2 : iv' = [iv EXCEPT ![c] = @ - used]
     /\ Go(t, [th[t] EXCEPT !.pc = "launch", !.n = @ - 1])
     /\ UNCHANGED <<cc, mem, skipped, locks, sem, key, lcic, hw, job, err, fatal, ops>>

\* the launch push on the reserved WLC channel: it may rotate the IV once more,
\* takes an IV for the launch and encrypts the CE push
internal_channel_submit_work_indirect_wlc(t) ==
  LET w == th[t].w
  IN /\ th[t].pc = "launch" /\ Free("WLC")
     /\ plock' = [plock EXCEPT !["WLC"] = t]
     /\ \E left \in IF iv[w] <= IvLimit THEN {iv[w], IvFull} ELSE {iv[w]} : iv' = [iv EXCEPT ![w] = left - 2]
     /\ Queue(w)
     /\ ch' = [update_progress(w) EXCEPT ![w].queued = @ + 1, ![w].count = @ - 1]
     /\ Go(t, [th[t] EXCEPT !.pc = "primed", !.v = ch[w].queued + 1])
     /\ UNCHANGED <<cc, mem, skipped, locks, sem, key, lcic, hw, job, err, fatal, ops>>

\* internal_channel_submit_work_wlc: once LCIC has primed the schedule, write
\* the encrypted launch and ring the doorbell; after a fatal error, do not.
\* The launch will write the entry into the GPFIFO and move PUT.  Either way
\* the WLC channel and its pool are released
internal_channel_submit_work_wlc(t) ==
  LET w == th[t].w
      c == th[t].c
      wait == LcicIdle(w) /\ ~WaitFails(w)
  IN /\ th[t].pc = "primed" /\ (wait \/ WaitFails(w))
     /\ IF wait
        THEN /\ LET v == lcic[w].queued + 1
                IN lcic' = [lcic EXCEPT ![w].queued = v, ![w].left = Max({0, @ - 1}),
                                        ![w].ivs[v % LcicGpfifo] = v]
             /\ LET at == IF th[t].op = "ctrl" THEN Prev1(c) ELSE ch[c].put
                IN job' = [job EXCEPT ![w] = [c |-> c, at |-> at, e |-> Image(ent[c][at]),
                                              put |-> (at + 1) % Size(c),
                                              ver |-> key["WLC"].ver, val |-> th[t].v]]
        ELSE UNCHANGED <<lcic, job>>
     /\ NoteError(w)
     /\ ch' = [ch EXCEPT ![w].put = Next1(w)]
     /\ locks' = locks \ {w} /\ sem' = [sem EXCEPT !["WLC"] = @ + 1]
     /\ plock' = [plock EXCEPT !["WLC"] = "none"]
     /\ Go(t, [th[t] EXCEPT !.pc = "wlcwait"])
     /\ UNCHANGED <<cc, ent, mem, skipped, slot, key, iv, hw, err, ops>>

\* the launch is waited for.  For a push the status is ignored: gpu_put moves,
\* and the CE channel and its pool are released.  The submission of a control
\* entry returns an error without moving gpu_put, and its push follows
push_end_and_wait(t) ==
  LET c == th[t].c
      w == th[t].w
      done == hw[w].sem >= th[t].v
      chw == IF done THEN ch ELSE Settled(w)
  IN /\ th[t].pc = "wlcwait"
     /\ IF done THEN UNCHANGED fatal ELSE WaitFails(w) /\ Free("WLC") /\ NoteError(w)
     /\ IF th[t].op = "ctrl"
        THEN /\ ch' = IF done THEN [ch EXCEPT ![c].gpput = ch[c].put] ELSE chw
             /\ skipped' = IF done THEN skipped ELSE skipped \cup {c}
             /\ Go(t, [th[t] EXCEPT !.op = "push", !.pool = "CE", !.w = None, !.pc = "iv"])
             /\ UNCHANGED <<locks, sem, plock>>
        ELSE /\ ch' = [chw EXCEPT ![c].gpput = Next1(c), ![c].put = Next1(c)]
             /\ locks' = locks \ {c} /\ sem' = [sem EXCEPT !["CE"] = @ + 1]
             /\ plock' = [plock EXCEPT !["CE"] = "none"]
             /\ Go(t, Idle) /\ UNCHANGED skipped
     /\ UNCHANGED <<cc, ent, mem, slot, key, iv, lcic, hw, job, err, ops>>

\* write_ctrl_gpfifo: the entry counts as complete with the next value queued.
\* With Confidential Computing only the driver's record is written here
write_ctrl_gpfifo(t) ==
  LET c == th[t].c
  IN /\ th[t].pc = "ctrl" /\ Free("CE")
     /\ ent' = [ent EXCEPT ![c][ch[c].put] = Entry("ctrl", c)]
     /\ ch' = [ch EXCEPT ![c].count = @ - 1, ![c].put = Next1(c)]
     /\ IF cc THEN UNCHANGED <<mem, hw>>
        ELSE /\ mem' = [mem EXCEPT ![c][ch[c].put] = Image(Entry("ctrl", c))]
             /\ hw' = [hw EXCEPT ![c].put = Next1(c)]
     /\ Go(t, IF cc THEN [th[t] EXCEPT !.n = 1, !.pool = "WLC", !.pc = "putwait"]
              ELSE [th[t] EXCEPT !.n = 1, !.op = "push", !.pc = "begin"])
     /\ UNCHANGED <<cc, skipped, slot, locks, sem, key, plock, iv, lcic, job, err, fatal, ops>>

\* the submission of the control entry first spins until gpu_put has reached it
submit_ctrl_gpfifo_indirect(t) ==
  /\ th[t].pc = "putwait" /\ ch[th[t].c].gpput = Prev1(th[t].c)
  /\ Go(t, [th[t] EXCEPT !.pc = "rotate"])
  /\ UNCHANGED <<cc, ch, ent, mem, skipped, slot, locks, sem, key, plock, iv, lcic, hw, job, err, fatal, ops>>

\* uvm_channel_manager_wait: until nothing is pending, or an error
uvm_channel_manager_wait(t) ==
  LET left == {c \in Chan : ~Drained(c) \/ (c \in Wlc /\ ~LcicIdle(c))}
  IN /\ th[t].pc = "idling"
     /\ \/ \E c \in Chan : Completed(c) > 0 /\ Poll(c) /\ UNCHANGED <<th, fatal>>
        \/ /\ left = {} \/ fatal
           /\ err = {} \/ fatal
           /\ Go(t, Idle) /\ UNCHANGED <<ch, fatal>>
        \/ \E c \in err : /\ ~fatal /\ Free(Pool(c)) /\ NoteError(c) /\ ch' = Settled(c)
                           /\ Go(t, Idle)
     /\ UNCHANGED <<cc, ent, mem, skipped, slot, locks, sem, key, plock, iv, lcic, hw, job, err, ops>>

(***************************************************************************)
(* The GPU and RM.                                                         *)
(***************************************************************************)
\* a CE channel runs the entries its GPFIFO holds between GET and PUT, in
\* order, whatever they are
GpuRun(c) ==
  LET g == hw[c].get
      e == mem[c][g]
  IN /\ c \in Ce /\ c \notin err /\ g # hw[c].put
     /\ ent' = [ent EXCEPT ![c][g].run = @ \/ e = Image(ent[c][g])]
     /\ hw' = [hw EXCEPT ![c].get = (@ + 1) % Size(c), ![c].sem = IF e.kind = "normal" THEN e.val ELSE @]
     /\ UNCHANGED <<cc, ch, mem, skipped, slot, locks, sem, key, plock, iv, lcic, job, err, fatal, th, ops>>

\* WLC: decrypt the launch, which writes the entry into the GPFIFO of the CE
\* channel and moves its PUT, release the semaphore, kick LCIC
GpuWlc(w) ==
  LET j == job[w]
  IN /\ j # NoJob /\ w \notin err
     /\ ent' = [ent EXCEPT ![w] = [i \in DOMAIN @ |-> IF @[i].val = j.val THEN [@[i] EXCEPT !.run = TRUE] ELSE @[i]]]
     /\ mem' = [mem EXCEPT ![j.c][j.at] = j.e]
     /\ hw' = [hw EXCEPT ![j.c].put = j.put, ![w].sem = j.val, ![w].get = (@ + 2) % Size(w)]
     /\ lcic' = [lcic EXCEPT ![w].kicked = TRUE]
     /\ job' = [job EXCEPT ![w] = NoJob]
     /\ UNCHANGED <<cc, ch, skipped, slot, locks, sem, key, plock, iv, err, fatal, th, ops>>
(* Mutant: the schedule of the WLC channel is primed with one entry.       *)
GpuLcicOne(w) ==
  /\ lcic[w].kicked /\ w \notin err
  /\ lcic' = [lcic EXCEPT ![w].kicked = FALSE, ![w].sem = @ + 1]
  /\ hw' = [hw EXCEPT ![w].put = (@ + 1) % Size(w)]
  /\ UNCHANGED <<cc, ch, ent, mem, skipped, slot, locks, sem, key, plock, iv, job, err, fatal, th, ops>>

\* LCIC: advance the PUT of its WLC by two, release its own semaphore
GpuLcic(w) ==
  /\ lcic[w].kicked /\ w \notin err
  /\ lcic' = [lcic EXCEPT ![w].kicked = FALSE, ![w].sem = @ + 1]
  /\ hw' = [hw EXCEPT ![w].put = (@ + 2) % Size(w)]
  /\ UNCHANGED <<cc, ch, ent, mem, skipped, slot, locks, sem, key, plock, iv, job, err, fatal, th, ops>>

\* the error notifier of a channel is set, at most once in a behaviour
GpuError(c) ==
  /\ c \in Failing /\ err = {} /\ (c \in Ce \/ cc) /\ err' = {c}
  /\ UNCHANGED <<cc, ch, ent, mem, skipped, slot, locks, sem, key, plock, iv, lcic, hw, job, fatal, th, ops>>

ThreadStep(t) ==
  \/ channel_pool_rotate_key_if_pending(t) \/ channel_pool_reserve_all_channels(t)
  \/ channel_pool_rotate_key_locked(t) \/ uvm_conf_computing_rotate_pool_key(t)
  \/ down_push_sem(t) \/ channel_reserve_in_pool(t) \/ \E c \in Chan : channel_reserve_spin(t, c)
  \/ maybe_rotate_channel_ivs(t) \/ uvm_channel_release(t) \/ uvm_channel_begin_push(t)
  \/ internal_channel_submit_work(t) \/ uvm_channel_end_push(t)
  \/ internal_channel_submit_work_indirect_wlc(t) \/ internal_channel_submit_work_wlc(t)
  \/ push_end_and_wait(t) \/ write_ctrl_gpfifo(t) \/ submit_ctrl_gpfifo_indirect(t) \/ uvm_channel_manager_wait(t)

Next ==
  \/ \E t \in Threads : \/ Start(t, "push", None) \/ \E c \in CtrlOn : Start(t, "ctrl", c)
                         \/ Start(t, "wait", None) \/ ThreadStep(t)
  \/ \E c \in Chan : GpuRun(c) \/ GpuError(c)
  \/ \E w \in Wlc : GpuWlc(w) \/ GpuLcic(w)

Spec == Init /\ [][Next]_vars
(***************************************************************************)
(* Properties.                                                             *)
(***************************************************************************)
Reserving == {"rotate", "down", "drain", "sem", "claim", "spin"}
HoldsCe(t, c) == th[t].c = c /\ ~(th[t].pool = "CE" /\ th[t].pc \in Reserving)
HoldsWlc(t, w) == th[t].w = w /\ th[t].pc # "wlcwait"

\* Entries claimed and entries pending never reach the sentinel, and as long
\* as no channel failed the claims are exactly those of the pushes under way.
ClaimsAccounted ==
  \A c \in Chan :
    /\ ch[c].count + Pending(c) <= Size(c) - 1
    /\ ~fatal => ch[c].count = IF c \in Ce THEN MapThenSumSet(LAMBDA t : th[t].n, {t \in Threads : HoldsCe(t, c)})
                 ELSE Size(c) - 2 + Cardinality({t \in Threads : HoldsWlc(t, c) /\ th[t].pc # "primed"})

\* A key changes only while its pool is idle: the GPU never runs a push, or
\* decrypts a launch, made under an earlier key.
KeyStable ==
  /\ \A c \in Chan : \A i \in DOMAIN ent[c] :
       ~ent[c][i].run /\ ent[c][i].kind = "normal" => ent[c][i].ver = key[Pool(c)].ver
  /\ \A w \in Wlc : job[w] # NoJob => job[w].ver = key["WLC"].ver

\* gpu_get passes an entry only after the GPU ran it, control entries too,
\* whose completion is read off the push that follows; nothing is overwritten.
CompletedRan ==
  \A c \in Chan \ skipped : \A i \in DOMAIN ent[c] :
    ~ent[c][i].run => \/ (i - ch[c].get) % Size(c) < Pending(c)
                      \/ i = ch[c].put /\ plock[Pool(c)] # "none"

\* The GPU is pointed only at slots of its own memory that hold what the driver
\* queued there and that it has not run yet.
GpuSeesWritten ==
  \A c \in Ce \ skipped : \A k \in 0..(((hw[c].put - hw[c].get) % Size(c)) - 1) :
    LET i == (hw[c].get + k) % Size(c)
    IN mem[c][i] = Image(ent[c][i]) /\ mem[c][i].kind # "none" /\ ~ent[c][i].run

\* When a push is launched, gpu_put is where its entry is: everything before it
\* on the channel was submitted.
InOrder(t) == th[t].pc = "launch" /\ th[t].op = "push" => ch[th[t].c].gpput = ch[th[t].c].put

\* The IV slot of the value the GPU released last still belongs to it, however
\* many pushes were queued since, and so for LCIC.
SlotValid ==
  cc => /\ \A c \in Chan \ skipped : slot[c][IvIndex(c, hw[c].sem)] = hw[c].sem
        /\ \A w \in Wlc : lcic[w].ivs[lcic[w].sem % LcicGpfifo] = lcic[w].sem

\* At rest the PUT of a WLC channel is twice cpu_put and two ahead of its GET,
\* which is what stopping the channel relies on.
WlcAtRest ==
  \A w \in Wlc : LcicIdle(w) /\ err = {} =>
    /\ hw[w].put = (ch[w].put * 2) % Size(w)
    /\ hw[w].get = (ch[w].put * 2 - 2) % Size(w)

\* IVs are rotated early enough that no encryption finds none left.
IvsLeft == \A c \in Chan : iv[c] >= 0

\* A ring never runs over: claims leave the sentinel free, completion stays
\* behind the GPU and the GPU behind what was written to its memory, submission
\* by submission, for shared rings, for control entries and after errors.  A
\* channel on which the submission of a control entry failed is excepted: the
\* push after it moves PUT over a slot nobody wrote.
RingSafe ==
  /\ ClaimsAccounted /\ CompletedRan /\ GpuSeesWritten
  /\ \A t \in Threads : cc /\ th[t].c \notin skipped => InOrder(t)

\* Nothing is encrypted or decrypted with an IV that is gone: the one of the
\* semaphore's value is still there, and none runs out.
IvSafe == SlotValid /\ IvsLeft

\* A control entry at the end of the ring that no push under way will follow.
Unfollowed(c) ==
  /\ Pending(c) > 0 /\ ent[c][(ch[c].put - 1) % Size(c)].kind = "ctrl"
  /\ plock["CE"] = "none" /\ \A t \in Threads : ~HoldsCe(t, c)

\* Operations never wait for each other in a circle: while one is under way,
\* some thread or the GPU can take a step that changes something, with key
\* rotations, busy rotations, full rings and shared channels.  After a fatal
\* error, a failed submission of a control entry or a control entry left alone
\* nothing is claimed.
NobodyStuck ==
  \/ fatal \/ skipped # {} \/ \E c \in Ce : Unfollowed(c)
  \/ \A t \in Threads : th[t].pc = "idle"
  \/ \E w \in Wlc : job[w] # NoJob \/ lcic[w].kicked
  \/ \E c \in Ce : hw[c].get # hw[c].put
  \/ \E t \in Threads : ENABLED <<ThreadStep(t)>>_vars
=============================================================================
