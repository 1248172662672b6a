----------------------- MODULE CapturePipeline_proof -----------------------
(***************************************************************************)
(* Proofs about CapturePipeline, for any number of writers, slots and      *)
(* ranges, any sizes and any set of faults.                                *)
(***************************************************************************)
EXTENDS CapturePipeline, TLAPS

-----------------------------------------------------------------------------
(* Sequences.                                                              *)

(* What the top of the free stack and the rest of it are.                  *)
LEMMA TailFacts ==
  ASSUME NEW S, NEW q \in Seq(S), q # <<>>
  PROVE  /\ Len(q) \in Nat /\ Len(q) > 0 /\ Head(q) = q[1] /\ Head(q) \in S
         /\ Tail(q) \in Seq(S) /\ Len(Tail(q)) = Len(q) - 1
         /\ \A k \in 1..Len(Tail(q)) : Tail(q)[k] = q[k + 1]
  OBVIOUS

(* A slot that is given back goes on top of the stack.                     *)
LEMMA ConsFacts ==
  ASSUME NEW S, NEW q \in Seq(S), NEW e \in S
  PROVE  /\ <<e>> \o q \in Seq(S) /\ Len(<<e>> \o q) = Len(q) + 1
         /\ (<<e>> \o q)[1] = e
         /\ \A k \in 1..Len(q) : (<<e>> \o q)[k + 1] = q[k]
  OBVIOUS

(* The elements that are left when the first one is taken.                 *)
LEMMA HasTail ==
  ASSUME NEW S, NEW q \in Seq(S), q # <<>>,
         \A j, k \in 1..Len(q) : j # k => q[j] # q[k]
  PROVE  /\ \A e : (\E k \in 1..Len(Tail(q)) : Tail(q)[k] = e)
                   <=> (\E k \in 1..Len(q) : q[k] = e) /\ e # Head(q)
         /\ \A j, k \in 1..Len(Tail(q)) : j # k => Tail(q)[j] # Tail(q)[k]
         /\ \E k \in 1..Len(q) : q[k] = Head(q)
<1>1. /\ Len(q) \in Nat /\ Len(q) > 0 /\ Head(q) = q[1] /\ Len(Tail(q)) = Len(q) - 1
      /\ \A k \in 1..Len(Tail(q)) : Tail(q)[k] = q[k + 1]
  BY TailFacts
<1>2. ASSUME NEW e, NEW k \in 1..Len(q), q[k] = e, e # Head(q)
      PROVE  \E n \in 1..Len(Tail(q)) : Tail(q)[n] = e
  <2>1. k - 1 \in 1..Len(Tail(q)) /\ k = (k - 1) + 1 BY <1>1, <1>2
  <2> QED BY <1>1, <1>2, <2>1
<1>3. ASSUME NEW e, NEW k \in 1..Len(Tail(q)), Tail(q)[k] = e
      PROVE  (\E n \in 1..Len(q) : q[n] = e) /\ e # Head(q)
  <2>1. k + 1 \in 1..Len(q) /\ 1 \in 1..Len(q) /\ k + 1 # 1 BY <1>1
  <2> QED BY <1>1, <1>3, <2>1
<1>4. \A j, k \in 1..Len(Tail(q)) : j # k => Tail(q)[j] # Tail(q)[k]
  <2> TAKE j, k \in 1..Len(Tail(q))
  <2> HAVE j # k
  <2>1. j + 1 \in 1..Len(q) /\ k + 1 \in 1..Len(q) /\ j + 1 # k + 1 BY <1>1
  <2> QED BY <1>1, <2>1
<1>5. \E k \in 1..Len(q) : q[k] = Head(q) BY <1>1
<1> QED BY <1>2, <1>3, <1>4, <1>5

(* The elements there are when one is put first.                           *)
LEMMA HasCons ==
  ASSUME NEW S, NEW q \in Seq(S), NEW e \in S, NEW c, c = <<e>> \o q,
         \A j, k \in 1..Len(q) : j # k => q[j] # q[k],
         ~\E k \in 1..Len(q) : q[k] = e
  PROVE  /\ \A f : (\E k \in 1..Len(c) : c[k] = f) <=> (\E k \in 1..Len(q) : q[k] = f) \/ f = e
         /\ \A j, k \in 1..Len(c) : j # k => c[j] # c[k]
<1>1. /\ Len(c) = Len(q) + 1 /\ c[1] = e /\ Len(q) \in Nat
      /\ \A k \in 1..Len(q) : c[k + 1] = q[k]
  BY ConsFacts
<1>2. ASSUME NEW k \in 1..Len(c), k # 1
      PROVE  k - 1 \in 1..Len(q) /\ c[k] = q[k - 1]
  <2>1. k - 1 \in 1..Len(q) /\ k = (k - 1) + 1 BY <1>1, <1>2
  <2> QED BY <1>1, <2>1
<1>3. ASSUME NEW f, NEW k \in 1..Len(q), q[k] = f PROVE \E n \in 1..Len(c) : c[n] = f
  <2>1. k + 1 \in 1..Len(c) BY <1>1
  <2> QED BY <1>1, <1>3, <2>1
<1>4. \E n \in 1..Len(c) : c[n] = e
  <2>1. 1 \in 1..Len(c) BY <1>1
  <2> QED BY <1>1, <2>1
<1>5. ASSUME NEW f, NEW k \in 1..Len(c), c[k] = f
      PROVE  (\E n \in 1..Len(q) : q[n] = f) \/ f = e
  BY <1>1, <1>2, <1>5
<1>6. \A j, k \in 1..Len(c) : j # k => c[j] # c[k]
  <2> TAKE j, k \in 1..Len(c)
  <2> HAVE j # k
  <2>1. CASE j = 1 BY <1>1, <1>2, <2>1
  <2>2. CASE k = 1 BY <1>1, <1>2, <2>2
  <2>3. CASE j # 1 /\ k # 1
    <3>1. j - 1 \in 1..Len(q) /\ k - 1 \in 1..Len(q) /\ j - 1 # k - 1 BY <1>2, <2>3
    <3> QED BY <1>2, <2>3, <3>1
  <2> QED BY <2>1, <2>2, <2>3
<1> QED BY <1>3, <1>4, <1>5, <1>6

-----------------------------------------------------------------------------
(* Frames: what a part of the invariant does not depend on.                *)

LEMMA SlotFrame ==
  ASSUME SlotOwned, UNCHANGED <<free, slot, mslot>>,
         \A r \in Ranges : Held(r)' <=> Held(r)
  PROVE  SlotOwned'
<1>1. \A s : Free(s)' <=> Free(s) BY DEF Free
<1> QED BY <1>1 DEF SlotOwned

LEMMA QueueFrame ==
  ASSUME QueueInv, UNCHANGED <<queue, i, wr>>,
         \A w \in Writers : Busy(w)' => Busy(w)
  PROVE  QueueInv'
<1>1. \A r : Queued(r)' <=> Queued(r) BY DEF Queued
<1> QED BY <1>1 DEF QueueInv

LEMMA LayoutFrame ==
  ASSUME LayoutInv, UNCHANGED <<cur_off, i, off, used>>,
         mpc' \in {"push", "full"} <=> mpc \in {"push", "full"}
  PROVE  LayoutInv'
  BY DEF LayoutInv, Assigned

LEMMA WrittenFrame ==
  ASSUME WrittenInv, UNCHANGED <<buf, slot, i, off, used, file>>,
         \A r \in Ranges : Due(r)' <=> Due(r)
  PROVE  WrittenInv'
<1>1. \A r : Extent(r)' = Extent(r) BY DEF Extent
<1> QED BY <1>1 DEF WrittenInv

(* A step leaves writer w outside of its work on an item, or where it is.  *)
Still(w) ==
  \/ wpc'[w] = wpc[w]
  \/ wpc[w] \notin {"write", "release"} /\ wpc'[w] \notin {"write", "release"}

(* Writers that are woken, put to sleep, started or ended hold what they   *)
(* held.                                                                   *)
LEMMA SameBusy ==
  ASSUME UNCHANGED <<queue, wr>>,
         \A w \in Writers : Still(w)
  PROVE  /\ \A w \in Writers : Busy(w)' <=> Busy(w)
         /\ \A r \in Ranges : Held(r)' <=> Held(r)
         /\ \A r \in Ranges : Due(r)' <=> Due(r)
<1>1. \A w \in Writers : Busy(w)' <=> Busy(w) BY DEF Busy, Still
<1>2. \A r : Queued(r)' <=> Queued(r) BY DEF Queued
<1>3. \A r \in Ranges : Held(r)' <=> Held(r) BY <1>1, <1>2 DEF Held
<1>4. \A w \in Writers : wpc'[w] = "write" <=> wpc[w] = "write" BY DEF Still
<1>5. \A r \in Ranges : Due(r)' <=> Due(r) BY <1>2, <1>4 DEF Due
<1> QED BY <1>1, <1>3, <1>5

(* What a slot that is given back changes.                                 *)
LEMMA GiveBack ==
  ASSUME free \in Seq(Slots), NEW e \in Slots, ~Free(e), free' = <<e>> \o free,
         \A j, k \in 1..Len(free) : j # k => free[j] # free[k]
  PROVE  /\ \A s : Free(s)' <=> Free(s) \/ s = e
         /\ \A j, k \in 1..Len(free') : j # k => free'[j] # free'[k]
<1>1. ~\E k \in 1..Len(free) : free[k] = e BY DEF Free
<1>2. /\ \A s : (\E k \in 1..Len(free') : free'[k] = s)
                 <=> (\E k \in 1..Len(free) : free[k] = s) \/ s = e
      /\ \A j, k \in 1..Len(free') : j # k => free'[j] # free'[k]
  BY <1>1, HasCons
<1> QED BY <1>2 DEF Free

(* The invariant for a step that moves neither slots nor ranges.           *)
LEMMA Quiet ==
  ASSUME PipeInv, UNCHANGED <<free, slot, mslot, queue, i, wr, cur_off, off, used, buf, file>>,
         mpc' \in {"push", "full"} <=> mpc \in {"push", "full"},
         \A w \in Writers : Still(w)
  PROVE  SlotOwned' /\ QueueInv' /\ LayoutInv' /\ WrittenInv'
<1>1. SlotOwned /\ QueueInv /\ LayoutInv /\ WrittenInv BY DEF PipeInv
<1>2. /\ \A w \in Writers : Busy(w)' <=> Busy(w)
      /\ \A r \in Ranges : Held(r)' <=> Held(r)
      /\ \A r \in Ranges : Due(r)' <=> Due(r)
  BY SameBusy
<1>3. SlotOwned' BY <1>1, <1>2, SlotFrame
<1>4. QueueInv' BY <1>1, <1>2, QueueFrame
<1>5. LayoutInv' BY <1>1, LayoutFrame
<1>6. WrittenInv' BY <1>1, <1>2, WrittenFrame
<1> QED BY <1>3, <1>4, <1>5, <1>6

-----------------------------------------------------------------------------
(* Initially no slot is out and nothing is queued.                         *)
LEMMA InitInv == Init => PipeInv
<1> SUFFICES ASSUME Init PROVE PipeInv OBVIOUS
<1> USE PipelineAssumption
<1>1. TypeOK
  <2>1. 1 \in 1..(NRanges + 1) OBVIOUS
  <2>2. i \in 1..(NRanges + 1) /\ cur_off \in Nat BY <2>1 DEF Init
  <2>3. queue \in Seq(Ranges) /\ free \in Seq(Slots) BY DEF Init
  <2>4. wr \in [Writers -> 0..NRanges] /\ buf \in [Slots -> 0..NRanges]
        /\ file \in [Offsets -> 0..NRanges]
    BY DEF Init
  <2>5. off \in [Ranges -> Nat] /\ used \in [Ranges -> Nat]
        /\ slot \in [Ranges -> Slots \cup {NoSlot}]
    BY DEF Init
  <2>6. wpc \in [Writers -> {"none", "pop", "sleep", "write", "release", "exit"}]
    BY DEF Init
  <2> QED BY <2>2, <2>3, <2>4, <2>5, <2>6 DEF TypeOK, Init
<1>2. Len(queue) = 0 /\ \A w \in Writers : ~Busy(w) BY DEF Init, Busy
<1>3. \A r : ~Queued(r) BY <1>2 DEF Queued
<1>4. \A r : ~Held(r) /\ ~Due(r) BY <1>2, <1>3 DEF Held, Due, Busy
<1>5. MainInv BY DEF MainInv, Init
<1>6. QueueInv BY <1>2 DEF QueueInv
<1>7. SlotOwned
  <2>1. free \in Seq(Slots) /\ mslot \notin Slots BY DEF Init
  <2>2. \A s \in Slots : Free(s) BY DEF Init, Free
  <2>5. \A k \in 1..Len(free) : free[k] \in Slots BY <2>1
  <2>3. ~Free(mslot) BY <2>1, <2>5 DEF Free
  <2>4. \A j, k \in 1..Len(free) : j # k => free[j] # free[k] BY DEF Init
  <2> QED BY <1>4, <2>2, <2>3, <2>4 DEF SlotOwned
<1>8. LayoutInv
  <2>1. i = 1 /\ mpc \notin {"push", "full"} /\ cur_off = Start[1] /\ Start[1] \in Nat
    <3>1. 1 \in 1..(NRanges + 1) OBVIOUS
    <3> QED BY <3>1 DEF Init
  <2>2. \A r \in Ranges : ~Assigned(r) BY <2>1 DEF Assigned, Ranges
  <2> QED BY <2>1, <2>2 DEF LayoutInv
<1>9. WrittenInv
  <2>1. \A r \in Ranges : ~(r < i) BY DEF Init, Ranges
  <2> QED BY <1>4, <2>1 DEF WrittenInv
<1> QED BY <1>1, <1>5, <1>6, <1>7, <1>8, <1>9 DEF PipeInv

-----------------------------------------------------------------------------
(* One lemma per kind of action.                                           *)

LEMMA StartStep ==
  ASSUME PipeInv,
         (\E w \in Writers : CreateWriter(w)) \/ CreateFails \/ Started
  PROVE  PipeInv'
<1> DEFINE WPC == {"none", "pop", "sleep", "write", "release", "exit"}
<1>1. TypeOK /\ MainInv BY DEF PipeInv
<1>2. wpc \in [Writers -> WPC] /\ wpc' \in [Writers -> WPC]
      /\ mpc = "start" /\ mpc' \in {"start", "undo", "acquire"}
      /\ err' \in {"no", "yes"} /\ closed' \in {"no", "yes"}
  BY <1>1 DEF TypeOK, CreateWriter, CreateFails, Started, work, main
<1>3. UNCHANGED <<free, slot, mslot, queue, i, wr, cur_off, off, used, buf, file, header>>
  BY DEF CreateWriter, CreateFails, Started, pool, main, work
<1>4. \A w \in Writers : Still(w)
  <2>1. CASE \E w \in Writers : CreateWriter(w) BY <1>2, <2>1 DEF CreateWriter, Still
  <2>2. CASE CreateFails BY <1>2, <2>2 DEF CreateFails, Still
  <2>3. CASE Started BY <2>3 DEF Started, Still, work
  <2> QED BY <2>1, <2>2, <2>3
<1>5. SlotOwned' /\ QueueInv' /\ LayoutInv' /\ WrittenInv' BY <1>2, <1>3, <1>4, Quiet
<1>6. TypeOK' BY <1>1, <1>2, <1>3 DEF TypeOK
<1>7. \A w \in Writers : wpc'[w] # "exit"
  BY <1>1, <1>2 DEF MainInv, CreateWriter, CreateFails, Started, work
<1>8. MainInv'
  <2>1. CASE \E w \in Writers : CreateWriter(w)
    BY <1>1, <1>2, <1>3, <1>7, <2>1 DEF MainInv, CreateWriter, main
  <2>2. CASE CreateFails BY <1>1, <1>2, <1>3, <1>7, <2>2 DEF MainInv, CreateFails
  <2>3. CASE Started BY <1>1, <1>2, <1>3, <1>7, <2>3 DEF MainInv, Started
  <2> QED BY <2>1, <2>2, <2>3
<1> QED BY <1>5, <1>6, <1>8 DEF PipeInv

LEMMA EndStep ==
  ASSUME PipeInv, LoopEnds \/ Close \/ Join \/ JoinCreated
  PROVE  PipeInv'
<1> DEFINE WPC == {"none", "pop", "sleep", "write", "release", "exit"}
<1>1. TypeOK /\ MainInv /\ QueueInv BY DEF PipeInv
<1>2. wpc \in [Writers -> WPC] /\ wpc' \in [Writers -> WPC]
      /\ mpc \in {"acquire", "close", "join", "undo"} /\ mpc' \in {"close", "join", "done"}
      /\ err' \in {"no", "yes"} /\ closed' \in {"no", "yes"} /\ header' \in {"old", "new"}
  BY <1>1 DEF TypeOK, LoopEnds, Close, Join, JoinCreated, work
<1>3. UNCHANGED <<free, slot, mslot, queue, i, wr, cur_off, off, used, buf, file>>
  BY DEF LoopEnds, Close, Join, JoinCreated, pool, work
<1>4. \A w \in Writers : Still(w)
  <2>1. CASE Close BY <1>2, <2>1 DEF Close, Still
  <2>2. CASE LoopEnds \/ Join \/ JoinCreated
    BY <2>2 DEF LoopEnds, Join, JoinCreated, Still, work
  <2> QED BY <2>1, <2>2
<1>5. SlotOwned' /\ QueueInv' /\ LayoutInv' /\ WrittenInv' BY <1>2, <1>3, <1>4, Quiet
<1>6. TypeOK' BY <1>1, <1>2, <1>3 DEF TypeOK
<1>7. MainInv'
  <2>1. CASE LoopEnds
    <3>1. i = NRanges + 1 BY <1>1, <2>1, PipelineAssumption DEF LoopEnds, TypeOK
    <3> QED BY <1>1, <1>2, <1>3, <2>1, <3>1 DEF MainInv, LoopEnds, work
  <2>2. CASE Close
    <3>1. \A w \in Writers : wpc'[w] = "exit" => wpc[w] = "exit" BY <1>2, <2>2 DEF Close
    <3> QED BY <1>1, <1>2, <1>3, <2>2, <3>1 DEF MainInv, Close
  <2>3. CASE Join
    <3>1. queue = <<>> BY <1>1, <2>3, PipelineAssumption DEF MainInv, Join
    <3> QED BY <1>1, <1>2, <1>3, <2>3, <3>1 DEF MainInv, Join, work
  <2>4. CASE JoinCreated
    <3>1. i = 1 /\ queue \in Seq(Ranges) BY <1>1, <2>4 DEF MainInv, JoinCreated, TypeOK
    <3>2. \A k \in 1..Len(queue) : queue[k] \in Ranges /\ queue[k] < 1
      BY <1>1, <3>1 DEF QueueInv
    <3>3. Len(queue) = 0
      <4>1. Len(queue) # 0 => 1 \in 1..Len(queue) BY <3>1
      <4> QED BY <3>2, <4>1, PipelineAssumption DEF Ranges
    <3>4. queue = <<>> BY <3>1, <3>3
    <3> QED BY <1>1, <1>2, <1>3, <2>4, <3>4 DEF MainInv, JoinCreated, work
  <2> QED BY <2>1, <2>2, <2>3, <2>4
<1> QED BY <1>5, <1>6, <1>7 DEF PipeInv

LEMMA AcquireStep == ASSUME PipeInv, Acquire PROVE PipeInv'
<1>1. TypeOK /\ MainInv /\ QueueInv /\ SlotOwned /\ LayoutInv /\ WrittenInv BY DEF PipeInv
<1>2. UNCHANGED <<buf, i, cur_off, slot, off, used, err, header, wpc, wr, queue, closed, file>>
      /\ mpc = "acquire" /\ mpc' \in {"wait", "capture"} /\ mslot = NoSlot /\ i <= NRanges
  BY <1>1 DEF Acquire, work, MainInv
<1>3. CASE free = <<>>
  <2>1. mpc' = "wait" /\ UNCHANGED <<free, mslot>> BY <1>3 DEF Acquire
  <2>2. SlotOwned' /\ QueueInv' /\ LayoutInv' /\ WrittenInv'
    <3>1. \A w \in Writers : Still(w) BY <1>2 DEF Still
    <3> QED BY <1>2, <2>1, <3>1, Quiet
  <2>3. TypeOK' BY <1>1, <1>2, <2>1 DEF TypeOK
  <2>4. MainInv' BY <1>1, <1>2, <2>1 DEF MainInv
  <2> QED BY <2>2, <2>3, <2>4 DEF PipeInv
<1>4. CASE free # <<>>
  <2>1. mpc' = "capture" /\ mslot' = Head(free) /\ free' = Tail(free) BY <1>4 DEF Acquire
  <2>2. free \in Seq(Slots) /\ slot \in [Ranges -> Slots \cup {NoSlot}]
    BY <1>1 DEF TypeOK
  <2>3. mslot' \in Slots /\ free' \in Seq(Slots) BY <1>4, <2>1, <2>2, TailFacts
  <2>4. TypeOK' BY <1>1, <1>2, <2>1, <2>3 DEF TypeOK
  <2>5. MainInv' BY <1>1, <1>2, <2>1, <2>3 DEF MainInv
  <2>6. \A w \in Writers : Still(w) BY <1>2 DEF Still
  <2>7. (\A w \in Writers : Busy(w)' <=> Busy(w))
        /\ (\A r \in Ranges : Held(r)' <=> Held(r)) /\ (\A r \in Ranges : Due(r)' <=> Due(r))
    BY <1>2, <2>6, SameBusy
  <2>8. QueueInv' BY <1>1, <1>2, <2>7, QueueFrame
  <2>9. LayoutInv' BY <1>1, <1>2, <2>1, LayoutFrame
  <2>10. WrittenInv' BY <1>1, <1>2, <2>7, WrittenFrame
  <2>11. SlotOwned'
    <3>1. \A j, k \in 1..Len(free) : j # k => free[j] # free[k] BY <1>1 DEF SlotOwned
    <3>2. /\ \A s : Free(s)' <=> Free(s) /\ s # mslot'
          /\ \A j, k \in 1..Len(free') : j # k => free'[j] # free'[k]
          /\ Free(mslot')
      BY <1>4, <2>1, <2>2, <3>1, HasTail DEF Free
    <3>3. ~Free(mslot)' BY <3>2
    <3>4. \A s \in Slots : (Free(s) \/ s = mslot \/ \E r \in Ranges : Held(r) /\ slot[r] = s)'
      BY <1>1, <1>2, <2>7, <3>2, PipelineAssumption DEF SlotOwned
    <3>5. \A r \in Ranges : Held(r) => slot[r] \in Slots /\ ~Free(slot[r])
              /\ \A q \in Ranges : Held(q) /\ q # r => slot[q] # slot[r]
      BY <1>1 DEF SlotOwned
    <3>6. \A r \in Ranges : Held(r)' => slot'[r] \in Slots /\ ~Free(slot[r])' /\ slot'[r] # mslot'
              /\ \A q \in Ranges : Held(q)' /\ q # r => slot'[q] # slot'[r]
      BY <1>2, <2>7, <3>2, <3>5
    <3> QED BY <3>2, <3>3, <3>4, <3>6 DEF SlotOwned
  <2> QED BY <2>4, <2>5, <2>8, <2>9, <2>10, <2>11 DEF PipeInv
<1> QED BY <1>3, <1>4

(* What a capture takes is no more than the worst case.                    *)
LEMMA MultMono == ASSUME NEW a \in Nat, NEW b \in Nat, NEW p \in Nat, a <= b PROVE a * p <= b * p
BY Z3

LEMMA BytesBound ==
  ASSUME NEW r \in Ranges, NEW resident \in 0..NPages[r], NEW encrypted \in 0..NPages[r]
  PROVE  /\ Bytes(r, resident, encrypted) \in Nat /\ Most(r) \in Nat
         /\ Bytes(r, resident, encrypted) <= Most(r)
<1>1. PICK n \in Nat : n = NPages[r] BY PipelineAssumption
<1>2. resident \in Nat /\ encrypted \in Nat /\ resident <= n /\ encrypted <= n BY <1>1
<1>3. PageBytes \in Nat /\ MetaBytes \in Nat BY PipelineAssumption
<1>4. resident * PageBytes <= n * PageBytes BY <1>1, <1>2, <1>3, MultMono
<1>5. encrypted * MetaBytes <= n * MetaBytes BY <1>1, <1>2, <1>3, MultMono
<1>6. /\ resident * PageBytes \in Nat /\ n * PageBytes \in Nat
      /\ encrypted * MetaBytes \in Nat /\ n * MetaBytes \in Nat
  BY <1>1, <1>2, <1>3
<1>7. PICK rp \in Nat, np \in Nat, em \in Nat, nm \in Nat :
        /\ rp = resident * PageBytes /\ np = n * PageBytes
        /\ em = encrypted * MetaBytes /\ nm = n * MetaBytes
  BY <1>6
<1>8. Bytes(r, resident, encrypted) = n + rp + em /\ Most(r) = n + np + nm
  BY <1>1, <1>7 DEF Bytes, Most
<1> QED BY <1>4, <1>5, <1>7, <1>8

LEMMA MostType == \A r \in Ranges : Most(r) \in Nat
<1> SUFFICES ASSUME NEW r \in Ranges PROVE Most(r) \in Nat OBVIOUS
<1>1. NPages[r] \in Nat /\ NPages[r] \in 0..NPages[r] BY PipelineAssumption
<1> QED BY <1>1, BytesBound

LEMMA CaptureStep == ASSUME PipeInv, Capture PROVE PipeInv'
<1>1. TypeOK /\ MainInv /\ QueueInv /\ SlotOwned /\ LayoutInv /\ WrittenInv BY DEF PipeInv
<1>2. UNCHANGED <<free, i, mslot, err, header, wpc, wr, queue, closed, file>>
      /\ mpc = "capture" /\ mpc' = "push" /\ mslot \in Slots
  BY <1>1 DEF Capture, work, MainInv
<1>3. i \in Ranges /\ i \in Nat /\ i \in 0..NRanges
  BY <1>1, <1>2, PipelineAssumption DEF TypeOK, MainInv, Ranges
<1>4. /\ buf \in [Slots -> 0..NRanges] /\ slot \in [Ranges -> Slots \cup {NoSlot}]
      /\ off \in [Ranges -> Nat] /\ used \in [Ranges -> Nat] /\ cur_off \in Nat
  BY <1>1 DEF TypeOK
<1>0. PICK resident \in 0..NPages[i] : \E encrypted \in 0..resident :
        /\ used' = [used EXCEPT ![i] = Bytes(i, resident, encrypted)]
        /\ off' = [off EXCEPT ![i] = cur_off]
        /\ cur_off' = cur_off + Bytes(i, resident, encrypted)
  BY DEF Capture
<1>a. PICK encrypted \in 0..resident :
        /\ used' = [used EXCEPT ![i] = Bytes(i, resident, encrypted)]
        /\ off' = [off EXCEPT ![i] = cur_off]
        /\ cur_off' = cur_off + Bytes(i, resident, encrypted)
  BY <1>0
<1>5. PICK n :
        /\ n = Bytes(i, resident, encrypted)
        /\ used' = [used EXCEPT ![i] = n]
        /\ off' = [off EXCEPT ![i] = cur_off]
        /\ cur_off' = cur_off + n
  BY <1>a
<1>6. n \in Nat /\ n <= Most(i) /\ Most(i) \in Nat
  <2>1. NPages[i] \in Nat BY <1>3, PipelineAssumption
  <2>2. resident \in 0..NPages[i] /\ encrypted \in 0..NPages[i] BY <2>1
  <2> QED BY <1>3, <1>5, <2>2, BytesBound
<1>7. buf' = [buf EXCEPT ![mslot] = i] /\ slot' = [slot EXCEPT ![i] = mslot] BY DEF Capture
<1>8. \A r \in Ranges : r # i => slot'[r] = slot[r] /\ off'[r] = off[r] /\ used'[r] = used[r]
  BY <1>4, <1>5, <1>7
<1>9. slot'[i] = mslot /\ off'[i] = cur_off /\ used'[i] = n /\ buf'[mslot] = i
  BY <1>2, <1>3, <1>4, <1>5, <1>7
<1>10. \A w \in Writers : Still(w) BY <1>2 DEF Still
<1>11. (\A w \in Writers : Busy(w)' <=> Busy(w))
       /\ (\A r \in Ranges : Held(r)' <=> Held(r)) /\ (\A r \in Ranges : Due(r)' <=> Due(r))
  BY <1>2, <1>10, SameBusy
<1>12. \A r \in Ranges : Held(r) => r < i
  BY <1>1 DEF Held, Queued, QueueInv
<1>13. \A r \in Ranges : Due(r) => Held(r) BY DEF Due, Held, Busy
<1>14. TypeOK'
  <2>1. buf' \in [Slots -> 0..NRanges] BY <1>3, <1>4, <1>7
  <2>2. slot' \in [Ranges -> Slots \cup {NoSlot}] BY <1>2, <1>4, <1>7
  <2>3. off' \in [Ranges -> Nat] BY <1>3, <1>4, <1>5
  <2>4. used' \in [Ranges -> Nat] BY <1>3, <1>4, <1>5, <1>6
  <2>5. cur_off' \in Nat BY <1>4, <1>5, <1>6
  <2> QED BY <1>1, <1>2, <2>1, <2>2, <2>3, <2>4, <2>5 DEF TypeOK
<1>15. MainInv' BY <1>1, <1>2, <1>9 DEF MainInv
<1>16. QueueInv' BY <1>1, <1>2, <1>11, QueueFrame
<1>17. \A r \in Ranges : Held(r) => slot'[r] = slot[r]
  BY <1>3, <1>8, <1>12 DEF Ranges
<1>18. SlotOwned'
  <2>1. \A s : Free(s)' <=> Free(s) BY <1>2 DEF Free
  <2>2. \A s \in Slots : (Free(s) \/ s = mslot \/ \E r \in Ranges : Held(r) /\ slot[r] = s)'
    BY <1>1, <1>2, <1>11, <1>17, <2>1 DEF SlotOwned
  <2>3. \A r \in Ranges : Held(r)' => slot'[r] \in Slots /\ ~Free(slot[r])' /\ slot'[r] # mslot'
            /\ \A q \in Ranges : Held(q)' /\ q # r => slot'[q] # slot'[r]
    BY <1>1, <1>2, <1>11, <1>17, <2>1 DEF SlotOwned
  <2>4. ~Free(mslot)' BY <1>1, <1>2, <2>1 DEF SlotOwned
  <2>5. \A j, k \in 1..Len(free') : j # k => free'[j] # free'[k] BY <1>1, <1>2 DEF SlotOwned
  <2> QED BY <2>2, <2>3, <2>4, <2>5 DEF SlotOwned
<1>19. LayoutInv'
  <2>1. cur_off <= Start[i] /\ Start[i] \in Nat
    <3>1. i \in 1..(NRanges + 1) BY <1>1 DEF TypeOK
    <3> QED BY <1>1, <1>2, <3>1, PipelineAssumption DEF LayoutInv
  <2>2. cur_off' <= Start[i] + Most(i) BY <1>4, <1>5, <1>6, <2>1
  <2>3. \A r \in Ranges : Assigned(r)' <=> (Assigned(r) \/ r = i)
    BY <1>2 DEF Assigned
  <2>4. \A r \in Ranges : Assigned(r) => r # i /\ r < i
    BY <1>2, <1>3 DEF Assigned, Ranges
  <2>5. \A r \in Ranges : Assigned(r) => off[r] + used[r] <= cur_off
    BY <1>1 DEF LayoutInv
  <2>6. \A r \in Ranges : Assigned(r)' => off'[r] + used'[r] <= cur_off'
    <3> SUFFICES ASSUME NEW r \in Ranges, Assigned(r)' PROVE off'[r] + used'[r] <= cur_off'
      OBVIOUS
    <3>1. CASE r = i BY <1>4, <1>5, <1>6, <1>9, <3>1
    <3>2. CASE r # i
      <4>1. off[r] + used[r] <= cur_off /\ off[r] \in Nat /\ used[r] \in Nat
        BY <1>4, <2>3, <2>5, <3>2
      <4> QED BY <1>4, <1>5, <1>6, <1>8, <3>2, <4>1
    <3> QED BY <3>1, <3>2
  <2>7. \A r, q \in Ranges : Assigned(r)' /\ Assigned(q)' /\ r < q => off'[r] + used'[r] <= off'[q]
    <3> SUFFICES ASSUME NEW r \in Ranges, NEW q \in Ranges, Assigned(r)', Assigned(q)', r < q
                 PROVE  off'[r] + used'[r] <= off'[q]
      OBVIOUS
    <3>1. r # i
      <4> SUFFICES ASSUME r = i PROVE FALSE OBVIOUS
      <4>1. q = i \/ q < i BY <2>3, <2>4
      <4> QED BY <1>3, <4>1 DEF Ranges
    <3>2. Assigned(r) BY <2>3, <3>1
    <3>3. CASE q = i BY <1>8, <1>9, <2>5, <3>1, <3>2, <3>3
    <3>4. CASE q # i
      <4>1. Assigned(q) BY <2>3, <3>4
      <4> QED BY <1>1, <1>8, <3>1, <3>2, <3>4, <4>1 DEF LayoutInv
    <3> QED BY <3>3, <3>4
  <2> QED BY <1>2, <2>2, <2>6, <2>7 DEF LayoutInv
<1>20. WrittenInv'
  <2>1. \A r \in Ranges : Due(r)' => buf'[slot'[r]] = r
    <3> SUFFICES ASSUME NEW r \in Ranges, Due(r) PROVE buf'[slot'[r]] = r BY <1>11
    <3>1. Held(r) /\ slot'[r] = slot[r] /\ slot[r] # mslot /\ slot[r] \in Slots
      BY <1>1, <1>13, <1>17 DEF SlotOwned
    <3>2. buf[slot[r]] = r BY <1>1 DEF WrittenInv
    <3> QED BY <1>4, <1>7, <3>1, <3>2
  <2>2. ASSUME NEW r \in Ranges, r < i, ~Due(r)
        PROVE  \A o \in Extent(r)' : file'[o] = r
    <3>1. r # i BY <1>3, <2>2 DEF Ranges
    <3>2. Extent(r)' = Extent(r) BY <1>8, <3>1 DEF Extent
    <3> QED BY <1>1, <1>2, <2>2, <3>2 DEF WrittenInv
  <2> QED BY <1>2, <1>11, <2>1, <2>2 DEF WrittenInv
<1> QED BY <1>14, <1>15, <1>16, <1>18, <1>19, <1>20 DEF PipeInv

LEMMA CaptureFailsStep == ASSUME PipeInv, CaptureFails PROVE PipeInv'
<1>1. TypeOK /\ MainInv /\ QueueInv /\ SlotOwned /\ LayoutInv /\ WrittenInv BY DEF PipeInv
<1>2. UNCHANGED <<buf, i, cur_off, slot, off, used, header, wpc, wr, queue, closed, file>>
      /\ mpc = "capture" /\ mpc' = "close" /\ mslot \in Slots /\ mslot' = NoSlot
      /\ err' = "yes" /\ free' = <<mslot>> \o free
  BY <1>1 DEF CaptureFails, work, MainInv
<1>3. free \in Seq(Slots) BY <1>1 DEF TypeOK
<1>4. free' \in Seq(Slots) BY <1>2, <1>3, ConsFacts
<1>5. TypeOK' BY <1>1, <1>2, <1>4 DEF TypeOK
<1>6. MainInv' BY <1>1, <1>2 DEF MainInv
<1>7. \A w \in Writers : Still(w) BY <1>2 DEF Still
<1>8. (\A w \in Writers : Busy(w)' <=> Busy(w))
      /\ (\A r \in Ranges : Held(r)' <=> Held(r)) /\ (\A r \in Ranges : Due(r)' <=> Due(r))
  BY <1>2, <1>7, SameBusy
<1>9. QueueInv' BY <1>1, <1>2, <1>8, QueueFrame
<1>10. LayoutInv' BY <1>1, <1>2, LayoutFrame
<1>11. WrittenInv' BY <1>1, <1>2, <1>8, WrittenFrame
<1>12. SlotOwned'
  <2>1. ~Free(mslot) /\ \A j, k \in 1..Len(free) : j # k => free[j] # free[k]
    BY <1>1 DEF SlotOwned
  <2>2. (\A s : Free(s)' <=> Free(s) \/ s = mslot)
        /\ \A j, k \in 1..Len(free') : j # k => free'[j] # free'[k]
    BY <1>2, <1>3, <2>1, GiveBack
  <2>3. \A s \in Slots : (Free(s) \/ s = mslot \/ \E r \in Ranges : Held(r) /\ slot[r] = s)'
    BY <1>1, <1>2, <1>8, <2>2 DEF SlotOwned
  <2>4. ~Free(mslot)'
    <3>1. \A k \in 1..Len(free') : free'[k] \in Slots BY <1>4
    <3> QED BY <1>2, <3>1, PipelineAssumption DEF Free
  <2>5. \A r \in Ranges : Held(r) => slot[r] \in Slots /\ ~Free(slot[r]) /\ slot[r] # mslot
            /\ \A q \in Ranges : Held(q) /\ q # r => slot[q] # slot[r]
    BY <1>1 DEF SlotOwned
  <2>6. \A r \in Ranges : Held(r)' => slot'[r] \in Slots /\ ~Free(slot[r])' /\ slot'[r] # mslot'
            /\ \A q \in Ranges : Held(q)' /\ q # r => slot'[q] # slot'[r]
    BY <1>2, <1>8, <2>2, <2>5, PipelineAssumption
  <2> QED BY <2>2, <2>3, <2>4, <2>6 DEF SlotOwned
<1> QED BY <1>5, <1>6, <1>9, <1>10, <1>11, <1>12 DEF PipeInv

LEMMA PushStep == ASSUME PipeInv, Push PROVE PipeInv'
<1> DEFINE WPC == {"none", "pop", "sleep", "write", "release", "exit"}
<1>1. TypeOK /\ MainInv /\ QueueInv /\ SlotOwned /\ LayoutInv /\ WrittenInv BY DEF PipeInv
<1>2. UNCHANGED <<free, buf, cur_off, slot, off, used, err, header, wr, closed, file>>
      /\ mpc = "push" /\ mslot \in Slots /\ slot[i] = mslot /\ buf[mslot] = i /\ i <= NRanges
  BY <1>1 DEF Push, pool, MainInv
<1>3. CASE Len(queue) = Capacity
  <2>1. mpc' = "full" /\ UNCHANGED <<queue, i, mslot, wpc>> BY <1>3 DEF Push
  <2>2. \A w \in Writers : Still(w) BY <2>1 DEF Still
  <2>3. SlotOwned' /\ QueueInv' /\ LayoutInv' /\ WrittenInv' BY <1>2, <2>1, <2>2, Quiet
  <2>4. TypeOK' BY <1>1, <1>2, <2>1 DEF TypeOK
  <2>5. MainInv' BY <1>1, <1>2, <2>1 DEF MainInv
  <2> QED BY <2>3, <2>4, <2>5 DEF PipeInv
<1>4. CASE Len(queue) # Capacity
  <2>1. queue' = Append(queue, i) /\ i' = i + 1 /\ mslot' = NoSlot /\ mpc' = "acquire"
        /\ SignalWriter
    BY <1>4 DEF Push
  <2>2. queue \in Seq(Ranges) /\ i \in 1..(NRanges + 1) /\ wpc \in [Writers -> WPC]
        /\ slot \in [Ranges -> Slots \cup {NoSlot}]
    BY <1>1 DEF TypeOK
  <2>3. i \in Ranges /\ i \in Nat /\ i' \in 1..(NRanges + 1)
    <3>1. i \in Ranges /\ i \in Nat BY <1>2, <2>2, PipelineAssumption DEF Ranges
    <3>2. i + 1 \in 1..(NRanges + 1) BY <1>2, <2>2, PipelineAssumption
    <3> QED BY <2>1, <3>1, <3>2
  <2>4. /\ queue' \in Seq(Ranges) /\ Len(queue') = Len(queue) + 1 /\ Len(queue) \in Nat
        /\ queue'[Len(queue) + 1] = i
        /\ \A k \in 1..Len(queue) : queue'[k] = queue[k]
    BY <2>1, <2>2, <2>3
  <2>5. wpc' \in [Writers -> WPC]
        /\ \A w \in Writers : wpc'[w] = wpc[w] \/ (wpc[w] = "sleep" /\ wpc'[w] = "pop")
    BY <2>1, <2>2 DEF SignalWriter, Sleeping
  <2>6. \A w \in Writers : Busy(w)' <=> Busy(w) BY <2>5 DEF Busy
  <2>7. \A r : Queued(r)' <=> Queued(r) \/ r = i
    <3>1. \A k \in 1..Len(queue') : k \in 1..Len(queue) \/ k = Len(queue) + 1 BY <2>4
    <3>2. Len(queue) + 1 \in 1..Len(queue') /\ \A k \in 1..Len(queue) : k \in 1..Len(queue')
      BY <2>4
    <3> QED BY <2>4, <3>1, <3>2 DEF Queued
  <2>8. \A r \in Ranges : Held(r)' <=> Held(r) \/ r = i BY <1>2, <2>6, <2>7 DEF Held
  <2>9. \A r \in Ranges : Due(r)' <=> Due(r) \/ r = i
    <3>1. \A w \in Writers : wpc'[w] = "write" <=> wpc[w] = "write" BY <2>5
    <3> QED BY <1>2, <2>7, <3>1 DEF Due
  <2>10. TypeOK' BY <1>1, <1>2, <2>1, <2>3, <2>4, <2>5 DEF TypeOK
  <2>11. MainInv'
    <3>1. \A w \in Writers : wpc'[w] # "exit" BY <1>1, <1>2, <2>5 DEF MainInv
    <3> QED BY <1>1, <1>2, <2>1, <3>1 DEF MainInv
  <2>12. \A k \in 1..Len(queue) : queue[k] < i /\ queue[k] \in Ranges
    BY <1>1, <2>2 DEF QueueInv
  <2>13. QueueInv'
    <3>1. \A k \in 1..Len(queue') : queue'[k] < i'
      <4> TAKE k \in 1..Len(queue')
      <4>1. CASE k \in 1..Len(queue) BY <2>1, <2>3, <2>4, <2>12, <4>1 DEF Ranges
      <4>2. CASE k = Len(queue) + 1 BY <2>1, <2>3, <2>4, <4>2
      <4> QED BY <2>4, <4>1, <4>2
    <3>2. \A j, k \in 1..Len(queue') : j < k => queue'[j] < queue'[k]
      <4> TAKE j, k \in 1..Len(queue')
      <4> HAVE j < k
      <4>1. j \in 1..Len(queue) BY <2>4
      <4>2. CASE k \in 1..Len(queue) BY <1>1, <2>4, <4>1, <4>2 DEF QueueInv
      <4>3. CASE k = Len(queue) + 1 BY <2>4, <2>12, <4>1, <4>3
      <4> QED BY <2>4, <4>2, <4>3
    <3>3. \A w \in Writers : Busy(w)' => wr'[w] \in Ranges /\ wr'[w] < i' /\ ~Queued(wr[w])'
      <4> SUFFICES ASSUME NEW w \in Writers, Busy(w)
                   PROVE  wr'[w] \in Ranges /\ wr'[w] < i' /\ ~Queued(wr[w])'
        BY <2>6
      <4>1. wr[w] \in Ranges /\ wr[w] < i /\ ~Queued(wr[w]) BY <1>1 DEF QueueInv
      <4>2. wr[w] # i /\ wr[w] < i + 1 BY <2>3, <4>1 DEF Ranges
      <4> QED BY <1>2, <2>1, <2>7, <4>1, <4>2
    <3>4. \A w, v \in Writers : Busy(w)' /\ Busy(v)' /\ w # v => wr'[w] # wr'[v]
      BY <1>1, <1>2, <2>6 DEF QueueInv
    <3> QED BY <3>1, <3>2, <3>3, <3>4 DEF QueueInv
  <2>14. SlotOwned'
    <3>1. \A s : Free(s)' <=> Free(s) BY <1>2 DEF Free
    <3>2. ~Free(mslot)'
      <4>1. free \in Seq(Slots) BY <1>1 DEF TypeOK
      <4>2. \A k \in 1..Len(free) : free[k] \in Slots BY <4>1
      <4> QED BY <2>1, <3>1, <4>2, PipelineAssumption DEF Free
    <3>3. \A s \in Slots : (Free(s) \/ s = mslot \/ \E r \in Ranges : Held(r) /\ slot[r] = s)'
      BY <1>1, <1>2, <2>3, <2>8, <3>1 DEF SlotOwned
    <3>4. \A r \in Ranges : Held(r) => slot[r] \in Slots /\ ~Free(slot[r]) /\ slot[r] # mslot
              /\ \A q \in Ranges : Held(q) /\ q # r => slot[q] # slot[r]
      BY <1>1 DEF SlotOwned
    <3>5. ~Free(mslot) /\ \A j, k \in 1..Len(free) : j # k => free[j] # free[k]
      BY <1>1 DEF SlotOwned
    <3>6. \A r \in Ranges : Held(r)' => slot'[r] \in Slots /\ ~Free(slot[r])' /\ slot'[r] # mslot'
              /\ \A q \in Ranges : Held(q)' /\ q # r => slot'[q] # slot'[r]
      BY <1>2, <2>1, <2>8, <3>1, <3>4, <3>5, PipelineAssumption
    <3> QED BY <1>2, <3>2, <3>3, <3>5, <3>6 DEF SlotOwned
  <2>15. LayoutInv'
    <3>1. \A r \in Ranges : Assigned(r)' <=> Assigned(r)
      BY <1>2, <2>1, <2>3 DEF Assigned, Ranges
    <3>2. cur_off <= Start[i] + Most(i) BY <1>1, <1>2 DEF LayoutInv
    <3>3. i < i' /\ i' \in 1..(NRanges + 1) BY <2>1, <2>3
    <3>4. Start[i] + Most(i) <= Start[i'] BY <2>3, <3>3, PipelineAssumption
    <3>5. Start[i] \in Nat /\ Start[i'] \in Nat /\ Most(i) \in Nat /\ cur_off \in Nat
      BY <1>1, <2>2, <2>3, PipelineAssumption, MostType DEF TypeOK
    <3>6. cur_off' <= Start[i'] BY <1>2, <3>2, <3>4, <3>5
    <3> QED BY <1>1, <1>2, <2>1, <3>1, <3>6 DEF LayoutInv
  <2>16. WrittenInv'
    <3>1. \A r \in Ranges : Extent(r)' = Extent(r) BY <1>2 DEF Extent
    <3>2. \A r \in Ranges : r < i' /\ r # i => r < i BY <2>1, <2>3 DEF Ranges
    <3> QED BY <1>1, <1>2, <2>9, <3>1, <3>2 DEF WrittenInv
  <2> QED BY <2>10, <2>11, <2>13, <2>14, <2>15, <2>16 DEF PipeInv
<1> QED BY <1>3, <1>4

(* An item that is taken from the queue is held by the writer, and is      *)
(* still to be written.                                                    *)
LEMMA PopStep == ASSUME PipeInv, NEW w \in Writers, Pop(w) PROVE PipeInv'
<1> DEFINE WPC == {"none", "pop", "sleep", "write", "release", "exit"}
<1>1. TypeOK /\ MainInv /\ QueueInv /\ SlotOwned /\ LayoutInv /\ WrittenInv BY DEF PipeInv
<1>2. UNCHANGED <<free, buf, i, mslot, cur_off, slot, off, used, err, header, closed, file>>
      /\ wpc[w] = "pop"
  BY DEF Pop, pool
<1>3. wpc \in [Writers -> WPC] /\ wr \in [Writers -> 0..NRanges] /\ queue \in Seq(Ranges)
  BY <1>1 DEF TypeOK
<1>4. mpc # "done" BY <1>1, <1>2 DEF MainInv
<1>5. CASE queue = <<>>
  <2>1. wpc' = [wpc EXCEPT ![w] = IF closed = "yes" THEN "exit" ELSE "sleep"]
        /\ UNCHANGED <<wr, queue, mpc>>
    BY <1>5 DEF Pop
  <2>2. \A v \in Writers : Still(v) BY <1>2, <1>3, <2>1 DEF Still
  <2>3. SlotOwned' /\ QueueInv' /\ LayoutInv' /\ WrittenInv' BY <1>2, <2>1, <2>2, Quiet
  <2>4. wpc' \in [Writers -> WPC] BY <1>3, <2>1
  <2>5. TypeOK' BY <1>1, <1>2, <2>1, <2>4 DEF TypeOK
  <2>6. \A v \in Writers : wpc'[v] = "exit" => closed = "yes"
    BY <1>1, <1>3, <2>1 DEF MainInv
  <2>7. MainInv' BY <1>1, <1>2, <1>4, <1>5, <2>1, <2>6 DEF MainInv
  <2> QED BY <2>3, <2>5, <2>7 DEF PipeInv
<1>6. CASE queue # <<>>
  <2>1. wr' = [wr EXCEPT ![w] = Head(queue)] /\ queue' = Tail(queue)
        /\ wpc' = [wpc EXCEPT ![w] = "write"]
        /\ mpc' = IF mpc = "full" THEN "push" ELSE mpc
    BY <1>6 DEF Pop
  <2>2. /\ Len(queue) \in Nat /\ Len(queue) > 0 /\ Head(queue) = queue[1] /\ Head(queue) \in Ranges
        /\ queue' \in Seq(Ranges) /\ Len(queue') = Len(queue) - 1
        /\ \A k \in 1..Len(queue') : queue'[k] = queue[k + 1]
    BY <1>3, <1>6, <2>1, TailFacts
  <2>3. \A k \in 1..Len(queue) : queue[k] \in Ranges BY <1>3
  <2>4. \A j, k \in 1..Len(queue) : j # k => queue[j] # queue[k]
    <3> TAKE j, k \in 1..Len(queue)
    <3>1. j < k => queue[j] < queue[k] BY <1>1 DEF QueueInv
    <3>2. k < j => queue[k] < queue[j] BY <1>1 DEF QueueInv
    <3>3. queue[j] \in Nat /\ queue[k] \in Nat BY <2>3 DEF Ranges
    <3> QED BY <3>1, <3>2, <3>3
  <2>5. (\A r : Queued(r)' <=> Queued(r) /\ r # Head(queue)) /\ Queued(Head(queue))
    BY <1>3, <1>6, <2>1, <2>4, HasTail DEF Queued
  <2>6. ~Busy(w) /\ Busy(w)' /\ wr'[w] = Head(queue) /\ wpc'[w] = "write"
    BY <1>2, <1>3, <2>1 DEF Busy
  <2>7. \A v \in Writers : v # w => wpc'[v] = wpc[v] /\ wr'[v] = wr[v] /\ (Busy(v)' <=> Busy(v))
    BY <1>3, <2>1 DEF Busy
  <2>8. \A r \in Ranges : Held(r)' <=> Held(r) BY <2>5, <2>6, <2>7 DEF Held
  <2>9. \A r \in Ranges : Due(r)' <=> Due(r)
    <3>1. wpc[w] # "write" BY <1>2
    <3> QED BY <2>5, <2>6, <2>7, <3>1 DEF Due
  <2>10. TypeOK'
    <3>1. wpc' \in [Writers -> WPC] BY <1>3, <2>1
    <3>2. Head(queue) \in 0..NRanges BY <2>2, PipelineAssumption DEF Ranges
    <3>3. wr' \in [Writers -> 0..NRanges] BY <1>3, <2>1, <3>2
    <3> QED BY <1>1, <1>2, <2>1, <2>2, <3>1, <3>3 DEF TypeOK
  <2>11. MainInv'
    <3>1. \A v \in Writers : wpc'[v] # "exit" BY <1>1, <1>6, <2>6, <2>7 DEF MainInv
    <3>2. mpc' # "done" BY <1>4, <2>1
    <3> QED BY <1>1, <1>2, <2>1, <3>1, <3>2 DEF MainInv
  <2>12. QueueInv'
    <3>1. \A k \in 1..Len(queue') : k + 1 \in 1..Len(queue) BY <2>2
    <3>2. \A k \in 1..Len(queue') : queue'[k] < i' BY <1>1, <1>2, <2>2, <3>1 DEF QueueInv
    <3>3. \A j, k \in 1..Len(queue') : j < k => queue'[j] < queue'[k]
      <4> TAKE j, k \in 1..Len(queue')
      <4> HAVE j < k
      <4>1. j + 1 < k + 1 BY <2>2
      <4> QED BY <1>1, <2>2, <3>1, <4>1 DEF QueueInv
    <3>4. 1 \in 1..Len(queue) BY <2>2
    <3>5. Head(queue) < i BY <1>1, <2>2, <3>4 DEF QueueInv
    <3>6. ASSUME NEW v \in Writers, Busy(v)'
          PROVE  wr'[v] \in Ranges /\ wr'[v] < i' /\ ~Queued(wr[v])'
      <4>1. CASE v = w BY <1>2, <2>2, <2>5, <2>6, <3>5, <4>1
      <4>2. CASE v # w BY <1>1, <1>2, <2>5, <2>7, <3>6, <4>2 DEF QueueInv
      <4> QED BY <4>1, <4>2
    <3>7. ASSUME NEW u \in Writers, NEW v \in Writers, Busy(u)', Busy(v)', u # v
          PROVE  wr'[u] # wr'[v]
      <4>1. \A x \in Writers : x # w /\ Busy(x)' => wr'[x] # Head(queue)
        BY <1>1, <2>5, <2>7 DEF QueueInv
      <4> QED BY <1>1, <2>6, <2>7, <3>7, <4>1 DEF QueueInv
    <3> QED BY <3>2, <3>3, <3>6, <3>7 DEF QueueInv
  <2>13. SlotOwned' BY <1>1, <1>2, <2>8, SlotFrame
  <2>14. LayoutInv' BY <1>1, <1>2, <2>1, LayoutFrame
  <2>15. WrittenInv' BY <1>1, <1>2, <2>9, WrittenFrame
  <2> QED BY <2>10, <2>11, <2>12, <2>13, <2>14, <2>15 DEF PipeInv
<1> QED BY <1>5, <1>6

(* A writer fills the extent of its own range, and no other range has a    *)
(* byte of it.                                                             *)
LEMMA WriteStep == ASSUME PipeInv, NEW w \in Writers, Write(w) PROVE PipeInv'
<1> DEFINE WPC == {"none", "pop", "sleep", "write", "release", "exit"}
<1>1. TypeOK /\ MainInv /\ QueueInv /\ SlotOwned /\ LayoutInv /\ WrittenInv BY DEF PipeInv
<1>2. UNCHANGED <<free, buf, mpc, i, mslot, cur_off, slot, off, used, err, header, wr, queue, closed>>
      /\ wpc[w] = "write" /\ wpc' = [wpc EXCEPT ![w] = "release"]
  BY DEF Write, pool, main
<1>3. file' = [o \in Offsets |-> IF o \in Extent(wr[w]) THEN buf[slot[wr[w]]] ELSE file[o]]
  BY DEF Write
<1>4. /\ wpc \in [Writers -> WPC] /\ file \in [Offsets -> 0..NRanges]
      /\ buf \in [Slots -> 0..NRanges] /\ off \in [Ranges -> Nat] /\ used \in [Ranges -> Nat]
  BY <1>1 DEF TypeOK
<1>5. wpc' \in [Writers -> WPC] /\ wpc'[w] = "release"
      /\ \A v \in Writers : v # w => wpc'[v] = wpc[v]
  BY <1>2, <1>4
<1>6. \A v \in Writers : Busy(v)' <=> Busy(v) BY <1>2, <1>5 DEF Busy
<1>7. \A r : Queued(r)' <=> Queued(r) BY <1>2 DEF Queued
<1>8. \A r \in Ranges : Held(r)' <=> Held(r) BY <1>2, <1>6, <1>7 DEF Held
<1>9. wr[w] \in Ranges /\ wr[w] < i /\ ~Queued(wr[w]) BY <1>1, <1>2 DEF QueueInv, Busy
<1>10. Due(wr[w]) /\ Held(wr[w]) BY <1>2 DEF Due, Held, Busy
<1>11. slot[wr[w]] \in Slots /\ buf[slot[wr[w]]] = wr[w]
  BY <1>1, <1>9, <1>10 DEF SlotOwned, WrittenInv
<1>12. \A v \in Writers : wpc[v] = "write" /\ v # w => wr[v] # wr[w]
  BY <1>1, <1>2 DEF QueueInv, Busy
<1>13. \A r \in Ranges : Due(r)' <=> Due(r) /\ r # wr[w]
  BY <1>2, <1>5, <1>7, <1>9, <1>12 DEF Due
<1>14. TypeOK'
  <2>1. file' \in [Offsets -> 0..NRanges] BY <1>3, <1>4, <1>11
  <2> QED BY <1>1, <1>2, <1>5, <2>1 DEF TypeOK
<1>15. MainInv'
  <2>1. \A v \in Writers : wpc'[v] = "exit" => wpc[v] = "exit" BY <1>5
  <2>2. mpc # "done" BY <1>1, <1>2 DEF MainInv
  <2> QED BY <1>1, <1>2, <2>1, <2>2 DEF MainInv
<1>16. QueueInv' BY <1>1, <1>2, <1>6, QueueFrame
<1>17. SlotOwned' BY <1>1, <1>2, <1>8, SlotFrame
<1>18. LayoutInv' BY <1>1, <1>2, LayoutFrame
<1>19. WrittenInv'
  <2>1. \A r \in Ranges : Due(r)' => buf'[slot'[r]] = r BY <1>1, <1>2, <1>13 DEF WrittenInv
  <2>2. ASSUME NEW r \in Ranges, r < i, ~Due(r)', NEW o \in Extent(r)
        PROVE  file'[o] = r
    <3>1. o \in Offsets BY DEF Extent
    <3>2. CASE r = wr[w] BY <1>3, <1>11, <3>1, <3>2
    <3>3. CASE r # wr[w]
      <4>1. file[o] = r BY <1>1, <1>13, <2>2, <3>3 DEF WrittenInv
      <4>2. Assigned(r) /\ Assigned(wr[w]) BY <1>9, <2>2 DEF Assigned
      <4>3. r < wr[w] \/ wr[w] < r BY <1>9, <3>3 DEF Ranges
      <4>4. off[r] + used[r] <= off[wr[w]] \/ off[wr[w]] + used[wr[w]] <= off[r]
        BY <1>1, <1>9, <4>2, <4>3 DEF LayoutInv
      <4>5. off[r] <= o /\ o < off[r] + used[r] BY DEF Extent
      <4>6. /\ off[r] \in Nat /\ used[r] \in Nat
            /\ off[wr[w]] \in Nat /\ used[wr[w]] \in Nat
        BY <1>4, <1>9
      <4>7. o \in Nat
        <5>1. NRanges + 1 \in 1..(NRanges + 1) BY PipelineAssumption
        <5>2. Start[NRanges + 1] \in Nat BY <5>1, PipelineAssumption
        <5> QED BY <3>1, <5>2 DEF Offsets
      <4>8. ~(off[wr[w]] <= o /\ o < off[wr[w]] + used[wr[w]]) BY <4>4, <4>5, <4>6, <4>7
      <4>9. o \notin Extent(wr[w]) BY <4>8 DEF Extent
      <4> QED BY <1>3, <3>1, <4>1, <4>9
    <3> QED BY <3>2, <3>3
  <2>3. \A r \in Ranges : Extent(r)' = Extent(r) BY <1>2 DEF Extent
  <2> QED BY <1>2, <2>1, <2>2, <2>3 DEF WrittenInv
<1> QED BY <1>14, <1>15, <1>16, <1>17, <1>18, <1>19 DEF PipeInv

(* The slot that goes back was the writer's own.                           *)
LEMMA ReleaseStep == ASSUME PipeInv, NEW w \in Writers, Release(w) PROVE PipeInv'
<1> DEFINE WPC == {"none", "pop", "sleep", "write", "release", "exit"}
<1>1. TypeOK /\ MainInv /\ QueueInv /\ SlotOwned /\ LayoutInv /\ WrittenInv BY DEF PipeInv
<1>2. UNCHANGED <<buf, i, mslot, cur_off, slot, off, used, err, header, wr, queue, closed, file>>
      /\ wpc[w] = "release" /\ wpc' = [wpc EXCEPT ![w] = "pop"]
      /\ free' = <<slot[wr[w]]>> \o free
      /\ mpc' = IF mpc = "wait" THEN "acquire" ELSE mpc
  BY DEF Release
<1>3. wpc \in [Writers -> WPC] /\ free \in Seq(Slots) BY <1>1 DEF TypeOK
<1>4. wpc' \in [Writers -> WPC] /\ wpc'[w] = "pop"
      /\ \A v \in Writers : v # w => wpc'[v] = wpc[v]
  BY <1>2, <1>3
<1>5. ~Busy(w)' /\ Busy(w) /\ \A v \in Writers : v # w => (Busy(v)' <=> Busy(v))
  BY <1>2, <1>4 DEF Busy
<1>6. \A r : Queued(r)' <=> Queued(r) BY <1>2 DEF Queued
<1>7. wr[w] \in Ranges /\ ~Queued(wr[w]) BY <1>1, <1>5 DEF QueueInv
<1>8. \A v \in Writers : Busy(v) /\ v # w => wr[v] # wr[w] BY <1>1, <1>5 DEF QueueInv
<1>9. Held(wr[w]) BY <1>5 DEF Held
<1>10. \A r \in Ranges : Held(r)' <=> Held(r) /\ r # wr[w]
  BY <1>2, <1>5, <1>6, <1>7, <1>8 DEF Held
<1>11. \A r \in Ranges : Due(r)' <=> Due(r)
  <2>1. \A v \in Writers : wpc'[v] = "write" <=> wpc[v] = "write" BY <1>2, <1>4
  <2> QED BY <1>2, <1>6, <2>1 DEF Due
<1>12. slot[wr[w]] \in Slots /\ ~Free(slot[wr[w]]) /\ slot[wr[w]] # mslot
  BY <1>1, <1>7, <1>9 DEF SlotOwned
<1>13. free' \in Seq(Slots) BY <1>2, <1>3, <1>12, ConsFacts
<1>14. TypeOK' BY <1>1, <1>2, <1>4, <1>13 DEF TypeOK
<1>15. MainInv'
  <2>1. \A v \in Writers : wpc'[v] = "exit" => wpc[v] = "exit" BY <1>4
  <2>2. mpc # "done" BY <1>1, <1>2 DEF MainInv
  <2> QED BY <1>1, <1>2, <2>1, <2>2 DEF MainInv
<1>16. QueueInv' BY <1>1, <1>2, <1>5, QueueFrame
<1>17. LayoutInv' BY <1>1, <1>2, LayoutFrame
<1>18. WrittenInv' BY <1>1, <1>2, <1>11, WrittenFrame
<1>19. SlotOwned'
  <2>1. ~Free(mslot) /\ \A j, k \in 1..Len(free) : j # k => free[j] # free[k]
    BY <1>1 DEF SlotOwned
  <2>2. (\A s : Free(s)' <=> Free(s) \/ s = slot[wr[w]])
        /\ \A j, k \in 1..Len(free') : j # k => free'[j] # free'[k]
    BY <1>2, <1>3, <1>12, <2>1, GiveBack
  <2>3. \A s \in Slots : (Free(s) \/ s = mslot \/ \E r \in Ranges : Held(r) /\ slot[r] = s)'
    BY <1>1, <1>2, <1>10, <2>2 DEF SlotOwned
  <2>4. \A r \in Ranges : Held(r) => slot[r] \in Slots /\ ~Free(slot[r]) /\ slot[r] # mslot
            /\ \A q \in Ranges : Held(q) /\ q # r => slot[q] # slot[r]
    BY <1>1 DEF SlotOwned
  <2>5. \A r \in Ranges : Held(r)' => slot'[r] \in Slots /\ ~Free(slot[r])' /\ slot'[r] # mslot'
            /\ \A q \in Ranges : Held(q)' /\ q # r => slot'[q] # slot'[r]
    BY <1>2, <1>7, <1>9, <1>10, <2>2, <2>4
  <2>6. ~Free(mslot)' BY <1>2, <1>12, <2>1, <2>2
  <2> QED BY <2>2, <2>3, <2>5, <2>6 DEF SlotOwned
<1> QED BY <1>14, <1>15, <1>16, <1>17, <1>18, <1>19 DEF PipeInv

-----------------------------------------------------------------------------
LEMMA InvStep == PipeInv /\ [Next]_vars => PipeInv'
<1> SUFFICES ASSUME PipeInv, [Next]_vars PROVE PipeInv' OBVIOUS
<1>1. CASE (\E w \in Writers : CreateWriter(w)) \/ CreateFails \/ Started BY <1>1, StartStep
<1>2. CASE LoopEnds \/ Close \/ Join \/ JoinCreated BY <1>2, EndStep
<1>3. CASE Acquire BY <1>3, AcquireStep
<1>4. CASE Capture BY <1>4, CaptureStep
<1>5. CASE CaptureFails BY <1>5, CaptureFailsStep
<1>6. CASE Push BY <1>6, PushStep
<1>7. CASE \E w \in Writers : Pop(w) BY <1>7, PopStep
<1>8. CASE \E w \in Writers : Write(w) BY <1>8, WriteStep
<1>9. CASE \E w \in Writers : Release(w) BY <1>9, ReleaseStep
<1>10. CASE UNCHANGED vars
  <2>1. UNCHANGED <<free, buf, mpc, i, mslot, cur_off, slot, off, used, err, header, wpc, wr,
                    queue, closed, file>>
    BY <1>10 DEF vars, pool, main, work
  <2>2. \A w \in Writers : Still(w) BY <2>1 DEF Still
  <2>3. SlotOwned' /\ QueueInv' /\ LayoutInv' /\ WrittenInv' BY <2>1, <2>2, Quiet
  <2>4. TypeOK' BY <2>1 DEF PipeInv, TypeOK
  <2>5. MainInv' BY <2>1 DEF PipeInv, MainInv
  <2> QED BY <2>3, <2>4, <2>5 DEF PipeInv
<1> QED
  BY <1>1, <1>2, <1>3, <1>4, <1>5, <1>6, <1>7, <1>8, <1>9, <1>10 DEF Next, Main, Writer

(* The inductive invariant of the pipeline: who holds which slot, which    *)
(* range has which extent, and what is still to be written.                *)
THEOREM Invariance == Spec => []PipeInv
BY InitInv, InvStep, PTL DEF Spec

(* Type correctness, the free stack and the queue included.                *)
THEOREM PipelineTypeCorrect == Spec => []TypeOK
<1>1. PipeInv => TypeOK BY DEF PipeInv
<1> QED BY Invariance, <1>1, PTL

(* A staging slot is in the pool, with the main thread or with one item,   *)
(* never with two of them and never with none.                             *)
THEOREM SlotsOwned == Spec => []SlotOwned
<1>1. PipeInv => SlotOwned BY DEF PipeInv
<1> QED BY Invariance, <1>1, PTL

(* No extent reaches past the mapping.                                     *)
LEMMA InMapping == ASSUME PipeInv PROVE cur_off <= Start[NRanges + 1]
<1>1. i \in 1..(NRanges + 1) /\ cur_off \in Nat BY DEF PipeInv, TypeOK
<1>2. NRanges \in Nat /\ NRanges + 1 \in 1..(NRanges + 1) BY PipelineAssumption
<1>3. Start[i] \in Nat /\ Start[NRanges + 1] \in Nat BY <1>1, <1>2, PipelineAssumption
<1>4. LayoutInv BY DEF PipeInv
<1>5. CASE i = NRanges + 1
  <2>1. mpc \notin {"push", "full"} BY <1>2, <1>5 DEF PipeInv, MainInv
  <2> QED BY <1>4, <1>5, <2>1 DEF LayoutInv
<1>6. CASE i # NRanges + 1
  <2>1. i \in Ranges /\ i < NRanges + 1 BY <1>1, <1>2, <1>6 DEF Ranges
  <2>2. Start[i] + Most(i) <= Start[NRanges + 1] /\ Most(i) \in Nat
    BY <1>2, <2>1, PipelineAssumption, MostType
  <2> QED BY <1>1, <1>3, <1>4, <2>2 DEF LayoutInv
<1> QED BY <1>5, <1>6

(* An image reported as good has every range in the extent its descriptor  *)
(* names, whatever the order in which the writers worked.                  *)
THEOREM Complete == Spec => []ImageComplete
<1>1. PipeInv => ImageComplete
  <2> SUFFICES ASSUME PipeInv, mpc = "done", err = "no", NEW r \in Ranges
               PROVE  /\ header = "new" /\ off[r] + used[r] <= Start[NRanges + 1]
                      /\ \A o \in Extent(r) : file[o] = r
    <3>1. PipeInv /\ mpc = "done" /\ err = "no" => header = "new" BY DEF PipeInv, MainInv
    <3> QED BY <3>1 DEF ImageComplete
  <2>1. header = "new" /\ i = NRanges + 1 /\ queue = <<>>
        /\ \A w \in Writers : wpc[w] \in {"none", "exit"}
    BY DEF PipeInv, MainInv
  <2>2. ~Queued(r) BY <2>1 DEF Queued
  <2>3. ~Due(r) BY <2>1, <2>2 DEF Due
  <2>4. r < i BY <2>1, PipelineAssumption DEF Ranges
  <2>5. off[r] + used[r] <= cur_off BY <2>4 DEF PipeInv, LayoutInv, Assigned
  <2>6. /\ off[r] \in Nat /\ used[r] \in Nat /\ cur_off \in Nat
        /\ Start[NRanges + 1] \in Nat
    BY PipelineAssumption DEF PipeInv, TypeOK
  <2>7. off[r] + used[r] <= Start[NRanges + 1] BY <2>5, <2>6, InMapping
  <2> QED BY <2>1, <2>3, <2>4, <2>7 DEF PipeInv, WrittenInv
<1> QED BY Invariance, <1>1, PTL

(* Whatever failed, every slot is back and the queue empty at the end.     *)
THEOREM AllDrained == Spec => []Drained
<1>1. PipeInv => Drained
  <2> SUFFICES ASSUME PipeInv, mpc = "done" PROVE queue = <<>> /\ \A s \in Slots : Free(s)
    BY DEF Drained
  <2>1. mslot = NoSlot /\ queue = <<>> /\ \A w \in Writers : wpc[w] \in {"none", "exit"}
    BY DEF PipeInv, MainInv
  <2>2. \A r : ~Queued(r) BY <2>1 DEF Queued
  <2>3. \A r : ~Held(r) BY <2>1, <2>2 DEF Held, Busy
  <2> QED BY <2>1, <2>3, PipelineAssumption DEF PipeInv, SlotOwned
<1> QED BY Invariance, <1>1, PTL
=============================================================================
