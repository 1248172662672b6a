------------------------ MODULE ReplayableFaults_proof ------------------------
(***************************************************************************)
(* Proofs about ReplayableFaults, for any number of warps, entries,        *)
(* batches, replays and events: entries are read with the IV they were     *)
(* written with, and no fault is forgotten unless the replay policy is     *)
(* that of one replay for every block.                                     *)
(***************************************************************************)
EXTENDS ReplayableFaults, SequenceTheorems, TLAPS

(* Sums of numbers below the modulus wrap at most once.                    *)
LEMMA IvOnce ==
  ASSUME FaultsAssumption, NEW x \in Nat, x < 2 * NumEntries
  PROVE  Iv(x) = IF x < NumEntries THEN x ELSE x - NumEntries
<1>0. NumEntries \in Nat \ {0} BY FaultsAssumption
<1>1. CASE x < NumEntries BY <1>0, <1>1 DEF Iv
<1>2. CASE x >= NumEntries
  <2>1. PICK y \in 0..(NumEntries - 1) : x = y + NumEntries BY <1>0, <1>2
  <2>2. (y + NumEntries) % NumEntries = y BY <1>0
  <2> QED BY <1>0, <1>2, <2>1, <2>2 DEF Iv
<1> QED BY <1>0, <1>1, <1>2

(* Moving on by n and then by j is moving on by both.                      *)
LEMMA IvSum ==
  ASSUME FaultsAssumption, NEW d \in 0..(NumEntries - 1), NEW n \in Nat, NEW j \in Nat, n + j <= NumEntries
  PROVE  Iv(d + n) \in 0..(NumEntries - 1) /\ Iv(Iv(d + n) + j) = Iv(d + (n + j))
<1>0. NumEntries \in Nat \ {0} BY FaultsAssumption
<1>1. PICK x : x = d + n OBVIOUS
<1>2. x \in Nat /\ x < 2 * NumEntries BY <1>0, <1>1
<1>3. Iv(x) = IF x < NumEntries THEN x ELSE x - NumEntries BY <1>2, FaultsAssumption, IvOnce
<1>4. PICK y : y = Iv(x) + j OBVIOUS
<1>5. y \in Nat /\ y < 2 * NumEntries BY <1>0, <1>1, <1>2, <1>3, <1>4
<1>6. Iv(y) = IF y < NumEntries THEN y ELSE y - NumEntries BY <1>5, FaultsAssumption, IvOnce
<1>7. PICK z : z = d + (n + j) OBVIOUS
<1>8. z \in Nat /\ z < 2 * NumEntries BY <1>0, <1>7
<1>9. Iv(z) = IF z < NumEntries THEN z ELSE z - NumEntries BY <1>8, FaultsAssumption, IvOnce
<1>10. Iv(y) = Iv(z) BY <1>0, <1>1, <1>2, <1>3, <1>4, <1>5, <1>6, <1>7, <1>8, <1>9
<1>11. Iv(x) \in 0..(NumEntries - 1) BY <1>0, <1>1, <1>2, <1>3
<1> QED BY <1>1, <1>4, <1>7, <1>10, <1>11

LEMMA MinPair ==
  ASSUME NEW a \in Int, NEW b \in Int
  PROVE  Min({a, b}) = IF a <= b THEN a ELSE b
<1>1. CASE a <= b BY <1>1 DEF Min
<1>2. CASE b < a BY <1>2 DEF Min
<1> QED BY <1>1, <1>2

(* The buffer, the part of the invariant that is about entries and IVs.    *)
Entries == [w : Warps, valid : BOOLEAN, iv : 0..(NumEntries - 1)]
BufOK == /\ buf \in Seq(Entries) /\ Len(buf) < NumEntries
         /\ hwq \in Seq(Warps) /\ known \in Nat /\ {enc, dec} \subseteq 0..(NumEntries - 1)
         /\ IvAhead /\ IvInStep

LEMMA BufStutter ==
  ASSUME BufOK, mode' = mode, UNCHANGED <<buf, enc, dec>>, hwq' \in Seq(Warps), known' \in 0..Len(buf)
  PROVE  BufOK'
BY DEF BufOK, IvAhead, IvInStep, Entries, cc, Warps, Acc

(* Entries that are taken off the front keep the rest in step.             *)
LEMMA TakenOK ==
  ASSUME FaultsAssumption, BufOK, mode' = mode, NEW n \in 0..known, Taken(n), UNCHANGED <<hwq, enc>>
  PROVE  BufOK'
<1> DEFINE N == NumEntries
           l == Len(buf)
<1>0. /\ buf \in Seq(Entries) /\ l < N /\ l \in Nat /\ N \in Nat
      /\ known \in Nat /\ known <= l /\ n \in Nat /\ n <= l
      /\ dec \in 0..(N - 1) /\ enc \in 0..(N - 1) /\ hwq \in Seq(Warps)
      /\ cc' = cc /\ Entries' = Entries /\ Warps' = Warps
  BY FaultsAssumption DEF BufOK, IvInStep, cc, Entries, Warps, Acc
<1>1. buf' = SubSeq(buf, n + 1, l) /\ known' = known - n BY DEF Taken
<1>2. /\ buf' \in Seq(Entries) /\ Len(buf') = l - n /\ DOMAIN buf' = 1..(l - n)
      /\ \A k \in 1..(l - n) : buf'[k] = buf[n + k]
  <2>1. n + 1 \in 1..(l + 1) /\ l \in n..l /\ l - (n + 1) + 1 = l - n BY <1>0
  <2>2. \A k \in 1..(l - n) : n + 1 + k - 1 = n + k BY <1>0
  <2>0. \A i \in (n + 1)..l : buf[i] \in Entries BY <1>0, ElementOfSeq
  <2>3. SubSeq(buf, n + 1, l) \in Seq(Entries)
          /\ Len(SubSeq(buf, n + 1, l)) = (IF n + 1 <= l THEN l - (n + 1) + 1 ELSE 0)
          /\ \A k \in 1..(l - (n + 1) + 1) : SubSeq(buf, n + 1, l)[k] = buf[n + 1 + k - 1]
    BY <1>0, <2>0, <2>1, SubSeqProperties
  <2>4. Len(buf') = l - n BY <1>0, <1>1, <2>3
  <2>5. DOMAIN buf' = 1..(l - n) BY <1>1, <2>3, <2>4, LenProperties
  <2> QED BY <1>0, <1>1, <2>1, <2>2, <2>3, <2>4, <2>5
<1>3. cc => dec' = Iv(dec + n) BY DEF Taken
<1>4. dec' \in 0..(N - 1)
  <2>1. CASE cc
    <3>1. n + 0 <= N /\ 0 \in Nat BY <1>0
    <3> QED BY <1>0, <1>3, <2>1, <3>1, FaultsAssumption, IvSum
  <2>2. CASE ~cc BY <1>0, <2>2 DEF Taken
  <2> QED BY <2>1, <2>2
<1>5. ASSUME cc PROVE enc' = Iv(dec' + Len(buf'))
  <2>1. enc = Iv(dec + l) BY <1>0, <1>5 DEF BufOK, IvAhead
  <2>2. l - n \in Nat /\ n + (l - n) = l /\ n + (l - n) <= N BY <1>0
  <2>3. Iv(Iv(dec + n) + (l - n)) = Iv(dec + (n + (l - n))) BY <1>0, <2>2, FaultsAssumption, IvSum
  <2> QED BY <1>0, <1>2, <1>3, <1>5, <2>1, <2>2, <2>3
<1>6. ASSUME cc, NEW k \in DOMAIN buf' PROVE buf'[k].iv = Iv(dec' + k - 1)
  <2>1. k \in 1..(l - n) /\ n + k \in 1..l /\ DOMAIN buf = 1..l BY <1>0, <1>2
  <2>2. buf'[k].iv = Iv(dec + (n + k) - 1)
    <3>1. \A j \in DOMAIN buf : buf[j].iv = Iv(dec + j - 1) BY <1>6 DEF BufOK, IvInStep
    <3>2. buf[n + k].iv = Iv(dec + (n + k) - 1) BY <2>1, <3>1
    <3> QED BY <1>2, <2>1, <3>2
  <2>3. /\ k - 1 \in Nat /\ n + (k - 1) <= N /\ dec + (n + k) - 1 = dec + (n + (k - 1))
        /\ dec' + k - 1 = dec' + (k - 1)
    BY <1>0, <1>4, <2>1
  <2>4. Iv(Iv(dec + n) + (k - 1)) = Iv(dec + (n + (k - 1))) BY <1>0, <2>3, FaultsAssumption, IvSum
  <2> QED BY <1>3, <1>6, <2>2, <2>3, <2>4
<1>7. known' \in Nat /\ known' <= Len(buf')
  <2>1. known' = known - n BY <1>1
  <2>2. Len(buf') = l - n BY <1>2
  <2>3. known \in Nat /\ l \in Nat /\ known <= l /\ n \in 0..known BY <1>0
  <2> HIDE DEF l
  <2> QED BY <2>1, <2>2, <2>3
<1>8. IvAhead' /\ IvInStep' BY <1>0, <1>5, <1>6, <1>7 DEF IvAhead, IvInStep
<1>9. Len(buf') < N BY <1>0, <1>2
<1> QED BY <1>0, <1>2, <1>4, <1>7, <1>8, <1>9 DEF BufOK

(* An entry is written with the next IV.                                   *)
LEMMA EnterOK ==
  ASSUME FaultsAssumption, BufOK, mode' = mode, NEW x \in Warps, Enter(x), ~Full,
         hwq' \in Seq(Warps), UNCHANGED <<known, dec>>
  PROVE  BufOK'
<1> DEFINE N == NumEntries
           l == Len(buf)
           e == [w |-> x, valid |-> FALSE, iv |-> enc]
<1>0. /\ buf \in Seq(Entries) /\ l < N - 1 /\ l \in Nat /\ N \in Nat
      /\ dec \in 0..(N - 1) /\ enc \in 0..(N - 1) /\ DOMAIN buf = 1..l
      /\ cc' = cc /\ Entries' = Entries /\ Warps' = Warps
  <2>1. buf \in Seq(Entries) /\ l < N /\ N \in Nat /\ dec \in 0..(N - 1) /\ enc \in 0..(N - 1)
    BY FaultsAssumption DEF BufOK
  <2>2. l \in Nat /\ DOMAIN buf = 1..l /\ l # N - 1 BY <2>1, LenProperties DEF Full
  <2>3. cc' = cc /\ Entries' = Entries /\ Warps' = Warps BY DEF cc, Entries, Warps, Acc
  <2> QED BY <2>1, <2>2, <2>3
<1>1. e \in Entries BY <1>0 DEF Entries
<1>2. buf' = Append(buf, e) BY DEF Enter
<1>3. /\ buf' \in Seq(Entries) /\ Len(buf') = l + 1 /\ DOMAIN buf' = 1..(l + 1)
      /\ \A k \in 1..l : buf'[k] = buf[k]
      /\ buf'[l + 1].iv = enc
  BY <1>0, <1>1, <1>2
<1>4. ASSUME cc PROVE enc = Iv(dec + l) /\ enc' = Iv(enc + 1) /\ enc' = Iv(dec + (l + 1))
  <2>1. enc = Iv(dec + l) BY <1>4 DEF BufOK, IvAhead
  <2>2. l + 1 <= N /\ 1 \in Nat BY <1>0
  <2>3. Iv(Iv(dec + l) + 1) = Iv(dec + (l + 1)) BY <1>0, <2>2, FaultsAssumption, IvSum
  <2>4. enc' = Iv(enc + 1) BY <1>4 DEF Enter
  <2> QED BY <2>1, <2>3, <2>4
<1>5. enc' \in 0..(N - 1)
  <2>1. CASE cc
    <3>1. 1 + 0 <= N /\ 0 \in Nat /\ 1 \in Nat BY <1>0
    <3> QED BY <1>0, <1>4, <2>1, <3>1, FaultsAssumption, IvSum
  <2>2. CASE ~cc BY <1>0, <2>2 DEF Enter
  <2> QED BY <2>1, <2>2
<1>6. cc => enc' = Iv(dec' + Len(buf')) BY <1>3, <1>4
<1>7. ASSUME cc, NEW k \in DOMAIN buf' PROVE buf'[k].iv = Iv(dec' + k - 1)
  <2>1. CASE k \in 1..l BY <1>0, <1>3, <1>7, <2>1 DEF BufOK, IvInStep
  <2>2. CASE k = l + 1
    <3>1. dec + k - 1 = dec + l BY <1>0, <2>2
    <3> QED BY <1>3, <1>4, <1>7, <2>2, <3>1
  <2> QED BY <1>0, <1>3, <2>1, <2>2
<1>8. known' \in Nat /\ known' <= Len(buf') BY <1>0, <1>3 DEF BufOK, IvInStep
<1>9. IvAhead' /\ IvInStep' BY <1>0, <1>6, <1>7, <1>8 DEF IvAhead, IvInStep
<1>10. Len(buf') < N BY <1>0, <1>3
<1> QED BY <1>0, <1>3, <1>5, <1>8, <1>9, <1>10 DEF BufOK

(* A valid bit changes no entry's IV.                                      *)
LEMMA ValidOK ==
  ASSUME BufOK, mode' = mode, NEW k, SetValid(k)
  PROVE  BufOK' /\ DOMAIN buf' = DOMAIN buf /\ \A j \in DOMAIN buf : buf'[j].w = buf[j].w
<1>1. buf \in Seq(Entries) /\ k \in DOMAIN buf /\ buf' = [buf EXCEPT ![k].valid = TRUE] BY DEF BufOK, SetValid
<1> DEFINE e == [buf[k] EXCEPT !.valid = TRUE]
<1>2. e \in Entries /\ e.w = buf[k].w /\ e.iv = buf[k].iv
  <2>1. buf[k] \in Entries BY <1>1
  <2> QED BY <2>1 DEF Entries
<1> HIDE DEF e
<1>3. buf' = [buf EXCEPT ![k] = e] BY <1>1 DEF e
<1>4. k \in 1..Len(buf) BY <1>1
<1>5. /\ buf' \in Seq(Entries) /\ Len(buf') = Len(buf) /\ DOMAIN buf' = DOMAIN buf
      /\ \A j \in DOMAIN buf : buf'[j].w = buf[j].w /\ buf'[j].iv = buf[j].iv
  <2>0. buf \in Seq(Entries) /\ DOMAIN buf = 1..Len(buf) BY <1>1
  <2>1. buf' \in Seq(Entries) /\ Len(buf') = Len(buf)
    BY <1>2, <1>3, <1>4, <2>0, ExceptSeq
  <2>2. DOMAIN buf' = DOMAIN buf /\ \A j \in DOMAIN buf : buf'[j] = IF j = k THEN e ELSE buf[j] BY <1>3
  <2> QED BY <1>2, <2>1, <2>2
<1>6. UNCHANGED <<hwq, enc, dec, known, mode>> BY DEF SetValid, uvm
<1> QED BY <1>5, <1>6 DEF BufOK, IvAhead, IvInStep, Entries, cc, Warps, Acc

(* A push leaves a replay that has not started.                            *)
LEMMA PushCovers ==
  ASSUME FaultsAssumption, ReplayCount, mode' = mode, st' = st, replays' = Min({replays + 1, MaxReplays})
  PROVE  ReplayCount' /\ Unstarted' > 0
<1>1. replays \in Nat /\ replays <= MaxReplays /\ MaxReplays \in Nat /\ MaxReplays >= 2
  BY FaultsAssumption DEF ReplayCount
<1>2. replays' = IF replays + 1 <= MaxReplays THEN replays + 1 ELSE MaxReplays
  <2>1. replays + 1 \in Int /\ MaxReplays \in Int BY <1>1
  <2> QED BY <2>1, MinPair
<1>3. Again(st)' = Again(st) BY DEF Again, Warps, Acc
<1>4. Again(st) # {} => replays > 0 BY DEF ReplayCount
<1> QED BY <1>1, <1>2, <1>3, <1>4 DEF ReplayCount, Unstarted

(* Where a replay ends, those that have not started are as many as before. *)
LEMMA OverKeeps ==
  ASSUME FaultsAssumption, ReplayCount, mode' = mode, ReplayOver, Again(st') \subseteq Again(st)
  PROVE  ReplayCount' /\ Unstarted' = Unstarted
<1>1. Again(st)' = Again(st') BY DEF Again, Warps, Acc
<1>2. replays \in Nat /\ replays <= MaxReplays /\ MaxReplays \in Nat BY FaultsAssumption DEF ReplayCount
<1>3. CASE Again(st) # {} /\ Again(st') = {}
  <2>1. replays' = replays - 1 /\ replays > 0 BY <1>3 DEF ReplayOver, ReplayCount
  <2>2. Unstarted = replays - 1 /\ Unstarted' = replays' BY <1>1, <1>2, <1>3, <2>1 DEF Unstarted
  <2>3. ReplayCount' BY <1>1, <1>2, <1>3, <2>1 DEF ReplayCount
  <2> QED BY <1>2, <2>1, <2>2, <2>3
<1>4. CASE ~(Again(st) # {} /\ Again(st') = {})
  <2>1. replays' = replays /\ (Again(st) = {} <=> Again(st') = {}) BY <1>4 DEF ReplayOver
  <2> QED BY <1>1, <1>2, <2>1 DEF ReplayCount, Unstarted
<1> QED BY <1>3, <1>4

(* A step after which no warp waits without a sign of it.                  *)
LEMMA KeepsAccount ==
  ASSUME Accounted, mode' = mode, fatal => fatal', u.err => u.err', Owed => Owed',
         \A w \in Warps : st'[w] = "stall" => Noticed(w)' \/ (st[w] = "stall" /\ (Noticed(w) => Noticed(w)'))
  PROVE  Accounted'
<1>1. Warps' = Warps BY DEF Warps, Acc
<1> QED BY <1>1 DEF Accounted

(* The fields of the bottom half that its control reads.                   *)
Fields == DOMAIN Idle
Same(r, s) == /\ DOMAIN r = Fields /\ r.pc = s.pc /\ r.rep = s.rep /\ r.cancel = s.cancel
              /\ r.err = s.err /\ r.flush = s.flush
LEMMA FieldsOf ==
  Fields = {"pc", "cancel", "batch", "cached", "i", "sp", "rep", "brep", "batches", "throttled", "thr",
            "fatalSp", "todo", "flush", "dups", "inv", "err"}
BY DEF Fields, Idle
LEMMA ClearFacts == ASSUME NEW r, DOMAIN r = Fields PROVE Same(Clear(r), r)
BY FieldsOf DEF Clear, Same
LEMMA BatchFacts ==
  ASSUME NEW r, DOMAIN r = Fields
  PROVE  Same(NewBatch(r), [r EXCEPT !.pc = "get"])
<1>1. Same(Clear(r), r) BY ClearFacts
<1> QED BY <1>1, FieldsOf DEF NewBatch, Same
LEMMA FailedFacts ==
  ASSUME NEW r, DOMAIN r = Fields
  PROVE  Same(Failed(r), [r EXCEPT !.pc = "end", !.err = TRUE])
<1>1. Same(Clear(r), r) BY ClearFacts
<1> QED BY <1>1, FieldsOf DEF Failed, Same
LEMMA FlushFacts ==
  ASSUME NEW r, DOMAIN r = Fields, NEW how, NEW ret
  PROVE  Same(Flush(r, how, ret), [r EXCEPT !.pc = "flush", !.flush = [mode |-> how, ret |-> ret]])
<1>1. Same(Clear(r), r) BY ClearFacts
<1> QED BY <1>1, FieldsOf DEF Flush, Same
LEMMA DoneFacts ==
  ASSUME NEW r, DOMAIN r = Fields
  PROVE  Same(BatchDone(r), [r EXCEPT !.pc = "loop"])
<1>1. Same(Clear(r), r) BY ClearFacts
<1> QED BY <1>1, FieldsOf DEF BatchDone, Same
LEMMA ApplyFacts == ASSUME NEW r, DOMAIN r = Fields, NEW d PROVE Same(Apply(r, d), r)
BY FieldsOf DEF Apply, Same

(* The invariant, part by part.                                            *)
StOK == st \in [Warps -> {"run", "again", "stall", "done", "cancelled", "gone"}]
LEMMA Parts ==
  FaultsInv <=> /\ mode \in Modes /\ DOMAIN u = Fields /\ StOK /\ BufOK /\ ReplayCount /\ ForCancel
                /\ (policy # "block" => Accounted)
BY DEF FaultsInv, FaultsType, Fields, StOK, BufOK, Entries
LEMMA PartsNext ==
  ASSUME mode' \in Modes, DOMAIN u' = Fields, StOK', BufOK', ReplayCount', ForCancel', policy' # "block" => Accounted'
  PROVE  FaultsInv'
BY DEF FaultsInv, FaultsType, Fields, StOK, BufOK, Entries

(* Steps that touch the bottom half only: what is owed stays owed.         *)
LEMMA Quiet ==
  ASSUME FaultsInv, UNCHANGED <<mode, st, replays, fatal, buf, hwq, lost, enc, dec>>,
         known' \in 0..Len(buf), DOMAIN u' = Fields, ForCancel',
         policy # "block" => (u'.err \/ Owed' \/ ((u.err => u'.err) /\ (Owed => Owed')))
  PROVE  FaultsInv'
<1>1. BufOK /\ ReplayCount /\ StOK /\ mode \in Modes /\ hwq \in Seq(Warps) BY Parts DEF BufOK
<1>2. BufOK' BY <1>1, BufStutter
<1>3. ReplayCount' /\ StOK' /\ mode' \in Modes /\ policy' = policy /\ Warps' = Warps
  BY <1>1 DEF ReplayCount, StOK, Again, Warps, Acc, policy
<1>4. \A w \in Warps : st' = st /\ (Noticed(w) => Noticed(w)')
  BY DEF Noticed, InBuffer, Unstarted, Again, Warps, Acc
<1>5. ASSUME policy # "block" PROVE Accounted'
  <2>1. Accounted BY <1>5, Parts
  <2>2. CASE u'.err \/ Owed' BY <2>2 DEF Accounted
  <2>3. CASE (u.err => u'.err) /\ (Owed => Owed') BY <1>4, <2>1, <2>3, KeepsAccount
  <2> QED BY <1>5, <2>2, <2>3
<1> QED BY <1>2, <1>3, <1>5, PartsNext

(* Steps of the environment leave the bottom half alone.                   *)
LEMMA Outside ==
  ASSUME FaultsInv, UNCHANGED <<mode, st, replays, buf, hwq, lost, enc, dec, known, u>>, fatal => fatal'
  PROVE  FaultsInv'
<1>1. /\ BufOK /\ ReplayCount /\ StOK /\ mode \in Modes /\ hwq \in Seq(Warps) /\ known \in 0..Len(buf)
      /\ DOMAIN u = Fields /\ ForCancel
  BY Parts DEF BufOK, IvInStep
<1>2. BufOK' BY <1>1, BufStutter
<1>3. ReplayCount' /\ StOK' /\ mode' \in Modes /\ policy' = policy /\ ForCancel' /\ Owed' = Owed /\ DOMAIN u' = Fields
  BY <1>1 DEF ReplayCount, StOK, Again, Warps, Acc, policy, ForCancel, Owed
<1>4. \A w \in Warps : st' = st /\ (Noticed(w) => Noticed(w)')
  BY DEF Noticed, InBuffer, Unstarted, Again, Warps, Acc
<1>5. ASSUME policy # "block" PROVE Accounted'
  <2>1. Accounted BY <1>5, Parts
  <2> QED BY <1>3, <1>4, <2>1, KeepsAccount
<1> QED BY <1>2, <1>3, <1>5, PartsNext

(* Steps that push a replay, which reaches every warp that is stalled.     *)
LEMMA Pushed ==
  ASSUME FaultsAssumption, FaultsInv, UNCHANGED <<mode, st>>, replays' = Min({replays + 1, MaxReplays}),
         BufOK', DOMAIN u' = Fields, ForCancel'
  PROVE  FaultsInv'
<1>1. ReplayCount /\ StOK /\ mode \in Modes BY Parts
<1>2. ReplayCount' /\ Unstarted' > 0 BY <1>1, PushCovers
<1>3. StOK' /\ mode' \in Modes BY <1>1 DEF StOK, Warps, Acc
<1>4. Accounted' BY <1>2 DEF Accounted, Noticed
<1> QED BY <1>2, <1>3, <1>4, PartsNext

(* Steps after which a replay is owed, or no warp is stalled.              *)
LEMMA Owing ==
  ASSUME FaultsAssumption, FaultsInv, mode' = mode, StOK', ReplayCount', BufOK', DOMAIN u' = Fields, ForCancel',
         u'.err \/ Owed' \/ \A w \in Warps : st'[w] # "stall"
  PROVE  FaultsInv'
<1>1. mode' \in Modes /\ Warps' = Warps BY Parts DEF Warps, Acc
<1>2. Accounted' BY <1>1 DEF Accounted
<1> QED BY <1>1, <1>2, PartsNext

(* What a cancel leaves of the warps.                                      *)
LEMMA CancelFacts ==
  ASSUME FaultsInv, NEW S, st' = Cancelled(S), UNCHANGED <<mode, replays>>
  PROVE  StOK' /\ ReplayCount' /\ \A w \in Warps : st'[w] # "stall"
<1>1. StOK /\ ReplayCount BY Parts
<1>2. Warps' = Warps BY DEF Warps, Acc
<1>3. StOK' /\ \A w \in Warps : st'[w] # "stall" BY <1>1, <1>2 DEF StOK, Cancelled
<1>4. Again(st)' = Again(st) BY <1>1, <1>2 DEF Again, StOK, Cancelled
<1> QED BY <1>1, <1>3, <1>4 DEF ReplayCount

LEMMA InitInv == ASSUME FaultsAssumption PROVE Init => FaultsInv
<1> SUFFICES ASSUME Init PROVE FaultsInv OBVIOUS
<1>1. BufOK BY FaultsAssumption DEF Init, BufOK, IvAhead, IvInStep, Iv
<1>2. DOMAIN u = Fields /\ u.pc = "idle" /\ st = [w \in Warps |-> "run"] BY DEF Init, Fields, Idle
<1>3. StOK BY <1>2 DEF StOK
<1>4. ReplayCount BY <1>2, FaultsAssumption DEF Init, ReplayCount, Again
<1>5. ForCancel BY <1>2 DEF ForCancel
<1>6. Accounted BY <1>2 DEF Accounted
<1> QED BY <1>1, <1>2, <1>3, <1>4, <1>5, <1>6, Parts DEF Init

-----------------------------------------------------------------------------
(* The GPU.                                                                *)
LEMMA StepWarpAccess ==
  ASSUME FaultsAssumption, FaultsInv, NEW x \in Warps, WarpAccess(x)
  PROVE  FaultsInv'
<1> DEFINE ok == (Allowed(x) /\ Acc[x].page \notin BadPages) \/ (Acc[x].type = Prefetch /\ ~pf)
<1>1. /\ st' = [st EXCEPT ![x] = IF ok \/ Acc[x].type = Prefetch THEN "done" ELSE "stall"]
      /\ hwq' = IF ok \/ ~cc THEN hwq ELSE Append(hwq, x)
      /\ lost' = IF ok \/ cc \/ ~Full THEN lost ELSE lost \cup {x}
      /\ IF ok \/ cc \/ Full THEN UNCHANGED <<buf, enc>> ELSE Enter(x)
      /\ ReplayOver /\ UNCHANGED <<mode, known, dec, u, fatal>>
  BY DEF WarpAccess, uvm
<1> HIDE DEF ok
<1>2. /\ mode \in Modes /\ DOMAIN u = Fields /\ StOK /\ BufOK /\ ReplayCount /\ ForCancel
      /\ hwq \in Seq(Warps) /\ buf \in Seq(Entries) /\ known \in 0..Len(buf)
  BY Parts DEF BufOK, IvInStep
<1>3. Warps' = Warps /\ cc' = cc /\ policy' = policy /\ mode' \in Modes /\ DOMAIN u' = Fields
  BY <1>1, <1>2 DEF Warps, Acc, cc, policy
<1>4. hwq' \in Seq(Warps) /\ ToSet(hwq) \subseteq ToSet(hwq') /\ (~ok /\ cc => x \in ToSet(hwq'))
  <2>1. CASE ok \/ ~cc BY <1>1, <1>2, <2>1
  <2>2. CASE ~ok /\ cc
    <3>1. hwq' = Append(hwq, x) BY <1>1, <2>2
    <3> QED BY <1>2, <3>1 DEF ToSet
  <2> QED BY <2>1, <2>2
<1>5. StOK' /\ Again(st') \subseteq Again(st) BY <1>1, <1>2, <1>3 DEF StOK, Again
<1>6. ReplayCount' /\ Unstarted' = Unstarted BY <1>1, <1>2, <1>5, OverKeeps
<1>7. BufOK' /\ (\A w \in Warps : InBuffer(w) => InBuffer(w)') /\ (buf # <<>> => buf' # <<>>)
        /\ (~ok /\ ~cc /\ ~Full => InBuffer(x)')
  <2>1. CASE ok \/ cc \/ Full
    <3>1. BufOK' BY <1>1, <1>2, <1>4, <2>1, BufStutter
    <3> QED BY <1>1, <2>1, <3>1 DEF InBuffer
  <2>2. CASE ~ok /\ ~cc /\ ~Full
    <3>1. Enter(x) BY <1>1, <2>2
    <3>2. BufOK' BY <1>1, <1>2, <1>4, <2>2, <3>1, EnterOK
    <3>3. buf' = Append(buf, [w |-> x, valid |-> FALSE, iv |-> enc]) BY <3>1 DEF Enter
    <3>4. Len(buf') = Len(buf) + 1 /\ buf'[Len(buf) + 1].w = x /\ \A k \in DOMAIN buf : buf'[k] = buf[k]
      BY <1>2, <3>3
    <3>5. DOMAIN buf' = 1..(Len(buf) + 1) /\ DOMAIN buf = 1..Len(buf) BY <1>2, <3>3
    <3> QED BY <1>2, <3>2, <3>4, <3>5 DEF InBuffer
  <2> QED BY <2>1, <2>2
<1>8. ASSUME NEW w \in Warps, st'[w] = "stall"
      PROVE  Noticed(w)' \/ (st[w] = "stall" /\ (Noticed(w) => Noticed(w)'))
  <2>1. CASE w = x
    <3>1. ~ok BY <1>1, <1>2, <1>8, <2>1 DEF StOK
    <3>2. CASE cc BY <1>4, <2>1, <3>1, <3>2 DEF Noticed
    <3>3. CASE ~cc /\ ~Full BY <1>7, <2>1, <3>1, <3>3 DEF Noticed
    <3>4. CASE ~cc /\ Full
      <4>1. x \in lost' /\ buf' = buf BY <1>1, <3>1, <3>4
      <4>2. Len(buf) > 0 BY <3>4, FaultsAssumption DEF Full
      <4> QED BY <1>2, <2>1, <4>1, <4>2 DEF Noticed
    <3> QED BY <3>2, <3>3, <3>4
  <2>2. CASE w # x
    <3>1. st[w] = "stall" BY <1>1, <1>2, <1>8, <2>2 DEF StOK
    <3>2. lost \subseteq lost' BY <1>1
    <3> QED BY <1>4, <1>6, <1>7, <3>1, <3>2 DEF Noticed
  <2> QED BY <2>1, <2>2
<1>9. ForCancel' /\ Owed' = Owed BY <1>1, <1>2, <1>3 DEF ForCancel, Owed
<1>10. ASSUME policy # "block" PROVE Accounted'
  <2>1. Accounted BY <1>10, Parts
  <2> QED BY <1>1, <1>8, <1>9, <2>1, KeepsAccount
<1> QED BY <1>3, <1>5, <1>6, <1>7, <1>9, <1>10, PartsNext

LEMMA StepGspCopy ==
  ASSUME FaultsAssumption, FaultsInv, GspCopy
  PROVE  FaultsInv'
<1>1. /\ hwq # <<>> /\ ~Full /\ Enter(Head(hwq)) /\ hwq' = Tail(hwq)
      /\ UNCHANGED <<mode, st, lost, known, dec, u, replays, fatal>>
  BY DEF GspCopy, uvm
<1>2. /\ mode \in Modes /\ DOMAIN u = Fields /\ StOK /\ BufOK /\ ReplayCount /\ ForCancel
      /\ hwq \in Seq(Warps) /\ buf \in Seq(Entries)
  BY Parts DEF BufOK
<1>3. Head(hwq) \in Warps /\ hwq' \in Seq(Warps) BY <1>1, <1>2
<1>4. BufOK' BY <1>1, <1>2, <1>3, EnterOK
<1>5. /\ Warps' = Warps /\ policy' = policy /\ mode' \in Modes /\ DOMAIN u' = Fields /\ ForCancel' /\ Owed' = Owed
      /\ StOK' /\ ReplayCount' /\ Unstarted' = Unstarted
  BY <1>1, <1>2 DEF Warps, Acc, policy, ForCancel, Owed, StOK, ReplayCount, Unstarted, Again
<1>6. buf' = Append(buf, [w |-> Head(hwq), valid |-> FALSE, iv |-> enc]) BY <1>1 DEF Enter
<1>7. /\ DOMAIN buf' = 1..(Len(buf) + 1) /\ DOMAIN buf = 1..Len(buf) /\ Len(buf) \in Nat /\ buf' # <<>>
      /\ buf'[Len(buf) + 1].w = Head(hwq) /\ \A k \in DOMAIN buf : buf'[k] = buf[k]
  BY <1>2, <1>6
<1>8. \A w \in Warps : InBuffer(w) => InBuffer(w)' BY <1>7 DEF InBuffer
<1>h. PICK h \in Warps : h = Head(hwq) BY <1>3
<1>9. InBuffer(h)'
  <2>1. Len(buf) + 1 \in DOMAIN buf' /\ buf'[Len(buf) + 1].w = h BY <1>7, <1>h
  <2> QED BY <2>1 DEF InBuffer
<1>10. \A w \in ToSet(hwq) : w = Head(hwq) \/ w \in ToSet(hwq')
  <2> SUFFICES ASSUME NEW k \in DOMAIN hwq PROVE hwq[k] = Head(hwq) \/ hwq[k] \in ToSet(hwq')
    BY DEF ToSet
  <2>1. CASE k = 1 BY <1>1, <1>2, <2>1
  <2>2. CASE k # 1
    <3>1. k - 1 \in DOMAIN hwq' /\ hwq'[k - 1] = hwq[k] BY <1>1, <1>2, <2>2
    <3> QED BY <3>1 DEF ToSet
  <2> QED BY <2>1, <2>2
<1>11. \A w \in Warps : st' = st /\ (Noticed(w) => Noticed(w)')
  BY <1>1, <1>5, <1>7, <1>8, <1>9, <1>10, <1>h DEF Noticed
<1>12. ASSUME policy # "block" PROVE Accounted'
  <2>1. Accounted BY <1>12, Parts
  <2> QED BY <1>1, <1>5, <1>11, <2>1, KeepsAccount
<1> QED BY <1>4, <1>5, <1>12, PartsNext

LEMMA StepSetValid ==
  ASSUME FaultsInv, NEW k, SetValid(k)
  PROVE  FaultsInv'
<1>1. UNCHANGED <<mode, st, lost, hwq, known, dec, u, replays, fatal>> BY DEF SetValid, uvm
<1>2. mode \in Modes /\ DOMAIN u = Fields /\ StOK /\ BufOK /\ ReplayCount /\ ForCancel /\ buf \in Seq(Entries)
  BY Parts DEF BufOK
<1>3. BufOK' /\ DOMAIN buf' = DOMAIN buf /\ \A j \in DOMAIN buf : buf'[j].w = buf[j].w BY <1>1, <1>2, ValidOK
<1>4. /\ Warps' = Warps /\ policy' = policy /\ mode' \in Modes /\ DOMAIN u' = Fields /\ ForCancel' /\ Owed' = Owed
      /\ StOK' /\ ReplayCount' /\ Unstarted' = Unstarted
  BY <1>1, <1>2 DEF Warps, Acc, policy, ForCancel, Owed, StOK, ReplayCount, Unstarted, Again
<1>5. buf' # <<>> BY <1>2, <1>3 DEF SetValid
<1>6. \A w \in Warps : InBuffer(w) => InBuffer(w)' BY <1>3 DEF InBuffer
<1>7. \A w \in Warps : st' = st /\ (Noticed(w) => Noticed(w)') BY <1>1, <1>4, <1>5, <1>6 DEF Noticed
<1>8. ASSUME policy # "block" PROVE Accounted'
  <2>1. Accounted BY <1>8, Parts
  <2> QED BY <1>1, <1>4, <1>7, <2>1, KeepsAccount
<1> QED BY <1>3, <1>4, <1>8, PartsNext

LEMMA StepGpuReplay ==
  ASSUME FaultsAssumption, FaultsInv, GpuReplay
  PROVE  FaultsInv'
<1>1. /\ replays > 0 /\ Again(st) = {} /\ st' = [w \in Warps |-> IF st[w] = "stall" THEN "again" ELSE st[w]]
      /\ replays' = IF Again(st') = {} THEN replays - 1 ELSE replays
      /\ UNCHANGED <<mode, hwq, buf, enc, known, dec, u, fatal>>
  BY DEF GpuReplay, uvm
<1>2. /\ mode \in Modes /\ DOMAIN u = Fields /\ StOK /\ BufOK /\ ReplayCount /\ ForCancel
      /\ hwq \in Seq(Warps) /\ known \in 0..Len(buf)
  BY Parts DEF BufOK, IvInStep
<1>3. Warps' = Warps BY <1>1 DEF Warps, Acc
<1>4. StOK' /\ \A w \in Warps : st'[w] # "stall" BY <1>1, <1>2, <1>3 DEF StOK
<1>5. BufOK' BY <1>1, <1>2, BufStutter
<1>6. ReplayCount'
  <2>1. Again(st)' = Again(st') BY <1>3 DEF Again
  <2>2. replays \in Nat /\ replays <= MaxReplays /\ MaxReplays \in Nat BY <1>2, FaultsAssumption DEF ReplayCount
  <2> QED BY <1>1, <2>1, <2>2 DEF ReplayCount
<1>7. DOMAIN u' = Fields /\ ForCancel' BY <1>1, <1>2 DEF ForCancel
<1> QED BY <1>1, <1>4, <1>5, <1>6, <1>7, Owing

-----------------------------------------------------------------------------
(* The environment.                                                        *)
LEMMA StepStop ==
  ASSUME FaultsAssumption, FaultsInv, NEW S, Stop(S), UNCHANGED <<mode, lost, hwq, buf, enc, known, dec, u, fatal>>
  PROVE  FaultsInv'
<1>1. /\ mode \in Modes /\ DOMAIN u = Fields /\ StOK /\ BufOK /\ ReplayCount /\ ForCancel
      /\ hwq \in Seq(Warps) /\ known \in 0..Len(buf)
  BY Parts DEF BufOK, IvInStep
<1>2. /\ Warps' = Warps /\ policy' = policy /\ mode' \in Modes /\ DOMAIN u' = Fields /\ ForCancel' /\ Owed' = Owed
  BY <1>1 DEF Warps, Acc, policy, ForCancel, Owed
<1>3. /\ StOK' /\ Again(st') \subseteq Again(st)
      /\ \A w \in Warps : st'[w] = "stall" => st[w] = "stall"
  BY <1>1, <1>2 DEF StOK, Again, Stop
<1>4. ReplayCount' /\ Unstarted' = Unstarted BY <1>1, <1>3, OverKeeps DEF Stop
<1>5. BufOK' BY <1>1, BufStutter
<1>6. \A w \in Warps : Noticed(w) => Noticed(w)' BY <1>4 DEF Noticed, InBuffer
<1>7. ASSUME policy # "block" PROVE Accounted'
  <2>1. Accounted BY <1>7, Parts
  <2> QED BY <1>2, <1>3, <1>6, <2>1, KeepsAccount
<1> QED BY <1>2, <1>3, <1>4, <1>5, <1>7, PartsNext

LEMMA StepResume ==
  ASSUME FaultsInv, uvm_parent_gpu_fault_buffer_resume
  PROVE  FaultsInv'
<1>1. UNCHANGED <<mode, st, replays, fatal, buf, hwq, lost, enc, dec, u>> /\ known' = Len(buf)
  BY DEF uvm_parent_gpu_fault_buffer_resume, gpu
<1>2. known' \in 0..Len(buf) BY <1>1, Parts DEF BufOK
<1>3. DOMAIN u' = Fields /\ ForCancel' BY <1>1, Parts DEF ForCancel
<1>4. (u.err => u'.err) /\ (Owed => Owed') BY <1>1 DEF Owed, policy
<1> QED BY <1>1, <1>2, <1>3, <1>4, Quiet

LEMMA StepRetry ==
  ASSUME FaultsInv, ServiceRetry \/ ServiceFails \/ CancelServiceFails
  PROVE  FaultsInv'
<1>1. UNCHANGED <<mode, st, replays, fatal, buf, hwq, lost, enc, dec, known>>
  BY DEF ServiceRetry, ServiceFails, CancelServiceFails, gpu
<1>2. DOMAIN u = Fields /\ known' \in 0..Len(buf) BY <1>1, Parts DEF BufOK, IvInStep
<1>3. Same(Failed(u), [u EXCEPT !.pc = "end", !.err = TRUE]) BY <1>2, FailedFacts
<1>4. DOMAIN u' = Fields /\ (u'.err \/ u'.pc \in {"service", "cancelall", "cunlock"})
        /\ u'.pc \in {"service", "cancelall", "cunlock", "end"}
  BY <1>2, <1>3, FieldsOf DEF ServiceRetry, ServiceFails, CancelServiceFails, Go, Same
<1>5. ForCancel' /\ (u'.err \/ Owed') BY <1>4 DEF ForCancel, Owed
<1> QED BY <1>1, <1>2, <1>4, <1>5, Quiet

LEMMA StepParse ==
  ASSUME FaultsAssumption, FaultsInv, parse_replayable_entry_fails
  PROVE  FaultsInv'
<1>1. UNCHANGED <<mode, st, replays, fatal, hwq, lost, enc>> /\ u' = Failed(u)
  BY DEF parse_replayable_entry_fails, Go
<1>2. /\ DOMAIN u = Fields /\ BufOK /\ StOK /\ ReplayCount
      /\ known \in 0..Len(buf) /\ known \in Nat
  BY Parts DEF BufOK, IvInStep
<1>3. PICK n \in 0..(Most - 1) : Taken(n) BY DEF parse_replayable_entry_fails
<1>4. n \in 0..known
  <2>1. BatchSize \in Int BY FaultsAssumption
  <2>2. Min({known, BatchSize}) = IF known <= BatchSize THEN known ELSE BatchSize BY <1>2, <2>1, MinPair
  <2> QED BY <1>2, <1>3, <2>1, <2>2 DEF Most
<1>5. BufOK' BY <1>1, <1>2, <1>3, <1>4, TakenOK
<1>6. Same(u', [u EXCEPT !.pc = "end", !.err = TRUE]) BY <1>1, <1>2, FailedFacts
<1>7. DOMAIN u' = Fields /\ u'.pc = "end" /\ u'.err BY <1>2, <1>6, FieldsOf DEF Same
<1>8. ForCancel' BY <1>7 DEF ForCancel
<1>9. StOK' /\ ReplayCount' BY <1>1, <1>2 DEF StOK, ReplayCount, Again, Warps, Acc
<1> QED BY <1>1, <1>5, <1>7, <1>8, <1>9, Owing

LEMMA StepFlushAll ==
  ASSUME FaultsInv, uvm_gpu_fault_buffer_flush
  PROVE  FaultsInv'
<1>1. UNCHANGED <<mode, st, replays, fatal, buf, hwq, lost, enc, dec, known>> /\ u' = Flush(Idle, "wait", "idle")
  BY DEF uvm_gpu_fault_buffer_flush, gpu, Go
<1>2. known' \in 0..Len(buf) BY <1>1, Parts DEF BufOK, IvInStep
<1>3. Same(u', [Idle EXCEPT !.pc = "flush", !.flush = [mode |-> "wait", ret |-> "idle"]])
  BY <1>1, FlushFacts DEF Fields
<1>4. DOMAIN u' = Fields /\ u'.pc = "flush" /\ u'.flush.ret = "idle" BY <1>3, FieldsOf DEF Same, Fields
<1>5. ForCancel' /\ Owed' BY <1>4 DEF ForCancel, Owed
<1> QED BY <1>1, <1>2, <1>4, <1>5, Quiet

LEMMA StepEnvironment ==
  ASSUME FaultsAssumption, FaultsInv, Environment
  PROVE  FaultsInv'
<1>1. CASE \E p \in Pages : ChangePerm(p) \/ Evict(p)
  BY <1>1, Outside DEF ChangePerm, Evict, gpu, uvm
<1>2. CASE \E n \in Insts : Detach(n)
  <2>1. PICK n \in Insts : Detach(n) BY <1>2
  <2> QED BY <2>1, StepStop DEF Detach, uvm
<1>3. CASE \E n \in Insts : DropSubcontext(n) BY <1>3, Outside DEF DropSubcontext, gpu, uvm
<1>4. CASE \E sp \in Spaces : Unregister(sp)
  <2>1. PICK sp \in Spaces : Unregister(sp) BY <1>4
  <2> QED BY <2>1, StepStop DEF Unregister, uvm
<1>5. CASE GlobalError BY <1>5, Outside DEF GlobalError, gpu, uvm
<1> QED BY <1>1, <1>2, <1>3, <1>4, <1>5, StepResume, StepRetry, StepFlushAll, StepParse DEF Environment

-----------------------------------------------------------------------------
(* The bottom half.                                                        *)
LEMMA StepService ==
  ASSUME FaultsInv, Service
  PROVE  FaultsInv'
<1>1. UNCHANGED <<mode, st, replays, fatal, buf, hwq, lost, enc, dec>> /\ u' = [Idle EXCEPT !.pc = "loop"]
        /\ known' \in {known, Len(buf)}
  BY DEF Service, Keep, KeepGpu, gpu, Go
<1>2. known' \in 0..Len(buf) BY <1>1, Parts DEF BufOK, IvInStep
<1>3. DOMAIN u' = Fields /\ u'.pc = "loop" /\ u'.rep = FALSE BY <1>1 DEF Fields, Idle
<1>4. ForCancel' /\ Owed' BY <1>3 DEF ForCancel, Owed
<1> QED BY <1>1, <1>2, <1>3, <1>4, Quiet

LEMMA StepLoop ==
  ASSUME FaultsInv, uvm_gpu_service_replayable_faults
  PROVE  FaultsInv'
<1>1. UNCHANGED <<mode, st, replays, fatal, buf, hwq, lost, enc, dec>> /\ known' \in {known, Len(buf)} /\ u.pc = "loop"
        /\ (u' = [u EXCEPT !.pc = "end"] \/ u' = NewBatch([u EXCEPT !.cancel = FALSE]))
  BY DEF uvm_gpu_service_replayable_faults, Keep, KeepGpu, gpu, Go, ReadPut
<1>2. known' \in 0..Len(buf) /\ DOMAIN u = Fields BY <1>1, Parts DEF BufOK, IvInStep
<1>3. Same(NewBatch([u EXCEPT !.cancel = FALSE]), [u EXCEPT !.cancel = FALSE, !.pc = "get"])
  <2>1. DOMAIN [u EXCEPT !.cancel = FALSE] = Fields BY <1>2
  <2>2. Same(NewBatch([u EXCEPT !.cancel = FALSE]), [[u EXCEPT !.cancel = FALSE] EXCEPT !.pc = "get"])
    BY <2>1, BatchFacts
  <2> QED BY <2>2
<1>4. DOMAIN u' = Fields /\ u'.pc \in {"get", "end"} /\ u'.rep = u.rep /\ u'.err = u.err
  BY <1>1, <1>2, <1>3, FieldsOf DEF Same
<1>5. ForCancel' /\ (Owed => Owed') BY <1>1, <1>4 DEF ForCancel, Owed, policy
<1> QED BY <1>1, <1>2, <1>4, <1>5, Quiet

LEMMA StepError ==
  ASSUME FaultsInv, UvmError
  PROVE  FaultsInv'
<1>1. UNCHANGED <<mode, st, replays, fatal, buf, hwq, lost, enc, dec, known>> /\ u' = Failed(u)
  BY DEF UvmError, Keep, KeepGpu, KeepBuf, gpu, Go
<1>2. known' \in 0..Len(buf) /\ DOMAIN u = Fields BY <1>1, Parts DEF BufOK, IvInStep
<1>3. Same(u', [u EXCEPT !.pc = "end", !.err = TRUE]) BY <1>1, <1>2, FailedFacts
<1>4. DOMAIN u' = Fields /\ u'.pc = "end" /\ u'.err BY <1>2, <1>3, FieldsOf DEF Same
<1>5. ForCancel' BY <1>4 DEF ForCancel
<1> QED BY <1>1, <1>2, <1>4, <1>5, Quiet

LEMMA StepFetch ==
  ASSUME FaultsAssumption, FaultsInv, fetch_fault_buffer_entries
  PROVE  FaultsInv'
<1>1. UNCHANGED <<mode, st, replays, fatal, hwq, lost, enc>> /\ u.pc = "get"
  BY DEF fetch_fault_buffer_entries, Keep
<1>2. DOMAIN u = Fields /\ BufOK /\ StOK /\ ReplayCount /\ known \in 0..Len(buf) /\ known \in Nat
  BY Parts DEF BufOK, IvInStep
<1>3. CASE known = 0
  <2>1. u' = [u EXCEPT !.pc = IF u.cancel THEN "cunlock" ELSE "end"] /\ UNCHANGED <<buf, known, dec>>
    BY <1>3 DEF fetch_fault_buffer_entries, Go
  <2>2. DOMAIN u' = Fields /\ u'.pc = (IF u.cancel THEN "cunlock" ELSE "end") /\ u'.rep = u.rep /\ u'.err = u.err
    BY <1>2, <2>1, FieldsOf
  <2>3. ForCancel' /\ (Owed => Owed') BY <1>1, <2>2 DEF ForCancel, Owed, policy
  <2> QED BY <1>1, <1>2, <2>1, <2>2, <2>3, Quiet
<1>4. CASE known # 0
  <2>1. PICK n \in 0..Most : Taken(n) /\ \E ws, b : u' = [u EXCEPT !.pc = "translate", !.cached = ws, !.batch = b]
    BY <1>4 DEF fetch_fault_buffer_entries, Go
  <2>2. n \in 0..known
    <3>1. BatchSize \in Int BY FaultsAssumption
    <3>2. Min({known, BatchSize}) = IF known <= BatchSize THEN known ELSE BatchSize BY <1>2, <3>1, MinPair
    <3> QED BY <1>2, <2>1, <3>1, <3>2 DEF Most
  <2>3. BufOK' BY <1>1, <1>2, <2>1, <2>2, TakenOK
  <2>4. DOMAIN u' = Fields /\ u'.pc = "translate" BY <1>2, <2>1, FieldsOf
  <2>5. ForCancel' /\ Owed' BY <2>4 DEF ForCancel, Owed
  <2>6. StOK' /\ ReplayCount' BY <1>1, <1>2 DEF StOK, ReplayCount, Again, Warps, Acc
  <2> QED BY <1>1, <2>3, <2>4, <2>5, <2>6, Owing
<1> QED BY <1>3, <1>4

LEMMA StepFlushBegin ==
  ASSUME FaultsAssumption, FaultsInv, FlushBegin
  PROVE  FaultsInv'
<1>1. /\ UNCHANGED <<mode, st, replays, fatal, buf, lost, enc, dec>> /\ u.pc = "flush" /\ u' = [u EXCEPT !.pc = "skip"]
      /\ (UNCHANGED <<hwq, known>> \/ (hwq' = <<>> /\ known' = Len(buf)))
  BY DEF FlushBegin, Keep, Go
<1>2. /\ DOMAIN u = Fields /\ BufOK /\ StOK /\ ReplayCount /\ ForCancel
      /\ known \in 0..Len(buf) /\ Len(buf) \in Nat /\ hwq \in Seq(Warps)
  BY Parts DEF BufOK, IvInStep
<1>3. hwq' \in Seq(Warps) /\ known' \in 0..Len(buf)
  <2>1. CASE UNCHANGED <<hwq, known>> BY <1>2, <2>1
  <2>2. CASE hwq' = <<>> /\ known' = Len(buf) BY <1>2, <2>2
  <2> QED BY <1>1, <2>1, <2>2
<1>4. BufOK' BY <1>1, <1>2, <1>3, BufStutter
<1>5. DOMAIN u' = Fields /\ u'.pc = "skip" /\ u'.flush = u.flush /\ u'.cancel = u.cancel BY <1>1, <1>2, FieldsOf
<1>6. ForCancel' /\ Owed' BY <1>1, <1>2, <1>5 DEF ForCancel, Owed
<1>7. StOK' /\ ReplayCount' BY <1>1, <1>2 DEF StOK, ReplayCount, Again, Warps, Acc
<1> QED BY <1>1, <1>4, <1>5, <1>6, <1>7, Owing

LEMMA PushFacts ==
  ASSUME NEW r, DOMAIN r = Fields, push_replay_on_gpu(r)
  PROVE  /\ replays' = Min({replays + 1, MaxReplays}) /\ DOMAIN u' = Fields
         /\ u'.pc = r.pc /\ u'.cancel = r.cancel /\ u'.flush = r.flush
BY FieldsOf DEF push_replay_on_gpu, Go

LEMMA StepFlushLocked ==
  ASSUME FaultsAssumption, FaultsInv, fault_buffer_flush_locked
  PROVE  FaultsInv'
<1>1. UNCHANGED <<mode, st, hwq, enc>> /\ u.pc = "skip" /\ Taken(known) BY DEF fault_buffer_flush_locked, Keep
<1>2. DOMAIN u = Fields /\ BufOK /\ ForCancel /\ known \in 0..known BY Parts DEF BufOK
<1>3. BufOK' BY <1>1, <1>2, TakenOK
<1> DEFINE r == [u EXCEPT !.pc = u.flush.ret, !.flush = Wait]
           q == CASE r.pc = "restart" -> [r EXCEPT !.pc = "loop", !.rep = TRUE]
                  [] r.pc = "cdone" -> [r EXCEPT !.pc = "loop", !.batches = @ + 1]
                  [] OTHER -> r
<1>4. push_replay_on_gpu(q) BY DEF fault_buffer_flush_locked
<1>5. DOMAIN r = Fields /\ r.pc = u.flush.ret /\ r.flush = Wait /\ r.cancel = u.cancel BY <1>2, FieldsOf
<1> HIDE DEF r
<1>6. DOMAIN q = Fields /\ q.pc \in {u.flush.ret, "loop"} /\ q.flush = Wait /\ q.cancel = u.cancel
  <2>1. CASE r.pc = "restart" BY <1>5, <2>1, FieldsOf
  <2>2. CASE r.pc = "cdone" BY <1>5, <2>2, FieldsOf
  <2>3. CASE r.pc \notin {"restart", "cdone"}
    <3>1. q = r BY <2>3
    <3> QED BY <1>5, <3>1
  <2> QED BY <2>1, <2>2, <2>3
<1> HIDE DEF q
<1>7. /\ replays' = Min({replays + 1, MaxReplays}) /\ DOMAIN u' = Fields
      /\ u'.pc = q.pc /\ u'.cancel = q.cancel /\ u'.flush = q.flush
  BY <1>4, <1>6, PushFacts
<1>8. ForCancel'
  <2>1. u'.flush.ret = "none" BY <1>6, <1>7 DEF Wait
  <2>2. u'.pc = "cmove" => u'.cancel BY <1>1, <1>2, <1>6, <1>7 DEF ForCancel
  <2> QED BY <2>1, <2>2 DEF ForCancel
<1> QED BY <1>1, <1>3, <1>7, <1>8, Pushed

LEMMA StepWait ==
  ASSUME FaultsInv, WaitReplay
  PROVE  FaultsInv'
<1>1. UNCHANGED <<mode, st, replays, fatal, buf, hwq, lost, enc, dec, known>> /\ u.pc = "wait"
        /\ u' = BatchDone([u EXCEPT !.rep = TRUE])
  BY DEF WaitReplay, Keep, KeepGpu, KeepBuf, gpu, Go
<1>2. known' \in 0..Len(buf) /\ DOMAIN u = Fields BY <1>1, Parts DEF BufOK, IvInStep
<1>3. DOMAIN [u EXCEPT !.rep = TRUE] = Fields BY <1>2
<1>4. Same(u', [[u EXCEPT !.rep = TRUE] EXCEPT !.pc = "loop"]) BY <1>1, <1>3, DoneFacts
<1>5. DOMAIN u' = Fields /\ u'.pc = "loop" /\ u'.err = u.err BY <1>2, <1>4, FieldsOf DEF Same
<1>6. ForCancel' /\ ~Owed BY <1>1, <1>5 DEF ForCancel, Owed
<1> QED BY <1>1, <1>2, <1>5, <1>6, Quiet

LEMMA StepTranslate ==
  ASSUME FaultsAssumption, FaultsInv, translate_instance_ptrs
  PROVE  FaultsInv'
<1>1. UNCHANGED <<mode, replays, fatal, hwq, buf, enc, known, dec>> /\ u' = Restart(u)
        /\ (UNCHANGED <<st, lost>> \/ st' = Cancelled(Of(Min(BadInsts))))
  BY DEF translate_instance_ptrs, Keep, KeepBuf, Go
<1>2. /\ DOMAIN u = Fields /\ BufOK /\ StOK /\ ReplayCount /\ hwq \in Seq(Warps) /\ known \in 0..Len(buf)
  BY Parts DEF BufOK, IvInStep
<1>3. BufOK' BY <1>1, <1>2, BufStutter
<1>4. Same(u', [u EXCEPT !.pc = "flush",
                         !.flush = [mode |-> "update", ret |-> IF u.cancel THEN "cunlock" ELSE "restart"]])
  BY <1>1, <1>2, FlushFacts DEF Restart
<1>5. DOMAIN u' = Fields /\ u'.pc = "flush" /\ u'.flush.ret # "cmove" BY <1>2, <1>4, FieldsOf DEF Same
<1>6. ForCancel' /\ Owed' BY <1>5 DEF ForCancel, Owed
<1>7. StOK' /\ ReplayCount'
  <2>1. CASE UNCHANGED <<st, lost>> BY <1>1, <1>2, <2>1 DEF StOK, ReplayCount, Again, Warps, Acc
  <2>2. CASE st' = Cancelled(Of(Min(BadInsts))) BY <1>1, <2>2, CancelFacts
  <2> QED BY <1>1, <2>1, <2>2
<1> QED BY <1>1, <1>3, <1>5, <1>6, <1>7, Owing

LEMMA StepPreprocess ==
  ASSUME FaultsInv, preprocess_fault_batch
  PROVE  FaultsInv'
<1>1. UNCHANGED <<mode, st, replays, fatal, buf, hwq, lost, enc, dec, known>>
        /\ \E b, i : \/ u' = [u EXCEPT !.batch = b, !.pc = "cservice", !.i = i]
                     \/ u' = [u EXCEPT !.batch = b, !.i = i, !.pc = "service"]
  BY DEF preprocess_fault_batch, Keep, KeepGpu, KeepBuf, gpu, Go
<1>2. known' \in 0..Len(buf) /\ DOMAIN u = Fields BY <1>1, Parts DEF BufOK, IvInStep
<1>3. DOMAIN u' = Fields /\ u'.pc \in {"cservice", "service"} BY <1>1, <1>2, FieldsOf
<1>4. ForCancel' /\ Owed' BY <1>3 DEF ForCancel, Owed
<1> QED BY <1>1, <1>2, <1>3, <1>4, Quiet

LEMMA StepServiceSkip ==
  ASSUME FaultsInv, ServiceSkip
  PROVE  FaultsInv'
<1>1. UNCHANGED <<mode, st, replays, fatal, buf, hwq, lost, enc, dec, known>> /\ u.pc = "service"
        /\ \E i, sp, f : u' = [u EXCEPT !.i = i, !.sp = sp, !.fatalSp = f]
  BY DEF ServiceSkip, Keep, KeepGpu, KeepBuf, gpu, Go
<1>2. known' \in 0..Len(buf) /\ DOMAIN u = Fields BY <1>1, Parts DEF BufOK, IvInStep
<1>3. DOMAIN u' = Fields /\ u'.pc = "service" BY <1>1, <1>2, FieldsOf
<1>4. ForCancel' /\ Owed' BY <1>3 DEF ForCancel, Owed
<1> QED BY <1>1, <1>2, <1>3, <1>4, Quiet

LEMMA StepServiceBlock ==
  ASSUME FaultsAssumption, FaultsInv, ServiceBlock
  PROVE  FaultsInv'
<1>1. UNCHANGED <<mode, st, fatal, buf, hwq, lost, enc, dec, known>> /\ u.pc = "service"
  BY DEF ServiceBlock, gpu
<1>2. /\ known' \in 0..Len(buf) /\ DOMAIN u = Fields /\ BufOK /\ hwq \in Seq(Warps)
  BY <1>1, Parts DEF BufOK, IvInStep
<1>3. PICK d : LET r == [Apply(u, d) EXCEPT !.sp = CurSp]
               IN push_replay_on_gpu(r) \/ (u' = r /\ UNCHANGED replays)
  BY DEF ServiceBlock, Go
<1> DEFINE r == [Apply(u, d) EXCEPT !.sp = CurSp]
<1>4. DOMAIN r = Fields /\ r.pc = "service"
  <2>1. Same(Apply(u, d), u) BY <1>2, ApplyFacts
  <2> QED BY <1>1, <2>1, FieldsOf DEF Same
<1>5. push_replay_on_gpu(r) \/ (u' = r /\ UNCHANGED replays) BY <1>3
<1> HIDE DEF r
<1>6. CASE push_replay_on_gpu(r)
  <2>1. replays' = Min({replays + 1, MaxReplays}) /\ DOMAIN u' = Fields /\ u'.pc = "service"
    BY <1>4, <1>6, PushFacts
  <2>2. ForCancel' BY <2>1 DEF ForCancel
  <2>3. BufOK' BY <1>1, <1>2, BufStutter
  <2> QED BY <1>1, <2>1, <2>2, <2>3, Pushed
<1>7. CASE u' = r /\ UNCHANGED replays
  <2>1. ForCancel' /\ Owed' BY <1>4, <1>7 DEF ForCancel, Owed
  <2> QED BY <1>1, <1>2, <1>4, <1>7, <2>1, Quiet
<1> QED BY <1>5, <1>6, <1>7

LEMMA StepServiceDone ==
  ASSUME FaultsAssumption, FaultsInv, ServiceDone
  PROVE  FaultsInv'
<1> DEFINE r == [u EXCEPT !.sp = None, !.rep = @ \/ u.brep]
<1>1. UNCHANGED <<mode, st, fatal, buf, hwq, lost, enc, dec, known>> /\ u.pc = "service"
        /\ (ReplayPolicy(r) \/ (u' = [r EXCEPT !.pc = "clock"] /\ UNCHANGED replays))
  BY DEF ServiceDone, Keep, KeepGpu, KeepBuf, gpu, Go
<1>2. /\ known' \in 0..Len(buf) /\ DOMAIN u = Fields /\ BufOK /\ hwq \in Seq(Warps) /\ mode \in Modes
  BY <1>1, Parts DEF BufOK, IvInStep
<1>3. DOMAIN r = Fields /\ r.pc = "service" BY <1>1, <1>2, FieldsOf
<1> HIDE DEF r
<1>4. CASE u' = [r EXCEPT !.pc = "clock"] /\ UNCHANGED replays
  <2>1. DOMAIN u' = Fields /\ u'.pc = "clock" BY <1>3, <1>4, FieldsOf
  <2>2. ForCancel' /\ Owed' BY <2>1 DEF ForCancel, Owed
  <2> QED BY <1>1, <1>2, <1>4, <2>1, <2>2, Quiet
<1>5. CASE ReplayPolicy(r)
  <2>0. policy \in {"batch", "batch_flush", "block", "once"} BY <1>2, FaultsAssumption DEF policy
  <2>1. CASE policy = "batch"
    <3>1. push_replay_on_gpu(BatchDone([r EXCEPT !.rep = TRUE])) BY <1>5, <2>1 DEF ReplayPolicy
    <3>2. PICK q : q = [r EXCEPT !.rep = TRUE] OBVIOUS
    <3>3. DOMAIN q = Fields BY <1>3, <3>2
    <3>4. Same(BatchDone(q), [q EXCEPT !.pc = "loop"]) BY <3>3, DoneFacts
    <3>5. PICK b : b = BatchDone(q) OBVIOUS
    <3>6. DOMAIN b = Fields /\ b.pc = "loop" BY <3>3, <3>4, <3>5, FieldsOf DEF Same
    <3>7. push_replay_on_gpu(b) BY <3>1, <3>2, <3>5
    <3>8. replays' = Min({replays + 1, MaxReplays}) /\ DOMAIN u' = Fields /\ u'.pc = "loop"
      BY <3>6, <3>7, PushFacts
    <3>9. ForCancel' BY <3>8 DEF ForCancel
    <3>10. BufOK' BY <1>1, <1>2, BufStutter
    <3> QED BY <1>1, <3>8, <3>9, <3>10, Pushed
  <2>2. CASE policy = "batch_flush"
    <3>1. PICK how : u' = Flush(r, how, "wait") /\ UNCHANGED replays BY <1>5, <2>2 DEF ReplayPolicy, Go
    <3>2. Same(u', [r EXCEPT !.pc = "flush", !.flush = [mode |-> how, ret |-> "wait"]])
      BY <1>3, <3>1, FlushFacts
    <3>3. DOMAIN u' = Fields /\ u'.pc = "flush" /\ u'.flush.ret = "wait" BY <1>3, <3>2, FieldsOf DEF Same
    <3>4. ForCancel' /\ Owed' BY <3>3 DEF ForCancel, Owed
    <3> QED BY <1>1, <1>2, <3>1, <3>3, <3>4, Quiet
  <2>3. CASE policy \in {"block", "once"}
    <3>1. u' = BatchDone(r) /\ UNCHANGED replays BY <1>5, <2>3 DEF ReplayPolicy, Go
    <3>2. Same(u', [r EXCEPT !.pc = "loop"]) BY <1>3, <3>1, DoneFacts
    <3>3. DOMAIN u' = Fields /\ u'.pc = "loop" BY <1>3, <3>2, FieldsOf DEF Same
    <3>4. ForCancel' /\ (policy # "block" => Owed') BY <1>1, <2>3, <3>3 DEF ForCancel, Owed, policy
    <3> QED BY <1>1, <1>2, <3>1, <3>3, <3>4, Quiet
  <2> QED BY <2>0, <2>1, <2>2, <2>3
<1> QED BY <1>1, <1>4, <1>5

LEMMA StepServiceEnd ==
  ASSUME FaultsAssumption, FaultsInv, ServiceEnd
  PROVE  FaultsInv'
<1>1. UNCHANGED <<mode, st, fatal, buf, hwq, lost, enc, dec, known>> /\ u.pc = "end"
  BY DEF ServiceEnd, Keep, KeepGpu, KeepBuf, gpu
<1>2. /\ known' \in 0..Len(buf) /\ DOMAIN u = Fields /\ BufOK /\ hwq \in Seq(Warps)
  BY <1>1, Parts DEF BufOK, IvInStep
<1>3. DOMAIN Ended = Fields /\ Ended.pc = "idle" /\ Ended.err = u.err BY DEF Ended, Fields, Idle
<1>4. CASE push_replay_on_gpu(Ended)
  <2>1. replays' = Min({replays + 1, MaxReplays}) /\ DOMAIN u' = Fields /\ u'.pc = "idle"
    <3>1. PICK r : r = Ended OBVIOUS
    <3> QED BY <1>3, <1>4, <3>1, PushFacts
  <2>2. ForCancel' BY <2>1 DEF ForCancel
  <2>3. BufOK' BY <1>1, <1>2, BufStutter
  <2> QED BY <1>1, <2>1, <2>2, <2>3, Pushed
<1>5. CASE u' = Ended /\ UNCHANGED replays /\ (fatal \/ ~((~u.err /\ policy = "once") \/ ~u.rep))
  <2>1. DOMAIN u' = Fields /\ u'.pc = "idle" /\ u'.err = u.err /\ ForCancel' BY <1>3, <1>5 DEF ForCancel
  <2>2. CASE ~((~u.err /\ policy = "once") \/ ~u.rep)
    <3>1. u'.err \/ ~Owed BY <1>1, <2>1, <2>2 DEF Owed
    <3> QED BY <1>1, <1>2, <1>5, <2>1, <3>1, Quiet
  <2>3. CASE fatal
    <3>1. BufOK' BY <1>1, <1>2, BufStutter
    <3>2. Accounted' BY <1>1, <2>3 DEF Accounted
    <3>3. StOK' /\ ReplayCount' /\ mode' \in Modes BY <1>1, <1>5, Parts DEF StOK, ReplayCount, Again, Warps, Acc
    <3> QED BY <2>1, <3>1, <3>2, <3>3, PartsNext
  <2> QED BY <1>5, <2>2, <2>3
<1> QED BY <1>4, <1>5 DEF ServiceEnd, Go

-----------------------------------------------------------------------------
(* The cancel path.                                                        *)
LEMMA StepCancelLock ==
  ASSUME FaultsInv, CancelLock \/ CancelUnlock
  PROVE  FaultsInv'
<1>1. UNCHANGED <<mode, st, replays, fatal, buf, hwq, lost, enc, dec, known>>
        /\ (\/ u' = Flush([u EXCEPT !.sp = u.fatalSp, !.cancel = TRUE], "wait", "cmove")
            \/ u' = Flush([u EXCEPT !.sp = None], "update", "cdone"))
  BY DEF CancelLock, CancelUnlock, Keep, KeepGpu, KeepBuf, gpu, Go
<1>2. known' \in 0..Len(buf) /\ DOMAIN u = Fields BY <1>1, Parts DEF BufOK, IvInStep
<1>3. DOMAIN u' = Fields /\ u'.pc = "flush" /\ (u'.flush.ret = "cmove" => u'.cancel)
  <2>1. CASE u' = Flush([u EXCEPT !.sp = u.fatalSp, !.cancel = TRUE], "wait", "cmove")
    <3>1. PICK r : r = [u EXCEPT !.sp = u.fatalSp, !.cancel = TRUE] OBVIOUS
    <3>2. DOMAIN r = Fields /\ r.cancel BY <1>2, <3>1, FieldsOf
    <3>3. Same(u', [r EXCEPT !.pc = "flush", !.flush = [mode |-> "wait", ret |-> "cmove"]])
      BY <2>1, <3>1, <3>2, FlushFacts
    <3> QED BY <3>2, <3>3, FieldsOf DEF Same
  <2>2. CASE u' = Flush([u EXCEPT !.sp = None], "update", "cdone")
    <3>1. PICK r : r = [u EXCEPT !.sp = None] OBVIOUS
    <3>2. DOMAIN r = Fields BY <1>2, <3>1
    <3>3. Same(u', [r EXCEPT !.pc = "flush", !.flush = [mode |-> "update", ret |-> "cdone"]])
      BY <2>2, <3>1, <3>2, FlushFacts
    <3> QED BY <3>2, <3>3, FieldsOf DEF Same
  <2> QED BY <1>1, <2>1, <2>2
<1>4. ForCancel' /\ Owed' BY <1>3 DEF ForCancel, Owed
<1> QED BY <1>1, <1>2, <1>3, <1>4, Quiet

LEMMA StepCancelMove ==
  ASSUME FaultsInv, CancelMove
  PROVE  FaultsInv'
<1>1. UNCHANGED <<mode, st, replays, fatal, buf, hwq, lost, enc, dec>> /\ known' \in {known, Len(buf)} /\ u.pc = "cmove"
        /\ (u' = NewBatch(u) \/ u' = [u EXCEPT !.pc = "cunlock"])
  BY DEF CancelMove, Keep, KeepGpu, gpu, Go, ReadPut
<1>2. known' \in 0..Len(buf) /\ DOMAIN u = Fields /\ u.cancel BY <1>1, Parts DEF BufOK, IvInStep, ForCancel
<1>3. Same(NewBatch(u), [u EXCEPT !.pc = "get"]) BY <1>2, BatchFacts
<1>4. DOMAIN u' = Fields /\ (u'.pc = "cunlock" \/ (u'.pc = "get" /\ u'.cancel))
  BY <1>1, <1>2, <1>3, FieldsOf DEF Same
<1>5. ForCancel' /\ Owed' BY <1>4 DEF ForCancel, Owed
<1> QED BY <1>1, <1>2, <1>4, <1>5, Quiet

LEMMA StepServiceForCancel ==
  ASSUME FaultsInv, service_fault_batch_for_cancel
  PROVE  FaultsInv'
<1>0. \/ u' = [u EXCEPT !.pc = "cunlock"]
      \/ \E x, i : u' = [u EXCEPT !.todo = x, !.i = i]
      \/ \E d, x : u' = [Apply(u, d) EXCEPT !.todo = x]
  BY DEF service_fault_batch_for_cancel, Go
<1>1. UNCHANGED <<mode, st, replays, fatal, buf, hwq, lost, enc, dec, known>> /\ u.pc = "cservice"
  BY DEF service_fault_batch_for_cancel, KeepGpu, gpu
<1>2. known' \in 0..Len(buf) /\ DOMAIN u = Fields BY <1>1, Parts DEF BufOK, IvInStep
<1>3. \A d : Same(Apply(u, d), u) BY <1>2, ApplyFacts
<1>4. DOMAIN u' = Fields /\ u'.pc \in {"cunlock", "cservice"}
  <2>1. CASE u' = [u EXCEPT !.pc = "cunlock"] BY <1>2, <2>1, FieldsOf
  <2>2. CASE \E x, i : u' = [u EXCEPT !.todo = x, !.i = i] BY <1>1, <1>2, <2>2, FieldsOf
  <2>3. CASE \E d, x : u' = [Apply(u, d) EXCEPT !.todo = x] BY <1>1, <1>3, <2>3, FieldsOf DEF Same
  <2> QED BY <1>0, <2>1, <2>2, <2>3
<1>5. ForCancel' /\ Owed' BY <1>4 DEF ForCancel, Owed
<1> QED BY <1>1, <1>2, <1>4, <1>5, Quiet

LEMMA StepCancelVa ==
  ASSUME FaultsAssumption, FaultsInv, cancel_fault_precise_va
  PROVE  FaultsInv'
<1>1. UNCHANGED <<mode, replays, fatal, buf, hwq, enc, dec, known>> /\ u.pc = "cservice"
        /\ (\/ u' = Failed(u) /\ UNCHANGED <<st, lost>>
            \/ st' = Cancelled(Matches(Head(u.todo))) /\ \E x : u' = [u EXCEPT !.todo = x])
  BY DEF cancel_fault_precise_va, Keep, KeepBuf, Go
<1>2. known' \in 0..Len(buf) /\ DOMAIN u = Fields /\ BufOK /\ hwq \in Seq(Warps)
  BY <1>1, Parts DEF BufOK, IvInStep
<1>3. CASE u' = Failed(u) /\ UNCHANGED <<st, lost>>
  <2>1. Same(u', [u EXCEPT !.pc = "end", !.err = TRUE]) BY <1>2, <1>3, FailedFacts
  <2>2. DOMAIN u' = Fields /\ u'.pc = "end" /\ u'.err BY <1>2, <2>1, FieldsOf DEF Same
  <2>3. ForCancel' BY <2>2 DEF ForCancel
  <2> QED BY <1>1, <1>2, <1>3, <2>2, <2>3, Quiet
<1>4. CASE st' = Cancelled(Matches(Head(u.todo))) /\ \E x : u' = [u EXCEPT !.todo = x]
  <2>1. StOK' /\ ReplayCount' /\ \A w \in Warps : st'[w] # "stall" BY <1>1, <1>4, CancelFacts
  <2>2. BufOK' BY <1>1, <1>2, BufStutter
  <2>3. DOMAIN u' = Fields /\ u'.pc = "cservice" BY <1>1, <1>2, <1>4, FieldsOf
  <2>4. ForCancel' BY <2>3 DEF ForCancel
  <2> QED BY <1>1, <2>1, <2>2, <2>3, <2>4, Owing
<1> QED BY <1>1, <1>3, <1>4

LEMMA StepCancelAll ==
  ASSUME FaultsAssumption, FaultsInv, cancel_faults_all
  PROVE  FaultsInv'
<1>1. UNCHANGED <<mode, replays, fatal, buf, hwq, enc, dec, known>> /\ u.pc = "cancelall"
        /\ (UNCHANGED <<st, lost>> \/ \E S : st' = Cancelled(S))
        /\ (u' = Flush([u EXCEPT !.err = TRUE], "update", "end") \/ \E x : u' = [u EXCEPT !.i = x])
  BY DEF cancel_faults_all, Keep, KeepBuf, Go
<1>2. known' \in 0..Len(buf) /\ DOMAIN u = Fields /\ BufOK /\ hwq \in Seq(Warps) /\ StOK /\ ReplayCount
  BY <1>1, Parts DEF BufOK, IvInStep
<1>3. BufOK' BY <1>1, <1>2, BufStutter
<1>4. DOMAIN u' = Fields /\ (u'.pc = "cancelall" \/ (u'.pc = "flush" /\ u'.flush.ret = "end"))
  <2>1. CASE \E x : u' = [u EXCEPT !.i = x] BY <1>1, <1>2, <2>1, FieldsOf
  <2>2. CASE u' = Flush([u EXCEPT !.err = TRUE], "update", "end")
    <3>1. PICK r : r = [u EXCEPT !.err = TRUE] OBVIOUS
    <3>2. DOMAIN r = Fields BY <1>2, <3>1
    <3>3. Same(u', [r EXCEPT !.pc = "flush", !.flush = [mode |-> "update", ret |-> "end"]])
      BY <2>2, <3>1, <3>2, FlushFacts
    <3> QED BY <3>2, <3>3, FieldsOf DEF Same
  <2> QED BY <1>1, <2>1, <2>2
<1>5. ForCancel' /\ Owed' BY <1>4 DEF ForCancel, Owed
<1>6. StOK' /\ ReplayCount'
  <2>1. CASE UNCHANGED <<st, lost>> BY <1>1, <1>2, <2>1 DEF StOK, ReplayCount, Again, Warps, Acc
  <2>2. CASE \E S : st' = Cancelled(S) BY <1>1, <2>2, CancelFacts
  <2> QED BY <1>1, <2>1, <2>2
<1> QED BY <1>1, <1>3, <1>4, <1>5, <1>6, Owing

-----------------------------------------------------------------------------
LEMMA NextInv == ASSUME FaultsAssumption, FaultsInv, [Next]_vars PROVE FaultsInv'
<1>1. CASE UvmStep
  BY <1>1, StepService, StepLoop, StepError, StepFetch, StepFlushBegin, StepFlushLocked,
     StepWait, StepTranslate,
     StepPreprocess, StepServiceSkip, StepServiceBlock, StepServiceDone, StepServiceEnd, StepCancelLock,
     StepCancelMove, StepServiceForCancel, StepCancelVa, StepCancelAll
     DEF UvmStep
<1>2. CASE Environment BY <1>2, StepEnvironment
<1>3. CASE Message BY <1>3, StepGspCopy, StepSetValid DEF Message
<1>4. CASE GpuReplay BY <1>4, StepGpuReplay
<1>5. CASE \E w \in Warps : WarpAccess(w) BY <1>5, StepWarpAccess
<1>6. CASE UNCHANGED vars BY <1>6, Outside DEF vars, gpu, uvm
<1> QED BY <1>1, <1>2, <1>3, <1>4, <1>5, <1>6 DEF Next

(* The invariant holds: entries and IVs stay in step, replays are counted, *)
(* and but for the policy "block" a stalled warp is noticed, or a replay   *)
(* that will reach it is owed by uvm_gpu_service_replayable_faults.        *)
THEOREM FaultsInvariance == Spec => []FaultsInv
<1>1. Init => FaultsInv BY FaultsAssumption, InitInv
<1>2. FaultsInv /\ [Next]_vars => FaultsInv' BY FaultsAssumption, NextInv
<1> QED BY <1>1, <1>2, PTL DEF Spec

(* Every entry that fetch_fault_buffer_entries or a flush takes from the   *)
(* buffer is decrypted with the IV it was encrypted with, and never more   *)
(* than are there.                                                         *)
THEOREM EntriesInStep == Spec => []IvInStep
<1>1. FaultsInv => IvInStep BY DEF FaultsInv
<1> QED BY <1>1, FaultsInvariance, PTL

(* With the replay policies batch, batch_flush and once, whenever the      *)
(* bottom half is done and met no error, every stalled warp will be seen   *)
(* or replayed, whatever was flushed, merged, dropped, skipped, cancelled, *)
(* unregistered or evicted.                                                *)
THEOREM NoFaultIsForgotten == Spec => [](policy # "block" => NoFaultForgotten)
<1>1. ASSUME FaultsInv, policy # "block" PROVE NoFaultForgotten
  <2>1. ReplayCount /\ Accounted BY <1>1, Parts
  <2>2. Unstarted > 0 => replays > 0 BY <2>1, FaultsAssumption DEF Unstarted, ReplayCount
  <2>3. u.pc = "idle" => ~Owed BY DEF Owed
  <2> QED BY <2>1, <2>2, <2>3 DEF NoFaultForgotten, Accounted, Noticed
<1>2. FaultsInv => (policy # "block" => NoFaultForgotten) BY <1>1
<1> QED BY <1>2, FaultsInvariance, PTL
=============================================================================
