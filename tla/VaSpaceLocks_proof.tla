------------------------- MODULE VaSpaceLocks_proof -------------------------
(***************************************************************************)
(* Proofs about VaSpaceLocks, for any number of files, of mapping          *)
(* processes and of read locks left behind.                                *)
(***************************************************************************)
EXTENDS VaSpaceLocks, FiniteSetTheorems, TLAPS

(* What is in a list or a queue after an element was added at its end.     *)
LEMMA AppendFacts ==
  ASSUME NEW S, NEW q \in Seq(S), NEW e \in S
  PROVE  /\ Append(q, e) \in Seq(S)
         /\ ToSet(Append(q, e)) = ToSet(q) \cup {e}
         /\ e \notin ToSet(q) /\ (\A i, j \in 1..Len(q) : q[i] = q[j] => i = j) =>
              \A i, j \in 1..Len(Append(q, e)) : Append(q, e)[i] = Append(q, e)[j] => i = j
<1>1. Append(q, e) \in Seq(S) /\ Len(Append(q, e)) = Len(q) + 1 OBVIOUS
<1>2. \A i \in 1..Len(q) : Append(q, e)[i] = q[i] OBVIOUS
<1>3. Append(q, e)[Len(q) + 1] = e OBVIOUS
<1>4. ToSet(Append(q, e)) = ToSet(q) \cup {e} BY <1>1, <1>2, <1>3 DEF ToSet
<1> QED BY <1>1, <1>2, <1>3, <1>4 DEF ToSet

(* Taking the head off a queue whose entries differ.                       *)
LEMMA TailFacts ==
  ASSUME NEW S, NEW q \in Seq(S), q # <<>>
  PROVE  /\ Tail(q) \in Seq(S) /\ Head(q) \in ToSet(q) /\ Head(q) \in S
         /\ ToSet(q) = ToSet(Tail(q)) \cup {Head(q)}
         /\ (\A i, j \in 1..Len(q) : q[i] = q[j] => i = j) =>
              /\ Head(q) \notin ToSet(Tail(q))
              /\ \A i, j \in 1..Len(Tail(q)) : Tail(q)[i] = Tail(q)[j] => i = j
<1>1. Tail(q) \in Seq(S) /\ Len(q) > 0 /\ Len(Tail(q)) = Len(q) - 1 /\ Head(q) = q[1] OBVIOUS
<1>2. \A i \in 1..Len(Tail(q)) : Tail(q)[i] = q[i + 1] OBVIOUS
<1>3. \A i \in 2..Len(q) : q[i] = Tail(q)[i - 1] BY <1>1, <1>2
<1>4. ToSet(q) = ToSet(Tail(q)) \cup {Head(q)}
  <2>1. DOMAIN q = 1..Len(q) /\ DOMAIN Tail(q) = 1..Len(Tail(q)) BY <1>1
  <2>2. ToSet(q) \subseteq ToSet(Tail(q)) \cup {Head(q)}
    <3> SUFFICES ASSUME NEW i \in 1..Len(q) PROVE q[i] \in ToSet(Tail(q)) \cup {Head(q)} BY <2>1 DEF ToSet
    <3>1. CASE i = 1 BY <3>1, <1>1
    <3>2. CASE i # 1
      <4>1. i - 1 \in 1..Len(Tail(q)) /\ q[i] = Tail(q)[i - 1] BY <3>2, <1>1, <1>3
      <4> QED BY <4>1, <2>1 DEF ToSet
    <3> QED BY <3>1, <3>2
  <2>3. ToSet(Tail(q)) \cup {Head(q)} \subseteq ToSet(q) BY <1>1, <1>2, <2>1 DEF ToSet
  <2> QED BY <2>2, <2>3
<1>5. Head(q) \in ToSet(q) /\ Head(q) \in S BY <1>1 DEF ToSet
<1>6. ASSUME \A i, j \in 1..Len(q) : q[i] = q[j] => i = j
      PROVE  /\ Head(q) \notin ToSet(Tail(q))
             /\ \A i, j \in 1..Len(Tail(q)) : Tail(q)[i] = Tail(q)[j] => i = j
  <2>1. \A i \in 1..Len(Tail(q)) : Tail(q)[i] # q[1] BY <1>1, <1>2, <1>6
  <2>2. DOMAIN Tail(q) = 1..Len(Tail(q)) BY <1>1
  <2>3. Head(q) \notin ToSet(Tail(q)) BY <1>1, <2>1, <2>2 DEF ToSet
  <2>4. ASSUME NEW i \in 1..Len(Tail(q)), NEW j \in 1..Len(Tail(q)), Tail(q)[i] = Tail(q)[j] PROVE i = j
    <3>1. i + 1 \in 1..Len(q) /\ j + 1 \in 1..Len(q) BY <1>1
    <3>2. q[i + 1] = q[j + 1] BY <1>2, <2>4
    <3>3. i + 1 = j + 1 BY <3>1, <3>2, <1>6
    <3> QED BY <3>3
  <2> QED BY <2>3, <2>4
<1> QED BY <1>1, <1>4, <1>5, <1>6

(* Taking a VA space off a list without duplicates leaves the others.      *)
LEMMA RemoveFirstFacts ==
  ASSUME NEW S, NEW q \in Seq(S), NEW e, \A i, j \in 1..Len(q) : q[i] = q[j] => i = j
  PROVE  /\ RemoveFirst(q, e) \in Seq(S)
         /\ ToSet(RemoveFirst(q, e)) = ToSet(q) \ {e}
         /\ \A i, j \in 1..Len(RemoveFirst(q, e)) :
              RemoveFirst(q, e)[i] = RemoveFirst(q, e)[j] => i = j
<1>1. CASE \A i \in 1..Len(q) : q[i] # e
  <2>1. RemoveFirst(q, e) = q BY <1>1 DEF RemoveFirst
  <2> QED BY <1>1, <2>1 DEF ToSet
<1>2. CASE \E i \in 1..Len(q) : q[i] = e
  <2>1. PICK k \in 1..Len(q) : q[k] = e BY <1>2
  <2>2. {i \in 1..Len(q) : q[i] = e} = {k} BY <2>1
  <2>3. SelectInSeq(q, LAMBDA v : v = e) = k
    BY <2>1, <2>2 DEF SelectInSeq, SelectInSubSeq, Min
  <2>4. RemoveFirst(q, e) = SubSeq(q, 1, k - 1) \o SubSeq(q, k + 1, Len(q))
    BY <1>2, <2>3 DEF RemoveFirst, RemoveAt
  <2> DEFINE a == SubSeq(q, 1, k - 1)
             b == SubSeq(q, k + 1, Len(q))
             r == a \o b
  <2>5. a \in Seq(S) /\ Len(a) = k - 1 /\ \A i \in 1..(k - 1) : a[i] = q[i] OBVIOUS
  <2>6. b \in Seq(S) /\ Len(b) = Len(q) - k /\ \A i \in 1..(Len(q) - k) : b[i] = q[k + i] OBVIOUS
  <2> HIDE DEF a, b
  <2>7. r \in Seq(S) /\ Len(r) = Len(q) - 1 BY <2>5, <2>6
  <2>8. \A i \in 1..Len(r) : r[i] = IF i < k THEN q[i] ELSE q[i + 1]
    <3> SUFFICES ASSUME NEW i \in 1..Len(r) PROVE r[i] = IF i < k THEN q[i] ELSE q[i + 1] OBVIOUS
    <3>1. r[i] = IF i <= Len(a) THEN a[i] ELSE b[i - Len(a)] BY <2>5, <2>6, <2>7
    <3>2. CASE i < k BY <3>1, <3>2, <2>5
    <3>3. CASE i >= k
      <4>1. i - (k - 1) \in 1..(Len(q) - k) /\ k + (i - (k - 1)) = i + 1 BY <3>3, <2>7
      <4>2. b[i - (k - 1)] = q[k + (i - (k - 1))] BY <4>1, <2>6
      <4>3. r[i] = b[i - (k - 1)] BY <3>1, <3>3, <2>5
      <4> QED BY <4>1, <4>2, <4>3, <3>3
    <3> QED BY <3>2, <3>3
  <2> HIDE DEF r
  <2>9. ToSet(r) \subseteq ToSet(q) \ {e}
    <3> SUFFICES ASSUME NEW i \in 1..Len(r) PROVE r[i] \in ToSet(q) \ {e} BY <2>7 DEF ToSet
    <3>1. PICK j \in 1..Len(q) : j # k /\ r[i] = q[j] BY <2>7, <2>8
    <3> QED BY <2>1, <3>1 DEF ToSet
  <2>10. ASSUME NEW i \in 1..Len(q), i # k PROVE q[i] \in ToSet(r)
    <3>1. CASE i < k
      <4>1. i \in 1..Len(r) /\ r[i] = q[i] BY <3>1, <2>7, <2>8
      <4> QED BY <4>1, <2>7 DEF ToSet
    <3>2. CASE i > k
      <4>1. i - 1 \in 1..Len(r) /\ r[i - 1] = q[i] BY <3>2, <2>7, <2>8
      <4> QED BY <4>1, <2>7 DEF ToSet
    <3> QED BY <2>10, <3>1, <3>2
  <2>11. ToSet(q) \ {e} \subseteq ToSet(r) BY <2>1, <2>10 DEF ToSet
  <2>12. \A i, j \in 1..Len(r) : r[i] = r[j] => i = j BY <2>7, <2>8
  <2> QED BY <2>4, <2>7, <2>9, <2>11, <2>12 DEF r, a, b
<1> QED BY <1>1, <1>2

(* The threads that have no VA space of their own are four, and none of    *)
(* them is a file or nobody.                                               *)
LEMMA ThreadFacts ==
  /\ Spaces \subseteq Thread /\ {"agent", "isr", "pm", "drq"} \subseteq Thread
  /\ "none" \notin Thread
  /\ \A s \in Spaces : s \notin {"agent", "isr", "pm", "drq", "none"}
  /\ IsFiniteSet(Thread)
<1>1. \A s \in Spaces : s \notin {"agent", "isr", "pm", "drq", "none"} BY LocksAssumption
<1>2. IsFiniteSet(Spaces) BY LocksAssumption
<1>3. Thread = (((Spaces \cup {"agent"}) \cup {"isr"}) \cup {"pm"}) \cup {"drq"} BY DEF Thread
<1>4. IsFiniteSet(Spaces \cup {"agent"}) BY <1>2, FS_AddElement
<1>5. IsFiniteSet((Spaces \cup {"agent"}) \cup {"isr"}) BY <1>4, FS_AddElement
<1>6. IsFiniteSet(((Spaces \cup {"agent"}) \cup {"isr"}) \cup {"pm"}) BY <1>5, FS_AddElement
<1>7. IsFiniteSet(Thread) BY <1>3, <1>6, FS_AddElement
<1>8. "none" \notin Thread BY <1>1 DEF Thread
<1> QED BY <1>1, <1>7, <1>8 DEF Thread

(* One thread moves to another place of its call.                          *)
LEMMA PcUpdate ==
  ASSUME th \in [Thread -> Progress], NEW t \in Thread, NEW p \in Pcs,
         th' = [th EXCEPT ![t].pc = p]
  PROVE  /\ th' \in [Thread -> Progress]
         /\ th'[t].pc = p /\ th'[t].op = th[t].op /\ th'[t].s = th[t].s /\ th'[t].todo = th[t].todo
         /\ \A u \in Thread : u # t => th'[u] = th[u]
<1>1. th[t] \in Progress OBVIOUS
<1>2. /\ [th[t] EXCEPT !.pc = p] \in Progress
      /\ [th[t] EXCEPT !.pc = p].op = th[t].op /\ [th[t] EXCEPT !.pc = p].pc = p
      /\ [th[t] EXCEPT !.pc = p].s = th[t].s /\ [th[t] EXCEPT !.pc = p].todo = th[t].todo
  BY <1>1 DEF Progress
<1> QED BY <1>2

(* One thread gets a whole new progress.                                   *)
LEMMA ThUpdate ==
  ASSUME th \in [Thread -> Progress], NEW t \in Thread, NEW r \in Progress,
         th' = [th EXCEPT ![t] = r]
  PROVE  /\ th' \in [Thread -> Progress]
         /\ th'[t] = r /\ \A u \in Thread : u # t => th'[u] = th[u]
  OBVIOUS

(* A thread that runs nothing.                                             *)
LEMMA IdleFacts ==
  Idle \in Progress /\ Idle.op = "none" /\ Idle.pc = "idle" /\ Idle.s = "none" /\ Idle.todo = <<>>
  BY DEF Idle, Progress, Ops, Pcs, Files

(* The read count of the power-management lock.                            *)
LEMMA PmFacts ==
  ASSUME pm \in [r : Int, w : BOOLEAN]
  PROVE  /\ PmDown => pm' \in [r : Int, w : BOOLEAN] /\ pm'.r = pm.r + 1 /\ pm'.w = pm.w
         /\ PmUp => pm' \in [r : Int, w : BOOLEAN] /\ pm'.r = pm.r - 1 /\ pm'.w = pm.w
         /\ \A b \in BOOLEAN : pm' = [pm EXCEPT !.w = b] =>
              pm' \in [r : Int, w : BOOLEAN] /\ pm'.r = pm.r /\ pm'.w = b
<1>1. ASSUME NEW A, NEW B, NEW r \in [r : A, w : B], NEW a \in A, NEW b \in B
      PROVE  /\ [r EXCEPT !.r = a] \in [r : A, w : B]
             /\ [r EXCEPT !.r = a].r = a /\ [r EXCEPT !.r = a].w = r.w
             /\ [r EXCEPT !.w = b] \in [r : A, w : B]
             /\ [r EXCEPT !.w = b].w = b /\ [r EXCEPT !.w = b].r = r.r
  OBVIOUS
<1>2. pm.r + 1 \in Int /\ pm.r - 1 \in Int OBVIOUS
<1>3. TRUE \in BOOLEAN OBVIOUS
<1>4. ASSUME NEW a \in Int
      PROVE  /\ [pm EXCEPT !.r = a] \in [r : Int, w : BOOLEAN]
             /\ [pm EXCEPT !.r = a].r = a /\ [pm EXCEPT !.r = a].w = pm.w
  BY <1>1, <1>3, Zenon
<1>5. ASSUME NEW b \in BOOLEAN
      PROVE  /\ [pm EXCEPT !.w = b] \in [r : Int, w : BOOLEAN]
             /\ [pm EXCEPT !.w = b].r = pm.r /\ [pm EXCEPT !.w = b].w = b
  <2>1. 0 \in Int OBVIOUS
  <2> QED BY <1>1, <2>1, Zenon
<1>6. PmDown => pm' = [pm EXCEPT !.r = pm.r + 1] BY DEF PmDown
<1>7. PmUp => pm' = [pm EXCEPT !.r = pm.r - 1] BY DEF PmUp
<1> QED BY <1>2, <1>4, <1>5, <1>6, <1>7, Zenon

(* The calls that hold the power-management lock, when one more starts.    *)
LEMMA CountStart ==
  ASSUME Counted, NEW t \in Thread \ {"pm", "isr"}, th[t].pc = "idle",
         th'[t].pc # "idle", th'[t].op # "close", \A u \in Thread : u # t => th'[u] = th[u],
         pm.r \in Int, ~pm.w, pm'.r = pm.r + 1, ~pm'.w
  PROVE  Counted'
<1>1. IsFiniteSet(Calls)
  <2>1. Calls \subseteq Thread BY DEF Calls
  <2> QED BY <2>1, ThreadFacts, FS_Subset
<1>2. t \notin Calls /\ Calls' = Calls \cup {t} BY DEF Calls
<1>3. Cardinality(Calls') = Cardinality(Calls) + 1 BY <1>1, <1>2, FS_AddElement
<1>4. "pm" \in Thread /\ th'["pm"] = th["pm"] BY ThreadFacts
<1>5. pm'.r = Cardinality(Calls)' BY <1>3 DEF Counted
<1>6. ~(th["pm"].pc = "suspended") BY DEF Counted
<1> QED BY <1>4, <1>5, <1>6 DEF Counted

(* ... and when one ends.                                                  *)
LEMMA CountEnd ==
  ASSUME Counted, NEW t \in Thread \ {"pm", "isr"}, th[t].pc # "idle", th[t].op # "close",
         th'[t].pc = "idle", \A u \in Thread : u # t => th'[u] = th[u],
         pm.r \in Int, pm'.r = pm.r - 1, pm'.w = pm.w
  PROVE  Counted'
<1>1. IsFiniteSet(Calls)
  <2>1. Calls \subseteq Thread BY DEF Calls
  <2> QED BY <2>1, ThreadFacts, FS_Subset
<1>2. t \in Calls /\ Calls' = Calls \ {t} BY DEF Calls
<1>3. Cardinality(Calls') = Cardinality(Calls) - 1 BY <1>1, <1>2, FS_RemoveElement
<1>4. "pm" \in Thread /\ th'["pm"] = th["pm"] BY ThreadFacts
<1>5. pm'.r = Cardinality(Calls)' BY <1>3 DEF Counted
<1>6. ~pm.w BY <1>2 DEF Counted
<1>7. ~(th["pm"].pc = "suspended") BY <1>6 DEF Counted
<1>8. ~pm'.w BY <1>6
<1> QED BY <1>4, <1>5, <1>7, <1>8 DEF Counted

(* ... and when a thread goes on with what it runs.                        *)
LEMMA CountSame ==
  ASSUME Counted, NEW t \in Thread, t # "pm", \A u \in Thread : u # t => th'[u] = th[u],
         t = "isr" \/ th'[t].op = "close" \/ th[t].op = "close" \/ (th[t].pc # "idle" /\ th'[t].pc # "idle"),
         th[t].op = "close" => th'[t].op = "close" \/ th'[t].pc = "idle",
         th'[t].op = "close" => th[t].op = "close" \/ th[t].pc = "idle",
         pm' = pm
  PROVE  Counted'
<1>1. Calls' = Calls BY DEF Calls
<1>2. "pm" \in Thread /\ th'["pm"] = th["pm"] BY ThreadFacts
<1> QED BY <1>1, <1>2 DEF Counted

(* The lock of a VA space when nobody takes or drops it.                   *)
LEMMA RwSame ==
  ASSUME SpaceLocks, NEW t \in Thread, \A u \in Thread : u # t => th'[u] = th[u],
         th[t].pc \notin {"inr", "inw"}, th'[t].pc \notin {"inr", "inw"}, UNCHANGED <<rd, wr, left>>
  PROVE  SpaceLocks'
  BY DEF SpaceLocks

(* A reader comes in.                                                      *)
LEMMA RwDownRead ==
  ASSUME SpaceLocks, NEW t \in Thread, \A u \in Thread : u # t => th'[u] = th[u],
         th[t].pc \in {"wantr", "wantm"}, th'[t].pc = "inr", th'[t].s = th[t].s, th[t].s \in Spaces,
         rd \in [Spaces -> [Thread -> Int]], left \in [Spaces -> Int], UNCHANGED <<wr, left>>,
         \A x \in Spaces, u \in Thread :
           rd'[x][u] = IF x = th[t].s /\ u = t THEN rd[x][u] + 1 ELSE rd[x][u]
  PROVE  SpaceLocks'
  BY DEF SpaceLocks

(* A reader leaves.                                                        *)
LEMMA RwUpRead ==
  ASSUME SpaceLocks, NEW t \in Thread, \A u \in Thread : u # t => th'[u] = th[u],
         th[t].pc = "inr", th'[t].pc \notin {"inr", "inw"}, th[t].s \in Spaces,
         rd \in [Spaces -> [Thread -> Int]], left \in [Spaces -> Int], UNCHANGED <<wr, left>>,
         \A x \in Spaces, u \in Thread :
           rd'[x][u] = IF x = th[t].s /\ u = t THEN rd[x][u] - 1 ELSE rd[x][u]
  PROVE  SpaceLocks'
  BY DEF SpaceLocks

(* The agent ends its walk with the read lock still held.                  *)
LEMMA RwLeave ==
  ASSUME SpaceLocks, \A u \in Thread : u # "agent" => th'[u] = th[u], "agent" \in Thread,
         th["agent"].pc = "inr", th'["agent"].pc \notin {"inr", "inw"}, th["agent"].s \in Spaces,
         rd \in [Spaces -> [Thread -> Int]], left \in [Spaces -> Int], UNCHANGED <<wr, rd>>,
         left' = [left EXCEPT ![th["agent"].s] = @ + 1]
  PROVE  SpaceLocks' /\ left' \in [Spaces -> Int]
  BY DEF SpaceLocks

(* The writer comes in, while nobody writes.                               *)
LEMMA RwDownWrite ==
  ASSUME SpaceLocks, NEW t \in Thread, \A u \in Thread : u # t => th'[u] = th[u],
         th[t].pc = "wantw", th'[t].pc = "inw", th'[t].s = th[t].s, th[t].s \in Spaces,
         wr \in [Spaces -> Thread \cup {"none"}], wr[th[t].s] = "none", "none" \notin Thread,
         wr' = [wr EXCEPT ![th[t].s] = t], UNCHANGED <<rd, left>>
  PROVE  SpaceLocks' /\ wr' \in [Spaces -> Thread \cup {"none"}]
  BY DEF SpaceLocks

(* The writer leaves.                                                      *)
LEMMA RwUpWrite ==
  ASSUME SpaceLocks, NEW t \in Thread, \A u \in Thread : u # t => th'[u] = th[u],
         th[t].pc = "inw", th'[t].pc \notin {"inr", "inw"}, th[t].s \in Spaces,
         wr \in [Spaces -> Thread \cup {"none"}], "none" \notin Thread,
         wr' = [wr EXCEPT ![th[t].s] = "none"], UNCHANGED <<rd, left>>
  PROVE  SpaceLocks' /\ wr' \in [Spaces -> Thread \cup {"none"}]
  BY DEF SpaceLocks

(* serialize_writers_lock when a thread moves that does not take or drop   *)
(* it ...                                                                  *)
LEMMA SerialSame ==
  ASSUME SerialHeld, NEW t \in Thread, \A u \in Thread : u # t => th'[u] = th[u], UNCHANGED ser,
         Serializes(t)' <=> Serializes(t), Serializes(t) => th'[t].s = th[t].s
  PROVE  SerialHeld'
  BY DEF SerialHeld, Serializes

(* ... when it takes it ...                                                *)
LEMMA SerialTake ==
  ASSUME SerialHeld, NEW t \in Thread, \A u \in Thread : u # t => th'[u] = th[u],
         th[t].s \in Spaces, ser[th[t].s] = "none", "none" \notin Thread,
         ser \in [Spaces -> Thread \cup {"none"}], ser' = [ser EXCEPT ![th[t].s] = t],
         ~Serializes(t), Serializes(t)', th'[t].s = th[t].s
  PROVE  SerialHeld'
  BY DEF SerialHeld, Serializes

(* ... and when it drops it.                                               *)
LEMMA SerialDrop ==
  ASSUME SerialHeld, NEW t \in Thread, \A u \in Thread : u # t => th'[u] = th[u],
         th[t].s \in Spaces, "none" \notin Thread,
         ser \in [Spaces -> Thread \cup {"none"}], ser' = [ser EXCEPT ![th[t].s] = "none"],
         Serializes(t), ~Serializes(t)'
  PROVE  SerialHeld'
  BY DEF SerialHeld, Serializes

(* A thread starts a call on a VA space.                                   *)
LEMMA StartThread ==
  ASSUME th \in [Thread -> Progress], NEW t \in Thread, NEW op \in Ops, NEW p \in Pcs, NEW s \in Files,
         Set(t, op, p, s)
  PROVE  /\ th' \in [Thread -> Progress]
         /\ th'[t].op = op /\ th'[t].pc = p /\ th'[t].s = s /\ \A u \in Thread : u # t => th'[u] = th[u]
<1> DEFINE r == [Idle EXCEPT !.op = op, !.pc = p, !.s = s]
<1>1. r \in Progress /\ r.op = op /\ r.pc = p /\ r.s = s
  BY IdleFacts DEF Progress
<1>2. th' = [th EXCEPT ![t] = r] BY DEF Set
<1> HIDE DEF r
<1> QED BY <1>1, <1>2, ThUpdate

(* The agent enters an ioctl.                                              *)
LEMMA AgentStart ==
  ASSUME th \in [Thread -> Progress], "agent" \in Thread, NEW op \in Ops, NEW p \in Pcs,
         Go([Idle EXCEPT !.op = op, !.pc = p])
  PROVE  /\ th' \in [Thread -> Progress]
         /\ th'["agent"].op = op /\ th'["agent"].pc = p /\ th'["agent"].s = "none"
         /\ \A u \in Thread : u # "agent" => th'[u] = th[u]
<1> DEFINE r == [Idle EXCEPT !.op = op, !.pc = p]
<1>1. r \in Progress /\ r.op = op /\ r.pc = p /\ r.s = "none"
  BY IdleFacts DEF Progress
<1>2. th' = [th EXCEPT !["agent"] = r] BY DEF Go
<1> HIDE DEF r
<1> QED BY <1>1, <1>2, ThUpdate

(* The agent goes on to another place of its walk ...                      *)
LEMMA AgentTo ==
  ASSUME th \in [Thread -> Progress], "agent" \in Thread, NEW p \in Pcs, Go([ag EXCEPT !.pc = p])
  PROVE  /\ th' \in [Thread -> Progress]
         /\ th'["agent"].op = ag.op /\ th'["agent"].pc = p /\ th'["agent"].s = ag.s
         /\ th'["agent"].todo = ag.todo /\ \A u \in Thread : u # "agent" => th'[u] = th[u]
<1>0. ag \in Progress BY DEF ag
<1> DEFINE r == [ag EXCEPT !.pc = p]
<1>1. r \in Progress /\ r.op = ag.op /\ r.pc = p /\ r.s = ag.s /\ r.todo = ag.todo
  BY <1>0 DEF Progress
<1>2. th' = [th EXCEPT !["agent"] = r] BY DEF Go
<1> HIDE DEF r
<1> QED BY <1>1, <1>2, ThUpdate

(* ... with other VA spaces to do ...                                      *)
LEMMA AgentTodo ==
  ASSUME th \in [Thread -> Progress], "agent" \in Thread, NEW p \in Pcs, NEW q \in Seq(Spaces),
         Go([ag EXCEPT !.pc = p, !.todo = q])
  PROVE  /\ th' \in [Thread -> Progress]
         /\ th'["agent"].op = ag.op /\ th'["agent"].pc = p /\ th'["agent"].s = ag.s
         /\ th'["agent"].todo = q /\ \A u \in Thread : u # "agent" => th'[u] = th[u]
<1>0. ag \in Progress BY DEF ag
<1> DEFINE r == [ag EXCEPT !.pc = p, !.todo = q]
<1>1. r \in Progress /\ r.op = ag.op /\ r.pc = p /\ r.s = ag.s /\ r.todo = q
  BY <1>0 DEF Progress
<1>2. th' = [th EXCEPT !["agent"] = r] BY DEF Go
<1> HIDE DEF r
<1> QED BY <1>1, <1>2, ThUpdate

(* ... or with another one in hand.                                        *)
LEMMA AgentSpace ==
  ASSUME th \in [Thread -> Progress], "agent" \in Thread, NEW p \in Pcs, NEW s \in Files,
         Go([ag EXCEPT !.pc = p, !.s = s])
  PROVE  /\ th' \in [Thread -> Progress]
         /\ th'["agent"].op = ag.op /\ th'["agent"].pc = p /\ th'["agent"].s = s
         /\ \A u \in Thread : u # "agent" => th'[u] = th[u]
<1>0. ag \in Progress BY DEF ag
<1> DEFINE r == [ag EXCEPT !.pc = p, !.s = s]
<1>1. r \in Progress /\ r.op = ag.op /\ r.pc = p /\ r.s = s
  BY <1>0 DEF Progress
<1>2. th' = [th EXCEPT !["agent"] = r] BY DEF Go
<1> HIDE DEF r
<1> QED BY <1>1, <1>2, ThUpdate

(* The agent takes the next VA space of its walk.                          *)
LEMMA AgentNext ==
  ASSUME th \in [Thread -> Progress], "agent" \in Thread, NEW p \in Pcs, ag.todo # <<>>,
         Go([ag EXCEPT !.pc = p, !.s = Head(ag.todo), !.todo = Tail(@)])
  PROVE  /\ th' \in [Thread -> Progress]
         /\ th'["agent"].op = ag.op /\ th'["agent"].pc = p /\ th'["agent"].s = Head(ag.todo)
         /\ th'["agent"].todo = Tail(ag.todo)
         /\ \A u \in Thread : u # "agent" => th'[u] = th[u]
<1>0. ag \in Progress BY DEF ag
<1>1. ag.todo \in Seq(Spaces) BY <1>0 DEF Progress
<1>2. Head(ag.todo) \in Files /\ Tail(ag.todo) \in Seq(Spaces) BY <1>1, TailFacts DEF Files
<1> DEFINE r == [ag EXCEPT !.pc = p, !.s = Head(ag.todo), !.todo = Tail(@)]
<1>3. r \in Progress /\ r.op = ag.op /\ r.pc = p /\ r.s = Head(ag.todo) /\ r.todo = Tail(ag.todo)
  BY <1>0, <1>2 DEF Progress
<1>4. th' = [th EXCEPT !["agent"] = r] BY DEF Go
<1> HIDE DEF r
<1> QED BY <1>3, <1>4, ThUpdate

(* The files' lives go on when nobody that opens, uses or destroys one     *)
(* starts or ends.                                                         *)
LEMMA LifeSame ==
  ASSUME Lifetime, UNCHANGED <<fd, list, freed, queue>>,
         \A u \in Spaces \cup {"drq"} : th'[u].op = th[u].op /\ th'[u].s = th[u].s
  PROVE  Lifetime'
  BY DEF Lifetime, Destroys

(* Likewise for those that are taken off the list, and for the walks.      *)
LEMMA OffListSame ==
  ASSUME OffList, Shape, NEW t \in Thread, \A u \in Thread : u # t => th'[u] = th[u],
         t # "agent", t # "isr", UNCHANGED <<list, freed>>, "agent" \in Thread, "isr" \in Thread,
         th'[t].op = "destroy" => /\ th[t].op = "destroy" /\ th'[t].s = th[t].s
                                  /\ th[t].pc = "unlink" => th'[t].pc = "unlink"
                                  /\ th'[t].pc \in {"wants", "wantw", "inw"} =>
                                       th[t].pc \in {"wants", "wantw", "inw"}
  PROVE  OffList'
  BY DEF OffList, Walking, ag

(* The same when the agent moves in its walk.                              *)
LEMMA OffListAgent ==
  ASSUME OffList, "agent" \in Thread, "isr" \in Thread,
         \A u \in Thread : u # "agent" => th'[u] = th[u],
         UNCHANGED <<list, freed>>, th'["agent"].op # "destroy",
         th'["agent"].op # "prepare" /\ th'["agent"].pc \in {"next", "wantr", "inr", "wants", "wantw", "inw"} =>
           /\ th'["agent"].s \in ToSet(list) \cup {"none"}
           /\ ToSet(th'["agent"].todo) \subseteq ToSet(list),
         th'["agent"].op # "prepare" /\ th'["agent"].pc \notin {"next", "wantr", "inr", "wants", "wantw", "inw"} =>
           th'["agent"].s = "none"
  PROVE  OffList'
  BY DEF OffList, Walking, ag

(* Nothing is in an empty list.                                            *)
LEMMA EmptyFacts == ToSet(<<>>) = {}
  BY DEF ToSet

(* Every step keeps the invariant.                                         *)
LEMMA InvStep == LocksInv /\ [Next]_vars => LocksInv'
<1> SUFFICES ASSUME LocksInv, [Next]_vars PROVE LocksInv' OBVIOUS
<1>a. TypeOK /\ Shape /\ MutexHeld /\ SpaceLocks /\ SerialHeld /\ Counted /\ Lifetime /\ OffList
  BY DEF LocksInv
<1>c. /\ Pcs = {"idle", "mutex", "next", "wantr", "wantm", "inr", "wants", "wantw", "inw", "exit",
                "create", "unlink", "flush", "wantpm", "suspended"}
      /\ {"none", "init", "mmap", "close", "destroy", "fault", "suspend"} \subseteq Ops /\ Ioctls \subseteq Ops
      /\ Spaces \subseteq Files /\ "none" \in Files
      /\ \A op \in Ioctls : op \notin {"none", "close", "destroy"}
  BY DEF Pcs, Ops, Files, Ioctls
<1>e. /\ th \in [Thread -> Progress] /\ pm \in [r : Int, w : BOOLEAN] /\ pm.r \in Int
      /\ rd \in [Spaces -> [Thread -> Int]] /\ wr \in [Spaces -> Thread \cup {"none"}]
      /\ ser \in [Spaces -> Thread \cup {"none"}]
      /\ left \in [Spaces -> Int] /\ list \in Seq(Spaces) /\ queue \in Seq(Spaces)
      /\ fd \in [Spaces -> {"uninitialized", "initializing", "va_space", "released"}]
  BY <1>a DEF TypeOK
<1>f. freed \subseteq Spaces BY <1>a DEF TypeOK
<1>1. ASSUME NEW t \in {"agent", "isr"}, down_read(t) PROVE LocksInv'
  <2>g. /\ t \in Thread /\ t \notin Spaces \cup {"pm", "drq"} /\ th[t].pc = "wantr" /\ th[t].s \in Spaces
        /\ th[t].op # "close"
    BY <1>1, <1>a, <1>c, <1>e, ThreadFacts DEF down_read, Shape, ag
  <2>1. /\ th' \in [Thread -> Progress]
        /\ th'[t].pc = "inr" /\ th'[t].op = th[t].op /\ th'[t].s = th[t].s /\ th'[t].todo = th[t].todo
        /\ \A u \in Thread : u # t => th'[u] = th[u]
    BY <1>1, <2>g, <1>a, <1>c, <1>e, PcUpdate DEF down_read
  <2>r. /\ rd' \in [Spaces -> [Thread -> Int]]
        /\ \A x \in Spaces, u \in Thread : rd'[x][u] = IF x = th[t].s /\ u = t THEN rd[x][u] + 1 ELSE rd[x][u]
    BY <1>1, <2>g, <1>a, <1>e DEF down_read
  <2>2. UNCHANGED <<fd, list, freed, pm, mutex, wr, ser, queue, left>>
    BY <1>1, <2>g, <1>a, <1>e DEF down_read
  <2>5. SpaceLocks' BY <2>g, <2>1, <2>2, <2>r, <1>a, <1>c, <1>e, ThreadFacts, RwDownRead
  <2>3. TypeOK'
    <3>1. /\ rd' \in [Spaces -> [Thread -> Int]] /\ wr' \in [Spaces -> Thread \cup {"none"}]
          /\ ser' \in [Spaces -> Thread \cup {"none"}]
      BY <2>g, <2>1, <2>2, <2>r, <1>a, <1>c, <1>e, ThreadFacts
    <3> QED BY <2>g, <2>1, <2>2, <2>r, <1>a, <1>c, <1>e, ThreadFacts, <3>1 DEF TypeOK
  <2>4. Shape' BY <2>g, <2>1, <1>a, <1>c, ThreadFacts DEF Shape, ag
  <2>m. MutexHeld' BY <2>g, <2>1, <2>2, <2>r, <1>a, <1>c, <1>e, ThreadFacts DEF MutexHeld, Walking, ag
  <2>s. SerialHeld' BY <2>g, <2>1, <2>2, <2>r, <1>a, <1>c, <1>e, ThreadFacts, SerialSame DEF Serializes
  <2>6. Counted'
    <3>1. CASE t = "isr" BY <3>1, <2>1, <2>2, <1>a, ThreadFacts, CountSame DEF Shape
    <3>2. CASE t = "agent" BY <3>2, <2>g, <2>1, <2>2, <1>a, ThreadFacts, CountSame DEF Shape, ag, Ioctls
    <3> QED BY <1>1, <3>1, <3>2
  <2>7. Lifetime' BY <2>g, <2>1, <2>2, <2>r, <1>a, <1>c, <1>e, ThreadFacts, LifeSame
  <2>8. OffList'
    BY <2>g, <2>1, <2>2, <1>a, ThreadFacts, <1>f DEF OffList, Lifetime, Shape, Walking, ag, Destroys
  <2> QED BY <2>3, <2>4, <2>m, <2>s, <2>5, <2>6, <2>7, <2>8 DEF LocksInv
<1>2. ASSUME NEW t \in Spaces \cup {"agent", "drq"}, down_write(t) PROVE LocksInv'
  <2>g. /\ t \in Thread /\ t \notin {"pm", "isr"} /\ th[t].pc = "wantw" /\ th[t].s \in Spaces
        /\ wr[th[t].s] = "none"
    BY <1>2, <1>a, <1>c, <1>e, ThreadFacts, TailFacts DEF down_write, Shape
  <2>1. /\ th' \in [Thread -> Progress]
        /\ th'[t].pc = "inw" /\ th'[t].op = th[t].op /\ th'[t].s = th[t].s /\ th'[t].todo = th[t].todo
        /\ \A u \in Thread : u # t => th'[u] = th[u]
    BY <1>2, <2>g, <1>a, <1>c, <1>e, PcUpdate DEF down_write
  <2>r. wr' = [wr EXCEPT ![th[t].s] = t]
    BY <1>2, <2>g, <1>a, <1>e DEF down_write
  <2>2. UNCHANGED <<fd, list, freed, pm, mutex, rd, ser, queue, left>>
    BY <1>2, <2>g, <1>a, <1>e DEF down_write
  <2>5. SpaceLocks' BY <2>g, <2>1, <2>2, <2>r, <1>a, <1>c, <1>e, ThreadFacts, RwDownWrite
  <2>3. TypeOK'
    <3>1. /\ rd' \in [Spaces -> [Thread -> Int]] /\ wr' \in [Spaces -> Thread \cup {"none"}]
          /\ ser' \in [Spaces -> Thread \cup {"none"}]
      BY <2>g, <2>1, <2>2, <2>r, <1>a, <1>c, <1>e, ThreadFacts
    <3> QED BY <2>g, <2>1, <2>2, <2>r, <1>a, <1>c, <1>e, ThreadFacts, <3>1 DEF TypeOK
  <2>4. Shape' BY <2>g, <2>1, <1>a, <1>c, ThreadFacts DEF Shape, ag
  <2>m. MutexHeld' BY <2>g, <2>1, <2>2, <2>r, <1>a, <1>c, <1>e, ThreadFacts DEF MutexHeld, Walking, ag
  <2>s. SerialHeld' BY <2>g, <2>1, <2>2, <2>r, <1>a, <1>c, <1>e, ThreadFacts, SerialSame DEF Serializes
  <2>6. Counted' BY <2>g, <2>1, <2>2, <2>r, <1>a, <1>c, <1>e, ThreadFacts, CountSame
  <2>7. Lifetime' BY <2>g, <2>1, <2>2, <2>r, <1>a, <1>c, <1>e, ThreadFacts, LifeSame
  <2>8. OffList'
    BY <2>g, <2>1, <2>2, <1>a, ThreadFacts, <1>f DEF OffList, Lifetime, Shape, Walking, ag, Destroys
  <2> QED BY <2>3, <2>4, <2>m, <2>s, <2>5, <2>6, <2>7, <2>8 DEF LocksInv
<1>3. ASSUME NEW op \in Ioctls, uvm_unlocked_ioctl(op) PROVE LocksInv'
  <2>g. "agent" \in Thread /\ th["agent"].pc = "idle" /\ ~pm.w /\ PmDown
    BY <1>3, <1>a, <1>c, <1>e, ThreadFacts, TailFacts DEF uvm_unlocked_ioctl, PmFree, ag
  <2>1. /\ th' \in [Thread -> Progress]
        /\ th'["agent"].pc = "mutex" /\ th'["agent"].op = op /\ th'["agent"].s = "none"
        /\ \A u \in Thread : u # "agent" => th'[u] = th[u]
    BY <1>3, <2>g, <1>a, <1>c, <1>e, AgentStart DEF uvm_unlocked_ioctl
  <2>2. /\ pm' \in [r : Int, w : BOOLEAN] /\ pm'.r = pm.r + 1 /\ ~pm'.w
        /\ UNCHANGED <<fd, list, freed, mutex, rd, wr, ser, queue, left>>
    BY <1>3, <2>g, <1>a, <1>e, PmFacts DEF uvm_unlocked_ioctl
  <2>5. SpaceLocks' BY <2>g, <2>1, <2>2, <1>a, <1>c, <1>e, ThreadFacts, RwSame
  <2>3. TypeOK' BY <2>g, <2>1, <2>2, <1>a, <1>c, <1>e, ThreadFacts DEF TypeOK
  <2>4. Shape' BY <2>g, <2>1, <1>a, <1>c, ThreadFacts DEF Shape, ag
  <2>m. MutexHeld' BY <2>g, <2>1, <2>2, <1>a, <1>c, <1>e, ThreadFacts DEF MutexHeld, Walking, ag
  <2>s. SerialHeld' BY <2>g, <2>1, <2>2, <1>a, <1>c, <1>e, ThreadFacts, SerialSame DEF Serializes
  <2>6. Counted' BY <2>g, <2>1, <2>2, <1>a, <1>c, <1>e, ThreadFacts, CountStart
  <2>7. Lifetime' BY <2>g, <2>1, <2>2, <1>a, <1>c, <1>e, ThreadFacts, LifeSame
  <2>8. OffList'
    BY <2>g, <2>1, <2>2, <1>a, <1>c, <1>e, ThreadFacts, OffListAgent, EmptyFacts DEF OffList, Shape, Walking, ag
  <2> QED BY <2>3, <2>4, <2>m, <2>s, <2>5, <2>6, <2>7, <2>8 DEF LocksInv
<1>4. CASE PrepareSnapshot
  <2>1. CASE Go([ag EXCEPT !.pc = "next", !.todo = list])
    <3>g. /\ "agent" \in Thread /\ th["agent"].op = "prepare" /\ th["agent"].pc = "mutex" /\ mutex = "none"
      BY <1>4, <2>1, <1>a, <1>c, <1>e, ThreadFacts DEF PrepareSnapshot, ag
    <3>1. /\ th' \in [Thread -> Progress]
          /\ th'["agent"].pc = "next" /\ th'["agent"].op = th["agent"].op /\ th'["agent"].s = th["agent"].s
          /\ \A u \in Thread : u # "agent" => th'[u] = th[u]
      BY <1>4, <2>1, <3>g, <1>a, <1>c, <1>e, AgentTodo DEF PrepareSnapshot, ag
    <3>2. UNCHANGED <<fd, list, freed, pm, mutex, rd, wr, ser, queue, left>>
      BY <1>4, <2>1, <3>g, <1>a, <1>e DEF PrepareSnapshot
    <3>5. SpaceLocks' BY <3>g, <3>1, <3>2, <1>a, <1>c, <1>e, ThreadFacts, RwSame
    <3>3. TypeOK' BY <3>g, <3>1, <3>2, <1>a, <1>c, <1>e, ThreadFacts DEF TypeOK
    <3>4. Shape' BY <3>g, <3>1, <1>a, <1>c, ThreadFacts DEF Shape, ag
    <3>m. MutexHeld' BY <3>g, <3>1, <3>2, <1>a, <1>c, <1>e, ThreadFacts DEF MutexHeld, Walking, ag
    <3>s. SerialHeld' BY <3>g, <3>1, <3>2, <1>a, <1>c, <1>e, ThreadFacts, SerialSame DEF Serializes
    <3>6. Counted' BY <3>g, <3>1, <3>2, <1>a, <1>c, <1>e, ThreadFacts, CountSame
    <3>7. Lifetime' BY <3>g, <3>1, <3>2, <1>a, <1>c, <1>e, ThreadFacts, LifeSame
    <3>8. OffList'
      BY <3>g, <3>1, <3>2, <1>a, <1>c, <1>e, ThreadFacts, OffListAgent, EmptyFacts
      DEF OffList, Shape, Walking, ag
    <3> QED BY <3>3, <3>4, <3>m, <3>s, <3>5, <3>6, <3>7, <3>8 DEF LocksInv
  <2>2. CASE Go([ag EXCEPT !.pc = "exit"])
    <3>g. /\ "agent" \in Thread /\ th["agent"].op = "prepare" /\ th["agent"].pc = "mutex" /\ mutex = "none"
      BY <1>4, <2>2, <1>a, <1>c, <1>e, ThreadFacts DEF PrepareSnapshot, ag
    <3>1. /\ th' \in [Thread -> Progress]
          /\ th'["agent"].pc = "exit" /\ th'["agent"].op = th["agent"].op /\ th'["agent"].s = th["agent"].s
          /\ \A u \in Thread : u # "agent" => th'[u] = th[u]
      BY <1>4, <2>2, <3>g, <1>a, <1>c, <1>e, AgentTo DEF PrepareSnapshot, ag
    <3>2. UNCHANGED <<fd, list, freed, pm, mutex, rd, wr, ser, queue, left>>
      BY <1>4, <2>2, <3>g, <1>a, <1>e DEF PrepareSnapshot
    <3>5. SpaceLocks' BY <3>g, <3>1, <3>2, <1>a, <1>c, <1>e, ThreadFacts, RwSame
    <3>3. TypeOK' BY <3>g, <3>1, <3>2, <1>a, <1>c, <1>e, ThreadFacts DEF TypeOK
    <3>4. Shape' BY <3>g, <3>1, <1>a, <1>c, ThreadFacts DEF Shape, ag
    <3>m. MutexHeld' BY <3>g, <3>1, <3>2, <1>a, <1>c, <1>e, ThreadFacts DEF MutexHeld, Walking, ag
    <3>s. SerialHeld' BY <3>g, <3>1, <3>2, <1>a, <1>c, <1>e, ThreadFacts, SerialSame DEF Serializes
    <3>6. Counted' BY <3>g, <3>1, <3>2, <1>a, <1>c, <1>e, ThreadFacts, CountSame
    <3>7. Lifetime' BY <3>g, <3>1, <3>2, <1>a, <1>c, <1>e, ThreadFacts, LifeSame
    <3>8. OffList'
      BY <3>g, <3>1, <3>2, <1>a, <1>c, <1>e, ThreadFacts, OffListAgent, EmptyFacts
      DEF OffList, Shape, Walking, ag
    <3> QED BY <3>3, <3>4, <3>m, <3>s, <3>5, <3>6, <3>7, <3>8 DEF LocksInv
  <2> QED BY <1>4, <2>1, <2>2 DEF PrepareSnapshot
<1>5. CASE TakeMutex
  <2>g. "agent" \in Thread /\ th["agent"].op # "prepare" /\ th["agent"].pc = "mutex" /\ th["agent"].s = "none" /\ mutex = "none"
    BY <1>5, <1>a, <1>c, <1>e, ThreadFacts, TailFacts DEF TakeMutex, ag, OffList, Walking
  <2>1. /\ th' \in [Thread -> Progress]
        /\ th'["agent"].pc = "next" /\ th'["agent"].op = th["agent"].op
        /\ th'["agent"].s = "none" /\ th'["agent"].todo = list
        /\ \A u \in Thread : u # "agent" => th'[u] = th[u]
    BY <1>5, <2>g, <1>a, <1>c, <1>e, AgentTodo DEF TakeMutex, ag
  <2>2. /\ mutex' = "agent"
        /\ UNCHANGED <<fd, list, freed, pm, rd, wr, ser, queue, left>>
    BY <1>5, <2>g, <1>a, <1>e DEF TakeMutex
  <2>5. SpaceLocks' BY <2>g, <2>1, <2>2, <1>a, <1>c, <1>e, ThreadFacts, RwSame
  <2>3. TypeOK' BY <2>g, <2>1, <2>2, <1>a, <1>c, <1>e, ThreadFacts DEF TypeOK
  <2>4. Shape' BY <2>g, <2>1, <1>a, <1>c, ThreadFacts DEF Shape, ag
  <2>m. MutexHeld' BY <2>g, <2>1, <2>2, <1>a, <1>c, <1>e, ThreadFacts DEF MutexHeld, Walking, ag
  <2>s. SerialHeld' BY <2>g, <2>1, <2>2, <1>a, <1>c, <1>e, ThreadFacts, SerialSame DEF Serializes
  <2>6. Counted' BY <2>g, <2>1, <2>2, <1>a, <1>c, <1>e, ThreadFacts, CountSame
  <2>7. Lifetime' BY <2>g, <2>1, <2>2, <1>a, <1>c, <1>e, ThreadFacts, LifeSame
  <2>8. OffList'
    BY <2>g, <2>1, <2>2, <1>a, <1>c, <1>e, ThreadFacts, OffListAgent, EmptyFacts DEF OffList, Shape, Walking, ag
  <2> QED BY <2>3, <2>4, <2>m, <2>s, <2>5, <2>6, <2>7, <2>8 DEF LocksInv
<1>6. CASE NextSpace
  <2>1. CASE ag.todo = <<>>
    <3>g. "agent" \in Thread /\ th["agent"].pc = "next" /\ th["agent"].todo = <<>>
      BY <1>6, <2>1, <1>a, <1>c, <1>e, ThreadFacts DEF NextSpace, ag
    <3>1. /\ th' \in [Thread -> Progress]
          /\ th'["agent"].pc = "exit" /\ th'["agent"].op = th["agent"].op /\ th'["agent"].s = "none"
          /\ \A u \in Thread : u # "agent" => th'[u] = th[u]
      BY <1>6, <2>1, <3>g, <1>a, <1>c, <1>e, AgentSpace DEF NextSpace, ag
    <3>2. /\ mutex' = IF mutex = "agent" THEN "none" ELSE mutex
          /\ UNCHANGED <<fd, list, freed, pm, rd, wr, ser, queue, left>>
      BY <1>6, <2>1, <3>g, <1>a, <1>e DEF NextSpace
    <3>5. SpaceLocks' BY <3>g, <3>1, <3>2, <1>a, <1>c, <1>e, ThreadFacts, RwSame
    <3>3. TypeOK' BY <3>g, <3>1, <3>2, <1>a, <1>c, <1>e, ThreadFacts DEF TypeOK
    <3>4. Shape' BY <3>g, <3>1, <1>a, <1>c, ThreadFacts DEF Shape, ag
    <3>m. MutexHeld' BY <3>g, <3>1, <3>2, <1>a, <1>c, <1>e, ThreadFacts DEF MutexHeld, Walking, ag
    <3>s. SerialHeld' BY <3>g, <3>1, <3>2, <1>a, <1>c, <1>e, ThreadFacts, SerialSame DEF Serializes
    <3>6. Counted' BY <3>g, <3>1, <3>2, <1>a, <1>c, <1>e, ThreadFacts, CountSame
    <3>7. Lifetime' BY <3>g, <3>1, <3>2, <1>a, <1>c, <1>e, ThreadFacts, LifeSame
    <3>8. OffList'
      BY <3>g, <3>1, <3>2, <1>a, <1>c, <1>e, ThreadFacts, OffListAgent, EmptyFacts
      DEF OffList, Shape, Walking, ag
    <3> QED BY <3>3, <3>4, <3>m, <3>s, <3>5, <3>6, <3>7, <3>8 DEF LocksInv
  <2>2. CASE ag.todo # <<>>
    <3>g. "agent" \in Thread /\ th["agent"].pc = "next" /\ th["agent"].todo # <<>> /\ th["agent"].todo \in Seq(Spaces)
          /\ ToSet(th["agent"].todo) = ToSet(Tail(th["agent"].todo)) \cup {Head(th["agent"].todo)}
          /\ Head(th["agent"].todo) \in Spaces
      <4>1. "agent" \in Thread /\ th["agent"].todo \in Seq(Spaces) BY <1>e, ThreadFacts DEF Progress
      <4> QED BY <1>6, <2>2, <4>1, TailFacts DEF NextSpace, ag
    <3>1. /\ th' \in [Thread -> Progress]
          /\ th'["agent"].op = th["agent"].op /\ th'["agent"].s = Head(th["agent"].todo)
          /\ th'["agent"].todo = Tail(th["agent"].todo)
          /\ th'["agent"].pc \in {"wants", "wantr"}
          /\ \A u \in Thread : u # "agent" => th'[u] = th[u]
      <4>1. PICK pc \in {"wants", "wantr"} : NextTo(pc) BY <1>6, <2>2 DEF NextSpace
      <4> QED BY <4>1, <3>g, <1>c, <1>e, AgentNext DEF NextTo, ag
    <3>2. UNCHANGED <<fd, list, freed, pm, mutex, rd, wr, ser, queue, left>>
      BY <1>6, <2>2, <3>g, <1>a, <1>e DEF NextSpace
    <3>5. SpaceLocks' BY <3>g, <3>1, <3>2, <1>a, <1>c, <1>e, ThreadFacts, RwSame
    <3>3. TypeOK' BY <3>g, <3>1, <3>2, <1>a, <1>c, <1>e, ThreadFacts DEF TypeOK
    <3>4. Shape' BY <3>g, <3>1, <1>a, <1>c, ThreadFacts DEF Shape, ag
    <3>m. MutexHeld' BY <3>g, <3>1, <3>2, <1>a, <1>c, <1>e, ThreadFacts DEF MutexHeld, Walking, ag
    <3>s. SerialHeld' BY <3>g, <3>1, <3>2, <1>a, <1>c, <1>e, ThreadFacts, SerialSame DEF Serializes
    <3>6. Counted' BY <3>g, <3>1, <3>2, <1>a, <1>c, <1>e, ThreadFacts, CountSame
    <3>7. Lifetime' BY <3>g, <3>1, <3>2, <1>a, <1>c, <1>e, ThreadFacts, LifeSame
    <3>8. OffList'
      BY <3>g, <3>1, <3>2, <1>a, <1>c, <1>e, ThreadFacts, OffListAgent, EmptyFacts
      DEF OffList, Shape, Walking, ag
    <3> QED BY <3>3, <3>4, <3>m, <3>s, <3>5, <3>6, <3>7, <3>8 DEF LocksInv
  <2> QED BY <1>6, <2>1, <2>2
<1>7. CASE prepare_va_space
  <2>g. "agent" \in Thread /\ th["agent"].pc = "inw" /\ th["agent"].op = "prepare" /\ th["agent"].s \in Spaces
    BY <1>7, <1>a, <1>c, <1>e, ThreadFacts, TailFacts DEF prepare_va_space, ag, Shape
  <2>1. /\ th' \in [Thread -> Progress]
        /\ th'["agent"].pc = "next" /\ th'["agent"].op = th["agent"].op
        /\ th'["agent"].s = th["agent"].s /\ th'["agent"].todo = th["agent"].todo
        /\ \A u \in Thread : u # "agent" => th'[u] = th[u]
    BY <1>7, <2>g, <1>a, <1>c, <1>e, AgentTo DEF prepare_va_space, Again, ag
  <2>r. wr' = [wr EXCEPT ![th["agent"].s] = "none"] /\ ser' = [ser EXCEPT ![th["agent"].s] = "none"]
    BY <1>7, <2>g, <1>a, <1>e DEF prepare_va_space, UpWrite, Unserialize
  <2>2. UNCHANGED <<fd, list, freed, pm, mutex, rd, queue, left>>
    BY <1>7, <2>g, <1>a, <1>e DEF prepare_va_space, UpWrite, Unserialize
  <2>5. SpaceLocks' BY <2>g, <2>1, <2>2, <2>r, <1>a, <1>c, <1>e, ThreadFacts, RwUpWrite
  <2>3. TypeOK'
    <3>1. /\ rd' \in [Spaces -> [Thread -> Int]] /\ wr' \in [Spaces -> Thread \cup {"none"}]
          /\ ser' \in [Spaces -> Thread \cup {"none"}]
      BY <2>g, <2>1, <2>2, <2>r, <1>a, <1>c, <1>e, ThreadFacts
    <3> QED BY <2>g, <2>1, <2>2, <2>r, <1>a, <1>c, <1>e, ThreadFacts, <3>1 DEF TypeOK
  <2>4. Shape' BY <2>g, <2>1, <1>a, <1>c, ThreadFacts DEF Shape, ag
  <2>m. MutexHeld' BY <2>g, <2>1, <2>2, <2>r, <1>a, <1>c, <1>e, ThreadFacts DEF MutexHeld, Walking, ag
  <2>s. SerialHeld' BY <2>g, <2>1, <2>2, <2>r, <1>a, <1>c, <1>e, ThreadFacts, SerialDrop DEF Serializes
  <2>6. Counted' BY <2>g, <2>1, <2>2, <2>r, <1>a, <1>c, <1>e, ThreadFacts, CountSame
  <2>7. Lifetime' BY <2>g, <2>1, <2>2, <2>r, <1>a, <1>c, <1>e, ThreadFacts, LifeSame
  <2>8. OffList'
    BY <2>g, <2>1, <2>2, <2>r, <1>a, <1>c, <1>e, ThreadFacts, OffListAgent, EmptyFacts
    DEF OffList, Shape, Walking, ag
  <2> QED BY <2>3, <2>4, <2>m, <2>s, <2>5, <2>6, <2>7, <2>8 DEF LocksInv
<1>8. CASE finalize_va_space
  <2>g. "agent" \in Thread /\ th["agent"].pc = "inw" /\ th["agent"].op = "finalize" /\ th["agent"].s \in Spaces
    BY <1>8, <1>a, <1>c, <1>e, ThreadFacts, TailFacts DEF finalize_va_space, ag, Shape
  <2>1. /\ th' \in [Thread -> Progress]
        /\ th'["agent"].pc = "next" /\ th'["agent"].op = th["agent"].op
        /\ th'["agent"].s = th["agent"].s /\ th'["agent"].todo = th["agent"].todo
        /\ \A u \in Thread : u # "agent" => th'[u] = th[u]
    BY <1>8, <2>g, <1>a, <1>c, <1>e, AgentTo DEF finalize_va_space, Again, ag
  <2>r. wr' = [wr EXCEPT ![th["agent"].s] = "none"] /\ ser' = [ser EXCEPT ![th["agent"].s] = "none"]
    BY <1>8, <2>g, <1>a, <1>e DEF finalize_va_space, UpWrite, Unserialize
  <2>2. UNCHANGED <<fd, list, freed, pm, mutex, rd, queue, left>>
    BY <1>8, <2>g, <1>a, <1>e DEF finalize_va_space, UpWrite, Unserialize
  <2>5. SpaceLocks' BY <2>g, <2>1, <2>2, <2>r, <1>a, <1>c, <1>e, ThreadFacts, RwUpWrite
  <2>3. TypeOK'
    <3>1. /\ rd' \in [Spaces -> [Thread -> Int]] /\ wr' \in [Spaces -> Thread \cup {"none"}]
          /\ ser' \in [Spaces -> Thread \cup {"none"}]
      BY <2>g, <2>1, <2>2, <2>r, <1>a, <1>c, <1>e, ThreadFacts
    <3> QED BY <2>g, <2>1, <2>2, <2>r, <1>a, <1>c, <1>e, ThreadFacts, <3>1 DEF TypeOK
  <2>4. Shape' BY <2>g, <2>1, <1>a, <1>c, ThreadFacts DEF Shape, ag
  <2>m. MutexHeld' BY <2>g, <2>1, <2>2, <2>r, <1>a, <1>c, <1>e, ThreadFacts DEF MutexHeld, Walking, ag
  <2>s. SerialHeld' BY <2>g, <2>1, <2>2, <2>r, <1>a, <1>c, <1>e, ThreadFacts, SerialDrop DEF Serializes
  <2>6. Counted' BY <2>g, <2>1, <2>2, <2>r, <1>a, <1>c, <1>e, ThreadFacts, CountSame
  <2>7. Lifetime' BY <2>g, <2>1, <2>2, <2>r, <1>a, <1>c, <1>e, ThreadFacts, LifeSame
  <2>8. OffList'
    BY <2>g, <2>1, <2>2, <2>r, <1>a, <1>c, <1>e, ThreadFacts, OffListAgent, EmptyFacts
    DEF OffList, Shape, Walking, ag
  <2> QED BY <2>3, <2>4, <2>m, <2>s, <2>5, <2>6, <2>7, <2>8 DEF LocksInv
<1>9. CASE dirty_va_space
  <2>1. CASE UpRead("agent") /\ Again /\ UNCHANGED left
    <3>g. "agent" \in Thread /\ th["agent"].pc = "inr" /\ th["agent"].op = "dirty" /\ th["agent"].s \in Spaces /\ <<>> \in Seq(Spaces)
      BY <1>9, <2>1, <1>a, <1>c, <1>e, ThreadFacts DEF dirty_va_space, ag, Shape
    <3>1. /\ th' \in [Thread -> Progress]
          /\ th'["agent"].pc = "next" /\ th'["agent"].op = th["agent"].op
          /\ th'["agent"].s = th["agent"].s /\ th'["agent"].todo = th["agent"].todo
          /\ \A u \in Thread : u # "agent" => th'[u] = th[u]
      BY <1>9, <2>1, <3>g, <1>a, <1>c, <1>e, AgentTo DEF dirty_va_space, Again, ag
    <3>r. /\ rd' \in [Spaces -> [Thread -> Int]]
          /\ \A x \in Spaces, u \in Thread : rd'[x][u] = IF x = th["agent"].s /\ u = "agent" THEN rd[x][u] - 1 ELSE rd[x][u]
      BY <1>9, <2>1, <3>g, <1>a, <1>e DEF dirty_va_space, UpRead
    <3>2. UNCHANGED <<fd, list, freed, pm, mutex, wr, ser, queue, left>>
      BY <1>9, <2>1, <3>g, <1>a, <1>e DEF dirty_va_space, UpRead
    <3>5. SpaceLocks' BY <3>g, <3>1, <3>2, <3>r, <1>a, <1>c, <1>e, ThreadFacts, RwUpRead
    <3>3. TypeOK'
      <4>1. /\ rd' \in [Spaces -> [Thread -> Int]] /\ wr' \in [Spaces -> Thread \cup {"none"}]
            /\ ser' \in [Spaces -> Thread \cup {"none"}]
        BY <3>g, <3>1, <3>2, <3>r, <1>a, <1>c, <1>e, ThreadFacts
      <4> QED BY <3>g, <3>1, <3>2, <3>r, <1>a, <1>c, <1>e, ThreadFacts, <4>1 DEF TypeOK
    <3>4. Shape' BY <3>g, <3>1, <1>a, <1>c, ThreadFacts DEF Shape, ag
    <3>m. MutexHeld' BY <3>g, <3>1, <3>2, <3>r, <1>a, <1>c, <1>e, ThreadFacts DEF MutexHeld, Walking, ag
    <3>s. SerialHeld' BY <3>g, <3>1, <3>2, <3>r, <1>a, <1>c, <1>e, ThreadFacts, SerialSame DEF Serializes
    <3>6. Counted' BY <3>g, <3>1, <3>2, <3>r, <1>a, <1>c, <1>e, ThreadFacts, CountSame
    <3>7. Lifetime' BY <3>g, <3>1, <3>2, <3>r, <1>a, <1>c, <1>e, ThreadFacts, LifeSame
    <3>8. OffList'
      BY <3>g, <3>1, <3>2, <3>r, <1>a, <1>c, <1>e, ThreadFacts, OffListAgent, EmptyFacts
      DEF OffList, Shape, Walking, ag
    <3> QED BY <3>3, <3>4, <3>m, <3>s, <3>5, <3>6, <3>7, <3>8 DEF LocksInv
  <2>2. CASE left' = [left EXCEPT ![ag.s] = @ + 1] /\ Stop /\ UNCHANGED <<rd, wr>>
    <3>g. "agent" \in Thread /\ th["agent"].pc = "inr" /\ th["agent"].op = "dirty" /\ th["agent"].s \in Spaces /\ <<>> \in Seq(Spaces)
      BY <1>9, <2>2, <1>a, <1>c, <1>e, ThreadFacts DEF dirty_va_space, ag, Shape
    <3>1. /\ th' \in [Thread -> Progress]
          /\ th'["agent"].pc = "next" /\ th'["agent"].op = th["agent"].op
          /\ th'["agent"].s = th["agent"].s /\ th'["agent"].todo = <<>>
          /\ \A u \in Thread : u # "agent" => th'[u] = th[u]
      BY <1>9, <2>2, <3>g, <1>a, <1>c, <1>e, AgentTodo DEF dirty_va_space, Stop, ag
    <3>2. /\ left' = [left EXCEPT ![th["agent"].s] = @ + 1]
          /\ UNCHANGED <<fd, list, freed, pm, mutex, rd, wr, ser, queue>>
      BY <1>9, <2>2, <3>g, <1>a, <1>e DEF dirty_va_space, ag
    <3>5. SpaceLocks' BY <3>g, <3>1, <3>2, <1>a, <1>c, <1>e, ThreadFacts, RwLeave
    <3>3. TypeOK' BY <3>g, <3>1, <3>2, <1>a, <1>c, <1>e, ThreadFacts DEF TypeOK
    <3>4. Shape' BY <3>g, <3>1, <1>a, <1>c, ThreadFacts DEF Shape, ag
    <3>m. MutexHeld' BY <3>g, <3>1, <3>2, <1>a, <1>c, <1>e, ThreadFacts DEF MutexHeld, Walking, ag
    <3>s. SerialHeld' BY <3>g, <3>1, <3>2, <1>a, <1>c, <1>e, ThreadFacts, SerialSame DEF Serializes
    <3>6. Counted' BY <3>g, <3>1, <3>2, <1>a, <1>c, <1>e, ThreadFacts, CountSame
    <3>7. Lifetime' BY <3>g, <3>1, <3>2, <1>a, <1>c, <1>e, ThreadFacts, LifeSame
    <3>8. OffList'
      BY <3>g, <3>1, <3>2, <1>a, <1>c, <1>e, ThreadFacts, OffListAgent, EmptyFacts
      DEF OffList, Shape, Walking, ag
    <3> QED BY <3>3, <3>4, <3>m, <3>s, <3>5, <3>6, <3>7, <3>8 DEF LocksInv
  <2> QED BY <1>9, <2>1, <2>2 DEF dirty_va_space
<1>10. CASE ranges_va_space
  <2>g. "agent" \in Thread /\ th["agent"].pc = "inr" /\ th["agent"].op = "ranges" /\ th["agent"].s \in Spaces /\ <<>> \in Seq(Spaces)
    BY <1>10, <1>a, <1>c, <1>e, ThreadFacts, TailFacts DEF ranges_va_space, ag, Shape
  <2>1. /\ th' \in [Thread -> Progress]
        /\ th'["agent"].pc = "next" /\ th'["agent"].op = th["agent"].op /\ th'["agent"].s = th["agent"].s
        /\ th'["agent"].todo \in {th["agent"].todo, <<>>}
        /\ \A u \in Thread : u # "agent" => th'[u] = th[u]
    BY <1>10, <2>g, <1>a, <1>c, <1>e, AgentTo, AgentTodo DEF ranges_va_space, Again, Stop, ag
  <2>r. /\ rd' \in [Spaces -> [Thread -> Int]]
        /\ \A x \in Spaces, u \in Thread : rd'[x][u] = IF x = th["agent"].s /\ u = "agent" THEN rd[x][u] - 1 ELSE rd[x][u]
    BY <1>10, <2>g, <1>a, <1>e DEF ranges_va_space, UpRead
  <2>2. UNCHANGED <<fd, list, freed, pm, mutex, wr, ser, queue, left>>
    BY <1>10, <2>g, <1>a, <1>e DEF ranges_va_space, UpRead
  <2>5. SpaceLocks' BY <2>g, <2>1, <2>2, <2>r, <1>a, <1>c, <1>e, ThreadFacts, RwUpRead
  <2>3. TypeOK'
    <3>1. /\ rd' \in [Spaces -> [Thread -> Int]] /\ wr' \in [Spaces -> Thread \cup {"none"}]
          /\ ser' \in [Spaces -> Thread \cup {"none"}]
      BY <2>g, <2>1, <2>2, <2>r, <1>a, <1>c, <1>e, ThreadFacts
    <3> QED BY <2>g, <2>1, <2>2, <2>r, <1>a, <1>c, <1>e, ThreadFacts, <3>1 DEF TypeOK
  <2>4. Shape' BY <2>g, <2>1, <1>a, <1>c, ThreadFacts DEF Shape, ag
  <2>m. MutexHeld' BY <2>g, <2>1, <2>2, <2>r, <1>a, <1>c, <1>e, ThreadFacts DEF MutexHeld, Walking, ag
  <2>s. SerialHeld' BY <2>g, <2>1, <2>2, <2>r, <1>a, <1>c, <1>e, ThreadFacts, SerialSame DEF Serializes
  <2>6. Counted' BY <2>g, <2>1, <2>2, <2>r, <1>a, <1>c, <1>e, ThreadFacts, CountSame
  <2>7. Lifetime' BY <2>g, <2>1, <2>2, <2>r, <1>a, <1>c, <1>e, ThreadFacts, LifeSame
  <2>8. OffList'
    BY <2>g, <2>1, <2>2, <2>r, <1>a, <1>c, <1>e, ThreadFacts, OffListAgent, EmptyFacts
    DEF OffList, Shape, Walking, ag
  <2> QED BY <2>3, <2>4, <2>m, <2>s, <2>5, <2>6, <2>7, <2>8 DEF LocksInv
<1>11. CASE read_va_space
  <2>g. "agent" \in Thread /\ th["agent"].pc = "inr" /\ th["agent"].op = "read" /\ th["agent"].s \in Spaces /\ <<>> \in Seq(Spaces)
    BY <1>11, <1>a, <1>c, <1>e, ThreadFacts, TailFacts DEF read_va_space, ag, Shape
  <2>1. /\ th' \in [Thread -> Progress]
        /\ th'["agent"].pc = "next" /\ th'["agent"].op = th["agent"].op /\ th'["agent"].s = th["agent"].s
        /\ th'["agent"].todo \in {th["agent"].todo, <<>>}
        /\ \A u \in Thread : u # "agent" => th'[u] = th[u]
    BY <1>11, <2>g, <1>a, <1>c, <1>e, AgentTo, AgentTodo DEF read_va_space, Again, Stop, ag
  <2>r. /\ rd' \in [Spaces -> [Thread -> Int]]
        /\ \A x \in Spaces, u \in Thread : rd'[x][u] = IF x = th["agent"].s /\ u = "agent" THEN rd[x][u] - 1 ELSE rd[x][u]
    BY <1>11, <2>g, <1>a, <1>e DEF read_va_space, UpRead
  <2>2. UNCHANGED <<fd, list, freed, pm, mutex, wr, ser, queue, left>>
    BY <1>11, <2>g, <1>a, <1>e DEF read_va_space, UpRead
  <2>5. SpaceLocks' BY <2>g, <2>1, <2>2, <2>r, <1>a, <1>c, <1>e, ThreadFacts, RwUpRead
  <2>3. TypeOK'
    <3>1. /\ rd' \in [Spaces -> [Thread -> Int]] /\ wr' \in [Spaces -> Thread \cup {"none"}]
          /\ ser' \in [Spaces -> Thread \cup {"none"}]
      BY <2>g, <2>1, <2>2, <2>r, <1>a, <1>c, <1>e, ThreadFacts
    <3> QED BY <2>g, <2>1, <2>2, <2>r, <1>a, <1>c, <1>e, ThreadFacts, <3>1 DEF TypeOK
  <2>4. Shape' BY <2>g, <2>1, <1>a, <1>c, ThreadFacts DEF Shape, ag
  <2>m. MutexHeld' BY <2>g, <2>1, <2>2, <2>r, <1>a, <1>c, <1>e, ThreadFacts DEF MutexHeld, Walking, ag
  <2>s. SerialHeld' BY <2>g, <2>1, <2>2, <2>r, <1>a, <1>c, <1>e, ThreadFacts, SerialSame DEF Serializes
  <2>6. Counted' BY <2>g, <2>1, <2>2, <2>r, <1>a, <1>c, <1>e, ThreadFacts, CountSame
  <2>7. Lifetime' BY <2>g, <2>1, <2>2, <2>r, <1>a, <1>c, <1>e, ThreadFacts, LifeSame
  <2>8. OffList'
    BY <2>g, <2>1, <2>2, <2>r, <1>a, <1>c, <1>e, ThreadFacts, OffListAgent, EmptyFacts
    DEF OffList, Shape, Walking, ag
  <2> QED BY <2>3, <2>4, <2>m, <2>s, <2>5, <2>6, <2>7, <2>8 DEF LocksInv
<1>12. CASE IoctlReturn
  <2>g. "agent" \in Thread /\ th["agent"].pc = "exit" /\ th["agent"].op \in Ioctls /\ PmUp
    BY <1>12, <1>a, <1>c, <1>e, ThreadFacts, TailFacts DEF IoctlReturn, ag, Shape
  <2>1. /\ th' \in [Thread -> Progress]
        /\ th'["agent"].pc = "idle" /\ th'["agent"].op = "none" /\ th'["agent"].s = "none"
        /\ \A u \in Thread : u # "agent" => th'[u] = th[u]
    BY <1>12, <2>g, <1>a, <1>c, <1>e, IdleFacts, ThUpdate DEF IoctlReturn, Go
  <2>2. /\ pm' \in [r : Int, w : BOOLEAN] /\ pm'.r = pm.r - 1 /\ pm'.w = pm.w
        /\ UNCHANGED <<fd, list, freed, mutex, rd, wr, ser, queue, left>>
    BY <1>12, <2>g, <1>a, <1>e, PmFacts DEF IoctlReturn
  <2>5. SpaceLocks' BY <2>g, <2>1, <2>2, <1>a, <1>c, <1>e, ThreadFacts, RwSame
  <2>3. TypeOK' BY <2>g, <2>1, <2>2, <1>a, <1>c, <1>e, ThreadFacts DEF TypeOK
  <2>4. Shape' BY <2>g, <2>1, <1>a, <1>c, ThreadFacts DEF Shape, ag
  <2>m. MutexHeld' BY <2>g, <2>1, <2>2, <1>a, <1>c, <1>e, ThreadFacts DEF MutexHeld, Walking, ag
  <2>s. SerialHeld' BY <2>g, <2>1, <2>2, <1>a, <1>c, <1>e, ThreadFacts, SerialSame DEF Serializes
  <2>6. Counted' BY <2>g, <2>1, <2>2, <1>a, <1>c, <1>e, ThreadFacts, CountEnd
  <2>7. Lifetime' BY <2>g, <2>1, <2>2, <1>a, <1>c, <1>e, ThreadFacts, LifeSame
  <2>8. OffList'
    BY <2>g, <2>1, <2>2, <1>a, <1>c, <1>e, ThreadFacts, OffListAgent, EmptyFacts DEF OffList, Shape, Walking, ag
  <2> QED BY <2>3, <2>4, <2>m, <2>s, <2>5, <2>6, <2>7, <2>8 DEF LocksInv
<1>13. ASSUME NEW s \in Spaces, uvm_api_initialize(s) PROVE LocksInv'
  <2>g. /\ s \in Thread /\ s \notin {"pm", "isr", "drq", "agent", "none"}
        /\ th[s].pc = "idle" /\ th[s].op = "none" /\ fd[s] = "uninitialized" /\ ~pm.w /\ PmDown
    BY <1>13, <1>a, <1>c, <1>e, ThreadFacts, TailFacts DEF uvm_api_initialize, PmFree, Shape
  <2>1. /\ th' \in [Thread -> Progress]
        /\ th'[s].pc = "create" /\ th'[s].op = "init" /\ th'[s].s = s
        /\ \A u \in Thread : u # s => th'[u] = th[u]
    BY <1>13, <2>g, <1>a, <1>c, <1>e, StartThread DEF uvm_api_initialize
  <2>2. /\ fd' = [fd EXCEPT ![s] = "initializing"]
        /\ pm' \in [r : Int, w : BOOLEAN] /\ pm'.r = pm.r + 1 /\ ~pm'.w
        /\ UNCHANGED <<list, freed, mutex, rd, wr, ser, queue, left>>
    BY <1>13, <2>g, <1>a, <1>e, PmFacts DEF uvm_api_initialize
  <2>5. SpaceLocks' BY <2>g, <2>1, <2>2, <1>a, <1>c, <1>e, ThreadFacts, RwSame
  <2>3. TypeOK' BY <2>g, <2>1, <2>2, <1>a, <1>c, <1>e, ThreadFacts DEF TypeOK
  <2>4. Shape' BY <2>g, <2>1, <1>a, <1>c, ThreadFacts DEF Shape, ag
  <2>m. MutexHeld' BY <2>g, <2>1, <2>2, <1>a, <1>c, <1>e, ThreadFacts DEF MutexHeld, Walking, ag
  <2>s. SerialHeld' BY <2>g, <2>1, <2>2, <1>a, <1>c, <1>e, ThreadFacts, SerialSame DEF Serializes
  <2>6. Counted' BY <2>g, <2>1, <2>2, <1>a, <1>c, <1>e, ThreadFacts, CountStart
  <2>7. Lifetime'
    <3>1. \A x \in Spaces : x # s => fd'[x] = fd[x] BY <2>2, <1>e
    <3>2. fd'[s] = "initializing" BY <2>2, <1>e
    <3>3. \A x \in Spaces : Destroys(x, x)' <=> Destroys(x, x) BY <2>g, <2>1, ThreadFacts DEF Destroys
    <3>4. \A x \in Spaces : Destroys("drq", x)' <=> Destroys("drq", x) BY <2>g, <2>1, ThreadFacts DEF Destroys
    <3>5. \A x \in Spaces : x # s => th'[x] = th[x] BY <2>1, ThreadFacts
    <3> QED BY <2>g, <2>1, <2>2, <3>1, <3>2, <3>3, <3>4, <3>5, <1>a DEF Lifetime
  <2>8. OffList' BY <2>g, <2>1, <2>2, <1>a, <1>c, <1>e, ThreadFacts, OffListSame
  <2> QED BY <2>3, <2>4, <2>m, <2>s, <2>5, <2>6, <2>7, <2>8 DEF LocksInv
<1>14. ASSUME NEW s \in Spaces, va_space_create(s) PROVE LocksInv'
  <2>1. CASE fd' = [fd EXCEPT ![s] = "va_space"] /\ list' = Append(list, s)
    <3>g. /\ s \in Thread /\ s \notin {"pm", "isr", "drq", "agent", "none"}
          /\ th[s].pc = "create" /\ th[s].op = "init" /\ mutex = "none"
          /\ PmUp /\ fd[s] = "initializing" /\ s \notin ToSet(list)
      BY <1>14, <2>1, <1>a, <1>c, <1>e, ThreadFacts DEF va_space_create, Shape, Lifetime
    <3>1. /\ th' \in [Thread -> Progress]
          /\ th'[s].pc = "idle" /\ th'[s].op = "none" /\ th'[s].s = "none"
          /\ \A u \in Thread : u # s => th'[u] = th[u]
      BY <1>14, <2>1, <3>g, <1>a, <1>c, <1>e, IdleFacts, ThUpdate DEF va_space_create
    <3>2. /\ fd' = [fd EXCEPT ![s] = "va_space"] /\ list' \in Seq(Spaces) /\ ToSet(list') = ToSet(list) \cup {s}
          /\ \A i, j \in 1..Len(list') : list'[i] = list'[j] => i = j
          /\ pm' \in [r : Int, w : BOOLEAN] /\ pm'.r = pm.r - 1 /\ pm'.w = pm.w
          /\ UNCHANGED <<freed, mutex, rd, wr, ser, queue, left>>
      <4>1. \A i, j \in 1..Len(list) : list[i] = list[j] => i = j BY <1>a DEF Lifetime
      <4>2. /\ Append(list, s) \in Seq(Spaces) /\ ToSet(Append(list, s)) = ToSet(list) \cup {s}
            /\ \A i, j \in 1..Len(Append(list, s)) : Append(list, s)[i] = Append(list, s)[j] => i = j
        <5>1. list \in Seq(Spaces) /\ s \notin ToSet(list) BY <1>e, <3>g
        <5> QED BY <4>1, <5>1, AppendFacts, Zenon
      <4>3. pm' \in [r : Int, w : BOOLEAN] /\ pm'.r = pm.r - 1 /\ pm'.w = pm.w BY <3>g, <1>e, PmFacts
      <4>4. list' = Append(list, s) BY <2>1
      <4> QED BY <1>14, <2>1, <4>2, <4>3, <4>4 DEF va_space_create
    <3>5. SpaceLocks' BY <3>g, <3>1, <3>2, <1>a, <1>c, <1>e, ThreadFacts, RwSame
    <3>3. TypeOK' BY <3>g, <3>1, <3>2, <1>a, <1>c, <1>e, ThreadFacts DEF TypeOK
    <3>4. Shape' BY <3>g, <3>1, <1>a, <1>c, ThreadFacts DEF Shape, ag
    <3>m. MutexHeld' BY <3>g, <3>1, <3>2, <1>a, <1>c, <1>e, ThreadFacts DEF MutexHeld, Walking, ag
    <3>s. SerialHeld' BY <3>g, <3>1, <3>2, <1>a, <1>c, <1>e, ThreadFacts, SerialSame DEF Serializes
    <3>6. Counted' BY <3>g, <3>1, <3>2, <1>a, <1>c, <1>e, ThreadFacts, CountEnd
    <3>7. Lifetime'
      <4>1. \A x \in Spaces : x # s => fd'[x] = fd[x] BY <3>2, <1>e
      <4>2. fd'[s] = "va_space" BY <3>2, <1>e
      <4>3. s \notin freed /\ s \notin ToSet(queue) /\ ~Destroys("drq", s) BY <3>g, <1>a DEF Lifetime
      <4>4. \A x \in Spaces : Destroys(x, x)' <=> Destroys(x, x) BY <3>g, <3>1, ThreadFacts DEF Destroys
      <4>5. \A x \in Spaces : Destroys("drq", x)' <=> Destroys("drq", x) BY <3>g, <3>1, ThreadFacts DEF Destroys
      <4>6. ~Destroys(s, s) BY <3>g DEF Destroys
      <4>7. \A x \in Spaces : x # s => th'[x] = th[x] BY <3>1, ThreadFacts
      <4> QED BY <3>g, <3>1, <3>2, <4>1, <4>2, <4>3, <4>4, <4>5, <4>6, <4>7, <1>a DEF Lifetime
    <3>8. OffList'
      <4>1. \A u \in Thread : u # s => th'[u] = th[u] BY <3>1
      <4>2. \A u \in Thread : th[u].op = "destroy" => th[u].s # s
        <5> SUFFICES ASSUME NEW u \in Thread, th[u].op = "destroy" PROVE th[u].s # s OBVIOUS
        <5>1. u \in Spaces \cup {"drq"} BY <1>a, <1>c DEF Shape, ag, Thread, Ioctls
        <5>2. ~Destroys("drq", s) /\ ~Destroys(s, s) BY <3>g, <1>a DEF Lifetime
        <5>3. CASE u = "drq" BY <5>2, <5>3 DEF Destroys
        <5>4. CASE u \in Spaces BY <5>2, <5>4, <3>g, <1>a DEF Destroys, Shape
        <5> QED BY <5>1, <5>3, <5>4
      <4>3. ~(mutex = "agent") BY <3>g
      <4> QED BY <3>g, <3>1, <3>2, <4>1, <4>2, <4>3, <1>a, ThreadFacts DEF OffList, MutexHeld, Walking, ag
    <3> QED BY <3>3, <3>4, <3>m, <3>s, <3>5, <3>6, <3>7, <3>8 DEF LocksInv
  <2>2. CASE fd' = [fd EXCEPT ![s] = "uninitialized"] /\ UNCHANGED list
    <3>g. /\ s \in Thread /\ s \notin {"pm", "isr", "drq", "agent", "none"}
          /\ th[s].pc = "create" /\ th[s].op = "init" /\ mutex = "none"
          /\ PmUp /\ fd[s] = "initializing" /\ s \notin ToSet(list)
      BY <1>14, <2>2, <1>a, <1>c, <1>e, ThreadFacts DEF va_space_create, Shape, Lifetime
    <3>1. /\ th' \in [Thread -> Progress]
          /\ th'[s].pc = "idle" /\ th'[s].op = "none" /\ th'[s].s = "none"
          /\ \A u \in Thread : u # s => th'[u] = th[u]
      BY <1>14, <2>2, <3>g, <1>a, <1>c, <1>e, IdleFacts, ThUpdate DEF va_space_create
    <3>2. /\ fd' = [fd EXCEPT ![s] = "uninitialized"]
          /\ pm' \in [r : Int, w : BOOLEAN] /\ pm'.r = pm.r - 1 /\ pm'.w = pm.w
          /\ UNCHANGED <<list, freed, mutex, rd, wr, ser, queue, left>>
      BY <1>14, <2>2, <3>g, <1>a, <1>e, PmFacts DEF va_space_create
    <3>5. SpaceLocks' BY <3>g, <3>1, <3>2, <1>a, <1>c, <1>e, ThreadFacts, RwSame
    <3>3. TypeOK' BY <3>g, <3>1, <3>2, <1>a, <1>c, <1>e, ThreadFacts DEF TypeOK
    <3>4. Shape' BY <3>g, <3>1, <1>a, <1>c, ThreadFacts DEF Shape, ag
    <3>m. MutexHeld' BY <3>g, <3>1, <3>2, <1>a, <1>c, <1>e, ThreadFacts DEF MutexHeld, Walking, ag
    <3>s. SerialHeld' BY <3>g, <3>1, <3>2, <1>a, <1>c, <1>e, ThreadFacts, SerialSame DEF Serializes
    <3>6. Counted' BY <3>g, <3>1, <3>2, <1>a, <1>c, <1>e, ThreadFacts, CountEnd
    <3>7. Lifetime'
      <4>1. \A x \in Spaces : x # s => fd'[x] = fd[x] BY <3>2, <1>e
      <4>2. fd'[s] = "uninitialized" BY <3>2, <1>e
      <4>3. s \notin freed /\ s \notin ToSet(queue) /\ ~Destroys("drq", s) BY <3>g, <1>a DEF Lifetime
      <4>4. \A x \in Spaces : Destroys(x, x)' <=> Destroys(x, x) BY <3>g, <3>1, ThreadFacts DEF Destroys
      <4>5. \A x \in Spaces : Destroys("drq", x)' <=> Destroys("drq", x) BY <3>g, <3>1, ThreadFacts DEF Destroys
      <4>6. ~Destroys(s, s) BY <3>g DEF Destroys
      <4>7. \A x \in Spaces : x # s => th'[x] = th[x] BY <3>1, ThreadFacts
      <4> QED BY <3>g, <3>1, <3>2, <4>1, <4>2, <4>3, <4>4, <4>5, <4>6, <4>7, <1>a DEF Lifetime
    <3>8. OffList' BY <3>g, <3>1, <3>2, <1>a, <1>c, <1>e, ThreadFacts, OffListSame
    <3> QED BY <3>3, <3>4, <3>m, <3>s, <3>5, <3>6, <3>7, <3>8 DEF LocksInv
  <2> QED BY <1>14, <2>1, <2>2 DEF va_space_create
<1>15. ASSUME NEW s \in Spaces, uvm_mmap(s) PROVE LocksInv'
  <2>g. /\ s \in Thread /\ s \notin {"pm", "isr", "drq", "agent", "none"}
        /\ th[s].pc = "idle" /\ th[s].op = "none" /\ fd[s] = "va_space" /\ ~pm.w /\ PmDown
    BY <1>15, <1>a, <1>c, <1>e, ThreadFacts, TailFacts DEF uvm_mmap, PmFree, Shape
  <2>1. /\ th' \in [Thread -> Progress]
        /\ th'[s].pc \in {"wants", "exit"} /\ th'[s].op = "mmap" /\ th'[s].s = s
        /\ \A u \in Thread : u # s => th'[u] = th[u]
    <3>1. PICK pc \in {"wants", "exit"} : Set(s, "mmap", pc, s) BY <1>15 DEF uvm_mmap
    <3> QED BY <3>1, <2>g, <1>c, <1>e, StartThread
  <2>2. /\ pm' \in [r : Int, w : BOOLEAN] /\ pm'.r = pm.r + 1 /\ ~pm'.w
        /\ UNCHANGED <<fd, list, freed, mutex, rd, wr, ser, queue, left>>
    BY <1>15, <2>g, <1>a, <1>e, PmFacts DEF uvm_mmap
  <2>5. SpaceLocks' BY <2>g, <2>1, <2>2, <1>a, <1>c, <1>e, ThreadFacts, RwSame
  <2>3. TypeOK' BY <2>g, <2>1, <2>2, <1>a, <1>c, <1>e, ThreadFacts DEF TypeOK
  <2>4. Shape' BY <2>g, <2>1, <1>a, <1>c, ThreadFacts DEF Shape, ag
  <2>m. MutexHeld' BY <2>g, <2>1, <2>2, <1>a, <1>c, <1>e, ThreadFacts DEF MutexHeld, Walking, ag
  <2>s. SerialHeld' BY <2>g, <2>1, <2>2, <1>a, <1>c, <1>e, ThreadFacts, SerialSame DEF Serializes
  <2>6. Counted' BY <2>g, <2>1, <2>2, <1>a, <1>c, <1>e, ThreadFacts, CountStart
  <2>7. Lifetime' BY <2>g, <2>1, <2>2, <1>a, ThreadFacts DEF Lifetime, Destroys, Shape
  <2>8. OffList' BY <2>g, <2>1, <2>2, <1>a, <1>c, <1>e, ThreadFacts, OffListSame
  <2> QED BY <2>3, <2>4, <2>m, <2>s, <2>5, <2>6, <2>7, <2>8 DEF LocksInv
<1>16. ASSUME NEW s \in Spaces, uvm_vm_close_managed(s) PROVE LocksInv'
  <2>g. /\ s \in Thread /\ s \notin {"pm", "isr", "drq", "agent", "none"}
        /\ th[s].pc = "idle" /\ th[s].op = "none" /\ fd[s] = "va_space"
    BY <1>16, <1>a, <1>c, <1>e, ThreadFacts, TailFacts DEF uvm_vm_close_managed, Shape
  <2>1. /\ th' \in [Thread -> Progress]
        /\ th'[s].pc \in {"wants", "wantm"} /\ th'[s].op = "close" /\ th'[s].s = s
        /\ \A u \in Thread : u # s => th'[u] = th[u]
    <3>1. PICK pc \in {"wants", "wantm"} : Set(s, "close", pc, s) BY <1>16 DEF uvm_vm_close_managed
    <3> QED BY <3>1, <2>g, <1>c, <1>e, StartThread
  <2>2. UNCHANGED <<fd, list, freed, pm, mutex, rd, wr, ser, queue, left>>
    BY <1>16, <2>g, <1>a, <1>e DEF uvm_vm_close_managed
  <2>5. SpaceLocks' BY <2>g, <2>1, <2>2, <1>a, <1>c, <1>e, ThreadFacts, RwSame
  <2>3. TypeOK' BY <2>g, <2>1, <2>2, <1>a, <1>c, <1>e, ThreadFacts DEF TypeOK
  <2>4. Shape' BY <2>g, <2>1, <1>a, <1>c, ThreadFacts DEF Shape, ag
  <2>m. MutexHeld' BY <2>g, <2>1, <2>2, <1>a, <1>c, <1>e, ThreadFacts DEF MutexHeld, Walking, ag
  <2>s. SerialHeld' BY <2>g, <2>1, <2>2, <1>a, <1>c, <1>e, ThreadFacts, SerialSame DEF Serializes
  <2>6. Counted' BY <2>g, <2>1, <2>2, <1>a, <1>c, <1>e, ThreadFacts, CountSame
  <2>7. Lifetime' BY <2>g, <2>1, <2>2, <1>a, ThreadFacts DEF Lifetime, Destroys, Shape
  <2>8. OffList' BY <2>g, <2>1, <2>2, <1>a, <1>c, <1>e, ThreadFacts, OffListSame
  <2> QED BY <2>3, <2>4, <2>m, <2>s, <2>5, <2>6, <2>7, <2>8 DEF LocksInv
<1>17. ASSUME NEW s \in Spaces, AppUnlock(s) PROVE LocksInv'
  <2>1. CASE th[s].op = "mmap"
    <3>g. /\ s \in Thread /\ s \notin {"pm", "isr", "drq", "agent", "none"}
          /\ th[s].pc = "inw" /\ th[s].op = "mmap" /\ th[s].s \in Spaces /\ PmUp
      BY <1>17, <2>1, <1>a, <1>c, <1>e, ThreadFacts DEF AppUnlock, Shape
    <3>1. /\ th' \in [Thread -> Progress]
          /\ th'[s].pc = "idle" /\ th'[s].op = "none" /\ th'[s].s = "none"
          /\ \A u \in Thread : u # s => th'[u] = th[u]
      BY <1>17, <2>1, <3>g, <1>a, <1>c, <1>e, IdleFacts, ThUpdate DEF AppUnlock
    <3>r. wr' = [wr EXCEPT ![th[s].s] = "none"] /\ ser' = [ser EXCEPT ![th[s].s] = "none"]
      BY <1>17, <2>1, <3>g, <1>a, <1>e DEF AppUnlock, UpWrite, Unserialize
    <3>2. /\ pm' \in [r : Int, w : BOOLEAN] /\ pm'.r = pm.r - 1 /\ pm'.w = pm.w
          /\ UNCHANGED <<fd, list, freed, mutex, rd, queue, left>>
      BY <1>17, <2>1, <3>g, <1>a, <1>e, PmFacts DEF AppUnlock, UpWrite, Unserialize
    <3>5. SpaceLocks' BY <3>g, <3>1, <3>2, <3>r, <1>a, <1>c, <1>e, ThreadFacts, RwUpWrite
    <3>3. TypeOK'
      <4>1. /\ rd' \in [Spaces -> [Thread -> Int]] /\ wr' \in [Spaces -> Thread \cup {"none"}]
            /\ ser' \in [Spaces -> Thread \cup {"none"}]
        BY <3>g, <3>1, <3>2, <3>r, <1>a, <1>c, <1>e, ThreadFacts
      <4> QED BY <3>g, <3>1, <3>2, <3>r, <1>a, <1>c, <1>e, ThreadFacts, <4>1 DEF TypeOK
    <3>4. Shape' BY <3>g, <3>1, <1>a, <1>c, ThreadFacts DEF Shape, ag
    <3>m. MutexHeld' BY <3>g, <3>1, <3>2, <3>r, <1>a, <1>c, <1>e, ThreadFacts DEF MutexHeld, Walking, ag
    <3>s. SerialHeld' BY <3>g, <3>1, <3>2, <3>r, <1>a, <1>c, <1>e, ThreadFacts, SerialDrop DEF Serializes
    <3>6. Counted' BY <3>g, <3>1, <3>2, <3>r, <1>a, <1>c, <1>e, ThreadFacts, CountEnd
    <3>7. Lifetime' BY <3>g, <3>1, <3>2, <1>a, ThreadFacts DEF Lifetime, Destroys, Shape
    <3>8. OffList' BY <3>g, <3>1, <3>2, <3>r, <1>a, <1>c, <1>e, ThreadFacts, OffListSame
    <3> QED BY <3>3, <3>4, <3>m, <3>s, <3>5, <3>6, <3>7, <3>8 DEF LocksInv
  <2>2. CASE th[s].op = "close"
    <3>g. /\ s \in Thread /\ s \notin {"pm", "isr", "drq", "agent", "none"}
          /\ th[s].pc = "inw" /\ th[s].op = "close" /\ th[s].s \in Spaces
      BY <1>17, <2>2, <1>a, <1>c, <1>e, ThreadFacts DEF AppUnlock, Shape
    <3>1. /\ th' \in [Thread -> Progress]
          /\ th'[s].pc = "idle" /\ th'[s].op = "none" /\ th'[s].s = "none"
          /\ \A u \in Thread : u # s => th'[u] = th[u]
      BY <1>17, <2>2, <3>g, <1>a, <1>c, <1>e, IdleFacts, ThUpdate DEF AppUnlock
    <3>r. wr' = [wr EXCEPT ![th[s].s] = "none"] /\ ser' = [ser EXCEPT ![th[s].s] = "none"]
      BY <1>17, <2>2, <3>g, <1>a, <1>e DEF AppUnlock, UpWrite, Unserialize
    <3>2. UNCHANGED <<fd, list, freed, pm, mutex, rd, queue, left>>
      BY <1>17, <2>2, <3>g, <1>a, <1>e DEF AppUnlock, UpWrite, Unserialize
    <3>5. SpaceLocks' BY <3>g, <3>1, <3>2, <3>r, <1>a, <1>c, <1>e, ThreadFacts, RwUpWrite
    <3>3. TypeOK'
      <4>1. /\ rd' \in [Spaces -> [Thread -> Int]] /\ wr' \in [Spaces -> Thread \cup {"none"}]
            /\ ser' \in [Spaces -> Thread \cup {"none"}]
        BY <3>g, <3>1, <3>2, <3>r, <1>a, <1>c, <1>e, ThreadFacts
      <4> QED BY <3>g, <3>1, <3>2, <3>r, <1>a, <1>c, <1>e, ThreadFacts, <4>1 DEF TypeOK
    <3>4. Shape' BY <3>g, <3>1, <1>a, <1>c, ThreadFacts DEF Shape, ag
    <3>m. MutexHeld' BY <3>g, <3>1, <3>2, <3>r, <1>a, <1>c, <1>e, ThreadFacts DEF MutexHeld, Walking, ag
    <3>s. SerialHeld' BY <3>g, <3>1, <3>2, <3>r, <1>a, <1>c, <1>e, ThreadFacts, SerialDrop DEF Serializes
    <3>6. Counted' BY <3>g, <3>1, <3>2, <3>r, <1>a, <1>c, <1>e, ThreadFacts, CountSame
    <3>7. Lifetime' BY <3>g, <3>1, <3>2, <1>a, ThreadFacts DEF Lifetime, Destroys, Shape
    <3>8. OffList' BY <3>g, <3>1, <3>2, <3>r, <1>a, <1>c, <1>e, ThreadFacts, OffListSame
    <3> QED BY <3>3, <3>4, <3>m, <3>s, <3>5, <3>6, <3>7, <3>8 DEF LocksInv
  <2> QED BY <1>17, <2>1, <2>2 DEF AppUnlock
<1>18. ASSUME NEW s \in Spaces, uvm_release(s) PROVE LocksInv'
  <2>1. CASE PmFree
    <3>g. /\ s \in Thread /\ s \notin {"pm", "isr", "drq", "agent", "none"}
          /\ th[s].pc = "idle" /\ th[s].op = "none" /\ th[s].s = "none" /\ fd[s] = "va_space"
          /\ s \notin ToSet(queue) /\ s \notin freed /\ ~Destroys("drq", s) /\ ~pm.w /\ PmDown
      BY <1>18, <2>1, <1>a, <1>c, <1>e, ThreadFacts DEF uvm_release, PmFree, Shape, Lifetime
    <3>1. /\ th' \in [Thread -> Progress]
          /\ th'[s].pc = "unlink" /\ th'[s].op = "destroy" /\ th'[s].s = s
          /\ \A u \in Thread : u # s => th'[u] = th[u]
      BY <1>18, <2>1, <3>g, <1>a, <1>c, <1>e, StartThread DEF uvm_release
    <3>2. /\ fd' = [fd EXCEPT ![s] = "released"]
          /\ pm' \in [r : Int, w : BOOLEAN] /\ pm'.r = pm.r + 1 /\ ~pm'.w
          /\ UNCHANGED <<list, freed, mutex, rd, wr, ser, queue, left>>
      BY <1>18, <2>1, <3>g, <1>a, <1>e, PmFacts DEF uvm_release
    <3>5. SpaceLocks' BY <3>g, <3>1, <3>2, <1>a, <1>c, <1>e, ThreadFacts, RwSame
    <3>3. TypeOK' BY <3>g, <3>1, <3>2, <1>a, <1>c, <1>e, ThreadFacts DEF TypeOK
    <3>4. Shape' BY <3>g, <3>1, <1>a, <1>c, ThreadFacts DEF Shape, ag
    <3>m. MutexHeld' BY <3>g, <3>1, <3>2, <1>a, <1>c, <1>e, ThreadFacts DEF MutexHeld, Walking, ag
    <3>s. SerialHeld' BY <3>g, <3>1, <3>2, <1>a, <1>c, <1>e, ThreadFacts, SerialSame DEF Serializes
    <3>6. Counted' BY <3>g, <3>1, <3>2, <1>a, <1>c, <1>e, ThreadFacts, CountStart
    <3>7. Lifetime'
      <4>1. \A x \in Spaces : x # s => fd'[x] = fd[x] BY <3>2, <1>e
      <4>2. fd'[s] = "released" BY <3>2, <1>e
      <4>4. \A x \in Spaces : x # s => (Destroys(x, x)' <=> Destroys(x, x))
        BY <3>g, <3>1, ThreadFacts DEF Destroys
      <4>5. \A x \in Spaces : Destroys("drq", x)' <=> Destroys("drq", x) BY <3>g, <3>1, ThreadFacts DEF Destroys
      <4>6. Destroys(s, s)' /\ th'[s].op = "destroy" BY <3>1 DEF Destroys
      <4>7. \A x \in Spaces : x # s => th'[x] = th[x] BY <3>1, ThreadFacts
      <4> QED BY <3>g, <3>2, <4>1, <4>2, <4>4, <4>5, <4>6, <4>7, <1>a DEF Lifetime
    <3>8. OffList'
      BY <3>g, <3>1, <3>2, <1>a, ThreadFacts, <1>f DEF OffList, Lifetime, Shape, Walking, ag, Destroys
    <3> QED BY <3>3, <3>4, <3>m, <3>s, <3>5, <3>6, <3>7, <3>8 DEF LocksInv
  <2>2. CASE ~PmFree
    <3>g. /\ s \notin ToSet(queue) /\ s \notin freed /\ ~Destroys("drq", s) /\ ~Destroys(s, s)
          /\ th[s].op = "none" /\ fd[s] = "va_space"
      BY <1>18, <1>a, ThreadFacts DEF uvm_release, Lifetime, Shape, Destroys
    <3>1. /\ fd' = [fd EXCEPT ![s] = "released"] /\ queue' \in Seq(Spaces) /\ ToSet(queue') = ToSet(queue) \cup {s}
          /\ \A i, j \in 1..Len(queue') : queue'[i] = queue'[j] => i = j
          /\ UNCHANGED <<th, list, freed, pm, mutex, rd, wr, ser, left>>
      <4>1. \A i, j \in 1..Len(queue) : queue[i] = queue[j] => i = j BY <1>a DEF Lifetime
      <4>2. /\ Append(queue, s) \in Seq(Spaces) /\ ToSet(Append(queue, s)) = ToSet(queue) \cup {s}
            /\ \A i, j \in 1..Len(Append(queue, s)) : Append(queue, s)[i] = Append(queue, s)[j] => i = j
        <5>1. queue \in Seq(Spaces) /\ s \notin ToSet(queue) BY <1>e, <3>g
        <5> QED BY <4>1, <5>1, AppendFacts, Zenon
      <4>3. queue' = Append(queue, s) BY <1>18, <2>2 DEF uvm_release
      <4> QED BY <1>18, <2>2, <4>2, <4>3 DEF uvm_release
    <3>2. TypeOK' BY <3>1, <1>a DEF TypeOK
    <3>3. Shape' /\ MutexHeld' BY <3>1, <1>a DEF Shape, MutexHeld, Walking, ag
    <3>4. SpaceLocks' /\ SerialHeld' BY <3>1, <1>a DEF SpaceLocks, SerialHeld, Serializes
    <3>5. Counted' BY <3>1, <1>a DEF Counted, Calls
    <3>6. Lifetime' BY <3>1, <3>g, <1>a, <1>e, ThreadFacts DEF Lifetime, Destroys
    <3>7. OffList' BY <3>1, <1>a DEF OffList, Walking, ag
    <3> QED BY <3>2, <3>3, <3>4, <3>5, <3>6, <3>7 DEF LocksInv
  <2> QED BY <1>18, <2>1, <2>2 DEF uvm_release
<1>19. CASE uvm_release_deferred
  <2>g. /\ "drq" \in Thread /\ th["drq"].pc = "idle" /\ queue # <<>> /\ ~pm.w /\ PmDown
        /\ Head(queue) \in Spaces /\ Head(queue) \in ToSet(queue)
    BY <1>19, <1>a, <1>c, <1>e, ThreadFacts, TailFacts DEF uvm_release_deferred, PmFree, Shape
  <2>i. /\ Head(queue) \in Files /\ \A i, j \in 1..Len(queue) : queue[i] = queue[j] => i = j
    BY <2>g, <1>c, <1>a DEF Lifetime
  <2>1. /\ th' \in [Thread -> Progress]
        /\ th'["drq"].pc = "unlink" /\ th'["drq"].op = "destroy" /\ th'["drq"].s = Head(queue)
        /\ \A u \in Thread : u # "drq" => th'[u] = th[u]
    BY <1>19, <2>g, <1>a, <1>c, <1>e, <2>i, StartThread DEF uvm_release_deferred
  <2>2. /\ queue' \in Seq(Spaces) /\ ToSet(queue') = ToSet(queue) \ {Head(queue)}
        /\ \A i, j \in 1..Len(queue') : queue'[i] = queue'[j] => i = j
        /\ pm' \in [r : Int, w : BOOLEAN] /\ pm'.r = pm.r + 1 /\ ~pm'.w
        /\ UNCHANGED <<fd, list, freed, mutex, rd, wr, ser, left>>
    <3>1. /\ Tail(queue) \in Seq(Spaces) /\ ToSet(queue) = ToSet(Tail(queue)) \cup {Head(queue)}
          /\ Head(queue) \notin ToSet(Tail(queue))
          /\ \A i, j \in 1..Len(Tail(queue)) : Tail(queue)[i] = Tail(queue)[j] => i = j
      BY <2>g, <2>i, <1>e, TailFacts
    <3>2. pm' \in [r : Int, w : BOOLEAN] /\ pm'.r = pm.r + 1 /\ ~pm'.w BY <2>g, <1>e, PmFacts
    <3>3. queue' = Tail(queue) BY <1>19 DEF uvm_release_deferred
    <3> QED BY <1>19, <3>1, <3>2, <3>3 DEF uvm_release_deferred
  <2>5. SpaceLocks' BY <2>g, <2>1, <2>2, <1>a, <1>c, <1>e, ThreadFacts, RwSame
  <2>3. TypeOK' BY <2>g, <2>1, <2>2, <1>a, <1>c, <1>e, ThreadFacts DEF TypeOK
  <2>4. Shape' BY <2>g, <2>1, <1>a, <1>c, ThreadFacts DEF Shape, ag
  <2>m. MutexHeld' BY <2>g, <2>1, <2>2, <1>a, <1>c, <1>e, ThreadFacts DEF MutexHeld, Walking, ag
  <2>s. SerialHeld' BY <2>g, <2>1, <2>2, <1>a, <1>c, <1>e, ThreadFacts, SerialSame DEF Serializes
  <2>6. Counted' BY <2>g, <2>1, <2>2, <1>a, <1>c, <1>e, ThreadFacts, CountStart
  <2>7. Lifetime' BY <2>g, <2>1, <2>2, <1>a, ThreadFacts DEF Lifetime, Destroys, Shape
  <2>8. OffList'
    BY <2>g, <2>1, <2>2, <1>a, ThreadFacts, <1>f DEF OffList, Lifetime, Shape, Walking, ag, Destroys
  <2> QED BY <2>3, <2>4, <2>m, <2>s, <2>5, <2>6, <2>7, <2>8 DEF LocksInv
<1>20. ASSUME NEW t \in Spaces \cup {"drq"}, va_space_unlink(t) PROVE LocksInv'
  <2>g. /\ t \in Thread /\ t \notin {"pm", "isr", "agent", "none"}
        /\ th[t].op = "destroy" /\ th[t].pc = "unlink" /\ th[t].s \in Spaces /\ mutex = "none"
    BY <1>20, <1>a, <1>c, ThreadFacts DEF va_space_unlink, Shape
  <2>1. /\ th' \in [Thread -> Progress]
        /\ th'[t].pc = "flush" /\ th'[t].op = th[t].op /\ th'[t].s = th[t].s /\ th'[t].todo = th[t].todo
        /\ \A u \in Thread : u # t => th'[u] = th[u]
    BY <1>20, <2>g, <1>a, <1>c, <1>e, PcUpdate DEF va_space_unlink
  <2>i. \A i, j \in 1..Len(list) : list[i] = list[j] => i = j BY <1>a DEF Lifetime
  <2>2. /\ list' \in Seq(Spaces) /\ ToSet(list') = ToSet(list) \ {th[t].s}
        /\ \A i, j \in 1..Len(list') : list'[i] = list'[j] => i = j
        /\ UNCHANGED <<fd, freed, pm, mutex, rd, wr, ser, queue, left>>
    <3> DEFINE q == RemoveFirst(list, th[t].s)
    <3>1. /\ q \in Seq(Spaces) /\ ToSet(q) = ToSet(list) \ {th[t].s}
          /\ \A i, j \in 1..Len(q) : q[i] = q[j] => i = j
      <4>1. list \in Seq(Spaces) BY <1>e
      <4>2. ASSUME NEW e
            PROVE  /\ RemoveFirst(list, e) \in Seq(Spaces) /\ ToSet(RemoveFirst(list, e)) = ToSet(list) \ {e}
                   /\ \A i, j \in 1..Len(RemoveFirst(list, e)) :
                        RemoveFirst(list, e)[i] = RemoveFirst(list, e)[j] => i = j
        BY <2>i, <4>1, RemoveFirstFacts, Zenon
      <4> QED BY <4>2, Zenon
    <3>2. list' = q BY <1>20 DEF va_space_unlink
    <3> HIDE DEF q
    <3> QED BY <1>20, <3>1, <3>2 DEF va_space_unlink
  <2>5. SpaceLocks' BY <2>g, <2>1, <2>2, <1>a, <1>c, <1>e, ThreadFacts, RwSame
  <2>3. TypeOK' BY <2>g, <2>1, <2>2, <1>a, <1>c, <1>e, ThreadFacts DEF TypeOK
  <2>4. Shape' BY <2>g, <2>1, <1>a, <1>c, ThreadFacts DEF Shape, ag
  <2>m. MutexHeld' BY <2>g, <2>1, <2>2, <1>a, <1>c, <1>e, ThreadFacts DEF MutexHeld, Walking, ag
  <2>s. SerialHeld' BY <2>g, <2>1, <2>2, <1>a, <1>c, <1>e, ThreadFacts, SerialSame DEF Serializes
  <2>6. Counted' BY <2>g, <2>1, <2>2, <1>a, <1>c, <1>e, ThreadFacts, CountSame
  <2>7. Lifetime' BY <2>g, <2>1, <2>2, <1>a, ThreadFacts DEF Lifetime, Destroys, Shape
  <2>8. OffList'
    BY <2>g, <2>1, <2>2, <1>a, ThreadFacts, <1>f DEF MutexHeld, OffList, Lifetime, Shape, Walking, ag, Destroys
  <2> QED BY <2>3, <2>4, <2>m, <2>s, <2>5, <2>6, <2>7, <2>8 DEF LocksInv
<1>21. ASSUME NEW t \in Spaces \cup {"drq"}, va_space_flush(t) PROVE LocksInv'
  <2>g. /\ t \in Thread /\ t \notin {"pm", "isr", "agent", "none"}
        /\ th[t].op = "destroy" /\ th[t].pc = "flush" /\ th[t].s \in Spaces /\ th["isr"].s # th[t].s
    BY <1>21, <1>a, <1>c, ThreadFacts DEF va_space_flush, Shape
  <2>1. /\ th' \in [Thread -> Progress]
        /\ th'[t].pc = "wants" /\ th'[t].op = th[t].op /\ th'[t].s = th[t].s /\ th'[t].todo = th[t].todo
        /\ \A u \in Thread : u # t => th'[u] = th[u]
    BY <1>21, <2>g, <1>a, <1>c, <1>e, PcUpdate DEF va_space_flush
  <2>2. UNCHANGED <<fd, list, freed, pm, mutex, rd, wr, ser, queue, left>>
    BY <1>21, <2>g, <1>a, <1>e DEF va_space_flush
  <2>5. SpaceLocks' BY <2>g, <2>1, <2>2, <1>a, <1>c, <1>e, ThreadFacts, RwSame
  <2>3. TypeOK' BY <2>g, <2>1, <2>2, <1>a, <1>c, <1>e, ThreadFacts DEF TypeOK
  <2>4. Shape' BY <2>g, <2>1, <1>a, <1>c, ThreadFacts DEF Shape, ag
  <2>m. MutexHeld' BY <2>g, <2>1, <2>2, <1>a, <1>c, <1>e, ThreadFacts DEF MutexHeld, Walking, ag
  <2>s. SerialHeld' BY <2>g, <2>1, <2>2, <1>a, <1>c, <1>e, ThreadFacts, SerialSame DEF Serializes
  <2>6. Counted' BY <2>g, <2>1, <2>2, <1>a, <1>c, <1>e, ThreadFacts, CountSame
  <2>7. Lifetime' BY <2>g, <2>1, <2>2, <1>a, <1>c, <1>e, ThreadFacts, LifeSame
  <2>8. OffList'
    BY <2>g, <2>1, <2>2, <1>a, ThreadFacts, <1>f DEF OffList, Lifetime, Shape, Walking, ag, Destroys
  <2> QED BY <2>3, <2>4, <2>m, <2>s, <2>5, <2>6, <2>7, <2>8 DEF LocksInv
<1>22. ASSUME NEW t \in Spaces \cup {"drq"}, va_space_free(t) PROVE LocksInv'
  <2>g. /\ t \in Thread /\ t \notin {"pm", "isr", "agent", "none"} /\ t \in Spaces \cup {"drq"}
        /\ th[t].op = "destroy" /\ th[t].pc = "inw" /\ th[t].s \in Spaces /\ PmUp
    BY <1>22, <1>a, <1>c, <1>e, ThreadFacts, TailFacts DEF va_space_free, Shape
  <2>1. /\ th' \in [Thread -> Progress]
        /\ th'[t].pc = "idle" /\ th'[t].op = "none" /\ th'[t].s = "none"
        /\ \A u \in Thread : u # t => th'[u] = th[u]
    BY <1>22, <2>g, <1>a, <1>c, <1>e, IdleFacts, ThUpdate DEF va_space_free
  <2>r. wr' = [wr EXCEPT ![th[t].s] = "none"] /\ ser' = [ser EXCEPT ![th[t].s] = "none"]
    BY <1>22, <2>g, <1>a, <1>e DEF va_space_free, UpWrite, Unserialize
  <2>2. /\ freed' = freed \cup {th[t].s}
        /\ pm' \in [r : Int, w : BOOLEAN] /\ pm'.r = pm.r - 1 /\ pm'.w = pm.w
        /\ UNCHANGED <<fd, list, mutex, rd, queue, left>>
    BY <1>22, <2>g, <1>a, <1>e, PmFacts DEF va_space_free, UpWrite, Unserialize
  <2>5. SpaceLocks' BY <2>g, <2>1, <2>2, <2>r, <1>a, <1>c, <1>e, ThreadFacts, RwUpWrite
  <2>3. TypeOK'
    <3>1. /\ rd' \in [Spaces -> [Thread -> Int]] /\ wr' \in [Spaces -> Thread \cup {"none"}]
          /\ ser' \in [Spaces -> Thread \cup {"none"}]
      BY <2>g, <2>1, <2>2, <2>r, <1>a, <1>c, <1>e, ThreadFacts
    <3> QED BY <2>g, <2>1, <2>2, <2>r, <1>a, <1>c, <1>e, ThreadFacts, <3>1 DEF TypeOK
  <2>4. Shape' BY <2>g, <2>1, <1>a, <1>c, ThreadFacts DEF Shape, ag
  <2>m. MutexHeld' BY <2>g, <2>1, <2>2, <2>r, <1>a, <1>c, <1>e, ThreadFacts DEF MutexHeld, Walking, ag
  <2>s. SerialHeld' BY <2>g, <2>1, <2>2, <2>r, <1>a, <1>c, <1>e, ThreadFacts, SerialDrop DEF Serializes
  <2>6. Counted' BY <2>g, <2>1, <2>2, <2>r, <1>a, <1>c, <1>e, ThreadFacts, CountEnd
  <2>7. Lifetime' BY <2>g, <2>1, <2>2, <1>a, ThreadFacts DEF OffList, Lifetime, Destroys, Shape
  <2>8. OffList'
    BY <2>g, <2>1, <2>2, <1>a, ThreadFacts, <1>f DEF OffList, Lifetime, Shape, Walking, ag, Destroys
  <2> QED BY <2>3, <2>4, <2>m, <2>s, <2>5, <2>6, <2>7, <2>8 DEF LocksInv
<1>23. CASE FaultStart
  <2>k. PICK k \in 1..Len(list) : Set("isr", "fault", "wantr", list[k]) /\ Enqueue("isr", list[k])
    BY <1>23 DEF FaultStart
  <2>g. /\ "isr" \in Thread /\ th["isr"].pc = "idle" /\ list[k] \in ToSet(list) /\ list[k] \in Spaces
        /\ list[k] \notin freed
    <3>1. "isr" \in Thread /\ th["isr"].pc = "idle" BY <1>23, ThreadFacts DEF FaultStart
    <3>2. list[k] \in ToSet(list) /\ list[k] \in Spaces BY <1>e DEF ToSet
    <3> QED BY <3>1, <3>2, <1>a DEF Lifetime
  <2>1. /\ th' \in [Thread -> Progress]
        /\ th'["isr"].pc = "wantr" /\ th'["isr"].op = "fault" /\ th'["isr"].s = list[k]
        /\ \A u \in Thread : u # "isr" => th'[u] = th[u]
    BY <1>23, <2>g, <1>a, <1>c, <1>e, <2>k, StartThread DEF FaultStart
  <2>2. UNCHANGED <<fd, list, freed, pm, mutex, rd, wr, ser, queue, left>>
    BY <1>23, <2>g, <1>a, <1>e DEF FaultStart
  <2>5. SpaceLocks' BY <2>g, <2>1, <2>2, <1>a, <1>c, <1>e, ThreadFacts, RwSame
  <2>3. TypeOK' BY <2>g, <2>1, <2>2, <1>a, <1>c, <1>e, ThreadFacts DEF TypeOK
  <2>4. Shape' BY <2>g, <2>1, <1>a, <1>c, ThreadFacts DEF Shape, ag
  <2>m. MutexHeld' BY <2>g, <2>1, <2>2, <1>a, <1>c, <1>e, ThreadFacts DEF MutexHeld, Walking, ag
  <2>s. SerialHeld' BY <2>g, <2>1, <2>2, <1>a, <1>c, <1>e, ThreadFacts, SerialSame DEF Serializes
  <2>6. Counted'
    <3>1. th["isr"].op # "close" BY <1>a DEF Shape
    <3> QED BY <3>1, <2>g, <2>1, <2>2, <1>a, CountSame
  <2>7. Lifetime' BY <2>g, <2>1, <2>2, <1>a, <1>c, <1>e, ThreadFacts, LifeSame
  <2>8. OffList'
    BY <2>g, <2>1, <2>2, <1>a, ThreadFacts, <1>f DEF OffList, Lifetime, Shape, Walking, ag, Destroys
  <2> QED BY <2>3, <2>4, <2>m, <2>s, <2>5, <2>6, <2>7, <2>8 DEF LocksInv
<1>24. CASE FaultDone
  <2>g. "isr" \in Thread /\ th["isr"].pc = "inr" /\ th["isr"].s \in Spaces /\ th["isr"].op # "close"
    BY <1>24, <1>a, <1>c, <1>e, ThreadFacts, TailFacts DEF FaultDone, Shape
  <2>1. /\ th' \in [Thread -> Progress]
        /\ th'["isr"].pc = "idle" /\ th'["isr"].op = "none" /\ th'["isr"].s = "none"
        /\ \A u \in Thread : u # "isr" => th'[u] = th[u]
    BY <1>24, <2>g, <1>a, <1>c, <1>e, IdleFacts, ThUpdate DEF FaultDone
  <2>r. /\ rd' \in [Spaces -> [Thread -> Int]]
        /\ \A x \in Spaces, u \in Thread : rd'[x][u] = IF x = th["isr"].s /\ u = "isr" THEN rd[x][u] - 1 ELSE rd[x][u]
    BY <1>24, <2>g, <1>a, <1>e DEF FaultDone, UpRead
  <2>2. UNCHANGED <<fd, list, freed, pm, mutex, wr, ser, queue, left>>
    BY <1>24, <2>g, <1>a, <1>e DEF FaultDone, UpRead
  <2>5. SpaceLocks' BY <2>g, <2>1, <2>2, <2>r, <1>a, <1>c, <1>e, ThreadFacts, RwUpRead
  <2>3. TypeOK'
    <3>1. /\ rd' \in [Spaces -> [Thread -> Int]] /\ wr' \in [Spaces -> Thread \cup {"none"}]
          /\ ser' \in [Spaces -> Thread \cup {"none"}]
      BY <2>g, <2>1, <2>2, <2>r, <1>a, <1>c, <1>e, ThreadFacts
    <3> QED BY <2>g, <2>1, <2>2, <2>r, <1>a, <1>c, <1>e, ThreadFacts, <3>1 DEF TypeOK
  <2>4. Shape' BY <2>g, <2>1, <1>a, <1>c, ThreadFacts DEF Shape, ag
  <2>m. MutexHeld' BY <2>g, <2>1, <2>2, <2>r, <1>a, <1>c, <1>e, ThreadFacts DEF MutexHeld, Walking, ag
  <2>s. SerialHeld' BY <2>g, <2>1, <2>2, <2>r, <1>a, <1>c, <1>e, ThreadFacts, SerialSame DEF Serializes
  <2>6. Counted' BY <2>g, <2>1, <2>2, <2>r, <1>a, <1>c, <1>e, ThreadFacts, CountSame
  <2>7. Lifetime' BY <2>g, <2>1, <2>2, <2>r, <1>a, <1>c, <1>e, ThreadFacts, LifeSame
  <2>8. OffList'
    BY <2>g, <2>1, <2>2, <1>a, ThreadFacts, <1>f DEF OffList, Lifetime, Shape, Walking, ag, Destroys
  <2> QED BY <2>3, <2>4, <2>m, <2>s, <2>5, <2>6, <2>7, <2>8 DEF LocksInv
<1>25. CASE Suspend
  <2>g. "pm" \in Thread /\ th["pm"].pc = "idle"
    BY <1>25, <1>a, <1>c, <1>e, ThreadFacts, TailFacts DEF Suspend
  <2>1. /\ th' \in [Thread -> Progress]
        /\ th'["pm"].pc = "wantpm" /\ th'["pm"].op = "suspend" /\ th'["pm"].s = "none"
        /\ \A u \in Thread : u # "pm" => th'[u] = th[u]
    BY <1>25, <2>g, <1>a, <1>c, <1>e, StartThread DEF Suspend
  <2>2. UNCHANGED <<fd, list, freed, pm, mutex, rd, wr, ser, queue, left>>
    BY <1>25, <2>g, <1>a, <1>e DEF Suspend
  <2>5. SpaceLocks' BY <2>g, <2>1, <2>2, <1>a, <1>c, <1>e, ThreadFacts, RwSame
  <2>3. TypeOK' BY <2>g, <2>1, <2>2, <1>a, <1>c, <1>e, ThreadFacts DEF TypeOK
  <2>4. Shape' BY <2>g, <2>1, <1>a, <1>c, ThreadFacts DEF Shape, ag
  <2>m. MutexHeld' BY <2>g, <2>1, <2>2, <1>a, <1>c, <1>e, ThreadFacts DEF MutexHeld, Walking, ag
  <2>s. SerialHeld' BY <2>g, <2>1, <2>2, <1>a, <1>c, <1>e, ThreadFacts, SerialSame DEF Serializes
  <2>6. Counted'
    <3>1. Calls' = Calls BY <2>g, <2>1, <2>2, <1>a, <1>c, <1>e, ThreadFacts DEF Calls
    <3> QED BY <2>g, <2>1, <2>2, <1>a, <1>c, <1>e, ThreadFacts, <3>1 DEF Counted
  <2>7. Lifetime' BY <2>g, <2>1, <2>2, <1>a, <1>c, <1>e, ThreadFacts, LifeSame
  <2>8. OffList' BY <2>g, <2>1, <2>2, <1>a, <1>c, <1>e, ThreadFacts, OffListSame
  <2> QED BY <2>3, <2>4, <2>m, <2>s, <2>5, <2>6, <2>7, <2>8 DEF LocksInv
<1>26. CASE Suspended
  <2>g. "pm" \in Thread /\ th["pm"].pc = "wantpm" /\ th["pm"].op = "suspend" /\ pm.r = 0
    BY <1>26, <1>a, <1>c, <1>e, ThreadFacts, TailFacts DEF Suspended, Shape
  <2>1. /\ th' \in [Thread -> Progress]
        /\ th'["pm"].pc = "suspended" /\ th'["pm"].op = th["pm"].op
        /\ th'["pm"].s = th["pm"].s /\ th'["pm"].todo = th["pm"].todo
        /\ \A u \in Thread : u # "pm" => th'[u] = th[u]
    BY <1>26, <2>g, <1>a, <1>c, <1>e, PcUpdate DEF Suspended
  <2>2. /\ pm' \in [r : Int, w : BOOLEAN] /\ pm'.r = pm.r /\ pm'.w
        /\ UNCHANGED <<fd, list, freed, mutex, rd, wr, ser, queue, left>>
    BY <1>26, <2>g, <1>a, <1>e, PmFacts DEF Suspended
  <2>5. SpaceLocks' BY <2>g, <2>1, <2>2, <1>a, <1>c, <1>e, ThreadFacts, RwSame
  <2>3. TypeOK' BY <2>g, <2>1, <2>2, <1>a, <1>c, <1>e, ThreadFacts DEF TypeOK
  <2>4. Shape' BY <2>g, <2>1, <1>a, <1>c, ThreadFacts DEF Shape, ag
  <2>m. MutexHeld' BY <2>g, <2>1, <2>2, <1>a, <1>c, <1>e, ThreadFacts DEF MutexHeld, Walking, ag
  <2>s. SerialHeld' BY <2>g, <2>1, <2>2, <1>a, <1>c, <1>e, ThreadFacts, SerialSame DEF Serializes
  <2>6. Counted'
    <3>1. Calls' = Calls BY <2>g, <2>1, <2>2, <1>a, <1>c, <1>e, ThreadFacts DEF Calls
    <3>2. Calls = {}
      <4>1. Calls \subseteq Thread BY DEF Calls
      <4>2. IsFiniteSet(Calls) BY <4>1, ThreadFacts, FS_Subset
      <4> QED BY <4>2, <2>g, <1>a, FS_EmptySet DEF Counted
    <3> QED BY <2>g, <2>1, <2>2, <1>a, <1>c, <1>e, ThreadFacts, <3>1, <3>2 DEF Counted
  <2>7. Lifetime' BY <2>g, <2>1, <2>2, <1>a, <1>c, <1>e, ThreadFacts, LifeSame
  <2>8. OffList' BY <2>g, <2>1, <2>2, <1>a, <1>c, <1>e, ThreadFacts, OffListSame
  <2> QED BY <2>3, <2>4, <2>m, <2>s, <2>5, <2>6, <2>7, <2>8 DEF LocksInv
<1>27. CASE Resume
  <2>g. "pm" \in Thread /\ th["pm"].pc = "suspended"
    BY <1>27, <1>a, <1>c, <1>e, ThreadFacts, TailFacts DEF Resume
  <2>1. /\ th' \in [Thread -> Progress]
        /\ th'["pm"].pc = "idle" /\ th'["pm"].op = "none" /\ th'["pm"].s = "none"
        /\ \A u \in Thread : u # "pm" => th'[u] = th[u]
    BY <1>27, <2>g, <1>a, <1>c, <1>e, IdleFacts, ThUpdate DEF Resume
  <2>2. /\ pm' \in [r : Int, w : BOOLEAN] /\ pm'.r = pm.r /\ ~pm'.w
        /\ UNCHANGED <<fd, list, freed, mutex, rd, wr, ser, queue, left>>
    BY <1>27, <2>g, <1>a, <1>e, PmFacts DEF Resume
  <2>5. SpaceLocks' BY <2>g, <2>1, <2>2, <1>a, <1>c, <1>e, ThreadFacts, RwSame
  <2>3. TypeOK' BY <2>g, <2>1, <2>2, <1>a, <1>c, <1>e, ThreadFacts DEF TypeOK
  <2>4. Shape' BY <2>g, <2>1, <1>a, <1>c, ThreadFacts DEF Shape, ag
  <2>m. MutexHeld' BY <2>g, <2>1, <2>2, <1>a, <1>c, <1>e, ThreadFacts DEF MutexHeld, Walking, ag
  <2>s. SerialHeld' BY <2>g, <2>1, <2>2, <1>a, <1>c, <1>e, ThreadFacts, SerialSame DEF Serializes
  <2>6. Counted'
    <3>1. Calls' = Calls BY <2>g, <2>1, <2>2, <1>a, <1>c, <1>e, ThreadFacts DEF Calls
    <3> QED BY <2>g, <2>1, <2>2, <1>a, <1>c, <1>e, ThreadFacts, <3>1 DEF Counted
  <2>7. Lifetime' BY <2>g, <2>1, <2>2, <1>a, <1>c, <1>e, ThreadFacts, LifeSame
  <2>8. OffList' BY <2>g, <2>1, <2>2, <1>a, <1>c, <1>e, ThreadFacts, OffListSame
  <2> QED BY <2>3, <2>4, <2>m, <2>s, <2>5, <2>6, <2>7, <2>8 DEF LocksInv
<1>28. ASSUME NEW t \in Spaces \cup {"agent", "drq"}, serialize_writers(t) PROVE LocksInv'
  <2>g. /\ t \in Thread /\ t \notin {"pm", "isr"} /\ th[t].pc = "wants" /\ th[t].s \in Spaces
        /\ ser[th[t].s] = "none"
    BY <1>28, <1>a, <1>c, <1>e, ThreadFacts DEF serialize_writers, Shape
  <2>1. /\ th' \in [Thread -> Progress]
        /\ th'[t].pc = "wantw" /\ th'[t].op = th[t].op /\ th'[t].s = th[t].s /\ th'[t].todo = th[t].todo
        /\ \A u \in Thread : u # t => th'[u] = th[u]
    BY <1>28, <2>g, <1>c, <1>e, PcUpdate DEF serialize_writers
  <2>r. ser' = [ser EXCEPT ![th[t].s] = t] BY <1>28 DEF serialize_writers
  <2>2. UNCHANGED <<fd, list, freed, pm, mutex, rd, wr, queue, left>> BY <1>28 DEF serialize_writers
  <2>5. SpaceLocks' BY <2>g, <2>1, <2>2, <1>a, <1>c, <1>e, ThreadFacts, RwSame
  <2>3. TypeOK'
    <3>1. ser' \in [Spaces -> Thread \cup {"none"}] BY <2>g, <2>r, <1>e
    <3> QED BY <2>1, <2>2, <1>a, <3>1 DEF TypeOK
  <2>4. Shape' BY <2>g, <2>1, <1>a, <1>c, ThreadFacts DEF Shape, ag
  <2>m. MutexHeld' BY <2>g, <2>1, <2>2, <1>a, <1>c, <1>e, ThreadFacts DEF MutexHeld, Walking, ag
  <2>s. SerialHeld' BY <2>g, <2>1, <2>r, <1>a, <1>e, ThreadFacts, SerialTake DEF Serializes
  <2>6. Counted' BY <2>g, <2>1, <2>2, <1>a, CountSame
  <2>7. Lifetime' BY <2>g, <2>1, <2>2, <1>a, <1>c, <1>e, ThreadFacts, LifeSame
  <2>8. OffList'
    BY <2>g, <2>1, <2>2, <1>a, ThreadFacts, <1>f DEF OffList, Lifetime, Shape, Walking, ag, Destroys
  <2> QED BY <2>3, <2>4, <2>m, <2>s, <2>5, <2>6, <2>7, <2>8 DEF LocksInv
<1>29. ASSUME NEW s \in Spaces, down_read_rm(s) PROVE LocksInv'
  <2>g. /\ s \in Thread /\ s \notin {"pm", "isr", "drq", "agent", "none"}
        /\ th[s].pc = "wantm" /\ th[s].op = "close" /\ th[s].s \in Spaces /\ ser[th[s].s] = "none"
    BY <1>29, <1>a, <1>c, <1>e, ThreadFacts DEF down_read_rm, Shape
  <2>1. /\ th' \in [Thread -> Progress]
        /\ th'[s].pc = "inr" /\ th'[s].op = th[s].op /\ th'[s].s = th[s].s /\ th'[s].todo = th[s].todo
        /\ \A u \in Thread : u # s => th'[u] = th[u]
    BY <1>29, <2>g, <1>c, <1>e, PcUpdate DEF down_read_rm
  <2>r. /\ rd' \in [Spaces -> [Thread -> Int]]
        /\ \A x \in Spaces, u \in Thread : rd'[x][u] = IF x = th[s].s /\ u = s THEN rd[x][u] + 1 ELSE rd[x][u]
    BY <1>29, <2>g, <1>e DEF down_read_rm
  <2>k. ser' = [ser EXCEPT ![th[s].s] = s] BY <1>29 DEF down_read_rm
  <2>2. UNCHANGED <<fd, list, freed, pm, mutex, wr, queue, left>> BY <1>29 DEF down_read_rm
  <2>5. SpaceLocks' BY <2>g, <2>1, <2>2, <2>r, <1>a, <1>c, <1>e, ThreadFacts, RwDownRead
  <2>3. TypeOK'
    <3>1. ser' \in [Spaces -> Thread \cup {"none"}] BY <2>g, <2>k, <1>e
    <3> QED BY <2>1, <2>2, <2>r, <1>a, <3>1 DEF TypeOK
  <2>4. Shape' BY <2>g, <2>1, <1>a, <1>c, ThreadFacts DEF Shape, ag
  <2>m. MutexHeld' BY <2>g, <2>1, <2>2, <1>a, <1>c, <1>e, ThreadFacts DEF MutexHeld, Walking, ag
  <2>s. SerialHeld' BY <2>g, <2>1, <2>k, <1>a, <1>e, ThreadFacts, SerialTake DEF Serializes
  <2>6. Counted' BY <2>g, <2>1, <2>2, <1>a, <1>c, <1>e, ThreadFacts, CountSame
  <2>7. Lifetime' BY <2>g, <2>1, <2>2, <1>a, <1>c, <1>e, ThreadFacts, LifeSame
  <2>8. OffList' BY <2>g, <2>1, <2>2, <1>a, <1>c, <1>e, ThreadFacts, OffListSame
  <2> QED BY <2>3, <2>4, <2>m, <2>s, <2>5, <2>6, <2>7, <2>8 DEF LocksInv
<1>30. ASSUME NEW s \in Spaces, stop_all_user_channels(s) PROVE LocksInv'
  <2>g. /\ s \in Thread /\ s \notin {"pm", "isr", "drq", "agent", "none"}
        /\ th[s].pc = "inr" /\ th[s].op = "close" /\ th[s].s \in Spaces
    BY <1>30, <1>a, <1>c, <1>e, ThreadFacts DEF stop_all_user_channels, Shape
  <2>1. /\ th' \in [Thread -> Progress]
        /\ th'[s].pc = "wants" /\ th'[s].op = th[s].op /\ th'[s].s = th[s].s /\ th'[s].todo = th[s].todo
        /\ \A u \in Thread : u # s => th'[u] = th[u]
    BY <1>30, <2>g, <1>c, <1>e, PcUpdate DEF stop_all_user_channels
  <2>r. /\ rd' \in [Spaces -> [Thread -> Int]]
        /\ \A x \in Spaces, u \in Thread : rd'[x][u] = IF x = th[s].s /\ u = s THEN rd[x][u] - 1 ELSE rd[x][u]
    BY <1>30, <2>g, <1>e DEF stop_all_user_channels, UpRead
  <2>k. ser' = [ser EXCEPT ![th[s].s] = "none"] BY <1>30 DEF stop_all_user_channels, Unserialize
  <2>2. UNCHANGED <<fd, list, freed, pm, mutex, wr, queue, left>>
    BY <1>30 DEF stop_all_user_channels, UpRead
  <2>5. SpaceLocks' BY <2>g, <2>1, <2>2, <2>r, <1>a, <1>c, <1>e, ThreadFacts, RwUpRead
  <2>3. TypeOK'
    <3>1. ser' \in [Spaces -> Thread \cup {"none"}] BY <2>g, <2>k, <1>e
    <3> QED BY <2>1, <2>2, <2>r, <1>a, <3>1 DEF TypeOK
  <2>4. Shape' BY <2>g, <2>1, <1>a, <1>c, ThreadFacts DEF Shape, ag
  <2>m. MutexHeld' BY <2>g, <2>1, <2>2, <1>a, <1>c, <1>e, ThreadFacts DEF MutexHeld, Walking, ag
  <2>s. SerialHeld' BY <2>g, <2>1, <2>k, <1>a, <1>e, ThreadFacts, SerialDrop DEF Serializes
  <2>6. Counted' BY <2>g, <2>1, <2>2, <1>a, <1>c, <1>e, ThreadFacts, CountSame
  <2>7. Lifetime' BY <2>g, <2>1, <2>2, <1>a, <1>c, <1>e, ThreadFacts, LifeSame
  <2>8. OffList' BY <2>g, <2>1, <2>2, <1>a, <1>c, <1>e, ThreadFacts, OffListSame
  <2> QED BY <2>3, <2>4, <2>m, <2>s, <2>5, <2>6, <2>7, <2>8 DEF LocksInv
<1>31. ASSUME NEW s \in Spaces, mmap_nomem(s) PROVE LocksInv'
  <2>g. /\ s \in Thread /\ s \notin {"pm", "isr", "drq", "agent", "none"}
        /\ th[s].pc = "exit" /\ th[s].op = "mmap" /\ PmUp
    BY <1>31, <1>a, <1>c, <1>e, ThreadFacts DEF mmap_nomem, Shape
  <2>1. /\ th' \in [Thread -> Progress]
        /\ th'[s].pc = "idle" /\ th'[s].op = "none" /\ th'[s].s = "none"
        /\ \A u \in Thread : u # s => th'[u] = th[u]
    BY <1>31, <2>g, <1>a, <1>c, <1>e, IdleFacts, ThUpdate DEF mmap_nomem
  <2>2. /\ pm' \in [r : Int, w : BOOLEAN] /\ pm'.r = pm.r - 1 /\ pm'.w = pm.w
        /\ UNCHANGED <<fd, list, freed, mutex, rd, wr, ser, queue, left>>
    BY <1>31, <2>g, <1>e, PmFacts DEF mmap_nomem
  <2>5. SpaceLocks' BY <2>g, <2>1, <2>2, <1>a, <1>c, <1>e, ThreadFacts, RwSame
  <2>3. TypeOK' BY <2>g, <2>1, <2>2, <1>a, <1>c, <1>e, ThreadFacts DEF TypeOK
  <2>4. Shape' BY <2>g, <2>1, <1>a, <1>c, ThreadFacts DEF Shape, ag
  <2>m. MutexHeld' BY <2>g, <2>1, <2>2, <1>a, <1>c, <1>e, ThreadFacts DEF MutexHeld, Walking, ag
  <2>s. SerialHeld' BY <2>g, <2>1, <2>2, <1>a, <1>e, ThreadFacts, SerialSame DEF Serializes
  <2>6. Counted' BY <2>g, <2>1, <2>2, <1>a, <1>c, <1>e, ThreadFacts, CountEnd
  <2>7. Lifetime' BY <2>g, <2>1, <2>2, <1>a, ThreadFacts DEF Lifetime, Destroys, Shape
  <2>8. OffList' BY <2>g, <2>1, <2>2, <1>a, <1>c, <1>e, ThreadFacts, OffListSame
  <2> QED BY <2>3, <2>4, <2>m, <2>s, <2>5, <2>6, <2>7, <2>8 DEF LocksInv
<1>32. CASE UNCHANGED vars
  BY <1>32, <1>a DEF vars, LocksInv, TypeOK, Shape, MutexHeld, Walking, ag, SpaceLocks, SerialHeld,
       Serializes, Counted, Calls, Lifetime, Destroys, OffList
<1> QED
  BY <1>1, <1>2, <1>3, <1>4, <1>5, <1>6, <1>7, <1>8, <1>9, <1>10, <1>11, <1>12,
     <1>13, <1>14, <1>15, <1>16, <1>17, <1>18, <1>19, <1>20, <1>21, <1>22, <1>23,
     <1>24, <1>25, <1>26, <1>27, <1>28, <1>29, <1>30, <1>31, <1>32
  DEF Next, Begin, AgentStep, AppStep, WriteStep, DrqStep, IsrStep, PmStep, DestroyStep

(* Nothing runs at the start.                                              *)
LEMMA InitInv == Init => LocksInv
<1> SUFFICES ASSUME Init PROVE LocksInv OBVIOUS
<1>1. \A t \in Thread : th[t].op = "none" /\ th[t].pc = "idle" /\ th[t].s = "none"
  BY IdleFacts DEF Init
<1>2. TypeOK BY IdleFacts DEF Init, TypeOK
<1>3. Shape BY <1>1, ThreadFacts DEF Shape, ag
<1>4. MutexHeld /\ SpaceLocks /\ SerialHeld
  BY <1>1, ThreadFacts DEF Init, MutexHeld, SpaceLocks, SerialHeld, Serializes, Walking, ag
<1>5. Counted
  <2>1. Calls = {} BY <1>1 DEF Calls
  <2>2. th["pm"].pc = "idle" BY <1>1, ThreadFacts
  <2>3. pm.r = 0 /\ ~pm.w BY DEF Init
  <2> QED BY <2>1, <2>2, <2>3, FS_EmptySet DEF Counted
<1>6. Lifetime
  <2>1. ToSet(list) = {} /\ ToSet(queue) = {} /\ freed = {} /\ Len(list) = 0 /\ Len(queue) = 0
    BY EmptyFacts DEF Init
  <2>2. \A s \in Spaces : fd[s] = "uninitialized" BY DEF Init
  <2> QED BY <1>1, <2>1, <2>2, ThreadFacts DEF Lifetime, Destroys
<1>7. OffList
  <2>1. freed = {} BY DEF Init
  <2> QED BY <1>1, <2>1, ThreadFacts DEF OffList, Walking, ag
<1> QED BY <1>2, <1>3, <1>4, <1>5, <1>6, <1>7 DEF LocksInv

(* Which locks are held, by whom, and what is left of every file: the      *)
(* inductive invariant, in every reachable state.                          *)
THEOREM LocksInvariance == Spec => []LocksInv
<1>1. Init => LocksInv BY InitInv
<1>2. LocksInv /\ [Next]_vars => LocksInv' BY InvStep
<1> QED BY <1>1, <1>2, PTL DEF Spec

(* The locks, the list and the threads' progress stay within their types.  *)
THEOREM LocksTypeCorrect == Spec => []TypeOK
<1>1. LocksInv => TypeOK BY DEF LocksInv
<1> QED BY <1>1, LocksInvariance, PTL

(* Every path out of every ioctl, of mmap and munmap, of the release of a  *)
(* file and of the fault bottom half gives back what it took, but for the  *)
(* read locks GET_DIRTY_PAGES leaves behind.                               *)
THEOREM LocksHeldByCalls == Spec => []HeldByCalls
<1>1. LocksInv => HeldByCalls
  <2> SUFFICES ASSUME LocksInv PROVE HeldByCalls OBVIOUS
  <2>a. TypeOK /\ Shape /\ MutexHeld /\ SpaceLocks /\ SerialHeld /\ Counted BY DEF LocksInv
  <2>1. ASSUME NEW t \in Thread, th[t].pc = "idle", NEW s \in Spaces
        PROVE  wr[s] # t /\ ser[s] # t /\ rd[s][t] = IF t = "agent" THEN left[s] ELSE 0
    <3>1. left[s] \in Int BY <2>a DEF TypeOK
    <3>2. ser[s] # t BY <2>1, <2>a DEF SerialHeld, Serializes
    <3> QED BY <2>1, <2>a, <3>1, <3>2 DEF SpaceLocks
  <2>2. ag.pc \in {"idle", "exit"} => mutex = "none" BY <2>a DEF TypeOK, MutexHeld, Walking
  <2> QED BY <2>1, <2>2, <2>a DEF HeldByCalls, Counted, Calls
<1> QED BY <1>1, LocksInvariance, PTL

(* A VA space that uvm_va_space_destroy freed is in nobody's hands, except *)
(* in those of PREPARE_ALL, which walks a copy of the list.                *)
THEOREM FreedIsLeftAlone == Spec => []HandsOffFreed
<1>1. LocksInv => HandsOffFreed
  <2> SUFFICES ASSUME LocksInv, NEW t \in Thread, th[t].s \in freed, th[t].pc # "idle",
                      ~(t = "agent" /\ ag.op = "prepare")
               PROVE  FALSE
    BY DEF HandsOffFreed
  <2>a. TypeOK /\ Shape /\ Lifetime /\ OffList BY DEF LocksInv
  <2>f. th[t].s \in Spaces /\ th[t].s # "none" BY <2>a, ThreadFacts DEF TypeOK
  <2>1. CASE t = "agent" BY <2>1, <2>a, <2>f, ThreadFacts DEF OffList, Lifetime, ag
  <2>2. CASE t = "isr" BY <2>2, <2>a DEF OffList
  <2>3. CASE t = "pm"
    <3>1. th["pm"].s = "none" BY <2>a DEF Shape
    <3> QED BY <3>1, <2>3, <2>f
  <2>4. CASE t = "drq" BY <2>4, <2>a, <2>f, ThreadFacts DEF Shape, Lifetime, Destroys
  <2>5. CASE t \in Spaces
    <3>1. th[t].s = t BY <2>5, <2>a, <2>f DEF Shape
    <3> QED BY <3>1, <2>5, <2>a, ThreadFacts DEF Shape, Lifetime, Destroys
  <2> QED BY <2>1, <2>2, <2>3, <2>4, <2>5 DEF Thread
<1> QED BY <1>1, LocksInvariance, PTL

(* Suspend keeps the ioctls, the mappings and the releases out, and no     *)
(* file that is closed meanwhile is forgotten.                             *)
THEOREM SuspendExcludesCalls == Spec => []SuspendExcludes
<1>1. LocksInv => SuspendExcludes
  <2> SUFFICES ASSUME LocksInv PROVE SuspendExcludes OBVIOUS
  <2>a. Shape /\ Counted /\ Lifetime BY DEF LocksInv
  <2>1. ASSUME pm.w PROVE /\ ag.pc = "idle" /\ th["drq"].pc = "idle"
                          /\ \A s \in Spaces : th[s].op \in {"none", "close"}
    <3>1. \A t \in Thread \ {"pm", "isr"} : th[t].pc = "idle" \/ th[t].op = "close"
      BY <2>1, <2>a DEF Counted, Calls
    <3> QED BY <3>1, <2>a, ThreadFacts DEF Shape, ag, Ioctls
  <2>2. \A s \in Spaces : fd[s] = "released" =>
          \/ s \in freed \/ s \in ToSet(queue)
          \/ \E t \in Thread : th[t].op = "destroy" /\ th[t].s = s
    BY <2>a, ThreadFacts DEF Lifetime, Destroys
  <2> QED BY <2>1, <2>2 DEF SuspendExcludes
<1> QED BY <1>1, LocksInvariance, PTL
=============================================================================
