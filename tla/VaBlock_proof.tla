---------------------------- MODULE VaBlock_proof ----------------------------
(***************************************************************************)
(* Proofs about VaBlock, for any number of GPUs, pages and outstanding     *)
(* pushes.  First that a tracked block without a dirty mark is read-only   *)
(* to the GPUs, in the configurations FLASH runs in, where a GPU maps no   *)
(* memory but its own (LocalMode).  Then that memory is coherent, in all   *)
(* configurations but those that track writes and duplicate pages.  Last   *)
(* that the mappings are what block_check_mappings asserts, where tracked  *)
(* blocks are those of GPUs that map no memory but their own.              *)
(***************************************************************************)
EXTENDS VaBlock, SequenceTheorems, FiniteSetTheorems, TLAPS

(* A closest copy is a copy.                                               *)
LEMMA ClosestIn ==
  ASSUME NEW x, NEW S, S # {} PROVE Closest(x, S) \in S
<1>1. \A y : Rank(x, y) \in {0, 1, 2, 3} BY DEF Rank
<1>2. \E y \in S : \A z \in S : Rank(x, y) <= Rank(x, z)
  <2>0. CASE \E y \in S : Rank(x, y) = 0 BY <1>1, <2>0
  <2>1. CASE (\A y \in S : Rank(x, y) # 0) /\ \E y \in S : Rank(x, y) = 1 BY <1>1, <2>1
  <2>2. CASE (\A y \in S : Rank(x, y) \notin {0, 1}) /\ \E y \in S : Rank(x, y) = 2 BY <1>1, <2>2
  <2>3. CASE \A y \in S : Rank(x, y) = 3 BY <1>1, <2>3
  <2> QED BY <1>1, <2>0, <2>1, <2>2, <2>3
<1> HIDE DEF Rank
<1> QED BY <1>2 DEF Closest

(* Three changes of mappings, the first that has the page.                  *)
LEMMA OrFacts ==
  ASSUME NEW f, NEW g, NEW h, NEW r, r = Or(f, Or(g, h)), NEW p \in DOMAIN r
  PROVE  \/ p \in DOMAIN f /\ r[p] = f[p]
         \/ p \in DOMAIN g /\ r[p] = g[p]
         \/ p \in DOMAIN h /\ r[p] = h[p]
<1> DEFINE u == Or(g, h)
<1>1. DOMAIN u = DOMAIN g \cup DOMAIN h
        /\ \A q \in DOMAIN g \cup DOMAIN h : u[q] = IF q \in DOMAIN g THEN g[q] ELSE h[q]
  BY DEF Or
<1> HIDE DEF u
<1>2. r = Or(f, u) BY DEF u
<1>3. DOMAIN r = DOMAIN f \cup DOMAIN u
        /\ \A q \in DOMAIN f \cup DOMAIN u : r[q] = IF q \in DOMAIN f THEN f[q] ELSE u[q]
  BY <1>2 DEF Or
<1> QED BY <1>1, <1>3

(* The CPU is no GPU.                                                      *)
LEMMA ProcFacts ==
  ASSUME mode \in Modes
  PROVE  "cpu" \notin mode.gpus /\ "cpu" \in Procs /\ mode.gpus \subseteq Procs
         /\ Procs = {"cpu"} \cup mode.gpus
  BY ModesAssumption DEF Procs

(* In a local mode only x maps memory of x.                                *)
LEMMA AccessLocal ==
  ASSUME mode \in Modes, LocalMode(mode), BlkOK, NEW x \in Procs
  PROVE  ~peers /\ Accessible(x) = {x} /\ Allowed(x) = {x}
<1>1. ~peers BY DEF LocalMode, BlkOK, Blocks
<1>2. \A y \in Procs : Accessible(y) = {y} BY <1>1 DEF Accessible, LocalMode
<1>3. Allowed(x) = {x} BY <1>2 DEF Allowed
<1> QED BY <1>1, <1>2, <1>3

(* What uvm_va_block_map maps, and with which permission.                  *)
LEMMA MappingFacts ==
  ASSUME mode \in Modes, BlkOK, NEW x \in Procs, NEW P, NEW n \in 1..3, NEW p \in DOMAIN Mapping(x, P, n)
  PROVE  /\ p \in P /\ Mapping(x, P, n)[p].prot = (IF x = "cpu" /\ n > 1 THEN 3 ELSE n)
         /\ x # "cpu" => att[x] = "on"
         /\ LocalMode(mode) => p \in blk.resident[x]
<1> DEFINE pr == IF x = "cpu" /\ n > 1 THEN 3 ELSE n
           C(c) == Allowed(x) \cap ResidentProcs(c)
           D == {c \in P : blk.prot[x][c] < pr /\ C(c) # {}}
           M == [c \in D |-> [prot |-> pr, to |-> Closest(x, C(c))]]
<1>1. ~(x # "cpu" /\ att[x] # "on")
  <2>1. DOMAIN <<>> = {} OBVIOUS
  <2> QED BY <2>1 DEF Mapping
<1>2. Mapping(x, P, n) = M BY <1>1 DEF Mapping
<1>3. p \in D /\ M[p] = [prot |-> pr, to |-> Closest(x, C(p))] BY <1>2
<1>4. p \in P /\ C(p) # {} BY <1>3
<1>5. M[p].prot = pr BY <1>3
<1>6. LocalMode(mode) => p \in blk.resident[x]
  <2>1. LocalMode(mode) => Allowed(x) = {x} BY AccessLocal
  <2> QED BY <1>4, <2>1 DEF ResidentProcs
<1> QED BY <1>1, <1>2, <1>4, <1>5, <1>6

(* Three such maps in a row.                                               *)
LEMMA MapThree ==
  ASSUME mode \in Modes, BlkOK, NEW x \in Procs, NEW A, NEW B, NEW C,
         NEW a \in 1..3, NEW b \in 1..3, NEW c \in 1..3,
         NEW r, r = Or(Mapping(x, A, a), Or(Mapping(x, B, b), Mapping(x, C, c))), NEW p \in DOMAIN r
  PROVE  /\ r[p].prot \in 1..3
         /\ x # "cpu" => att[x] = "on"
         /\ LocalMode(mode) => p \in blk.resident[x]
         /\ p \in A \cup B \cup C
         /\ x # "cpu" => \/ p \in A /\ r[p].prot = a
                         \/ p \in B /\ r[p].prot = b
                         \/ p \in C /\ r[p].prot = c
<1>1. \/ p \in DOMAIN Mapping(x, A, a) /\ r[p] = Mapping(x, A, a)[p]
      \/ p \in DOMAIN Mapping(x, B, b) /\ r[p] = Mapping(x, B, b)[p]
      \/ p \in DOMAIN Mapping(x, C, c) /\ r[p] = Mapping(x, C, c)[p]
  <2>1. PICK f : f = Mapping(x, A, a) OBVIOUS
  <2>2. PICK g : g = Mapping(x, B, b) OBVIOUS
  <2>3. PICK h : h = Mapping(x, C, c) OBVIOUS
  <2>4. r = Or(f, Or(g, h)) BY <2>1, <2>2, <2>3, Zenon
  <2> QED BY <2>1, <2>2, <2>3, <2>4, OrFacts
<1>2. CASE p \in DOMAIN Mapping(x, A, a) /\ r[p] = Mapping(x, A, a)[p] BY <1>2, MappingFacts
<1>3. CASE p \in DOMAIN Mapping(x, B, b) /\ r[p] = Mapping(x, B, b)[p] BY <1>3, MappingFacts
<1>4. CASE p \in DOMAIN Mapping(x, C, c) /\ r[p] = Mapping(x, C, c)[p] BY <1>4, MappingFacts
<1> QED BY <1>1, <1>2, <1>3, <1>4

(* What uvm_va_block_revoke_prot takes away.                               *)
LEMMA RevokingFacts ==
  ASSUME NEW x, NEW P, NEW n \in {2, 3}, NEW p \in DOMAIN Revoking(x, P, n)
  PROVE  p \in P /\ blk.prot[x][p] >= n /\ Revoking(x, P, n)[p].prot = n - 1
         /\ ~(x = "cpu" /\ n = 3)
  BY DEF Revoking

(* What uvm_va_block_unmap takes away.                                     *)
LEMMA UnmappingFacts ==
  ASSUME NEW M, NEW x \in Procs
  PROVE  /\ DOMAIN Unmapping(M)[x] = {p \in M[x] : blk.prot[x][p] > 0}
         /\ \A p \in DOMAIN Unmapping(M)[x] : Unmapping(M)[x][p].prot = 0
  BY DEF Unmapping, NoPte

(* Adding a stage to the tracker.                                          *)
LEMMA AppendFacts ==
  ASSUME NEW q, IsSeq(q), NEW e
  PROVE  /\ IsSeq(Append(q, e))
         /\ DOMAIN q = 1..Len(q) /\ Len(q) \in Nat /\ DOMAIN Append(q, e) = 1..(Len(q) + 1)
         /\ \A i \in 1..Len(q) : Append(q, e)[i] = q[i]
         /\ Append(q, e)[Len(q) + 1] = e
<1> DEFINE S == {q[i] : i \in DOMAIN q} \cup {e}
<1>1. q \in Seq(S) BY DEF IsSeq
<1>2. Append(q, e) \in Seq(S) BY <1>1
<1> DEFINE a == Append(q, e)
<1>3. a \in Seq(S) /\ Len(a) = Len(q) + 1 /\ Len(q) \in Nat BY <1>1, <1>2
<1>4. DOMAIN q = 1..Len(q) /\ DOMAIN a = 1..(Len(q) + 1) BY <1>1, <1>3
<1>5. (\A i \in 1..Len(q) : a[i] = q[i]) /\ a[Len(q) + 1] = e BY <1>1
<1> HIDE DEF a
<1>6. IsSeq(a) BY <1>3, <1>4 DEF IsSeq
<1> QED BY <1>4, <1>5, <1>6, <1>3 DEF a

(* A function on 1..n is a sequence of its values.                          *)
LEMMA SeqOf ==
  ASSUME NEW n \in Nat, NEW q, q = [i \in 1..n |-> q[i]]
  PROVE  IsSeq(q) /\ Len(q) = n
<1>1. q \in [1..n -> {q[i] : i \in DOMAIN q}] OBVIOUS
<1> QED BY <1>1 DEF IsSeq

(* A sequence is one of its own values.                                     *)
LEMMA SeqSelf ==
  ASSUME NEW T, NEW q \in Seq(T)
  PROVE  IsSeq(q) /\ DOMAIN q = 1..Len(q) /\ Len(q) \in Nat
<1>1. DOMAIN q = 1..Len(q) /\ Len(q) \in Nat /\ q = [i \in 1..Len(q) |-> q[i]] OBVIOUS
<1> QED BY <1>1, SeqOf

(* A record of the hardware with one part replaced.                        *)
LEMMA HwPart ==
  ASSUME NEW h, h = [cur |-> h.cur, pte |-> h.pte, q |-> h.q], NEW X
  PROVE  /\ [h EXCEPT !.q = X] = [cur |-> h.cur, pte |-> h.pte, q |-> X]
         /\ [h EXCEPT !.cur = X] = [cur |-> X, pte |-> h.pte, q |-> h.q]
         /\ [h EXCEPT !.pte = X] = [cur |-> h.cur, pte |-> X, q |-> h.q]
  OBVIOUS

(* k is h with a stage S more on its tracker.                              *)
Longer(h, S, k) ==
  /\ k = [cur |-> k.cur, pte |-> k.pte, q |-> k.q] /\ k.cur = h.cur /\ k.pte = h.pte
  /\ IsSeq(k.q)
  /\ Len(h.q) \in Nat /\ DOMAIN h.q = 1..Len(h.q) /\ DOMAIN k.q = 1..(Len(h.q) + 1)
  /\ \A i \in DOMAIN k.q : (i \in DOMAIN h.q /\ k.q[i] = h.q[i]) \/ (i = Len(h.q) + 1 /\ k.q[i] = S)

(* A stage more on the tracker.                                            *)
LEMMA PushFacts ==
  ASSUME NEW h, HwOK(h), NEW S, S # {}, NEW k, k = Push(h, S)
  PROVE  Longer(h, S, k)
<1>1. IsSeq(h.q) BY DEF HwOK
<1>2. PICK q : q = h.q OBVIOUS
<1>3. IsSeq(q) BY <1>1, <1>2
<1> DEFINE a == Append(q, S)
<1>4. /\ IsSeq(a)
      /\ DOMAIN q = 1..Len(q) /\ Len(q) \in Nat /\ DOMAIN a = 1..(Len(q) + 1)
      /\ \A i \in 1..Len(q) : a[i] = q[i]
      /\ a[Len(q) + 1] = S
  BY <1>3, AppendFacts
<1>5. Push(h, S) = [h EXCEPT !.q = a] BY <1>2 DEF Push
<1> HIDE DEF a
<1>6. k = [cur |-> h.cur, pte |-> h.pte, q |-> a] BY <1>5, HwPart DEF HwOK
<1>7. k.cur = h.cur /\ k.pte = h.pte /\ k.q = a BY <1>6
<1>8. \A i \in DOMAIN a : \/ i \in DOMAIN q /\ a[i] = q[i]
                          \/ i = Len(q) + 1 /\ a[i] = S
  BY <1>4
<1>9. k = [cur |-> k.cur, pte |-> k.pte, q |-> k.q] BY <1>6, <1>7
<1>10. IsSeq(k.q) BY <1>4, <1>7
<1>11. Len(h.q) \in Nat /\ DOMAIN h.q = 1..Len(h.q) /\ DOMAIN k.q = 1..(Len(h.q) + 1) BY <1>2, <1>4, <1>7
<1>12. \A i \in DOMAIN k.q : (i \in DOMAIN h.q /\ k.q[i] = h.q[i]) \/ (i = Len(h.q) + 1 /\ k.q[i] = S)
  BY <1>2, <1>7, <1>8
<1> QED BY <1>7, <1>9, <1>10, <1>11, <1>12 DEF Longer

(* A stage that changes no page table.                                     *)
LEMMA PushPlain ==
  ASSUME NEW h, HwOK(h), NEW S, \A w \in S : PushOK(w) /\ w.k # "pte", NEW prot, InStep(h, prot)
  PROVE  HwOK(Push(h, S)) /\ InStep(Push(h, S), prot)
<1>1. CASE S = {} BY <1>1 DEF Push
<1>2. CASE S # {}
  <2>1. PICK k : k = Push(h, S) OBVIOUS
  <2>2. /\ k = [cur |-> k.cur, pte |-> k.pte, q |-> k.q] /\ k.cur = h.cur /\ k.pte = h.pte
        /\ IsSeq(k.q)
        /\ Len(h.q) \in Nat /\ DOMAIN h.q = 1..Len(h.q) /\ DOMAIN k.q = 1..(Len(h.q) + 1)
        /\ \A i \in DOMAIN k.q : (i \in DOMAIN h.q /\ k.q[i] = h.q[i]) \/ (i = Len(h.q) + 1 /\ k.q[i] = S)
    <3>1. Longer(h, S, k) BY <1>2, <2>1, PushFacts
    <3> QED BY <3>1 DEF Longer
  <2>3. \A i \in DOMAIN h.q : i \in DOMAIN k.q /\ k.q[i] = h.q[i] BY <2>2
  <2>4. \A i \in DOMAIN k.q : \A w \in k.q[i] : PushOK(w)
    <3>1. \A i \in DOMAIN h.q : \A w \in h.q[i] : PushOK(w) BY DEF HwOK
    <3> QED BY <2>2, <3>1
  <2>5. HwOK(k) BY <2>2, <2>4 DEF HwOK
  <2>6. \A n, g, p : Untouched(k, n, g, p) => Untouched(h, n, g, p) BY <2>3 DEF Untouched
  <2>7. \A i \in DOMAIN k.q : \A w \in k.q[i] : \A g, p : Touches(w, g, p) => i \in DOMAIN h.q /\ w \in h.q[i]
    BY <2>2 DEF Touches
  <2>8. InStep(k, prot)
    <3> SUFFICES ASSUME NEW g \in mode.gpus, NEW p \in Pages
        PROVE  /\ Untouched(k, 0, g, p) => k.pte[g][p].prot = prot[g][p]
               /\ \A i \in DOMAIN k.q : \A w \in k.q[i] :
                    Touches(w, g, p) /\ Untouched(k, i, g, p) => w.set[p].prot = prot[g][p]
               /\ \A i \in DOMAIN k.q : \A v, w \in k.q[i] : Touches(v, g, p) /\ Touches(w, g, p) => v = w
      BY DEF InStep
    <3>1. Untouched(k, 0, g, p) => k.pte[g][p].prot = prot[g][p] BY <2>2, <2>6 DEF InStep
    <3>2. \A i \in DOMAIN k.q : \A w \in k.q[i] :
            Touches(w, g, p) /\ Untouched(k, i, g, p) => w.set[p].prot = prot[g][p]
      BY <2>6, <2>7 DEF InStep
    <3>3. \A i \in DOMAIN k.q : \A v, w \in k.q[i] : Touches(v, g, p) /\ Touches(w, g, p) => v = w
      BY <2>7 DEF InStep
    <3> QED BY <3>1, <3>2, <3>3
  <2> QED BY <2>1, <2>5, <2>8
<1> QED BY <1>1, <1>2

(* What is in memory is not in the page tables.                            *)
LEMMA CurPlain ==
  ASSUME NEW h, HwOK(h), NEW X, NEW prot, InStep(h, prot)
  PROVE  HwOK([h EXCEPT !.cur = X]) /\ InStep([h EXCEPT !.cur = X], prot)
<1> DEFINE k == [cur |-> X, pte |-> h.pte, q |-> h.q]
<1>1. [h EXCEPT !.cur = X] = k BY HwPart DEF HwOK
<1>2. k.cur = X /\ k.pte = h.pte /\ k.q = h.q /\ k = [cur |-> k.cur, pte |-> k.pte, q |-> k.q] OBVIOUS
<1> HIDE DEF k
<1>3. HwOK(k) BY <1>2 DEF HwOK
<1>4. InStep(k, prot) BY <1>2 DEF InStep, Untouched
<1> QED BY <1>1, <1>3, <1>4

(* b is the block with change R recorded, and flags t and d.               *)
Noted(b, R, t, d) ==
  /\ b \in Blocks
  /\ b.resident = blk.resident /\ b.readdup = blk.readdup /\ b.evicted = blk.evicted
  /\ b.chunk = blk.chunk /\ b.alloc = blk.alloc
  /\ b.tracking = t /\ b.dirty = d /\ b.dead = blk.dead
  /\ \A x \in Procs, p \in Pages :
       b.prot[x][p] = IF p \in DOMAIN R[x] THEN R[x][p].prot ELSE blk.prot[x][p]

(* What the driver records of a change, and what it leaves alone.          *)
LEMMA BitsFacts ==
  ASSUME BlkOK, NEW R, \A x \in Procs : \A p \in DOMAIN R[x] : R[x][p].prot \in 0..3,
         NEW t \in BOOLEAN, NEW d \in BOOLEAN,
         NEW b, b = [Bits(blk, R) EXCEPT !.tracking = t, !.dirty = d]
  PROVE  Noted(b, R, t, d)
<1> DEFINE P == [x \in Procs |-> [p \in Pages |-> IF p \in DOMAIN R[x] THEN R[x][p].prot ELSE blk.prot[x][p]]]
           m == blk.maybe \cup {p \in Pages : \E x \in Procs : p \in DOMAIN R[x] /\ R[x][p].prot > 0}
<1>1. Bits(blk, R) = [blk EXCEPT !.prot = P, !.maybe = m] BY DEF Bits
<1>2. P \in [Procs -> [Pages -> 0..3]]
  <2> SUFFICES ASSUME NEW x \in Procs, NEW p \in Pages
               PROVE  (IF p \in DOMAIN R[x] THEN R[x][p].prot ELSE blk.prot[x][p]) \in 0..3
    OBVIOUS
  <2>1. blk.prot[x][p] \in 0..3 BY DEF BlkOK, Blocks
  <2> QED BY <2>1
<1>3. m \subseteq Pages BY DEF BlkOK, Blocks
<1>4. \A x \in Procs, p \in Pages : P[x][p] = IF p \in DOMAIN R[x] THEN R[x][p].prot ELSE blk.prot[x][p]
  OBVIOUS
<1> HIDE DEF P, m
<1>5. b = [[blk EXCEPT !.prot = P, !.maybe = m] EXCEPT !.tracking = t, !.dirty = d] BY <1>1
<1>6. b.prot = P BY <1>5 DEF BlkOK, Blocks
<1>7. /\ b.resident = blk.resident /\ b.readdup = blk.readdup /\ b.evicted = blk.evicted
      /\ b.chunk = blk.chunk /\ b.alloc = blk.alloc
      /\ b.tracking = t /\ b.dirty = d /\ b.dead = blk.dead
  BY <1>5 DEF BlkOK, Blocks
<1>8. b \in Blocks
  BY <1>2, <1>3, <1>5 DEF BlkOK, Blocks
<1>9. \A x \in Procs, p \in Pages :
        b.prot[x][p] = IF p \in DOMAIN R[x] THEN R[x][p].prot ELSE blk.prot[x][p]
  BY <1>4, <1>6, Zenon
<1> QED BY <1>7, <1>8, <1>9 DEF Noted

(* A stage with one push of page table entries for each GPU concerned.      *)
LEMMA PtesFacts ==
  ASSUME mode \in Modes, NEW h, HwOK(h), NEW prot, InStep(h, prot), NEW R, NEW to,
         \A g \in mode.gpus, p \in Pages :
           to[g][p] = IF p \in DOMAIN R[g] THEN R[g][p].prot ELSE prot[g][p]
  PROVE  HwOK(Ptes(h, R)) /\ InStep(Ptes(h, R), to)
<1> DEFINE c == CpuPtes(h, R["cpu"])
           S == {[k |-> "pte", at |-> g, set |-> R[g]] : g \in {g \in mode.gpus : DOMAIN R[g] # {}}}
<1>1. /\ c = [cur |-> h.cur, pte |-> c.pte, q |-> h.q]
      /\ c.pte = [x \in Procs |-> c.pte[x]] /\ \A g \in mode.gpus : c.pte[g] = h.pte[g]
  <2> DEFINE e == [p \in Pages |-> IF p \in DOMAIN R["cpu"] THEN R["cpu"][p] ELSE h.pte["cpu"][p]]
             f == [h.pte EXCEPT !["cpu"] = e]
  <2>1. h = [cur |-> h.cur, pte |-> h.pte, q |-> h.q] BY DEF HwOK
  <2>2. c = [h EXCEPT !.pte = f] BY DEF CpuPtes
  <2> HIDE DEF e, c
  <2>3. c = [cur |-> h.cur, pte |-> f, q |-> h.q] BY <2>1, <2>2, HwPart
  <2>4. h.pte = [x \in Procs |-> h.pte[x]] BY DEF HwOK
  <2>5. "cpu" \notin mode.gpus /\ mode.gpus \subseteq Procs BY ProcFacts
  <2>6. c.pte = f BY <2>3
  <2>7. DOMAIN f = Procs /\ \A g \in mode.gpus : f[g] = h.pte[g] BY <2>4, <2>5
  <2>8. f = [x \in Procs |-> f[x]] BY <2>4
  <2> QED BY <2>3, <2>6, <2>7, <2>8
<1>2. c.cur = h.cur /\ c.q = h.q BY <1>1
<1>3. Ptes(h, R) = Push(c, S) BY DEF Ptes
<1>4. \A w \in S : /\ PushOK(w) /\ w.k = "pte" /\ w.set = R[w.at] /\ w.at \in mode.gpus
                   /\ w = [k |-> "pte", at |-> w.at, set |-> R[w.at]]
  BY DEF PushOK
<1>5. \A g \in mode.gpus : DOMAIN R[g] # {} => [k |-> "pte", at |-> g, set |-> R[g]] \in S OBVIOUS
<1> HIDE DEF c, S
<1>6. HwOK(c)
  <2>1. c = [cur |-> c.cur, pte |-> c.pte, q |-> c.q] BY <1>1, <1>2
  <2> QED BY <1>1, <1>2, <2>1 DEF HwOK
<1>7. CASE S = {}
  <2>1. \A g \in mode.gpus, p \in Pages : p \notin DOMAIN R[g] BY <1>5, <1>7
  <2>2. \A g \in mode.gpus, p \in Pages : to[g][p] = prot[g][p] BY <2>1
  <2>3. Ptes(h, R) = c BY <1>3, <1>7 DEF Push
  <2>4. InStep(c, to) BY <1>1, <1>2, <2>2 DEF InStep, Untouched
  <2> QED BY <1>6, <2>3, <2>4
<1>8. CASE S # {}
  <2>1. PICK k : k = Push(c, S) OBVIOUS
  <2>2. /\ k = [cur |-> k.cur, pte |-> k.pte, q |-> k.q] /\ k.cur = c.cur /\ k.pte = c.pte
        /\ IsSeq(k.q)
        /\ Len(h.q) \in Nat /\ DOMAIN h.q = 1..Len(h.q) /\ DOMAIN k.q = 1..(Len(h.q) + 1)
        /\ \A i \in DOMAIN k.q : (i \in DOMAIN h.q /\ k.q[i] = h.q[i]) \/ (i = Len(h.q) + 1 /\ k.q[i] = S)
    <3>1. Longer(c, S, k) BY <1>6, <1>8, <2>1, PushFacts
    <3> QED BY <1>2, <3>1 DEF Longer
  <2>3. \A i \in DOMAIN h.q : i \in DOMAIN k.q /\ k.q[i] = h.q[i] BY <2>2
  <2>4. Len(h.q) + 1 \in DOMAIN k.q /\ k.q[Len(h.q) + 1] = S
    BY <2>2
  <2>5. \A i \in DOMAIN k.q : \A w \in k.q[i] : PushOK(w)
    <3>1. \A i \in DOMAIN h.q : \A w \in h.q[i] : PushOK(w) BY DEF HwOK
    <3> QED BY <2>2, <3>1, <1>4
  <2>6. HwOK(k) BY <1>1, <2>2, <2>5 DEF HwOK
  <2>7. SUFFICES ASSUME NEW g \in mode.gpus, NEW p \in Pages
        PROVE  /\ Untouched(k, 0, g, p) => k.pte[g][p].prot = to[g][p]
               /\ \A i \in DOMAIN k.q : \A w \in k.q[i] :
                    Touches(w, g, p) /\ Untouched(k, i, g, p) => w.set[p].prot = to[g][p]
               /\ \A i \in DOMAIN k.q : \A v, w \in k.q[i] : Touches(v, g, p) /\ Touches(w, g, p) => v = w
    BY <1>3, <2>1, <2>6 DEF InStep
  <2>8. \A w \in S : Touches(w, g, p) <=> w = [k |-> "pte", at |-> g, set |-> R[g]] /\ p \in DOMAIN R[g]
    BY <1>4 DEF Touches
  <2>9. p \in DOMAIN R[g] => \E w \in S : Touches(w, g, p) BY <1>5, <2>8
  <2>10. \A n \in Nat : Untouched(k, n, g, p) => Untouched(h, n, g, p) BY <2>3 DEF Untouched
  <2>11. \A n \in 0..Len(h.q) : Untouched(k, n, g, p) => p \notin DOMAIN R[g]
    <3>1. \A n \in 0..Len(h.q) : Len(h.q) + 1 > n BY <2>2
    <3> QED BY <3>1, <2>4, <2>9 DEF Untouched
  <2>12. Untouched(k, 0, g, p) => k.pte[g][p].prot = to[g][p]
    <3>1. 0 \in Nat /\ 0 \in 0..Len(h.q) BY <2>2
    <3>2. Untouched(h, 0, g, p) => h.pte[g][p].prot = prot[g][p] BY DEF InStep
    <3> QED BY <3>1, <3>2, <2>10, <2>11, <2>2, <1>1
  <2>14. ASSUME NEW i \in DOMAIN k.q, NEW w \in k.q[i], Touches(w, g, p), Untouched(k, i, g, p)
         PROVE  w.set[p].prot = to[g][p]
    <3>1. CASE i \in DOMAIN h.q /\ k.q[i] = h.q[i]
      <4>1. i \in Nat /\ i \in 0..Len(h.q) BY <3>1, <2>2
      <4>2. Untouched(h, i, g, p) /\ p \notin DOMAIN R[g] BY <4>1, <2>14, <2>10, <2>11
      <4>3. w.set[p].prot = prot[g][p] BY <3>1, <4>2, <2>14 DEF InStep
      <4> QED BY <4>2, <4>3
    <3>2. CASE k.q[i] = S
      <4>1. w \in S BY <3>2
      <4>2. w = [k |-> "pte", at |-> g, set |-> R[g]] /\ p \in DOMAIN R[g] BY <4>1, <2>8, <2>14
      <4>3. w.set = R[g] BY <4>2
      <4> QED BY <4>2, <4>3
    <3> QED BY <2>2, <3>1, <3>2
  <2>15. ASSUME NEW i \in DOMAIN k.q, NEW v \in k.q[i], NEW w \in k.q[i], Touches(v, g, p), Touches(w, g, p)
         PROVE  v = w
    <3>1. CASE i \in DOMAIN h.q /\ k.q[i] = h.q[i] BY <3>1, <2>15 DEF InStep
    <3>2. CASE k.q[i] = S BY <3>2, <2>15, <2>8
    <3> QED BY <2>2, <3>1, <3>2
  <2> QED BY <2>12, <2>14, <2>15
<1> QED BY <1>7, <1>8

(* A write to memory changes what encrypted pushes carry, and no mapping.   *)
LEMMA WrittenFacts ==
  ASSUME NEW h, HwOK(h), NEW prot, InStep(h, prot), NEW x, NEW y
  PROVE  HwOK(Written(h, x, y)) /\ InStep(Written(h, x, y), prot)
<1> DEFINE F(w) == IF w.k = "cap" THEN [w EXCEPT !.good = @ \ {y}] ELSE w
           q == [i \in DOMAIN h.q |-> {F(w) : w \in h.q[i]}]
           C == [z \in Procs |-> IF z = x THEN h.cur[z] \cup {y} ELSE h.cur[z] \ {y}]
<1>1. \A w : PushOK(w) => PushOK(F(w)) /\ F(w).k = w.k /\ (w.k = "pte" => F(w) = w)
  <2> SUFFICES ASSUME NEW w, PushOK(w)
               PROVE  PushOK(F(w)) /\ F(w).k = w.k /\ (w.k = "pte" => F(w) = w)
    OBVIOUS
  <2>1. CASE w.k # "cap" BY <2>1
  <2>2. CASE w.k = "cap"
    <3>1. w = [k |-> "cap", to |-> w.to, pages |-> w.pages, good |-> w.good] BY <2>2 DEF PushOK
    <3>2. F(w) = [k |-> "cap", to |-> w.to, pages |-> w.pages, good |-> w.good \ {y}] BY <2>2, <3>1
    <3> HIDE DEF F
    <3>3. F(w).k = "cap" /\ F(w).to = w.to /\ F(w).pages = w.pages /\ F(w).good = w.good \ {y} BY <3>2
    <3> QED BY <2>2, <3>2, <3>3 DEF PushOK
  <2> QED BY <2>1, <2>2
<1>2. Written(h, x, y) = [h EXCEPT !.cur = C, !.q = q] BY DEF Written
<1>3. IsSeq(h.q) BY DEF HwOK
<1>4. Len(h.q) \in Nat /\ DOMAIN h.q = 1..Len(h.q) BY <1>3 DEF IsSeq
<1>5. IsSeq(q) /\ DOMAIN q = DOMAIN h.q
  <2>1. DOMAIN q = 1..Len(h.q) /\ q = [i \in 1..Len(h.q) |-> q[i]] BY <1>4
  <2> HIDE DEF q
  <2> QED BY <1>4, <2>1, SeqOf
<1>6. \A i \in DOMAIN h.q : /\ \A w \in h.q[i] : F(w) \in q[i]
                            /\ \A v \in q[i] : \E w \in h.q[i] : v = F(w)
  OBVIOUS
<1>7. \A i \in DOMAIN h.q : \A w \in h.q[i] : PushOK(w) BY DEF HwOK
<1> HIDE DEF F, q, C
<1> DEFINE k == [cur |-> C, pte |-> h.pte, q |-> q]
<1>8. Written(h, x, y) = k BY <1>2 DEF HwOK
<1>9. k.cur = C /\ k.pte = h.pte /\ k.q = q /\ k = [cur |-> k.cur, pte |-> k.pte, q |-> k.q] OBVIOUS
<1> HIDE DEF k
<1>10. \A i \in DOMAIN q : \A v \in q[i] : PushOK(v) BY <1>1, <1>5, <1>6, <1>7
<1>11. HwOK(k) BY <1>5, <1>9, <1>10 DEF HwOK
<1>12. \A i \in DOMAIN h.q : \A w : w.k = "pte" => (w \in q[i] <=> w \in h.q[i]) BY <1>1, <1>6, <1>7
<1>13. \A n, g, p : Untouched(k, n, g, p) => Untouched(h, n, g, p) BY <1>5, <1>9, <1>12 DEF Untouched, Touches
<1>14. \A i \in DOMAIN q : \A w \in q[i] : \A g, p : Touches(w, g, p) => i \in DOMAIN h.q /\ w \in h.q[i]
  BY <1>5, <1>12 DEF Touches
<1>15. InStep(k, prot)
  <2> SUFFICES ASSUME NEW g \in mode.gpus, NEW p \in Pages
      PROVE  /\ Untouched(k, 0, g, p) => k.pte[g][p].prot = prot[g][p]
             /\ \A i \in DOMAIN k.q : \A w \in k.q[i] :
                  Touches(w, g, p) /\ Untouched(k, i, g, p) => w.set[p].prot = prot[g][p]
             /\ \A i \in DOMAIN k.q : \A v, w \in k.q[i] : Touches(v, g, p) /\ Touches(w, g, p) => v = w
    BY DEF InStep
  <2>1. Untouched(k, 0, g, p) => k.pte[g][p].prot = prot[g][p] BY <1>9, <1>13 DEF InStep
  <2>2. \A i \in DOMAIN q : \A w \in q[i] :
          Touches(w, g, p) /\ Untouched(k, i, g, p) => w.set[p].prot = prot[g][p]
    BY <1>13, <1>14 DEF InStep
  <2>3. \A i \in DOMAIN q : \A v, w \in q[i] : Touches(v, g, p) /\ Touches(w, g, p) => v = w
    BY <1>14 DEF InStep
  <2> QED BY <1>9, <2>1, <2>2, <2>3
<1> QED BY <1>8, <1>11, <1>15

(* k is h after push w: the page tables of the GPUs.                        *)
Ran(h, w, k) ==
  /\ k = [cur |-> k.cur, pte |-> k.pte, q |-> k.q] /\ k.q = h.q
  /\ k.pte = [x \in Procs |-> k.pte[x]]
  /\ \A g \in mode.gpus, p \in Pages :
       k.pte[g][p] = IF Touches(w, g, p) THEN w.set[p] ELSE h.pte[g][p]

(* The effect of a push on the page tables.                                 *)
LEMMA EffectFacts ==
  ASSUME mode \in Modes, NEW h, h = [cur |-> h.cur, pte |-> h.pte, q |-> h.q],
         h.pte = [x \in Procs |-> h.pte[x]], NEW w, PushOK(w), NEW k, k = Effect(h, w)
  PROVE  Ran(h, w, k)
<1>1. CASE w.k = "pte"
  <2> DEFINE e == [p \in Pages |-> IF p \in DOMAIN w.set THEN w.set[p] ELSE h.pte[w.at][p]]
             f == [h.pte EXCEPT ![w.at] = e]
  <2>1. k = [h EXCEPT !.pte = f] BY <1>1 DEF Effect
  <2>2. w.at \in mode.gpus /\ mode.gpus \subseteq Procs BY <1>1, ProcFacts DEF PushOK
  <2>3. \A p \in Pages : e[p] = IF p \in DOMAIN w.set THEN w.set[p] ELSE h.pte[w.at][p] OBVIOUS
  <2> HIDE DEF e
  <2>4. f = [x \in Procs |-> f[x]] /\ \A g \in mode.gpus : f[g] = IF g = w.at THEN e ELSE h.pte[g] BY <2>2
  <2> HIDE DEF f
  <2>5. k = [cur |-> h.cur, pte |-> f, q |-> h.q] BY <2>1, HwPart
  <2>6. k.cur = h.cur /\ k.pte = f /\ k.q = h.q BY <2>5
  <2>7. k = [cur |-> k.cur, pte |-> k.pte, q |-> k.q] BY <2>5, <2>6
  <2>8. \A g \in mode.gpus, p \in Pages :
          f[g][p] = IF Touches(w, g, p) THEN w.set[p] ELSE h.pte[g][p]
    BY <1>1, <2>3, <2>4 DEF Touches
  <2>9. k.pte = [x \in Procs |-> k.pte[x]] BY <2>4, <2>6
  <2> QED BY <2>6, <2>7, <2>8, <2>9 DEF Ran
<1>2. CASE w.k # "pte"
  <2>1. PICK X : k = [h EXCEPT !.cur = X] BY <1>2 DEF Effect, PushOK
  <2>2. k = [cur |-> X, pte |-> h.pte, q |-> h.q] BY <2>1, HwPart
  <2>3. k.cur = X /\ k.pte = h.pte /\ k.q = h.q BY <2>2
  <2>4. k = [cur |-> k.cur, pte |-> k.pte, q |-> k.q] BY <2>2, <2>3
  <2>5. \A g, p : ~Touches(w, g, p) BY <1>2 DEF Touches
  <2> QED BY <2>3, <2>4, <2>5 DEF Ran
<1> QED BY <1>1, <1>2

(* q is tracker r without push w of its first stage: stages move up by 0 or 1. *)
Shorter(r, w, q) ==
  /\ w \in r[1] /\ 1 \in DOMAIN r /\ DOMAIN r \subseteq Nat \ {0}
  /\ IsSeq(q) /\ DOMAIN q \subseteq Nat \ {0}
  /\ \E s \in {0, 1} :
       /\ Len(q) = Len(r) - s
       /\ \A i \in DOMAIN q : i + s \in DOMAIN r /\ q[i] \subseteq r[i + s]
       /\ \A j \in DOMAIN r : \A v \in r[j] : (j = 1 /\ v = w) \/ (j - s \in DOMAIN q /\ v \in q[j - s])

(* A push leaves the first stage, and the stage leaves with its last push.  *)
LEMMA HeadFacts ==
  ASSUME NEW T, NEW r \in Seq(T), r # <<>>, NEW w \in Head(r),
         NEW q, q = IF Head(r) \ {w} = {} THEN Tail(r) ELSE [r EXCEPT ![1] = Head(r) \ {w}]
  PROVE  Shorter(r, w, q)
<1>1. Len(r) \in Nat \ {0} /\ DOMAIN r = 1..Len(r) /\ Head(r) = r[1] OBVIOUS
<1>2. w \in r[1] /\ 1 \in DOMAIN r /\ DOMAIN r \subseteq Nat \ {0} BY <1>1
<1>3. CASE Head(r) \ {w} = {}
  <2>1. q = Tail(r) BY <1>3
  <2>3. q \in Seq(T) /\ Len(q) = Len(r) - 1 /\ \A i \in 1..Len(q) : q[i] = r[i + 1]
    BY <2>1, HeadTailProperties
  <2>2. DOMAIN q = 1..(Len(r) - 1) /\ \A i \in 1..(Len(r) - 1) : q[i] = r[i + 1]
    BY <2>3
  <2>4. IsSeq(q) BY <2>3, SeqSelf
  <2>5. \A i \in DOMAIN q : i + 1 \in DOMAIN r /\ q[i] \subseteq r[i + 1] BY <1>1, <2>2
  <2>6. \A j \in DOMAIN r : \A v \in r[j] : (j = 1 /\ v = w) \/ (j - 1 \in DOMAIN q /\ v \in q[j - 1])
    <3> SUFFICES ASSUME NEW j \in DOMAIN r, NEW v \in r[j]
                 PROVE  (j = 1 /\ v = w) \/ (j - 1 \in DOMAIN q /\ v \in q[j - 1])
      OBVIOUS
    <3>1. CASE j = 1 BY <1>1, <1>3, <3>1
    <3>2. CASE j # 1
      <4>1. j - 1 \in 1..(Len(r) - 1) /\ (j - 1) + 1 = j BY <1>1, <3>2
      <4> QED BY <2>2, <4>1
    <3> QED BY <3>1, <3>2
  <2>7. DOMAIN q \subseteq Nat \ {0} BY <1>1, <2>2
  <2>8. Len(q) = Len(r) - 1 BY <2>3
  <2> QED BY <1>2, <2>4, <2>5, <2>6, <2>7, <2>8 DEF Shorter
<1>4. CASE Head(r) \ {w} # {}
  <2>1. q = [r EXCEPT ![1] = Head(r) \ {w}] BY <1>4
  <2>2. DOMAIN q = 1..Len(r) /\ q[1] = r[1] \ {w} /\ \A i \in 1..Len(r) : i # 1 => q[i] = r[i]
    BY <1>1, <2>1
  <2>3. q \in Seq(T \cup {Head(r) \ {w}})
    <3> DEFINE e == Head(r) \ {w}
               U == T \cup {e}
    <3>1. r \in Seq(U) /\ e \in U /\ 1 \in 1..Len(r) BY <1>1
    <3> HIDE DEF e, U
    <3>2. [r EXCEPT ![1] = e] \in Seq(U) BY <3>1, ExceptSeq
    <3> QED BY <2>1, <3>2 DEF e, U
  <2>4. IsSeq(q) BY <2>3, SeqSelf
  <2>5. \A i \in DOMAIN q : i + 0 \in DOMAIN r /\ q[i] \subseteq r[i + 0] BY <1>1, <2>2
  <2>6. \A j \in DOMAIN r : \A v \in r[j] : (j = 1 /\ v = w) \/ (j - 0 \in DOMAIN q /\ v \in q[j - 0])
    BY <1>1, <2>2
  <2>7. DOMAIN q \subseteq Nat \ {0} BY <1>1, <2>2
  <2>8. Len(q) = Len(r) - 0
    <3>1. DOMAIN q = 1..Len(q) /\ Len(q) \in Nat BY <2>3, SeqSelf
    <3>2. 1..Len(q) = 1..Len(r) /\ Len(r) \in Nat BY <1>1, <2>2, <3>1
    <3> QED BY <3>1, <3>2
  <2> QED BY <1>2, <2>4, <2>5, <2>6, <2>7, <2>8 DEF Shorter
<1> QED BY <1>3, <1>4

(* A push that runs leaves the page tables in step with the driver.         *)
LEMMA RunFacts ==
  ASSUME mode \in Modes, NEW h, HwOK(h), NEW prot, InStep(h, prot), h.q # <<>>, NEW w \in Head(h.q),
         NEW q, q = IF Head(h.q) \ {w} = {} THEN Tail(h.q) ELSE [h.q EXCEPT ![1] = Head(h.q) \ {w}],
         NEW k, k = Effect([h EXCEPT !.q = q], w)
  PROVE  HwOK(k) /\ InStep(k, prot)
<1>1. PICK r : r = h.q OBVIOUS
<1>2. Shorter(r, w, q)
  <2>1. IsSeq(r) BY <1>1 DEF HwOK
  <2>2. r # <<>> /\ w \in Head(r) /\ q = IF Head(r) \ {w} = {} THEN Tail(r) ELSE [r EXCEPT ![1] = Head(r) \ {w}]
    BY <1>1
  <2>3. PICK T : r \in Seq(T) BY <2>1 DEF IsSeq
  <2> QED BY <2>2, <2>3, HeadFacts
<1>17. w \in r[1] /\ 1 \in DOMAIN r /\ DOMAIN r \subseteq Nat \ {0} /\ DOMAIN q \subseteq Nat \ {0}
       /\ IsSeq(q)
  BY <1>2 DEF Shorter
<1>3. PICK s \in {0, 1} :
        /\ \A i \in DOMAIN q : i + s \in DOMAIN r /\ q[i] \subseteq r[i + s]
        /\ \A j \in DOMAIN r : \A v \in r[j] : (j = 1 /\ v = w) \/ (j - s \in DOMAIN q /\ v \in q[j - s])
  BY <1>2 DEF Shorter
<1> DEFINE m == [cur |-> h.cur, pte |-> h.pte, q |-> q]
<1>4. [h EXCEPT !.q = q] = m BY HwPart DEF HwOK
<1>5. m.cur = h.cur /\ m.pte = h.pte /\ m.q = q /\ m = [cur |-> m.cur, pte |-> m.pte, q |-> m.q] OBVIOUS
<1> HIDE DEF m
<1>6. \A i \in DOMAIN r : \A v \in r[i] : PushOK(v) BY <1>1 DEF HwOK
<1>7. m.pte = [x \in Procs |-> m.pte[x]] BY <1>5 DEF HwOK
<1>8. /\ k = [cur |-> k.cur, pte |-> k.pte, q |-> k.q] /\ k.q = q
      /\ k.pte = [x \in Procs |-> k.pte[x]]
      /\ \A g \in mode.gpus, p \in Pages :
           k.pte[g][p] = IF Touches(w, g, p) THEN w.set[p] ELSE h.pte[g][p]
  <2>1. k = Effect(m, w) /\ PushOK(w) BY <1>17, <1>4, <1>6
  <2>2. Ran(m, w, k) BY <1>5, <1>7, <2>1, EffectFacts
  <2> QED BY <1>5, <2>2 DEF Ran
<1>9. \A i \in DOMAIN q : \A v \in q[i] : PushOK(v) BY <1>3, <1>6
<1>10. HwOK(k)
  <2>1. IsSeq(k.q) BY <1>8, <1>17
  <2> QED BY <1>8, <1>9, <2>1 DEF HwOK
<1>11. \A g, p : \A n \in Nat : Untouched(k, n, g, p) /\ n > 0 => Untouched(h, n + s, g, p)
  <2> SUFFICES ASSUME NEW n \in Nat, NEW g, NEW p, Untouched(k, n, g, p), n > 0,
                      NEW j \in DOMAIN r, j > n + s, NEW v \in r[j]
               PROVE  ~Touches(v, g, p)
    BY <1>1 DEF Untouched
  <2>1. j \in Nat /\ j # 1 BY <1>17
  <2>2. j - s \in DOMAIN q /\ v \in q[j - s] BY <1>3, <2>1
  <2>3. j - s > n BY <2>1
  <2> QED BY <2>2, <2>3, <1>8 DEF Untouched
<1>12. ASSUME NEW g, NEW p, Untouched(k, 0, g, p)
       PROVE  /\ Untouched(h, 1, g, p)
              /\ ~Touches(w, g, p) => Untouched(h, 0, g, p)
  <2>1. \A i \in DOMAIN q : \A v \in q[i] : ~Touches(v, g, p)
    <3>1. \A i \in DOMAIN q : i > 0 BY <1>17
    <3> QED BY <1>8, <1>12, <3>1 DEF Untouched
  <2>2. \A j \in DOMAIN r : \A v \in r[j] : Touches(v, g, p) => j = 1 /\ v = w BY <1>3, <2>1
  <2> QED BY <1>1, <1>17, <2>2 DEF Untouched
<1>13. SUFFICES ASSUME NEW g \in mode.gpus, NEW p \in Pages
       PROVE  /\ Untouched(k, 0, g, p) => k.pte[g][p].prot = prot[g][p]
              /\ \A i \in DOMAIN k.q : \A v \in k.q[i] :
                   Touches(v, g, p) /\ Untouched(k, i, g, p) => v.set[p].prot = prot[g][p]
              /\ \A i \in DOMAIN k.q : \A v, u \in k.q[i] : Touches(v, g, p) /\ Touches(u, g, p) => v = u
  BY <1>10 DEF InStep
<1>14. Untouched(k, 0, g, p) => k.pte[g][p].prot = prot[g][p]
  <2>1. CASE Touches(w, g, p)
    <3>1. Untouched(h, 1, g, p) => w.set[p].prot = prot[g][p] BY <1>1, <1>17, <2>1 DEF InStep
    <3> QED BY <3>1, <2>1, <1>8, <1>12
  <2>2. CASE ~Touches(w, g, p)
    <3>1. Untouched(h, 0, g, p) => h.pte[g][p].prot = prot[g][p] BY DEF InStep
    <3> QED BY <3>1, <2>2, <1>8, <1>12
  <2> QED BY <2>1, <2>2
<1>18. k.q = q BY <1>8
<1>15. ASSUME NEW i \in DOMAIN k.q, NEW v \in k.q[i], Touches(v, g, p), Untouched(k, i, g, p)
       PROVE  v.set[p].prot = prot[g][p]
  <2>4. i \in DOMAIN q BY <1>18
  <2>1. i \in Nat /\ i > 0 BY <1>17, <2>4
  <2>3. i + s \in DOMAIN h.q /\ v \in h.q[i + s] BY <1>1, <1>3, <1>18
  <2>2. Untouched(h, i + s, g, p) BY <2>1, <1>11, <1>15
  <2> QED BY <2>2, <2>3, <1>15 DEF InStep
<1>16. ASSUME NEW i \in DOMAIN k.q, NEW v \in k.q[i], NEW u \in k.q[i], Touches(v, g, p), Touches(u, g, p)
       PROVE  v = u
  <2>1. i + s \in DOMAIN h.q /\ v \in h.q[i + s] /\ u \in h.q[i + s] BY <1>1, <1>3, <1>18
  <2> QED BY <2>1, <1>16 DEF InStep
<1> QED BY <1>14, <1>15, <1>16

(* The mode of the VA space is fixed.                                      *)
LEMMA HwPrime ==
  ASSUME mode' = mode, HwOK(hw'), InStep(hw', blk'.prot)
  PROVE  HwOK(hw)' /\ InStep(hw, blk.prot)' /\ Procs' = Procs /\ Pages' = Pages
<1>1. Procs' = Procs /\ Pages' = Pages BY DEF Procs, Pages
<1>2. HwOK(hw)' BY <1>1 DEF HwOK, PushOK
<1>3. InStep(hw, blk.prot)' BY <1>1 DEF InStep, Untouched
<1> QED BY <1>1, <1>2, <1>3

(* What a change R of the mappings leaves of the invariant, with t and d    *)
(* the new flags.                                                          *)
Changed(R, t, d) ==
  /\ Procs' = Procs /\ Pages' = Pages /\ mode' = mode /\ (mode \in Modes)'
  /\ BlkOK' /\ HwOK(hw)' /\ InStep(hw, blk.prot)' /\ Placed'
  /\ blk'.resident = blk.resident /\ blk'.tracking = t /\ blk'.dirty = d /\ blk'.dead = blk.dead
  /\ \A x \in Procs, p \in Pages :
       /\ blk'.prot[x][p] = IF p \in DOMAIN R[x] THEN R[x][p].prot ELSE blk.prot[x][p]
       /\ blk'.prot[x][p] \in 0..3 /\ blk.prot[x][p] \in 0..3

(* The driver's bits and the pushes change together.                       *)
LEMMA ChangeStep ==
  ASSUME TrackInv, mode' = mode, att' = att, peers' = peers,
         NEW R, \A x \in Procs : \A p \in DOMAIN R[x] : R[x][p].prot \in 0..3,
         NEW t \in BOOLEAN, NEW d \in BOOLEAN,
         blk' = [Bits(blk, R) EXCEPT !.tracking = t, !.dirty = d], hw' = Ptes(hw, R)
  PROVE  Changed(R, t, d)
<1> USE DEF TrackInv
<1>0. Procs' = Procs /\ Pages' = Pages BY DEF Procs, Pages
<1>1. PICK b : b = blk' OBVIOUS
<1>2. /\ b \in Blocks
      /\ b.resident = blk.resident /\ b.readdup = blk.readdup /\ b.evicted = blk.evicted
      /\ b.tracking = t /\ b.dirty = d /\ b.dead = blk.dead
      /\ \A x \in Procs, p \in Pages :
           b.prot[x][p] = IF p \in DOMAIN R[x] THEN R[x][p].prot ELSE blk.prot[x][p]
  <2>1. b = [Bits(blk, R) EXCEPT !.tracking = t, !.dirty = d] BY <1>1
  <2>2. Noted(b, R, t, d) BY <2>1, BitsFacts
  <2> QED BY <2>2 DEF Noted
<1>3. BlkOK' BY <1>0, <1>1, <1>2 DEF BlkOK, Blocks
<1>4. HwOK(hw') /\ InStep(hw', b.prot)
  <2>1. mode.gpus \subseteq Procs BY ProcFacts
  <2>2. \A g \in mode.gpus, p \in Pages :
          b.prot[g][p] = IF p \in DOMAIN R[g] THEN R[g][p].prot ELSE blk.prot[g][p]
    BY <1>2, <2>1
  <2> QED BY <2>2, PtesFacts
<1>5. HwOK(hw)' /\ InStep(hw, blk.prot)' BY <1>1, <1>4, HwPrime
<1>6. Placed' BY <1>0, <1>1, <1>2 DEF Placed, ResidentProcs
<1>7. \A x \in Procs, p \in Pages : blk.prot[x][p] \in 0..3 /\ b.prot[x][p] \in 0..3 BY <1>2 DEF BlkOK, Blocks
<1> QED BY <1>0, <1>1, <1>2, <1>3, <1>5, <1>6, <1>7 DEF Changed

(* A change that only takes away.                                          *)
Lowers(R) ==
  \A x \in Procs : \A p \in DOMAIN R[x] : R[x][p].prot \in 0..2 /\ R[x][p].prot < blk.prot[x][p]

(* The bits that result from a change that only takes away.                 *)
LEMMA LowerStep ==
  ASSUME TrackInv, mode' = mode, att' = att, peers' = peers, NEW R, Lowers(R),
         NEW t \in BOOLEAN, NEW d \in BOOLEAN,
         blk' = [Bits(blk, R) EXCEPT !.tracking = t, !.dirty = d], hw' = Ptes(hw, R)
  PROVE  /\ Changed(R, t, d) /\ Detached'
         /\ \A x \in Procs, p \in Pages : blk'.prot[x][p] <= blk.prot[x][p]
         /\ LocalMode(mode) => \A g \in mode.gpus, p \in Pages : blk'.prot[g][p] > 0 => p \in blk'.resident[g]
         /\ LocalMode(mode) /\ blk.tracking /\ ~blk.dirty =>
              \A g \in mode.gpus \ missed, p \in Pages : blk'.prot[g][p] <= 1
<1>1. Changed(R, t, d)
  <2>1. \A x \in Procs : \A p \in DOMAIN R[x] : R[x][p].prot \in 0..3 BY DEF Lowers
  <2> QED BY <2>1, ChangeStep
<1>2. mode.gpus \subseteq Procs /\ mode \in Modes BY ProcFacts DEF TrackInv
<1>3. \A x \in Procs, p \in Pages : /\ blk'.prot[x][p] <= blk.prot[x][p]
                                    /\ blk.prot[x][p] \in 0..3 /\ blk'.prot[x][p] \in 0..3
  BY <1>1 DEF Changed, Lowers
<1>4. Detached' BY <1>1, <1>2, <1>3 DEF Detached, TrackInv, Changed
<1>5. LocalMode(mode) => \A g \in mode.gpus, p \in Pages : blk'.prot[g][p] > 0 => p \in blk'.resident[g]
  BY <1>1, <1>2, <1>3 DEF Changed, TrackInv, MapsOwn
<1>6. LocalMode(mode) /\ blk.tracking /\ ~blk.dirty =>
        \A g \in mode.gpus \ missed, p \in Pages : blk'.prot[g][p] <= 1
  BY <1>2, <1>3 DEF TrackInv, Clean
<1> QED BY <1>1, <1>3, <1>4, <1>5, <1>6

(* A change that leaves the flags is of this form too.                      *)
LEMMA FlagsSame ==
  ASSUME TrackInv, NEW R, \A x \in Procs : \A p \in DOMAIN R[x] : R[x][p].prot \in 0..3, blk' = Bits(blk, R)
  PROVE  /\ blk' = [Bits(blk, R) EXCEPT !.tracking = blk.tracking, !.dirty = blk.dirty]
         /\ blk.tracking \in BOOLEAN /\ blk.dirty \in BOOLEAN
<1>1. PICK P, m : Bits(blk, R) = [blk EXCEPT !.prot = P, !.maybe = m] BY DEF Bits
<1> QED BY <1>1 DEF TrackInv, BlkOK, Blocks

(* Unmapping only takes away, ...                                           *)
LEMMA UnmappingLowers ==
  ASSUME TrackInv, NEW M
  PROVE  Lowers(Unmapping(M))
<1>1. \A x \in Procs : \A p \in DOMAIN Unmapping(M)[x] :
        Unmapping(M)[x][p].prot = 0 /\ blk.prot[x][p] > 0
  BY UnmappingFacts
<1> QED BY <1>1 DEF Lowers

(* ... and so does what makes a page read-only before it is duplicated.     *)
LEMMA DupLowers ==
  ASSUME TrackInv, NEW P
  PROVE  Lowers(DupUnmaps(P))
<1> DEFINE first(x) == {p \in P \ blk.readdup : p \in blk.resident[x]}
           some == UNION {first(x) : x \in Procs}
           U == Unmapping([x \in Procs |-> some \ first(x)])
           V == [x \in Procs |-> Revoking(x, first(x), 2)]
<1>1. DupUnmaps(P) = Both(U, V) BY DEF DupUnmaps
<1>2. \A x \in Procs : \A p \in DOMAIN U[x] : U[x][p].prot \in 0..2 /\ U[x][p].prot < blk.prot[x][p]
  BY UnmappingLowers DEF Lowers
<1>3. \A x \in Procs : \A p \in DOMAIN V[x] : V[x][p].prot \in 0..2 /\ V[x][p].prot < blk.prot[x][p]
  <2> SUFFICES ASSUME NEW x \in Procs, NEW p \in DOMAIN V[x]
               PROVE  V[x][p].prot \in 0..2 /\ V[x][p].prot < blk.prot[x][p]
    OBVIOUS
  <2>1. V[x] = Revoking(x, first(x), 2) OBVIOUS
  <2> HIDE DEF V, first
  <2>2. blk.prot[x][p] >= 2 /\ V[x][p].prot = 2 - 1 BY <2>1, RevokingFacts
  <2>3. p \in first(x) BY <2>1, RevokingFacts
  <2>4. p \in Pages BY <2>3 DEF first, TrackInv, BlkOK, Blocks
  <2>5. blk.prot[x][p] \in 0..3 BY <2>4 DEF TrackInv, BlkOK, Blocks
  <2> QED BY <2>2, <2>5
<1> HIDE DEF U, V
<1>4. \A x \in Procs : Both(U, V)[x] = Or(U[x], V[x]) BY DEF Both
<1>5. ASSUME NEW x \in Procs, NEW p \in DOMAIN Or(U[x], V[x])
      PROVE  Or(U[x], V[x])[p].prot \in 0..2 /\ Or(U[x], V[x])[p].prot < blk.prot[x][p]
  <2>1. PICK r, s : r = U[x] /\ s = V[x] OBVIOUS
  <2>2. (p \in DOMAIN r /\ Or(r, s)[p] = r[p]) \/ (p \in DOMAIN s /\ Or(r, s)[p] = s[p]) BY <1>5, <2>1 DEF Or
  <2> QED BY <2>1, <2>2, <1>2, <1>3
<1> QED BY <1>1, <1>4, <1>5 DEF Lowers

(* uvm_va_block_make_resident_copy and _read_duplicate.                     *)
LEMMA MakeResidentStep ==
  ASSUME TrackInv, NEW kind \in {"fault", "evict", "host", "unregister"}, NEW x \in Procs,
         NEW acc, DOMAIN acc \subseteq Pages, NEW d \in Procs, NEW dup,
         kind \in {"evict", "unregister"} => d = "cpu" /\ ~dup /\ x \in mode.gpus,
         kind = "unregister" => DOMAIN acc = blk.resident[x] /\ att[x] = "off",
         MakeResident(kind, x, acc, d, dup)
  PROVE  TrackInv'
<1> DEFINE R == IF dup THEN DupUnmaps(DOMAIN acc) ELSE MoveUnmaps(DOMAIN acc, d)
<1>1. Lowers(R)
  <2>1. CASE dup BY <2>1, DupLowers
  <2>2. CASE ~dup BY <2>2, UnmappingLowers DEF MoveUnmaps
  <2> QED BY <2>1, <2>2
<1>2. /\ mode' = mode /\ att' = att /\ peers' = peers /\ missed' = missed /\ blk' = Bits(blk, R) /\ hw' = Ptes(hw, R)
      /\ op' = [Idle EXCEPT !.pc = IF DOMAIN acc \subseteq blk.resident[d] THEN "copy" ELSE "populate",
                            !.kind = kind, !.who = x, !.acc = acc, !.dst = d, !.dup = dup]
  BY DEF MakeResident
<1>3. ~dup /\ LocalMode(mode) =>
        \A g \in mode.gpus, p \in DOMAIN acc : g # d /\ blk.prot[g][p] > 0 => p \in DOMAIN R[g] /\ R[g][p].prot = 0
  <2> SUFFICES ASSUME ~dup, LocalMode(mode), NEW g \in mode.gpus, NEW p \in DOMAIN acc, g # d, blk.prot[g][p] > 0
               PROVE  p \in DOMAIN R[g] /\ R[g][p].prot = 0
    OBVIOUS
  <2> DEFINE P == DOMAIN acc
             M == [y \in Procs |-> (P \ blk.resident[d]) \cup IF y = d THEN {} ELSE P \cap blk.readdup]
  <2>1. R = Unmapping(M) BY DEF MoveUnmaps
  <2>2. g \in Procs BY ProcFacts DEF TrackInv
  <2>3. p \in blk.resident[g] BY DEF TrackInv, MapsOwn
  <2>4. p \in blk.resident[d] => p \in blk.readdup BY <2>2, <2>3 DEF TrackInv, Placed
  <2>5. p \in M[g] BY <2>2, <2>4
  <2> HIDE DEF M, R
  <2> QED BY <2>1, <2>2, <2>5, UnmappingFacts
<1> HIDE DEF R
<1>4. \A y \in Procs : \A p \in DOMAIN R[y] : R[y][p].prot \in 0..3 BY <1>1 DEF Lowers
<1>5. /\ blk' = [Bits(blk, R) EXCEPT !.tracking = blk.tracking, !.dirty = blk.dirty]
      /\ blk.tracking \in BOOLEAN /\ blk.dirty \in BOOLEAN
  BY <1>2, <1>4, FlagsSame
<1>6. /\ Changed(R, blk.tracking, blk.dirty) /\ Detached'
      /\ LocalMode(mode) => \A g \in mode.gpus, p \in Pages : blk'.prot[g][p] > 0 => p \in blk'.resident[g]
      /\ LocalMode(mode) /\ blk.tracking /\ ~blk.dirty =>
           \A g \in mode.gpus \ missed, p \in Pages : blk'.prot[g][p] <= 1
  BY <1>1, <1>2, <1>5, LowerStep
<1>7. /\ op' = [pc |-> op'.pc, kind |-> op'.kind, who |-> op'.who, acc |-> op'.acc, dst |-> op'.dst,
                dup |-> op'.dup, moved |-> op'.moved, np |-> op'.np, wait |-> op'.wait]
      /\ op'.pc \in {"copy", "populate"} /\ op'.kind = kind /\ op'.who = x /\ op'.acc = acc
      /\ op'.dst = d /\ op'.dup = dup
  BY <1>2 DEF Idle
<1>8. OpOK' BY <1>2, <1>6, <1>7 DEF OpOK, Changed
<1>9. LocalMode(mode) => MapsOwn' /\ Clean'
  <2>1. ~dup /\ LocalMode(mode) => \A g \in mode.gpus, p \in DOMAIN acc : g # d => blk'.prot[g][p] = 0
    <3> SUFFICES ASSUME ~dup, LocalMode(mode), NEW g \in mode.gpus, NEW p \in DOMAIN acc, g # d
                 PROVE  blk'.prot[g][p] = 0
      OBVIOUS
    <3>1. g \in Procs /\ p \in Pages BY ProcFacts DEF TrackInv
    <3>2. /\ blk'.prot[g][p] = IF p \in DOMAIN R[g] THEN R[g][p].prot ELSE blk.prot[g][p]
          /\ blk.prot[g][p] \in 0..3
      BY <1>6, <3>1 DEF Changed
    <3>3. p \in DOMAIN R[g] => blk.prot[g][p] > 0 BY <1>1, <3>1, <3>2 DEF Lowers
    <3> QED BY <1>3, <3>2, <3>3
  <2>2. LocalMode(mode) => MapsOwn' BY <1>6, <1>7, <2>1 DEF MapsOwn, Changed
  <2>3. LocalMode(mode) => Clean' BY <1>2, <1>6, <1>7 DEF Clean, Changed
  <2> QED BY <2>2, <2>3
<1> QED BY <1>6, <1>8, <1>9 DEF TrackInv, Changed

(* The operations that begin by making pages resident.                      *)
LEMMA FaultSteps ==
  ASSUME TrackInv
  PROVE  /\ CpuFault => TrackInv'
         /\ \A g \in mode.gpus : GpuFault(g) \/ EvictChunks(g) \/ UnregisterGpu(g) => TrackInv'
         /\ \A p \in Pages : WriteFromCpu(p) => TrackInv'
<1>0. mode.gpus \subseteq Procs /\ "cpu" \in Procs BY ProcFacts DEF TrackInv
<1>1. ASSUME NEW x \in Procs, NEW acc, DOMAIN acc \subseteq Pages, Service(x, acc)
      PROVE  TrackInv'
  <2>1. PICK d \in Procs, dup \in BOOLEAN : MakeResident("fault", x, acc, d, dup) BY <1>1 DEF Service
  <2> QED BY <1>1, <2>1, MakeResidentStep
<1>2. CpuFault => TrackInv'
  <2> SUFFICES ASSUME NEW p \in Pages, NEW a \in {1, 3}, Service("cpu", [x \in {p} |-> a]) PROVE TrackInv'
    BY DEF CpuFault
  <2>1. DOMAIN [x \in {p} |-> a] \subseteq Pages OBVIOUS
  <2> QED BY <1>0, <1>1, <2>1
<1>3. ASSUME NEW g \in mode.gpus, GpuFault(g) PROVE TrackInv'
  <2>3. PICK F \in SUBSET Pages : \E acc \in [F -> 1..3] : Service(g, acc) BY <1>3 DEF GpuFault
  <2>1. PICK acc \in [F -> 1..3] : Service(g, acc) BY <2>3
  <2>2. DOMAIN acc \subseteq Pages OBVIOUS
  <2> QED BY <1>0, <1>1, <2>1, <2>2
<1>4. ASSUME NEW g \in mode.gpus, EvictChunks(g) PROVE TrackInv'
  <2> DEFINE acc == [p \in blk.resident[g] |-> 0]
  <2>1. MakeResident("evict", g, acc, "cpu", FALSE) BY <1>4 DEF EvictChunks
  <2>2. DOMAIN acc \subseteq Pages BY <1>0 DEF TrackInv, BlkOK, Blocks
  <2> HIDE DEF acc
  <2> QED BY <1>0, <2>1, <2>2, MakeResidentStep
<1>5. ASSUME NEW g \in mode.gpus, UnregisterGpu(g) PROVE TrackInv'
  <2> DEFINE acc == [p \in blk.resident[g] |-> 0]
  <2>1. MakeResident("unregister", g, acc, "cpu", FALSE) /\ att[g] = "off" BY <1>5 DEF UnregisterGpu
  <2>2. DOMAIN acc \subseteq Pages /\ DOMAIN acc = blk.resident[g] BY <1>0 DEF TrackInv, BlkOK, Blocks
  <2> HIDE DEF acc
  <2> QED BY <1>0, <2>1, <2>2, MakeResidentStep
<1>6. ASSUME NEW p \in Pages, WriteFromCpu(p) PROVE TrackInv'
  <2> DEFINE acc == [x \in {p} |-> 0]
             d == IF ResidentProcs(p) = {} THEN "cpu" ELSE Closest("cpu", ResidentProcs(p))
  <2>1. MakeResident("host", "cpu", acc, d, FALSE) BY <1>6 DEF WriteFromCpu
  <2>2. DOMAIN acc \subseteq Pages OBVIOUS
  <2>3. d \in Procs
    <3>1. ResidentProcs(p) \subseteq Procs BY DEF ResidentProcs
    <3>2. ResidentProcs(p) # {} => Closest("cpu", ResidentProcs(p)) \in ResidentProcs(p) BY ClosestIn
    <3> QED BY <1>0, <3>1, <3>2
  <2> HIDE DEF acc, d
  <2> QED BY <1>0, <2>1, <2>2, <2>3, MakeResidentStep
<1> QED BY <1>2, <1>3, <1>4, <1>5, <1>6

(* The operations that unmap and wait for the tracker.                      *)
LEMMA UnmapSteps ==
  ASSUME TrackInv
  PROVE  /\ \A g \in mode.gpus : RemoveGpuVaSpace(g) => TrackInv'
         /\ DisablePeer \/ Kill => TrackInv'
<1>0. mode.gpus \subseteq Procs BY ProcFacts DEF TrackInv
<1>1. ASSUME NEW kind, NEW x, NEW M, UnmapAndWait(kind, x, M),
             kind \in {"remove", "disable_peer", "kill"},
             kind = "remove" => x \in mode.gpus /\ M[x] = Pages,
             kind = "kill" => \A y \in Procs : M[y] = Pages
      PROVE  TrackInv'
  <2>1. PICK R : R = Unmapping(M) OBVIOUS
  <2>2. /\ mode' = mode /\ att' = att /\ peers' = peers /\ missed' = missed /\ blk' = Bits(blk, R) /\ hw' = Ptes(hw, R)
        /\ op' = [Idle EXCEPT !.pc = "wait", !.kind = kind, !.who = x]
    BY <1>1, <2>1 DEF UnmapAndWait
  <2>3. Lowers(R) BY <2>1, UnmappingLowers
  <2>4. \A y \in Procs : \A p \in DOMAIN R[y] : R[y][p].prot \in 0..3 BY <2>3 DEF Lowers
  <2>5. /\ blk' = [Bits(blk, R) EXCEPT !.tracking = blk.tracking, !.dirty = blk.dirty]
        /\ blk.tracking \in BOOLEAN /\ blk.dirty \in BOOLEAN
    BY <2>2, <2>4, FlagsSame
  <2>6. /\ Changed(R, blk.tracking, blk.dirty) /\ Detached'
        /\ LocalMode(mode) => \A g \in mode.gpus, p \in Pages : blk'.prot[g][p] > 0 => p \in blk'.resident[g]
        /\ LocalMode(mode) /\ blk.tracking /\ ~blk.dirty =>
             \A g \in mode.gpus \ missed, p \in Pages : blk'.prot[g][p] <= 1
    BY <2>2, <2>3, <2>5, LowerStep
  <2>7. /\ op' = [pc |-> op'.pc, kind |-> op'.kind, who |-> op'.who, acc |-> op'.acc, dst |-> op'.dst,
                  dup |-> op'.dup, moved |-> op'.moved, np |-> op'.np, wait |-> op'.wait]
        /\ op'.pc = "wait" /\ op'.kind = kind /\ op'.who = x
    BY <2>2 DEF Idle
  <2>8. \A y \in Procs, p \in Pages : M[y] = Pages => blk'.prot[y][p] = 0
    <3> SUFFICES ASSUME NEW y \in Procs, NEW p \in Pages, M[y] = Pages PROVE blk'.prot[y][p] = 0
      OBVIOUS
    <3>1. DOMAIN R[y] = {c \in Pages : blk.prot[y][c] > 0} /\ \A c \in DOMAIN R[y] : R[y][c].prot = 0
      BY <2>1, UnmappingFacts
    <3>2. /\ blk'.prot[y][p] = IF p \in DOMAIN R[y] THEN R[y][p].prot ELSE blk.prot[y][p]
          /\ blk.prot[y][p] \in 0..3
      BY <2>6 DEF Changed
    <3> QED BY <3>1, <3>2
  <2>9. OpOK'
    <3>1. kind = "remove" => \A p \in Pages : blk'.prot[x][p] = 0 BY <1>0, <1>1, <2>8
    <3>2. kind = "kill" => \A y \in Procs, p \in Pages : blk'.prot[y][p] = 0 BY <1>1, <2>8
    <3> QED BY <1>1, <2>6, <2>7, <3>1, <3>2 DEF OpOK, Changed
  <2>10. LocalMode(mode) => MapsOwn' /\ Clean' BY <2>2, <2>6, <2>7 DEF MapsOwn, Clean, Changed
  <2> QED BY <2>6, <2>9, <2>10 DEF TrackInv, Changed
<1>2. ASSUME NEW g \in mode.gpus, RemoveGpuVaSpace(g) PROVE TrackInv'
  <2> DEFINE M == [x \in Procs |-> IF x = g THEN Pages ELSE {}]
  <2>1. UnmapAndWait("remove", g, M) /\ M[g] = Pages BY <1>0, <1>2 DEF RemoveGpuVaSpace
  <2> HIDE DEF M
  <2> QED BY <1>1, <2>1
<1>3. ASSUME DisablePeer PROVE TrackInv'
  <2>1. PICK M : UnmapAndWait("disable_peer", "none", M) BY <1>3 DEF DisablePeer
  <2> QED BY <1>1, <2>1
<1>4. ASSUME Kill PROVE TrackInv'
  <2> DEFINE M == [x \in Procs |-> Pages]
  <2>1. UnmapAndWait("kill", "none", M) /\ \A y \in Procs : M[y] = Pages BY <1>4 DEF Kill
  <2> HIDE DEF M
  <2> QED BY <1>1, <2>1
<1> QED BY <1>2, <1>3, <1>4

(* The hardware with one memory replaced.                                   *)
LEMMA CurAt ==
  ASSUME NEW h, HwOK(h), NEW prot, InStep(h, prot), NEW x, NEW X
  PROVE  HwOK([h EXCEPT !.cur[x] = X]) /\ InStep([h EXCEPT !.cur[x] = X], prot)
<1> DEFINE c == [h.cur EXCEPT ![x] = X]
<1>1. [h EXCEPT !.cur[x] = X] = [h EXCEPT !.cur = c] OBVIOUS
<1> HIDE DEF c
<1> QED BY <1>1, CurPlain

(* Steps of the driver that change no flag and no mapping, and end.         *)
LEMMA EndSteps ==
  ASSUME TrackInv, mode' = mode, att' = att, peers' = peers, missed' = missed, op' = Idle,
         blk' = blk \/ FreeChunk, HwOK(hw'), InStep(hw', blk.prot)
  PROVE  TrackInv'
<1>1. /\ blk'.resident = blk.resident /\ blk'.prot = blk.prot /\ blk'.readdup = blk.readdup
      /\ blk'.evicted = blk.evicted /\ blk'.tracking = blk.tracking /\ blk'.dirty = blk.dirty
  BY DEF FreeChunk, TrackInv, BlkOK, Blocks
<1>2. HwOK(hw)' /\ InStep(hw, blk.prot)' /\ Procs' = Procs /\ Pages' = Pages BY <1>1, HwPrime
<1>3. BlkOK'
  <2>1. CASE blk' = blk BY <1>2, <2>1 DEF TrackInv, BlkOK, Blocks
  <2>2. CASE FreeChunk
    <3>1. PICK e : e = (blk.evq \/ mode.by # {} \/ mode.evmap) OBVIOUS
    <3>2. e \in BOOLEAN BY <3>1
    <3>3. blk' = [blk EXCEPT !.chunk = blk.chunk \ {op.who}, !.evq = e] BY <2>2, <3>1 DEF FreeChunk
    <3> QED BY <1>2, <3>2, <3>3 DEF TrackInv, BlkOK, Blocks
  <2> QED BY <2>1, <2>2
<1>4. OpOK' BY DEF OpOK, Idle
<1>5. Detached' /\ Placed' BY <1>1, <1>2 DEF TrackInv, Detached, Placed, ResidentProcs
<1>6. op'.pc = "idle" BY DEF Idle
<1>7. LocalMode(mode) => MapsOwn' /\ Clean' BY <1>1, <1>2, <1>6 DEF TrackInv, MapsOwn, Clean
<1> QED BY <1>1, <1>2, <1>3, <1>4, <1>5, <1>7 DEF TrackInv

(* Abandoned, the end of an eviction and of a tools write.                  *)
LEMMA PlainEnds ==
  ASSUME TrackInv
  PROVE  Abandoned \/ FreeChunk \/ HostWrite => TrackInv'
<1>1. HwOK(hw) /\ InStep(hw, blk.prot) BY DEF TrackInv
<1>2. Abandoned => TrackInv' BY <1>1, EndSteps DEF Abandoned
<1>3. FreeChunk => TrackInv'
  <2> SUFFICES ASSUME FreeChunk PROVE TrackInv' OBVIOUS
  <2> DEFINE S == {[k |-> "free", at |-> op.who]}
  <2>1. \A w \in S : PushOK(w) /\ w.k # "pte" BY DEF PushOK
  <2>2. hw' = Push(hw, S) BY DEF FreeChunk
  <2> HIDE DEF S
  <2>3. HwOK(hw') /\ InStep(hw', blk.prot) BY <1>1, <2>1, <2>2, PushPlain
  <2> QED BY <2>3, EndSteps DEF FreeChunk
<1>4. HostWrite => TrackInv'
  <2> SUFFICES ASSUME HostWrite PROVE TrackInv' OBVIOUS
  <2>1. PICK p : hw' = Written(hw, op.dst, p) BY DEF HostWrite
  <2>2. HwOK(hw') /\ InStep(hw', blk.prot) BY <1>1, <2>1, WrittenFacts
  <2> QED BY <2>2, EndSteps DEF HostWrite
<1> QED BY <1>2, <1>3, <1>4

(* What the processors and the GPUs' engines do.                            *)
LEMMA HardwareSteps ==
  ASSUME TrackInv
  PROVE  /\ Execute => TrackInv'
         /\ \A x \in Procs, p \in Pages : Store(x, p) => TrackInv'
         /\ UNCHANGED vars => TrackInv'
<1>1. HwOK(hw) /\ InStep(hw, blk.prot) /\ mode \in Modes BY DEF TrackInv
<1>2. ASSUME UNCHANGED <<mode, att, peers, blk, op, missed>>, HwOK(hw'), InStep(hw', blk.prot)
      PROVE  TrackInv'
  <2>1. HwOK(hw)' /\ InStep(hw, blk.prot)' /\ Procs' = Procs /\ Pages' = Pages BY <1>2, HwPrime
  <2>2. BlkOK' /\ OpOK' BY <1>2, <2>1 DEF TrackInv, BlkOK, Blocks, OpOK
  <2>3. Detached' /\ Placed' BY <1>2, <2>1 DEF TrackInv, Detached, Placed, ResidentProcs
  <2>4. LocalMode(mode) => MapsOwn' /\ Clean' BY <1>2, <2>1 DEF TrackInv, MapsOwn, Clean
  <2> QED BY <1>2, <2>1, <2>2, <2>3, <2>4 DEF TrackInv
<1>3. ASSUME Execute PROVE TrackInv'
  <2>1. PICK w \in Head(hw.q) :
          hw' = LET rest == Head(hw.q) \ {w}
                IN  Effect([hw EXCEPT !.q = IF rest = {} THEN Tail(@) ELSE [@ EXCEPT ![1] = rest]], w)
    BY <1>3 DEF Execute
  <2>2. PICK q : q = IF Head(hw.q) \ {w} = {} THEN Tail(hw.q) ELSE [hw.q EXCEPT ![1] = Head(hw.q) \ {w}] OBVIOUS
  <2>3. hw' = Effect([hw EXCEPT !.q = q], w) BY <2>1, <2>2
  <2>4. hw.q # <<>> BY <1>3 DEF Execute, Drained
  <2>5. HwOK(hw') /\ InStep(hw', blk.prot) BY <1>1, <2>2, <2>3, <2>4, RunFacts
  <2> QED BY <1>2, <1>3, <2>5 DEF Execute
<1>4. ASSUME NEW x \in Procs, NEW p \in Pages, Store(x, p) PROVE TrackInv'
  <2>1. HwOK(hw') /\ InStep(hw', blk.prot) BY <1>1, <1>4, WrittenFacts DEF Store
  <2> QED BY <1>2, <1>4, <2>1 DEF Store
<1>5. UNCHANGED vars => TrackInv' BY <1>1, <1>2 DEF vars
<1> QED BY <1>3, <1>4, <1>5

(* Steps that change no more than a flag, a GPU's attachment or peering.    *)
LEMMA FlagSteps ==
  ASSUME TrackInv
  PROVE  /\ EvictionMappingsEnd \/ Finalize => TrackInv'
         /\ \A g \in mode.gpus : AddGpuVaSpace(g) => TrackInv'
<1>1. HwOK(hw) /\ InStep(hw, blk.prot) /\ mode \in Modes BY DEF TrackInv
<1>2. ASSUME EvictionMappingsEnd \/ Finalize PROVE TrackInv'
  <2>0. mode' = mode /\ att' = att /\ peers' = peers /\ op' = op /\ hw' = hw /\ op.pc = "idle"
    BY <1>2 DEF EvictionMappingsEnd, Finalize, Free
  <2>1. /\ blk'.resident = blk.resident /\ blk'.prot = blk.prot /\ blk'.readdup = blk.readdup
        /\ blk'.evicted = blk.evicted
        /\ \/ blk'.tracking = FALSE
           \/ blk'.tracking = blk.tracking /\ blk'.dirty = blk.dirty /\ missed' = missed
    BY <1>2 DEF EvictionMappingsEnd, Finalize, TrackInv, BlkOK, Blocks
  <2>2. HwOK(hw)' /\ InStep(hw, blk.prot)' /\ Procs' = Procs /\ Pages' = Pages BY <1>1, <2>0, <2>1, HwPrime
  <2>3. BlkOK' BY <1>2, <2>0, <2>2 DEF EvictionMappingsEnd, Finalize, TrackInv, BlkOK, Blocks
  <2>4. OpOK' BY <2>0 DEF TrackInv, OpOK
  <2>5. Detached' /\ Placed' BY <2>0, <2>1, <2>2 DEF TrackInv, Detached, Placed, ResidentProcs
  <2>6. LocalMode(mode) => MapsOwn' /\ Clean' BY <2>0, <2>1, <2>2 DEF TrackInv, MapsOwn, Clean
  <2> QED BY <2>0, <2>1, <2>2, <2>3, <2>4, <2>5, <2>6 DEF TrackInv
<1>3. ASSUME NEW g \in mode.gpus, AddGpuVaSpace(g) PROVE TrackInv'
  <2>0. mode' = mode /\ peers' = peers /\ missed' = missed /\ op' = op /\ hw' = hw /\ blk' = blk /\ op.pc = "idle"
        /\ att' = [att EXCEPT ![g] = "on"]
    BY <1>3 DEF AddGpuVaSpace, Free
  <2>2. HwOK(hw)' /\ InStep(hw, blk.prot)' /\ Procs' = Procs /\ Pages' = Pages BY <1>1, <2>0, HwPrime
  <2>3. BlkOK' BY <2>0, <2>2 DEF TrackInv, BlkOK, Blocks
  <2>4. OpOK' BY <2>0 DEF TrackInv, OpOK
  <2>5. Detached' BY <2>0, <2>2 DEF TrackInv, Detached, BlkOK, Blocks
  <2>6. Placed' BY <2>0, <2>2 DEF TrackInv, Placed, ResidentProcs
  <2>7. LocalMode(mode) => MapsOwn' /\ Clean' BY <2>0, <2>2 DEF TrackInv, MapsOwn, Clean
  <2> QED BY <2>0, <2>2, <2>3, <2>4, <2>5, <2>6, <2>7 DEF TrackInv
<1> QED BY <1>2, <1>3

(* block_populate_pages.                                                    *)
LEMMA PopulateStep ==
  ASSUME TrackInv, Populate PROVE TrackInv'
<1>1. HwOK(hw) /\ InStep(hw, blk.prot) /\ mode \in Modes BY DEF TrackInv
<1>2. mode' = mode /\ att' = att /\ peers' = peers /\ missed' = missed /\ op' = [op EXCEPT !.pc = "copy"] /\ op.pc = "populate"
  BY DEF Populate
<1>3. op.dst \in Procs /\ DOMAIN op.acc \subseteq Pages BY <1>2 DEF TrackInv, OpOK
<1>4. Missing \subseteq Pages /\ Staged \subseteq Pages BY <1>3 DEF Missing, Staged, P_op
<1>5. PICK c, a : /\ c \subseteq mode.gpus /\ a \subseteq Pages
                  /\ blk' = [blk EXCEPT !.chunk = c, !.alloc = a]
  <2>0. blk.chunk \subseteq mode.gpus /\ blk.alloc \subseteq Pages BY DEF TrackInv, BlkOK, Blocks
  <2>1. CASE op.dst = "cpu"
    <3>1. blk' = [blk EXCEPT !.alloc = @ \cup Missing] BY <2>1 DEF Populate, PopulateCpu
    <3>2. blk' = [blk EXCEPT !.chunk = blk.chunk, !.alloc = blk.alloc \cup Missing]
      BY <3>1 DEF TrackInv, BlkOK, Blocks
    <3> QED BY <1>4, <2>0, <3>2
  <2>2. CASE op.dst # "cpu" /\ op.dst \in blk.chunk
    <3>1. blk' = [blk EXCEPT !.alloc = @ \cup Staged] BY <2>2 DEF Populate, PopulateGpu
    <3>2. blk' = [blk EXCEPT !.chunk = blk.chunk, !.alloc = blk.alloc \cup Staged]
      BY <3>1 DEF TrackInv, BlkOK, Blocks
    <3> QED BY <1>4, <2>0, <3>2
  <2>3. CASE op.dst # "cpu" /\ op.dst \notin blk.chunk
    <3>1. blk' = [blk EXCEPT !.chunk = blk.chunk \cup {op.dst}, !.alloc = blk.alloc \cup Staged]
      BY <2>3 DEF Populate, PopulateGpu
    <3>2. op.dst \in mode.gpus BY <1>3, <2>3 DEF Procs
    <3> QED BY <1>4, <2>0, <3>1, <3>2
  <2> QED BY <2>1, <2>2, <2>3
<1>6. HwOK(hw') /\ InStep(hw', blk.prot)
  <2>1. CASE op.dst = "cpu"
    <3>1. PICK X : hw' = [hw EXCEPT !.cur["cpu"] = X] BY <2>1 DEF Populate, PopulateCpu
    <3> QED BY <1>1, <3>1, CurAt
  <2>2. CASE op.dst # "cpu" /\ op.dst \in blk.chunk BY <1>1, <2>2 DEF Populate, PopulateGpu
  <2>3. CASE op.dst # "cpu" /\ op.dst \notin blk.chunk
    <3> DEFINE S == IF Nowhere = {} THEN {} ELSE {[k |-> "zero", at |-> op.dst, pages |-> Nowhere]}
    <3>1. hw' = Push(hw, S) BY <2>3 DEF Populate, PopulateGpu
    <3>2. \A w \in S : PushOK(w) /\ w.k # "pte" BY DEF PushOK
    <3> HIDE DEF S
    <3> QED BY <1>1, <3>1, <3>2, PushPlain
  <2> QED BY <2>1, <2>2, <2>3
<1>7. /\ blk'.resident = blk.resident /\ blk'.prot = blk.prot /\ blk'.readdup = blk.readdup
      /\ blk'.evicted = blk.evicted /\ blk'.tracking = blk.tracking /\ blk'.dirty = blk.dirty
  BY <1>5 DEF TrackInv, BlkOK, Blocks
<1>8. HwOK(hw)' /\ InStep(hw, blk.prot)' /\ Procs' = Procs /\ Pages' = Pages BY <1>2, <1>6, <1>7, HwPrime
<1>9. BlkOK' BY <1>2, <1>5, <1>8 DEF TrackInv, BlkOK, Blocks
<1>10. /\ op' = [pc |-> op'.pc, kind |-> op'.kind, who |-> op'.who, acc |-> op'.acc, dst |-> op'.dst,
                 dup |-> op'.dup, moved |-> op'.moved, np |-> op'.np, wait |-> op'.wait]
       /\ op'.pc = "copy" /\ op'.kind = op.kind /\ op'.who = op.who /\ op'.acc = op.acc
       /\ op'.dst = op.dst /\ op'.dup = op.dup
  BY <1>2 DEF TrackInv, OpOK
<1>11. OpOK' BY <1>2, <1>7, <1>8, <1>10 DEF TrackInv, OpOK
<1>12. Detached' /\ Placed' BY <1>2, <1>7, <1>8 DEF TrackInv, Detached, Placed, ResidentProcs
<1>13. LocalMode(mode) => MapsOwn' /\ Clean' BY <1>2, <1>7, <1>8, <1>10 DEF TrackInv, MapsOwn, Clean
<1> QED BY <1>2, <1>7, <1>8, <1>9, <1>11, <1>12, <1>13 DEF TrackInv

(* The copies of block_copy_resident_pages leave the mappings alone.        *)
LEMMA CopyPlain ==
  ASSUME NEW h, HwOK(h), NEW prot, InStep(h, prot), NEW P
  PROVE  HwOK(CopyResidentPages(h, P)) /\ InStep(CopyResidentPages(h, P), prot)
<1>1. \A Q : HwOK(Decrypt(h, Q)) /\ InStep(Decrypt(h, Q), prot) BY CurAt DEF Decrypt
<1>2. \A k, Q : \A w \in Encrypt(k, Q) : PushOK(w) /\ w.k # "pte" BY DEF Encrypt, PushOK
<1>3. \A Q, to : \A w \in Copies(Q, to) : PushOK(w) /\ w.k # "pte" BY DEF Copies, PushOK
<1>4. CASE mode.cc /\ op.dst = "cpu" BY <1>1, <1>4 DEF CopyResidentPages
<1>5. CASE mode.cc /\ op.dst # "cpu"
  <2>1. PICK k : k = Decrypt(h, Staged) OBVIOUS
  <2>2. PICK S : S = Encrypt(k, P) OBVIOUS
  <2>3. CopyResidentPages(h, P) = Push(k, S) BY <1>5, <2>1, <2>2 DEF CopyResidentPages
  <2>4. HwOK(k) /\ InStep(k, prot) BY <1>1, <2>1
  <2>5. \A w \in S : PushOK(w) /\ w.k # "pte" BY <1>2, <2>2
  <2> QED BY <2>3, <2>4, <2>5, PushPlain
<1>6. CASE ~mode.cc
  <2>1. PICK S : S = Copies(P \ Staged, op.dst) \cup Copies(Staged, "cpu") OBVIOUS
  <2>2. PICK T : T = IF Staged = {} THEN {}
                     ELSE {[k |-> "copy", from |-> "cpu", to |-> op.dst, pages |-> Staged]} OBVIOUS
  <2>3. PICK k : k = Push(h, S) OBVIOUS
  <2>4. CopyResidentPages(h, P) = Push(k, T) BY <1>6, <2>1, <2>2, <2>3 DEF CopyResidentPages
  <2>5. \A w \in S : PushOK(w) /\ w.k # "pte" BY <1>3, <2>1
  <2>6. \A w \in T : PushOK(w) /\ w.k # "pte" BY <2>2 DEF PushOK
  <2>7. HwOK(k) /\ InStep(k, prot) BY <2>3, <2>5, PushPlain
  <2> QED BY <2>4, <2>6, <2>7, PushPlain
<1> QED BY <1>4, <1>5, <1>6

(* b is the block after a move of the operation's pages, P of them copied   *)
(* from processors S.                                                      *)
Moved(b, P, S) ==
  /\ b \in Blocks
  /\ b.prot = blk.prot /\ b.tracking = blk.tracking /\ b.dirty = blk.dirty
  /\ b.chunk = blk.chunk /\ b.alloc = blk.alloc
  /\ b.readdup = blk.readdup \ P_op
  /\ \A x \in Procs : b.resident[x] = IF x = op.dst THEN blk.resident[x] \cup P_op
                                      ELSE blk.resident[x] \ P_op
  /\ \A g \in mode.gpus :
       b.evicted[g] = IF op.kind = "evict" THEN IF g \in S THEN blk.evicted[g] \cup P ELSE blk.evicted[g]
                      ELSE IF g = op.dst THEN blk.evicted[g] \ P ELSE blk.evicted[g]

(* The residency a move leaves.                                             *)
LEMMA MoveFacts ==
  ASSUME BlkOK, op.dst \in Procs, P_op \subseteq Pages, NEW P \in SUBSET P_op, NEW S,
         NEW b, b = MoveFinish(P, S)
  PROVE  Moved(b, P, S)
<1> DEFINE R1 == [blk.resident EXCEPT ![op.dst] = @ \cup P]
           E  == [g \in mode.gpus |->
                    IF op.kind = "evict" THEN IF g \in S THEN blk.evicted[g] \cup P ELSE blk.evicted[g]
                    ELSE IF g = op.dst THEN blk.evicted[g] \ P ELSE blk.evicted[g]]
           R2 == [R1 EXCEPT ![op.dst] = @ \cup P_op]
           R3 == [x \in Procs |-> IF x = op.dst THEN R2[x] ELSE R2[x] \ P_op]
           m  == blk.maybe \ P
<1>1. UpdateState(blk, P, S) = [blk EXCEPT !.resident = R1, !.maybe = m, !.evicted = E] BY DEF UpdateState
<1>2. blk.resident \in [Procs -> SUBSET Pages] /\ blk.evicted \in [mode.gpus -> SUBSET Pages]
  BY DEF BlkOK, Blocks
<1>3. R3 \in [Procs -> SUBSET Pages]
      /\ \A x \in Procs : R3[x] = IF x = op.dst THEN blk.resident[x] \cup P_op ELSE blk.resident[x] \ P_op
  BY <1>2
<1>4. E \in [mode.gpus -> SUBSET Pages]
      /\ \A g \in mode.gpus :
           E[g] = IF op.kind = "evict" THEN IF g \in S THEN blk.evicted[g] \cup P ELSE blk.evicted[g]
                  ELSE IF g = op.dst THEN blk.evicted[g] \ P ELSE blk.evicted[g]
  BY <1>2
<1>5. PICK u : u = [blk EXCEPT !.resident = R1, !.maybe = m, !.evicted = E] OBVIOUS
<1>6. u.resident = R1 /\ u.readdup = blk.readdup BY <1>5 DEF BlkOK, Blocks
<1>7. PICK f : f = [u EXCEPT !.resident = R2] OBVIOUS
<1>8. f = FirstTouch(u, P_op) BY <1>6, <1>7 DEF FirstTouch
<1>9. f.resident = R2 /\ f.readdup = blk.readdup BY <1>5, <1>7 DEF BlkOK, Blocks
<1>10. b = [f EXCEPT !.readdup = blk.readdup \ P_op, !.resident = R3]
  BY <1>1, <1>5, <1>8, <1>9 DEF MoveFinish, BreakReadDuplication
<1>11. m \subseteq Pages BY DEF BlkOK, Blocks
<1> HIDE DEF R1, R2, R3, E, m
<1>15. PICK D : D = blk.readdup \ P_op OBVIOUS
<1>16. D \subseteq Pages BY <1>15 DEF BlkOK, Blocks
<1>12. b = [blk EXCEPT !.resident = R3, !.maybe = m, !.evicted = E, !.readdup = D]
  BY <1>5, <1>7, <1>10, <1>15 DEF BlkOK, Blocks
<1>13. /\ b.prot = blk.prot /\ b.tracking = blk.tracking /\ b.dirty = blk.dirty
       /\ b.chunk = blk.chunk /\ b.alloc = blk.alloc
       /\ b.readdup = blk.readdup \ P_op /\ b.resident = R3 /\ b.evicted = E
  BY <1>12, <1>15 DEF BlkOK, Blocks
<1>14. b \in Blocks
  <2>1. R3 \in [Procs -> SUBSET Pages] BY <1>3
  <2>2. E \in [mode.gpus -> SUBSET Pages] BY <1>4
  <2>3. blk \in Blocks BY DEF BlkOK
  <2> QED BY <2>1, <2>2, <2>3, <1>11, <1>12, <1>16 DEF Blocks
<1> QED BY <1>3, <1>4, <1>13, <1>14 DEF Moved

(* b is the block after a read duplication, P the pages copied.             *)
Duplicated(b, P) ==
  /\ b \in Blocks
  /\ b.prot = blk.prot /\ b.tracking = blk.tracking /\ b.dirty = blk.dirty
  /\ b.chunk = blk.chunk /\ b.alloc = blk.alloc
  /\ b.readdup = (blk.readdup \cup P) \cup Staged
  /\ \A x \in Procs : b.resident[x] = blk.resident[x] \cup IF x = op.dst THEN P_op
                                                           ELSE IF x = "cpu" THEN Staged ELSE {}
  /\ \A g \in mode.gpus : b.evicted[g] = IF g = op.dst THEN blk.evicted[g] \ P ELSE blk.evicted[g]

(* The residency a read duplication leaves.                                 *)
LEMMA DupFacts ==
  ASSUME BlkOK, op.dst \in Procs, P_op \subseteq Pages, Staged \subseteq Pages, NEW P \in SUBSET P_op,
         NEW b, b = DupFinish(P)
  PROVE  Duplicated(b, P)
<1> DEFINE R == [x \in Procs |-> blk.resident[x] \cup IF x = op.dst THEN P_op
                                                      ELSE IF x = "cpu" THEN Staged ELSE {}]
           E == [g \in mode.gpus |-> IF g = op.dst THEN blk.evicted[g] \ P ELSE blk.evicted[g]]
           D == (blk.readdup \cup P) \cup Staged
<1>1. b = [blk EXCEPT !.resident = R, !.readdup = D, !.evicted = E] BY DEF DupFinish
<1>2. blk.resident \in [Procs -> SUBSET Pages] /\ blk.evicted \in [mode.gpus -> SUBSET Pages]
  BY DEF BlkOK, Blocks
<1>3. R \in [Procs -> SUBSET Pages]
      /\ \A x \in Procs : R[x] = blk.resident[x] \cup IF x = op.dst THEN P_op
                                                      ELSE IF x = "cpu" THEN Staged ELSE {}
  BY <1>2
<1>4. E \in [mode.gpus -> SUBSET Pages]
      /\ \A g \in mode.gpus : E[g] = IF g = op.dst THEN blk.evicted[g] \ P ELSE blk.evicted[g]
  BY <1>2
<1>5. D \subseteq Pages BY DEF BlkOK, Blocks
<1> HIDE DEF R, E
<1>6. /\ b.prot = blk.prot /\ b.tracking = blk.tracking /\ b.dirty = blk.dirty
      /\ b.chunk = blk.chunk /\ b.alloc = blk.alloc
      /\ b.readdup = D /\ b.resident = R /\ b.evicted = E
  BY <1>1 DEF BlkOK, Blocks
<1> HIDE DEF D
<1>7. b \in Blocks
  <2>1. b = [resident |-> R, prot |-> blk.prot, chunk |-> blk.chunk, alloc |-> blk.alloc, readdup |-> D,
             maybe |-> blk.maybe, evicted |-> E, tracking |-> blk.tracking, dirty |-> blk.dirty,
             evq |-> blk.evq, dead |-> blk.dead]
    BY <1>1 DEF BlkOK, Blocks
  <2> QED BY <1>3, <1>4, <1>5, <2>1 DEF BlkOK, Blocks
<1> QED BY <1>3, <1>4, <1>6, <1>7 DEF Duplicated, D

(* uvm_va_block_make_resident_finish and the end of _read_duplicate: where  *)
(* pages are, and whose mappings survive.                                   *)
LEMMA CopyStep ==
  ASSUME TrackInv, Copy PROVE TrackInv'
<1> DEFINE migrated == {p \in Missing : ResidentProcs(p) # {}}
           sources  == {Source(p) : p \in migrated}
<1>1. HwOK(hw) /\ InStep(hw, blk.prot) /\ mode \in Modes /\ BlkOK BY DEF TrackInv
<1>2. /\ mode' = mode /\ att' = att /\ peers' = peers /\ missed' = missed /\ op.pc = "copy"
      /\ hw' = IF migrated = {} THEN hw ELSE CopyResidentPages(hw, migrated)
      /\ blk' = IF op.dup THEN DupFinish(migrated) ELSE MoveFinish(migrated, sources)
      /\ op' = [op EXCEPT !.pc = After(op.kind), !.moved = IF op.dup THEN Missing \ migrated ELSE Missing,
                          !.wait = op.dst = "cpu" /\ migrated # {}]
  BY DEF Copy
<1>3. /\ op.dst \in Procs /\ P_op \subseteq Pages /\ op.kind \in {"fault", "evict", "host", "unregister"}
      /\ op.kind = "evict" => op.dst = "cpu" /\ ~op.dup
      /\ op.kind = "unregister" => op.dst = "cpu" /\ ~op.dup /\ P_op = blk.resident[op.who]
  BY <1>2 DEF TrackInv, OpOK, P_op
<1>4. Staged \subseteq Missing /\ Missing = P_op \ blk.resident[op.dst] /\ Staged \subseteq Pages
      /\ (Staged # {} => op.dst # "cpu") /\ (\A p \in Staged : ResidentProcs(p) # {})
  BY <1>3 DEF Missing, Staged
<1>5. migrated \subseteq P_op /\ \A p : p \in migrated <=> p \in P_op \ blk.resident[op.dst] /\ ResidentProcs(p) # {}
  BY <1>4
<1>6. mode.gpus \subseteq Procs /\ "cpu" \notin mode.gpus /\ "cpu" \in Procs BY <1>1, ProcFacts
<1>7. HwOK(hw') /\ InStep(hw', blk.prot) BY <1>1, <1>2, CopyPlain
<1> HIDE DEF migrated, sources
<1>16. (op.dup => Duplicated(blk', migrated)) /\ (~op.dup => Moved(blk', migrated, sources))
  <2>1. PICK b : b = blk' OBVIOUS
  <2>2. op.dup => b = DupFinish(migrated) BY <1>2, <2>1
  <2>3. ~op.dup => b = MoveFinish(migrated, sources) BY <1>2, <2>1
  <2>4. op.dup => Duplicated(b, migrated) BY <1>1, <1>3, <1>4, <1>5, <2>2, DupFacts
  <2>5. ~op.dup => Moved(b, migrated, sources) BY <1>1, <1>3, <1>5, <2>3, MoveFacts
  <2> QED BY <2>1, <2>4, <2>5
<1>8. /\ blk' \in Blocks /\ blk'.prot = blk.prot /\ blk'.tracking = blk.tracking /\ blk'.dirty = blk.dirty
  BY <1>16 DEF Moved, Duplicated
<1>9. HwOK(hw)' /\ InStep(hw, blk.prot)' /\ Procs' = Procs /\ Pages' = Pages BY <1>2, <1>7, <1>8, HwPrime
<1>10. BlkOK' BY <1>2, <1>8, <1>9, <1>1 DEF BlkOK, Blocks
<1>11. \A x \in Procs, p \in Pages : p \in blk.resident[x] => ResidentProcs(p) # {} BY DEF ResidentProcs
<1>12. /\ \A x, y \in Procs : x # y => blk.resident[x] \cap blk.resident[y] \subseteq blk.readdup
       /\ \A g \in mode.gpus : /\ blk.evicted[g] \cap blk.resident[g] = {}
                               /\ \A p \in blk.evicted[g] : \E x \in Procs : p \in blk.resident[x]
       /\ \A x \in Procs : blk.resident[x] \subseteq Pages
       /\ \A g \in mode.gpus : blk.evicted[g] \subseteq Pages
  BY <1>1 DEF TrackInv, Placed, ResidentProcs, BlkOK, Blocks
<1> DEFINE G == /\ Placed' /\ (op.kind = "unregister" => blk'.resident[op.who] = {})
                /\ LocalMode(mode) => \A g \in mode.gpus, p \in Pages :
                                        blk.prot[g][p] > 0 => p \in blk'.resident[g]
<1>13. ASSUME op.dup PROVE G
  <2>1. /\ blk'.readdup = (blk.readdup \cup migrated) \cup Staged
        /\ \A x \in Procs : blk'.resident[x] = blk.resident[x] \cup IF x = op.dst THEN P_op
                                                                 ELSE IF x = "cpu" THEN Staged ELSE {}
        /\ \A g \in mode.gpus : blk'.evicted[g] = IF g = op.dst THEN blk.evicted[g] \ migrated ELSE blk.evicted[g]
    BY <1>13, <1>16 DEF Duplicated
  <2>2. \A x, y \in Procs : x # y => blk'.resident[x] \cap blk'.resident[y] \subseteq blk'.readdup
    <3> SUFFICES ASSUME NEW x \in Procs, NEW y \in Procs, x # y, NEW p, p \in blk'.resident[x], p \in blk'.resident[y]
                 PROVE  p \in blk'.readdup
      OBVIOUS
    <3>1. CASE p \in Staged BY <2>1, <3>1
    <3>2. CASE p \notin Staged /\ p \in blk.resident[x] /\ p \in blk.resident[y] BY <1>12, <2>1, <3>2
    <3>3. CASE p \notin Staged /\ p \notin blk.resident[x]
      <4>1. x = op.dst /\ p \in P_op /\ p \in blk.resident[y] BY <2>1, <3>3
      <4>2. p \in migrated BY <1>3, <1>5, <1>11, <3>3, <4>1
      <4> QED BY <2>1, <4>2
    <3>4. CASE p \notin Staged /\ p \notin blk.resident[y]
      <4>1. y = op.dst /\ p \in P_op /\ p \in blk.resident[x] BY <2>1, <3>4
      <4>2. p \in migrated BY <1>3, <1>5, <1>11, <3>4, <4>1
      <4> QED BY <2>1, <4>2
    <3> QED BY <3>1, <3>2, <3>3, <3>4
  <2>3. \A g \in mode.gpus : blk'.evicted[g] \cap blk'.resident[g] = {}
    <3> SUFFICES ASSUME NEW g \in mode.gpus, NEW p, p \in blk'.evicted[g], p \in blk'.resident[g] PROVE FALSE
      OBVIOUS
    <3>4. p \in blk.evicted[g] BY <2>1
    <3>1. p \in blk.evicted[g] /\ p \notin blk.resident[g] /\ p \in Pages BY <1>12, <3>4
    <3>2. g = op.dst /\ p \in P_op /\ p \notin migrated BY <1>6, <2>1, <3>1
    <3>3. ResidentProcs(p) = {} BY <1>5, <3>1, <3>2
    <3> QED BY <1>12, <1>11, <3>1, <3>3
  <2>4. \A g \in mode.gpus : \A p \in blk'.evicted[g] : \E x \in Procs : p \in blk'.resident[x]
    <3>1. \A g \in mode.gpus : blk'.evicted[g] \subseteq blk.evicted[g] BY <2>1
    <3>2. \A x \in Procs : blk.resident[x] \subseteq blk'.resident[x] BY <2>1
    <3> QED BY <1>12, <3>1, <3>2
  <2>5. Placed' BY <1>2, <1>9, <2>2, <2>3, <2>4 DEF Placed, ResidentProcs
  <2>6. \A x \in Procs : blk.resident[x] \subseteq blk'.resident[x] BY <2>1
  <2>7. LocalMode(mode) => \A g \in mode.gpus, p \in Pages : blk.prot[g][p] > 0 => p \in blk'.resident[g]
    BY <1>6, <2>6 DEF TrackInv, MapsOwn
  <2>8. op.kind = "unregister" => blk'.resident[op.who] = {} BY <1>3, <1>13
  <2> QED BY <2>5, <2>7, <2>8
<1>14. ASSUME ~op.dup PROVE G
  <2>1. /\ blk'.readdup = blk.readdup \ P_op
        /\ \A x \in Procs : blk'.resident[x] = IF x = op.dst THEN blk.resident[x] \cup P_op
                                             ELSE blk.resident[x] \ P_op
        /\ \A g \in mode.gpus :
             blk'.evicted[g] = IF op.kind = "evict" THEN IF g \in sources THEN blk.evicted[g] \cup migrated ELSE blk.evicted[g]
                               ELSE IF g = op.dst THEN blk.evicted[g] \ migrated ELSE blk.evicted[g]
    BY <1>14, <1>16 DEF Moved
  <2>2. \A x, y \in Procs : x # y => blk'.resident[x] \cap blk'.resident[y] \subseteq blk'.readdup
    <3> SUFFICES ASSUME NEW x \in Procs, NEW y \in Procs, x # y, NEW p, p \in blk'.resident[x], p \in blk'.resident[y]
                 PROVE  p \in blk'.readdup
      OBVIOUS
    <3>1. p \notin P_op BY <2>1
    <3>2. p \in blk.resident[x] /\ p \in blk.resident[y] BY <2>1, <3>1
    <3>3. p \in blk.readdup BY <1>12, <3>2
    <3> QED BY <2>1, <3>1, <3>3
  <2>3. \A g \in mode.gpus : blk'.evicted[g] \cap blk'.resident[g] = {}
    <3> SUFFICES ASSUME NEW g \in mode.gpus, NEW p, p \in blk'.evicted[g], p \in blk'.resident[g] PROVE FALSE
      OBVIOUS
    <3>0. g \in Procs BY <1>6
    <3>1. CASE p \in migrated
      <4>1. p \in P_op BY <1>5, <3>1
      <4>2. g = op.dst BY <2>1, <3>0, <4>1
      <4>3. op.kind # "evict" BY <1>3, <1>6, <4>2
      <4> QED BY <2>1, <3>1, <4>2, <4>3
    <3>2. CASE p \notin migrated
      <4>1. p \in blk.evicted[g] BY <2>1, <3>2
      <4>2. p \notin blk.resident[g] /\ p \in Pages BY <1>12, <4>1
      <4>3. g = op.dst /\ p \in P_op BY <2>1, <3>0, <4>2
      <4>4. ResidentProcs(p) = {} BY <1>5, <3>2, <4>2, <4>3
      <4> QED BY <1>12, <1>11, <4>1, <4>2, <4>4
    <3> QED BY <3>1, <3>2
  <2>4. \A g \in mode.gpus : \A p \in blk'.evicted[g] : \E x \in Procs : p \in blk'.resident[x]
    <3> SUFFICES ASSUME NEW g \in mode.gpus, NEW p, p \in blk'.evicted[g]
                 PROVE  \E x \in Procs : p \in blk'.resident[x]
      OBVIOUS
    <3>1. CASE p \in P_op BY <1>3, <2>1, <3>1
    <3>2. CASE p \notin P_op
      <4>1. p \in blk.evicted[g] BY <1>5, <2>1, <3>2
      <4>2. PICK x \in Procs : p \in blk.resident[x] BY <1>12, <4>1
      <4>3. p \in blk'.resident[x] BY <2>1, <3>2, <4>2
      <4> QED BY <4>3
    <3> QED BY <3>1, <3>2
  <2>5. Placed' BY <1>2, <1>9, <2>2, <2>3, <2>4 DEF Placed, ResidentProcs
  <2>6. LocalMode(mode) => \A g \in mode.gpus, p \in P_op : g # op.dst => blk.prot[g][p] = 0
    BY <1>2, <1>14 DEF TrackInv, MapsOwn, P_op
  <2>7. LocalMode(mode) => \A g \in mode.gpus, p \in Pages : blk.prot[g][p] > 0 => p \in blk'.resident[g]
    <3>1. LocalMode(mode) => \A g \in mode.gpus, p \in Pages : blk.prot[g][p] > 0 => p \in blk.resident[g]
      BY DEF TrackInv, MapsOwn
    <3>2. \A g \in mode.gpus, p \in Pages : p \in blk.resident[g] /\ ~(g # op.dst /\ p \in P_op) => p \in blk'.resident[g]
      BY <1>6, <2>1
    <3>3. ~(0 > 0) OBVIOUS
    <3> QED BY <2>6, <3>1, <3>2, <3>3
  <2>8. op.kind = "unregister" => blk'.resident[op.who] = {}
    <3> SUFFICES ASSUME op.kind = "unregister" PROVE blk'.resident[op.who] = {} OBVIOUS
    <3>1. op.who \in mode.gpus BY <1>2 DEF TrackInv, OpOK
    <3>2. op.who \in Procs /\ op.who # op.dst BY <1>3, <1>6, <3>1
    <3> QED BY <1>3, <2>1, <3>2
  <2> QED BY <2>5, <2>7, <2>8
<1>15. G BY <1>13, <1>14
<1>17. After(op.kind) \in {"revoke", "free", "write", "destroy"}
       /\ (After(op.kind) = "free" => op.kind = "evict")
       /\ (After(op.kind) = "destroy" => op.kind = "unregister")
  BY <1>3 DEF After
<1>18. /\ op' = [pc |-> op'.pc, kind |-> op'.kind, who |-> op'.who, acc |-> op'.acc, dst |-> op'.dst,
                 dup |-> op'.dup, moved |-> op'.moved, np |-> op'.np, wait |-> op'.wait]
       /\ op'.pc = After(op.kind) /\ op'.kind = op.kind /\ op'.who = op.who /\ op'.acc = op.acc
  BY <1>2 DEF TrackInv, OpOK
<1>19. OpOK'
  <2>1. /\ op.kind \in {"evict", "unregister", "remove"} => op.who \in mode.gpus
        /\ op.who \in Procs /\ (op.kind = "unregister" => att[op.who] = "off")
    BY <1>2 DEF TrackInv, OpOK
  <2>2. DOMAIN op'.acc \subseteq Pages' BY <1>3, <1>9, <1>18 DEF P_op
  <2> QED BY <1>2, <1>9, <1>15, <1>17, <1>18, <2>1, <2>2 DEF OpOK
<1>20. Detached' BY <1>2, <1>8, <1>9 DEF TrackInv, Detached
<1>21. LocalMode(mode) => MapsOwn' /\ Clean'
  BY <1>2, <1>8, <1>9, <1>15, <1>17, <1>18 DEF TrackInv, MapsOwn, Clean
<1> QED BY <1>1, <1>2, <1>8, <1>9, <1>10, <1>15, <1>19, <1>20, <1>21 DEF TrackInv

(* block_destroy_gpu_state: nothing is resident on the GPU any more.        *)
LEMMA DestroyStep ==
  ASSUME TrackInv, DestroyGpuState PROVE TrackInv'
<1> DEFINE who == op.who
           D == {p \in Pages : \E x, y \in Procs \ {who} : x # y /\ p \in blk.resident[x] \cap blk.resident[y]}
           R == [blk.resident EXCEPT ![who] = {}]
           E == [blk.evicted EXCEPT ![who] = {}]
           S == IF who \in blk.chunk THEN {[k |-> "free", at |-> who]} ELSE {}
<1>1. HwOK(hw) /\ InStep(hw, blk.prot) /\ mode \in Modes /\ BlkOK BY DEF TrackInv
<1>2. /\ mode' = mode /\ att' = att /\ peers' = peers /\ missed' = missed /\ op.pc = "destroy" /\ op' = [op EXCEPT !.pc = "wait"]
      /\ blk' = [blk EXCEPT !.resident = R, !.readdup = D, !.chunk = blk.chunk \ {who}, !.evicted = E]
      /\ hw' = Push(hw, S)
  BY DEF DestroyGpuState
<1>3. op.kind = "unregister" /\ who \in mode.gpus /\ blk.resident[who] = {} /\ att[who] = "off"
  BY <1>2 DEF TrackInv, OpOK
<1>4. mode.gpus \subseteq Procs BY <1>1, ProcFacts
<1>5. blk.resident \in [Procs -> SUBSET Pages] /\ blk.evicted \in [mode.gpus -> SUBSET Pages]
  BY <1>1 DEF BlkOK, Blocks
<1>6. R = blk.resident BY <1>3, <1>4, <1>5
<1>7. E \in [mode.gpus -> SUBSET Pages] /\ \A g \in mode.gpus : E[g] \subseteq blk.evicted[g] BY <1>5
<1>8. D \subseteq Pages OBVIOUS
<1>9. \A x, y \in Procs : x # y => blk.resident[x] \cap blk.resident[y] \subseteq D
  <2> SUFFICES ASSUME NEW x \in Procs, NEW y \in Procs, x # y, NEW p, p \in blk.resident[x], p \in blk.resident[y]
               PROVE  p \in D
    OBVIOUS
  <2>1. x # who /\ y # who /\ p \in Pages BY <1>3, <1>5
  <2> QED BY <2>1
<1>10. HwOK(hw') /\ InStep(hw', blk.prot)
  <2>1. \A w \in S : PushOK(w) /\ w.k # "pte" BY DEF PushOK
  <2> HIDE DEF S
  <2> QED BY <1>1, <1>2, <2>1, PushPlain
<1> HIDE DEF D, R, E
<1>11. /\ blk' \in Blocks /\ blk'.prot = blk.prot /\ blk'.resident = blk.resident /\ blk'.readdup = D
       /\ blk'.evicted = E /\ blk'.tracking = blk.tracking /\ blk'.dirty = blk.dirty
  <2>1. blk' \in Blocks BY <1>1, <1>2, <1>5, <1>6, <1>7, <1>8 DEF BlkOK, Blocks
  <2> QED BY <2>1, <1>1, <1>2, <1>6 DEF BlkOK, Blocks
<1>12. HwOK(hw)' /\ InStep(hw, blk.prot)' /\ Procs' = Procs /\ Pages' = Pages BY <1>2, <1>10, <1>11, HwPrime
<1>13. BlkOK' BY <1>1, <1>2, <1>11, <1>12 DEF BlkOK, Blocks
<1>14. /\ op' = [pc |-> op'.pc, kind |-> op'.kind, who |-> op'.who, acc |-> op'.acc, dst |-> op'.dst,
                 dup |-> op'.dup, moved |-> op'.moved, np |-> op'.np, wait |-> op'.wait]
       /\ op'.pc = "wait" /\ op'.kind = "unregister" /\ op'.who = who
  BY <1>2, <1>3 DEF TrackInv, OpOK
<1>15. OpOK' BY <1>2, <1>3, <1>14 DEF OpOK
<1>16. Detached' BY <1>2, <1>11, <1>12 DEF TrackInv, Detached
<1>17. Placed'
  <2>1. \A g \in mode.gpus : /\ blk.evicted[g] \cap blk.resident[g] = {}
                             /\ \A p \in blk.evicted[g] : \E x \in Procs : p \in blk.resident[x]
    BY DEF TrackInv, Placed, ResidentProcs
  <2>2. \A g \in mode.gpus : /\ E[g] \cap blk.resident[g] = {}
                             /\ \A p \in E[g] : \E x \in Procs : p \in blk.resident[x]
    BY <1>7, <2>1
  <2> QED BY <1>2, <1>9, <1>11, <1>12, <2>2 DEF Placed, ResidentProcs
<1>18. LocalMode(mode) => MapsOwn' /\ Clean' BY <1>2, <1>11, <1>12, <1>14 DEF TrackInv, MapsOwn, Clean
<1> QED BY <1>1, <1>2, <1>11, <1>12, <1>13, <1>15, <1>16, <1>17, <1>18 DEF TrackInv

(* The tracker is done: the GPU leaves, or the block is killed.             *)
LEMMA WaitedStep ==
  ASSUME TrackInv, Waited PROVE TrackInv'
<1>1. HwOK(hw) /\ InStep(hw, blk.prot) /\ mode \in Modes /\ BlkOK BY DEF TrackInv
<1>2. /\ mode' = mode /\ missed' = missed /\ op.pc = "wait" /\ op' = Idle /\ peers' = (peers /\ op.kind # "disable_peer")
      /\ att' = CASE op.kind = "remove"     -> [att EXCEPT ![op.who] = "off"]
                  [] op.kind = "unregister" -> [att EXCEPT ![op.who] = "gone"]
                  [] OTHER                  -> att
  BY DEF Waited
<1>3. /\ op.kind \in {"remove", "unregister"} => op.who \in mode.gpus /\ \A p \in Pages : blk.prot[op.who][p] = 0
      /\ op.kind = "kill" => \A x \in Procs, p \in Pages : blk.prot[x][p] = 0
  <2>1. op.kind \in {"remove", "unregister"} => op.who \in mode.gpus BY <1>2 DEF TrackInv, OpOK
  <2>2. op.kind = "remove" => \A p \in Pages : blk.prot[op.who][p] = 0 BY <1>2 DEF TrackInv, OpOK
  <2>3. op.kind = "unregister" => att[op.who] = "off" BY <1>2 DEF TrackInv, OpOK
  <2>4. op.kind = "unregister" => \A p \in Pages : blk.prot[op.who][p] = 0 BY <2>1, <2>3 DEF TrackInv, Detached
  <2>5. op.kind = "kill" => \A x \in Procs, p \in Pages : blk.prot[x][p] = 0 BY <1>2 DEF TrackInv, OpOK
  <2> QED BY <2>1, <2>2, <2>4, <2>5
<1>4. att' \in [mode.gpus -> {"on", "off", "gone"}]
      /\ \A g \in mode.gpus : att'[g] # "on" => att[g] # "on" \/ \A p \in Pages : blk.prot[g][p] = 0
  <2>1. att \in [mode.gpus -> {"on", "off", "gone"}] BY <1>1 DEF BlkOK
  <2>2. CASE op.kind = "remove" BY <1>2, <1>3, <2>1, <2>2
  <2>3. CASE op.kind = "unregister" BY <1>2, <1>3, <2>1, <2>3
  <2>4. CASE op.kind \notin {"remove", "unregister"} BY <1>2, <2>1, <2>4
  <2> QED BY <2>2, <2>3, <2>4
<1>5. peers' \in BOOLEAN /\ (peers' => mode.peer # "none") BY <1>1, <1>2 DEF BlkOK
<1>6. op'.pc = "idle" /\ OpOK' BY <1>2 DEF OpOK, Idle
<1>7. Procs' = Procs /\ Pages' = Pages BY <1>2 DEF Procs, Pages
<1>8. CASE op.kind # "kill"
  <2>1. blk' = blk /\ hw' = hw BY <1>8 DEF Waited
  <2>2. HwOK(hw)' /\ InStep(hw, blk.prot)' BY <1>1, <1>2, <2>1, HwPrime
  <2>3. BlkOK' BY <1>1, <1>2, <1>4, <1>5, <1>7, <2>1 DEF BlkOK, Blocks
  <2>4. Detached' BY <1>2, <1>4, <1>7, <2>1 DEF TrackInv, Detached
  <2>5. Placed' BY <1>2, <1>7, <2>1 DEF TrackInv, Placed, ResidentProcs
  <2>6. LocalMode(mode) => MapsOwn' /\ Clean' BY <1>2, <1>6, <1>7, <2>1 DEF TrackInv, MapsOwn, Clean
  <2> QED BY <1>1, <1>2, <1>6, <2>1, <2>2, <2>3, <2>4, <2>5, <2>6 DEF TrackInv
<1>9. CASE op.kind = "kill"
  <2> DEFINE R == [x \in Procs |-> {}]
             E == [g \in mode.gpus |-> {}]
  <2>1. blk' = [blk EXCEPT !.dead = TRUE, !.chunk = {}, !.alloc = {}, !.readdup = {}, !.resident = R, !.evicted = E]
    BY <1>9 DEF Waited
  <2>2. R \in [Procs -> SUBSET Pages] /\ E \in [mode.gpus -> SUBSET Pages]
        /\ (\A x \in Procs : R[x] = {}) /\ (\A g \in mode.gpus : E[g] = {})
    OBVIOUS
  <2>3. PICK c : hw' = [hw EXCEPT !.cur = c] BY <1>9 DEF Waited
  <2> HIDE DEF R, E
  <2>4. /\ blk' \in Blocks /\ blk'.prot = blk.prot /\ blk'.resident = R
        /\ blk'.evicted = E /\ blk'.tracking = blk.tracking /\ blk'.dirty = blk.dirty
    BY <1>1, <2>1, <2>2 DEF BlkOK, Blocks
  <2>5. HwOK(hw') /\ InStep(hw', blk.prot) BY <1>1, <2>3, CurPlain
  <2>6. HwOK(hw)' /\ InStep(hw, blk.prot)' BY <1>2, <2>4, <2>5, HwPrime
  <2>7. BlkOK' BY <1>2, <1>4, <1>5, <1>7, <2>4 DEF BlkOK, Blocks
  <2>8. Detached' BY <1>2, <1>4, <1>7, <2>4 DEF TrackInv, Detached
  <2>9. Placed' BY <1>2, <1>7, <2>2, <2>4 DEF Placed, ResidentProcs
  <2>10. \A g \in mode.gpus, p \in Pages : blk'.prot[g][p] = 0 BY <1>1, <1>3, <1>9, <2>4, ProcFacts
  <2>11. LocalMode(mode) => MapsOwn' /\ Clean' BY <1>2, <1>6, <1>7, <2>10 DEF MapsOwn, Clean
  <2> QED BY <1>1, <1>2, <1>6, <2>4, <2>6, <2>7, <2>8, <2>9, <2>11 DEF TrackInv
<1> QED BY <1>8, <1>9

(* What the others lose to a fault.                                         *)
LEMMA RevocationLowers ==
  ASSUME TrackInv, op.who \in Procs, P_op \subseteq Pages, NEW np
  PROVE  Lowers(Revocation(np))
<1> DEFINE stay(n) == {p \in P_op \ op.moved : np[p] = n}
           native == op.who \in Native(op.dst)
           loses(y, n) == y # op.who /\ (n = 2 \/ native => y \notin Native(op.dst))
           level(n) == IF op.who = "cpu" \/ n = 2 THEN 3 ELSE 2
           dom(y) == UNION {DOMAIN Revoking(y, stay(n), level(n)) : n \in {n \in {2, 3} : loses(y, n)}}
           V == [y \in Procs |-> [p \in dom(y) |-> Revoking(y, {p}, level(np[p]))[p]]]
<1>1. Revocation(np) = V BY DEF Revocation
<1>2. SUFFICES ASSUME NEW y \in Procs, NEW p \in DOMAIN V[y]
      PROVE  V[y][p].prot \in 0..2 /\ V[y][p].prot < blk.prot[y][p]
  BY <1>1 DEF Lowers
<1>3. p \in dom(y) /\ V[y][p] = Revoking(y, {p}, level(np[p]))[p] OBVIOUS
<1>4. PICK n \in {2, 3} : p \in DOMAIN Revoking(y, stay(n), level(n)) BY <1>3
<1>5. level(n) \in {2, 3} OBVIOUS
<1> HIDE DEF V, dom
<1>6. PICK l \in {2, 3} : l = level(n) BY <1>5
<1>7. p \in stay(n) /\ blk.prot[y][p] >= l /\ ~(y = "cpu" /\ l = 3)
  <2>1. PICK Q : Q = stay(n) OBVIOUS
  <2>2. p \in DOMAIN Revoking(y, Q, l) BY <1>4, <1>6, <2>1
  <2> QED BY <2>1, <2>2, RevokingFacts
<1>8. np[p] = n /\ p \in Pages BY <1>7
<1>9. V[y][p] = Revoking(y, {p}, l)[p] BY <1>3, <1>6, <1>8
<1> HIDE DEF stay, level
<1>10. p \in DOMAIN Revoking(y, {p}, l) BY <1>7 DEF Revoking
<1>11. Revoking(y, {p}, l)[p].prot = l - 1 BY <1>10, RevokingFacts
<1>12. blk.prot[y][p] \in 0..3 BY <1>8 DEF TrackInv, BlkOK, Blocks
<1> QED BY <1>7, <1>9, <1>11, <1>12

(* The permissions of a fault: who loses, and the dirty mark.               *)
LEMMA RevokeStep ==
  ASSUME TrackInv, Revoke PROVE TrackInv'
<1>1. mode' = mode /\ att' = att /\ peers' = peers /\ missed' = missed /\ op.pc = "revoke" BY DEF Revoke
<1>2. PICK np : LET R == Revocation(np) IN
        /\ blk' = [Bits(blk, R) EXCEPT !.dirty = @ \/ Records(np)]
        /\ hw' = Ptes(hw, R)
        /\ op' = [op EXCEPT !.pc = "map", !.np = np]
  BY DEF Revoke
<1>3. PICK R : R = Revocation(np) OBVIOUS
<1>4. PICK d \in BOOLEAN : d = (blk.dirty \/ Records(np)) OBVIOUS
<1>5. op.who \in Procs /\ P_op \subseteq Pages BY <1>1 DEF TrackInv, OpOK, P_op
<1>6. Lowers(R) BY <1>3, <1>5, RevocationLowers
<1>7. blk.tracking \in BOOLEAN /\ blk.dirty \in BOOLEAN BY DEF TrackInv, BlkOK, Blocks
<1>8. blk' = [Bits(blk, R) EXCEPT !.tracking = blk.tracking, !.dirty = d]
  <2>1. PICK P, m : Bits(blk, R) = [blk EXCEPT !.prot = P, !.maybe = m] BY DEF Bits
  <2>2. Bits(blk, R).dirty = blk.dirty /\ Bits(blk, R).tracking = blk.tracking
    BY <2>1 DEF TrackInv, BlkOK, Blocks
  <2>3. blk' = [Bits(blk, R) EXCEPT !.dirty = d] BY <1>2, <1>3, <1>4, <2>2
  <2> QED BY <2>1, <2>3 DEF TrackInv, BlkOK, Blocks
<1>9. /\ Changed(R, blk.tracking, d) /\ Detached'
      /\ LocalMode(mode) => \A g \in mode.gpus, p \in Pages : blk'.prot[g][p] > 0 => p \in blk'.resident[g]
      /\ LocalMode(mode) /\ blk.tracking /\ ~blk.dirty =>
           \A g \in mode.gpus \ missed, p \in Pages : blk'.prot[g][p] <= 1
  <2>1. hw' = Ptes(hw, R) BY <1>2, <1>3
  <2> QED BY <1>1, <1>6, <1>7, <1>8, <2>1, LowerStep
<1>10. /\ op' = [pc |-> op'.pc, kind |-> op'.kind, who |-> op'.who, acc |-> op'.acc, dst |-> op'.dst,
                 dup |-> op'.dup, moved |-> op'.moved, np |-> op'.np, wait |-> op'.wait]
       /\ op'.pc = "map" /\ op'.kind = op.kind /\ op'.who = op.who /\ op'.np = np
  BY <1>2 DEF TrackInv, OpOK
<1>11. OpOK' BY <1>1, <1>5, <1>9, <1>10 DEF TrackInv, OpOK, Changed
<1>12. blk.tracking /\ ~d /\ op.who # "cpu" => \A p \in DOMAIN np : np[p] \notin {2, 3}
  <2> SUFFICES ASSUME blk.tracking, ~d, op.who # "cpu", NEW p \in DOMAIN np, np[p] \in {2, 3} PROVE FALSE
    OBVIOUS
  <2>1. ~Records(np) BY <1>4
  <2>2. np[p] >= 2 OBVIOUS
  <2> QED BY <2>1, <2>2 DEF Records
<1>13. ~d => ~blk.dirty BY <1>4
<1>14. LocalMode(mode) => MapsOwn' BY <1>9, <1>10 DEF MapsOwn, Changed
<1>15. LocalMode(mode) => Clean' BY <1>1, <1>9, <1>10, <1>12, <1>13 DEF Clean, Changed
<1> QED BY <1>1, <1>9, <1>11, <1>14, <1>15 DEF TrackInv, Changed

(* A change that gives the processors what they may have.                   *)
LEMMA MapStep ==
  ASSUME TrackInv, mode' = mode, att' = att, peers' = peers, missed' = missed, NEW R, blk' = Bits(blk, R), hw' = Ptes(hw, R),
         \A x \in Procs : \A p \in DOMAIN R[x] : R[x][p].prot \in 1..3,
         \A g \in mode.gpus : \A p \in DOMAIN R[g] : att[g] = "on",
         LocalMode(mode) => \A g \in mode.gpus : \A p \in DOMAIN R[g] : p \in blk.resident[g],
         LocalMode(mode) /\ blk.tracking /\ ~blk.dirty =>
           \A g \in mode.gpus : \A p \in DOMAIN R[g] : R[g][p].prot = 1,
         OpOK', op'.pc \notin {"populate", "copy", "map"}
  PROVE  TrackInv'
<1>1. \A x \in Procs : \A p \in DOMAIN R[x] : R[x][p].prot \in 0..3 OBVIOUS
<1>2. /\ blk' = [Bits(blk, R) EXCEPT !.tracking = blk.tracking, !.dirty = blk.dirty]
      /\ blk.tracking \in BOOLEAN /\ blk.dirty \in BOOLEAN
  BY <1>1, FlagsSame
<1>3. Changed(R, blk.tracking, blk.dirty) BY <1>1, <1>2, ChangeStep
<1>4. mode.gpus \subseteq Procs BY ProcFacts DEF TrackInv
<1>5. \A g \in mode.gpus, p \in Pages :
        /\ blk'.prot[g][p] = IF p \in DOMAIN R[g] THEN R[g][p].prot ELSE blk.prot[g][p]
        /\ blk'.prot[g][p] \in 0..3
  BY <1>3, <1>4 DEF Changed
<1>6. Detached' BY <1>3, <1>5 DEF TrackInv, Detached, Changed
<1>7. LocalMode(mode) => MapsOwn' BY <1>3, <1>5 DEF TrackInv, MapsOwn, Changed
<1>8. LocalMode(mode) => Clean' BY <1>3, <1>5 DEF TrackInv, Clean, Changed
<1> QED BY <1>3, <1>6, <1>7, <1>8 DEF TrackInv, Changed

(* The faulting processor is mapped.                                        *)
LEMMA MapActionStep ==
  ASSUME TrackInv, Map PROVE TrackInv'
<1> DEFINE r == Or(Mapping(op.who, PagesWith(1), 1),
                   Or(Mapping(op.who, PagesWith(2), 2), Mapping(op.who, PagesWith(3), 3)))
           R == [NoChange EXCEPT ![op.who] = r]
<1>1. /\ mode' = mode /\ att' = att /\ peers' = peers /\ missed' = missed /\ op.pc = "map" /\ blk' = Bits(blk, R) /\ hw' = Ptes(hw, R)
      /\ op' = IF Followers = {} THEN Idle ELSE [op EXCEPT !.pc = "others"]
  BY DEF Map
<1>2. op.who \in Procs /\ mode \in Modes /\ BlkOK BY <1>1 DEF TrackInv, OpOK
<1>3. \A x \in Procs : R[x] = IF x = op.who THEN r ELSE <<>> BY <1>2 DEF NoChange
<1>4. ASSUME NEW p \in DOMAIN r
      PROVE  /\ r[p].prot \in 1..3
             /\ op.who # "cpu" => att[op.who] = "on"
             /\ LocalMode(mode) => p \in blk.resident[op.who]
             /\ op.who # "cpu" => \/ r[p].prot = 1
                                  \/ p \in PagesWith(2) \cup PagesWith(3)
  <2>1. PICK f : f = r OBVIOUS
  <2>2. f = Or(Mapping(op.who, PagesWith(1), 1),
               Or(Mapping(op.who, PagesWith(2), 2), Mapping(op.who, PagesWith(3), 3)))
    BY <2>1
  <2>3. p \in DOMAIN f BY <2>1, <1>4
  <2> HIDE DEF r
  <2>4. 1 \in 1..3 /\ 2 \in 1..3 /\ 3 \in 1..3 OBVIOUS
  <2>5. /\ f[p].prot \in 1..3
        /\ op.who # "cpu" => att[op.who] = "on"
        /\ LocalMode(mode) => p \in blk.resident[op.who]
        /\ op.who # "cpu" => \/ p \in PagesWith(1) /\ f[p].prot = 1
                             \/ p \in PagesWith(2) /\ f[p].prot = 2
                             \/ p \in PagesWith(3) /\ f[p].prot = 3
    BY <1>2, <2>2, <2>3, <2>4, MapThree
  <2> QED BY <2>1, <2>5
<1>5. mode.gpus \subseteq Procs /\ "cpu" \notin mode.gpus BY <1>2, ProcFacts
<1> HIDE DEF r, R
<1>6. DOMAIN <<>> = {} OBVIOUS
<1>7. \A x \in Procs : \A p \in DOMAIN R[x] : x = op.who /\ p \in DOMAIN r /\ R[x][p] = r[p] BY <1>3, <1>6
<1>8. \A x \in Procs : \A p \in DOMAIN R[x] : R[x][p].prot \in 1..3 BY <1>4, <1>7
<1>9. \A g \in mode.gpus : \A p \in DOMAIN R[g] : att[g] = "on" BY <1>4, <1>5, <1>7
<1>10. LocalMode(mode) => \A g \in mode.gpus : \A p \in DOMAIN R[g] : p \in blk.resident[g] BY <1>4, <1>5, <1>7
<1>11. LocalMode(mode) /\ blk.tracking /\ ~blk.dirty =>
         \A g \in mode.gpus : \A p \in DOMAIN R[g] : R[g][p].prot = 1
  <2> SUFFICES ASSUME LocalMode(mode), blk.tracking, ~blk.dirty, NEW g \in mode.gpus, NEW p \in DOMAIN R[g]
               PROVE  R[g][p].prot = 1
    OBVIOUS
  <2>1. g = op.who /\ op.who # "cpu" /\ p \in DOMAIN r /\ R[g][p] = r[p] BY <1>5, <1>7
  <2>2. \A c \in DOMAIN op.np : op.np[c] \notin {2, 3} BY <1>1, <2>1 DEF TrackInv, Clean
  <2>3. p \notin PagesWith(2) \cup PagesWith(3) BY <2>2 DEF PagesWith
  <2> QED BY <1>4, <2>1, <2>3
<1>12. OpOK' /\ op'.pc \notin {"populate", "copy", "map"}
  <2>1. CASE Followers = {}
    <3>1. op' = Idle BY <1>1, <2>1
    <3> QED BY <3>1 DEF OpOK, Idle
  <2>2. CASE Followers # {}
    <3>1. op' = [op EXCEPT !.pc = "others"] BY <1>1, <2>2
    <3>2. /\ op' = [pc |-> op'.pc, kind |-> op'.kind, who |-> op'.who, acc |-> op'.acc, dst |-> op'.dst,
                    dup |-> op'.dup, moved |-> op'.moved, np |-> op'.np, wait |-> op'.wait]
          /\ op'.pc = "others" /\ op'.kind = op.kind /\ op'.who = op.who
      BY <3>1 DEF TrackInv, OpOK
    <3>3. Procs' = Procs BY <1>1 DEF Procs
    <3> QED BY <1>1, <1>2, <3>2, <3>3 DEF TrackInv, OpOK
  <2> QED BY <2>1, <2>2
<1> QED BY <1>1, <1>8, <1>9, <1>10, <1>11, <1>12, MapStep

(* The processors of accessed_by are mapped; a local mode has none.         *)
LEMMA MapFollowersStep ==
  ASSUME TrackInv, MapFollowers PROVE TrackInv'
<1> DEFINE of(y, n) == Mapping(y, (PagesWith(n) \cap P_op) \ blk.readdup, FollowerProt(y, n))
           R == [y \in Procs |-> IF y \in Followers THEN Or(of(y, 1), Or(of(y, 2), of(y, 3))) ELSE <<>>]
<1>1. /\ mode' = mode /\ att' = att /\ peers' = peers /\ missed' = missed /\ blk' = Bits(blk, R) /\ hw' = Ptes(hw, R) /\ op' = Idle
  BY DEF MapFollowers
<1>2. mode \in Modes /\ BlkOK BY DEF TrackInv
<1>3. ASSUME NEW y \in Procs, NEW p \in DOMAIN R[y]
      PROVE  /\ R[y][p].prot \in 1..3 /\ y \in Followers
             /\ y # "cpu" => att[y] = "on"
             /\ LocalMode(mode) => p \in blk.resident[y]
  <2>0. DOMAIN <<>> = {} OBVIOUS
  <2>1. y \in Followers /\ R[y] = Or(of(y, 1), Or(of(y, 2), of(y, 3))) BY <1>3, <2>0
  <2>2. PICK A, B, C : /\ A = (PagesWith(1) \cap P_op) \ blk.readdup
                       /\ B = (PagesWith(2) \cap P_op) \ blk.readdup
                       /\ C = (PagesWith(3) \cap P_op) \ blk.readdup
    OBVIOUS
  <2>3. PICK a \in 1..3, b \in 1..3, c \in 1..3 :
          a = FollowerProt(y, 1) /\ b = FollowerProt(y, 2) /\ c = FollowerProt(y, 3)
    BY DEF FollowerProt
  <2>4. PICK f : f = R[y] OBVIOUS
  <2>5. f = Or(Mapping(y, A, a), Or(Mapping(y, B, b), Mapping(y, C, c))) BY <2>1, <2>2, <2>3, <2>4
  <2>6. p \in DOMAIN f BY <1>3, <2>4
  <2> HIDE DEF R, of
  <2>7. f[p].prot \in 1..3 /\ (y # "cpu" => att[y] = "on") /\ (LocalMode(mode) => p \in blk.resident[y])
    BY <1>2, <2>5, <2>6, MapThree, SMTT(40)
  <2> QED BY <2>1, <2>4, <2>7
<1> HIDE DEF R
<1>4. mode.gpus \subseteq Procs /\ "cpu" \notin mode.gpus BY <1>2, ProcFacts
<1>5. LocalMode(mode) => Followers = {} BY DEF LocalMode, Followers
<1>6. OpOK' /\ op'.pc \notin {"populate", "copy", "map"} BY <1>1 DEF OpOK, Idle
<1>7. \A g \in mode.gpus : \A p \in DOMAIN R[g] : att[g] = "on" BY <1>3, <1>4
<1>8. LocalMode(mode) => \A g \in mode.gpus : \A p \in DOMAIN R[g] : p \in blk.resident[g] BY <1>3, <1>4
<1>9. LocalMode(mode) => \A g \in mode.gpus : \A p \in DOMAIN R[g] : R[g][p].prot = 1 BY <1>3, <1>4, <1>5
<1> QED BY <1>1, <1>3, <1>6, <1>7, <1>8, <1>9, MapStep

(* The worker of the eviction mappings: in a local mode an evicted page is  *)
(* nowhere the GPU could map it.                                            *)
LEMMA EvictionMappingsStep ==
  ASSUME TrackInv, NEW x \in Procs, EvictionMappings(x) PROVE TrackInv'
<1> DEFINE P == IF x \in mode.by THEN Pages ELSE blk.evicted[x]
           R == [NoChange EXCEPT ![x] = AddMappings(x, P)]
<1>1. /\ mode' = mode /\ att' = att /\ peers' = peers /\ missed' = missed /\ op' = op /\ blk' = Bits(blk, R) /\ hw' = Ptes(hw, R)
      /\ op.pc = "idle" /\ (x \in mode.by \/ x # "cpu")
  BY DEF EvictionMappings, Free
<1>2. mode \in Modes /\ BlkOK BY DEF TrackInv
<1>3. PICK r : r = AddMappings(x, P) OBVIOUS
<1>4. \A y \in Procs : R[y] = IF y = x THEN r ELSE <<>> BY <1>3 DEF NoChange
<1>5. ASSUME NEW p \in DOMAIN r
      PROVE  /\ r[p].prot \in 1..3 /\ p \in P
             /\ x # "cpu" => att[x] = "on"
             /\ LocalMode(mode) => p \in blk.resident[x]
  <2>1. PICK A, B, C : /\ A \subseteq P /\ B \subseteq P /\ C \subseteq P
                       /\ r = Or(Mapping(x, A, 1), Or(Mapping(x, B, 2), Mapping(x, C, 3)))
    <3>1. PICK A, B, C : /\ A = {c \in P \ blk.readdup : HighestPermission(c, x) = 1}
                         /\ B = {c \in P \ blk.readdup : HighestPermission(c, x) = 2}
                         /\ C = {c \in P \ blk.readdup : HighestPermission(c, x) = 3}
      OBVIOUS
    <3>2. A \subseteq P /\ B \subseteq P /\ C \subseteq P BY <3>1
    <3>3. r = Or(Mapping(x, A, 1), Or(Mapping(x, B, 2), Mapping(x, C, 3))) BY <1>3, <3>1 DEF AddMappings
    <3> QED BY <3>2, <3>3
  <2> HIDE DEF P
  <2>2. 1 \in 1..3 /\ 2 \in 1..3 /\ 3 \in 1..3 OBVIOUS
  <2>3. /\ r[p].prot \in 1..3 /\ p \in A \cup B \cup C
        /\ x # "cpu" => att[x] = "on"
        /\ LocalMode(mode) => p \in blk.resident[x]
    BY <1>2, <1>5, <2>1, <2>2, MapThree
  <2> QED BY <2>1, <2>3
<1> HIDE DEF R
<1>6. DOMAIN <<>> = {} OBVIOUS
<1>7. \A y \in Procs : \A p \in DOMAIN R[y] : y = x /\ p \in DOMAIN r /\ R[y][p] = r[p] BY <1>4, <1>6
<1>8. mode.gpus \subseteq Procs /\ "cpu" \notin mode.gpus /\ Procs = {"cpu"} \cup mode.gpus BY <1>2, ProcFacts
<1>9. \A y \in Procs : \A p \in DOMAIN R[y] : R[y][p].prot \in 1..3 BY <1>5, <1>7
<1>10. \A g \in mode.gpus : \A p \in DOMAIN R[g] : att[g] = "on" BY <1>5, <1>7, <1>8
<1>11. LocalMode(mode) => \A g \in mode.gpus : \A p \in DOMAIN R[g] : FALSE
  <2> SUFFICES ASSUME LocalMode(mode), NEW g \in mode.gpus, NEW p \in DOMAIN R[g] PROVE FALSE
    OBVIOUS
  <2>1. x \notin mode.by /\ x \in mode.gpus BY <1>1, <1>8 DEF LocalMode
  <2>2. p \in DOMAIN r BY <1>7, <1>8
  <2>3. p \in blk.evicted[x] /\ p \in blk.resident[x] BY <1>5, <2>1, <2>2
  <2> QED BY <2>1, <2>3 DEF TrackInv, Placed
<1>12. OpOK' /\ op'.pc \notin {"populate", "copy", "map"} BY <1>1 DEF TrackInv, OpOK
<1> QED BY <1>1, <1>9, <1>10, <1>11, <1>12, MapStep

(* PREPARE_ALL: what a GPU maps is its own, so a GPU that is passed over    *)
(* because nothing is resident there maps nothing.                          *)
LEMMA PrepareStep ==
  ASSUME TrackInv, Prepare PROVE TrackInv'
<1>0. PICK late \in SUBSET {g \in mode.gpus : blk.resident[g] # {}} :
        LET R == [x \in Procs |-> IF blk.resident[x] = {} \/ x \in late THEN <<>>
                                  ELSE IF x = "cpu" THEN [p \in {p \in Pages : blk.prot[x][p] > 1} |-> NoPte]
                                  ELSE Revoking(x, Pages, 2)]
        IN  /\ Free /\ mode.track /\ blk' = [Bits(blk, R) EXCEPT !.tracking = TRUE, !.dirty = FALSE]
            /\ hw' = Ptes(hw, R) /\ missed' = late /\ UNCHANGED <<mode, att, peers, op>>
  BY DEF Prepare
<1> DEFINE R == [x \in Procs |-> IF blk.resident[x] = {} \/ x \in late THEN <<>>
                                 ELSE IF x = "cpu" THEN [p \in {p \in Pages : blk.prot[x][p] > 1} |-> NoPte]
                                 ELSE Revoking(x, Pages, 2)]
<1>1. /\ mode' = mode /\ att' = att /\ peers' = peers /\ missed' = late /\ op' = op /\ op.pc = "idle" /\ mode.track
      /\ blk' = [Bits(blk, R) EXCEPT !.tracking = TRUE, !.dirty = FALSE] /\ hw' = Ptes(hw, R)
  BY <1>0 DEF Free
<1>2. mode \in Modes /\ BlkOK BY DEF TrackInv
<1>3. mode.gpus \subseteq Procs /\ "cpu" \notin mode.gpus BY <1>2, ProcFacts
<1>4. DOMAIN <<>> = {} OBVIOUS
<1>5. \A x \in Procs, p \in Pages : blk.prot[x][p] \in 0..3 BY <1>2 DEF BlkOK, Blocks
<1>6. \A g \in mode.gpus : R[g] = IF blk.resident[g] = {} \/ g \in late THEN <<>> ELSE Revoking(g, Pages, 2) BY <1>3
<1>7. Lowers(R)
  <2> SUFFICES ASSUME NEW x \in Procs, NEW p \in DOMAIN R[x]
               PROVE  R[x][p].prot \in 0..2 /\ R[x][p].prot < blk.prot[x][p]
    BY DEF Lowers
  <2>1. blk.resident[x] # {} /\ x \notin late BY <1>4
  <2>2. CASE x = "cpu"
    <3>1. R[x] = [c \in {c \in Pages : blk.prot[x][c] > 1} |-> NoPte] BY <2>1, <2>2
    <3>2. p \in Pages /\ blk.prot[x][p] > 1 /\ R[x][p] = NoPte BY <3>1
    <3>3. R[x][p].prot = 0 BY <3>2 DEF NoPte
    <3> QED BY <1>5, <3>2, <3>3
  <2>3. CASE x # "cpu"
    <3>1. R[x] = Revoking(x, Pages, 2) BY <2>1, <2>3
    <3>2. p \in Pages /\ blk.prot[x][p] >= 2 /\ R[x][p].prot = 2 - 1 BY <3>1, RevokingFacts
    <3> QED BY <1>5, <3>2
  <2> QED BY <2>2, <2>3
<1> HIDE DEF R
<1>8. /\ Changed(R, TRUE, FALSE) /\ Detached'
      /\ LocalMode(mode) => \A g \in mode.gpus, p \in Pages : blk'.prot[g][p] > 0 => p \in blk'.resident[g]
  <2>1. TRUE \in BOOLEAN /\ FALSE \in BOOLEAN OBVIOUS
  <2> QED BY <1>1, <1>7, <2>1, LowerStep
<1>9. LocalMode(mode) => \A g \in mode.gpus \ late, p \in Pages : blk'.prot[g][p] <= 1
  <2> SUFFICES ASSUME LocalMode(mode), NEW g \in mode.gpus \ late, NEW p \in Pages PROVE blk'.prot[g][p] <= 1
    OBVIOUS
  <2>1. /\ blk'.prot[g][p] = IF p \in DOMAIN R[g] THEN R[g][p].prot ELSE blk.prot[g][p]
        /\ blk'.prot[g][p] \in 0..3 /\ blk.prot[g][p] \in 0..3
    BY <1>3, <1>8 DEF Changed
  <2>2. CASE blk.resident[g] = {}
    <3>1. ~(blk.prot[g][p] > 0) BY <2>2 DEF TrackInv, MapsOwn
    <3>2. p \notin DOMAIN R[g] BY <1>4, <1>6, <2>2
    <3> QED BY <2>1, <3>1, <3>2
  <2>3. CASE blk.resident[g] # {}
    <3>1. R[g] = Revoking(g, Pages, 2) BY <1>6, <2>3
    <3>2. p \in DOMAIN R[g] => R[g][p].prot = 2 - 1 BY <3>1, RevokingFacts
    <3>3. p \notin DOMAIN R[g] => ~(blk.prot[g][p] >= 2) BY <1>3, <3>1 DEF Revoking
    <3> QED BY <2>1, <3>2, <3>3
  <2> QED BY <2>2, <2>3
<1>10. OpOK' BY <1>1 DEF TrackInv, OpOK
<1>11. LocalMode(mode) => MapsOwn' /\ Clean' BY <1>1, <1>8, <1>9 DEF MapsOwn, Clean, Changed
<1> QED BY <1>1, <1>8, <1>10, <1>11 DEF TrackInv, Changed

(* A new block: nothing is resident or mapped.                              *)
LEMMA InitTrack ==
  ASSUME Init PROVE TrackInv
<1>1. mode \in Modes BY DEF Init
<1>2. mode.gpus \subseteq Procs BY <1>1, ProcFacts
<1>3. op = Idle /\ op.pc = "idle" BY DEF Init, Idle
<1>4. OpOK BY <1>3 DEF OpOK, Idle
<1>5. /\ blk \in Blocks /\ (\A x \in Procs : blk.resident[x] = {}) /\ (\A g \in mode.gpus : blk.evicted[g] = {})
      /\ (\A x \in Procs, p \in Pages : blk.prot[x][p] = 0) /\ blk.tracking = FALSE
  BY DEF Init, Blocks
<1>6. att \in [mode.gpus -> {"on", "off", "gone"}] /\ peers \in BOOLEAN /\ (peers => mode.peer # "none")
  BY DEF Init
<1>7. /\ hw = [cur |-> hw.cur, pte |-> hw.pte, q |-> hw.q] /\ hw.q = <<>> /\ hw.pte = [x \in Procs |-> hw.pte[x]]
      /\ \A x \in Procs, p \in Pages : hw.pte[x][p].prot = 0
  BY DEF Init, NoPte
<1>8. IsSeq(hw.q) /\ DOMAIN hw.q = {}
  <2>1. <<>> \in Seq({}) /\ DOMAIN <<>> = {} OBVIOUS
  <2>2. PICK q : q = <<>> OBVIOUS
  <2>3. IsSeq(q) BY <2>1, <2>2, SeqSelf
  <2> QED BY <1>7, <2>1, <2>2, <2>3
<1>9. HwOK(hw) BY <1>7, <1>8 DEF HwOK
<1>10. InStep(hw, blk.prot) BY <1>2, <1>5, <1>7, <1>8 DEF InStep
<1>11. BlkOK BY <1>5, <1>6 DEF BlkOK
<1>12. Detached /\ Placed BY <1>2, <1>5 DEF Detached, Placed
<1>13. MapsOwn /\ Clean BY <1>2, <1>3, <1>5 DEF MapsOwn, Clean
<1> QED BY <1>1, <1>4, <1>5, <1>9, <1>10, <1>11, <1>12, <1>13 DEF TrackInv

(* Every step of the driver, of the GPUs and of the processors keeps the    *)
(* invariant.                                                              *)
LEMMA NextTrack ==
  ASSUME TrackInv, [Next]_vars PROVE TrackInv'
<1>1. CpuFault => TrackInv' BY FaultSteps
<1>2. (\E x \in Procs : EvictionMappings(x)) => TrackInv' BY EvictionMappingsStep
<1>3. Populate => TrackInv' BY PopulateStep
<1>4. Copy => TrackInv' BY CopyStep
<1>5. Abandoned \/ FreeChunk \/ HostWrite => TrackInv' BY PlainEnds
<1>6. Revoke => TrackInv' BY RevokeStep
<1>7. Map \/ MapFollowers => TrackInv' BY MapActionStep, MapFollowersStep
<1>8. (\E g \in mode.gpus : GpuFault(g) \/ EvictChunks(g) \/ RemoveGpuVaSpace(g)
                            \/ AddGpuVaSpace(g) \/ UnregisterGpu(g)) => TrackInv'
  BY FaultSteps, UnmapSteps, FlagSteps
<1>9. EvictionMappingsEnd \/ Finalize => TrackInv' BY FlagSteps
<1>10. DisablePeer \/ Kill => TrackInv' BY UnmapSteps
<1>11. DestroyGpuState => TrackInv' BY DestroyStep
<1>12. Waited => TrackInv' BY WaitedStep
<1>13. (\E p \in Pages : WriteFromCpu(p)) => TrackInv' BY FaultSteps
<1>14. Prepare => TrackInv' BY PrepareStep
<1>15. Execute \/ (\E x \in Procs, p \in Pages : Store(x, p)) \/ UNCHANGED vars => TrackInv' BY HardwareSteps
<1> QED BY <1>1, <1>2, <1>3, <1>4, <1>5, <1>6, <1>7, <1>8, <1>9, <1>10, <1>11, <1>12, <1>13, <1>14, <1>15
        DEF Next

(* In every mode of every VA space the driver's permission bits are what    *)
(* the page tables hold once the pushes have run, pages are duplicated only *)
(* where they are marked so, a detached GPU maps nothing; and in the modes  *)
(* where GPUs map no memory but their own, a tracked clean block is mapped  *)
(* read-only (uvm_va_block.c, prepare_va_space_for_migration).              *)
THEOREM TrackInvariance == Spec => []TrackInv
<1>1. Init => TrackInv BY InitTrack
<1>2. TrackInv /\ [Next]_vars => TrackInv' BY NextTrack
<1> QED BY <1>1, <1>2, PTL DEF Spec

(* What a delta checkpoint rests on, for any number of GPUs, pages and      *)
(* outstanding pushes: a GPU that writes to a tracked, clean block faults   *)
(* first, unless the last PREPARE_ALL failed to revoke that very GPU, where *)
(* tracking is used with GPUs that map no memory but their own              *)
(* (uvm_va_block_service_finish, prepare_va_space_for_migration).           *)
THEOREM TrackedIsReadOnly ==
  ASSUME \A m \in Modes : m.track => LocalMode(m)
  PROVE  Spec => []ArmedIsReadOnly
<1>1. TrackInv => ArmedIsReadOnly
  <2> SUFFICES ASSUME TrackInv, blk.tracking, ~blk.dirty, Drained, NEW g \in mode.gpus \ missed, NEW p \in Pages
               PROVE  hw.pte[g][p].prot <= 1
    BY DEF ArmedIsReadOnly
  <2>1. LocalMode(mode) BY DEF TrackInv
  <2>2. blk.prot[g][p] <= 1 BY <2>1 DEF TrackInv, Clean
  <2>3. Untouched(hw, 0, g, p)
    <3>1. DOMAIN <<>> = {} OBVIOUS
    <3> QED BY <3>1 DEF Drained, Untouched
  <2>4. hw.pte[g][p].prot = blk.prot[g][p] BY <2>3 DEF TrackInv, InStep
  <2> QED BY <2>2, <2>4
<1> QED BY <1>1, TrackInvariance, PTL

-----------------------------------------------------------------------------
(* Coherence *)

(* A stage more: the earlier ones are as they were.                         *)
Stages(h, S, k, n) ==
  /\ n \in Nat /\ Len(h.q) = n /\ DOMAIN h.q = 1..n /\ Len(k.q) = n + 1 /\ DOMAIN k.q = 1..(n + 1)
  /\ k.cur = h.cur /\ k.pte = h.pte
  /\ k.q[n + 1] = S /\ \A i \in 1..n : k.q[i] = h.q[i]

(* A push more is a stage more.                                             *)
LEMMA LongerStages ==
  ASSUME NEW h, NEW S, NEW k, Longer(h, S, k)
  PROVE  Stages(h, S, k, Len(h.q))
<1> DEFINE n == Len(h.q)
<1>1. n \in Nat /\ DOMAIN h.q = 1..n /\ DOMAIN k.q = 1..(n + 1) /\ k.cur = h.cur /\ k.pte = h.pte /\ IsSeq(k.q)
  BY DEF Longer
<1>2. Len(k.q) = n + 1
  <2>1. PICK q : q = k.q OBVIOUS
  <2>2. q \in Seq({q[i] : i \in DOMAIN q}) BY <1>1, <2>1 DEF IsSeq
  <2>3. DOMAIN q = 1..Len(q) /\ Len(q) \in Nat BY <2>2
  <2> QED BY <1>1, <2>1, <2>3
<1>3. k.q[n + 1] = S BY <1>1 DEF Longer
<1>4. \A i \in 1..n : k.q[i] = h.q[i] BY <1>1 DEF Longer
<1> QED BY <1>1, <1>2, <1>3, <1>4 DEF Stages

(* What a stage more leaves as it was for page p.                           *)
LEMMA StagesKept ==
  ASSUME NEW h, NEW S, NEW k, NEW n, Stages(h, S, k, n), NEW p
  PROVE  /\ \A i \in 0..n : \A x : Entries(k, i, x, p) = Entries(h, i, x, p)
         /\ \A i \in 0..(n + 1), j \in 0..(n + 1) : \A x :
              /\ Remapped(k, i, j, x, p) <=> Remapped(h, i, j, x, p)
              /\ Filled(k, i, j, x, p) <=> Filled(h, i, j, x, p)
         /\ \A i \in 0..n : \A y : Spoils(k, i, y, p) <=> Spoils(h, i, y, p)
         /\ \A t \in 0..n : \A y : Fresh(k, t, y, p) <=> Fresh(h, t, y, p)
<1>1. /\ n \in Nat /\ Len(h.q) = n /\ DOMAIN h.q = 1..n /\ Len(k.q) = n + 1 /\ DOMAIN k.q = 1..(n + 1)
      /\ k.cur = h.cur /\ k.pte = h.pte /\ \A i \in 1..n : k.q[i] = h.q[i]
  BY DEF Stages
<1>2. \A i \in 0..n : \A x : Entries(k, i, x, p) = Entries(h, i, x, p)
  <2> SUFFICES ASSUME NEW i \in 0..n, NEW x PROVE Entries(k, i, x, p) = Entries(h, i, x, p) OBVIOUS
  <2>1. CASE i = 0 BY <1>1, <2>1 DEF Entries
  <2>2. CASE i # 0
    <3>1. i \in 1..n BY <1>1, <2>2
    <3>2. k.q[i] = h.q[i] BY <1>1, <3>1
    <3> QED BY <2>2, <3>2 DEF Entries
  <2> QED BY <2>1, <2>2
<1>3. \A i \in 1..n : \A x : /\ TouchedAt(k, i, x, p) <=> TouchedAt(h, i, x, p)
                             /\ FilledAt(k, i, x, p) <=> FilledAt(h, i, x, p)
                             /\ FreedAt(k, i, x) <=> FreedAt(h, i, x)
  BY <1>1 DEF TouchedAt, FilledAt, FreedAt
<1>4. \A i \in 0..(n + 1), j \in 0..(n + 1) : \A x :
        /\ Remapped(k, i, j, x, p) <=> Remapped(h, i, j, x, p)
        /\ Filled(k, i, j, x, p) <=> Filled(h, i, j, x, p)
  BY <1>1, <1>3 DEF Remapped, Filled
<1>5. \A i \in 0..n : \A y : Spoils(k, i, y, p) <=> Spoils(h, i, y, p)
  <2> SUFFICES ASSUME NEW i \in 0..n, NEW y PROVE Spoils(k, i, y, p) <=> Spoils(h, i, y, p) OBVIOUS
  <2>1. i \in DOMAIN k.q /\ FreedAt(k, i, y) <=> i \in DOMAIN h.q /\ FreedAt(h, i, y) BY <1>1, <1>3
  <2>2. \A x : Entries(k, i, x, p) = Entries(h, i, x, p) BY <1>2
  <2> QED BY <1>1, <2>1, <2>2 DEF Spoils
<1>6. ASSUME NEW t \in 0..n, NEW y PROVE Fresh(k, t, y, p) <=> Fresh(h, t, y, p)
  <2>1. \A i \in 0..n : i <= t => (Filled(k, i, t, y, p) <=> Filled(h, i, t, y, p)) BY <1>1, <1>4
  <2>2. \A i \in 0..(n + 1) : i <= t => i \in 0..n BY <1>1
  <2>3. \A i \in 0..n : i \in 0..(n + 1) BY <1>1
  <2> QED BY <1>1, <1>5, <2>1, <2>2, <2>3 DEF Fresh
<1> QED BY <1>2, <1>4, <1>5, <1>6

(* Everything that has run, and what is under way, is as it should be for p. *)
HwInv(h, p) == Quiet(h, p) /\ CopiesFresh(h, p) /\ MapsFresh(h, p)

(* What the stage that comes last may do.                                    *)
StageOK(h, k, n, p) ==
  /\ (\E y \in Procs : FilledAt(k, n + 1, y, p)) =>
       /\ \A i \in 0..n, x \in Procs : \A e \in Entries(h, i, x, p) : e.prot >= 2 => Remapped(h, i, n + 1, x, p)
       /\ \A x \in Procs : \A e \in Entries(k, n + 1, x, p) : ~(e.prot >= 2)
  /\ \A y \in Procs : ReadAt(k, n + 1, y, p) => Fresh(h, n + 1, y, p) /\ ~Spoils(k, n + 1, y, p)
  /\ \A w \in k.q[n + 1] : w.k = "cap" /\ p \in w.pages => p \in w.good
  /\ \A t \in 0..n, x \in Procs : \A e \in Entries(h, t, x, p) :
       e.prot > 0 /\ Spoils(k, n + 1, e.to, p) => Remapped(h, t, n + 1, x, p)
  /\ \A x \in Procs : \A e \in Entries(k, n + 1, x, p) :
       e.prot > 0 => e.to \in Procs /\ Fresh(h, n + 1, e.to, p) /\ ~Spoils(k, n + 1, e.to, p)

(* Up to date before the last stage, and not spoilt by it.                   *)
LEMMA StageFresh ==
  ASSUME NEW h, NEW S, NEW k, NEW n, Stages(h, S, k, n), NEW p, NEW y
  PROVE  /\ Fresh(h, n + 1, y, p) /\ ~Spoils(k, n + 1, y, p) => Fresh(k, n + 1, y, p) /\ Fresh(k, n + 2, y, p)
         /\ FilledAt(k, n + 1, y, p) /\ ~Spoils(k, n + 1, y, p) => Fresh(k, n + 2, y, p)
<1>1. /\ n \in Nat /\ Len(h.q) = n /\ Len(k.q) = n + 1 /\ DOMAIN k.q = 1..(n + 1) BY DEF Stages
<1>2. /\ \A i \in 0..(n + 1), j \in 0..(n + 1) : Filled(k, i, j, y, p) <=> Filled(h, i, j, y, p)
      /\ \A i \in 0..n : Spoils(k, i, y, p) <=> Spoils(h, i, y, p)
  BY StagesKept
<1>3. \A i \in 0..n : Filled(k, i, n + 1, y, p) => Filled(k, i, n + 2, y, p) BY <1>1 DEF Filled
<1>4. ASSUME Fresh(h, n + 1, y, p), ~Spoils(k, n + 1, y, p)
      PROVE  Fresh(k, n + 1, y, p) /\ Fresh(k, n + 2, y, p)
  <2>1. \A i \in 0..n : Spoils(h, i, y, p) => Filled(h, i, n + 1, y, p) BY <1>1, <1>4 DEF Fresh
  <2>2. \A i \in 0..n : Spoils(k, i, y, p) => Filled(k, i, n + 1, y, p) /\ Filled(k, i, n + 2, y, p)
    BY <1>1, <1>2, <1>3, <2>1
  <2>3. \A i \in 0..(n + 1) : i \in 0..n \/ i = n + 1 BY <1>1
  <2> QED BY <1>1, <1>4, <2>2, <2>3 DEF Fresh
<1>5. ASSUME FilledAt(k, n + 1, y, p), ~Spoils(k, n + 1, y, p)
      PROVE  Fresh(k, n + 2, y, p)
  <2>1. \A i \in 0..n : Filled(k, i, n + 2, y, p) BY <1>1, <1>5 DEF Filled
  <2>2. \A i \in 0..(n + 1) : i \in 0..n \/ i = n + 1 BY <1>1
  <2> QED BY <1>1, <1>5, <2>1, <2>2 DEF Fresh
<1> QED BY <1>4, <1>5

(* A stage that keeps the rules keeps the hardware in order.                 *)
LEMMA StageMore ==
  ASSUME NEW h, NEW S, NEW k, NEW n, Stages(h, S, k, n), NEW p, HwInv(h, p), StageOK(h, k, n, p)
  PROVE  HwInv(k, p)
<1>1. /\ n \in Nat /\ Len(h.q) = n /\ DOMAIN h.q = 1..n /\ Len(k.q) = n + 1 /\ DOMAIN k.q = 1..(n + 1)
      /\ \A i \in 1..n : k.q[i] = h.q[i]
  BY DEF Stages
<1>2. /\ \A i \in 0..n : \A x : Entries(k, i, x, p) = Entries(h, i, x, p)
      /\ \A i \in 0..(n + 1), j \in 0..(n + 1) : \A x :
              /\ Remapped(k, i, j, x, p) <=> Remapped(h, i, j, x, p)
              /\ Filled(k, i, j, x, p) <=> Filled(h, i, j, x, p)
      /\ \A i \in 0..n : \A y : Spoils(k, i, y, p) <=> Spoils(h, i, y, p)
      /\ \A t \in 0..n : \A y : Fresh(k, t, y, p) <=> Fresh(h, t, y, p)
  BY StagesKept
<1>3. \A i \in 0..(n + 1) : i \in 0..n \/ i = n + 1 BY <1>1
<1>4. \A i \in 1..(n + 1) : (i \in 1..n /\ i \in 0..n /\ i \in DOMAIN h.q) \/ i = n + 1 BY <1>1
<1>5. \A i \in 0..n : i \in 0..(n + 1) BY <1>1
<1>6. Quiet(k, p)
  <2> SUFFICES ASSUME NEW j \in 1..(n + 1), NEW y \in Procs, FilledAt(k, j, y, p),
                      NEW i \in 0..j, NEW x \in Procs, NEW e \in Entries(k, i, x, p), e.prot >= 2
               PROVE  Remapped(k, i, j, x, p)
    BY <1>1 DEF Quiet
  <2>1. CASE j = n + 1
    <3>1. i \in 0..(n + 1) BY <1>1
    <3>2. i # n + 1 BY <2>1 DEF StageOK
    <3>3. i \in 0..n BY <1>3, <3>1, <3>2
    <3>4. Remapped(h, i, n + 1, x, p) BY <1>2, <2>1, <3>3 DEF StageOK
    <3>5. n + 1 \in 0..(n + 1) BY <1>1
    <3> QED BY <1>2, <2>1, <3>1, <3>4, <3>5
  <2>2. CASE j \in 1..n
    <3>1. i \in 0..n /\ i \in 0..(n + 1) /\ j \in 0..(n + 1) /\ j \in DOMAIN h.q BY <1>1, <2>2
    <3>2. FilledAt(h, j, y, p) BY <1>1, <2>2 DEF FilledAt
    <3>3. Remapped(h, i, j, x, p) BY <1>2, <3>1, <3>2 DEF HwInv, Quiet
    <3> QED BY <1>2, <3>1, <3>3
  <2> QED BY <1>4, <2>1, <2>2
<1>7. CopiesFresh(k, p)
  <2> SUFFICES ASSUME NEW j \in 1..(n + 1)
               PROVE  /\ \A y \in Procs : ReadAt(k, j, y, p) => Fresh(k, j, y, p)
                      /\ \A w \in k.q[j] : w.k = "cap" /\ p \in w.pages => p \in w.good
    BY <1>1 DEF CopiesFresh
  <2>1. CASE j = n + 1
    <3>1. \A y \in Procs : ReadAt(k, j, y, p) => Fresh(k, j, y, p) BY <2>1, StageFresh DEF StageOK
    <3> QED BY <2>1, <3>1 DEF StageOK
  <2>2. CASE j \in 1..n
    <3>1. j \in DOMAIN h.q /\ k.q[j] = h.q[j] /\ j \in 0..n BY <1>1, <2>2
    <3>2. \A y \in Procs : ReadAt(k, j, y, p) => ReadAt(h, j, y, p) BY <3>1 DEF ReadAt
    <3> QED BY <1>2, <3>1, <3>2 DEF HwInv, CopiesFresh
  <2> QED BY <1>4, <2>1, <2>2
<1>8. MapsFresh(k, p)
  <2> SUFFICES ASSUME NEW t \in 0..(n + 1), NEW x \in Procs, NEW e \in Entries(k, t, x, p), e.prot > 0
               PROVE  /\ e.to \in Procs
                      /\ Fresh(k, t, e.to, p)
                      /\ \A i \in (t + 1)..(n + 1) : Spoils(k, i, e.to, p) => Remapped(k, t, i, x, p)
    BY <1>1 DEF MapsFresh
  <2>1. CASE t = n + 1
    <3>1. e.to \in Procs /\ Fresh(h, n + 1, e.to, p) /\ ~Spoils(k, n + 1, e.to, p) BY <2>1 DEF StageOK
    <3>2. Fresh(k, t, e.to, p) BY <2>1, <3>1, StageFresh
    <3>3. (t + 1)..(n + 1) = {} BY <1>1, <2>1
    <3> QED BY <3>1, <3>2, <3>3
  <2>2. CASE t \in 0..n
    <3>1. e \in Entries(h, t, x, p) BY <1>2, <2>2
    <3>2. /\ e.to \in Procs
          /\ Fresh(h, t, e.to, p)
          /\ \A i \in (t + 1)..n : Spoils(h, i, e.to, p) => Remapped(h, t, i, x, p)
      BY <1>1, <2>2, <3>1 DEF HwInv, MapsFresh
    <3>3. ASSUME NEW i \in (t + 1)..(n + 1), Spoils(k, i, e.to, p) PROVE Remapped(k, t, i, x, p)
      <4>1. i \in 0..(n + 1) /\ t \in 0..(n + 1) BY <1>1, <2>2
      <4>2. CASE i = n + 1
        <5>1. Remapped(h, t, n + 1, x, p) BY <2>2, <3>1, <3>3, <4>2 DEF StageOK
        <5> QED BY <1>2, <4>1, <4>2, <5>1
      <4>3. CASE i \in (t + 1)..n
        <5>1. i \in 0..n BY <1>1, <2>2, <4>3
        <5>2. Spoils(h, i, e.to, p) BY <1>2, <3>3, <5>1
        <5>3. Remapped(h, t, i, x, p) BY <3>2, <4>3, <5>2
        <5> QED BY <1>2, <4>1, <5>3
      <4> QED BY <1>1, <2>2, <4>2, <4>3
    <3> QED BY <1>2, <2>2, <3>2, <3>3
  <2> QED BY <1>3, <2>1, <2>2
<1> QED BY <1>6, <1>7, <1>8 DEF HwInv

(* Where the page is, as the driver has it, and what the stage adds.         *)
LEMMA StageAimed ==
  ASSUME NEW h, NEW S, NEW k, NEW n, Stages(h, S, k, n), NEW p, NEW b, LastAimed(h, b, p),
         \A x \in Procs : \A e \in Entries(k, n + 1, x, p) : Aimed(b, x, p, e)
  PROVE  LastAimed(k, b, p)
<1>1. n \in Nat /\ Len(h.q) = n /\ Len(k.q) = n + 1 /\ DOMAIN k.q = 1..(n + 1) BY DEF Stages
<1>2. /\ \A i \in 0..n : \A x : Entries(k, i, x, p) = Entries(h, i, x, p)
      /\ \A i \in 0..(n + 1), j \in 0..(n + 1) : \A x : Remapped(k, i, j, x, p) <=> Remapped(h, i, j, x, p)
  BY StagesKept
<1> SUFFICES ASSUME NEW t \in 0..(n + 1), NEW x \in Procs, NEW e \in Entries(k, t, x, p),
                    ~Remapped(k, t, n + 2, x, p)
             PROVE  Aimed(b, x, p, e)
  BY <1>1 DEF LastAimed
<1>3. CASE t = n + 1 BY <1>3
<1>4. CASE t \in 0..n
  <2>1. e \in Entries(h, t, x, p) BY <1>2, <1>4
  <2>2. Remapped(k, t, n + 1, x, p) => Remapped(k, t, n + 2, x, p) BY <1>1, <1>4 DEF Remapped
  <2>3. t \in 0..(n + 1) /\ n + 1 \in 0..(n + 1) BY <1>1
  <2>4. ~Remapped(h, t, n + 1, x, p) BY <1>2, <2>2, <2>3
  <2> QED BY <1>1, <1>4, <2>1, <2>4 DEF LastAimed
<1> QED BY <1>1, <1>3, <1>4

(* A stage without page table entries.                                       *)
LEMMA StageUnmapped ==
  ASSUME NEW h, NEW S, NEW k, NEW n, Stages(h, S, k, n), NEW p, NEW b, NowhereUnmapped(h, b, p),
         Here(b, p) = {} => \A x \in Procs : \A e \in Entries(k, n + 1, x, p) : e.prot = 0
  PROVE  NowhereUnmapped(k, b, p)
<1>1. n \in Nat /\ Len(h.q) = n /\ Len(k.q) = n + 1 BY DEF Stages
<1>2. \A i \in 0..n : \A x : Entries(k, i, x, p) = Entries(h, i, x, p) BY StagesKept
<1>3. \A i \in 0..(n + 1) : i \in 0..n \/ i = n + 1 BY <1>1
<1> QED BY <1>1, <1>2, <1>3 DEF NowhereUnmapped

(* What the last stage, S, does to p.                                        *)
LastStage(S, k, n, p) ==
  /\ \A x, e : e \in Entries(k, n + 1, x, p) <=> \E w \in S : Touches(w, x, p) /\ e = w.set[p]
  /\ \A y : FilledAt(k, n + 1, y, p) <=> \E w \in S : Fills(w, y, p)
  /\ \A y : FreedAt(k, n + 1, y) <=> \E w \in S : w.k = "free" /\ w.at = y
  /\ \A y : ReadAt(k, n + 1, y, p) <=> \E w \in S : w.k = "copy" /\ w.from = y /\ p \in w.pages
  /\ \A y : Spoils(k, n + 1, y, p) <=>
              \/ FreedAt(k, n + 1, y)
              \/ \E x \in Procs : \E e \in Entries(k, n + 1, x, p) : e.prot >= 2 /\ e.to # y

(* What the pushes of a last stage map, fill, free and read.                *)
LEMMA LastEntries ==
  ASSUME NEW h, NEW S, NEW k, NEW n, Stages(h, S, k, n), NEW p
  PROVE  LastStage(S, k, n, p)
<1>1. n \in Nat /\ n + 1 # 0 /\ n + 1 \in DOMAIN k.q /\ k.q[n + 1] = S BY DEF Stages
<1>2. \A x, e : e \in Entries(k, n + 1, x, p) <=> \E w \in S : Touches(w, x, p) /\ e = w.set[p]
  BY <1>1 DEF Entries
<1>3. \A y : FilledAt(k, n + 1, y, p) <=> \E w \in S : Fills(w, y, p) BY <1>1 DEF FilledAt
<1>4. \A y : FreedAt(k, n + 1, y) <=> \E w \in S : w.k = "free" /\ w.at = y BY <1>1 DEF FreedAt
<1>5. \A y : ReadAt(k, n + 1, y, p) <=> \E w \in S : w.k = "copy" /\ w.from = y /\ p \in w.pages
  BY <1>1 DEF ReadAt
<1>6. \A y : Spoils(k, n + 1, y, p) <=>
                     \/ FreedAt(k, n + 1, y)
                     \/ \E x \in Procs : \E e \in Entries(k, n + 1, x, p) : e.prot >= 2 /\ e.to # y
  BY <1>1 DEF Spoils
<1> QED BY <1>2, <1>3, <1>4, <1>5, <1>6 DEF LastStage

(* A stage of page table entries that point to copies, the writable ones to   *)
(* the only one.                                                             *)
LEMMA PtePush ==
  ASSUME NEW h, NEW S, NEW k, NEW n, Stages(h, S, k, n), NEW p, NEW b, PageInv(h, b, p),
         \A w \in S : w.k = "pte" /\ \A x \in Procs : Touches(w, x, p) => Aimed(b, x, p, w.set[p]) /\ w.set[p].prot \in 0..3
  PROVE  PageInv(k, b, p)
<1>1. n \in Nat /\ Len(h.q) = n /\ Len(k.q) = n + 1 /\ k.q[n + 1] = S BY DEF Stages
<1>2. LastStage(S, k, n, p) BY LastEntries
<1>3. \A y : ~FilledAt(k, n + 1, y, p) /\ ~FreedAt(k, n + 1, y) /\ ~ReadAt(k, n + 1, y, p)
  BY <1>2 DEF Fills, LastStage
<1>4. ASSUME NEW x \in Procs, NEW e \in Entries(k, n + 1, x, p) PROVE Aimed(b, x, p, e) /\ e.prot \in 0..3
  <2>1. PICK w \in S : Touches(w, x, p) /\ e = w.set[p] BY <1>2 DEF LastStage
  <2> QED BY <2>1
<1>5. ASSUME NEW y, Spoils(k, n + 1, y, p) PROVE \E z : z # y /\ Here(b, p) = {z}
  <2>1. PICK x \in Procs : \E e \in Entries(k, n + 1, x, p) : e.prot >= 2 /\ e.to # y
    BY <1>2, <1>3, <1>5 DEF LastStage
  <2>2. PICK e \in Entries(k, n + 1, x, p) : e.prot >= 2 /\ e.to # y BY <2>1
  <2> QED BY <1>4, <2>2 DEF Aimed
<1>6. \A y \in Here(b, p) : ~Spoils(k, n + 1, y, p) /\ y \in Procs /\ Fresh(h, n + 1, y, p)
  <2>1. \A y \in Here(b, p) : ~Spoils(k, n + 1, y, p) BY <1>5
  <2>2. \A y \in Here(b, p) : y \in Procs /\ Holds(b, y, p) BY DEF Here, Holds
  <2> QED BY <1>1, <2>1, <2>2 DEF PageInv, HeldFresh
<1>7. StageOK(h, k, n, p)
  <2>1. ASSUME NEW t \in 0..n, NEW x \in Procs, NEW e \in Entries(h, t, x, p), e.prot > 0,
               Spoils(k, n + 1, e.to, p), ~Remapped(h, t, n + 1, x, p)
        PROVE  FALSE
    <3>1. Aimed(b, x, p, e) BY <1>1, <2>1 DEF PageInv, LastAimed
    <3>2. e.to \in Here(b, p) BY <2>1, <3>1 DEF Aimed
    <3> QED BY <1>6, <2>1, <3>2
  <2>2. \A x \in Procs : \A e \in Entries(k, n + 1, x, p) :
          e.prot > 0 => e.to \in Procs /\ Fresh(h, n + 1, e.to, p) /\ ~Spoils(k, n + 1, e.to, p)
    BY <1>4, <1>6 DEF Aimed
  <2>3. \A w \in k.q[n + 1] : ~(w.k = "cap") BY <1>1
  <2> QED BY <1>3, <2>1, <2>2, <2>3 DEF StageOK
<1>8. HwInv(k, p) BY <1>7, StageMore DEF PageInv, HwInv
<1>9. LastAimed(k, b, p) BY <1>4, StageAimed DEF PageInv
<1>10. NowhereUnmapped(k, b, p)
  <2>1. Here(b, p) = {} => \A x \in Procs : \A e \in Entries(k, n + 1, x, p) : e.prot = 0
    BY <1>4 DEF Aimed
  <2> QED BY <2>1, StageUnmapped DEF PageInv
<1>11. HeldFresh(k, b, p)
  <2> SUFFICES ASSUME NEW y \in Procs, Holds(b, y, p) PROVE Fresh(k, n + 2, y, p) BY <1>1 DEF HeldFresh
  <2>1. Fresh(h, n + 1, y, p) BY <1>1 DEF PageInv, HeldFresh
  <2>2. ~Spoils(k, n + 1, y, p)
    <3>1. y \in Here(b, p) \/ Here(b, p) = {} BY DEF Holds
    <3> QED BY <1>5, <1>6, <3>1
  <2> QED BY <2>1, <2>2, StageFresh
<1> QED BY <1>8, <1>9, <1>10, <1>11 DEF PageInv, HwInv

(* An entry of x stays, or changes at once: to none, or, with nothing under   *)
(* way, to one that points to a copy.                                        *)
LEMMA EntryChange ==
  ASSUME NEW h, NEW c, NEW p, NEW b, PageInv(h, b, p), NEW x \in Procs,
         c.cur = h.cur, c.q = h.q, \A z \in Procs : z # x => c.pte[z][p] = h.pte[z][p],
         Len(h.q) \in Nat, DOMAIN h.q = 1..Len(h.q),
         \/ c.pte[x][p].prot = 0 \/ c.pte[x][p] = h.pte[x][p]
         \/ Len(h.q) = 0 /\ c.pte[x][p].prot \in 0..3 /\ Aimed(b, x, p, c.pte[x][p])
  PROVE  PageInv(c, b, p)
<1> DEFINE n == Len(h.q)
           f == c.pte[x][p]
<1>1. n \in Nat /\ Len(c.q) = n /\ DOMAIN h.q = 1..n OBVIOUS
<1>2. \A i \in 1..n : \A z : Entries(c, i, z, p) = Entries(h, i, z, p) BY DEF Entries
<1>3. \A z \in Procs : z # x => Entries(c, 0, z, p) = Entries(h, 0, z, p) BY DEF Entries
<1>4. Entries(c, 0, x, p) = {f} BY DEF Entries
<1> HIDE DEF f
<1>5. /\ \A i, j, z : Remapped(c, i, j, z, p) <=> Remapped(h, i, j, z, p)
      /\ \A i, j, z : Filled(c, i, j, z, p) <=> Filled(h, i, j, z, p)
      /\ \A i, z : FilledAt(c, i, z, p) <=> FilledAt(h, i, z, p)
      /\ \A i, z : ReadAt(c, i, z, p) <=> ReadAt(h, i, z, p)
  BY DEF Remapped, Filled, FilledAt, TouchedAt, ReadAt
<1>6. \A i \in 1..n : \A y : Spoils(c, i, y, p) <=> Spoils(h, i, y, p)
  <2> SUFFICES ASSUME NEW i \in 1..n, NEW y PROVE Spoils(c, i, y, p) <=> Spoils(h, i, y, p) OBVIOUS
  <2>1. i # 0 /\ \A z : Entries(c, i, z, p) = Entries(h, i, z, p) BY <1>2
  <2> QED BY <2>1 DEF Spoils, FreedAt
<1>7. \A y : Spoils(c, 0, y, p) => Spoils(h, 0, y, p) \/ (f.prot >= 2 /\ f.to # y)
  <2> SUFFICES ASSUME NEW y, Spoils(c, 0, y, p), ~(f.prot >= 2 /\ f.to # y) PROVE Spoils(h, 0, y, p) OBVIOUS
  <2>1. 0 \notin DOMAIN h.q BY <1>1
  <2>2. \/ p \notin h.cur[y]
        \/ \E z \in Procs : \E e \in Entries(c, 0, z, p) : e.prot >= 2 /\ e.to # y
    BY <2>1 DEF Spoils
  <2> QED BY <1>3, <1>4, <2>2 DEF Spoils
<1>8. CASE f.prot = 0 \/ f = h.pte[x][p]
  <2>0. Entries(h, 0, x, p) = {h.pte[x][p]} BY DEF Entries
  <2>1. \A i \in 0..n, z \in Procs : \A e \in Entries(c, i, z, p) : e \in Entries(h, i, z, p) \/ e.prot = 0
    <3>1. \A i \in 0..n : i = 0 \/ i \in 1..n BY <1>1
    <3> QED BY <1>2, <1>3, <1>4, <1>8, <2>0, <3>1
  <2>2. \A i \in 0..n : \A y : Spoils(c, i, y, p) => Spoils(h, i, y, p)
    <3>1. \A i \in 0..n : i = 0 \/ i \in 1..n BY <1>1
    <3>2. \A y : f.prot >= 2 /\ f.to # y => Spoils(h, 0, y, p) BY <1>8, <2>0 DEF Spoils
    <3> QED BY <1>6, <1>7, <3>1, <3>2
  <2>3. \A t, y : Fresh(h, t, y, p) => Fresh(c, t, y, p) BY <1>5, <2>2 DEF Fresh
  <2>4. Quiet(c, p)
    <3> SUFFICES ASSUME NEW j \in 1..n, NEW y \in Procs, FilledAt(c, j, y, p), NEW i \in 0..j,
                        NEW z \in Procs, NEW e \in Entries(c, i, z, p), e.prot >= 2
                 PROVE  Remapped(c, i, j, z, p)
      BY <1>1 DEF Quiet
    <3>1. i \in 0..n BY <1>1
    <3>2. e \in Entries(h, i, z, p) BY <2>1, <3>1
    <3> QED BY <1>1, <1>5, <3>2 DEF PageInv, Quiet
  <2>5. CopiesFresh(c, p) BY <1>5, <2>3 DEF PageInv, CopiesFresh
  <2>6. MapsFresh(c, p)
    <3> SUFFICES ASSUME NEW t \in 0..n, NEW z \in Procs, NEW e \in Entries(c, t, z, p), e.prot > 0
                 PROVE  /\ e.to \in Procs
                        /\ Fresh(c, t, e.to, p)
                        /\ \A i \in (t + 1)..n : Spoils(c, i, e.to, p) => Remapped(c, t, i, z, p)
      BY <1>1 DEF MapsFresh
    <3>1. e \in Entries(h, t, z, p) BY <2>1
    <3>2. /\ e.to \in Procs /\ Fresh(h, t, e.to, p)
          /\ \A i \in (t + 1)..n : Spoils(h, i, e.to, p) => Remapped(h, t, i, z, p)
      BY <3>1 DEF PageInv, MapsFresh
    <3>3. \A i \in (t + 1)..n : i \in 0..n BY <1>1
    <3> QED BY <1>5, <2>2, <2>3, <3>2, <3>3
  <2>7. HeldFresh(c, b, p) BY <1>1, <2>3 DEF PageInv, HeldFresh
  <2>8. LastAimed(c, b, p)
    <3> SUFFICES ASSUME NEW t \in 0..n, NEW z \in Procs, NEW e \in Entries(c, t, z, p), ~Remapped(c, t, n + 1, z, p)
                 PROVE  Aimed(b, z, p, e)
      BY <1>1 DEF LastAimed
    <3>1. CASE e \in Entries(h, t, z, p) BY <1>5, <3>1 DEF PageInv, LastAimed
    <3>2. CASE e.prot = 0 BY <3>2 DEF Aimed
    <3> QED BY <2>1, <3>1, <3>2
  <2>9. NowhereUnmapped(c, b, p) BY <1>1, <2>1 DEF PageInv, NowhereUnmapped
  <2> QED BY <2>4, <2>5, <2>6, <2>7, <2>8, <2>9 DEF PageInv
<1>9. CASE n = 0 /\ f.prot \in 0..3 /\ Aimed(b, x, p, f)
  <2>1. 1..n = {} /\ 0..n = {0} BY <1>9
  <2>2. \A i, j, z : ~Remapped(h, i, j, z, p) /\ ~Filled(h, i, j, z, p) BY <2>1, <1>1 DEF Remapped, Filled
  <2>3. \A y : (Fresh(h, 0, y, p) <=> ~Spoils(h, 0, y, p)) /\ (Fresh(c, 0, y, p) <=> ~Spoils(c, 0, y, p))
               /\ (Fresh(h, 1, y, p) <=> ~Spoils(h, 0, y, p)) /\ (Fresh(c, 1, y, p) <=> ~Spoils(c, 0, y, p))
    BY <1>1, <1>5, <1>9, <2>2 DEF Fresh
  <2>4. \A z \in Procs : \A e \in Entries(h, 0, z, p) : Aimed(b, z, p, e)
    BY <1>9, <2>1, <2>2 DEF PageInv, LastAimed
  <2>5. \A z \in Procs : \A e \in Entries(c, 0, z, p) : Aimed(b, z, p, e) BY <1>3, <1>4, <1>9, <2>4
  <2>6. \A y \in Procs : Holds(b, y, p) => ~Spoils(c, 0, y, p)
    <3> SUFFICES ASSUME NEW y \in Procs, Holds(b, y, p), Spoils(c, 0, y, p) PROVE FALSE OBVIOUS
    <3>1. ~Spoils(h, 0, y, p)
      <4>1. Fresh(h, n + 1, y, p) BY DEF PageInv, HeldFresh
      <4> QED BY <1>9, <2>3, <4>1
    <3>2. f.prot >= 2 /\ f.to # y BY <1>7, <3>1
    <3>3. Here(b, p) = {f.to} BY <1>9, <3>2 DEF Aimed
    <3> QED BY <3>2, <3>3 DEF Holds
  <2>7. \A y \in Here(b, p) : y \in Procs /\ Holds(b, y, p) BY DEF Here, Holds
  <2>8. Quiet(c, p) /\ CopiesFresh(c, p) BY <1>1, <2>1 DEF Quiet, CopiesFresh
  <2>10. MapsFresh(c, p)
    <3>1. \A i : i \notin (0 + 1)..n BY <1>9
    <3>2. \A z \in Procs : \A e \in Entries(c, 0, z, p) : e.prot > 0 => e.to \in Procs /\ Fresh(c, 0, e.to, p)
      BY <2>3, <2>5, <2>6, <2>7 DEF Aimed
    <3> QED BY <1>1, <2>1, <3>1, <3>2 DEF MapsFresh
  <2>11. HeldFresh(c, b, p) BY <1>1, <1>9, <2>3, <2>6 DEF HeldFresh
  <2>12. LastAimed(c, b, p) BY <1>1, <2>1, <2>5 DEF LastAimed
  <2>13. NowhereUnmapped(c, b, p)
    <3>1. Here(b, p) = {} => f.prot = 0 BY <1>9 DEF Aimed
    <3>2. Here(b, p) = {} => \A z \in Procs : \A e \in Entries(h, 0, z, p) : e.prot = 0
      BY <2>1 DEF PageInv, NowhereUnmapped
    <3> QED BY <1>1, <1>3, <1>4, <2>1, <3>1, <3>2 DEF NowhereUnmapped
  <2> QED BY <2>8, <2>10, <2>11, <2>12, <2>13 DEF PageInv
<1> QED BY <1>8, <1>9 DEF f

(* The driver's record changes and the page stays where it is.               *)
LEMMA BlockChange ==
  ASSUME NEW h, NEW b, NEW d, NEW p, PageInv(h, b, p), Here(d, p) = Here(b, p),
         \A y \in Procs : Holds(d, y, p) => Holds(b, y, p) \/ Fresh(h, Len(h.q) + 1, y, p),
         p \in d.readdup => p \in b.readdup \/ \A z : Here(b, p) # {z}
  PROVE  PageInv(h, d, p)
<1>1. \A x, e : Aimed(b, x, p, e) => Aimed(d, x, p, e) BY DEF Aimed
<1>2. LastAimed(h, d, p) BY <1>1 DEF PageInv, LastAimed
<1>3. HeldFresh(h, d, p) BY DEF PageInv, HeldFresh
<1>4. NowhereUnmapped(h, d, p) BY DEF PageInv, NowhereUnmapped
<1> QED BY <1>2, <1>3, <1>4 DEF PageInv

(* Memory is freed where the driver has nothing of p.                        *)
LEMMA FreePush ==
  ASSUME NEW h, NEW S, NEW k, NEW n, Stages(h, S, k, n), NEW p, NEW b, PageInv(h, b, p), NEW g,
         ~Holds(b, g, p), \A w \in S : w.k = "free" /\ w.at = g
  PROVE  PageInv(k, b, p)
<1>1. n \in Nat /\ Len(h.q) = n /\ Len(k.q) = n + 1 /\ k.q[n + 1] = S BY DEF Stages
<1>2. LastStage(S, k, n, p) BY LastEntries
<1>3. \A x, e : e \notin Entries(k, n + 1, x, p) BY <1>2 DEF LastStage, Touches
<1>4. \A y : ~FilledAt(k, n + 1, y, p) /\ ~ReadAt(k, n + 1, y, p) BY <1>2 DEF LastStage, Fills
<1>5. \A y : Spoils(k, n + 1, y, p) => y = g BY <1>2, <1>3 DEF LastStage
<1>6. g \notin Here(b, p) BY DEF Holds
<1>7. StageOK(h, k, n, p)
  <2>1. ASSUME NEW t \in 0..n, NEW x \in Procs, NEW e \in Entries(h, t, x, p), e.prot > 0,
               Spoils(k, n + 1, e.to, p), ~Remapped(h, t, n + 1, x, p)
        PROVE  FALSE
    <3>1. Aimed(b, x, p, e) BY <1>1, <2>1 DEF PageInv, LastAimed
    <3> QED BY <1>5, <1>6, <2>1, <3>1 DEF Aimed
  <2>2. \A w \in k.q[n + 1] : ~(w.k = "cap") BY <1>1
  <2> QED BY <1>3, <1>4, <2>1, <2>2 DEF StageOK
<1>8. HwInv(k, p) BY <1>7, StageMore DEF PageInv, HwInv
<1>9. LastAimed(k, b, p) BY <1>3, StageAimed DEF PageInv
<1>10. NowhereUnmapped(k, b, p) BY <1>3, StageUnmapped DEF PageInv
<1>11. HeldFresh(k, b, p)
  <2> SUFFICES ASSUME NEW y \in Procs, Holds(b, y, p) PROVE Fresh(k, n + 2, y, p) BY <1>1 DEF HeldFresh
  <2>1. Fresh(h, n + 1, y, p) BY <1>1 DEF PageInv, HeldFresh
  <2>2. ~Spoils(k, n + 1, y, p) BY <1>5
  <2> QED BY <2>1, <2>2, StageFresh
<1> QED BY <1>8, <1>9, <1>10, <1>11 DEF PageInv, HwInv

(* Nobody will be able to write p once what is under way has run.            *)
NoWriter(h, p) ==
  \A i \in 0..Len(h.q), x \in Procs : \A e \in Entries(h, i, x, p) :
    e.prot >= 2 => Remapped(h, i, Len(h.q) + 1, x, p)

(* A stage that makes copies of p, of what is up to date.                    *)
LEMMA FillPush ==
  ASSUME NEW h, NEW S, NEW k, NEW n, Stages(h, S, k, n), NEW p, NEW b,
         HwInv(h, p), LastAimed(h, b, p), NowhereUnmapped(h, b, p),
         \A w \in S : w.k \in {"copy", "cap", "zero"},
         (\E w \in S, y \in Procs : Fills(w, y, p)) => NoWriter(h, p),
         \A w \in S : w.k = "copy" /\ p \in w.pages => Fresh(h, n + 1, w.from, p),
         \A w \in S : w.k = "cap" /\ p \in w.pages => p \in w.good
  PROVE  /\ HwInv(k, p) /\ LastAimed(k, b, p) /\ NowhereUnmapped(k, b, p)
         /\ \A y : Fresh(h, n + 1, y, p) => Fresh(k, n + 2, y, p)
         /\ \A y : (\E w \in S : Fills(w, y, p)) => Fresh(k, n + 2, y, p)
         /\ NoWriter(h, p) => NoWriter(k, p)
<1>1. n \in Nat /\ Len(h.q) = n /\ Len(k.q) = n + 1 /\ k.q[n + 1] = S /\ DOMAIN k.q = 1..(n + 1) BY DEF Stages
<1>2. LastStage(S, k, n, p) BY LastEntries
<1>3. \A x, e : e \notin Entries(k, n + 1, x, p) BY <1>2 DEF LastStage, Touches
<1>4. \A y : ~Spoils(k, n + 1, y, p) BY <1>2, <1>3 DEF LastStage
<1>5. StageOK(h, k, n, p)
  <2>1. (\E y \in Procs : FilledAt(k, n + 1, y, p)) =>
           \A i \in 0..n, x \in Procs : \A e \in Entries(h, i, x, p) : e.prot >= 2 => Remapped(h, i, n + 1, x, p)
    BY <1>1, <1>2 DEF LastStage, NoWriter
  <2>2. \A y \in Procs : ReadAt(k, n + 1, y, p) => Fresh(h, n + 1, y, p) BY <1>2 DEF LastStage
  <2> QED BY <1>1, <1>3, <1>4, <2>1, <2>2 DEF StageOK
<1>6. HwInv(k, p) BY <1>5, StageMore
<1>7. LastAimed(k, b, p) BY <1>3, StageAimed
<1>8. NowhereUnmapped(k, b, p) BY <1>3, StageUnmapped
<1>9. \A y : Fresh(h, n + 1, y, p) => Fresh(k, n + 2, y, p) BY <1>4, StageFresh
<1>10. \A y : (\E w \in S : Fills(w, y, p)) => Fresh(k, n + 2, y, p)
  BY <1>2, <1>4, StageFresh DEF LastStage
<1>11. ASSUME NoWriter(h, p) PROVE NoWriter(k, p)
  <2> SUFFICES ASSUME NEW i \in 0..(n + 1), NEW x \in Procs, NEW e \in Entries(k, i, x, p), e.prot >= 2
               PROVE  Remapped(k, i, n + 2, x, p)
    BY <1>1 DEF NoWriter
  <2>1. i # n + 1 BY <1>3
  <2>2. i \in 0..n BY <1>1, <2>1
  <2>3. Entries(k, i, x, p) = Entries(h, i, x, p) BY <2>2, StagesKept
  <2>4. Remapped(h, i, n + 1, x, p) BY <1>1, <1>11, <2>2, <2>3 DEF NoWriter
  <2>5. n + 1 \in 0..(n + 1) BY <1>1
  <2>6. Remapped(k, i, n + 1, x, p) BY <2>4, <2>5, StagesKept
  <2> QED BY <1>1, <2>2, <2>6 DEF Remapped
<1> QED BY <1>6, <1>7, <1>8, <1>9, <1>10, <1>11

(* Memory gets current copies of p.                                          *)
LEMMA CurGrows ==
  ASSUME NEW h, NEW c, NEW p, NEW b, c.pte = h.pte, c.q = h.q,
         Len(h.q) \in Nat, DOMAIN h.q = 1..Len(h.q),
         \A y \in Procs : p \in h.cur[y] => p \in c.cur[y]
  PROVE  /\ HwInv(h, p) => HwInv(c, p)
         /\ LastAimed(h, b, p) => LastAimed(c, b, p)
         /\ NowhereUnmapped(h, b, p) => NowhereUnmapped(c, b, p)
         /\ NoWriter(h, p) => NoWriter(c, p)
         /\ \A t : \A y \in Procs : Fresh(h, t, y, p) => Fresh(c, t, y, p)
         /\ \A y : p \in c.cur[y] /\ (\A i \in DOMAIN h.q : ~FreedAt(h, i, y))
                   /\ (\A i \in 0..Len(h.q), x \in Procs : \A e \in Entries(h, i, x, p) : ~(e.prot >= 2 /\ e.to # y))
                   => \A t : Fresh(c, t, y, p)
<1>1. /\ \A i, x : Entries(c, i, x, p) = Entries(h, i, x, p)
      /\ \A i, y : FilledAt(c, i, y, p) <=> FilledAt(h, i, y, p)
      /\ \A i, y : ReadAt(c, i, y, p) <=> ReadAt(h, i, y, p)
      /\ \A i, y : FreedAt(c, i, y) <=> FreedAt(h, i, y)
      /\ \A i, j, x : Remapped(c, i, j, x, p) <=> Remapped(h, i, j, x, p)
      /\ \A i, j, x : Filled(c, i, j, x, p) <=> Filled(h, i, j, x, p)
  BY DEF Entries, FilledAt, ReadAt, FreedAt, Remapped, Filled, TouchedAt
<1>2. \A i : \A y \in Procs : Spoils(c, i, y, p) => Spoils(h, i, y, p) BY <1>1 DEF Spoils
<1>3. \A t : \A y \in Procs : Fresh(h, t, y, p) => Fresh(c, t, y, p) BY <1>1, <1>2 DEF Fresh
<1>4. ASSUME HwInv(h, p) PROVE HwInv(c, p)
  <2>1. Quiet(c, p) BY <1>1, <1>4 DEF HwInv, Quiet
  <2>2. CopiesFresh(c, p) BY <1>1, <1>3, <1>4 DEF HwInv, CopiesFresh
  <2>3. MapsFresh(c, p)
    <3> SUFFICES ASSUME NEW t \in 0..Len(h.q), NEW x \in Procs, NEW e \in Entries(h, t, x, p), e.prot > 0
                 PROVE  /\ e.to \in Procs
                        /\ Fresh(c, t, e.to, p)
                        /\ \A i \in (t + 1)..Len(h.q) : Spoils(c, i, e.to, p) => Remapped(c, t, i, x, p)
      BY <1>1 DEF MapsFresh
    <3>1. /\ e.to \in Procs /\ Fresh(h, t, e.to, p)
          /\ \A i \in (t + 1)..Len(h.q) : Spoils(h, i, e.to, p) => Remapped(h, t, i, x, p)
      BY <1>4 DEF HwInv, MapsFresh
    <3> QED BY <1>1, <1>2, <1>3, <3>1
  <2> QED BY <2>1, <2>2, <2>3 DEF HwInv
<1>5. LastAimed(h, b, p) => LastAimed(c, b, p) BY <1>1 DEF LastAimed
<1>6. NowhereUnmapped(h, b, p) => NowhereUnmapped(c, b, p) BY <1>1 DEF NowhereUnmapped
<1>7. NoWriter(h, p) => NoWriter(c, p) BY <1>1 DEF NoWriter
<1>8. ASSUME NEW y, p \in c.cur[y], \A i \in DOMAIN h.q : ~FreedAt(h, i, y), NEW t,
             \A i \in 0..Len(h.q), x \in Procs : \A e \in Entries(h, i, x, p) : ~(e.prot >= 2 /\ e.to # y)
      PROVE  Fresh(c, t, y, p)
  <2>1. \A i \in 0..Len(h.q) : ~Spoils(c, i, y, p) BY <1>1, <1>8 DEF Spoils
  <2> QED BY <2>1 DEF Fresh
<1> QED BY <1>3, <1>4, <1>5, <1>6, <1>7, <1>8

(* k is h after push w of its first stage; the stages move up by s.          *)
OneRun(h, w, k, n, s) ==
  /\ n \in Nat /\ n >= 1 /\ s \in {0, 1} /\ Len(h.q) = n /\ DOMAIN h.q = 1..n
  /\ Len(k.q) = n - s /\ DOMAIN k.q = 1..(n - s) /\ w \in h.q[1]
  /\ \A i \in 1..(n - s) : k.q[i] \subseteq h.q[i + s]
  /\ \A j \in 1..n : \A v \in h.q[j] : (j = 1 /\ v = w) \/ (j - s \in 1..(n - s) /\ v \in k.q[j - s])
  /\ \A x \in Procs, p \in Pages : k.pte[x][p] = IF Touches(w, x, p) THEN w.set[p] ELSE h.pte[x][p]
  /\ \A y \in Procs, p \in Pages :
       /\ p \in h.cur[y] /\ ~Fills(w, y, p) /\ ~(w.k = "free" /\ w.at = y) => p \in k.cur[y]
       /\ Fills(w, y, p) /\ (w.k = "copy" => p \in h.cur[w.from]) /\ (w.k = "cap" => p \in w.good) => p \in k.cur[y]

(* The stage that the current entry of x comes from.                         *)
Origin(w, x, p) == IF Touches(w, x, p) THEN 1 ELSE 0

(* What the stages of k are stages of.                                       *)
LEMMA RunStages ==
  ASSUME NEW h, NEW w, NEW k, NEW n, NEW s, OneRun(h, w, k, n, s), NEW p \in Pages
  PROVE  /\ \A i \in 1..(n - s) : /\ i + s \in 1..n
                                  /\ \A x : Entries(k, i, x, p) \subseteq Entries(h, i + s, x, p)
                                  /\ \A y : FilledAt(k, i, y, p) => FilledAt(h, i + s, y, p)
                                  /\ \A y : ReadAt(k, i, y, p) => ReadAt(h, i + s, y, p)
                                  /\ \A y : FreedAt(k, i, y) => FreedAt(h, i + s, y)
         /\ \A x \in Procs : Entries(k, 0, x, p) \subseteq Entries(h, Origin(w, x, p), x, p)
         /\ \A y : FilledAt(h, 1, y, p) => Fills(w, y, p) \/ (s = 0 /\ FilledAt(k, 1, y, p))
         /\ \A x : TouchedAt(h, 1, x, p) => Touches(w, x, p) \/ (s = 0 /\ TouchedAt(k, 1, x, p))
         /\ \A j \in 2..n : /\ j - s \in 1..(n - s)
                            /\ \A y : FilledAt(h, j, y, p) => FilledAt(k, j - s, y, p)
                            /\ \A x : TouchedAt(h, j, x, p) => TouchedAt(k, j - s, x, p)
<1>1. /\ n \in Nat /\ n >= 1 /\ s \in {0, 1} /\ w \in h.q[1]
      /\ \A i \in 1..(n - s) : k.q[i] \subseteq h.q[i + s]
      /\ \A j \in 1..n : \A v \in h.q[j] : (j = 1 /\ v = w) \/ (j - s \in 1..(n - s) /\ v \in k.q[j - s])
      /\ \A x \in Procs : k.pte[x][p] = IF Touches(w, x, p) THEN w.set[p] ELSE h.pte[x][p]
  BY DEF OneRun
<1>2. ASSUME NEW i \in 1..(n - s)
      PROVE  /\ i + s \in 1..n
             /\ \A x : Entries(k, i, x, p) \subseteq Entries(h, i + s, x, p)
             /\ \A y : FilledAt(k, i, y, p) => FilledAt(h, i + s, y, p)
             /\ \A y : ReadAt(k, i, y, p) => ReadAt(h, i + s, y, p)
             /\ \A y : FreedAt(k, i, y) => FreedAt(h, i + s, y)
  <2>1. i + s \in 1..n /\ i # 0 /\ i + s # 0 BY <1>1
  <2>2. k.q[i] \subseteq h.q[i + s] BY <1>1
  <2>3. \A x : Entries(k, i, x, p) \subseteq Entries(h, i + s, x, p) BY <2>1, <2>2 DEF Entries
  <2> QED BY <2>1, <2>2, <2>3 DEF FilledAt, ReadAt, FreedAt
<1>3. \A x \in Procs : Entries(k, 0, x, p) \subseteq Entries(h, Origin(w, x, p), x, p)
  <2> SUFFICES ASSUME NEW x \in Procs PROVE Entries(k, 0, x, p) \subseteq Entries(h, Origin(w, x, p), x, p)
    OBVIOUS
  <2>1. CASE Touches(w, x, p)
    <3>1. Entries(k, 0, x, p) = {w.set[p]} BY <1>1, <2>1 DEF Entries
    <3>2. w.set[p] \in Entries(h, 1, x, p) BY <1>1, <2>1 DEF Entries
    <3> QED BY <2>1, <3>1, <3>2 DEF Origin
  <2>2. CASE ~Touches(w, x, p) BY <1>1, <2>2 DEF Entries, Origin
  <2> QED BY <2>1, <2>2
<1>4. 1 \in 1..n /\ (1 - s \in 1..(n - s) => s = 0 /\ 1 - s = 1) BY <1>1
<1>5. \A v \in h.q[1] : v = w \/ (s = 0 /\ v \in k.q[1]) BY <1>1, <1>4
<1>6. \A y : FilledAt(h, 1, y, p) => Fills(w, y, p) \/ (s = 0 /\ FilledAt(k, 1, y, p)) BY <1>5 DEF FilledAt
<1>7. \A x : TouchedAt(h, 1, x, p) => Touches(w, x, p) \/ (s = 0 /\ TouchedAt(k, 1, x, p)) BY <1>5 DEF TouchedAt
<1>8. ASSUME NEW j \in 2..n
      PROVE  /\ j - s \in 1..(n - s)
             /\ \A y : FilledAt(h, j, y, p) => FilledAt(k, j - s, y, p)
             /\ \A x : TouchedAt(h, j, x, p) => TouchedAt(k, j - s, x, p)
  <2>1. j \in 1..n /\ j # 1 /\ j - s \in 1..(n - s) BY <1>1
  <2>2. \A v \in h.q[j] : v \in k.q[j - s] BY <1>1, <2>1
  <2> QED BY <2>1, <2>2 DEF FilledAt, TouchedAt
<1> QED BY <1>2, <1>3, <1>6, <1>7, <1>8

(* What came between two stages of h comes between those of k.               *)
LEMMA RunBetween ==
  ASSUME NEW h, NEW w, NEW k, NEW n, NEW s, OneRun(h, w, k, n, s), NEW p \in Pages
  PROVE  /\ \A i \in 1..(n - s), j \in 1..(n - s + 1) : \A x :
              /\ Remapped(h, i + s, j + s, x, p) => Remapped(k, i, j, x, p)
              /\ Filled(h, i + s, j + s, x, p) => Filled(k, i, j, x, p)
         /\ \A j \in 1..(n - s + 1) : \A x :
              /\ Remapped(h, Origin(w, x, p), j + s, x, p) => Remapped(k, 0, j, x, p)
              /\ Filled(h, 1, j + s, x, p) => Filled(k, 0, j, x, p)
              /\ Filled(h, 0, j + s, x, p) /\ ~Fills(w, x, p) => Filled(k, 0, j, x, p)
<1>1. n \in Nat /\ n >= 1 /\ s \in {0, 1} /\ DOMAIN h.q = 1..n /\ DOMAIN k.q = 1..(n - s) BY DEF OneRun
<1>2. /\ \A y : FilledAt(h, 1, y, p) => Fills(w, y, p) \/ (s = 0 /\ FilledAt(k, 1, y, p))
      /\ \A x : TouchedAt(h, 1, x, p) => Touches(w, x, p) \/ (s = 0 /\ TouchedAt(k, 1, x, p))
      /\ \A j \in 2..n : /\ j - s \in 1..(n - s)
                         /\ \A y : FilledAt(h, j, y, p) => FilledAt(k, j - s, y, p)
                         /\ \A x : TouchedAt(h, j, x, p) => TouchedAt(k, j - s, x, p)
  BY RunStages
<1>3. ASSUME NEW i \in 0..(n - s), NEW j \in 1..(n - s + 1), NEW x, NEW o, o = i + s \/ (i = 0 /\ o = 1), o >= 1
      PROVE  /\ Remapped(h, o, j + s, x, p) => Remapped(k, i, j, x, p)
             /\ Filled(h, o, j + s, x, p) => Filled(k, i, j, x, p)
  <2>1. \A m \in 1..n : o < m /\ m < j + s => m \in 2..n /\ m - s \in 1..(n - s) /\ i < m - s /\ m - s < j
    BY <1>1, <1>3
  <2>2. Remapped(h, o, j + s, x, p) => Remapped(k, i, j, x, p) BY <1>1, <1>2, <2>1 DEF Remapped
  <2>3. Filled(h, o, j + s, x, p) => Filled(k, i, j, x, p) BY <1>1, <1>2, <2>1 DEF Filled
  <2> QED BY <2>2, <2>3
<1>4. ASSUME NEW i \in 1..(n - s), NEW j \in 1..(n - s + 1), NEW x
      PROVE  /\ Remapped(h, i + s, j + s, x, p) => Remapped(k, i, j, x, p)
             /\ Filled(h, i + s, j + s, x, p) => Filled(k, i, j, x, p)
  <2>1. i \in 0..(n - s) /\ i + s >= 1 BY <1>1
  <2> QED BY <1>3, <2>1
<1>5. ASSUME NEW j \in 1..(n - s + 1), NEW x
      PROVE  /\ Remapped(h, Origin(w, x, p), j + s, x, p) => Remapped(k, 0, j, x, p)
             /\ Filled(h, 1, j + s, x, p) => Filled(k, 0, j, x, p)
             /\ Filled(h, 0, j + s, x, p) /\ ~Fills(w, x, p) => Filled(k, 0, j, x, p)
  <2>0. 0 \in 0..(n - s) BY <1>1
  <2>1. /\ Remapped(h, 1, j + s, x, p) => Remapped(k, 0, j, x, p)
        /\ Filled(h, 1, j + s, x, p) => Filled(k, 0, j, x, p)
    BY <1>3, <2>0
  <2>2. \A m \in 1..n : 0 < m /\ m < j + s => m = 1 \/ (1 < m /\ m < j + s) BY <1>1
  <2>3. 1 < j + s /\ s = 0 => 1 \in 1..(n - s) /\ 0 < 1 /\ 1 < j BY <1>1
  <2>4. ASSUME Filled(h, 0, j + s, x, p), ~Fills(w, x, p) PROVE Filled(k, 0, j, x, p)
    <3>1. PICK m \in 1..n : 0 < m /\ m < j + s /\ FilledAt(h, m, x, p) BY <1>1, <2>4 DEF Filled
    <3>2. CASE m = 1 BY <1>1, <1>2, <2>3, <2>4, <3>1, <3>2 DEF Filled
    <3>3. CASE 1 < m
      <4>1. Filled(h, 1, j + s, x, p) BY <1>1, <3>1, <3>3 DEF Filled
      <4> QED BY <2>1, <4>1
    <3> QED BY <2>2, <3>1, <3>2, <3>3
  <2>5. ASSUME Remapped(h, 0, j + s, x, p), ~Touches(w, x, p) PROVE Remapped(k, 0, j, x, p)
    <3>1. PICK m \in 1..n : 0 < m /\ m < j + s /\ TouchedAt(h, m, x, p) BY <1>1, <2>5 DEF Remapped
    <3>2. CASE m = 1 BY <1>1, <1>2, <2>3, <2>5, <3>1, <3>2 DEF Remapped
    <3>3. CASE 1 < m
      <4>1. Remapped(h, 1, j + s, x, p) BY <1>1, <3>1, <3>3 DEF Remapped
      <4> QED BY <2>1, <4>1
    <3> QED BY <2>2, <3>1, <3>2, <3>3
  <2> QED BY <2>1, <2>4, <2>5 DEF Origin
<1> QED BY <1>4, <1>5

(* Memory after the push: it is out of date if it was and is not filled, or   *)
(* if it is freed.                                                           *)
LEMMA RunCurrent ==
  ASSUME NEW h, NEW w, NEW k, NEW n, NEW s, OneRun(h, w, k, n, s), NEW p \in Pages, HwInv(h, p),
         w.k = "copy" => w.from \in Procs, NEW y \in Procs, p \notin k.cur[y]
  PROVE  FreedAt(h, 1, y) \/ (p \notin h.cur[y] /\ ~Fills(w, y, p))
<1>1. /\ n \in Nat /\ n >= 1 /\ Len(h.q) = n /\ DOMAIN h.q = 1..n /\ w \in h.q[1] /\ 1 \in DOMAIN h.q
      /\ p \in h.cur[y] /\ ~Fills(w, y, p) /\ ~(w.k = "free" /\ w.at = y) => p \in k.cur[y]
      /\ Fills(w, y, p) /\ (w.k = "copy" => p \in h.cur[w.from]) /\ (w.k = "cap" => p \in w.good) => p \in k.cur[y]
  BY DEF OneRun
<1>2. CASE Fills(w, y, p)
  <2>1. w.k \in {"copy", "cap"} => p \in w.pages BY <1>2 DEF Fills
  <2>2. w.k = "cap" => p \in w.good BY <1>1, <2>1 DEF HwInv, CopiesFresh
  <2>3. ASSUME w.k = "copy" PROVE p \in h.cur[w.from]
    <3>1. ReadAt(h, 1, w.from, p) BY <1>1, <2>1, <2>3 DEF ReadAt
    <3>2. Fresh(h, 1, w.from, p) BY <1>1, <2>3, <3>1 DEF HwInv, CopiesFresh
    <3>3. ~Filled(h, 0, 1, w.from, p) BY <1>1 DEF Filled
    <3>4. ~Spoils(h, 0, w.from, p) BY <1>1, <3>2, <3>3 DEF Fresh
    <3> QED BY <3>4 DEF Spoils
  <2> QED BY <1>1, <1>2, <2>2, <2>3
<1>3. CASE w.k = "free" /\ w.at = y BY <1>1, <1>3 DEF FreedAt
<1> QED BY <1>1, <1>2, <1>3

(* What is up to date in a later stage stays so.                             *)
LEMMA RunFresh ==
  ASSUME NEW h, NEW w, NEW k, NEW n, NEW s, OneRun(h, w, k, n, s), NEW p \in Pages, HwInv(h, p),
         w.k = "copy" => w.from \in Procs,
         NEW t \in 1..(n - s + 1), NEW y \in Procs, Fresh(h, t + s, y, p)
  PROVE  Fresh(k, t, y, p)
<1>1. /\ n \in Nat /\ n >= 1 /\ s \in {0, 1} /\ Len(h.q) = n /\ Len(k.q) = n - s /\ w \in h.q[1]
      /\ DOMAIN k.q = 1..(n - s) /\ DOMAIN h.q = 1..n
  BY DEF OneRun
<1>2. /\ \A i \in 1..(n - s) : /\ i + s \in 1..n
                               /\ \A x : Entries(k, i, x, p) \subseteq Entries(h, i + s, x, p)
                               /\ \A z : FreedAt(k, i, z) => FreedAt(h, i + s, z)
      /\ \A x \in Procs : Entries(k, 0, x, p) \subseteq Entries(h, Origin(w, x, p), x, p)
  BY RunStages
<1>3. /\ \A i \in 1..(n - s) : Filled(h, i + s, t + s, y, p) => Filled(k, i, t, y, p)
      /\ Filled(h, 1, t + s, y, p) => Filled(k, 0, t, y, p)
      /\ Filled(h, 0, t + s, y, p) /\ ~Fills(w, y, p) => Filled(k, 0, t, y, p)
  BY RunBetween
<1>4. \A i \in 0..n : i <= t + s /\ Spoils(h, i, y, p) => Filled(h, i, t + s, y, p) BY <1>1 DEF Fresh
<1> SUFFICES ASSUME NEW i \in 0..(n - s), i <= t, Spoils(k, i, y, p) PROVE Filled(k, i, t, y, p)
  BY <1>1 DEF Fresh
<1>5. CASE i \in 1..(n - s)
  <2>1. i + s \in 1..n /\ i + s \in 0..n /\ i + s <= t + s /\ i # 0 /\ i + s # 0 BY <1>1, <1>2, <1>5
  <2>2. Spoils(h, i + s, y, p) BY <1>1, <1>2, <1>5, <2>1 DEF Spoils
  <2> QED BY <1>3, <1>4, <1>5, <2>1, <2>2
<1>6. CASE i = 0
  <2>0. 0 \in 0..n /\ 1 \in 0..n /\ 0 <= t + s /\ 1 <= t + s /\ 1 \in DOMAIN h.q BY <1>1
  <2>1. CASE p \notin k.cur[y]
    <3>1. FreedAt(h, 1, y) \/ (p \notin h.cur[y] /\ ~Fills(w, y, p)) BY <2>1, RunCurrent
    <3>2. CASE FreedAt(h, 1, y)
      <4>1. Spoils(h, 1, y, p) BY <2>0, <3>2 DEF Spoils
      <4> QED BY <1>3, <1>4, <1>6, <2>0, <4>1
    <3>3. CASE p \notin h.cur[y] /\ ~Fills(w, y, p)
      <4>1. Spoils(h, 0, y, p) BY <3>3 DEF Spoils
      <4> QED BY <1>3, <1>4, <1>6, <2>0, <3>3, <4>1
    <3> QED BY <3>1, <3>2, <3>3
  <2>2. ASSUME NEW x \in Procs, NEW e \in Entries(k, 0, x, p), e.prot >= 2, e.to # y
        PROVE  Filled(k, 0, t, y, p)
    <3>1. e \in Entries(h, Origin(w, x, p), x, p) BY <1>2, <2>2
    <3>2. Spoils(h, Origin(w, x, p), y, p) BY <2>2, <3>1 DEF Spoils
    <3>3. CASE Origin(w, x, p) = 1 BY <1>3, <1>4, <2>0, <3>2, <3>3
    <3>4. CASE Origin(w, x, p) = 0
      <4>1. Filled(h, 0, t + s, y, p) BY <1>4, <2>0, <3>2, <3>4
      <4>2. ~FilledAt(h, 1, y, p)
        <5>1. ~Remapped(h, 0, 1, x, p) BY <1>1 DEF Remapped
        <5>2. 0 \in 0..1 OBVIOUS
        <5> QED BY <2>0, <2>2, <3>1, <3>4, <5>1, <5>2 DEF HwInv, Quiet
      <4>3. ~Fills(w, y, p) BY <1>1, <4>2 DEF FilledAt
      <4> QED BY <1>3, <4>1, <4>3
    <3> QED BY <3>3, <3>4 DEF Origin
  <2>3. \/ p \notin k.cur[y]
        \/ \E x \in Procs : \E e \in Entries(k, 0, x, p) : e.prot >= 2 /\ e.to # y
    <3>1. 0 \notin DOMAIN k.q BY <1>1
    <3> QED BY <1>6, <3>1 DEF Spoils
  <2> QED BY <1>6, <2>1, <2>2, <2>3
<1> QED BY <1>1, <1>5, <1>6

(* What an entry that is in force points to is up to date.                    *)
LEMMA RunMapped ==
  ASSUME NEW h, NEW w, NEW k, NEW n, NEW s, OneRun(h, w, k, n, s), NEW p \in Pages, HwInv(h, p),
         w.k = "copy" => w.from \in Procs,
         NEW x \in Procs, NEW e \in Entries(k, 0, x, p), e.prot > 0
  PROVE  /\ e.to \in Procs
         /\ Fresh(k, 0, e.to, p)
         /\ \A i \in 1..(n - s) : Spoils(k, i, e.to, p) => Remapped(k, 0, i, x, p)
<1>1. /\ n \in Nat /\ n >= 1 /\ s \in {0, 1} /\ Len(h.q) = n /\ Len(k.q) = n - s /\ w \in h.q[1]
      /\ DOMAIN k.q = 1..(n - s) /\ DOMAIN h.q = 1..n
  BY DEF OneRun
<1>2. /\ \A i \in 1..(n - s) : /\ i + s \in 1..n
                               /\ \A z : Entries(k, i, z, p) \subseteq Entries(h, i + s, z, p)
                               /\ \A z : FreedAt(k, i, z) => FreedAt(h, i + s, z)
      /\ \A z \in Procs : Entries(k, 0, z, p) \subseteq Entries(h, Origin(w, z, p), z, p)
  BY RunStages
<1> DEFINE o == Origin(w, x, p)
<1>3. o \in {0, 1} /\ o \in 0..n /\ e \in Entries(h, o, x, p) BY <1>1, <1>2 DEF Origin
<1> HIDE DEF o
<1>4. /\ e.to \in Procs /\ Fresh(h, o, e.to, p)
      /\ \A i \in (o + 1)..n : Spoils(h, i, e.to, p) => Remapped(h, o, i, x, p)
  BY <1>1, <1>3 DEF HwInv, MapsFresh
<1>5. \A z : ~Filled(h, 0, 1, z, p) /\ ~Filled(h, 0, 0, z, p) /\ ~Filled(h, 1, 1, z, p) /\ ~Remapped(h, 0, 1, z, p)
  BY <1>1 DEF Filled, Remapped
<1>6. ~Spoils(h, 0, e.to, p) /\ ~Spoils(h, 1, e.to, p)
  <2>1. CASE o = 0
    <3>1. 0 \in 0..n /\ 0 <= 0 /\ 1 \in (0 + 1)..n BY <1>1
    <3> QED BY <1>1, <1>4, <1>5, <2>1, <3>1 DEF Fresh
  <2>2. CASE o = 1
    <3>1. 0 \in 0..n /\ 0 <= 1 /\ 1 \in 0..n /\ 1 <= 1 BY <1>1
    <3> QED BY <1>1, <1>4, <1>5, <2>2, <3>1 DEF Fresh
  <2> QED BY <1>3, <2>1, <2>2
<1>7. ~Spoils(k, 0, e.to, p)
  <2>1. p \in k.cur[e.to]
    <3>1. 1 \in DOMAIN h.q BY <1>1
    <3>2. ~FreedAt(h, 1, e.to) /\ p \in h.cur[e.to] BY <1>6, <3>1 DEF Spoils
    <3> QED BY <1>4, <3>2, RunCurrent
  <2>2. \A z \in Procs : \A f \in Entries(k, 0, z, p) : ~(f.prot >= 2 /\ f.to # e.to)
    <3> SUFFICES ASSUME NEW z \in Procs, NEW f \in Entries(k, 0, z, p), f.prot >= 2, f.to # e.to PROVE FALSE
      OBVIOUS
    <3>1. f \in Entries(h, Origin(w, z, p), z, p) BY <1>2
    <3>2. Spoils(h, Origin(w, z, p), e.to, p) BY <3>1 DEF Spoils
    <3> QED BY <1>6, <3>2 DEF Origin
  <2>3. 0 \notin DOMAIN k.q BY <1>1
  <2> QED BY <2>1, <2>2, <2>3 DEF Spoils
<1>8. Fresh(k, 0, e.to, p)
  <2>1. \A i \in 0..(n - s) : i <= 0 => i = 0 BY <1>1
  <2> QED BY <1>1, <1>7, <2>1 DEF Fresh
<1>9. ASSUME NEW i \in 1..(n - s), Spoils(k, i, e.to, p) PROVE Remapped(k, 0, i, x, p)
  <2>1. i # 0 /\ i + s # 0 /\ i + s \in 1..n BY <1>1, <1>2
  <2>2. Spoils(h, i + s, e.to, p) BY <1>1, <1>2, <1>9, <2>1 DEF Spoils
  <2>3. i + s # 1 BY <1>6, <2>2
  <2>4. i + s \in (o + 1)..n BY <1>1, <1>3, <2>1, <2>3
  <2>5. Remapped(h, Origin(w, x, p), i + s, x, p) BY <1>4, <2>2, <2>4 DEF o
  <2>6. i \in 1..(n - s + 1) BY <1>1
  <2> QED BY <2>5, <2>6, RunBetween
<1> QED BY <1>4, <1>8, <1>9

(* A push runs.                                                              *)
LEMMA RunPage ==
  ASSUME NEW h, NEW w, NEW k, NEW n, NEW s, OneRun(h, w, k, n, s), NEW p \in Pages, NEW b, PageInv(h, b, p),
         w.k = "copy" => w.from \in Procs
  PROVE  PageInv(k, b, p)
<1>0. HwInv(h, p) BY DEF PageInv, HwInv
<1>1. /\ n \in Nat /\ n >= 1 /\ s \in {0, 1} /\ Len(h.q) = n /\ Len(k.q) = n - s /\ w \in h.q[1]
      /\ DOMAIN k.q = 1..(n - s) /\ DOMAIN h.q = 1..n
  BY DEF OneRun
<1>2. /\ \A i \in 1..(n - s) : /\ i + s \in 1..n
                               /\ \A x : Entries(k, i, x, p) \subseteq Entries(h, i + s, x, p)
                               /\ \A y : FilledAt(k, i, y, p) => FilledAt(h, i + s, y, p)
                               /\ \A y : ReadAt(k, i, y, p) => ReadAt(h, i + s, y, p)
                               /\ \A y : FreedAt(k, i, y) => FreedAt(h, i + s, y)
      /\ \A x \in Procs : Entries(k, 0, x, p) \subseteq Entries(h, Origin(w, x, p), x, p)
  BY RunStages
<1>3. \A i \in 1..(n - s), j \in 1..(n - s + 1) : \A x : Remapped(h, i + s, j + s, x, p) => Remapped(k, i, j, x, p)
  BY RunBetween
<1>4. \A j \in 1..(n - s + 1) : \A x : Remapped(h, Origin(w, x, p), j + s, x, p) => Remapped(k, 0, j, x, p)
  BY RunBetween
<1>5. \A t \in 1..(n - s + 1), y \in Procs : Fresh(h, t + s, y, p) => Fresh(k, t, y, p) BY <1>0, RunFresh
<1>6. \A x : Origin(w, x, p) \in {0, 1} /\ Origin(w, x, p) \in 0..n BY <1>1 DEF Origin
<1>7. \A i \in 0..(n - s) : i = 0 \/ i \in 1..(n - s) BY <1>1
<1>8. \A i \in 1..(n - s) : i \in 1..(n - s + 1) /\ i + s \in DOMAIN h.q /\ i + s \in 0..n BY <1>1, <1>2
<1>9. Quiet(k, p)
  <2> SUFFICES ASSUME NEW j \in 1..(n - s), NEW y \in Procs, FilledAt(k, j, y, p),
                      NEW i \in 0..j, NEW x \in Procs, NEW e \in Entries(k, i, x, p), e.prot >= 2
               PROVE  Remapped(k, i, j, x, p)
    BY <1>1 DEF Quiet
  <2>1. FilledAt(h, j + s, y, p) /\ j + s \in DOMAIN h.q /\ j \in 1..(n - s + 1) BY <1>2, <1>8
  <2>2. CASE i = 0
    <3>1. e \in Entries(h, Origin(w, x, p), x, p) BY <1>2, <2>2
    <3>2. Origin(w, x, p) \in 0..(j + s) BY <1>1, <1>6
    <3>3. Remapped(h, Origin(w, x, p), j + s, x, p) BY <1>0, <2>1, <3>1, <3>2 DEF HwInv, Quiet
    <3> QED BY <1>4, <2>1, <2>2, <3>3
  <2>3. CASE i # 0
    <3>1. i \in 1..(n - s) /\ i + s \in 0..(j + s) BY <1>1, <2>3
    <3>2. e \in Entries(h, i + s, x, p) BY <1>2, <3>1
    <3>3. Remapped(h, i + s, j + s, x, p) BY <1>0, <2>1, <3>1, <3>2 DEF HwInv, Quiet
    <3> QED BY <1>3, <2>1, <3>1, <3>3
  <2> QED BY <2>2, <2>3
<1>10. CopiesFresh(k, p)
  <2> SUFFICES ASSUME NEW j \in 1..(n - s)
               PROVE  /\ \A y \in Procs : ReadAt(k, j, y, p) => Fresh(k, j, y, p)
                      /\ \A v \in k.q[j] : v.k = "cap" /\ p \in v.pages => p \in v.good
    BY <1>1 DEF CopiesFresh
  <2>1. \A y \in Procs : ReadAt(k, j, y, p) => Fresh(k, j, y, p)
    BY <1>0, <1>2, <1>5, <1>8 DEF HwInv, CopiesFresh
  <2>2. k.q[j] \subseteq h.q[j + s] BY DEF OneRun
  <2> QED BY <1>0, <1>8, <2>1, <2>2 DEF HwInv, CopiesFresh
<1>11. MapsFresh(k, p)
  <2> SUFFICES ASSUME NEW t \in 0..(n - s), NEW x \in Procs, NEW e \in Entries(k, t, x, p), e.prot > 0
               PROVE  /\ e.to \in Procs
                      /\ Fresh(k, t, e.to, p)
                      /\ \A i \in (t + 1)..(n - s) : Spoils(k, i, e.to, p) => Remapped(k, t, i, x, p)
    BY <1>1 DEF MapsFresh
  <2>1. CASE t = 0
    <3>1. (t + 1)..(n - s) = 1..(n - s) BY <2>1
    <3> QED BY <1>0, <2>1, <3>1, RunMapped
  <2>2. CASE t \in 1..(n - s)
    <3>1. e \in Entries(h, t + s, x, p) /\ t + s \in 0..n BY <1>2, <1>8, <2>2
    <3>2. /\ e.to \in Procs /\ Fresh(h, t + s, e.to, p)
          /\ \A i \in (t + s + 1)..n : Spoils(h, i, e.to, p) => Remapped(h, t + s, i, x, p)
      BY <1>0, <1>1, <3>1 DEF HwInv, MapsFresh
    <3>3. ASSUME NEW i \in (t + 1)..(n - s), Spoils(k, i, e.to, p) PROVE Remapped(k, t, i, x, p)
      <4>1. i \in 1..(n - s) /\ i # 0 /\ i + s # 0 /\ i + s \in (t + s + 1)..n BY <1>1, <2>2
      <4>2. Spoils(h, i + s, e.to, p) BY <1>1, <1>2, <1>8, <3>3, <4>1 DEF Spoils
      <4> QED BY <1>3, <1>8, <2>2, <3>2, <4>1, <4>2
    <3> QED BY <1>5, <1>8, <2>2, <3>2, <3>3
  <2> QED BY <1>7, <2>1, <2>2
<1>12. HeldFresh(k, b, p)
  <2>1. (n - s) + 1 \in 1..(n - s + 1) /\ (n - s + 1) + s = n + 1 BY <1>1
  <2> QED BY <1>1, <1>5, <2>1 DEF PageInv, HeldFresh
<1>13. LastAimed(k, b, p)
  <2> SUFFICES ASSUME NEW t \in 0..(n - s), NEW x \in Procs, NEW e \in Entries(k, t, x, p),
                      ~Remapped(k, t, n - s + 1, x, p)
               PROVE  Aimed(b, x, p, e)
    BY <1>1 DEF LastAimed
  <2>1. n - s + 1 \in 1..(n - s + 1) /\ (n - s + 1) + s = n + 1 BY <1>1
  <2>2. CASE t = 0
    <3>1. ~Remapped(h, Origin(w, x, p), n + 1, x, p) BY <1>4, <2>1, <2>2
    <3> QED BY <1>1, <1>2, <1>6, <2>2, <3>1 DEF PageInv, LastAimed
  <2>3. CASE t \in 1..(n - s)
    <3>1. ~Remapped(h, t + s, n + 1, x, p) BY <1>3, <2>1, <2>3
    <3> QED BY <1>1, <1>2, <1>8, <2>3, <3>1 DEF PageInv, LastAimed
  <2> QED BY <1>7, <2>2, <2>3
<1>14. NowhereUnmapped(k, b, p) BY <1>1, <1>2, <1>6, <1>7, <1>8 DEF PageInv, NowhereUnmapped
<1> QED BY <1>9, <1>10, <1>11, <1>12, <1>13, <1>14 DEF PageInv

(* k has the page tables and pushes of h; encrypted data may have aged on c.  *)
SameWork(h, k, c) ==
  /\ k.pte = h.pte /\ Len(k.q) = Len(h.q) /\ DOMAIN k.q = DOMAIN h.q
  /\ Len(h.q) \in Nat /\ DOMAIN h.q = 1..Len(h.q)
  /\ \A i \in DOMAIN h.q :
       /\ \A w : w.k # "cap" => (w \in k.q[i] <=> w \in h.q[i])
       /\ \A w \in h.q[i] : w.k = "cap" => \E v \in k.q[i] : v.k = "cap" /\ v.to = w.to /\ v.pages = w.pages
       /\ \A v \in k.q[i] : v.k = "cap" =>
            \E w \in h.q[i] : w.k = "cap" /\ v.to = w.to /\ v.pages = w.pages /\ v.good = w.good \ {c}

(* A write to memory z.                                                      *)
Overwritten(h, k, z, c) ==
  /\ SameWork(h, k, c) /\ k.cur = [x \in Procs |-> k.cur[x]]
  /\ \A y \in Procs : k.cur[y] = IF y = z THEN h.cur[y] \cup {c} ELSE h.cur[y] \ {c}

(* A write changes which copies are current, and no page table or push.     *)
LEMMA WrittenWork ==
  ASSUME NEW h, HwOK(h), h.cur = [x \in Procs |-> h.cur[x]], NEW z, NEW c, NEW k, k = Written(h, z, c)
  PROVE  Overwritten(h, k, z, c)
<1> DEFINE F(w) == IF w.k = "cap" THEN [w EXCEPT !.good = @ \ {c}] ELSE w
           q == [i \in DOMAIN h.q |-> {F(w) : w \in h.q[i]}]
           C == [y \in Procs |-> IF y = z THEN h.cur[y] \cup {c} ELSE h.cur[y] \ {c}]
<1>1. \A w : w.k # "cap" => F(w) = w OBVIOUS
<1>2. ASSUME NEW w, w.k = "cap", PushOK(w)
      PROVE  F(w).k = "cap" /\ F(w).to = w.to /\ F(w).pages = w.pages /\ F(w).good = w.good \ {c}
  <2>1. w = [k |-> "cap", to |-> w.to, pages |-> w.pages, good |-> w.good] BY <1>2 DEF PushOK
  <2>2. F(w) = [k |-> "cap", to |-> w.to, pages |-> w.pages, good |-> w.good \ {c}] BY <1>2, <2>1
  <2> QED BY <2>2
<1>3. k = [h EXCEPT !.cur = C, !.q = q] BY DEF Written
<1>4. \A i \in DOMAIN h.q : /\ \A w \in h.q[i] : F(w) \in q[i]
                            /\ \A v \in q[i] : \E w \in h.q[i] : v = F(w)
  OBVIOUS
<1>5. DOMAIN q = DOMAIN h.q OBVIOUS
<1>6. IsSeq(h.q) BY DEF HwOK
<1>7. Len(h.q) \in Nat /\ DOMAIN h.q = 1..Len(h.q) BY <1>6 DEF IsSeq
<1>8. Len(q) = Len(h.q)
  <2>1. q = [i \in 1..Len(h.q) |-> q[i]] BY <1>7
  <2> HIDE DEF q
  <2> QED BY <1>7, <2>1, SeqOf
<1>9. C = [x \in Procs |-> C[x]] /\ \A y \in Procs : C[y] = IF y = z THEN h.cur[y] \cup {c} ELSE h.cur[y] \ {c}
  OBVIOUS
<1>10. \A i \in DOMAIN h.q : \A w \in h.q[i] : PushOK(w) BY DEF HwOK
<1> HIDE DEF F, q, C
<1>11. k = [cur |-> C, pte |-> h.pte, q |-> q] BY <1>3 DEF HwOK
<1>12. k.cur = C /\ k.pte = h.pte /\ k.q = q BY <1>11
<1>13. ASSUME NEW i \in DOMAIN h.q
       PROVE  /\ \A w : w.k # "cap" => (w \in q[i] <=> w \in h.q[i])
              /\ \A w \in h.q[i] : w.k = "cap" => \E v \in q[i] : v.k = "cap" /\ v.to = w.to /\ v.pages = w.pages
              /\ \A v \in q[i] : v.k = "cap" =>
                   \E w \in h.q[i] : w.k = "cap" /\ v.to = w.to /\ v.pages = w.pages /\ v.good = w.good \ {c}
  <2>1. \A w : w.k # "cap" => (w \in q[i] <=> w \in h.q[i]) BY <1>1, <1>2, <1>4, <1>10
  <2>2. \A w \in h.q[i] : w.k = "cap" => \E v \in q[i] : v.k = "cap" /\ v.to = w.to /\ v.pages = w.pages
    BY <1>2, <1>4, <1>10
  <2>3. ASSUME NEW v \in q[i], v.k = "cap"
        PROVE  \E w \in h.q[i] : w.k = "cap" /\ v.to = w.to /\ v.pages = w.pages /\ v.good = w.good \ {c}
    <3>1. PICK w \in h.q[i] : v = F(w) BY <1>4
    <3>2. w.k = "cap" BY <1>1, <2>3, <3>1
    <3> QED BY <1>2, <1>10, <3>1, <3>2
  <2> QED BY <2>1, <2>2, <2>3
<1>14. SameWork(h, k, c) BY <1>5, <1>7, <1>8, <1>12, <1>13 DEF SameWork
<1> QED BY <1>9, <1>12, <1>14 DEF Overwritten

(* The same work for page p.                                                 *)
SamePage(h, k, p) ==
  /\ Len(k.q) = Len(h.q) /\ DOMAIN k.q = DOMAIN h.q /\ Len(h.q) \in Nat /\ DOMAIN h.q = 1..Len(h.q)
  /\ \A i \in 0..Len(h.q) : \A x : Entries(k, i, x, p) = Entries(h, i, x, p)
  /\ \A i \in DOMAIN h.q : \A y : /\ FilledAt(k, i, y, p) <=> FilledAt(h, i, y, p)
                                  /\ ReadAt(k, i, y, p) <=> ReadAt(h, i, y, p)
                                  /\ FreedAt(k, i, y) <=> FreedAt(h, i, y)
  /\ \A i, j, x : /\ Remapped(k, i, j, x, p) <=> Remapped(h, i, j, x, p)
                  /\ Filled(k, i, j, x, p) <=> Filled(h, i, j, x, p)

(* While the pushes stay the same, so do their stages for a page.           *)
LEMMA WorkPage ==
  ASSUME NEW h, NEW k, NEW c, SameWork(h, k, c), NEW p PROVE SamePage(h, k, p)
<1>1. /\ k.pte = h.pte /\ Len(k.q) = Len(h.q) /\ DOMAIN k.q = DOMAIN h.q
      /\ Len(h.q) \in Nat /\ DOMAIN h.q = 1..Len(h.q)
  BY DEF SameWork
<1>2. \A i \in DOMAIN h.q : \A w, x : Touches(w, x, p) => (w \in k.q[i] <=> w \in h.q[i])
  BY DEF SameWork, Touches
<1>3. ASSUME NEW i \in 0..Len(h.q), NEW x PROVE Entries(k, i, x, p) = Entries(h, i, x, p)
  <2>1. CASE i = 0 BY <1>1, <2>1 DEF Entries
  <2>2. CASE i \in DOMAIN h.q
    <3>1. {w \in k.q[i] : Touches(w, x, p)} = {w \in h.q[i] : Touches(w, x, p)} BY <1>2, <2>2
    <3>2. i # 0 BY <1>1, <2>2
    <3> QED BY <3>1, <3>2 DEF Entries
  <2> QED BY <1>1, <2>1, <2>2
<1>4. \A i \in DOMAIN h.q : \A x : TouchedAt(k, i, x, p) <=> TouchedAt(h, i, x, p) BY <1>2 DEF TouchedAt
<1>5. ASSUME NEW i \in DOMAIN h.q, NEW y
      PROVE  /\ FilledAt(k, i, y, p) <=> FilledAt(h, i, y, p)
             /\ ReadAt(k, i, y, p) <=> ReadAt(h, i, y, p)
             /\ FreedAt(k, i, y) <=> FreedAt(h, i, y)
  <2>0. /\ \A w : w.k # "cap" => (w \in k.q[i] <=> w \in h.q[i])
        /\ \A w \in h.q[i] : w.k = "cap" => \E v \in k.q[i] : v.k = "cap" /\ v.to = w.to /\ v.pages = w.pages
        /\ \A v \in k.q[i] : v.k = "cap" =>
            \E w \in h.q[i] : w.k = "cap" /\ v.to = w.to /\ v.pages = w.pages /\ v.good = w.good \ {c}
    BY DEF SameWork
  <2>1. FilledAt(h, i, y, p) => FilledAt(k, i, y, p)
    <3> SUFFICES ASSUME NEW w \in h.q[i], Fills(w, y, p) PROVE FilledAt(k, i, y, p) BY DEF FilledAt
    <3>1. CASE w.k # "cap" BY <2>0, <3>1 DEF FilledAt
    <3>2. CASE w.k = "cap"
      <4>1. PICK v \in k.q[i] : v.k = "cap" /\ v.to = w.to /\ v.pages = w.pages BY <2>0, <3>2
      <4> QED BY <3>2, <4>1 DEF Fills, FilledAt
    <3> QED BY <3>1, <3>2
  <2>2. FilledAt(k, i, y, p) => FilledAt(h, i, y, p)
    <3> SUFFICES ASSUME NEW w \in k.q[i], Fills(w, y, p) PROVE FilledAt(h, i, y, p) BY DEF FilledAt
    <3>1. CASE w.k # "cap" BY <2>0, <3>1 DEF FilledAt
    <3>2. CASE w.k = "cap"
      <4>1. PICK v \in h.q[i] : v.k = "cap" /\ w.to = v.to /\ w.pages = v.pages BY <2>0, <3>2
      <4> QED BY <3>2, <4>1 DEF Fills, FilledAt
    <3> QED BY <3>1, <3>2
  <2>3. ReadAt(k, i, y, p) <=> ReadAt(h, i, y, p) BY <2>0 DEF ReadAt
  <2>4. FreedAt(k, i, y) <=> FreedAt(h, i, y) BY <2>0 DEF FreedAt
  <2> QED BY <2>1, <2>2, <2>3, <2>4
<1>6. \A i, j, x : /\ Remapped(k, i, j, x, p) <=> Remapped(h, i, j, x, p)
                   /\ Filled(k, i, j, x, p) <=> Filled(h, i, j, x, p)
  BY <1>1, <1>4, <1>5 DEF Remapped, Filled
<1> QED BY <1>1, <1>3, <1>5, <1>6 DEF SamePage

(* The same work, and no memory is out of date that could not have been.      *)
LEMMA SamePageInv ==
  ASSUME NEW h, NEW k, NEW p, NEW b, SamePage(h, k, p), PageInv(h, b, p),
         \A y : p \notin k.cur[y] => y \notin Procs \/ Spoils(h, 0, y, p),
         \A i \in DOMAIN k.q : \A v \in k.q[i] : v.k = "cap" /\ p \in v.pages => p \in v.good
  PROVE  PageInv(k, b, p)
<1>1. /\ Len(k.q) = Len(h.q) /\ DOMAIN k.q = DOMAIN h.q /\ Len(h.q) \in Nat /\ DOMAIN h.q = 1..Len(h.q)
      /\ \A i \in 0..Len(h.q) : \A x : Entries(k, i, x, p) = Entries(h, i, x, p)
      /\ \A i \in DOMAIN h.q : \A y : /\ FilledAt(k, i, y, p) <=> FilledAt(h, i, y, p)
                                      /\ ReadAt(k, i, y, p) <=> ReadAt(h, i, y, p)
                                      /\ FreedAt(k, i, y) <=> FreedAt(h, i, y)
      /\ \A i, j, x : /\ Remapped(k, i, j, x, p) <=> Remapped(h, i, j, x, p)
                      /\ Filled(k, i, j, x, p) <=> Filled(h, i, j, x, p)
  BY DEF SamePage
<1>2. ASSUME NEW i \in 0..Len(h.q), NEW y \in Procs, Spoils(k, i, y, p) PROVE Spoils(h, i, y, p)
  BY <1>1, <1>2 DEF Spoils
<1>3. \A t : \A y \in Procs : Fresh(h, t, y, p) => Fresh(k, t, y, p) BY <1>1, <1>2 DEF Fresh
<1>4. Quiet(k, p)
  <2> SUFFICES ASSUME NEW j \in DOMAIN h.q, NEW y \in Procs, FilledAt(k, j, y, p), NEW i \in 0..j,
                      NEW x \in Procs, NEW e \in Entries(k, i, x, p), e.prot >= 2
               PROVE  Remapped(k, i, j, x, p)
    BY <1>1 DEF Quiet
  <2>1. i \in 0..Len(h.q) BY <1>1
  <2> QED BY <1>1, <2>1 DEF PageInv, Quiet
<1>5. CopiesFresh(k, p) BY <1>1, <1>3 DEF PageInv, CopiesFresh
<1>6. MapsFresh(k, p)
  <2> SUFFICES ASSUME NEW t \in 0..Len(h.q), NEW x \in Procs, NEW e \in Entries(h, t, x, p), e.prot > 0
               PROVE  /\ e.to \in Procs
                      /\ Fresh(k, t, e.to, p)
                      /\ \A i \in (t + 1)..Len(h.q) : Spoils(k, i, e.to, p) => Remapped(k, t, i, x, p)
    BY <1>1 DEF MapsFresh
  <2>1. /\ e.to \in Procs /\ Fresh(h, t, e.to, p)
        /\ \A i \in (t + 1)..Len(h.q) : Spoils(h, i, e.to, p) => Remapped(h, t, i, x, p)
    BY DEF PageInv, MapsFresh
  <2>2. \A i \in (t + 1)..Len(h.q) : i \in 0..Len(h.q) BY <1>1
  <2> QED BY <1>1, <1>2, <1>3, <2>1, <2>2
<1>7. HeldFresh(k, b, p) BY <1>1, <1>3 DEF PageInv, HeldFresh
<1>8. LastAimed(k, b, p) BY <1>1 DEF PageInv, LastAimed
<1>9. NowhereUnmapped(k, b, p) BY <1>1 DEF PageInv, NowhereUnmapped
<1> QED BY <1>4, <1>5, <1>6, <1>7, <1>8, <1>9 DEF PageInv

(* A write through a page table entry, or past them where there is one copy    *)
(* and nothing is under way.                                                 *)
LEMMA WrittenPage ==
  ASSUME NEW h, HwOK(h), PushInv(h), NEW z \in Procs, NEW c \in Pages, NEW k, k = Written(h, z, c), NEW b,
         \A p \in Pages : PageInv(h, b, p),
         \/ \E x \in Procs : h.pte[x][c].prot >= 2 /\ h.pte[x][c].to = z
         \/ h.q = <<>> /\ Here(b, c) = {z}
  PROVE  \A p \in Pages : PageInv(k, b, p)
<1>0. h.cur = [x \in Procs |-> h.cur[x]] BY DEF PushInv
<1>1. /\ SameWork(h, k, c)
      /\ \A y \in Procs : k.cur[y] = IF y = z THEN h.cur[y] \cup {c} ELSE h.cur[y] \ {c}
  <2>1. Overwritten(h, k, z, c) BY <1>0, WrittenWork
  <2> QED BY <2>1 DEF Overwritten
<1>2. \A p : SamePage(h, k, p) BY <1>1, WorkPage
<1>3. DOMAIN k.q = DOMAIN h.q /\ DOMAIN h.q = 1..Len(h.q) /\ Len(h.q) \in Nat BY <1>1 DEF SameWork
<1> SUFFICES ASSUME NEW p \in Pages PROVE PageInv(k, b, p) OBVIOUS
<1>4. CASE p # c
  <2>1. \A y : p \notin k.cur[y] => y \notin Procs \/ Spoils(h, 0, y, p) BY <1>1, <1>4 DEF Spoils
  <2>2. ASSUME NEW i \in DOMAIN k.q, NEW v \in k.q[i], v.k = "cap", p \in v.pages PROVE p \in v.good
    <3>1. PICK w \in h.q[i] : w.k = "cap" /\ v.to = w.to /\ v.pages = w.pages /\ v.good = w.good \ {c}
      BY <1>1, <1>3, <2>2 DEF SameWork
    <3>2. p \in w.good BY <1>3, <2>2, <3>1 DEF PageInv, CopiesFresh
    <3> QED BY <1>4, <3>1, <3>2
  <2> QED BY <1>2, <2>1, <2>2, SamePageInv
<1>5. CASE p = c /\ \E x \in Procs : h.pte[x][c].prot >= 2 /\ h.pte[x][c].to = z
  <2>1. PICK x \in Procs : h.pte[x][p].prot >= 2 /\ h.pte[x][p].to = z BY <1>5
  <2>2. h.pte[x][p] \in Entries(h, 0, x, p) BY DEF Entries
  <2>3. \A y : p \notin k.cur[y] => y \notin Procs \/ Spoils(h, 0, y, p) BY <1>1, <1>5, <2>1, <2>2 DEF Spoils
  <2>4. ASSUME NEW i \in DOMAIN k.q, NEW v \in k.q[i], v.k = "cap", p \in v.pages PROVE FALSE
    <3>1. PICK w \in h.q[i] : w.k = "cap" /\ v.to = w.to /\ v.pages = w.pages /\ v.good = w.good \ {c}
      BY <1>1, <1>3, <2>4 DEF SameWork
    <3>2. i = 1 /\ w.to \in Procs BY <1>3, <3>1 DEF PushInv
    <3>3. FilledAt(h, 1, w.to, p) BY <2>4, <3>1, <3>2 DEF FilledAt, Fills
    <3>4. 1 \in DOMAIN h.q /\ 0 \in 0..1 BY <1>3, <3>2
    <3>5. Remapped(h, 0, 1, x, p) BY <2>1, <2>2, <3>2, <3>3, <3>4 DEF PageInv, Quiet
    <3> QED BY <1>3, <3>5 DEF Remapped
  <2> QED BY <1>2, <2>3, <2>4, SamePageInv
<1>6. CASE p = c /\ h.q = <<>> /\ Here(b, c) = {z}
  <2>1. Len(h.q) = 0 /\ Len(k.q) = 0 /\ DOMAIN k.q = {} /\ DOMAIN h.q = {} /\ \A x : Entries(k, 0, x, p) = Entries(h, 0, x, p)
    <3>1. Len(h.q) = 0 BY <1>6
    <3> QED BY <1>2, <1>3, <3>1 DEF SamePage
  <2>2. \A i, j, x : ~Remapped(h, i, j, x, p) /\ ~Remapped(k, i, j, x, p) BY <2>1 DEF Remapped
  <2>3. 0..0 = {0} OBVIOUS
  <2>4. \A x \in Procs : \A e \in Entries(k, 0, x, p) : Aimed(b, x, p, e)
    BY <2>1, <2>2, <2>3 DEF PageInv, LastAimed
  <2>5. ~Spoils(k, 0, z, p) BY <1>1, <1>6, <2>1, <2>4 DEF Spoils, Aimed
  <2>6. \A t : Fresh(k, t, z, p) BY <2>1, <2>3, <2>5 DEF Fresh
  <2>7. Quiet(k, p) /\ CopiesFresh(k, p) BY <2>1 DEF Quiet, CopiesFresh
  <2>8. MapsFresh(k, p)
    <3>1. \A x \in Procs : \A e \in Entries(k, 0, x, p) : e.prot > 0 => e.to = z BY <1>6, <2>4 DEF Aimed
    <3>2. (0 + 1)..0 = {} OBVIOUS
    <3> QED BY <2>1, <2>3, <2>6, <3>1, <3>2 DEF MapsFresh
  <2>9. HeldFresh(k, b, p)
    <3>1. \A y : Holds(b, y, p) => y = z BY <1>6 DEF Holds
    <3> QED BY <2>6, <3>1 DEF HeldFresh
  <2>10. LastAimed(k, b, p) BY <2>1, <2>3, <2>4 DEF LastAimed
  <2>11. NowhereUnmapped(k, b, p) BY <1>6 DEF NowhereUnmapped
  <2> QED BY <2>7, <2>8, <2>9, <2>10, <2>11 DEF PageInv
<1> QED BY <1>4, <1>5, <1>6

(* A sequence of stages has a length.                                        *)
LEMMA HwLen ==
  ASSUME NEW h, HwOK(h) PROVE Len(h.q) \in Nat /\ DOMAIN h.q = 1..Len(h.q)
<1>1. PICK q : q = h.q OBVIOUS
<1>2. IsSeq(q) BY <1>1 DEF HwOK
<1>3. q \in Seq({q[i] : i \in DOMAIN q}) BY <1>2 DEF IsSeq
<1> QED BY <1>1, <1>3

(* The pushes that the model makes.                                          *)
PushTyped(w, i) ==
  /\ w.k = "pte" => \A p \in DOMAIN w.set : w.set[p].prot \in 0..3
  /\ w.k = "copy" => {w.from, w.to} \subseteq Procs
  /\ w.k = "cap" => w.to \in Procs /\ i = 1
  /\ w.k \in {"zero", "free"} => w.at \in mode.gpus

(* Pushes of the right form, one stage more.                                *)
LEMMA PushInvStage ==
  ASSUME NEW h, NEW S, NEW k, NEW n, Stages(h, S, k, n), PushInv(h), \A w \in S : PushTyped(w, n + 1)
  PROVE  PushInv(k)
<1>1. /\ n \in Nat /\ DOMAIN h.q = 1..n /\ DOMAIN k.q = 1..(n + 1) /\ k.cur = h.cur /\ k.pte = h.pte
      /\ k.q[n + 1] = S /\ \A i \in 1..n : k.q[i] = h.q[i]
  BY DEF Stages
<1>2. \A i \in DOMAIN k.q : i \in DOMAIN h.q \/ i = n + 1 BY <1>1
<1>3. \A i \in DOMAIN k.q : \A w \in k.q[i] : PushTyped(w, i) BY <1>1, <1>2 DEF PushInv, PushTyped
<1> QED BY <1>1, <1>3 DEF PushInv, PushTyped

(* The CPU's page table changes at once.                                     *)
CpuSet(h, r, c) ==
  /\ HwOK(c) /\ c.cur = h.cur /\ c.q = h.q
  /\ \A g \in mode.gpus : c.pte[g] = h.pte[g]
  /\ \A p \in Pages : c.pte["cpu"][p] = IF p \in DOMAIN r THEN r[p] ELSE h.pte["cpu"][p]

(* What CpuPtes returns.                                                    *)
LEMMA CpuPtesFacts ==
  ASSUME mode \in Modes, NEW h, HwOK(h), NEW r, NEW c, c = CpuPtes(h, r)
  PROVE  CpuSet(h, r, c)
<1> DEFINE e == [p \in Pages |-> IF p \in DOMAIN r THEN r[p] ELSE h.pte["cpu"][p]]
           f == [h.pte EXCEPT !["cpu"] = e]
<1>1. h = [cur |-> h.cur, pte |-> h.pte, q |-> h.q] /\ h.pte = [x \in Procs |-> h.pte[x]] BY DEF HwOK
<1>2. c = [h EXCEPT !.pte = f] BY DEF CpuPtes
<1>3. \A p \in Pages : e[p] = IF p \in DOMAIN r THEN r[p] ELSE h.pte["cpu"][p] OBVIOUS
<1> HIDE DEF e
<1>4. "cpu" \notin mode.gpus /\ mode.gpus \subseteq Procs /\ "cpu" \in Procs BY ProcFacts
<1>5. f["cpu"] = e /\ \A g \in mode.gpus : f[g] = h.pte[g] BY <1>1, <1>4
<1>6. f = [x \in Procs |-> f[x]] BY <1>1
<1> HIDE DEF f
<1>7. c = [cur |-> h.cur, pte |-> f, q |-> h.q] BY <1>1, <1>2, HwPart
<1>8. c.cur = h.cur /\ c.pte = f /\ c.q = h.q BY <1>7
<1>9. c = [cur |-> c.cur, pte |-> c.pte, q |-> c.q] BY <1>7, <1>8
<1>10. HwOK(c) BY <1>6, <1>8, <1>9 DEF HwOK
<1> QED BY <1>3, <1>5, <1>8, <1>10 DEF CpuSet

(* A change of mappings that points to copies of block b.                     *)
Good(h, b, R) ==
  /\ \A x \in Procs : \A p \in DOMAIN R[x] : R[x][p].prot \in 0..3
  /\ \A x \in Procs : \A p \in DOMAIN R[x] : p \in Pages => Aimed(b, x, p, R[x][p])
  /\ (\E p \in DOMAIN R["cpu"] : R["cpu"][p].prot > 0) => h.q = <<>>

(* d is block b with change R recorded.                                       *)
Recorded(b, R, d) ==
  /\ d.resident = b.resident /\ d.readdup = b.readdup /\ d.chunk = b.chunk /\ d.alloc = b.alloc
  /\ \A x \in Procs, p \in Pages : d.prot[x][p] = IF p \in DOMAIN R[x] THEN R[x][p].prot ELSE b.prot[x][p]

(* Recording a change of mappings moves no page.                            *)
LEMMA RecordedSame ==
  ASSUME NEW b, NEW R, NEW d, Recorded(b, R, d), NEW p
  PROVE  /\ Here(d, p) = Here(b, p) /\ (\A y : Holds(d, y, p) <=> Holds(b, y, p))
         /\ \A x, e : Aimed(d, x, p, e) <=> Aimed(b, x, p, e)
<1>1. d.resident = b.resident /\ d.readdup = b.readdup /\ d.chunk = b.chunk /\ d.alloc = b.alloc BY DEF Recorded
<1>2. Here(d, p) = Here(b, p) BY <1>1 DEF Here
<1> QED BY <1>1, <1>2 DEF Holds, Aimed

(* A change of mappings, with the driver's record of it.                      *)
LEMMA PteStep ==
  ASSUME mode \in Modes, NEW h, HwOK(h), NEW b, InOrder(h, b), NEW R, Good(h, b, R), NEW d, Recorded(b, R, d)
  PROVE  InOrder(Ptes(h, R), d)
<1> DEFINE c == CpuPtes(h, R["cpu"])
           S == {[k |-> "pte", at |-> g, set |-> R[g]] : g \in {g \in mode.gpus : DOMAIN R[g] # {}}}
           k == Ptes(h, R)
<1>1. k = Push(c, S) BY DEF Ptes
<1>2. \A w \in S : w.k = "pte" /\ w.at \in mode.gpus /\ w.set = R[w.at] OBVIOUS
<1>3. CpuSet(h, R["cpu"], c) BY CpuPtesFacts
<1> HIDE DEF c, S, k
<1>4. "cpu" \notin mode.gpus /\ mode.gpus \subseteq Procs /\ "cpu" \in Procs /\ Procs = {"cpu"} \cup mode.gpus
  BY ProcFacts
<1>5. Len(h.q) \in Nat /\ DOMAIN h.q = 1..Len(h.q) BY HwLen
<1>6. \A p \in Pages : PageInv(c, b, p)
  <2> SUFFICES ASSUME NEW p \in Pages PROVE PageInv(c, b, p) OBVIOUS
  <2>1. c.cur = h.cur /\ c.q = h.q /\ \A z \in Procs : z # "cpu" => c.pte[z][p] = h.pte[z][p]
    BY <1>3, <1>4 DEF CpuSet
  <2>2. c.pte["cpu"][p] = IF p \in DOMAIN R["cpu"] THEN R["cpu"][p] ELSE h.pte["cpu"][p] BY <1>3 DEF CpuSet
  <2>3. PageInv(h, b, p) BY DEF InOrder
  <2>4. CASE p \notin DOMAIN R["cpu"] BY <1>4, <1>5, <2>1, <2>2, <2>3, <2>4, EntryChange
  <2>5. CASE p \in DOMAIN R["cpu"]
    <3>1. c.pte["cpu"][p].prot \in 0..3 /\ Aimed(b, "cpu", p, c.pte["cpu"][p]) BY <1>4, <2>2, <2>5 DEF Good
    <3>2. c.pte["cpu"][p].prot = 0 \/ Len(h.q) = 0
      <4>1. c.pte["cpu"][p].prot > 0 => h.q = <<>> BY <2>2, <2>5 DEF Good
      <4> QED BY <3>1, <4>1
    <3> QED BY <1>4, <1>5, <2>1, <2>3, <3>1, <3>2, EntryChange
  <2> QED BY <2>4, <2>5
<1>7. PushInv(c)
  <2>1. PushInv(h) BY DEF InOrder
  <2>2. \A p \in Pages : c.pte["cpu"][p].prot \in 0..3 BY <1>3, <1>4, <2>1 DEF CpuSet, PushInv, Good
  <2>3. \A x \in Procs, p \in Pages : c.pte[x][p].prot \in 0..3 BY <1>3, <1>4, <2>1, <2>2 DEF CpuSet, PushInv
  <2> QED BY <1>3, <2>1, <2>3 DEF CpuSet, PushInv
<1>8. CpuInStep(c, d)
  <2>1. CpuInStep(h, b) BY DEF InOrder
  <2> QED BY <1>3, <1>4, <2>1 DEF CpuSet, CpuInStep, Recorded
<1>9. PushInv(k) /\ k.pte = c.pte /\ \A p \in Pages : PageInv(k, b, p)
  <2>1. CASE S = {}
    <3>1. k = c BY <1>1, <2>1 DEF Push
    <3> QED BY <1>6, <1>7, <3>1
  <2>2. CASE S # {}
    <3>1. Longer(c, S, k)
      <4>1. HwOK(c) BY <1>3 DEF CpuSet
      <4> QED BY <1>1, <2>2, <4>1, PushFacts
    <3>2. PICK n : n = Len(c.q) OBVIOUS
    <3>3. Stages(c, S, k, n) BY <3>1, <3>2, LongerStages
    <3>4. \A w \in S : PushTyped(w, n + 1) BY <1>2, <1>4 DEF PushTyped, Good
    <3>5. PushInv(k) BY <1>7, <3>3, <3>4, PushInvStage
    <3>6. ASSUME NEW p \in Pages PROVE PageInv(k, b, p)
      <4>1. \A w \in S : w.k = "pte" /\ \A x \in Procs :
              Touches(w, x, p) => Aimed(b, x, p, w.set[p]) /\ w.set[p].prot \in 0..3
        BY <1>2, <1>4 DEF Touches, Good
      <4> QED BY <1>6, <3>3, <4>1, PtePush
    <3>7. k.pte = c.pte BY <3>3 DEF Stages
    <3> QED BY <3>5, <3>6, <3>7
  <2> QED BY <2>1, <2>2
<1>10. \A p \in Pages : PageInv(k, d, p)
  <2> SUFFICES ASSUME NEW p \in Pages PROVE PageInv(k, d, p) OBVIOUS
  <2>1. Here(d, p) = Here(b, p) /\ (\A y : Holds(d, y, p) <=> Holds(b, y, p)) BY RecordedSame
  <2>2. d.readdup = b.readdup BY DEF Recorded
  <2> QED BY <1>9, <2>1, <2>2, BlockChange
<1>11. CpuInStep(k, d) BY <1>8, <1>9 DEF CpuInStep
<1>12. Backed(d)
  <2> SUFFICES ASSUME NEW x \in Procs, NEW p \in Pages
               PROVE  \E y \in Procs : Aimed(d, x, p, [prot |-> d.prot[x][p], to |-> y])
    BY DEF Backed
  <2>1. CASE p \in DOMAIN R[x]
    <3>1. d.prot[x][p] = R[x][p].prot /\ R[x][p].prot \in 0..3 /\ Aimed(b, x, p, R[x][p])
      BY <2>1 DEF Recorded, Good
    <3>2. CASE R[x][p].prot = 0 BY <1>4, <3>1, <3>2 DEF Aimed
    <3>3. CASE R[x][p].prot > 0
      <4>1. R[x][p].to \in Procs BY <3>1, <3>3 DEF Aimed, Here
      <4>2. Aimed(b, x, p, [prot |-> d.prot[x][p], to |-> R[x][p].to]) BY <3>1 DEF Aimed
      <4> QED BY <4>1, <4>2, RecordedSame
    <3> QED BY <3>1, <3>2, <3>3
  <2>2. CASE p \notin DOMAIN R[x]
    <3>1. d.prot[x][p] = b.prot[x][p] BY <2>2 DEF Recorded
    <3>2. PICK y \in Procs : Aimed(b, x, p, [prot |-> b.prot[x][p], to |-> y]) BY DEF InOrder, Backed
    <3> QED BY <3>1, <3>2, RecordedSame
  <2> QED BY <2>1, <2>2
<1> QED BY <1>9, <1>10, <1>11, <1>12 DEF InOrder, k

(* The mode of the VA space is fixed.                                        *)
LEMMA OrderPrime ==
  ASSUME mode' = mode, InOrder(hw', blk')
  PROVE  InOrder(hw, blk)'
<1>0. Procs' = Procs /\ Pages' = Pages BY DEF Procs, Pages
<1>1. \A i, y, p : Spoils(hw, i, y, p)' <=> Spoils(hw', i, y, p) BY <1>0 DEF Spoils
<1>2. \A t, y, p : Fresh(hw, t, y, p)' <=> Fresh(hw', t, y, p) BY <1>1 DEF Fresh
<1>3. \A p : Here(blk, p)' = Here(blk', p) BY <1>0 DEF Here
<1>4. \A y, p : Holds(blk, y, p)' <=> Holds(blk', y, p) BY <1>3 DEF Holds
<1>5. \A x, p, e : Aimed(blk, x, p, e)' <=> Aimed(blk', x, p, e) BY <1>3 DEF Aimed
<1>6. ASSUME NEW p, PageInv(hw', blk', p) PROVE PageInv(hw, blk, p)'
  <2>1. Quiet(hw, p)' BY <1>0, <1>6 DEF PageInv, Quiet
  <2>2. CopiesFresh(hw, p)' BY <1>0, <1>2, <1>6 DEF PageInv, CopiesFresh
  <2>3. MapsFresh(hw, p)'
    <3>1. MapsFresh(hw', p) BY <1>6 DEF PageInv
    <3> QED BY <1>0, <1>1, <1>2, <3>1 DEF MapsFresh
  <2>4. HeldFresh(hw, blk, p)' BY <1>0, <1>2, <1>4, <1>6 DEF PageInv, HeldFresh
  <2>5. LastAimed(hw, blk, p)' BY <1>0, <1>5, <1>6 DEF PageInv, LastAimed
  <2>6. NowhereUnmapped(hw, blk, p)' BY <1>0, <1>3, <1>6 DEF PageInv, NowhereUnmapped
  <2> QED BY <2>1, <2>2, <2>3, <2>4, <2>5, <2>6 DEF PageInv
<1>7. PushInv(hw)' BY <1>0 DEF InOrder, PushInv
<1>8. CpuInStep(hw, blk)' BY <1>0 DEF InOrder, CpuInStep
<1>9. Backed(blk)'
  <2>1. Backed(blk') BY DEF InOrder
  <2> QED BY <1>0, <1>5, <2>1 DEF Backed
<1>10. \A p \in Pages : PageInv(hw, blk, p)' BY <1>6 DEF InOrder
<1> QED BY <1>0, <1>7, <1>8, <1>9, <1>10 DEF InOrder

(* An operation changes mappings.                                            *)
LEMMA ChangeOrder ==
  ASSUME TrackInv, InOrder(hw, blk), mode' = mode, NEW R, Good(hw, blk, R), NEW t \in BOOLEAN, NEW d \in BOOLEAN,
         blk' = [Bits(blk, R) EXCEPT !.tracking = t, !.dirty = d], hw' = Ptes(hw, R)
  PROVE  InOrder(hw, blk)' /\ Recorded(blk, R, blk')
<1>1. PICK b : b = blk' OBVIOUS
<1>2. \A x \in Procs : \A p \in DOMAIN R[x] : R[x][p].prot \in 0..3 BY DEF Good
<1>3. b = [Bits(blk, R) EXCEPT !.tracking = t, !.dirty = d] BY <1>1
<1>4. Noted(b, R, t, d) BY <1>2, <1>3, BitsFacts DEF TrackInv
<1>5. Recorded(blk, R, b) BY <1>4 DEF Noted, Recorded
<1>6. InOrder(Ptes(hw, R), b) BY <1>5, PteStep DEF TrackInv
<1>7. InOrder(hw, blk)' BY <1>1, <1>6, OrderPrime
<1> QED BY <1>1, <1>5, <1>7

(* The same where the flags stay.                                            *)
LEMMA BitsOrder ==
  ASSUME TrackInv, InOrder(hw, blk), mode' = mode, NEW R, Good(hw, blk, R), blk' = Bits(blk, R), hw' = Ptes(hw, R)
  PROVE  InOrder(hw, blk)' /\ Recorded(blk, R, blk')
<1>1. \A x \in Procs : \A p \in DOMAIN R[x] : R[x][p].prot \in 0..3 BY DEF Good
<1>2. /\ blk' = [Bits(blk, R) EXCEPT !.tracking = blk.tracking, !.dirty = blk.dirty]
      /\ blk.tracking \in BOOLEAN /\ blk.dirty \in BOOLEAN
  BY <1>1, FlagsSame
<1> QED BY <1>2, ChangeOrder

(* Where the driver has a page.                                              *)
LEMMA HereFacts ==
  ASSUME NEW p PROVE Here(blk, p) = ResidentProcs(p)
  BY DEF Here, ResidentProcs

(* A page that is not duplicated has one copy at most.                        *)
LEMMA SoleCopy ==
  ASSUME Placed, NEW p, p \notin blk.readdup, NEW y \in ResidentProcs(p) PROVE ResidentProcs(p) = {y}
  BY DEF Placed, ResidentProcs

(* No entry is always good.                                                  *)
LEMMA UnmappingGood ==
  ASSUME TrackInv, NEW M PROVE Good(hw, blk, Unmapping(M))
<1>1. \A x \in Procs : \A p \in DOMAIN Unmapping(M)[x] : Unmapping(M)[x][p].prot = 0 BY UnmappingFacts
<1>2. "cpu" \in Procs BY ProcFacts DEF TrackInv
<1> QED BY <1>1, <1>2 DEF Good, Aimed

(* Who loses a permission had the only copy.                                  *)
LEMMA RevokingAimed ==
  ASSUME TrackInv, Backed(blk), NEW x \in Procs, NEW P, NEW l \in {2, 3}, NEW p \in DOMAIN Revoking(x, P, l), p \in Pages
  PROVE  /\ Revoking(x, P, l)[p].prot \in 0..3 /\ Aimed(blk, x, p, Revoking(x, P, l)[p])
<1>1. /\ blk.prot[x][p] >= l
      /\ Revoking(x, P, l)[p] = [prot |-> l - 1, to |-> Closest(x, ResidentProcs(p))]
  BY DEF Revoking
<1>2. blk.prot[x][p] \in 0..3 BY DEF TrackInv, BlkOK, Blocks
<1>3. PICK y \in Procs : Aimed(blk, x, p, [prot |-> blk.prot[x][p], to |-> y]) BY DEF Backed
<1>4. Here(blk, p) = {y} /\ p \notin blk.readdup /\ (mode.rd => y = x) BY <1>1, <1>2, <1>3 DEF Aimed
<1>5. Closest(x, ResidentProcs(p)) = y
  <2>1. ResidentProcs(p) = {y} BY <1>4, HereFacts
  <2> QED BY <2>1, ClosestIn
<1>6. Aimed(blk, x, p, [prot |-> l - 1, to |-> y]) BY <1>4 DEF Aimed
<1> QED BY <1>1, <1>5, <1>6

(* What is mapped is mapped to a copy; writable, if it is not duplicated.     *)
LEMMA MappingAimed ==
  ASSUME TrackInv, NEW x \in Procs, NEW P, NEW n \in 1..3, NEW p \in DOMAIN Mapping(x, P, n),
         n >= 2 => p \notin blk.readdup
  PROVE  Mapping(x, P, n)[p].prot \in 0..3 /\ Aimed(blk, x, p, Mapping(x, P, n)[p])
<1> DEFINE pr == IF x = "cpu" /\ n > 1 THEN 3 ELSE n
           C(c) == Allowed(x) \cap ResidentProcs(c)
           D == {c \in P : blk.prot[x][c] < pr /\ C(c) # {}}
           M == [c \in D |-> [prot |-> pr, to |-> Closest(x, C(c))]]
<1>1. ~(x # "cpu" /\ att[x] # "on")
  <2>1. DOMAIN <<>> = {} OBVIOUS
  <2> QED BY <2>1 DEF Mapping
<1>2. Mapping(x, P, n) = M BY <1>1 DEF Mapping
<1>3. p \in D /\ M[p] = [prot |-> pr, to |-> Closest(x, C(p))] BY <1>2
<1>4. C(p) # {} BY <1>3
<1>5. pr \in 1..3 /\ (pr >= 2 => n >= 2) OBVIOUS
<1> DEFINE z == Closest(x, C(p))
<1>6. z \in C(p) BY <1>4, ClosestIn
<1> HIDE DEF z, pr
<1>7. z \in ResidentProcs(p) /\ (mode.rd => z = x) BY <1>6 DEF Allowed
<1>8. n >= 2 => ResidentProcs(p) = {z} BY <1>7, SoleCopy DEF TrackInv
<1>9. Aimed(blk, x, p, [prot |-> pr, to |-> z]) BY <1>5, <1>7, <1>8, HereFacts DEF Aimed
<1> QED BY <1>2, <1>3, <1>5, <1>9 DEF z

(* Three maps in a row.                                                      *)
LEMMA MapThreeAimed ==
  ASSUME TrackInv, NEW x \in Procs, NEW A, NEW B, NEW C,
         NEW a \in 1..3, NEW b \in 1..3, NEW c \in 1..3,
         NEW r, r = Or(Mapping(x, A, a), Or(Mapping(x, B, b), Mapping(x, C, c))), NEW p \in DOMAIN r,
         \/ p \notin blk.readdup
         \/ a = 1 /\ p \notin B /\ p \notin C
  PROVE  r[p].prot \in 0..3 /\ Aimed(blk, x, p, r[p])
<1>1. \/ p \in DOMAIN Mapping(x, A, a) /\ r[p] = Mapping(x, A, a)[p]
      \/ p \in DOMAIN Mapping(x, B, b) /\ r[p] = Mapping(x, B, b)[p]
      \/ p \in DOMAIN Mapping(x, C, c) /\ r[p] = Mapping(x, C, c)[p]
  <2>1. PICK f : f = Mapping(x, A, a) OBVIOUS
  <2>2. PICK g : g = Mapping(x, B, b) OBVIOUS
  <2>3. PICK h : h = Mapping(x, C, c) OBVIOUS
  <2>4. r = Or(f, Or(g, h)) BY <2>1, <2>2, <2>3, Zenon
  <2> QED BY <2>1, <2>2, <2>3, <2>4, OrFacts
<1>2. CASE p \in DOMAIN Mapping(x, A, a) /\ r[p] = Mapping(x, A, a)[p]
  <2>1. a >= 2 => p \notin blk.readdup OBVIOUS
  <2> QED BY <1>2, <2>1, MappingAimed
<1>3. CASE p \in DOMAIN Mapping(x, B, b) /\ r[p] = Mapping(x, B, b)[p]
  <2>1. p \in B BY <1>3, MappingFacts DEF TrackInv
  <2> QED BY <1>3, <2>1, MappingAimed
<1>4. CASE p \in DOMAIN Mapping(x, C, c) /\ r[p] = Mapping(x, C, c)[p]
  <2>1. p \in C BY <1>4, MappingFacts DEF TrackInv
  <2> QED BY <1>4, <2>1, MappingAimed
<1> QED BY <1>1, <1>2, <1>3, <1>4

(* ... of pages that are not duplicated.                                     *)
LEMMA MapThreeSole ==
  ASSUME TrackInv, NEW x \in Procs, NEW A, NEW B, NEW C,
         NEW a \in 1..3, NEW b \in 1..3, NEW c \in 1..3,
         NEW r, r = Or(Mapping(x, A, a), Or(Mapping(x, B, b), Mapping(x, C, c))), NEW p \in DOMAIN r,
         NEW D, D = blk.readdup, A \cap D = {}, B \cap D = {}, C \cap D = {}
  PROVE  r[p].prot \in 0..3 /\ Aimed(blk, x, p, r[p])
<1>1. mode \in Modes /\ BlkOK BY DEF TrackInv
<1>2. \/ p \in DOMAIN Mapping(x, A, a) /\ r[p] = Mapping(x, A, a)[p]
      \/ p \in DOMAIN Mapping(x, B, b) /\ r[p] = Mapping(x, B, b)[p]
      \/ p \in DOMAIN Mapping(x, C, c) /\ r[p] = Mapping(x, C, c)[p]
  <2>1. PICK f : f = Mapping(x, A, a) OBVIOUS
  <2>2. PICK g : g = Mapping(x, B, b) OBVIOUS
  <2>3. PICK h : h = Mapping(x, C, c) OBVIOUS
  <2>4. r = Or(f, Or(g, h)) BY <2>1, <2>2, <2>3, Zenon
  <2> QED BY <2>1, <2>2, <2>3, <2>4, OrFacts
<1>3. CASE p \in DOMAIN Mapping(x, A, a) /\ r[p] = Mapping(x, A, a)[p]
  <2>1. p \in A BY <1>1, <1>3, MappingFacts
  <2> QED BY <1>3, <2>1, MappingAimed
<1>4. CASE p \in DOMAIN Mapping(x, B, b) /\ r[p] = Mapping(x, B, b)[p]
  <2>1. p \in B BY <1>1, <1>4, MappingFacts
  <2> QED BY <1>4, <2>1, MappingAimed
<1>5. CASE p \in DOMAIN Mapping(x, C, c) /\ r[p] = Mapping(x, C, c)[p]
  <2>1. p \in C BY <1>1, <1>5, MappingFacts
  <2> QED BY <1>5, <2>1, MappingAimed
<1> QED BY <1>2, <1>3, <1>4, <1>5

(* What the proof of coherence assumes of a step's first state.               *)
Ordered == TrackInv /\ InOrder(hw, blk) /\ Underway /\ ~(mode.track /\ mode.rd)

(* Between operations little has to be known.                                *)
LEMMA AtRest ==
  ASSUME mode' = mode, ~mode.rd => blk'.readdup = {}, op'.pc \in {"idle", "wait", "destroy", "others"},
         op'.pc = "others" => op'.dst \in Procs
  PROVE  Underway'
<1>1. Procs' = Procs BY DEF Procs
<1> QED BY <1>1 DEF Underway

(* A change of mappings that ends an operation.                              *)
LEMMA RestOrder ==
  ASSUME Ordered, mode' = mode, NEW R, Good(hw, blk, R), blk' = Bits(blk, R), hw' = Ptes(hw, R),
         op'.pc \in {"idle", "wait", "others"}, op'.pc = "others" => op'.dst \in Procs
  PROVE  InOrder(hw, blk)' /\ Underway'
<1>1. InOrder(hw, blk)' /\ Recorded(blk, R, blk') BY BitsOrder DEF Ordered
<1>2. blk'.readdup = blk.readdup BY <1>1 DEF Recorded
<1>3. ~mode.rd => blk'.readdup = {} BY <1>2 DEF Ordered, Underway
<1> QED BY <1>1, <1>3, AtRest

(* The operations that unmap and wait for the tracker.                       *)
LEMMA UnmapOrder ==
  ASSUME Ordered
  PROVE  /\ \A g \in mode.gpus : RemoveGpuVaSpace(g) => InOrder(hw, blk)' /\ Underway'
         /\ DisablePeer \/ Kill => InOrder(hw, blk)' /\ Underway'
<1>1. ASSUME NEW kind, NEW x, NEW M, UnmapAndWait(kind, x, M)
      PROVE  InOrder(hw, blk)' /\ Underway'
  <2>1. PICK R : R = Unmapping(M) OBVIOUS
  <2>2. mode' = mode /\ blk' = Bits(blk, R) /\ hw' = Ptes(hw, R) /\ op'.pc = "wait"
    BY <1>1, <2>1 DEF UnmapAndWait, Idle
  <2>3. Good(hw, blk, R) BY <2>1, UnmappingGood DEF Ordered
  <2> QED BY <2>2, <2>3, RestOrder
<1>2. \A g \in mode.gpus : RemoveGpuVaSpace(g) => InOrder(hw, blk)' /\ Underway' BY <1>1 DEF RemoveGpuVaSpace
<1>3. DisablePeer \/ Kill => InOrder(hw, blk)' /\ Underway' BY <1>1 DEF DisablePeer, Kill
<1> QED BY <1>2, <1>3

(* PREPARE_ALL.                                                              *)
LEMMA PrepareOrder ==
  ASSUME Ordered, Prepare PROVE InOrder(hw, blk)' /\ Underway'
<1>9. PICK late \in SUBSET {g \in mode.gpus : blk.resident[g] # {}} :
        LET R == [x \in Procs |-> IF blk.resident[x] = {} \/ x \in late THEN <<>>
                                  ELSE IF x = "cpu" THEN [p \in {p \in Pages : blk.prot[x][p] > 1} |-> NoPte]
                                  ELSE Revoking(x, Pages, 2)]
        IN  /\ Free /\ mode.track /\ blk' = [Bits(blk, R) EXCEPT !.tracking = TRUE, !.dirty = FALSE]
            /\ hw' = Ptes(hw, R) /\ missed' = late /\ UNCHANGED <<mode, att, peers, op>>
  BY DEF Prepare
<1> DEFINE R == [x \in Procs |-> IF blk.resident[x] = {} \/ x \in late THEN <<>>
                                 ELSE IF x = "cpu" THEN [p \in {p \in Pages : blk.prot[x][p] > 1} |-> NoPte]
                                 ELSE Revoking(x, Pages, 2)]
<1>0. TrackInv /\ InOrder(hw, blk) /\ Underway /\ Backed(blk) BY DEF Ordered, InOrder
<1>1. /\ mode' = mode /\ op' = op /\ op.pc = "idle"
      /\ blk' = [Bits(blk, R) EXCEPT !.tracking = TRUE, !.dirty = FALSE] /\ hw' = Ptes(hw, R)
  BY <1>9 DEF Free
<1>2. DOMAIN <<>> = {} OBVIOUS
<1>3. ASSUME NEW x \in Procs, NEW p \in DOMAIN R[x]
      PROVE  R[x][p].prot \in 0..3 /\ Aimed(blk, x, p, R[x][p]) /\ (x = "cpu" => R[x][p].prot = 0)
  <2>1. blk.resident[x] # {} /\ x \notin late BY <1>2, <1>3
  <2>2. CASE x = "cpu"
    <3>1. R[x] = [c \in {c \in Pages : blk.prot[x][c] > 1} |-> NoPte] BY <2>1, <2>2
    <3>2. R[x][p] = NoPte BY <1>3, <3>1
    <3>3. R[x][p].prot = 0 BY <3>2 DEF NoPte
    <3> QED BY <3>3 DEF Aimed
  <2>3. CASE x # "cpu"
    <3>1. R[x] = Revoking(x, Pages, 2) BY <2>1, <2>3
    <3>2. p \in DOMAIN Revoking(x, Pages, 2) BY <1>3, <3>1
    <3>3. p \in Pages BY <3>2, RevokingFacts
    <3> QED BY <1>0, <2>3, <3>1, <3>2, <3>3, RevokingAimed
  <2> QED BY <2>2, <2>3
<1> HIDE DEF R
<1>4. Good(hw, blk, R)
  <2>1. "cpu" \in Procs BY <1>0, ProcFacts DEF TrackInv
  <2> QED BY <1>3, <2>1 DEF Good
<1>5. InOrder(hw, blk)' /\ Recorded(blk, R, blk') BY <1>0, <1>1, <1>4, ChangeOrder
<1>6. ~mode.rd => blk'.readdup = {} BY <1>0, <1>5 DEF Recorded, Underway
<1> QED BY <1>1, <1>5, <1>6, AtRest

(* The faulting processor is mapped.                                         *)
LEMMA MapOrder ==
  ASSUME Ordered, Map PROVE InOrder(hw, blk)' /\ Underway'
<1> DEFINE r == Or(Mapping(op.who, PagesWith(1), 1),
                   Or(Mapping(op.who, PagesWith(2), 2), Mapping(op.who, PagesWith(3), 3)))
           R == [NoChange EXCEPT ![op.who] = r]
<1>0. TrackInv /\ Underway BY DEF Ordered
<1>1. /\ mode' = mode /\ op.pc = "map" /\ blk' = Bits(blk, R) /\ hw' = Ptes(hw, R) /\ CpuWaits(R)
      /\ op' = IF Followers = {} THEN Idle ELSE [op EXCEPT !.pc = "others"]
  BY DEF Map
<1>2. op.who \in Procs /\ "cpu" \in Procs BY <1>0, <1>1, ProcFacts DEF TrackInv, OpOK
<1>3. \A x \in Procs : R[x] = IF x = op.who THEN r ELSE <<>> BY <1>2 DEF NoChange
<1>4. ASSUME NEW p \in DOMAIN r
      PROVE  r[p].prot \in 0..3 /\ Aimed(blk, op.who, p, r[p])
  <2>1. PICK f : f = r OBVIOUS
  <2>2. f = Or(Mapping(op.who, PagesWith(1), 1),
               Or(Mapping(op.who, PagesWith(2), 2), Mapping(op.who, PagesWith(3), 3)))
    BY <2>1
  <2>3. p \in DOMAIN f BY <2>1, <1>4
  <2> HIDE DEF r
  <2>4. 1 \in 1..3 /\ 2 \in 1..3 /\ 3 \in 1..3 /\ 1 = 1 OBVIOUS
  <2>5. p \notin blk.readdup \/ (p \notin PagesWith(2) /\ p \notin PagesWith(3))
    <3>1. ~mode.rd => p \notin blk.readdup BY <1>0 DEF Underway
    <3>2. p \in PagesWith(2) \/ p \in PagesWith(3) => p \in DOMAIN op.np /\ op.np[p] >= 2 BY DEF PagesWith
    <3>3. mode.rd => \A c \in DOMAIN op.np : op.np[c] >= 2 => c \notin blk.readdup
      BY <1>0, <1>1 DEF Underway, OnlyAt
    <3> QED BY <3>1, <3>2, <3>3
  <2>6. f[p].prot \in 0..3 /\ Aimed(blk, op.who, p, f[p])
    BY <1>0, <1>2, <2>2, <2>3, <2>4, <2>5, MapThreeAimed
  <2> QED BY <2>1, <2>6
<1> HIDE DEF r, R
<1>5. DOMAIN <<>> = {} OBVIOUS
<1>6. \A x \in Procs : \A p \in DOMAIN R[x] : x = op.who /\ p \in DOMAIN r /\ R[x][p] = r[p] BY <1>3, <1>5
<1>7. Good(hw, blk, R) BY <1>1, <1>4, <1>6 DEF Good, CpuWaits, MapsCpu, Drained
<1>8. op'.pc \in {"idle", "others"} /\ (op'.pc = "others" => op'.dst \in Procs)
  <2>1. op.dst \in Procs BY <1>0, <1>1 DEF Underway
  <2>2. op.pc \in {"map"} /\ op = [pc |-> op.pc, kind |-> op.kind, who |-> op.who, acc |-> op.acc, dst |-> op.dst,
           dup |-> op.dup, moved |-> op.moved, np |-> op.np, wait |-> op.wait] BY <1>0, <1>1 DEF TrackInv, OpOK
  <2>3. CASE Followers = {} BY <1>1, <2>3 DEF Idle
  <2>4. CASE Followers # {}
    <3>1. op' = [op EXCEPT !.pc = "others"] BY <1>1, <2>4
    <3>2. op'.pc = "others" /\ op'.dst = op.dst BY <2>2, <3>1
    <3> QED BY <2>1, <3>2
  <2> QED BY <2>3, <2>4
<1> QED BY <1>1, <1>7, <1>8, RestOrder

(* The processors of accessed_by are mapped.                                 *)
LEMMA FollowersOrder ==
  ASSUME Ordered, MapFollowers PROVE InOrder(hw, blk)' /\ Underway'
<1> DEFINE of(y, n) == Mapping(y, (PagesWith(n) \cap P_op) \ blk.readdup, FollowerProt(y, n))
           R == [y \in Procs |-> IF y \in Followers THEN Or(of(y, 1), Or(of(y, 2), of(y, 3))) ELSE <<>>]
<1>0. TrackInv BY DEF Ordered
<1>1. mode' = mode /\ blk' = Bits(blk, R) /\ hw' = Ptes(hw, R) /\ op'.pc = "idle" /\ CpuWaits(R)
  BY DEF MapFollowers, Idle
<1>3. ASSUME NEW y \in Procs, NEW p \in DOMAIN R[y]
      PROVE  R[y][p].prot \in 0..3 /\ Aimed(blk, y, p, R[y][p])
  <2>0. DOMAIN <<>> = {} OBVIOUS
  <2>1. y \in Followers /\ R[y] = Or(of(y, 1), Or(of(y, 2), of(y, 3))) BY <1>3, <2>0
  <2>2. PICK A, B, C : /\ A = (PagesWith(1) \cap P_op) \ blk.readdup
                       /\ B = (PagesWith(2) \cap P_op) \ blk.readdup
                       /\ C = (PagesWith(3) \cap P_op) \ blk.readdup
    OBVIOUS
  <2>3. PICK a \in 1..3, b \in 1..3, c \in 1..3 :
          a = FollowerProt(y, 1) /\ b = FollowerProt(y, 2) /\ c = FollowerProt(y, 3)
    BY DEF FollowerProt
  <2>4. PICK f : f = R[y] OBVIOUS
  <2>5. f = Or(Mapping(y, A, a), Or(Mapping(y, B, b), Mapping(y, C, c))) BY <2>1, <2>2, <2>3, <2>4
  <2>6. p \in DOMAIN f BY <1>3, <2>4
  <2> HIDE DEF R, of
  <2>8. PICK D : D = blk.readdup OBVIOUS
  <2>7. A \cap D = {} /\ B \cap D = {} /\ C \cap D = {} BY <2>2, <2>8
  <2>9. f[p].prot \in 0..3 /\ Aimed(blk, y, p, f[p]) BY <1>0, <2>5, <2>6, <2>7, <2>8, MapThreeSole
  <2> QED BY <2>4, <2>9
<1> HIDE DEF R
<1>4. Good(hw, blk, R) BY <1>1, <1>3 DEF Good, CpuWaits, MapsCpu, Drained
<1> QED BY <1>1, <1>4, RestOrder

(* The worker of the eviction mappings.                                      *)
LEMMA EvictionMappingsOrder ==
  ASSUME Ordered, NEW x \in Procs, EvictionMappings(x) PROVE InOrder(hw, blk)' /\ Underway'
<1> DEFINE P == IF x \in mode.by THEN Pages ELSE blk.evicted[x]
           R == [NoChange EXCEPT ![x] = AddMappings(x, P)]
<1>0. TrackInv BY DEF Ordered
<1>1. mode' = mode /\ op'.pc = "idle" /\ blk' = Bits(blk, R) /\ hw' = Ptes(hw, R) /\ CpuWaits(R)
  BY DEF EvictionMappings, Free
<1>3. PICK r : r = AddMappings(x, P) OBVIOUS
<1>4. \A y \in Procs : R[y] = IF y = x THEN r ELSE <<>> BY <1>3 DEF NoChange
<1>5. ASSUME NEW p \in DOMAIN r
      PROVE  r[p].prot \in 0..3 /\ Aimed(blk, x, p, r[p])
  <2>1. PICK A, B, C : /\ A \cap blk.readdup = {} /\ B \cap blk.readdup = {} /\ C \cap blk.readdup = {}
                       /\ r = Or(Mapping(x, A, 1), Or(Mapping(x, B, 2), Mapping(x, C, 3)))
    <3>1. PICK A, B, C : /\ A = {c \in P \ blk.readdup : HighestPermission(c, x) = 1}
                         /\ B = {c \in P \ blk.readdup : HighestPermission(c, x) = 2}
                         /\ C = {c \in P \ blk.readdup : HighestPermission(c, x) = 3}
      OBVIOUS
    <3>2. A \cap blk.readdup = {} /\ B \cap blk.readdup = {} /\ C \cap blk.readdup = {} BY <3>1
    <3>3. r = Or(Mapping(x, A, 1), Or(Mapping(x, B, 2), Mapping(x, C, 3))) BY <1>3, <3>1 DEF AddMappings
    <3> QED BY <3>2, <3>3
  <2> HIDE DEF P
  <2>2. 1 \in 1..3 /\ 2 \in 1..3 /\ 3 \in 1..3 OBVIOUS
  <2> QED BY <1>0, <1>5, <2>1, <2>2, MapThreeSole
<1> HIDE DEF R
<1>6. DOMAIN <<>> = {} OBVIOUS
<1>7. \A y \in Procs : \A p \in DOMAIN R[y] : y = x /\ p \in DOMAIN r /\ R[y][p] = r[p] BY <1>4, <1>6
<1>8. Good(hw, blk, R) BY <1>1, <1>5, <1>7 DEF Good, CpuWaits, MapsCpu, Drained
<1> QED BY <1>1, <1>8, RestOrder

(* What the others lose to a fault is what uvm_va_block_revoke_prot takes.   *)
LEMMA RevocationIs ==
  ASSUME NEW np, NEW y \in Procs, NEW p \in DOMAIN Revocation(np)[y]
  PROVE  p \in P_op /\ \E l \in {2, 3} : p \in DOMAIN Revoking(y, {p}, l)
                                        /\ Revocation(np)[y][p] = Revoking(y, {p}, l)[p]
<1> DEFINE stay(n) == {c \in P_op \ op.moved : np[c] = n}
           native == op.who \in Native(op.dst)
           loses(z, n) == z # op.who /\ (n = 2 \/ native => z \notin Native(op.dst))
           level(n) == IF op.who = "cpu" \/ n = 2 THEN 3 ELSE 2
           dom(z) == UNION {DOMAIN Revoking(z, stay(n), level(n)) : n \in {n \in {2, 3} : loses(z, n)}}
           V == [z \in Procs |-> [c \in dom(z) |-> Revoking(z, {c}, level(np[c]))[c]]]
<1>1. Revocation(np) = V BY DEF Revocation
<1>2. p \in dom(y) /\ V[y][p] = Revoking(y, {p}, level(np[p]))[p] BY <1>1
<1>3. PICK n \in {2, 3} : p \in DOMAIN Revoking(y, stay(n), level(n)) BY <1>2
<1>4. level(n) \in {2, 3} OBVIOUS
<1> HIDE DEF V, dom
<1>5. PICK l \in {2, 3} : l = level(n) BY <1>4
<1>6. p \in stay(n) /\ blk.prot[y][p] >= l /\ ~(y = "cpu" /\ l = 3)
  <2>1. PICK Q : Q = stay(n) OBVIOUS
  <2>2. p \in DOMAIN Revoking(y, Q, l) BY <1>3, <1>5, <2>1
  <2> QED BY <2>1, <2>2, RevokingFacts
<1>7. np[p] = n /\ p \in P_op BY <1>6
<1>8. V[y][p] = Revoking(y, {p}, l)[p] BY <1>2, <1>5, <1>7
<1> HIDE DEF stay, level
<1>9. p \in DOMAIN Revoking(y, {p}, l) BY <1>6 DEF Revoking
<1> QED BY <1>1, <1>7, <1>8, <1>9

(* A fault that duplicates asks for no write access.                         *)
LEMMA NewPermissionRead ==
  ASSUME mode.rd, NEW p, op.acc[p] \in 0..3, op.acc[p] <= 1 PROVE NewPermission(p) <= 1
  BY DEF NewPermission, MightReadDuplicate

(* The permissions of a fault.                                               *)
LEMMA RevokeOrder ==
  ASSUME Ordered, Revoke PROVE InOrder(hw, blk)' /\ Underway'
<1>0. TrackInv /\ InOrder(hw, blk) /\ Underway /\ Backed(blk) /\ ~(mode.track /\ mode.rd) BY DEF Ordered, InOrder
<1>1. mode' = mode /\ op.pc = "revoke" BY DEF Revoke
<1>2. PICK np : LET R == Revocation(np) IN
        /\ BulkRestore \/ np = [p \in P_op |-> NewPermission(p)]
        /\ CpuWaits(R)
        /\ blk' = [Bits(blk, R) EXCEPT !.dirty = @ \/ Records(np)]
        /\ hw' = Ptes(hw, R)
        /\ op' = [op EXCEPT !.pc = "map", !.np = np]
  BY DEF Revoke
<1>3. PICK R : R = Revocation(np) OBVIOUS
<1>4. PICK d \in BOOLEAN : d = (blk.dirty \/ Records(np)) OBVIOUS
<1>5. op.who \in Procs /\ P_op \subseteq Pages BY <1>0, <1>1 DEF TrackInv, OpOK, P_op
<1>7. blk.tracking \in BOOLEAN /\ blk.dirty \in BOOLEAN BY <1>0 DEF TrackInv, BlkOK, Blocks
<1>8. blk' = [Bits(blk, R) EXCEPT !.tracking = blk.tracking, !.dirty = d]
  <2>1. PICK P, m : Bits(blk, R) = [blk EXCEPT !.prot = P, !.maybe = m] BY DEF Bits
  <2>2. Bits(blk, R).dirty = blk.dirty /\ Bits(blk, R).tracking = blk.tracking
    BY <1>0, <2>1 DEF TrackInv, BlkOK, Blocks
  <2>3. blk' = [Bits(blk, R) EXCEPT !.dirty = d] BY <1>2, <1>3, <1>4, <2>2
  <2> QED BY <1>0, <2>1, <2>3 DEF TrackInv, BlkOK, Blocks
<1>9. ASSUME NEW y \in Procs, NEW p \in DOMAIN R[y]
      PROVE  R[y][p].prot \in 0..3 /\ Aimed(blk, y, p, R[y][p])
  <2>1. p \in P_op /\ \E l \in {2, 3} : p \in DOMAIN Revoking(y, {p}, l) /\ R[y][p] = Revoking(y, {p}, l)[p]
    BY <1>3, <1>9, RevocationIs
  <2>2. PICK l \in {2, 3} : p \in DOMAIN Revoking(y, {p}, l) /\ R[y][p] = Revoking(y, {p}, l)[p] BY <2>1
  <2>3. p \in Pages BY <1>5, <2>1
  <2> QED BY <1>0, <2>2, <2>3, RevokingAimed
<1>10. Good(hw, blk, R) BY <1>2, <1>3, <1>9 DEF Good, CpuWaits, MapsCpu, Drained
<1>11. InOrder(hw, blk)' /\ Recorded(blk, R, blk')
  <2>1. hw' = Ptes(hw, R) BY <1>2, <1>3
  <2> QED BY <1>0, <1>1, <1>7, <1>8, <1>10, <2>1, ChangeOrder
<1>12. op'.pc = "map" /\ op'.dst = op.dst /\ op'.np = np BY <1>0, <1>2 DEF TrackInv, OpOK
<1>13. mode.rd => \A p \in DOMAIN np : np[p] >= 2 => OnlyAt(p, op.dst)
  <2> SUFFICES ASSUME mode.rd, NEW p \in DOMAIN np, np[p] >= 2 PROVE OnlyAt(p, op.dst) OBVIOUS
  <2>1. ~blk.tracking BY <1>0 DEF TrackInv
  <2>2. np = [c \in P_op |-> NewPermission(c)] BY <1>2, <2>1 DEF BulkRestore
  <2>3. p \in P_op /\ np[p] = NewPermission(p) BY <2>2
  <2>4. op.acc[p] \in 0..3 /\ IF op.dup THEN op.acc[p] <= 1 ELSE OnlyAt(p, op.dst) BY <1>0, <1>1, <2>3 DEF Underway
  <2>5. CASE op.dup
    <3>1. NewPermission(p) <= 1 BY <2>4, <2>5, NewPermissionRead
    <3>2. NewPermission(p) \in Int BY <2>4 DEF NewPermission
    <3> QED BY <2>3, <3>1, <3>2
  <2> QED BY <2>4, <2>5
<1>14. blk'.resident = blk.resident /\ blk'.readdup = blk.readdup BY <1>11 DEF Recorded
<1>15. Procs' = Procs BY <1>1 DEF Procs
<1>16. mode.rd => \A p \in DOMAIN np : np[p] >= 2 => OnlyAt(p, op.dst)' BY <1>12, <1>13, <1>14, <1>15 DEF OnlyAt, ResidentProcs
<1>17. op.dst \in Procs /\ (~mode.rd => blk.readdup = {}) BY <1>0, <1>1 DEF Underway
<1>18. Underway' BY <1>1, <1>12, <1>14, <1>15, <1>16, <1>17 DEF Underway, OnlyAt
<1> QED BY <1>11, <1>18

(* Before a page gets its second copy: who loses it, who keeps it read-only.  *)
LEMMA DupUnmapsAre ==
  ASSUME TrackInv, NEW P, NEW R, R = DupUnmaps(P), NEW x \in Procs
  PROVE  /\ \A p \in DOMAIN R[x] : \/ R[x][p].prot = 0
                                   \/ \E Q : p \in DOMAIN Revoking(x, Q, 2) /\ R[x][p] = Revoking(x, Q, 2)[p]
         /\ \A p \in P : p \notin blk.readdup /\ ResidentProcs(p) # {} /\ blk.prot[x][p] >= 2 => p \in DOMAIN R[x]
         /\ DOMAIN R[x] \subseteq Pages
<1> DEFINE first(y) == {p \in P \ blk.readdup : p \in blk.resident[y]}
           some == UNION {first(y) : y \in Procs}
           U == Unmapping([y \in Procs |-> some \ first(y)])
           V == [y \in Procs |-> Revoking(y, first(y), 2)]
<1>1. R = Both(U, V) BY DEF DupUnmaps
<1>2. DOMAIN U[x] = {p \in some \ first(x) : blk.prot[x][p] > 0} /\ \A p \in DOMAIN U[x] : U[x][p].prot = 0
  <2> DEFINE M == [y \in Procs |-> some \ first(y)]
  <2>1. M[x] = some \ first(x) OBVIOUS
  <2>2. DOMAIN Unmapping(M)[x] = {p \in M[x] : blk.prot[x][p] > 0}
        /\ \A p \in DOMAIN Unmapping(M)[x] : Unmapping(M)[x][p].prot = 0 BY UnmappingFacts
  <2> QED BY <2>1, <2>2
<1>3. V[x] = Revoking(x, first(x), 2) OBVIOUS
<1>4. \A p \in DOMAIN V[x] : p \in first(x) BY <1>3, RevokingFacts
<1>5. \A p \in first(x) : blk.prot[x][p] >= 2 => p \in DOMAIN V[x] BY <1>3 DEF Revoking
<1>6. first(x) \subseteq Pages /\ some \subseteq Pages BY DEF TrackInv, BlkOK, Blocks
<1>7. \A p \in P : p \notin blk.readdup /\ ResidentProcs(p) # {} => p \in some BY DEF ResidentProcs
<1>8. \A p \in some \ first(x) : p \in Pages /\ blk.prot[x][p] >= 2 => p \in DOMAIN U[x]
  <2>1. \A p \in Pages : blk.prot[x][p] \in 0..3 BY DEF TrackInv, BlkOK, Blocks
  <2> QED BY <1>2, <2>1
<1> HIDE DEF first, some, U, V
<1>9. R[x] = Or(U[x], V[x]) BY <1>1 DEF Both
<1>10. /\ DOMAIN R[x] = DOMAIN U[x] \cup DOMAIN V[x]
       /\ \A p \in DOMAIN R[x] : R[x][p] = IF p \in DOMAIN U[x] THEN U[x][p] ELSE V[x][p]
  <2>1. PICK u, v : u = U[x] /\ v = V[x] OBVIOUS
  <2>2. R[x] = [p \in DOMAIN u \cup DOMAIN v |-> IF p \in DOMAIN u THEN u[p] ELSE v[p]] BY <1>9, <2>1 DEF Or
  <2> QED BY <2>1, <2>2
<1>11. \A p \in DOMAIN R[x] : \/ R[x][p].prot = 0
                              \/ \E Q : p \in DOMAIN Revoking(x, Q, 2) /\ R[x][p] = Revoking(x, Q, 2)[p]
  BY <1>2, <1>3, <1>10
<1>12. DOMAIN R[x] \subseteq Pages BY <1>2, <1>4, <1>6, <1>10
<1>13. \A p \in P : p \notin blk.readdup /\ ResidentProcs(p) # {} /\ blk.prot[x][p] >= 2 => p \in DOMAIN R[x]
  BY <1>5, <1>6, <1>7, <1>8, <1>10
<1> QED BY <1>11, <1>12, <1>13

(* The copies of duplicated pages are read-only, and so are the first copies  *)
(* of those that will be.                                                     *)
LEMMA DupReadOnly ==
  ASSUME TrackInv, Backed(blk), NEW P \in SUBSET Pages, NEW R, R = DupUnmaps(P), NEW b, Recorded(blk, R, b),
         NEW x \in Procs, NEW p \in P
  PROVE  b.prot[x][p] <= 1
<1>1. b.prot[x][p] = IF p \in DOMAIN R[x] THEN R[x][p].prot ELSE blk.prot[x][p] BY DEF Recorded
<1>2. blk.prot[x][p] \in 0..3 BY DEF TrackInv, BlkOK, Blocks
<1>3. CASE p \in DOMAIN R[x]
  <2>1. \/ R[x][p].prot = 0
        \/ \E Q : p \in DOMAIN Revoking(x, Q, 2) /\ R[x][p] = Revoking(x, Q, 2)[p]
    BY <1>3, DupUnmapsAre
  <2>2. CASE \E Q : p \in DOMAIN Revoking(x, Q, 2) /\ R[x][p] = Revoking(x, Q, 2)[p]
    <3>1. PICK Q : p \in DOMAIN Revoking(x, Q, 2) /\ R[x][p] = Revoking(x, Q, 2)[p] BY <2>2
    <3>2. Revoking(x, Q, 2)[p].prot = 2 - 1 BY <3>1, RevokingFacts
    <3> QED BY <1>1, <1>3, <3>1, <3>2
  <2> QED BY <1>1, <1>3, <2>1, <2>2
<1>4. CASE p \notin DOMAIN R[x]
  <2>1. p \in blk.readdup \/ ResidentProcs(p) = {} \/ ~(blk.prot[x][p] >= 2) BY <1>4, DupUnmapsAre
  <2>2. PICK y \in Procs : Aimed(blk, x, p, [prot |-> blk.prot[x][p], to |-> y]) BY DEF Backed
  <2>3. blk.prot[x][p] >= 2 => Here(blk, p) = {y} /\ p \notin blk.readdup BY <2>2 DEF Aimed
  <2>4. ~(blk.prot[x][p] >= 2) BY <2>1, <2>3, HereFacts
  <2> QED BY <1>1, <1>2, <1>4, <2>4
<1> QED BY <1>3, <1>4

(* The change of mappings before a second copy only takes away.             *)
LEMMA DupUnmapsGood ==
  ASSUME TrackInv, Backed(blk), NEW P, NEW R, R = DupUnmaps(P), CpuWaits(R)
  PROVE  Good(hw, blk, R)
<1>1. ASSUME NEW x \in Procs, NEW p \in DOMAIN R[x]
      PROVE  R[x][p].prot \in 0..3 /\ Aimed(blk, x, p, R[x][p])
  <2>1. p \in Pages BY <1>1, DupUnmapsAre
  <2>2. \/ R[x][p].prot = 0
        \/ \E Q : p \in DOMAIN Revoking(x, Q, 2) /\ R[x][p] = Revoking(x, Q, 2)[p]
    BY <1>1, DupUnmapsAre
  <2>3. CASE R[x][p].prot = 0 BY <2>3 DEF Aimed
  <2>4. CASE \E Q : p \in DOMAIN Revoking(x, Q, 2) /\ R[x][p] = Revoking(x, Q, 2)[p]
    <3>1. PICK Q : p \in DOMAIN Revoking(x, Q, 2) /\ R[x][p] = Revoking(x, Q, 2)[p] BY <2>4
    <3> QED BY <2>1, <3>1, RevokingAimed
  <2> QED BY <2>2, <2>3, <2>4
<1> QED BY <1>1 DEF Good, CpuWaits, MapsCpu, Drained

(* A page that moves is mapped by nobody, a duplicated one only where it goes. *)
Unmapped(P, d, b) ==
  \A x \in Procs, p \in P : p \notin blk.resident[d] \/ (p \in blk.readdup /\ x # d) => b.prot[x][p] = 0

(* Before a move.                                                            *)
LEMMA MoveUnmapped ==
  ASSUME TrackInv, NEW P \in SUBSET Pages, NEW d \in Procs, NEW R, R = MoveUnmaps(P, d), NEW b, Recorded(blk, R, b)
  PROVE  Unmapped(P, d, b)
<1> SUFFICES ASSUME NEW x \in Procs, NEW p \in P, p \notin blk.resident[d] \/ (p \in blk.readdup /\ x # d)
             PROVE  b.prot[x][p] = 0
  BY DEF Unmapped
<1> DEFINE M == [y \in Procs |-> (P \ blk.resident[d]) \cup IF y = d THEN {} ELSE P \cap blk.readdup]
<1>1. R = Unmapping(M) BY DEF MoveUnmaps
<1>2. p \in M[x] OBVIOUS
<1> HIDE DEF M
<1>3. DOMAIN R[x] = {c \in M[x] : blk.prot[x][c] > 0} /\ \A c \in DOMAIN R[x] : R[x][c].prot = 0
  BY <1>1, UnmappingFacts
<1>4. b.prot[x][p] = IF p \in DOMAIN R[x] THEN R[x][p].prot ELSE blk.prot[x][p] BY DEF Recorded
<1>5. blk.prot[x][p] \in 0..3 BY DEF TrackInv, BlkOK, Blocks
<1> QED BY <1>2, <1>3, <1>4, <1>5

(* uvm_va_block_make_resident_copy and _read_duplicate.                       *)
LEMMA MakeResidentOrder ==
  ASSUME Ordered, NEW kind \in {"fault", "evict", "host", "unregister"}, NEW x \in Procs,
         NEW acc, DOMAIN acc \subseteq Pages, NEW d \in Procs, NEW dup \in BOOLEAN,
         kind \in {"evict", "unregister"} => DOMAIN acc = blk.resident[x],
         kind = "host" => DOMAIN acc # {}, kind # "fault" => ~dup,
         dup => mode.rd /\ \A p \in DOMAIN acc : acc[p] <= 1, \A p \in DOMAIN acc : acc[p] \in 0..3,
         MakeResident(kind, x, acc, d, dup)
  PROVE  InOrder(hw, blk)' /\ Underway'
<1> DEFINE R == IF dup THEN DupUnmaps(DOMAIN acc) ELSE MoveUnmaps(DOMAIN acc, d)
<1>0. TrackInv /\ InOrder(hw, blk) /\ Underway /\ Backed(blk) BY DEF Ordered, InOrder
<1>1. /\ mode' = mode /\ blk' = Bits(blk, R) /\ hw' = Ptes(hw, R) /\ CpuWaits(R)
      /\ op' = [Idle EXCEPT !.pc = IF DOMAIN acc \subseteq blk.resident[d] THEN "copy" ELSE "populate",
                            !.kind = kind, !.who = x, !.acc = acc, !.dst = d, !.dup = dup]
  BY DEF MakeResident
<1>2. Good(hw, blk, R)
  <2>1. CASE dup BY <1>0, <1>1, <2>1, DupUnmapsGood
  <2>2. CASE ~dup BY <1>0, <2>2, UnmappingGood DEF MoveUnmaps
  <2> QED BY <2>1, <2>2
<1>3. (dup => R = DupUnmaps(DOMAIN acc)) /\ (~dup => R = MoveUnmaps(DOMAIN acc, d)) OBVIOUS
<1> HIDE DEF R
<1>4. InOrder(hw, blk)' /\ Recorded(blk, R, blk') BY <1>0, <1>1, <1>2, BitsOrder
<1>5. /\ op'.pc \in {"copy", "populate"} /\ (op'.pc = "copy" => DOMAIN acc \subseteq blk.resident[d])
      /\ op'.kind = kind /\ op'.who = x /\ op'.acc = acc /\ op'.dst = d /\ op'.dup = dup
  BY <1>1 DEF Idle
<1>6. blk'.resident = blk.resident /\ blk'.readdup = blk.readdup BY <1>4 DEF Recorded
<1>7. Procs' = Procs /\ Pages' = Pages BY <1>1 DEF Procs, Pages
<1>8. \A p \in DOMAIN acc, y \in Procs :
        IF dup THEN blk'.prot[y][p] <= 1
        ELSE p \notin blk.resident[d] \/ (p \in blk.readdup /\ y # d) => blk'.prot[y][p] = 0
  <2> SUFFICES ASSUME NEW p \in DOMAIN acc, NEW y \in Procs
               PROVE  IF dup THEN blk'.prot[y][p] <= 1
                      ELSE p \notin blk.resident[d] \/ (p \in blk.readdup /\ y # d) => blk'.prot[y][p] = 0
    OBVIOUS
  <2>1. PICK b : b = blk' OBVIOUS
  <2>2. Recorded(blk, R, b) BY <1>4, <2>1
  <2>3. CASE dup
    <3>1. b.prot[y][p] <= 1 BY <1>0, <1>3, <2>2, <2>3, DupReadOnly
    <3> QED BY <2>1, <2>3, <3>1
  <2>4. CASE ~dup
    <3>1. p \notin blk.resident[d] \/ (p \in blk.readdup /\ y # d) => b.prot[y][p] = 0
      <4>1. PICK P : P = DOMAIN acc OBVIOUS
      <4>2. R = MoveUnmaps(P, d) /\ P \in SUBSET Pages /\ p \in P BY <1>3, <2>4, <4>1
      <4>3. Unmapped(P, d, b) BY <1>0, <2>2, <4>2, MoveUnmapped
      <4> QED BY <4>2, <4>3 DEF Unmapped
    <3> QED BY <2>1, <2>4, <3>1
  <2> QED BY <2>3, <2>4
<1>9. (P_op)' = DOMAIN acc /\ (Missing)' = DOMAIN acc \ blk.resident[d] BY <1>5, <1>6 DEF P_op, Missing
<1>10. ~mode.rd => blk.readdup = {} BY <1>0 DEF Underway
<1>11. Underway'
  <2>1. \A p \in (P_op)', y \in Procs' :
          IF op'.dup THEN blk'.prot[y][p] <= 1
          ELSE p \in (Missing)' \/ (p \in blk'.readdup /\ y # op'.dst) => blk'.prot[y][p] = 0
    BY <1>5, <1>6, <1>7, <1>8, <1>9
  <2>2. op'.pc = "copy" => (Missing)' = {} BY <1>5, <1>9
  <2>3. /\ op'.kind \in {"evict", "unregister"} => (P_op)' = blk'.resident[op'.who]
        /\ op'.kind = "host" => (P_op)' # {}
        /\ op'.kind # "fault" => ~op'.dup
        /\ op'.dup => mode'.rd /\ \A p \in (P_op)' : op'.acc[p] <= 1
        /\ \A p \in (P_op)' : op'.acc[p] \in 0..3
    BY <1>1, <1>5, <1>6, <1>9
  <2>4. op'.pc \notin {"revoke", "map", "write", "free", "others"} BY <1>5
  <2>5. ~mode'.rd => blk'.readdup = {} BY <1>1, <1>6, <1>10
  <2> QED BY <2>1, <2>2, <2>3, <2>4, <2>5 DEF Underway
<1> QED BY <1>4, <1>11

(* The operations that begin by making pages resident.                        *)
LEMMA FaultOrder ==
  ASSUME Ordered
  PROVE  /\ CpuFault => InOrder(hw, blk)' /\ Underway'
         /\ \A g \in mode.gpus : GpuFault(g) \/ EvictChunks(g) \/ UnregisterGpu(g) => InOrder(hw, blk)' /\ Underway'
         /\ \A p \in Pages : WriteFromCpu(p) => InOrder(hw, blk)' /\ Underway'
<1>a. TrackInv /\ Underway BY DEF Ordered
<1>0. mode.gpus \subseteq Procs /\ "cpu" \in Procs BY <1>a, ProcFacts DEF TrackInv
<1>1. ASSUME NEW x \in Procs, NEW acc, DOMAIN acc \subseteq Pages, DOMAIN acc # {},
             \A p \in DOMAIN acc : acc[p] \in 0..3, Service(x, acc)
      PROVE  InOrder(hw, blk)' /\ Underway'
  <2>1. PICK d \in Procs, dup \in BOOLEAN :
          /\ \A p \in DOMAIN acc : dup = (CanReadDuplicate(p) /\ acc[p] <= 1)
          /\ MakeResident("fault", x, acc, d, dup)
    BY <1>1 DEF Service
  <2>2. dup => mode.rd /\ \A p \in DOMAIN acc : acc[p] <= 1
    <3>1. ~mode.rd => \A p : ~CanReadDuplicate(p) BY <1>a DEF CanReadDuplicate, Underway
    <3> QED BY <1>1, <2>1, <3>1
  <2> QED BY <1>1, <2>1, <2>2, MakeResidentOrder
<1>2. CpuFault => InOrder(hw, blk)' /\ Underway'
  <2> SUFFICES ASSUME NEW p \in Pages, NEW a \in {1, 3}, Service("cpu", [x \in {p} |-> a])
               PROVE  InOrder(hw, blk)' /\ Underway'
    BY DEF CpuFault
  <2>1. PICK acc : acc = [x \in {p} |-> a] OBVIOUS
  <2>2. DOMAIN acc \subseteq Pages /\ DOMAIN acc # {} /\ \A c \in DOMAIN acc : acc[c] \in 0..3 BY <2>1
  <2>3. Service("cpu", acc) BY <2>1
  <2> QED BY <1>0, <1>1, <2>2, <2>3
<1>3. ASSUME NEW g \in mode.gpus, GpuFault(g) PROVE InOrder(hw, blk)' /\ Underway'
  <2>3. PICK F \in (SUBSET Pages) \ {{}} : \E acc \in [F -> 1..3] : Service(g, acc) BY <1>3 DEF GpuFault
  <2>1. PICK acc \in [F -> 1..3] : Service(g, acc) BY <2>3
  <2>2. DOMAIN acc \subseteq Pages /\ DOMAIN acc # {} /\ \A c \in DOMAIN acc : acc[c] \in 0..3 OBVIOUS
  <2> QED BY <1>0, <1>1, <2>1, <2>2
<1>4. ASSUME NEW g \in mode.gpus, EvictChunks(g) PROVE InOrder(hw, blk)' /\ Underway'
  <2> DEFINE acc == [p \in blk.resident[g] |-> 0]
  <2>1. MakeResident("evict", g, acc, "cpu", FALSE) BY <1>4 DEF EvictChunks
  <2>2. DOMAIN acc \subseteq Pages /\ DOMAIN acc = blk.resident[g] /\ \A p \in DOMAIN acc : acc[p] \in 0..3
    BY <1>0, <1>a DEF TrackInv, BlkOK, Blocks
  <2> HIDE DEF acc
  <2> QED BY <1>0, <2>1, <2>2, MakeResidentOrder
<1>5. ASSUME NEW g \in mode.gpus, UnregisterGpu(g) PROVE InOrder(hw, blk)' /\ Underway'
  <2> DEFINE acc == [p \in blk.resident[g] |-> 0]
  <2>1. MakeResident("unregister", g, acc, "cpu", FALSE) BY <1>5 DEF UnregisterGpu
  <2>2. DOMAIN acc \subseteq Pages /\ DOMAIN acc = blk.resident[g] /\ \A p \in DOMAIN acc : acc[p] \in 0..3
    BY <1>0, <1>a DEF TrackInv, BlkOK, Blocks
  <2> HIDE DEF acc
  <2> QED BY <1>0, <2>1, <2>2, MakeResidentOrder
<1>6. ASSUME NEW p \in Pages, WriteFromCpu(p) PROVE InOrder(hw, blk)' /\ Underway'
  <2> DEFINE acc == [x \in {p} |-> 0]
             d == IF ResidentProcs(p) = {} THEN "cpu" ELSE Closest("cpu", ResidentProcs(p))
  <2>1. MakeResident("host", "cpu", acc, d, FALSE) BY <1>6 DEF WriteFromCpu
  <2>2. DOMAIN acc \subseteq Pages /\ DOMAIN acc # {} /\ \A c \in DOMAIN acc : acc[c] \in 0..3 OBVIOUS
  <2>3. d \in Procs
    <3>1. ResidentProcs(p) \subseteq Procs BY DEF ResidentProcs
    <3>2. ResidentProcs(p) # {} => Closest("cpu", ResidentProcs(p)) \in ResidentProcs(p) BY ClosestIn
    <3> QED BY <1>0, <3>1, <3>2
  <2> HIDE DEF acc, d
  <2> QED BY <1>0, <2>1, <2>2, <2>3, MakeResidentOrder
<1> QED BY <1>2, <1>3, <1>4, <1>5, <1>6

(* Pages and permissions stay as they were.                                  *)
LEMMA SameBacked ==
  ASSUME NEW b, NEW d, d.resident = b.resident, d.readdup = b.readdup, d.prot = b.prot
  PROVE  /\ Backed(b) => Backed(d)
         /\ \A h, k : CpuInStep(h, b) /\ k.pte = h.pte => CpuInStep(k, d)
         /\ \A p : Here(d, p) = Here(b, p)
<1>1. \A p : Here(d, p) = Here(b, p) BY DEF Here
<1>2. \A x, p, e : Aimed(b, x, p, e) => Aimed(d, x, p, e) BY <1>1 DEF Aimed
<1> QED BY <1>1, <1>2 DEF Backed, CpuInStep

(* block_populate_pages_cpu: new memory is zero where no page is.             *)
LEMMA CpuMemory ==
  ASSUME TrackInv, InOrder(hw, blk), PopulateCpu, op.pc = "populate"
  PROVE  (\A p \in Pages : PageInv(hw', blk', p)) /\ PushInv(hw') /\ hw'.pte = hw.pte
<1> DEFINE Z == (Missing \ blk.alloc) \cap Nowhere
           C == [hw.cur EXCEPT !["cpu"] = @ \cup Z]
<1>1. "cpu" \in Procs /\ "cpu" \notin mode.gpus BY ProcFacts DEF TrackInv
<1>2. PushInv(hw) /\ hw.cur = [x \in Procs |-> hw.cur[x]] BY DEF InOrder, PushInv
<1>3. hw' = [hw EXCEPT !.cur = C] BY DEF PopulateCpu
<1>4. C = [x \in Procs |-> C[x]] /\ (\A y \in Procs : hw.cur[y] \subseteq C[y]) /\ C["cpu"] = hw.cur["cpu"] \cup Z
  BY <1>1, <1>2
<1> HIDE DEF C
<1>5. hw' = [cur |-> C, pte |-> hw.pte, q |-> hw.q] BY <1>3, HwPart DEF TrackInv, HwOK
<1>6. hw'.cur = C /\ hw'.pte = hw.pte /\ hw'.q = hw.q BY <1>5
<1>7. PushInv(hw') BY <1>2, <1>4, <1>6 DEF PushInv
<1>8. Len(hw.q) \in Nat /\ DOMAIN hw.q = 1..Len(hw.q) BY HwLen DEF TrackInv
<1>9. /\ blk'.resident = blk.resident /\ blk'.readdup = blk.readdup /\ blk'.chunk = blk.chunk
      /\ blk'.alloc = blk.alloc \cup Missing
  BY DEF PopulateCpu, TrackInv, BlkOK, Blocks
<1>10. ASSUME NEW p \in Pages PROVE PageInv(hw', blk', p)
  <2>1. PICK c, d : c = hw' /\ d = blk' OBVIOUS
  <2>2. PageInv(hw, blk, p) BY DEF InOrder
  <2>3. /\ c.pte = hw.pte /\ c.q = hw.q /\ \A y \in Procs : p \in hw.cur[y] => p \in c.cur[y]
    BY <1>4, <1>6, <2>1
  <2>4. /\ HwInv(hw, p) => HwInv(c, p)
        /\ LastAimed(hw, blk, p) => LastAimed(c, blk, p)
        /\ NowhereUnmapped(hw, blk, p) => NowhereUnmapped(c, blk, p)
        /\ \A t : \A y \in Procs : Fresh(hw, t, y, p) => Fresh(c, t, y, p)
        /\ \A y : p \in c.cur[y] /\ (\A i \in DOMAIN hw.q : ~FreedAt(hw, i, y))
                  /\ (\A i \in 0..Len(hw.q), x \in Procs : \A e \in Entries(hw, i, x, p) : ~(e.prot >= 2 /\ e.to # y))
                  => \A t : Fresh(c, t, y, p)
    BY <1>8, <2>3, CurGrows
  <2>5. PageInv(c, blk, p) BY <2>2, <2>3, <2>4 DEF PageInv, HwInv, HeldFresh
  <2>6. Here(d, p) = Here(blk, p) BY <1>9, <2>1 DEF Here
  <2>7. ASSUME NEW y \in Procs, Holds(d, y, p), ~Holds(blk, y, p) PROVE Fresh(c, Len(c.q) + 1, y, p)
    <3>1. Here(blk, p) = {} /\ y = "cpu" /\ p \in Missing /\ p \notin blk.alloc
      BY <1>9, <2>1, <2>6, <2>7 DEF Holds
    <3>2. p \in Z BY <3>1, HereFacts DEF Nowhere
    <3>3. p \in c.cur[y] BY <1>4, <1>6, <2>1, <3>1, <3>2
    <3>4. \A i \in DOMAIN hw.q : ~FreedAt(hw, i, y) BY <1>1, <1>2, <3>1 DEF PushInv, FreedAt
    <3>5. \A i \in 0..Len(hw.q), x \in Procs : \A e \in Entries(hw, i, x, p) : ~(e.prot >= 2 /\ e.to # y)
      <4>1. \A i \in 0..Len(hw.q), x \in Procs : \A e \in Entries(hw, i, x, p) : e.prot = 0
        BY <2>2, <3>1 DEF PageInv, NowhereUnmapped
      <4> QED BY <4>1
    <3> QED BY <2>4, <3>3, <3>4, <3>5
  <2>8. PageInv(c, d, p) BY <1>9, <2>1, <2>5, <2>6, <2>7, BlockChange
  <2> QED BY <2>1, <2>8
<1> QED BY <1>6, <1>7, <1>10

(* block_populate_gpu_chunk: a new chunk is zeroed where no page is, and      *)
(* nobody can write such a page.                                              *)
LEMMA GpuMemory ==
  ASSUME TrackInv, InOrder(hw, blk), NEW g \in mode.gpus, PopulateGpu(g), Staged \subseteq Pages
  PROVE  (\A p \in Pages : PageInv(hw', blk', p)) /\ PushInv(hw') /\ hw'.pte = hw.pte
<1>1. "cpu" \in Procs /\ "cpu" \notin mode.gpus /\ mode.gpus \subseteq Procs BY ProcFacts DEF TrackInv
<1>2. PushInv(hw) /\ \A p \in Pages : PageInv(hw, blk, p) BY DEF InOrder
<1>3. /\ blk'.resident = blk.resident /\ blk'.readdup = blk.readdup
      /\ blk'.chunk = blk.chunk \cup {g} /\ blk'.alloc = blk.alloc \cup Staged
  BY DEF PopulateGpu, TrackInv, BlkOK, Blocks
<1>4. \A p \in Staged : Here(blk, p) # {} BY HereFacts DEF Staged
<1>5. PICK d : d = blk' OBVIOUS
<1>6. \A p : Here(d, p) = Here(blk, p) BY <1>3, <1>5 DEF Here
<1>7. \A p \in Pages, y \in Procs : Holds(d, y, p) => Holds(blk, y, p) \/ (y = g /\ g \notin blk.chunk /\ p \in Nowhere)
  BY <1>3, <1>4, <1>5, <1>6, HereFacts DEF Holds, Nowhere
<1>8. CASE g \in blk.chunk \/ Nowhere = {}
  <2>1. hw' = hw BY <1>8 DEF PopulateGpu, Push
  <2>2. \A p \in Pages, y \in Procs : Holds(d, y, p) => Holds(blk, y, p) BY <1>7, <1>8
  <2>3. \A p \in Pages : PageInv(hw, d, p) BY <1>2, <1>3, <1>5, <1>6, <2>2, BlockChange
  <2> QED BY <1>2, <1>5, <2>1, <2>3
<1>9. CASE ~(g \in blk.chunk \/ Nowhere = {})
  <2> DEFINE S == {[k |-> "zero", at |-> g, pages |-> Nowhere]}
  <2>1. hw' = Push(hw, S) BY <1>9 DEF PopulateGpu
  <2>2. S # {} /\ \A w \in S : w.k = "zero" /\ w.at = g /\ w.pages = Nowhere OBVIOUS
  <2> HIDE DEF S
  <2>3. PICK k, n : k = hw' /\ n = Len(hw.q) OBVIOUS
  <2>4. Stages(hw, S, k, n)
    <3>1. Longer(hw, S, k) BY <2>1, <2>2, <2>3, PushFacts DEF TrackInv
    <3> QED BY <2>3, <3>1, LongerStages
  <2>5. n \in Nat /\ Len(k.q) = n + 1 /\ k.pte = hw.pte BY <2>4 DEF Stages
  <2>6. PushInv(k)
    <3>1. \A w \in S : PushTyped(w, n + 1) BY <2>2 DEF PushTyped
    <3> QED BY <1>2, <2>4, <3>1, PushInvStage
  <2>7. ASSUME NEW p \in Pages PROVE PageInv(k, d, p)
    <3>0. PageInv(hw, blk, p) BY <1>2
    <3>1. HwInv(hw, p) /\ LastAimed(hw, blk, p) /\ NowhereUnmapped(hw, blk, p) BY <3>0 DEF PageInv, HwInv
    <3>2. \A w \in S : w.k \in {"copy", "cap", "zero"} BY <2>2
    <3>3. (\E w \in S, y \in Procs : Fills(w, y, p)) => NoWriter(hw, p)
      <4> SUFFICES ASSUME \E w \in S, y \in Procs : Fills(w, y, p) PROVE NoWriter(hw, p) OBVIOUS
      <4>1. p \in Nowhere BY <2>2 DEF Fills
      <4>2. Here(blk, p) = {} BY <4>1, HereFacts DEF Nowhere
      <4>3. \A i \in 0..Len(hw.q), x \in Procs : \A e \in Entries(hw, i, x, p) : e.prot = 0
        BY <3>1, <4>2 DEF NowhereUnmapped
      <4> QED BY <4>3 DEF NoWriter
    <3>4. \A w \in S : ~(w.k = "copy" /\ p \in w.pages) /\ ~(w.k = "cap" /\ p \in w.pages) BY <2>2
    <3>5. /\ HwInv(k, p) /\ LastAimed(k, blk, p) /\ NowhereUnmapped(k, blk, p)
          /\ \A y : Fresh(hw, n + 1, y, p) => Fresh(k, n + 2, y, p)
          /\ \A y : (\E w \in S : Fills(w, y, p)) => Fresh(k, n + 2, y, p)
      BY <2>4, <3>1, <3>2, <3>3, <3>4, FillPush
    <3>6. PageInv(k, blk, p)
      <4>1. HeldFresh(k, blk, p) BY <2>3, <2>5, <3>0, <3>5 DEF PageInv, HeldFresh
      <4> QED BY <3>5, <4>1 DEF PageInv, HwInv
    <3>7. ASSUME p \in Nowhere PROVE Fresh(k, Len(k.q) + 1, g, p)
      <4>1. \E w \in S : Fills(w, g, p) BY <2>2, <3>7 DEF Fills
      <4> QED BY <2>5, <3>5, <4>1
    <3>8. \A y \in Procs : Holds(d, y, p) => Holds(blk, y, p) \/ Fresh(k, Len(k.q) + 1, y, p) BY <1>7, <3>7
    <3> QED BY <1>3, <1>5, <1>6, <3>6, <3>8, BlockChange
  <2> QED BY <1>5, <2>3, <2>5, <2>6, <2>7
<1> QED BY <1>8, <1>9

(* block_populate_pages.                                                      *)
LEMMA PopulateOrder ==
  ASSUME Ordered, Populate PROVE InOrder(hw, blk)' /\ Underway'
<1>0. TrackInv /\ InOrder(hw, blk) /\ Underway BY DEF Ordered
<1>1. mode' = mode /\ op' = [op EXCEPT !.pc = "copy"] /\ op.pc = "populate" BY DEF Populate
<1>2. op.dst \in Procs /\ DOMAIN op.acc \subseteq Pages BY <1>0, <1>1 DEF TrackInv, OpOK
<1>3. Missing \subseteq Pages /\ Staged \subseteq Pages BY <1>2 DEF Missing, Staged, P_op
<1>4. /\ blk'.resident = blk.resident /\ blk'.prot = blk.prot /\ blk'.readdup = blk.readdup
      /\ op.dst = "cpu" => Missing \subseteq blk'.alloc
      /\ op.dst # "cpu" => op.dst \in blk'.chunk
  <2>1. CASE op.dst = "cpu"
    <3>1. blk' = [blk EXCEPT !.alloc = @ \cup Missing] BY <2>1 DEF Populate, PopulateCpu
    <3> QED BY <1>0, <2>1, <3>1 DEF TrackInv, BlkOK, Blocks
  <2>2. CASE op.dst # "cpu"
    <3>1. PopulateGpu(op.dst) BY <2>2 DEF Populate
    <3>2. \/ blk' = [blk EXCEPT !.alloc = @ \cup Staged] /\ op.dst \in blk.chunk
          \/ blk' = [blk EXCEPT !.chunk = @ \cup {op.dst}, !.alloc = @ \cup Staged]
      BY <3>1 DEF PopulateGpu
    <3>3. blk'.resident = blk.resident /\ blk'.prot = blk.prot /\ blk'.readdup = blk.readdup
      BY <1>0, <3>2 DEF TrackInv, BlkOK, Blocks
    <3>4. op.dst \in blk'.chunk
      <4>1. PICK g : g = op.dst OBVIOUS
      <4>2. blk'.chunk = blk.chunk \cup {g} BY <1>0, <3>1, <4>1 DEF PopulateGpu, TrackInv, BlkOK, Blocks
      <4> QED BY <4>1, <4>2
    <3> QED BY <2>2, <3>3, <3>4
  <2> QED BY <2>1, <2>2
<1>5. (\A p \in Pages : PageInv(hw', blk', p)) /\ PushInv(hw') /\ hw'.pte = hw.pte
  <2>1. CASE op.dst = "cpu" BY <1>0, <1>1, <2>1, CpuMemory DEF Populate
  <2>2. CASE op.dst # "cpu"
    <3>1. op.dst \in mode.gpus BY <1>2, <2>2 DEF Procs
    <3> QED BY <1>0, <1>3, <2>2, <3>1, GpuMemory DEF Populate
  <2> QED BY <2>1, <2>2
<1>6. PICK k, d : k = hw' /\ d = blk' OBVIOUS
<1>7. Backed(d) /\ CpuInStep(k, d)
  <2>1. d.resident = blk.resident /\ d.readdup = blk.readdup /\ d.prot = blk.prot /\ k.pte = hw.pte BY <1>4, <1>5, <1>6
  <2>2. Backed(blk) /\ CpuInStep(hw, blk) BY <1>0 DEF InOrder
  <2> QED BY <2>1, <2>2, SameBacked
<1>8. InOrder(hw, blk)'
  <2>1. InOrder(hw', blk') BY <1>5, <1>6, <1>7 DEF InOrder
  <2> QED BY <1>1, <2>1, OrderPrime
<1>9. /\ op'.pc = "copy" /\ op'.kind = op.kind /\ op'.who = op.who /\ op'.acc = op.acc
      /\ op'.dst = op.dst /\ op'.dup = op.dup
  BY <1>0, <1>1 DEF TrackInv, OpOK
<1>10. Procs' = Procs /\ Pages' = Pages /\ (P_op)' = P_op /\ (Missing)' = Missing
  BY <1>1, <1>4, <1>9 DEF Procs, Pages, P_op, Missing
<1>11. Underway'
  <2>1. /\ op'.kind \in {"evict", "unregister"} => (P_op)' = blk'.resident[op'.who]
        /\ op'.kind = "host" => (P_op)' # {}
        /\ op'.kind # "fault" => ~op'.dup
        /\ op'.dup => mode'.rd /\ \A p \in (P_op)' : op'.acc[p] <= 1
        /\ \A p \in (P_op)' : op'.acc[p] \in 0..3
    BY <1>0, <1>1, <1>4, <1>9, <1>10 DEF Underway
  <2>2. \A p \in (P_op)', y \in Procs' :
          IF op'.dup THEN blk'.prot[y][p] <= 1
          ELSE p \in (Missing)' \/ (p \in blk'.readdup /\ y # op'.dst) => blk'.prot[y][p] = 0
    <3>1. \A p \in P_op, y \in Procs :
            IF op.dup THEN blk.prot[y][p] <= 1
            ELSE p \in Missing \/ (p \in blk.readdup /\ y # op.dst) => blk.prot[y][p] = 0
      BY <1>0, <1>1 DEF Underway
    <3> QED BY <1>4, <1>9, <1>10, <3>1
  <2>3. \/ op'.dst = "cpu" /\ (Missing)' \subseteq blk'.alloc
        \/ op'.dst \in blk'.chunk
    BY <1>4, <1>9, <1>10
  <2>4. op'.pc \notin {"revoke", "map", "write", "free", "others"} BY <1>9
  <2>5. ~mode'.rd => blk'.readdup = {} BY <1>0, <1>1, <1>4 DEF Underway
  <2> QED BY <2>1, <2>2, <2>3, <2>4, <2>5 DEF Underway
<1> QED BY <1>8, <1>11

(* An entry that no push under way replaces is the one the driver recorded.  *)
LEMMA Settled ==
  ASSUME mode \in Modes, NEW h, HwOK(h), NEW b, InStep(h, b.prot), CpuInStep(h, b),
         NEW x \in Procs, NEW p \in Pages, NEW t \in 0..Len(h.q), NEW e \in Entries(h, t, x, p),
         ~Remapped(h, t, Len(h.q) + 1, x, p)
  PROVE  e.prot = b.prot[x][p]
<1>1. Len(h.q) \in Nat /\ DOMAIN h.q = 1..Len(h.q) BY HwLen
<1>2. Untouched(h, t, x, p)
  <2> SUFFICES ASSUME NEW i \in DOMAIN h.q, i > t, NEW w \in h.q[i], Touches(w, x, p) PROVE FALSE
    BY DEF Untouched
  <2>1. TouchedAt(h, i, x, p) BY DEF TouchedAt
  <2>2. t < i /\ i < Len(h.q) + 1 BY <1>1
  <2> QED BY <2>1, <2>2 DEF Remapped
<1>3. CASE x = "cpu"
  <2>1. "cpu" \notin mode.gpus BY ProcFacts
  <2>2. \A i \in DOMAIN h.q : \A w \in h.q[i] : ~Touches(w, x, p) BY <1>3, <2>1 DEF HwOK, PushOK, Touches
  <2>3. t = 0
    <3> SUFFICES ASSUME t # 0 PROVE FALSE OBVIOUS
    <3>1. t \in DOMAIN h.q BY <1>1
    <3> QED BY <2>2, <3>1 DEF Entries
  <2>4. e = h.pte["cpu"][p] BY <1>3, <2>3 DEF Entries
  <2> QED BY <1>3, <2>4 DEF CpuInStep
<1>4. CASE x # "cpu"
  <2>1. x \in mode.gpus BY <1>4, ProcFacts
  <2>2. CASE t = 0
    <3>1. e = h.pte[x][p] BY <2>2 DEF Entries
    <3> QED BY <1>2, <2>1, <2>2, <3>1 DEF InStep
  <2>3. CASE t # 0
    <3>1. t \in DOMAIN h.q BY <1>1, <2>3
    <3>2. PICK w \in h.q[t] : Touches(w, x, p) /\ e = w.set[p] BY <2>3 DEF Entries
    <3> QED BY <1>2, <2>1, <3>1, <3>2 DEF InStep
  <2> QED BY <2>2, <2>3
<1> QED BY <1>3, <1>4

(* Nobody has been left a permission to write.                               *)
LEMMA ReadOnlyNoWriter ==
  ASSUME mode \in Modes, NEW h, HwOK(h), NEW b, InStep(h, b.prot), CpuInStep(h, b), NEW p \in Pages,
         \A x \in Procs : ~(b.prot[x][p] >= 2)
  PROVE  NoWriter(h, p)
<1> SUFFICES ASSUME NEW i \in 0..Len(h.q), NEW x \in Procs, NEW e \in Entries(h, i, x, p), e.prot >= 2,
                    ~Remapped(h, i, Len(h.q) + 1, x, p)
             PROVE  FALSE
  BY DEF NoWriter
<1>1. e.prot = b.prot[x][p] BY Settled
<1> QED BY <1>1

(* What the copies of an operation leave for p.                              *)
CopiedPage(k, p) ==
  /\ HwInv(k, p) /\ LastAimed(k, blk, p) /\ NowhereUnmapped(k, blk, p)
  /\ \A y \in Procs : Fresh(hw, Len(hw.q) + 1, y, p) => Fresh(k, Len(k.q) + 1, y, p)
  /\ p \in Missing /\ ResidentProcs(p) # {} => Fresh(k, Len(k.q) + 1, op.dst, p)
  /\ p \in Staged => Fresh(k, Len(k.q) + 1, "cpu", p)

(* What they may assume of it.                                               *)
CopyablePage(p) ==
  /\ HwInv(hw, p) /\ LastAimed(hw, blk, p) /\ NowhereUnmapped(hw, blk, p)
  /\ p \in Missing /\ ResidentProcs(p) # {} =>
       /\ NoWriter(hw, p)
       /\ Source(p) \in Procs /\ Fresh(hw, Len(hw.q) + 1, Source(p), p)
       /\ p \notin Staged /\ op.dst # "cpu" => Source(p) \in CanCopyFrom(op.dst)

(* A page is copied from a copy of it, and nobody can write it any more.     *)
LEMMA Copyable ==
  ASSUME Ordered, op.pc = "copy", NEW p \in Pages PROVE CopyablePage(p)
<1>0. TrackInv /\ InOrder(hw, blk) /\ Underway BY DEF Ordered
<1>1. PageInv(hw, blk, p) /\ CpuInStep(hw, blk) BY <1>0 DEF InOrder
<1>2. HwInv(hw, p) /\ LastAimed(hw, blk, p) /\ NowhereUnmapped(hw, blk, p) BY <1>1 DEF PageInv, HwInv
<1>3. ASSUME p \in Missing, ResidentProcs(p) # {}
      PROVE  /\ NoWriter(hw, p)
             /\ Source(p) \in Procs /\ Fresh(hw, Len(hw.q) + 1, Source(p), p)
             /\ p \notin Staged /\ op.dst # "cpu" => Source(p) \in CanCopyFrom(op.dst)
  <2>1. p \in P_op BY <1>3 DEF Missing
  <2>2. \A x \in Procs : blk.prot[x][p] \in 0..3 BY <1>0 DEF TrackInv, BlkOK, Blocks
  <2>3. \A x \in Procs : ~(blk.prot[x][p] >= 2)
    <3>1. \A x \in Procs : IF op.dup THEN blk.prot[x][p] <= 1
            ELSE p \in Missing \/ (p \in blk.readdup /\ x # op.dst) => blk.prot[x][p] = 0
      BY <1>0, <2>1 DEF Underway
    <3> QED BY <1>3, <2>2, <3>1
  <2>4. NoWriter(hw, p) BY <1>0, <1>1, <2>3, ReadOnlyNoWriter DEF TrackInv
  <2>5. Source(p) \in ResidentProcs(p) /\ (p \notin Staged /\ op.dst # "cpu" => Source(p) \in CanCopyFrom(op.dst))
    <3> DEFINE d == ResidentProcs(p) \cap CanCopyFrom(op.dst)
    <3>1. CASE op.dst = "cpu" \/ d = {}
      <4>1. Source(p) = Closest("cpu", ResidentProcs(p)) BY <3>1 DEF Source
      <4>2. Source(p) \in ResidentProcs(p) BY <1>3, <4>1, ClosestIn
      <4>3. op.dst # "cpu" => p \in Staged BY <1>3, <3>1 DEF Staged
      <4> QED BY <4>2, <4>3
    <3>2. CASE ~(op.dst = "cpu" \/ d = {})
      <4>1. Source(p) = Closest(op.dst, d) BY <3>2 DEF Source
      <4>2. d # {} BY <3>2
      <4> HIDE DEF d
      <4>3. Source(p) \in d BY <4>1, <4>2, ClosestIn
      <4> QED BY <4>3 DEF d
    <3> QED BY <3>1, <3>2
  <2>6. Source(p) \in Procs /\ Holds(blk, Source(p), p) BY <2>5, HereFacts DEF Holds, ResidentProcs
  <2>7. Fresh(hw, Len(hw.q) + 1, Source(p), p) BY <1>1, <2>6 DEF PageInv, HeldFresh
  <2> QED BY <2>4, <2>5, <2>6, <2>7
<1> QED BY <1>2, <1>3 DEF CopyablePage

(* A stage of copies on the tracker.                                         *)
LEMMA CopyStage ==
  ASSUME NEW h, HwOK(h), NEW prot, InStep(h, prot), PushInv(h), NEW S, S # {},
         \A w \in S : PushTyped(w, Len(h.q) + 1) /\ PushOK(w) /\ w.k # "pte", NEW k, k = Push(h, S)
  PROVE  Stages(h, S, k, Len(h.q)) /\ HwOK(k) /\ InStep(k, prot) /\ PushInv(k)
<1>1. Stages(h, S, k, Len(h.q))
  <2>1. Longer(h, S, k) BY PushFacts
  <2> QED BY <2>1, LongerStages
<1>2. HwOK(k) /\ InStep(k, prot)
  <2>1. \A w \in S : PushOK(w) /\ w.k # "pte" OBVIOUS
  <2> QED BY <2>1, PushPlain
<1>3. PushInv(k) BY <1>1, PushInvStage
<1> QED BY <1>1, <1>2, <1>3

(* The copies of the pages P to y.                                           *)
LEMMA CopiesFacts ==
  ASSUME NEW P, NEW y
  PROVE  /\ \A w \in Copies(P, y) : /\ w.k = "copy" /\ w.to = y
                                    /\ \E p \in P : w.from = Source(p)
                                    /\ \A p \in w.pages : p \in P /\ Source(p) = w.from
         /\ \A p \in P : \E w \in Copies(P, y) : Fills(w, y, p)
<1>1. ASSUME NEW w \in Copies(P, y)
      PROVE  /\ w.k = "copy" /\ w.to = y
             /\ \E p \in P : w.from = Source(p)
             /\ \A p \in w.pages : p \in P /\ Source(p) = w.from
  <2>1. PICK s \in {Source(p) : p \in P} :
          w = [k |-> "copy", from |-> s, to |-> y, pages |-> {p \in P : Source(p) = s}]
    BY DEF Copies
  <2> QED BY <2>1
<1>2. ASSUME NEW p \in P PROVE \E w \in Copies(P, y) : Fills(w, y, p)
  <2> DEFINE w == [k |-> "copy", from |-> Source(p), to |-> y, pages |-> {c \in P : Source(c) = Source(p)}]
  <2>1. w \in Copies(P, y) BY DEF Copies
  <2>2. Fills(w, y, p) BY DEF Fills
  <2> QED BY <2>1, <2>2
<1> QED BY <1>1, <1>2

(* Copies without encryption: what can be copied directly and what is staged, *)
(* then what was staged.                                                     *)
LEMMA PlainCopies ==
  ASSUME Ordered, op.pc = "copy", ~mode.cc, NEW M, M = {p \in Missing : ResidentProcs(p) # {}}, M # {},
         NEW k, k = CopyResidentPages(hw, M)
  PROVE  PushInv(k) /\ k.pte = hw.pte /\ \A p \in Pages : CopiedPage(k, p)
<1> DEFINE A == Copies(M \ Staged, op.dst)
           B == Copies(Staged, "cpu")
           S == A \cup B
           T == {[k |-> "copy", from |-> "cpu", to |-> op.dst, pages |-> Staged]}
           c == Push(hw, S)
<1>0. /\ TrackInv /\ InOrder(hw, blk) /\ mode \in Modes /\ HwOK(hw) /\ InStep(hw, blk.prot) /\ PushInv(hw)
  BY DEF Ordered, TrackInv, InOrder
<1>1. op.dst \in Procs /\ P_op \subseteq Pages BY <1>0 DEF TrackInv, OpOK, P_op
<1>2. M \subseteq Pages /\ Staged \subseteq M /\ M \subseteq Missing BY <1>1 DEF Missing, Staged
<1>3. "cpu" \in Procs BY <1>0, ProcFacts
<1>4. \A p \in Pages : CopyablePage(p) BY Copyable
<1>5. \A p \in M : NoWriter(hw, p) /\ Source(p) \in Procs /\ Fresh(hw, Len(hw.q) + 1, Source(p), p)
  BY <1>2, <1>4 DEF CopyablePage
<1>6. \A w \in S : /\ w.k = "copy" /\ w.to \in Procs /\ w.from \in Procs
                   /\ \A p \in w.pages : p \in M /\ Source(p) = w.from
  <2>1. \A w \in A : /\ w.k = "copy" /\ w.to \in Procs /\ w.from \in Procs
                     /\ \A p \in w.pages : p \in M /\ Source(p) = w.from
    BY <1>1, <1>5, CopiesFacts
  <2>2. \A w \in B : /\ w.k = "copy" /\ w.to \in Procs /\ w.from \in Procs
                     /\ \A p \in w.pages : p \in M /\ Source(p) = w.from
    BY <1>2, <1>3, <1>5, CopiesFacts
  <2> QED BY <2>1, <2>2
<1>7. \A p \in M \ Staged : \E w \in S : Fills(w, op.dst, p)
  <2>1. PICK Q : Q = M \ Staged OBVIOUS
  <2>2. \A p \in Q : \E w \in Copies(Q, op.dst) : Fills(w, op.dst, p) BY CopiesFacts
  <2> QED BY <2>1, <2>2
<1>8. \A p \in Staged : \E w \in S : Fills(w, "cpu", p) BY CopiesFacts
<1>9. S # {}
  <2>1. PICK p \in M : TRUE OBVIOUS
  <2> QED BY <1>7, <1>8, <2>1
<1>10. k = IF Staged = {} THEN c ELSE Push(c, T)
  <2>1. k = Push(c, IF Staged = {} THEN {} ELSE T) BY DEF CopyResidentPages
  <2> QED BY <2>1 DEF Push
<1>11. \A w \in T : w.k = "copy" /\ w.from = "cpu" /\ w.to = op.dst /\ w.pages = Staged OBVIOUS
<1>12. PICK h : h = c OBVIOUS
<1>13. h = Push(hw, S) BY <1>12
<1> HIDE DEF S, T, c, A, B
<1>14. Stages(hw, S, h, Len(hw.q)) /\ HwOK(h) /\ InStep(h, blk.prot) /\ PushInv(h)
  <2>1. \A w \in S : PushTyped(w, Len(hw.q) + 1) /\ PushOK(w) /\ w.k # "pte" BY <1>6 DEF PushTyped, PushOK
  <2> QED BY <1>0, <1>9, <1>13, <2>1, CopyStage
<1>15. Len(hw.q) \in Nat /\ Len(h.q) = Len(hw.q) + 1 /\ h.pte = hw.pte BY <1>14 DEF Stages
<1> DEFINE n == Len(hw.q)
<1>16. ASSUME NEW p \in Pages
       PROVE  /\ HwInv(h, p) /\ LastAimed(h, blk, p) /\ NowhereUnmapped(h, blk, p)
              /\ \A y \in Procs : Fresh(hw, n + 1, y, p) => Fresh(h, n + 2, y, p)
              /\ p \in M \ Staged => Fresh(h, n + 2, op.dst, p)
              /\ p \in Staged => Fresh(h, n + 2, "cpu", p)
              /\ p \in M => NoWriter(h, p)
  <2>1. HwInv(hw, p) /\ LastAimed(hw, blk, p) /\ NowhereUnmapped(hw, blk, p) BY <1>4 DEF CopyablePage
  <2>2. \A w \in S : w.k \in {"copy", "cap", "zero"} BY <1>6
  <2>3. (\E w \in S, y \in Procs : Fills(w, y, p)) => NoWriter(hw, p) BY <1>5, <1>6 DEF Fills
  <2>4. \A w \in S : w.k = "copy" /\ p \in w.pages => Fresh(hw, n + 1, w.from, p) BY <1>5, <1>6
  <2>5. \A w \in S : w.k = "cap" /\ p \in w.pages => p \in w.good BY <1>6
  <2>6. /\ HwInv(h, p) /\ LastAimed(h, blk, p) /\ NowhereUnmapped(h, blk, p)
        /\ \A y : Fresh(hw, n + 1, y, p) => Fresh(h, n + 2, y, p)
        /\ \A y : (\E w \in S : Fills(w, y, p)) => Fresh(h, n + 2, y, p)
        /\ NoWriter(hw, p) => NoWriter(h, p)
    BY <1>14, <2>1, <2>2, <2>3, <2>4, <2>5, FillPush
  <2> QED BY <1>5, <1>7, <1>8, <2>6
<1>17. CASE Staged = {}
  <2>1. k = h /\ Len(k.q) + 1 = n + 2 BY <1>10, <1>12, <1>15, <1>17
  <2>2. \A p \in Pages : CopiedPage(k, p) BY <1>16, <1>17, <2>1 DEF CopiedPage
  <2> QED BY <1>14, <1>15, <2>1, <2>2
<1>18. CASE Staged # {}
  <2>1. k = Push(h, T) BY <1>10, <1>12, <1>18
  <2>2. T # {} BY DEF T
  <2>3. Stages(h, T, k, Len(h.q)) /\ PushInv(k)
    <3>1. \A w \in T : PushTyped(w, Len(h.q) + 1) /\ PushOK(w) /\ w.k # "pte"
      BY <1>1, <1>3, <1>11 DEF PushTyped, PushOK
    <3> QED BY <1>14, <2>1, <2>2, <3>1, CopyStage
  <2>4. PICK m : m = Len(h.q) OBVIOUS
  <2>9. Stages(h, T, k, m) BY <2>3, <2>4
  <2>5. m \in Nat /\ m + 1 = n + 2 /\ Len(k.q) = m + 1 /\ k.pte = h.pte
    BY <1>15, <2>4, <2>9 DEF Stages
  <2>6. ASSUME NEW p \in Pages PROVE CopiedPage(k, p)
    <3>1. /\ HwInv(h, p) /\ LastAimed(h, blk, p) /\ NowhereUnmapped(h, blk, p)
          /\ \A y \in Procs : Fresh(hw, n + 1, y, p) => Fresh(h, m + 1, y, p)
          /\ p \in M \ Staged => Fresh(h, m + 1, op.dst, p)
          /\ p \in Staged => Fresh(h, m + 1, "cpu", p)
          /\ p \in M => NoWriter(h, p)
      BY <1>16, <2>5
    <3>2. \A w \in T : w.k \in {"copy", "cap", "zero"} BY <1>11
    <3>3. (\E w \in T, y \in Procs : Fills(w, y, p)) => NoWriter(h, p) BY <1>2, <1>11, <3>1 DEF Fills
    <3>4. \A w \in T : w.k = "copy" /\ p \in w.pages => Fresh(h, m + 1, w.from, p) BY <1>11, <3>1
    <3>5. \A w \in T : w.k = "cap" /\ p \in w.pages => p \in w.good BY <1>11
    <3>6. /\ HwInv(k, p) /\ LastAimed(k, blk, p) /\ NowhereUnmapped(k, blk, p)
          /\ \A y : Fresh(h, m + 1, y, p) => Fresh(k, m + 2, y, p)
          /\ \A y : (\E w \in T : Fills(w, y, p)) => Fresh(k, m + 2, y, p)
      BY <2>9, <3>1, <3>2, <3>3, <3>4, <3>5, FillPush
    <3>7. p \in Staged => \E w \in T : Fills(w, op.dst, p) BY <1>11, <2>2 DEF Fills
    <3>8. m + 2 = Len(k.q) + 1 BY <2>5
    <3> QED BY <3>1, <3>6, <3>7, <3>8 DEF CopiedPage
  <2> QED BY <1>15, <2>3, <2>5, <2>6
<1> QED BY <1>17, <1>18

(* Nothing under way: what is up to date is what memory holds.                *)
LEMMA DrainedFresh ==
  ASSUME NEW h, h.q = <<>>, NEW t, NEW y, NEW p, t >= 0, Fresh(h, t, y, p)
  PROVE  p \in h.cur[y]
<1>1. Len(h.q) = 0 /\ DOMAIN h.q = {} OBVIOUS
<1>2. 0 \in 0..Len(h.q) /\ 0 <= t BY <1>1
<1>3. ~Filled(h, 0, t, y, p) BY <1>1 DEF Filled
<1>4. ~Spoils(h, 0, y, p) BY <1>2, <1>3 DEF Fresh
<1> QED BY <1>4 DEF Spoils

(* c is the hardware after pages P were decrypted to CPU memory.              *)
Decrypted(c, P) ==
  /\ HwOK(c) /\ InStep(c, blk.prot) /\ PushInv(c) /\ c.pte = hw.pte /\ c.q = hw.q
  /\ c.cur["cpu"] = hw.cur["cpu"] \cup P
  /\ \A p \in Pages :
       /\ HwInv(c, p) /\ LastAimed(c, blk, p) /\ NowhereUnmapped(c, blk, p)
       /\ \A t : \A y \in Procs : Fresh(hw, t, y, p) => Fresh(c, t, y, p)
       /\ p \in P => \A t : Fresh(c, t, "cpu", p)
       /\ NoWriter(hw, p) => NoWriter(c, p)

(* conf_computing_copy_pages_finish: what is decrypted is current.            *)
LEMMA DecryptFacts ==
  ASSUME Ordered, op.pc = "copy", Drained, NEW P, P \subseteq Pages,
         \A p \in P : p \in Missing /\ ResidentProcs(p) # {}, NEW c, c = Decrypt(hw, P)
  PROVE  Decrypted(c, P)
<1> DEFINE X == (hw.cur["cpu"] \ P) \cup {p \in P : p \in hw.cur[Source(p)]}
           C == [hw.cur EXCEPT !["cpu"] = X]
<1>0. TrackInv /\ InOrder(hw, blk) /\ mode \in Modes /\ HwOK(hw) /\ InStep(hw, blk.prot) /\ PushInv(hw)
  BY DEF Ordered, TrackInv, InOrder
<1>1. "cpu" \in Procs /\ "cpu" \notin mode.gpus BY <1>0, ProcFacts
<1>2. Len(hw.q) = 0 /\ DOMAIN hw.q = {} /\ hw.q = <<>> BY DEF Drained
<1>3. \A p \in Pages : CopyablePage(p) BY Copyable
<1>4. \A p \in P : NoWriter(hw, p) /\ Fresh(hw, Len(hw.q) + 1, Source(p), p) BY <1>3 DEF CopyablePage
<1>5. \A p \in P : p \in hw.cur[Source(p)]
  <2> SUFFICES ASSUME NEW p \in P PROVE p \in hw.cur[Source(p)] OBVIOUS
  <2>1. Len(hw.q) + 1 >= 0 BY <1>2
  <2> QED BY <1>2, <1>4, <2>1, DrainedFresh
<1>6. X = hw.cur["cpu"] \cup P BY <1>5
<1>7. hw.cur = [x \in Procs |-> hw.cur[x]] BY <1>0 DEF PushInv
<1>8. C = [x \in Procs |-> C[x]] /\ C["cpu"] = X /\ \A y \in Procs : hw.cur[y] \subseteq C[y] BY <1>1, <1>6, <1>7
<1>9. c = [hw EXCEPT !.cur = C] BY DEF Decrypt
<1> HIDE DEF X, C
<1>10. c = [cur |-> C, pte |-> hw.pte, q |-> hw.q] BY <1>0, <1>9, HwPart DEF HwOK
<1>11. c.cur = C /\ c.pte = hw.pte /\ c.q = hw.q BY <1>10
<1>12. HwOK(c) /\ InStep(c, blk.prot) BY <1>0, <1>9, CurPlain
<1>13. PushInv(c) BY <1>0, <1>8, <1>11 DEF PushInv
<1>14. ASSUME NEW p \in Pages
       PROVE  /\ HwInv(c, p) /\ LastAimed(c, blk, p) /\ NowhereUnmapped(c, blk, p)
              /\ \A t : \A y \in Procs : Fresh(hw, t, y, p) => Fresh(c, t, y, p)
              /\ p \in P => \A t : Fresh(c, t, "cpu", p)
              /\ NoWriter(hw, p) => NoWriter(c, p)
  <2>1. HwInv(hw, p) /\ LastAimed(hw, blk, p) /\ NowhereUnmapped(hw, blk, p) BY <1>3 DEF CopyablePage
  <2>2. \A y \in Procs : p \in hw.cur[y] => p \in c.cur[y] BY <1>8, <1>11
  <2>3. Len(hw.q) \in Nat /\ DOMAIN hw.q = 1..Len(hw.q) BY <1>0, HwLen
  <2>4. /\ HwInv(hw, p) => HwInv(c, p)
        /\ LastAimed(hw, blk, p) => LastAimed(c, blk, p)
        /\ NowhereUnmapped(hw, blk, p) => NowhereUnmapped(c, blk, p)
        /\ NoWriter(hw, p) => NoWriter(c, p)
        /\ \A t : \A y \in Procs : Fresh(hw, t, y, p) => Fresh(c, t, y, p)
        /\ \A y : p \in c.cur[y] /\ (\A i \in DOMAIN hw.q : ~FreedAt(hw, i, y))
                  /\ (\A i \in 0..Len(hw.q), x \in Procs : \A e \in Entries(hw, i, x, p) : ~(e.prot >= 2 /\ e.to # y))
                  => \A t : Fresh(c, t, y, p)
    BY <1>11, <2>2, <2>3, CurGrows
  <2>5. ASSUME p \in P PROVE \A t : Fresh(c, t, "cpu", p)
    <3>1. p \in c.cur["cpu"] BY <1>6, <1>8, <1>11, <2>5
    <3>2. \A i \in DOMAIN hw.q : ~FreedAt(hw, i, "cpu") BY <1>2
    <3>3. \A i \in 0..Len(hw.q), x \in Procs : \A e \in Entries(hw, i, x, p) : ~(e.prot >= 2)
      <4>1. \A i, j, x : ~Remapped(hw, i, j, x, p) BY <1>2 DEF Remapped
      <4> QED BY <1>4, <2>5, <4>1 DEF NoWriter
    <3> QED BY <2>4, <3>1, <3>2, <3>3
  <2> QED BY <2>1, <2>4, <2>5
<1> QED BY <1>6, <1>8, <1>11, <1>12, <1>13, <1>14 DEF Decrypted

(* Copies with encryption, with nothing under way.                            *)
LEMMA EncryptedCopies ==
  ASSUME Ordered, op.pc = "copy", mode.cc, Drained, NEW M, M = {p \in Missing : ResidentProcs(p) # {}},
         NEW k, k = CopyResidentPages(hw, M)
  PROVE  PushInv(k) /\ k.pte = hw.pte /\ \A p \in Pages : CopiedPage(k, p)
<1>0. TrackInv /\ mode \in Modes BY DEF Ordered, TrackInv
<1>1. op.dst \in Procs /\ P_op \subseteq Pages BY <1>0 DEF TrackInv, OpOK, P_op
<1>2. M \subseteq Pages /\ Staged \subseteq M /\ M \subseteq Missing BY <1>1 DEF Missing, Staged
<1>3. Len(hw.q) = 0 /\ hw.q = <<>> BY DEF Drained
<1>4. \A p \in Pages : CopyablePage(p) BY Copyable
<1>5. CASE op.dst = "cpu"
  <2>1. k = Decrypt(hw, M) BY <1>5 DEF CopyResidentPages
  <2>2. \A p \in M : p \in Missing /\ ResidentProcs(p) # {} OBVIOUS
  <2>3. Decrypted(k, M) BY <1>2, <2>1, <2>2, DecryptFacts
  <2>4. Staged = {} BY <1>5 DEF Staged
  <2>5. ASSUME NEW p \in Pages PROVE CopiedPage(k, p)
    <3>1. /\ HwInv(k, p) /\ LastAimed(k, blk, p) /\ NowhereUnmapped(k, blk, p)
          /\ \A t : \A y \in Procs : Fresh(hw, t, y, p) => Fresh(k, t, y, p)
          /\ p \in M => \A t : Fresh(k, t, "cpu", p)
          /\ k.q = hw.q
      BY <2>3 DEF Decrypted
    <3> QED BY <1>5, <2>4, <3>1 DEF CopiedPage
  <2> QED BY <2>3, <2>5 DEF Decrypted
<1>6. CASE op.dst # "cpu"
  <2>1. PICK c : c = Decrypt(hw, Staged) OBVIOUS
  <2>2. PICK S : S = Encrypt(c, M) OBVIOUS
  <2>3. k = Push(c, S) BY <1>6, <2>1, <2>2 DEF CopyResidentPages
  <2>4. \A p \in Staged : p \in Missing /\ ResidentProcs(p) # {} BY <1>2
  <2>5. Staged \subseteq Pages BY <1>2
  <2>6. Decrypted(c, Staged) BY <2>1, <2>4, <2>5, DecryptFacts
  <2>7. S # {} /\ \A w \in S : /\ w.k = "cap" /\ w.to = op.dst /\ w.pages = M /\ w.good = M \cap c.cur["cpu"]
                               /\ PushOK(w)
    BY <2>2 DEF Encrypt, PushOK
  <2>8. M \subseteq c.cur["cpu"]
    <3>1. ~peers BY <1>0, ModesAssumption DEF TrackInv, BlkOK
    <3>2. CanCopyFrom(op.dst) = {"cpu"} BY <3>1 DEF CanCopyFrom
    <3> SUFFICES ASSUME NEW p \in M, p \notin Staged PROVE p \in hw.cur["cpu"] BY <2>6 DEF Decrypted
    <3>3. Source(p) \in CanCopyFrom(op.dst) /\ Fresh(hw, Len(hw.q) + 1, Source(p), p)
      BY <1>2, <1>4, <1>6 DEF CopyablePage
    <3>4. Fresh(hw, Len(hw.q) + 1, "cpu", p) BY <3>2, <3>3
    <3>5. Len(hw.q) + 1 >= 0 BY <1>3
    <3> QED BY <1>3, <3>4, <3>5, DrainedFresh
  <2>9. HwOK(c) /\ InStep(c, blk.prot) /\ PushInv(c) /\ Len(c.q) = 0 /\ c.pte = hw.pte BY <1>3, <2>6 DEF Decrypted
  <2>10. Stages(c, S, k, Len(c.q)) /\ PushInv(k)
    <3>1. \A w \in S : PushTyped(w, Len(c.q) + 1) /\ PushOK(w) /\ w.k # "pte" BY <1>1, <2>7, <2>9 DEF PushTyped
    <3> QED BY <2>3, <2>7, <2>9, <3>1, CopyStage
  <2>11. Stages(c, S, k, 0) BY <2>9, <2>10
  <2>12. Len(k.q) = 1 /\ k.pte = c.pte BY <2>11 DEF Stages
  <2>13. ASSUME NEW p \in Pages PROVE CopiedPage(k, p)
    <3>1. /\ HwInv(c, p) /\ LastAimed(c, blk, p) /\ NowhereUnmapped(c, blk, p)
          /\ \A t : \A y \in Procs : Fresh(hw, t, y, p) => Fresh(c, t, y, p)
          /\ p \in Staged => \A t : Fresh(c, t, "cpu", p)
          /\ NoWriter(hw, p) => NoWriter(c, p)
      BY <2>6 DEF Decrypted
    <3>2. \A w \in S : w.k \in {"copy", "cap", "zero"} BY <2>7
    <3>3. (\E w \in S, y \in Procs : Fills(w, y, p)) => NoWriter(c, p)
      BY <1>2, <1>4, <2>7, <3>1 DEF Fills, CopyablePage
    <3>4. \A w \in S : w.k = "copy" /\ p \in w.pages => Fresh(c, 0 + 1, w.from, p) BY <2>7
    <3>5. \A w \in S : w.k = "cap" /\ p \in w.pages => p \in w.good BY <2>7, <2>8
    <3>6. /\ HwInv(k, p) /\ LastAimed(k, blk, p) /\ NowhereUnmapped(k, blk, p)
          /\ \A y : Fresh(c, 0 + 1, y, p) => Fresh(k, 0 + 2, y, p)
          /\ \A y : (\E w \in S : Fills(w, y, p)) => Fresh(k, 0 + 2, y, p)
      BY <2>11, <3>1, <3>2, <3>3, <3>4, <3>5, FillPush
    <3>7. p \in M => \E w \in S : Fills(w, op.dst, p) BY <2>7 DEF Fills
    <3>9. PICK n : n = Len(hw.q) OBVIOUS
    <3>10. n = 0 BY <1>3, <3>9
    <3>11. PICK m : m = Len(k.q) OBVIOUS
    <3>8. Len(k.q) + 1 = 0 + 2 /\ Len(hw.q) + 1 = 0 + 1
      <4>1. m = 1 BY <2>12, <3>11
      <4>2. m + 1 = 0 + 2 BY <4>1
      <4>3. n + 1 = 0 + 1 BY <3>10
      <4> QED BY <3>9, <3>11, <4>2, <4>3, Zenon
    <3> QED BY <3>1, <3>6, <3>7, <3>8 DEF CopiedPage
  <2> QED BY <2>9, <2>10, <2>12, <2>13
<1> QED BY <1>5, <1>6

(* block_copy_resident_pages.                                                 *)
LEMMA CopiesPage ==
  ASSUME Ordered, Copy
  PROVE  PushInv(hw') /\ hw'.pte = hw.pte /\ \A p \in Pages : CopiedPage(hw', p)
<1>1. PICK M : M = {p \in Missing : ResidentProcs(p) # {}} OBVIOUS
<1>2. PICK k : k = hw' OBVIOUS
<1>3. /\ op.pc = "copy" /\ (mode.cc /\ M # {} => Drained)
      /\ k = IF M = {} THEN hw ELSE CopyResidentPages(hw, M)
  BY <1>1, <1>2 DEF Copy
<1>4. CASE M = {}
  <2>1. k = hw BY <1>3, <1>4
  <2>2. \A p \in Pages : CopyablePage(p) BY <1>3, Copyable
  <2>3. Staged = {} BY <1>1, <1>4 DEF Staged
  <2>4. \A p \in Pages : CopiedPage(k, p) BY <1>1, <1>4, <2>1, <2>2, <2>3 DEF CopyablePage, CopiedPage
  <2> QED BY <1>2, <2>1, <2>4 DEF Ordered, InOrder
<1>5. CASE M # {}
  <2>1. k = CopyResidentPages(hw, M) BY <1>3, <1>5
  <2>2. PushInv(k) /\ k.pte = hw.pte /\ \A p \in Pages : CopiedPage(k, p)
    <3>1. CASE mode.cc BY <1>1, <1>3, <1>5, <2>1, <3>1, EncryptedCopies
    <3>2. CASE ~mode.cc BY <1>1, <1>3, <1>5, <2>1, <3>2, PlainCopies
    <3> QED BY <3>1, <3>2
  <2> QED BY <1>2, <2>2
<1> QED BY <1>4, <1>5

(* Where the pages of an operation are after its copies.                     *)
Placement(b) ==
  /\ b.prot = blk.prot /\ b.chunk = blk.chunk /\ b.alloc = blk.alloc
  /\ \A p \in Pages \ P_op : Here(b, p) = Here(blk, p) /\ (p \in b.readdup <=> p \in blk.readdup)
  /\ \A p \in P_op : IF op.dup THEN Here(b, p) = Here(blk, p) \cup {op.dst} \cup (IF p \in Staged THEN {"cpu"} ELSE {})
                     ELSE Here(b, p) = {op.dst} /\ p \notin b.readdup

(* The residency that Copy records, with the page tables in step.           *)
LEMMA CopyPlacement ==
  ASSUME TrackInv, Copy
  PROVE  /\ Placement(blk') /\ (~op.dup => blk'.readdup = blk.readdup \ P_op)
         /\ ~op.dup => \A x \in Procs : x # op.dst => blk'.resident[x] = blk.resident[x] \ P_op
         /\ HwOK(hw') /\ InStep(hw', blk.prot)
<1>0. PICK M, S : M = {p \in Missing : ResidentProcs(p) # {}} /\ S = {Source(p) : p \in M} OBVIOUS
<1>1. HwOK(hw) /\ InStep(hw, blk.prot) /\ mode \in Modes /\ BlkOK BY DEF TrackInv
<1>2. /\ op.pc = "copy"
      /\ hw' = IF M = {} THEN hw ELSE CopyResidentPages(hw, M)
      /\ blk' = IF op.dup THEN DupFinish(M) ELSE MoveFinish(M, S)
  BY <1>0 DEF Copy
<1>3. op.dst \in Procs /\ P_op \subseteq Pages BY <1>2 DEF TrackInv, OpOK, P_op
<1>4. Staged \subseteq P_op /\ M \subseteq P_op /\ Staged \subseteq Pages /\ (Staged # {} => op.dst # "cpu")
  BY <1>0, <1>3 DEF Missing, Staged
<1>5. HwOK(hw') /\ InStep(hw', blk.prot) BY <1>1, <1>2, CopyPlain
<1>6. PICK b : b = blk' OBVIOUS
<1>7. "cpu" \in Procs BY <1>1, ProcFacts
<1>8. CASE op.dup
  <2>1. b = DupFinish(M) BY <1>2, <1>6, <1>8
  <2>2. Duplicated(b, M) BY <1>1, <1>3, <1>4, <2>1, DupFacts
  <2>3. /\ b.prot = blk.prot /\ b.chunk = blk.chunk /\ b.alloc = blk.alloc
        /\ b.readdup = (blk.readdup \cup M) \cup Staged
        /\ \A x \in Procs : b.resident[x] = blk.resident[x] \cup IF x = op.dst THEN P_op
                                                                 ELSE IF x = "cpu" THEN Staged ELSE {}
    BY <2>2 DEF Duplicated
  <2>4. \A p \in Pages \ P_op : Here(b, p) = Here(blk, p) /\ (p \in b.readdup <=> p \in blk.readdup)
    BY <1>4, <2>3 DEF Here
  <2>5. \A p \in P_op : Here(b, p) = Here(blk, p) \cup {op.dst} \cup (IF p \in Staged THEN {"cpu"} ELSE {})
    BY <1>3, <1>4, <1>7, <2>3 DEF Here
  <2>6. Placement(b) BY <1>8, <2>3, <2>4, <2>5 DEF Placement
  <2> QED BY <1>5, <1>6, <1>8, <2>6
<1>9. CASE ~op.dup
  <2>1. b = MoveFinish(M, S) BY <1>2, <1>6, <1>9
  <2>2. Moved(b, M, S) BY <1>1, <1>3, <1>4, <2>1, MoveFacts
  <2>3. /\ b.prot = blk.prot /\ b.chunk = blk.chunk /\ b.alloc = blk.alloc
        /\ b.readdup = blk.readdup \ P_op
        /\ \A x \in Procs : b.resident[x] = IF x = op.dst THEN blk.resident[x] \cup P_op
                                            ELSE blk.resident[x] \ P_op
    BY <2>2 DEF Moved
  <2>4. \A p \in Pages \ P_op : Here(b, p) = Here(blk, p) /\ (p \in b.readdup <=> p \in blk.readdup)
    BY <2>3 DEF Here
  <2>5. \A p \in P_op : Here(b, p) = {op.dst} /\ p \notin b.readdup BY <1>3, <2>3 DEF Here
  <2>6. Placement(b) BY <1>9, <2>3, <2>4, <2>5 DEF Placement
  <2> QED BY <1>5, <1>6, <2>3, <2>6
<1> QED BY <1>8, <1>9

(* What was mapped and is not unmapped points to a copy still.                *)
LEMMA CopyAimed ==
  ASSUME Ordered, op.pc = "copy", NEW b, Placement(b), NEW x \in Procs, NEW p \in Pages, NEW e, Aimed(blk, x, p, e),
         e.prot = blk.prot[x][p]
  PROVE  Aimed(b, x, p, e)
<1>0. TrackInv /\ Underway /\ Placed BY DEF Ordered, TrackInv
<1>1. CASE p \notin P_op BY <1>1 DEF Placement, Aimed
<1>2. CASE p \in P_op /\ op.dup
  <2>1. blk.prot[x][p] <= 1 BY <1>0, <1>2 DEF Underway
  <2>2. blk.prot[x][p] \in 0..3 BY <1>0 DEF TrackInv, BlkOK, Blocks
  <2>3. Here(blk, p) \subseteq Here(b, p) BY <1>2 DEF Placement
  <2>4. ~(e.prot >= 2) BY <2>1, <2>2
  <2> QED BY <2>3, <2>4 DEF Aimed
<1>3. CASE p \in P_op /\ ~op.dup
  <2>1. Here(b, p) = {op.dst} /\ p \notin b.readdup BY <1>3 DEF Placement
  <2>2. p \in Missing \/ (p \in blk.readdup /\ x # op.dst) => e.prot = 0 BY <1>0, <1>3 DEF Underway
  <2>3. blk.prot[x][p] \in 0..3 BY <1>0 DEF TrackInv, BlkOK, Blocks
  <2>4. CASE e.prot = 0 BY <2>4 DEF Aimed
  <2>5. CASE e.prot # 0
    <3>1. p \notin Missing /\ (p \in blk.readdup => x = op.dst) BY <2>2, <2>5
    <3>2. e.prot > 0 BY <2>3, <2>5
    <3>3. e.to \in Here(blk, p) /\ (mode.rd => e.to = x) BY <3>2 DEF Aimed
    <3>4. op.dst \in ResidentProcs(p)
      <4>1. op.dst \in Procs BY <1>0 DEF TrackInv, OpOK
      <4> QED BY <1>3, <3>1, <4>1 DEF Missing, ResidentProcs
    <3>5. e.to = op.dst
      <4>1. CASE p \notin blk.readdup
        <5>1. ResidentProcs(p) = {op.dst} BY <1>0, <3>4, <4>1, SoleCopy
        <5> QED BY <3>3, <5>1, HereFacts
      <4>2. CASE p \in blk.readdup
        <5>1. mode.rd BY <1>0, <4>2 DEF Underway
        <5> QED BY <3>1, <3>3, <4>2, <5>1
      <4> QED BY <4>1, <4>2
    <3> QED BY <2>1, <3>3, <3>5 DEF Aimed
  <2> QED BY <2>4, <2>5
<1> QED BY <1>1, <1>2, <1>3

(* A page has been copied and has its new place.                              *)
LEMMA CopyPage ==
  ASSUME Ordered, op.pc = "copy", NEW b, Placement(b), NEW k, HwOK(k), InStep(k, blk.prot), k.pte = hw.pte,
         NEW p \in Pages, CopiedPage(k, p)
  PROVE  PageInv(k, b, p)
<1>0. TrackInv /\ Underway /\ InOrder(hw, blk) /\ mode \in Modes BY DEF Ordered, TrackInv
<1>1. PageInv(hw, blk, p) /\ CpuInStep(k, blk) BY <1>0 DEF InOrder, CpuInStep
<1>2. /\ HwInv(k, p) /\ LastAimed(k, blk, p) /\ NowhereUnmapped(k, blk, p)
      /\ \A y \in Procs : Fresh(hw, Len(hw.q) + 1, y, p) => Fresh(k, Len(k.q) + 1, y, p)
      /\ p \in Missing /\ ResidentProcs(p) # {} => Fresh(k, Len(k.q) + 1, op.dst, p)
      /\ p \in Staged => Fresh(k, Len(k.q) + 1, "cpu", p)
  BY DEF CopiedPage
<1>3. LastAimed(k, b, p)
  <2> SUFFICES ASSUME NEW t \in 0..Len(k.q), NEW x \in Procs, NEW e \in Entries(k, t, x, p),
                      ~Remapped(k, t, Len(k.q) + 1, x, p)
               PROVE  Aimed(b, x, p, e)
    BY DEF LastAimed
  <2>1. Aimed(blk, x, p, e) BY <1>2 DEF LastAimed
  <2>2. e.prot = blk.prot[x][p] BY <1>0, <1>1, Settled
  <2> QED BY <2>1, <2>2, CopyAimed
<1>4. op.dst \in Procs /\ P_op \subseteq Pages BY <1>0 DEF TrackInv, OpOK, P_op
<1>5. \A y : y \in Here(b, p) => \/ y \in Here(blk, p)
                                 \/ y = op.dst /\ p \in P_op
                                 \/ y = "cpu" /\ p \in Staged
  BY DEF Placement
<1>6. Here(b, p) = {} => Here(blk, p) = {} BY DEF Placement
<1>7. NowhereUnmapped(k, b, p) BY <1>2, <1>6 DEF NowhereUnmapped
<1>8. \A y \in Procs : Holds(blk, y, p) => Fresh(k, Len(k.q) + 1, y, p) BY <1>1, <1>2 DEF PageInv, HeldFresh
<1>9. HeldFresh(k, b, p)
  <2> SUFFICES ASSUME NEW y \in Procs, Holds(b, y, p), ~Holds(blk, y, p) PROVE Fresh(k, Len(k.q) + 1, y, p)
    BY <1>8 DEF HeldFresh
  <2>1. y \in Here(b, p) /\ y \notin Here(blk, p) BY <1>6 DEF Holds, Placement
  <2>2. CASE y = "cpu" /\ p \in Staged BY <1>2, <2>2
  <2>3. CASE y = op.dst /\ p \in P_op
    <3>1. p \in Missing BY <1>4, <2>1, <2>3 DEF Missing, Here
    <3>2. CASE ResidentProcs(p) # {} BY <1>2, <2>3, <3>1, <3>2
    <3>3. CASE ResidentProcs(p) = {}
      <4>1. Here(blk, p) = {} BY <3>3, HereFacts
      <4>2. \/ op.dst = "cpu" /\ Missing \subseteq blk.alloc
            \/ op.dst \in blk.chunk
        BY <1>0, <3>1 DEF Underway
      <4>3. Holds(blk, y, p) BY <2>3, <3>1, <4>1, <4>2 DEF Holds
      <4> QED BY <4>3
    <3> QED BY <3>2, <3>3
  <2> QED BY <1>5, <2>1, <2>2, <2>3
<1> QED BY <1>2, <1>3, <1>7, <1>9 DEF PageInv, HwInv

(* The copies, and the residency after them.                                  *)
LEMMA CopyOrder ==
  ASSUME Ordered, Copy PROVE InOrder(hw, blk)' /\ Underway'
<1>0. TrackInv /\ InOrder(hw, blk) /\ Underway /\ mode \in Modes BY DEF Ordered, TrackInv
<1>1. mode' = mode /\ op.pc = "copy" BY DEF Copy
<1>2. PICK k, b : k = hw' /\ b = blk' OBVIOUS
<1>3. /\ Placement(b) /\ (~op.dup => b.readdup = blk.readdup \ P_op)
      /\ ~op.dup => \A x \in Procs : x # op.dst => b.resident[x] = blk.resident[x] \ P_op
      /\ HwOK(k) /\ InStep(k, blk.prot)
  BY <1>0, <1>2, CopyPlacement
<1>4. PushInv(k) /\ k.pte = hw.pte /\ \A p \in Pages : CopiedPage(k, p) BY <1>2, CopiesPage
<1>5. \A p \in Pages : PageInv(k, b, p) BY <1>1, <1>3, <1>4, CopyPage
<1>6. b.prot = blk.prot BY <1>3 DEF Placement
<1>7. CpuInStep(k, b)
  <2>1. CpuInStep(hw, blk) BY <1>0 DEF InOrder
  <2> QED BY <1>4, <1>6, <2>1 DEF CpuInStep
<1>8. Backed(b)
  <2> SUFFICES ASSUME NEW x \in Procs, NEW p \in Pages
               PROVE  \E y \in Procs : Aimed(b, x, p, [prot |-> b.prot[x][p], to |-> y])
    BY DEF Backed
  <2>1. Backed(blk) BY <1>0 DEF InOrder
  <2>2. PICK y \in Procs : Aimed(blk, x, p, [prot |-> blk.prot[x][p], to |-> y]) BY <2>1 DEF Backed
  <2>3. PICK e : e = [prot |-> blk.prot[x][p], to |-> y] OBVIOUS
  <2>4. Aimed(blk, x, p, e) /\ e.prot = blk.prot[x][p] BY <2>2, <2>3
  <2>5. Aimed(b, x, p, e) BY <1>1, <1>3, <2>4, CopyAimed
  <2> QED BY <1>6, <2>3, <2>5
<1>9. InOrder(hw, blk)'
  <2>1. InOrder(k, b) BY <1>4, <1>5, <1>7, <1>8 DEF InOrder
  <2>2. InOrder(hw', blk') BY <1>2, <2>1
  <2> QED BY <1>1, <2>2, OrderPrime
<1>10. /\ op'.pc = After(op.kind) /\ op'.kind = op.kind /\ op'.who = op.who /\ op'.acc = op.acc
       /\ op'.dst = op.dst /\ op'.dup = op.dup
  <2>1. PICK u, v : op' = [op EXCEPT !.pc = After(op.kind), !.moved = u, !.wait = v] BY DEF Copy
  <2>2. PICK a : a = After(op.kind) OBVIOUS
  <2>3. op' = [op EXCEPT !.pc = a, !.moved = u, !.wait = v] BY <2>1, <2>2
  <2>4. op = [pc |-> op.pc, kind |-> op.kind, who |-> op.who, acc |-> op.acc, dst |-> op.dst,
              dup |-> op.dup, moved |-> op.moved, np |-> op.np, wait |-> op.wait]
    BY <1>0 DEF TrackInv, OpOK
  <2>5. op'.pc = a /\ op'.kind = op.kind /\ op'.who = op.who /\ op'.acc = op.acc
        /\ op'.dst = op.dst /\ op'.dup = op.dup
    BY <2>3, <2>4
  <2> QED BY <2>2, <2>5
<1>11. Procs' = Procs /\ Pages' = Pages /\ (P_op)' = P_op BY <1>1, <1>10 DEF Procs, Pages, P_op
<1>12. /\ op.dst \in Procs /\ P_op \subseteq Pages /\ op.kind \in {"fault", "evict", "host", "unregister"}
       /\ op.kind = "evict" => op.dst = "cpu" /\ op.who \in mode.gpus
  BY <1>0, <1>1 DEF TrackInv, OpOK, P_op
<1>13. /\ op.kind \in {"evict", "unregister"} => P_op = blk.resident[op.who]
       /\ op.kind = "host" => P_op # {}
       /\ op.kind # "fault" => ~op.dup
       /\ op.dup => mode.rd /\ \A p \in P_op : op.acc[p] <= 1
       /\ \A p \in P_op : op.acc[p] \in 0..3
       /\ ~mode.rd => blk.readdup = {}
  BY <1>0, <1>1 DEF Underway
<1>14. ASSUME NEW p \in P_op, ~op.dup PROVE OnlyAt(p, op.dst)'
  <2>1. Here(b, p) = {op.dst} /\ p \notin b.readdup BY <1>3, <1>14 DEF Placement
  <2>2. (ResidentProcs(p))' = Here(b, p) BY <1>2, <1>11 DEF ResidentProcs, Here
  <2> QED BY <1>2, <1>10, <2>1, <2>2 DEF OnlyAt
<1>15. ~mode.rd => b.readdup = {} BY <1>3, <1>13
<1>16. ASSUME op.kind = "evict" PROVE b.resident[op.who] = {}
  <2>1. op.who \in Procs /\ op.who # "cpu" BY <1>0, <1>12, <1>16, ProcFacts
  <2>2. b.resident[op.who] = blk.resident[op.who] \ P_op BY <1>3, <1>12, <1>13, <1>16, <2>1
  <2> QED BY <1>13, <1>16, <2>2
<1>17. Underway'
  <2>1. CASE op.kind = "fault"
    <3>1. op'.pc = "revoke" BY <1>10, <2>1 DEF After
    <3>2. \A p \in (P_op)' : op'.acc[p] \in 0..3 /\ (op'.dup => mode'.rd /\ op'.acc[p] <= 1)
      BY <1>1, <1>10, <1>11, <1>13
    <3>3. \A p \in (P_op)' : ~op'.dup => OnlyAt(p, op.dst)' BY <1>10, <1>11, <1>14
    <3> QED BY <1>1, <1>2, <1>10, <1>11, <1>12, <1>15, <3>1, <3>2, <3>3 DEF Underway
  <2>2. CASE op.kind = "evict"
    <3>1. op'.pc = "free" BY <1>10, <2>2 DEF After
    <3> QED BY <1>1, <1>2, <1>10, <1>15, <1>16, <2>2, <3>1 DEF Underway
  <2>3. CASE op.kind = "host"
    <3>1. op'.pc = "write" BY <1>10, <2>3 DEF After
    <3>2. \A p \in (P_op)' : OnlyAt(p, op.dst)' BY <1>11, <1>13, <1>14, <2>3
    <3> QED BY <1>1, <1>2, <1>10, <1>11, <1>12, <1>13, <1>15, <2>3, <3>1, <3>2 DEF Underway
  <2>4. CASE op.kind = "unregister"
    <3>1. op'.pc = "destroy" BY <1>10, <2>4 DEF After
    <3> QED BY <1>1, <1>2, <1>15, <3>1 DEF Underway
  <2> QED BY <1>12, <2>1, <2>2, <2>3, <2>4
<1> QED BY <1>9, <1>17

(* The chunk of a GPU that has no page is given up.                          *)
LEMMA GiveUpChunk ==
  ASSUME Ordered, NEW g \in mode.gpus, blk.resident[g] = {}, NEW d, d.prot = blk.prot, d.alloc = blk.alloc,
         d.chunk = blk.chunk \ {g}, \A p \in Pages : Here(d, p) = Here(blk, p),
         \A p \in Pages : p \in d.readdup => p \in blk.readdup \/ \A z : Here(blk, p) # {z},
         NEW S, \A w \in S : w.k = "free" /\ w.at = g, NEW k, k = Push(hw, S)
  PROVE  InOrder(k, d)
<1>0. TrackInv /\ InOrder(hw, blk) /\ mode \in Modes /\ HwOK(hw) /\ PushInv(hw) /\ InStep(hw, blk.prot)
  BY DEF Ordered, TrackInv, InOrder
<1>1. "cpu" \notin mode.gpus BY <1>0, ProcFacts
<1>2. \A p \in Pages : PageInv(hw, d, p)
  <2>1. \A p \in Pages : \A y \in Procs : Holds(d, y, p) => Holds(blk, y, p) BY DEF Holds
  <2> QED BY <1>0, <2>1, BlockChange DEF InOrder
<1>3. \A p \in Pages : ~Holds(d, g, p)
  <2>1. \A p \in Pages : g \notin Here(blk, p) BY DEF Here
  <2> QED BY <1>1, <2>1 DEF Holds
<1>4. PushInv(k) /\ k.pte = hw.pte /\ \A p \in Pages : PageInv(k, d, p)
  <2>1. CASE S = {} BY <1>0, <1>2, <2>1 DEF Push
  <2>2. CASE S # {}
    <3>1. \A w \in S : PushTyped(w, Len(hw.q) + 1) /\ PushOK(w) /\ w.k # "pte" BY DEF PushTyped, PushOK
    <3>2. Stages(hw, S, k, Len(hw.q)) /\ PushInv(k) BY <1>0, <2>2, <3>1, CopyStage
    <3>3. k.pte = hw.pte BY <3>2 DEF Stages
    <3>4. \A p \in Pages : PageInv(k, d, p) BY <1>2, <1>3, <3>2, FreePush
    <3> QED BY <3>2, <3>3, <3>4
  <2> QED BY <2>1, <2>2
<1>5. CpuInStep(k, d)
  <2>1. CpuInStep(hw, blk) BY <1>0 DEF InOrder
  <2> QED BY <1>4, <2>1 DEF CpuInStep
<1>6. Backed(d)
  <2>1. Backed(blk) BY <1>0 DEF InOrder
  <2>2. \A p \in Pages : \A x, e : Aimed(blk, x, p, e) => Aimed(d, x, p, e) BY DEF Aimed
  <2> QED BY <2>1, <2>2 DEF Backed
<1> QED BY <1>4, <1>5, <1>6 DEF InOrder

(* uvm_va_block_evict_chunks, at its end.                                    *)
LEMMA FreeChunkOrder ==
  ASSUME Ordered, FreeChunk PROVE InOrder(hw, blk)' /\ Underway'
<1>0. TrackInv /\ Underway BY DEF Ordered
<1>1. /\ op.pc = "free" /\ mode' = mode /\ op'.pc = "idle"
      /\ blk' = [blk EXCEPT !.chunk = @ \ {op.who}, !.evq = @ \/ mode.by # {} \/ mode.evmap]
      /\ hw' = Push(hw, {[k |-> "free", at |-> op.who]})
  BY DEF FreeChunk, Idle
<1>2. PICK g : g = op.who OBVIOUS
<1>3. g \in mode.gpus /\ blk.resident[g] = {} BY <1>0, <1>1, <1>2 DEF TrackInv, OpOK, Underway
<1>4. PICK k, d, S : k = hw' /\ d = blk' /\ S = {[k |-> "free", at |-> g]} OBVIOUS
<1>5. /\ d.prot = blk.prot /\ d.alloc = blk.alloc /\ d.chunk = blk.chunk \ {g} /\ d.resident = blk.resident
      /\ d.readdup = blk.readdup
  BY <1>0, <1>1, <1>2, <1>4 DEF TrackInv, BlkOK, Blocks
<1>6. \A p \in Pages : Here(d, p) = Here(blk, p) BY <1>5 DEF Here
<1>7. (\A w \in S : w.k = "free" /\ w.at = g) /\ k = Push(hw, S) BY <1>1, <1>2, <1>4
<1>8. \A p \in Pages : p \in d.readdup => p \in blk.readdup \/ \A z : Here(blk, p) # {z} BY <1>5
<1>9. InOrder(k, d) BY <1>3, <1>5, <1>6, <1>7, <1>8, GiveUpChunk
<1>10. InOrder(hw, blk)'
  <2>1. InOrder(hw', blk') BY <1>4, <1>9
  <2> QED BY <1>1, <2>1, OrderPrime
<1>11. ~mode.rd => blk'.readdup = {} BY <1>0, <1>4, <1>5 DEF Underway
<1> QED BY <1>1, <1>10, <1>11, AtRest

(* block_destroy_gpu_state.                                                   *)
LEMMA DestroyOrder ==
  ASSUME Ordered, DestroyGpuState PROVE InOrder(hw, blk)' /\ Underway'
<1>0. TrackInv /\ Underway BY DEF Ordered
<1>1. PICK g : g = op.who OBVIOUS
<1>2. PICK S : S = IF g \in blk.chunk THEN {[k |-> "free", at |-> g]} ELSE {} OBVIOUS
<1>3. PICK D : D = {p \in Pages : \E x, y \in Procs \ {g} : x # y /\ p \in blk.resident[x] \cap blk.resident[y]}
  OBVIOUS
<1>4. /\ op.pc = "destroy" /\ mode' = mode /\ op' = [op EXCEPT !.pc = "wait"]
      /\ blk' = [blk EXCEPT !.resident[g] = {}, !.readdup = D, !.chunk = @ \ {g}, !.evicted[g] = {}]
      /\ hw' = Push(hw, S)
  BY <1>1, <1>2, <1>3 DEF DestroyGpuState
<1>5. g \in mode.gpus /\ blk.resident[g] = {} /\ g \in Procs
  <2>1. g \in mode.gpus /\ blk.resident[g] = {} BY <1>0, <1>1, <1>4 DEF TrackInv, OpOK
  <2> QED BY <1>0, <2>1, ProcFacts DEF TrackInv
<1>6. PICK k, d : k = hw' /\ d = blk' OBVIOUS
<1>7. /\ d.prot = blk.prot /\ d.alloc = blk.alloc /\ d.chunk = blk.chunk \ {g}
      /\ d.resident = [blk.resident EXCEPT ![g] = {}] /\ d.readdup = D
  BY <1>0, <1>4, <1>6 DEF TrackInv, BlkOK, Blocks
<1>8. \A x \in Procs : d.resident[x] = blk.resident[x]
  <2>1. blk.resident \in [Procs -> SUBSET Pages] BY <1>0 DEF TrackInv, BlkOK, Blocks
  <2> QED BY <1>5, <1>7, <2>1
<1>9. \A p \in Pages : Here(d, p) = Here(blk, p) BY <1>8 DEF Here
<1>10. (\A w \in S : w.k = "free" /\ w.at = g) /\ k = Push(hw, S) BY <1>2, <1>4, <1>6
<1>11. \A p \in Pages : p \in d.readdup => \A z : Here(blk, p) # {z} BY <1>3, <1>7 DEF Here
<1>12. InOrder(k, d) BY <1>5, <1>7, <1>9, <1>10, <1>11, GiveUpChunk
<1>13. InOrder(hw, blk)'
  <2>1. InOrder(hw', blk') BY <1>6, <1>12
  <2> QED BY <1>4, <2>1, OrderPrime
<1>14. ~mode.rd => blk'.readdup = {}
  <2>1. D \subseteq blk.readdup BY <1>0, <1>3 DEF TrackInv, Placed
  <2> QED BY <1>0, <1>6, <1>7, <2>1 DEF Underway
<1>15. op'.pc = "wait" BY <1>0, <1>4 DEF TrackInv, OpOK
<1> QED BY <1>4, <1>13, <1>14, <1>15, AtRest

(* What push w makes of memories and page tables m.                          *)
Worked(m, w, k) ==
  /\ k.q = m.q /\ k.cur = [x \in Procs |-> k.cur[x]]
  /\ \A x \in Procs, p \in Pages : k.pte[x][p] = IF Touches(w, x, p) THEN w.set[p] ELSE m.pte[x][p]
  /\ \A y \in Procs, p \in Pages :
       /\ p \in m.cur[y] /\ ~Fills(w, y, p) /\ ~(w.k = "free" /\ w.at = y) => p \in k.cur[y]
       /\ Fills(w, y, p) /\ (w.k = "copy" => p \in m.cur[w.from]) /\ (w.k = "cap" => p \in w.good) => p \in k.cur[y]

(* What Effect returns.                                                     *)
LEMMA EffectWorked ==
  ASSUME mode \in Modes, NEW m, m = [cur |-> m.cur, pte |-> m.pte, q |-> m.q],
         m.pte = [x \in Procs |-> m.pte[x]], m.cur = [x \in Procs |-> m.cur[x]],
         NEW w, PushOK(w), PushTyped(w, 1), NEW k, k = Effect(m, w)
  PROVE  Worked(m, w, k)
<1>1. "cpu" \notin mode.gpus /\ mode.gpus \subseteq Procs /\ Procs = {"cpu"} \cup mode.gpus BY ProcFacts
<1>2. Ran(m, w, k) BY EffectFacts
<1>3. k.q = m.q /\ \A g \in mode.gpus, p \in Pages :
                      k.pte[g][p] = IF Touches(w, g, p) THEN w.set[p] ELSE m.pte[g][p]
  BY <1>2 DEF Ran
<1>4. CASE w.k = "pte"
  <2> DEFINE e == [p \in Pages |-> IF p \in DOMAIN w.set THEN w.set[p] ELSE m.pte[w.at][p]]
             f == [m.pte EXCEPT ![w.at] = e]
  <2>1. k = [m EXCEPT !.pte = f] BY <1>4 DEF Effect
  <2>2. w.at \in mode.gpus BY <1>4 DEF PushOK
  <2>3. f["cpu"] = m.pte["cpu"] BY <1>1, <2>2
  <2> HIDE DEF f, e
  <2>4. k = [cur |-> m.cur, pte |-> f, q |-> m.q] BY <2>1, HwPart
  <2>5. k.cur = m.cur /\ k.pte["cpu"] = m.pte["cpu"] BY <2>3, <2>4
  <2>6. \A p : ~Touches(w, "cpu", p) BY <1>1, <2>2 DEF Touches
  <2>7. \A y, p : ~Fills(w, y, p) BY <1>4 DEF Fills
  <2>8. \A x \in Procs, p \in Pages : k.pte[x][p] = IF Touches(w, x, p) THEN w.set[p] ELSE m.pte[x][p]
    BY <1>1, <1>3, <2>5, <2>6
  <2> QED BY <1>3, <2>5, <2>7, <2>8 DEF Worked
<1>5. CASE w.k # "pte"
  <2>1. PICK z, X :
          /\ z \in Procs
          /\ k = [m EXCEPT !.cur[z] = X]
          /\ \A p : /\ p \in m.cur[z] /\ ~Fills(w, z, p) /\ ~(w.k = "free" /\ w.at = z) => p \in X
                    /\ Fills(w, z, p) /\ (w.k = "copy" => p \in m.cur[w.from]) /\ (w.k = "cap" => p \in w.good) => p \in X
          /\ \A y, p : Fills(w, y, p) => y = z
    <3>1. CASE w.k = "copy"
      <4>1. w.to \in Procs BY <3>1 DEF PushTyped
      <4>2. PICK X : X = (m.cur[w.to] \ w.pages) \cup (w.pages \cap m.cur[w.from]) OBVIOUS
      <4>3. k = [m EXCEPT !.cur[w.to] = X] BY <3>1, <4>2 DEF Effect
      <4>4. \A p : /\ p \in m.cur[w.to] /\ ~Fills(w, w.to, p) => p \in X
                   /\ Fills(w, w.to, p) /\ (w.k = "copy" => p \in m.cur[w.from]) => p \in X
        BY <3>1, <4>2 DEF Fills
      <4>5. \A y, p : Fills(w, y, p) => y = w.to BY <3>1 DEF Fills
      <4> QED BY <4>1, <4>3, <4>4, <4>5
    <3>2. CASE w.k = "cap"
      <4>1. w.to \in Procs BY <3>2 DEF PushTyped
      <4>2. PICK X : X = (m.cur[w.to] \ w.pages) \cup w.good OBVIOUS
      <4>3. k = [m EXCEPT !.cur[w.to] = X] BY <3>2, <4>2 DEF Effect
      <4>4. \A p : /\ p \in m.cur[w.to] /\ ~Fills(w, w.to, p) => p \in X
                   /\ Fills(w, w.to, p) /\ (w.k = "cap" => p \in w.good) => p \in X
        BY <3>2, <4>2 DEF Fills
      <4>5. \A y, p : Fills(w, y, p) => y = w.to BY <3>2 DEF Fills
      <4> QED BY <4>1, <4>3, <4>4, <4>5
    <3>3. CASE w.k = "zero"
      <4>1. w.at \in Procs BY <1>1, <3>3 DEF PushTyped
      <4>2. PICK X : X = m.cur[w.at] \cup w.pages OBVIOUS
      <4>3. k = [m EXCEPT !.cur[w.at] = X] BY <3>3, <4>2 DEF Effect
      <4>4. \A p : /\ p \in m.cur[w.at] => p \in X
                   /\ Fills(w, w.at, p) => p \in X
        BY <3>3, <4>2 DEF Fills
      <4>5. \A y, p : Fills(w, y, p) => y = w.at BY <3>3 DEF Fills
      <4> QED BY <4>1, <4>3, <4>4, <4>5
    <3>4. CASE w.k = "free"
      <4>1. w.at \in Procs BY <1>1, <3>4 DEF PushTyped
      <4>2. PICK X : X = {} OBVIOUS
      <4>3. k = [m EXCEPT !.cur[w.at] = X] BY <3>4, <4>2 DEF Effect
      <4>4. \A y, p : ~Fills(w, y, p) BY <3>4 DEF Fills
      <4> QED BY <3>4, <4>1, <4>3, <4>4
    <3> QED BY <1>5, <3>1, <3>2, <3>3, <3>4 DEF PushOK
  <2> DEFINE C == [m.cur EXCEPT ![z] = X]
  <2>2. k = [m EXCEPT !.cur = C] BY <2>1
  <2>3. C = [x \in Procs |-> C[x]] /\ \A y \in Procs : C[y] = IF y = z THEN X ELSE m.cur[y] BY <2>1
  <2> HIDE DEF C
  <2>4. k = [cur |-> C, pte |-> m.pte, q |-> m.q] BY <2>2, HwPart
  <2>5. k.cur = C /\ k.pte = m.pte BY <2>4
  <2>6. \A x, p : ~Touches(w, x, p) BY <1>5 DEF Touches
  <2>7. \A y \in Procs, p \in Pages :
          /\ p \in m.cur[y] /\ ~Fills(w, y, p) /\ ~(w.k = "free" /\ w.at = y) => p \in k.cur[y]
          /\ Fills(w, y, p) /\ (w.k = "copy" => p \in m.cur[w.from]) /\ (w.k = "cap" => p \in w.good) => p \in k.cur[y]
    BY <2>1, <2>3, <2>5
  <2>8. \A x \in Procs, p \in Pages : k.pte[x][p] = IF Touches(w, x, p) THEN w.set[p] ELSE m.pte[x][p]
    BY <2>5, <2>6
  <2>9. k.cur = [x \in Procs |-> k.cur[x]] BY <2>3, <2>5
  <2> QED BY <1>3, <2>7, <2>8, <2>9 DEF Worked
<1> QED BY <1>4, <1>5

(* A push of the first stage runs.                                           *)
LEMMA RunOrder ==
  ASSUME mode \in Modes, NEW h, HwOK(h), NEW b, InOrder(h, b), h.q # <<>>, NEW w \in Head(h.q),
         NEW q, q = IF Head(h.q) \ {w} = {} THEN Tail(h.q) ELSE [h.q EXCEPT ![1] = Head(h.q) \ {w}],
         NEW k, k = Effect([h EXCEPT !.q = q], w)
  PROVE  InOrder(k, b)
<1>1. PICK r : r = h.q OBVIOUS
<1>2. Shorter(r, w, q)
  <2>1. IsSeq(r) BY <1>1 DEF HwOK
  <2>2. r # <<>> /\ w \in Head(r) /\ q = IF Head(r) \ {w} = {} THEN Tail(r) ELSE [r EXCEPT ![1] = Head(r) \ {w}]
    BY <1>1
  <2>3. PICK T : r \in Seq(T) BY <2>1 DEF IsSeq
  <2> QED BY <2>2, <2>3, HeadFacts
<1>3. PICK s \in {0, 1} :
        /\ Len(q) = Len(r) - s
        /\ \A i \in DOMAIN q : i + s \in DOMAIN r /\ q[i] \subseteq r[i + s]
        /\ \A j \in DOMAIN r : \A v \in r[j] : (j = 1 /\ v = w) \/ (j - s \in DOMAIN q /\ v \in q[j - s])
  BY <1>2 DEF Shorter
<1>4. w \in r[1] /\ 1 \in DOMAIN r /\ IsSeq(q) BY <1>2 DEF Shorter
<1>5. Len(h.q) \in Nat /\ DOMAIN h.q = 1..Len(h.q) BY HwLen
<1>6. PICK n : n = Len(h.q) OBVIOUS
<1>7. n \in Nat /\ n >= 1 /\ DOMAIN h.q = 1..n BY <1>1, <1>4, <1>5, <1>6
<1>8. Len(q) = n - s BY <1>1, <1>3, <1>6
<1>9. DOMAIN q = 1..(n - s)
  <2>1. q \in Seq({q[i] : i \in DOMAIN q}) BY <1>4 DEF IsSeq
  <2>2. DOMAIN q = 1..Len(q) BY <2>1
  <2> QED BY <1>8, <2>2
<1> DEFINE m == [cur |-> h.cur, pte |-> h.pte, q |-> q]
<1>10. [h EXCEPT !.q = q] = m BY HwPart DEF HwOK
<1>11. m.cur = h.cur /\ m.pte = h.pte /\ m.q = q /\ m = [cur |-> m.cur, pte |-> m.pte, q |-> m.q] OBVIOUS
<1> HIDE DEF m
<1>12. k = Effect(m, w) BY <1>10
<1>13. \A i \in DOMAIN h.q : \A v \in h.q[i] : PushOK(v) /\ PushTyped(v, i) BY DEF HwOK, InOrder, PushInv, PushTyped
<1>14. PushOK(w) /\ PushTyped(w, 1) BY <1>1, <1>4, <1>13
<1>15. Worked(m, w, k)
  <2>1. m.pte = [x \in Procs |-> m.pte[x]] BY <1>11 DEF HwOK
  <2>2. m.cur = [x \in Procs |-> m.cur[x]] BY <1>11 DEF InOrder, PushInv
  <2> QED BY <1>11, <1>12, <1>14, <2>1, <2>2, EffectWorked
<1>16. /\ k.q = q /\ k.cur = [x \in Procs |-> k.cur[x]]
       /\ \A x \in Procs, p \in Pages : k.pte[x][p] = IF Touches(w, x, p) THEN w.set[p] ELSE h.pte[x][p]
       /\ \A y \in Procs, p \in Pages :
            /\ p \in h.cur[y] /\ ~Fills(w, y, p) /\ ~(w.k = "free" /\ w.at = y) => p \in k.cur[y]
            /\ Fills(w, y, p) /\ (w.k = "copy" => p \in h.cur[w.from]) /\ (w.k = "cap" => p \in w.good) => p \in k.cur[y]
  BY <1>11, <1>15 DEF Worked
<1>17. OneRun(h, w, k, n, s)
  <2>1. Len(k.q) = n - s /\ DOMAIN k.q = 1..(n - s) /\ w \in h.q[1] BY <1>1, <1>4, <1>8, <1>9, <1>16
  <2>2. \A i \in 1..(n - s) : k.q[i] \subseteq h.q[i + s] BY <1>1, <1>3, <1>9, <1>16
  <2>3. \A j \in 1..n : \A v \in h.q[j] : (j = 1 /\ v = w) \/ (j - s \in 1..(n - s) /\ v \in k.q[j - s])
    BY <1>1, <1>3, <1>7, <1>9, <1>16
  <2> QED BY <1>6, <1>7, <1>16, <2>1, <2>2, <2>3 DEF OneRun
<1>18. \A p \in Pages : PageInv(k, b, p)
  <2>1. w.k = "copy" => w.from \in Procs BY <1>14 DEF PushTyped
  <2> QED BY <1>17, <2>1, RunPage DEF InOrder
<1>19. PushInv(k)
  <2>1. \A x \in Procs, p \in Pages : k.pte[x][p].prot \in 0..3
    BY <1>14, <1>16 DEF InOrder, PushInv, PushTyped, Touches
  <2>2. \A i \in DOMAIN k.q : \A v \in k.q[i] : PushTyped(v, i)
    <3> SUFFICES ASSUME NEW i \in 1..(n - s), NEW v \in q[i] PROVE PushTyped(v, i) BY <1>9, <1>16
    <3>1. i + s \in DOMAIN h.q /\ v \in h.q[i + s] BY <1>1, <1>3, <1>9
    <3>2. PushTyped(v, i + s) BY <1>13, <3>1
    <3>3. i + s = 1 => i = 1 BY <1>7
    <3> QED BY <3>2, <3>3 DEF PushTyped
  <2> QED BY <1>16, <2>1, <2>2 DEF PushInv, PushTyped
<1>20. CpuInStep(k, b)
  <2>1. "cpu" \in Procs /\ "cpu" \notin mode.gpus BY ProcFacts
  <2>2. \A p : ~Touches(w, "cpu", p) BY <1>14, <2>1 DEF PushOK, Touches
  <2>3. CpuInStep(h, b) BY DEF InOrder
  <2> QED BY <1>16, <2>1, <2>2, <2>3 DEF CpuInStep
<1> QED BY <1>18, <1>19, <1>20 DEF InOrder

(* Nothing of an operation changes.                                          *)
LEMMA SameUnderway ==
  ASSUME Underway, UNCHANGED <<mode, blk, op>> PROVE Underway'
  BY DEF Underway, Procs, Pages, P_op, Missing, OnlyAt, ResidentProcs

(* A push that runs keeps the order of what is under way.                   *)
LEMMA ExecuteOrder ==
  ASSUME Ordered, Execute PROVE InOrder(hw, blk)' /\ Underway'
<1>0. TrackInv /\ Underway /\ InOrder(hw, blk) /\ mode \in Modes /\ HwOK(hw) BY DEF Ordered, TrackInv
<1>1. UNCHANGED <<mode, blk, op>> BY DEF Execute
<1>2. PICK w \in Head(hw.q) :
        hw' = LET rest == Head(hw.q) \ {w}
              IN  Effect([hw EXCEPT !.q = IF rest = {} THEN Tail(@) ELSE [@ EXCEPT ![1] = rest]], w)
  BY DEF Execute
<1>3. PICK q : q = IF Head(hw.q) \ {w} = {} THEN Tail(hw.q) ELSE [hw.q EXCEPT ![1] = Head(hw.q) \ {w}] OBVIOUS
<1>4. PICK k : k = hw' OBVIOUS
<1>5. k = Effect([hw EXCEPT !.q = q], w) BY <1>2, <1>3, <1>4
<1>6. hw.q # <<>> BY DEF Execute, Drained
<1>7. InOrder(k, blk) BY <1>0, <1>3, <1>5, <1>6, RunOrder
<1>8. InOrder(hw', blk') BY <1>1, <1>4, <1>7
<1> QED BY <1>0, <1>1, <1>8, OrderPrime, SameUnderway

(* A write to memory, through a writable entry or to the only copy.           *)
LEMMA WrittenOrder ==
  ASSUME NEW h, HwOK(h), NEW b, InOrder(h, b), NEW z \in Procs, NEW c \in Pages, NEW k, k = Written(h, z, c),
         \/ \E x \in Procs : h.pte[x][c].prot >= 2 /\ h.pte[x][c].to = z
         \/ h.q = <<>> /\ Here(b, c) = {z}
  PROVE  InOrder(k, b)
<1>1. PushInv(h) /\ \A p \in Pages : PageInv(h, b, p) BY DEF InOrder
<1>2. \A p \in Pages : PageInv(k, b, p) BY <1>1, WrittenPage
<1>3. Overwritten(h, k, z, c) BY <1>1, WrittenWork DEF PushInv
<1>4. SameWork(h, k, c) /\ k.cur = [x \in Procs |-> k.cur[x]] BY <1>3 DEF Overwritten
<1>5. k.pte = h.pte /\ DOMAIN k.q = DOMAIN h.q BY <1>4 DEF SameWork
<1>6. \A i \in DOMAIN k.q : \A v \in k.q[i] : PushTyped(v, i)
  <2> SUFFICES ASSUME NEW i \in DOMAIN h.q, NEW v \in k.q[i] PROVE PushTyped(v, i) BY <1>5
  <2>1. \A w \in h.q[i] : PushTyped(w, i) BY <1>1 DEF PushInv, PushTyped
  <2>2. CASE v.k # "cap"
    <3>1. v \in h.q[i] BY <1>4, <2>2 DEF SameWork
    <3> QED BY <2>1, <3>1
  <2>3. CASE v.k = "cap"
    <3>1. PICK w \in h.q[i] : w.k = "cap" /\ v.to = w.to BY <1>4, <2>3 DEF SameWork
    <3>2. PushTyped(w, i) BY <2>1
    <3> QED BY <2>3, <3>1, <3>2 DEF PushTyped
  <2> QED BY <2>2, <2>3
<1>7. PushInv(k)
  <2>1. \A x \in Procs, p \in Pages : k.pte[x][p].prot \in 0..3 BY <1>1, <1>5 DEF PushInv
  <2> QED BY <1>4, <1>6, <2>1 DEF PushInv, PushTyped
<1>8. CpuInStep(k, b)
  <2>1. CpuInStep(h, b) BY DEF InOrder
  <2> QED BY <1>5, <2>1 DEF CpuInStep
<1> QED BY <1>2, <1>7, <1>8 DEF InOrder

(* So does a store through a page table.                                    *)
LEMMA StoreOrder ==
  ASSUME Ordered, NEW x \in Procs, NEW p \in Pages, Store(x, p) PROVE InOrder(hw, blk)' /\ Underway'
<1>0. TrackInv /\ Underway /\ InOrder(hw, blk) /\ HwOK(hw) BY DEF Ordered, TrackInv
<1>1. UNCHANGED <<mode, blk, op>> BY DEF Store
<1>2. PICK z : z = hw.pte[x][p].to OBVIOUS
<1>3. PICK k : k = hw' OBVIOUS
<1>4. k = Written(hw, z, p) /\ hw.pte[x][p].prot >= 2 BY <1>2, <1>3 DEF Store
<1>5. z \in Procs
  <2>1. MapsFresh(hw, p) BY <1>0 DEF InOrder, PageInv
  <2>2. 0 \in 0..Len(hw.q) BY <1>0, HwLen
  <2>3. hw.pte[x][p] \in Entries(hw, 0, x, p) BY DEF Entries
  <2>4. hw.pte[x][p].prot \in 0..3 BY <1>0 DEF InOrder, PushInv
  <2>5. hw.pte[x][p].prot > 0 BY <1>4, <2>4
  <2> QED BY <1>2, <2>1, <2>2, <2>3, <2>5 DEF MapsFresh
<1>6. \E y \in Procs : hw.pte[y][p].prot >= 2 /\ hw.pte[y][p].to = z BY <1>2, <1>4
<1>7. InOrder(k, blk) BY <1>0, <1>4, <1>5, <1>6, WrittenOrder
<1>8. InOrder(hw', blk') BY <1>1, <1>3, <1>7
<1> QED BY <1>0, <1>1, <1>8, OrderPrime, SameUnderway

(* uvm_va_block_write_from_cpu, at its end.                                   *)
LEMMA HostWriteOrder ==
  ASSUME Ordered, HostWrite PROVE InOrder(hw, blk)' /\ Underway'
<1>0. TrackInv /\ Underway /\ InOrder(hw, blk) /\ HwOK(hw) BY DEF Ordered, TrackInv
<1>1. op.pc = "write" /\ Drained /\ UNCHANGED <<mode, blk>> /\ op'.pc = "idle" BY DEF HostWrite, Idle
<1>2. PICK c : c = CHOOSE p \in P_op : TRUE OBVIOUS
<1>3. PICK k, z : k = hw' /\ z = op.dst OBVIOUS
<1>4. k = Written(hw, z, c) BY <1>2, <1>3 DEF HostWrite
<1>5. op.dst \in Procs /\ P_op # {} /\ P_op \subseteq Pages /\ \A p \in P_op : OnlyAt(p, op.dst)
  BY <1>0, <1>1 DEF Underway
<1>6. c \in P_op BY <1>2, <1>5
<1>7. Here(blk, c) = {z} /\ hw.q = <<>> BY <1>1, <1>3, <1>5, <1>6, HereFacts DEF OnlyAt, Drained
<1>8. InOrder(k, blk) BY <1>0, <1>3, <1>4, <1>5, <1>6, <1>7, WrittenOrder
<1>9. InOrder(hw, blk)'
  <2>1. InOrder(hw', blk') BY <1>1, <1>3, <1>8
  <2> QED BY <1>1, <2>1, OrderPrime
<1>10. ~mode.rd => blk'.readdup = {} BY <1>0, <1>1 DEF Underway
<1> QED BY <1>1, <1>9, <1>10, AtRest

(* A block that has no page, and that nobody maps.                            *)
LEMMA EmptyOrder ==
  ASSUME NEW h, h.q = <<>>, h.cur = [x \in Procs |-> h.cur[x]], NEW d,
         \A x \in Procs, p \in Pages : h.pte[x][p].prot = 0 /\ d.prot[x][p] = 0,
         \A x \in Procs : d.resident[x] = {}, d.chunk = {}, d.alloc = {}, "cpu" \in Procs
  PROVE  InOrder(h, d)
<1>1. DOMAIN h.q = {} /\ Len(h.q) = 0 /\ 0..Len(h.q) = {0} OBVIOUS
<1>2. PushInv(h) BY <1>1 DEF PushInv
<1>3. CpuInStep(h, d) BY DEF CpuInStep
<1>4. Backed(d) BY DEF Backed, Aimed
<1>5. ASSUME NEW p \in Pages PROVE PageInv(h, d, p)
  <2>1. \A t \in 0..Len(h.q), x \in Procs : \A e \in Entries(h, t, x, p) : e.prot = 0 BY <1>1 DEF Entries
  <2>2. Quiet(h, p) /\ CopiesFresh(h, p) BY <1>1 DEF Quiet, CopiesFresh
  <2>3. MapsFresh(h, p) BY <2>1 DEF MapsFresh
  <2>4. HeldFresh(h, d, p) BY DEF HeldFresh, Holds, Here
  <2>5. LastAimed(h, d, p)
    <3>1. \A x, e : e.prot = 0 => Aimed(d, x, p, e) BY DEF Aimed
    <3> QED BY <2>1, <3>1 DEF LastAimed
  <2>6. NowhereUnmapped(h, d, p) BY <2>1 DEF NowhereUnmapped
  <2> QED BY <2>2, <2>3, <2>4, <2>5, <2>6 DEF PageInv
<1> QED BY <1>2, <1>3, <1>4, <1>5 DEF InOrder

(* Neither a page nor a permission changes.                                   *)
LEMMA FlagOrder ==
  ASSUME NEW h, NEW b, InOrder(h, b), NEW d, d.resident = b.resident, d.readdup = b.readdup, d.prot = b.prot,
         d.chunk = b.chunk, d.alloc = b.alloc
  PROVE  InOrder(h, d)
<1>1. Backed(d) /\ CpuInStep(h, d) BY SameBacked DEF InOrder
<1>2. ASSUME NEW p \in Pages PROVE PageInv(h, d, p)
  <2>1. Here(d, p) = Here(b, p) BY DEF Here
  <2>2. \A y \in Procs : Holds(d, y, p) => Holds(b, y, p) BY <2>1 DEF Holds
  <2>3. PageInv(h, b, p) BY DEF InOrder
  <2> QED BY <2>1, <2>2, <2>3, BlockChange
<1> QED BY <1>1, <1>2 DEF InOrder

(* The steps that leave the hardware alone.                                   *)
LEMMA QuietSteps ==
  ASSUME Ordered
  PROVE  /\ Abandoned \/ EvictionMappingsEnd \/ Finalize => InOrder(hw, blk)' /\ Underway'
         /\ \A g \in mode.gpus : AddGpuVaSpace(g) => InOrder(hw, blk)' /\ Underway'
         /\ UNCHANGED vars => InOrder(hw, blk)' /\ Underway'
<1>0. TrackInv /\ Underway /\ InOrder(hw, blk) BY DEF Ordered
<1>1. ASSUME mode' = mode, hw' = hw, op'.pc = "idle", blk'.resident = blk.resident, blk'.readdup = blk.readdup,
             blk'.prot = blk.prot, blk'.chunk = blk.chunk, blk'.alloc = blk.alloc
      PROVE  InOrder(hw, blk)' /\ Underway'
  <2>1. PICK d : d = blk' OBVIOUS
  <2>2. InOrder(hw, d) BY <1>0, <1>1, <2>1, FlagOrder
  <2>3. InOrder(hw', blk') BY <1>1, <2>1, <2>2
  <2>4. ~mode.rd => blk'.readdup = {} BY <1>0, <1>1 DEF Underway
  <2> QED BY <1>1, <2>3, <2>4, OrderPrime, AtRest
<1>2. Abandoned => InOrder(hw, blk)' /\ Underway' BY <1>1 DEF Abandoned, Idle
<1>3. ASSUME EvictionMappingsEnd \/ Finalize PROVE InOrder(hw, blk)' /\ Underway'
  <2>1. mode' = mode /\ hw' = hw /\ op'.pc = "idle" BY <1>3 DEF EvictionMappingsEnd, Finalize, Free
  <2>2. /\ blk'.resident = blk.resident /\ blk'.readdup = blk.readdup
        /\ blk'.prot = blk.prot /\ blk'.chunk = blk.chunk /\ blk'.alloc = blk.alloc
    BY <1>0, <1>3 DEF EvictionMappingsEnd, Finalize, TrackInv, BlkOK, Blocks
  <2> QED BY <1>1, <2>1, <2>2
<1>4. ASSUME NEW g \in mode.gpus, AddGpuVaSpace(g) PROVE InOrder(hw, blk)' /\ Underway'
  <2>1. UNCHANGED <<mode, hw, blk, op>> /\ op.pc = "idle" BY <1>4 DEF AddGpuVaSpace, Free
  <2> QED BY <1>1, <2>1
<1>5. ASSUME UNCHANGED vars PROVE InOrder(hw, blk)' /\ Underway'
  <2>1. UNCHANGED <<mode, hw, blk, op>> BY <1>5 DEF vars
  <2>2. InOrder(hw', blk') BY <1>0, <2>1
  <2> QED BY <1>0, <2>1, <2>2, OrderPrime, SameUnderway
<1> QED BY <1>2, <1>3, <1>4, <1>5

(* The tracker is done; a block that was killed is empty.                     *)
LEMMA WaitedOrder ==
  ASSUME Ordered, Waited PROVE InOrder(hw, blk)' /\ Underway'
<1>0. TrackInv /\ Underway /\ InOrder(hw, blk) /\ mode \in Modes /\ HwOK(hw) /\ InStep(hw, blk.prot)
  BY DEF Ordered, TrackInv
<1>1. op.pc = "wait" /\ mode' = mode /\ op'.pc = "idle" /\ hw.q = <<>> BY DEF Waited, Idle, Drained
<1>2. CASE op.kind # "kill"
  <2>1. UNCHANGED <<blk, hw>> BY <1>2 DEF Waited
  <2>2. InOrder(hw', blk') BY <1>0, <2>1
  <2>3. ~mode.rd => blk'.readdup = {} BY <1>0, <2>1 DEF Underway
  <2> QED BY <1>1, <2>2, <2>3, OrderPrime, AtRest
<1>3. CASE op.kind = "kill"
  <2>1. PICK k, d, E, X : /\ k = hw' /\ d = blk' /\ E = [x \in Procs |-> {}]
                          /\ X = [g \in mode.gpus |-> {}]
    OBVIOUS
  <2>2. /\ d = [blk EXCEPT !.dead = TRUE, !.chunk = {}, !.alloc = {}, !.readdup = {}, !.resident = E, !.evicted = X]
        /\ k = [hw EXCEPT !.cur = E]
    BY <1>3, <2>1 DEF Waited
  <2>3. k = [cur |-> E, pte |-> hw.pte, q |-> hw.q] BY <1>0, <2>2, HwPart DEF HwOK
  <2>4. k.cur = E /\ k.pte = hw.pte /\ k.q = hw.q BY <2>3
  <2>5. /\ d.chunk = {} /\ d.alloc = {} /\ d.readdup = {} /\ d.resident = E /\ d.prot = blk.prot
    BY <1>0, <2>2 DEF TrackInv, BlkOK, Blocks
  <2>6. \A x \in Procs, p \in Pages : blk.prot[x][p] = 0 BY <1>0, <1>1, <1>3 DEF TrackInv, OpOK
  <2>7. \A x \in Procs, p \in Pages : hw.pte[x][p].prot = 0
    <3> SUFFICES ASSUME NEW x \in Procs, NEW p \in Pages PROVE hw.pte[x][p].prot = 0 OBVIOUS
    <3>1. DOMAIN hw.q = {} BY <1>1
    <3>2. ~Remapped(hw, 0, Len(hw.q) + 1, x, p) BY <3>1 DEF Remapped
    <3>3. hw.pte[x][p] \in Entries(hw, 0, x, p) BY DEF Entries
    <3>4. 0 \in 0..Len(hw.q) BY <1>0, HwLen
    <3>5. CpuInStep(hw, blk) BY <1>0 DEF InOrder
    <3>6. hw.pte[x][p].prot = blk.prot[x][p] BY <1>0, <3>2, <3>3, <3>4, <3>5, Settled
    <3> QED BY <2>6, <3>6
  <2>8. k.cur = [x \in Procs |-> k.cur[x]] /\ \A x \in Procs : d.resident[x] = {} BY <2>1, <2>4, <2>5
  <2>9. "cpu" \in Procs BY <1>0, ProcFacts
  <2>10. k.q = <<>> /\ \A x \in Procs, p \in Pages : k.pte[x][p].prot = 0 /\ d.prot[x][p] = 0
    BY <1>1, <2>4, <2>5, <2>6, <2>7
  <2>11. InOrder(k, d) BY <2>5, <2>8, <2>9, <2>10, EmptyOrder
  <2>12. InOrder(hw', blk') BY <2>1, <2>11
  <2>13. ~mode.rd => blk'.readdup = {} BY <2>1, <2>5
  <2> QED BY <1>1, <2>12, <2>13, OrderPrime, AtRest
<1> QED BY <1>2, <1>3

(* Nothing is under way in the beginning.                                   *)
LEMMA InitOrder ==
  ASSUME Init PROVE InOrder(hw, blk) /\ Underway
<1>1. mode \in Modes BY DEF Init
<1>2. "cpu" \in Procs BY <1>1, ProcFacts
<1>3. /\ hw.q = <<>> /\ hw.cur = [x \in Procs |-> hw.cur[x]]
      /\ \A x \in Procs, p \in Pages : hw.pte[x][p].prot = 0 /\ blk.prot[x][p] = 0
      /\ \A x \in Procs : blk.resident[x] = {}
      /\ blk.chunk = {} /\ blk.alloc = {} /\ blk.readdup = {} /\ op.pc = "idle"
  BY DEF Init, NoPte, Idle
<1>4. InOrder(hw, blk) BY <1>2, <1>3, EmptyOrder
<1>5. Underway BY <1>3 DEF Underway
<1> QED BY <1>4, <1>5

(* Every step keeps the pushes, the page tables and the record in order.      *)
LEMMA NextOrder ==
  ASSUME Ordered, [Next]_vars PROVE InOrder(hw, blk)' /\ Underway'
<1>1. UNCHANGED vars => InOrder(hw, blk)' /\ Underway' BY QuietSteps
<1>2. CpuFault => InOrder(hw, blk)' /\ Underway' BY FaultOrder
<1>3. \A x \in Procs : EvictionMappings(x) => InOrder(hw, blk)' /\ Underway' BY EvictionMappingsOrder
<1>4. Populate \/ Copy \/ Abandoned => InOrder(hw, blk)' /\ Underway' BY PopulateOrder, CopyOrder, QuietSteps
<1>5. Revoke \/ Map \/ MapFollowers => InOrder(hw, blk)' /\ Underway' BY RevokeOrder, MapOrder, FollowersOrder
<1>6. \A g \in mode.gpus : GpuFault(g) \/ EvictChunks(g) \/ UnregisterGpu(g) => InOrder(hw, blk)' /\ Underway'
  BY FaultOrder
<1>7. \A g \in mode.gpus : RemoveGpuVaSpace(g) \/ AddGpuVaSpace(g) => InOrder(hw, blk)' /\ Underway'
  BY UnmapOrder, QuietSteps
<1>8. FreeChunk \/ DestroyGpuState \/ Waited => InOrder(hw, blk)' /\ Underway'
  BY FreeChunkOrder, DestroyOrder, WaitedOrder
<1>9. EvictionMappingsEnd \/ Finalize \/ DisablePeer \/ Kill => InOrder(hw, blk)' /\ Underway'
  BY UnmapOrder, QuietSteps
<1>10. \A p \in Pages : WriteFromCpu(p) => InOrder(hw, blk)' /\ Underway' BY FaultOrder
<1>11. HostWrite \/ Prepare \/ Execute => InOrder(hw, blk)' /\ Underway'
  BY HostWriteOrder, PrepareOrder, ExecuteOrder
<1>12. \A x \in Procs, p \in Pages : Store(x, p) => InOrder(hw, blk)' /\ Underway' BY StoreOrder
<1> QED BY <1>1, <1>2, <1>3, <1>4, <1>5, <1>6, <1>7, <1>8, <1>9, <1>10, <1>11, <1>12 DEF Next

(* The mode of a VA space is fixed.                                           *)
LEMMA ModeFixed ==
  ASSUME [Next]_vars PROVE mode' = mode
<1>1. CASE UNCHANGED vars BY <1>1 DEF vars
<1>2. ASSUME NEW x, NEW acc, Service(x, acc) PROVE mode' = mode BY <1>2 DEF Service, MakeResident
<1>3. CpuFault \/ (\E g \in mode.gpus : GpuFault(g)) => mode' = mode BY <1>2 DEF CpuFault, GpuFault
<1>4. (\E g \in mode.gpus : EvictChunks(g) \/ UnregisterGpu(g)) \/ (\E p \in Pages : WriteFromCpu(p)) => mode' = mode
  BY DEF EvictChunks, UnregisterGpu, WriteFromCpu, MakeResident
<1>5. (\E g \in mode.gpus : RemoveGpuVaSpace(g) \/ AddGpuVaSpace(g)) \/ DisablePeer \/ Kill => mode' = mode
  BY DEF RemoveGpuVaSpace, AddGpuVaSpace, DisablePeer, Kill, UnmapAndWait
<1>6. (\E x \in Procs : EvictionMappings(x)) \/ Populate \/ Copy \/ Abandoned \/ Revoke \/ Map \/ MapFollowers => mode' = mode
  BY DEF EvictionMappings, Populate, Copy, Abandoned, Revoke, Map, MapFollowers
<1>7. FreeChunk \/ EvictionMappingsEnd \/ DestroyGpuState \/ Waited \/ HostWrite \/ Prepare \/ Finalize => mode' = mode
  BY DEF FreeChunk, EvictionMappingsEnd, DestroyGpuState, Waited, HostWrite, Prepare, Finalize
<1>8. Execute \/ (\E x \in Procs, p \in Pages : Store(x, p)) => mode' = mode BY DEF Execute, Store
<1> QED BY <1>1, <1>3, <1>4, <1>5, <1>6, <1>7, <1>8 DEF Next

(* The stages of pushes under way stay in order, in every mode but those    *)
(* that both track writes and duplicate pages: nobody can write while a     *)
(* copy is made, copies are made of what is current, what is mapped is      *)
(* current until it is unmapped, and a chunk is freed only after the last   *)
(* push that maps or reads it.                                              *)
THEOREM CoherenceInvariance == Spec => []CoherenceInv
<1>1. Init => CoherenceInv BY InitOrder DEF CoherenceInv
<1>2. TrackInv /\ CoherenceInv /\ [Next]_vars => CoherenceInv'
  <2> SUFFICES ASSUME TrackInv, CoherenceInv, [Next]_vars, ~(mode'.track /\ mode'.rd)
               PROVE  InOrder(hw, blk)' /\ Underway'
    BY DEF CoherenceInv
  <2>1. mode' = mode BY ModeFixed
  <2>2. Ordered BY <2>1 DEF CoherenceInv, Ordered
  <2> QED BY <2>2, NextOrder
<1> QED BY <1>1, <1>2, TrackInvariance, PTL DEF Spec

(* Managed memory is coherent: whatever a processor reads through its page  *)
(* table is the last value written, though unmaps, copies and frees run     *)
(* behind the driver's back (uvm_va_block_make_resident_copy,               *)
(* uvm_va_block_map, block_map_cpu_page_to), and once they have run every   *)
(* resident copy is current.  Left out are the modes with tracking and read *)
(* duplication together, where the bulk restore of                          *)
(* uvm_va_block_service_finish maps duplicated pages writable.              *)
THEOREM CoherentInvariance == Spec => [](~(mode.track /\ mode.rd) => Coherent)
<1>1. TrackInv /\ CoherenceInv => (~(mode.track /\ mode.rd) => Coherent)
  <2> SUFFICES ASSUME TrackInv, InOrder(hw, blk) PROVE Coherent BY DEF CoherenceInv
  <2>1. HwOK(hw) /\ Len(hw.q) \in Nat /\ 0 \in 0..Len(hw.q) BY HwLen DEF TrackInv
  <2>2. ASSUME NEW x \in Procs, NEW p \in Pages, hw.pte[x][p].prot > 0
        PROVE  p \in hw.cur[hw.pte[x][p].to]
    <3>1. MapsFresh(hw, p) BY DEF InOrder, PageInv
    <3>2. hw.pte[x][p] \in Entries(hw, 0, x, p) BY DEF Entries
    <3>3. Fresh(hw, 0, hw.pte[x][p].to, p) BY <2>1, <2>2, <3>1, <3>2 DEF MapsFresh
    <3>4. \A y : ~Filled(hw, 0, 0, y, p) BY <2>1, HwLen DEF Filled
    <3>5. ~Spoils(hw, 0, hw.pte[x][p].to, p) BY <2>1, <3>3, <3>4 DEF Fresh
    <3> QED BY <3>5 DEF Spoils
  <2>3. ASSUME Drained, NEW x \in Procs, NEW p \in blk.resident[x] PROVE p \in hw.cur[x]
    <3>1. p \in Pages BY <2>3 DEF TrackInv, BlkOK, Blocks
    <3>2. Holds(blk, x, p) BY <2>3 DEF Holds, Here
    <3>3. Fresh(hw, Len(hw.q) + 1, x, p) BY <3>1, <3>2 DEF InOrder, PageInv, HeldFresh
    <3>4. hw.q = <<>> /\ Len(hw.q) + 1 >= 0 BY <2>1, <2>3 DEF Drained
    <3> QED BY <3>3, <3>4, DrainedFresh
  <2> QED BY <2>2, <2>3 DEF Coherent
<1> QED BY <1>1, TrackInvariance, CoherenceInvariance, PTL

-----------------------------------------------------------------------------
(* Mappings *)

(* Recording a change also remembers what was mapped.                         *)
Remembered(b, R, d) ==
  /\ Recorded(b, R, d) /\ d.evicted = b.evicted /\ b.maybe \subseteq d.maybe
  /\ \A x \in Procs, p \in Pages : p \in DOMAIN R[x] /\ R[x][p].prot > 0 => p \in d.maybe

(* What Bits remembers.                                                       *)
LEMMA BitsRemembered ==
  ASSUME BlkOK, NEW R, \A x \in Procs : \A p \in DOMAIN R[x] : R[x][p].prot \in 0..3,
         NEW t \in BOOLEAN, NEW d \in BOOLEAN,
         NEW b, b = [Bits(blk, R) EXCEPT !.tracking = t, !.dirty = d]
  PROVE  Remembered(blk, R, b)
<1>1. Noted(b, R, t, d) BY BitsFacts
<1>2. Recorded(blk, R, b) /\ b.evicted = blk.evicted BY <1>1 DEF Noted, Recorded
<1>3. PICK m : m = blk.maybe \cup {p \in Pages : \E x \in Procs : p \in DOMAIN R[x] /\ R[x][p].prot > 0} OBVIOUS
<1>4. PICK P : Bits(blk, R) = [blk EXCEPT !.prot = P, !.maybe = m] BY <1>3 DEF Bits
<1>5. b = [[blk EXCEPT !.prot = P, !.maybe = m] EXCEPT !.tracking = t, !.dirty = d] BY <1>4
<1>6. b.maybe = m BY <1>5 DEF BlkOK, Blocks
<1> QED BY <1>2, <1>3, <1>6 DEF Remembered

(* Memory depends on where pages are.                                         *)
LEMMA StoredSame ==
  ASSUME NEW b, Stored(b), NEW d, d.resident = b.resident, d.readdup = b.readdup,
         b.chunk \subseteq d.chunk, b.alloc \subseteq d.alloc
  PROVE  Stored(d)
<1>1. \A p : Here(d, p) = Here(b, p) BY DEF Here
<1> QED BY <1>1 DEF Stored

(* Mappings of what can be reached.                                           *)
LEMMA ReachedAfter ==
  ASSUME NEW b, Reached(b), NEW R, NEW d, Remembered(b, R, d),
         \A x \in Procs : \A p \in DOMAIN R[x] :
           p \in Pages /\ R[x][p].prot > 0 => \E y \in Here(b, p) : x \in Accessible(y)
  PROVE  Reached(d)
<1>1. Recorded(b, R, d) BY DEF Remembered
<1>2. \A p : Here(d, p) = Here(b, p) BY <1>1, RecordedSame
<1> SUFFICES ASSUME NEW x \in Procs, NEW p \in Pages, d.prot[x][p] > 0
             PROVE  p \in d.maybe /\ \E y \in Here(d, p) : x \in Accessible(y)
  BY DEF Reached
<1>3. CASE p \in DOMAIN R[x]
  <2>1. R[x][p].prot > 0 BY <1>1, <1>3 DEF Recorded
  <2> QED BY <1>2, <1>3, <2>1 DEF Remembered
<1>4. CASE p \notin DOMAIN R[x]
  <2>1. b.prot[x][p] > 0 BY <1>1, <1>4 DEF Recorded
  <2> QED BY <1>2, <2>1 DEF Remembered, Reached
<1> QED BY <1>3, <1>4

(* Permissions of a block within those of another.                            *)
Within(d, b) == \A x \in Procs, p \in Pages : /\ d.prot[x][p] <= b.prot[x][p]
                                              /\ d.prot[x][p] \in 0..3 /\ b.prot[x][p] \in 0..3

(* Who loses permissions endangers no atomics.                                *)
LEMMA AloneLowered ==
  ASSUME NEW b, AtomicsAlone(b), NEW d, d.resident = b.resident, Within(d, b)
  PROVE  AtomicsAlone(d)
<1> SUFFICES ASSUME ~mode.rd, ~mode.track, NEW p \in Pages, NEW y \in Procs, NEW x \in Procs, NEW z \in Procs,
                    p \in d.resident[y], d.prot[x][p] = 3, x \notin Native(y), z # x
             PROVE  d.prot[z][p] < 2
  BY DEF AtomicsAlone
<1>1. b.prot[x][p] = 3 BY DEF Within
<1>2. b.prot[z][p] < 2 BY <1>1 DEF AtomicsAlone
<1> QED BY <1>2 DEF Within

(* What the proof of the mappings assumes of a step's first state.            *)
Mappable == /\ TrackInv /\ InOrder(hw, blk) /\ Underway /\ TrackedLocal(mode)
            /\ Stored(blk) /\ Reached(blk) /\ AtomicsAlone(blk) /\ UnderwayMaps

(* The invariants of the block, for a step that keeps the topology.           *)
MapsKept(b) == Stored(b) /\ Reached(b) /\ AtomicsAlone(b)

(* The topology is fixed but for peers that are disabled.                     *)
LEMMA TopologySame ==
  ASSUME mode' = mode, peers' = peers
  PROVE  /\ Procs' = Procs /\ Pages' = Pages
         /\ \A x : Accessible(x)' = Accessible(x) /\ Native(x)' = Native(x)
<1>1. Procs' = Procs /\ Pages' = Pages BY DEF Procs, Pages
<1>2. \A x : Accessible(x)' = Accessible(x) BY <1>1 DEF Accessible
<1> QED BY <1>1, <1>2 DEF Native

(* What holds of the block holds of it in the next state.                     *)
LEMMA KeptPrime ==
  ASSUME mode' = mode, peers' = peers, MapsKept(blk')
  PROVE  Stored(blk)' /\ Reached(blk)' /\ AtomicsAlone(blk)'
<1>1. /\ Procs' = Procs /\ Pages' = Pages
      /\ \A x : Accessible(x)' = Accessible(x) /\ Native(x)' = Native(x)
  BY TopologySame
<1>2. \A p : Here(blk, p)' = Here(blk', p) BY <1>1 DEF Here
<1>3. Stored(blk') /\ Reached(blk') /\ AtomicsAlone(blk') BY DEF MapsKept
<1>4. Stored(blk)' BY <1>2, <1>3 DEF Stored
<1>5. Reached(blk)' BY <1>1, <1>2, <1>3 DEF Reached
<1>6. AtomicsAlone(blk)' BY <1>1, <1>3 DEF AtomicsAlone
<1> QED BY <1>4, <1>5, <1>6

(* A change that only takes away.                                             *)
LEMMA LowerMaps ==
  ASSUME BlkOK, MapsKept(blk), NEW R, Lowers(R), NEW t \in BOOLEAN, NEW d \in BOOLEAN,
         NEW b, b = [Bits(blk, R) EXCEPT !.tracking = t, !.dirty = d]
  PROVE  MapsKept(b) /\ Remembered(blk, R, b) /\ Within(b, blk)
<1>1. \A x \in Procs : \A p \in DOMAIN R[x] : R[x][p].prot \in 0..3 BY DEF Lowers
<1>2. Remembered(blk, R, b) BY <1>1, BitsRemembered
<1>3. Recorded(blk, R, b) BY <1>2 DEF Remembered
<1>4. b.resident = blk.resident /\ b.readdup = blk.readdup /\ b.chunk = blk.chunk /\ b.alloc = blk.alloc
  BY <1>3 DEF Recorded
<1>5. Within(b, blk)
  <2> SUFFICES ASSUME NEW x \in Procs, NEW p \in Pages
               PROVE  b.prot[x][p] <= blk.prot[x][p] /\ b.prot[x][p] \in 0..3 /\ blk.prot[x][p] \in 0..3
    BY DEF Within
  <2>1. blk.prot[x][p] \in 0..3 BY DEF BlkOK, Blocks
  <2>2. b.prot[x][p] = IF p \in DOMAIN R[x] THEN R[x][p].prot ELSE blk.prot[x][p] BY <1>3 DEF Recorded
  <2>3. p \in DOMAIN R[x] => R[x][p].prot \in 0..2 /\ R[x][p].prot < blk.prot[x][p] BY DEF Lowers
  <2> QED BY <2>1, <2>2, <2>3
<1>6. Stored(b) BY <1>4, StoredSame DEF MapsKept
<1>7. Reached(b)
  <2>1. ASSUME NEW x \in Procs, NEW p \in DOMAIN R[x], p \in Pages, R[x][p].prot > 0
        PROVE  \E y \in Here(blk, p) : x \in Accessible(y)
    <3>1. blk.prot[x][p] > 0
      <4>1. R[x][p].prot \in 0..2 /\ R[x][p].prot < blk.prot[x][p] BY DEF Lowers
      <4>2. blk.prot[x][p] \in 0..3 BY <2>1 DEF BlkOK, Blocks
      <4> QED BY <4>1, <4>2
    <3> QED BY <2>1, <3>1 DEF MapsKept, Reached
  <2> QED BY <1>2, <2>1, ReachedAfter DEF MapsKept
<1>8. AtomicsAlone(b) BY <1>4, <1>5, AloneLowered DEF MapsKept
<1> QED BY <1>2, <1>5, <1>6, <1>7, <1>8 DEF MapsKept

(* The invariant after a step.                                                *)
MapsInv == Stored(blk) /\ Reached(blk) /\ AtomicsAlone(blk) /\ UnderwayMaps

(* Between operations little has to be known.                                 *)
LEMMA RestMaps ==
  ASSUME op'.pc \in {"idle", "free", "write", "destroy", "wait"}, op'.kind # "disable_peer"
  PROVE  UnderwayMaps'
  BY DEF UnderwayMaps, Faulting

(* block_select_processor_residency puts a page where the processor can reach it. *)
LEMMA SelectReached ==
  ASSUME NEW x \in Procs, NEW p PROVE x \in Accessible(SelectResidency(p, x))
<1>1. x \in Accessible(x) BY DEF Accessible
<1> QED BY <1>1 DEF SelectResidency

(* uvm_va_block_make_resident_copy and _read_duplicate only take mappings away. *)
LEMMA MakeResidentMaps ==
  ASSUME Mappable, NEW kind \in {"fault", "evict", "host", "unregister"}, NEW x \in Procs,
         NEW acc, DOMAIN acc \subseteq Pages, NEW d \in Procs, NEW dup \in BOOLEAN,
         kind = "fault" => x \in Accessible(d) /\ \A p \in DOMAIN acc : acc[p] \in 0..3 /\ blk.prot[x][p] < acc[p],
         MakeResident(kind, x, acc, d, dup)
  PROVE  MapsInv'
<1>0. TrackInv /\ BlkOK /\ MapsKept(blk) BY DEF Mappable, TrackInv, MapsKept
<1>1. PICK R : R = IF dup THEN DupUnmaps(DOMAIN acc) ELSE MoveUnmaps(DOMAIN acc, d) OBVIOUS
<1>2. /\ mode' = mode /\ peers' = peers /\ blk' = Bits(blk, R)
      /\ op' = [Idle EXCEPT !.pc = IF DOMAIN acc \subseteq blk.resident[d] THEN "copy" ELSE "populate",
                            !.kind = kind, !.who = x, !.acc = acc, !.dst = d, !.dup = dup]
  BY <1>1 DEF MakeResident
<1>3. Lowers(R)
  <2>1. CASE dup BY <1>0, <1>1, <2>1, DupLowers
  <2>2. CASE ~dup BY <1>0, <1>1, <2>2, UnmappingLowers DEF MoveUnmaps
  <2> QED BY <2>1, <2>2
<1>4. \A y \in Procs : \A p \in DOMAIN R[y] : R[y][p].prot \in 0..3 BY <1>3 DEF Lowers
<1>5. /\ blk' = [Bits(blk, R) EXCEPT !.tracking = blk.tracking, !.dirty = blk.dirty]
      /\ blk.tracking \in BOOLEAN /\ blk.dirty \in BOOLEAN
  BY <1>0, <1>2, <1>4, FlagsSame
<1>6. PICK b : b = blk' OBVIOUS
<1>7. MapsKept(b) /\ Remembered(blk, R, b) /\ Within(b, blk) BY <1>0, <1>3, <1>5, <1>6, LowerMaps
<1>8. Stored(blk)' /\ Reached(blk)' /\ AtomicsAlone(blk)' BY <1>2, <1>6, <1>7, KeptPrime
<1>9. /\ op'.pc \in {"copy", "populate"} /\ (op'.pc = "copy" => DOMAIN acc \subseteq blk.resident[d])
      /\ op'.kind = kind /\ op'.who = x /\ op'.acc = acc /\ op'.dst = d
  BY <1>2 DEF Idle
<1>10. blk'.resident = blk.resident BY <1>6, <1>7 DEF Remembered, Recorded
<1>11. op'.pc = "copy" => (Staged)' = {}
  <2>1. (Missing)' = DOMAIN acc \ blk.resident[d] BY <1>9, <1>10 DEF P_op, Missing
  <2> QED BY <1>9, <2>1 DEF Staged
<1>12. kind = "fault" => (x \in Accessible(d))' BY <1>2, TopologySame
<1>13. kind = "fault" => \A p \in DOMAIN acc : blk'.prot[x][p] < acc[p]
  <2>1. \A p \in DOMAIN acc : /\ blk'.prot[x][p] <= blk.prot[x][p]
                              /\ blk'.prot[x][p] \in 0..3 /\ blk.prot[x][p] \in 0..3
    BY <1>6, <1>7 DEF Within
  <2> QED BY <2>1
<1>14. UnderwayMaps' BY <1>9, <1>11, <1>12, <1>13 DEF UnderwayMaps, Faulting, P_op
<1> QED BY <1>8, <1>14 DEF MapsInv

(* The operations that begin by making pages resident.                        *)
LEMMA FaultMaps ==
  ASSUME Mappable
  PROVE  /\ CpuFault => MapsInv'
         /\ \A g \in mode.gpus : GpuFault(g) \/ EvictChunks(g) \/ UnregisterGpu(g) => MapsInv'
         /\ \A p \in Pages : WriteFromCpu(p) => MapsInv'
<1>a. TrackInv BY DEF Mappable
<1>0. mode.gpus \subseteq Procs /\ "cpu" \in Procs BY <1>a, ProcFacts DEF TrackInv
<1>1. ASSUME NEW x \in Procs, NEW acc, DOMAIN acc \subseteq Pages, DOMAIN acc # {},
             \A p \in DOMAIN acc : acc[p] \in 0..3, Service(x, acc)
      PROVE  MapsInv'
  <2>1. PICK d \in Procs, dup \in BOOLEAN :
          /\ \A p \in DOMAIN acc : blk.prot[x][p] < acc[p] /\ SelectResidency(p, x) = d
          /\ MakeResident("fault", x, acc, d, dup)
    BY <1>1 DEF Service
  <2>2. PICK p \in DOMAIN acc : TRUE BY <1>1
  <2>3. x \in Accessible(d) BY <2>1, <2>2, SelectReached
  <2> QED BY <1>1, <2>1, <2>3, MakeResidentMaps
<1>2. CpuFault => MapsInv'
  <2> SUFFICES ASSUME NEW p \in Pages, NEW a \in {1, 3}, Service("cpu", [x \in {p} |-> a])
               PROVE  MapsInv'
    BY DEF CpuFault
  <2>1. PICK acc : acc = [x \in {p} |-> a] OBVIOUS
  <2>2. DOMAIN acc \subseteq Pages /\ DOMAIN acc # {} /\ \A c \in DOMAIN acc : acc[c] \in 0..3 BY <2>1
  <2>3. Service("cpu", acc) BY <2>1
  <2> QED BY <1>0, <1>1, <2>2, <2>3
<1>3. ASSUME NEW g \in mode.gpus, GpuFault(g) PROVE MapsInv'
  <2>3. PICK F \in (SUBSET Pages) \ {{}} : \E acc \in [F -> 1..3] : Service(g, acc) BY <1>3 DEF GpuFault
  <2>1. PICK acc \in [F -> 1..3] : Service(g, acc) BY <2>3
  <2>2. DOMAIN acc \subseteq Pages /\ DOMAIN acc # {} /\ \A c \in DOMAIN acc : acc[c] \in 0..3 OBVIOUS
  <2> QED BY <1>0, <1>1, <2>1, <2>2
<1>4. ASSUME NEW g \in mode.gpus, EvictChunks(g) \/ UnregisterGpu(g) PROVE MapsInv'
  <2>1. PICK acc : acc = [p \in blk.resident[g] |-> 0] OBVIOUS
  <2>2. MakeResident("evict", g, acc, "cpu", FALSE) \/ MakeResident("unregister", g, acc, "cpu", FALSE)
    BY <1>4, <2>1 DEF EvictChunks, UnregisterGpu
  <2>3. DOMAIN acc \subseteq Pages BY <1>0, <1>a, <2>1 DEF TrackInv, BlkOK, Blocks
  <2> QED BY <1>0, <2>2, <2>3, MakeResidentMaps
<1>6. ASSUME NEW p \in Pages, WriteFromCpu(p) PROVE MapsInv'
  <2>1. PICK acc : acc = [x \in {p} |-> 0] OBVIOUS
  <2>2. PICK d : d = IF ResidentProcs(p) = {} THEN "cpu" ELSE Closest("cpu", ResidentProcs(p)) OBVIOUS
  <2>3. MakeResident("host", "cpu", acc, d, FALSE) BY <1>6, <2>1, <2>2 DEF WriteFromCpu
  <2>4. DOMAIN acc \subseteq Pages BY <2>1
  <2>5. d \in Procs
    <3>1. ResidentProcs(p) \subseteq Procs BY DEF ResidentProcs
    <3>2. ResidentProcs(p) # {} => Closest("cpu", ResidentProcs(p)) \in ResidentProcs(p) BY ClosestIn
    <3> QED BY <1>0, <2>2, <3>1, <3>2
  <2> QED BY <1>0, <2>3, <2>4, <2>5, MakeResidentMaps
<1> QED BY <1>2, <1>3, <1>4, <1>6

(* The operations that unmap and wait for the tracker.                        *)
LEMMA UnmapMaps ==
  ASSUME Mappable
  PROVE  /\ \A g \in mode.gpus : RemoveGpuVaSpace(g) => MapsInv'
         /\ DisablePeer \/ Kill => MapsInv'
<1>0. TrackInv /\ BlkOK /\ MapsKept(blk) BY DEF Mappable, TrackInv, MapsKept
<1>1. ASSUME NEW kind, NEW x, NEW M, UnmapAndWait(kind, x, M),
             kind = "disable_peer" => \A y \in mode.gpus, p \in Pages : p \notin M[y] =>
               p \in blk.resident[y] \/ \A g \in mode.gpus : p \notin blk.resident[g]
      PROVE  MapsInv'
  <2>1. PICK R : R = Unmapping(M) OBVIOUS
  <2>2. /\ mode' = mode /\ peers' = peers /\ blk' = Bits(blk, R)
        /\ op' = [Idle EXCEPT !.pc = "wait", !.kind = kind, !.who = x]
    BY <1>1, <2>1 DEF UnmapAndWait
  <2>3. Lowers(R) BY <1>0, <2>1, UnmappingLowers
  <2>4. \A y \in Procs : \A p \in DOMAIN R[y] : R[y][p].prot \in 0..3 BY <2>3 DEF Lowers
  <2>5. /\ blk' = [Bits(blk, R) EXCEPT !.tracking = blk.tracking, !.dirty = blk.dirty]
        /\ blk.tracking \in BOOLEAN /\ blk.dirty \in BOOLEAN
    BY <1>0, <2>2, <2>4, FlagsSame
  <2>6. PICK b : b = blk' OBVIOUS
  <2>7. MapsKept(b) /\ Remembered(blk, R, b) /\ Within(b, blk) BY <1>0, <2>3, <2>5, <2>6, LowerMaps
  <2>8. Stored(blk)' /\ Reached(blk)' /\ AtomicsAlone(blk)' BY <2>2, <2>6, <2>7, KeptPrime
  <2>9. op'.pc = "wait" /\ op'.kind = kind BY <2>2 DEF Idle
  <2>10. CASE kind # "disable_peer" BY <2>8, <2>9, <2>10, RestMaps DEF MapsInv
  <2>11. CASE kind = "disable_peer"
    <3>1. blk'.resident = blk.resident BY <2>6, <2>7 DEF Remembered, Recorded
    <3>2. ASSUME NEW y \in mode.gpus, NEW p \in Pages, blk'.prot[y][p] > 0
          PROVE  p \in blk.resident[y] \/ \A g \in mode.gpus : p \notin blk.resident[g]
      <4>1. y \in Procs BY <1>0, ProcFacts DEF TrackInv
      <4>2. b.prot[y][p] = IF p \in DOMAIN R[y] THEN R[y][p].prot ELSE blk.prot[y][p]
        BY <2>7, <4>1 DEF Remembered, Recorded
      <4>3. DOMAIN R[y] = {c \in M[y] : blk.prot[y][c] > 0} /\ \A c \in DOMAIN R[y] : R[y][c].prot = 0
        BY <2>1, <4>1, UnmappingFacts
      <4>4. p \notin M[y] BY <2>6, <3>2, <4>2, <4>3
      <4> QED BY <1>1, <2>11, <3>2, <4>4
    <3>3. mode'.gpus = mode.gpus /\ Pages' = Pages BY <2>2 DEF Pages
    <3>4. UnderwayMaps' BY <2>9, <3>1, <3>2, <3>3 DEF UnderwayMaps, Faulting
    <3> QED BY <2>8, <3>4 DEF MapsInv
  <2> QED BY <2>10, <2>11
<1>2. ASSUME NEW g \in mode.gpus, RemoveGpuVaSpace(g) PROVE MapsInv'
  <2>1. PICK M : UnmapAndWait("remove", g, M) BY <1>2 DEF RemoveGpuVaSpace
  <2> QED BY <1>1, <2>1
<1>3. ASSUME DisablePeer PROVE MapsInv'
  <2>1. PICK M : M = [x \in Procs |-> IF x = "cpu" THEN {}
                                      ELSE (UNION {blk.resident[g] : g \in mode.gpus}) \ blk.resident[x]]
    OBVIOUS
  <2>2. UnmapAndWait("disable_peer", "none", M) BY <1>3, <2>1 DEF DisablePeer
  <2>3. mode.gpus \subseteq Procs /\ "cpu" \notin mode.gpus BY <1>0, ProcFacts DEF TrackInv
  <2>4. ASSUME NEW y \in mode.gpus, NEW p \in Pages, p \notin M[y], NEW g \in mode.gpus, p \in blk.resident[g]
        PROVE  p \in blk.resident[y]
    <3>1. M[y] = (UNION {blk.resident[z] : z \in mode.gpus}) \ blk.resident[y] BY <2>1, <2>3
    <3>2. p \in UNION {blk.resident[z] : z \in mode.gpus} BY <2>4
    <3> QED BY <2>4, <3>1, <3>2
  <2> QED BY <1>1, <2>2, <2>4
<1>4. ASSUME Kill PROVE MapsInv'
  <2>1. PICK M : UnmapAndWait("kill", "none", M) BY <1>4 DEF Kill
  <2> QED BY <1>1, <2>1
<1> QED BY <1>2, <1>3, <1>4

(* A step that moves no page and changes no mapping.                          *)
LEMMA SameMaps ==
  ASSUME Mappable, mode' = mode, peers' = peers, NEW d, d = blk', d.resident = blk.resident, d.prot = blk.prot,
         d.maybe = blk.maybe, Stored(d)
  PROVE  Stored(blk)' /\ Reached(blk)' /\ AtomicsAlone(blk)'
<1>1. \A p : Here(d, p) = Here(blk, p) BY DEF Here
<1>2. Reached(d) BY <1>1 DEF Mappable, Reached
<1>3. AtomicsAlone(d) BY DEF Mappable, AtomicsAlone
<1>4. MapsKept(blk') BY <1>2, <1>3 DEF MapsKept
<1> QED BY <1>4, KeptPrime

(* What an operation knows stays true while it and the block stay the same.   *)
LEMMA SameUnderwayMaps ==
  ASSUME Mappable, UNCHANGED <<mode, peers, blk, op>> PROVE MapsInv'
<1>1. PICK d : d = blk' OBVIOUS
<1>2. Stored(d) BY <1>1 DEF Mappable
<1>3. Stored(blk)' /\ Reached(blk)' /\ AtomicsAlone(blk)' BY <1>1, <1>2, SameMaps
<1>4. /\ Procs' = Procs /\ Pages' = Pages
      /\ \A x : Accessible(x)' = Accessible(x) /\ Native(x)' = Native(x)
  BY TopologySame
<1>5. \A p : ResidentProcs(p)' = ResidentProcs(p) BY <1>4 DEF ResidentProcs
<1>6. \A x : CanCopyFrom(x)' = CanCopyFrom(x) BY DEF CanCopyFrom
<1>7. Staged' = Staged BY <1>5, <1>6 DEF Staged, Missing, P_op
<1>8. \A p : Revoked(p)' <=> Revoked(p) BY <1>4, <1>5 DEF Revoked, OnlyAt, Authorized
<1>9. UnderwayMaps' BY <1>4, <1>7, <1>8 DEF Mappable, UnderwayMaps, Faulting, P_op
<1> QED BY <1>3, <1>9 DEF MapsInv

(* The steps that leave the block's pages and mappings alone.                 *)
LEMMA QuietMaps ==
  ASSUME Mappable
  PROVE  /\ Abandoned \/ HostWrite \/ EvictionMappingsEnd \/ Finalize \/ Execute => MapsInv'
         /\ \A g \in mode.gpus : AddGpuVaSpace(g) => MapsInv'
         /\ \A x \in Procs, p \in Pages : Store(x, p) => MapsInv'
         /\ UNCHANGED vars => MapsInv'
<1>0. TrackInv /\ Stored(blk) BY DEF Mappable
<1>1. ASSUME mode' = mode, peers' = peers, op'.pc = "idle", op'.kind = "none" \/ op' = op,
             blk'.resident = blk.resident, blk'.readdup = blk.readdup,
             blk'.prot = blk.prot, blk'.chunk = blk.chunk, blk'.alloc = blk.alloc, blk'.maybe = blk.maybe
      PROVE  MapsInv'
  <2>1. PICK d : d = blk' OBVIOUS
  <2>2. Stored(d) BY <1>0, <1>1, <2>1, StoredSame
  <2>3. Stored(blk)' /\ Reached(blk)' /\ AtomicsAlone(blk)' BY <1>1, <2>1, <2>2, SameMaps
  <2>4. UnderwayMaps' BY <1>1 DEF UnderwayMaps, Faulting
  <2> QED BY <2>3, <2>4 DEF MapsInv
<1>2. Abandoned \/ HostWrite => MapsInv' BY <1>1 DEF Abandoned, HostWrite, Idle
<1>3. ASSUME EvictionMappingsEnd \/ Finalize PROVE MapsInv'
  <2>1. mode' = mode /\ peers' = peers /\ op' = op /\ op'.pc = "idle" BY <1>3 DEF EvictionMappingsEnd, Finalize, Free
  <2>2. /\ blk'.resident = blk.resident /\ blk'.readdup = blk.readdup /\ blk'.maybe = blk.maybe
        /\ blk'.prot = blk.prot /\ blk'.chunk = blk.chunk /\ blk'.alloc = blk.alloc
    BY <1>0, <1>3 DEF EvictionMappingsEnd, Finalize, TrackInv, BlkOK, Blocks
  <2> QED BY <1>1, <2>1, <2>2
<1>4. Execute => MapsInv' BY SameUnderwayMaps DEF Execute
<1>5. \A g \in mode.gpus : AddGpuVaSpace(g) => MapsInv' BY SameUnderwayMaps DEF AddGpuVaSpace
<1>6. \A x \in Procs, p \in Pages : Store(x, p) => MapsInv' BY SameUnderwayMaps DEF Store
<1>7. UNCHANGED vars => MapsInv' BY SameUnderwayMaps DEF vars
<1> QED BY <1>2, <1>3, <1>4, <1>5, <1>6, <1>7

(* prepare_va_space_for_migration only takes away.                            *)
LEMMA PrepareMaps ==
  ASSUME Mappable, Prepare PROVE MapsInv'
<1>9. PICK late \in SUBSET {g \in mode.gpus : blk.resident[g] # {}} :
        LET R == [x \in Procs |-> IF blk.resident[x] = {} \/ x \in late THEN <<>>
                                  ELSE IF x = "cpu" THEN [p \in {p \in Pages : blk.prot[x][p] > 1} |-> NoPte]
                                  ELSE Revoking(x, Pages, 2)]
        IN  /\ Free /\ mode.track /\ blk' = [Bits(blk, R) EXCEPT !.tracking = TRUE, !.dirty = FALSE]
            /\ hw' = Ptes(hw, R) /\ missed' = late /\ UNCHANGED <<mode, att, peers, op>>
  BY DEF Prepare
<1> DEFINE R == [x \in Procs |-> IF blk.resident[x] = {} \/ x \in late THEN <<>>
                                 ELSE IF x = "cpu" THEN [p \in {p \in Pages : blk.prot[x][p] > 1} |-> NoPte]
                                 ELSE Revoking(x, Pages, 2)]
<1>0. TrackInv /\ BlkOK /\ MapsKept(blk) BY DEF Mappable, TrackInv, MapsKept
<1>1. /\ mode' = mode /\ peers' = peers /\ op' = op /\ op.pc = "idle"
      /\ blk' = [Bits(blk, R) EXCEPT !.tracking = TRUE, !.dirty = FALSE]
  BY <1>9 DEF Free
<1>2. DOMAIN <<>> = {} OBVIOUS
<1>3. ASSUME NEW x \in Procs, NEW p \in DOMAIN R[x]
      PROVE  R[x][p].prot \in 0..2 /\ R[x][p].prot < blk.prot[x][p]
  <2>1. blk.resident[x] # {} /\ x \notin late BY <1>2, <1>3
  <2>2. CASE x = "cpu"
    <3>1. R[x] = [c \in {c \in Pages : blk.prot[x][c] > 1} |-> NoPte] BY <2>1, <2>2
    <3>2. R[x][p] = NoPte /\ p \in Pages /\ blk.prot[x][p] > 1 BY <1>3, <3>1
    <3>3. R[x][p].prot = 0 BY <3>2 DEF NoPte
    <3>4. blk.prot[x][p] \in 0..3 BY <1>0, <3>2 DEF BlkOK, Blocks
    <3> QED BY <3>2, <3>3, <3>4
  <2>3. CASE x # "cpu"
    <3>1. R[x] = Revoking(x, Pages, 2) BY <2>1, <2>3
    <3>2. p \in DOMAIN Revoking(x, Pages, 2) BY <1>3, <3>1
    <3>3. p \in Pages /\ blk.prot[x][p] >= 2 /\ R[x][p].prot = 1 BY <3>1, <3>2, RevokingFacts
    <3>4. blk.prot[x][p] \in 0..3 BY <1>0, <3>3 DEF BlkOK, Blocks
    <3> QED BY <3>3, <3>4
  <2> QED BY <2>2, <2>3
<1> HIDE DEF R
<1>4. Lowers(R) BY <1>3 DEF Lowers
<1>5. PICK b : b = blk' OBVIOUS
<1>6. MapsKept(b) BY <1>0, <1>1, <1>4, <1>5, LowerMaps
<1>7. Stored(blk)' /\ Reached(blk)' /\ AtomicsAlone(blk)' BY <1>1, <1>5, <1>6, KeptPrime
<1>8. UnderwayMaps' BY <1>1 DEF UnderwayMaps, Faulting
<1> QED BY <1>7, <1>8 DEF MapsInv

(* block_populate_pages: memory before the pages, for staging too.            *)
LEMMA PopulateMaps ==
  ASSUME Mappable, Populate PROVE MapsInv'
<1>0. TrackInv /\ BlkOK /\ Stored(blk) BY DEF Mappable, TrackInv
<1>1. mode' = mode /\ peers' = peers /\ op' = [op EXCEPT !.pc = "copy"] /\ op.pc = "populate"
  BY DEF Populate
<1>2. PICK c, a : /\ blk' = [blk EXCEPT !.chunk = c, !.alloc = a]
                  /\ blk.chunk \subseteq c /\ blk.alloc \subseteq a /\ Staged \subseteq a
  <2>1. CASE op.dst = "cpu"
    <3>1. blk' = [blk EXCEPT !.alloc = @ \cup Missing] BY <2>1 DEF Populate, PopulateCpu
    <3>2. blk' = [blk EXCEPT !.chunk = blk.chunk, !.alloc = blk.alloc \cup Missing] BY <1>0, <3>1 DEF BlkOK, Blocks
    <3>3. Staged = {} BY <2>1 DEF Staged
    <3> QED BY <3>2, <3>3
  <2>2. CASE op.dst # "cpu" /\ op.dst \in blk.chunk
    <3>1. blk' = [blk EXCEPT !.alloc = @ \cup Staged] BY <2>2 DEF Populate, PopulateGpu
    <3>2. PICK A : A = blk.alloc \cup Staged OBVIOUS
    <3>3. blk' = [blk EXCEPT !.chunk = blk.chunk, !.alloc = A] BY <1>0, <3>1, <3>2 DEF BlkOK, Blocks
    <3>4. blk.alloc \subseteq A /\ Staged \subseteq A BY <3>2
    <3> QED BY <3>3, <3>4
  <2>3. CASE op.dst # "cpu" /\ op.dst \notin blk.chunk
    <3>1. PICK A, C : A = blk.alloc \cup Staged /\ C = blk.chunk \cup {op.dst} OBVIOUS
    <3>2. blk' = [blk EXCEPT !.chunk = C, !.alloc = A] BY <2>3, <3>1 DEF Populate, PopulateGpu
    <3>3. blk.alloc \subseteq A /\ Staged \subseteq A /\ blk.chunk \subseteq C BY <3>1
    <3> QED BY <3>2, <3>3
  <2> QED BY <2>1, <2>2, <2>3
<1>3. PICK d : d = blk' OBVIOUS
<1>4. /\ d.resident = blk.resident /\ d.prot = blk.prot /\ d.readdup = blk.readdup
      /\ d.maybe = blk.maybe /\ d.chunk = c /\ d.alloc = a
  BY <1>0, <1>2, <1>3 DEF BlkOK, Blocks
<1>5. Stored(d) BY <1>0, <1>2, <1>4, StoredSame
<1>6. Stored(blk)' /\ Reached(blk)' /\ AtomicsAlone(blk)' BY <1>1, <1>3, <1>4, <1>5, SameMaps
<1>7. /\ op'.pc = "copy" /\ op'.kind = op.kind /\ op'.who = op.who /\ op'.acc = op.acc
      /\ op'.dst = op.dst /\ op'.dup = op.dup
  BY <1>0, <1>1 DEF TrackInv, OpOK
<1>8. /\ Procs' = Procs /\ Pages' = Pages
      /\ \A x : Accessible(x)' = Accessible(x) /\ Native(x)' = Native(x)
  BY <1>1, TopologySame
<1>9. Staged' = Staged
  <2>1. \A p : ResidentProcs(p)' = ResidentProcs(p) BY <1>3, <1>4, <1>8 DEF ResidentProcs
  <2>2. \A x : CanCopyFrom(x)' = CanCopyFrom(x) BY <1>1 DEF CanCopyFrom
  <2>3. Missing' = Missing BY <1>3, <1>4, <1>7 DEF Missing, P_op
  <2> QED BY <1>7, <2>1, <2>2, <2>3 DEF Staged
<1>10. Staged' \subseteq blk'.alloc BY <1>2, <1>3, <1>4, <1>9
<1>11. UnderwayMaps
  BY DEF Mappable
<1>12. UnderwayMaps' BY <1>1, <1>3, <1>4, <1>7, <1>8, <1>10, <1>11 DEF UnderwayMaps, Faulting, P_op
<1> QED BY <1>6, <1>12 DEF MapsInv

(* uvm_va_block_evict_chunks, at its end: the GPU has no page.                *)
LEMMA FreeChunkMaps ==
  ASSUME Mappable, FreeChunk PROVE MapsInv'
<1>0. TrackInv /\ Underway /\ Stored(blk) BY DEF Mappable
<1>1. /\ op.pc = "free" /\ mode' = mode /\ peers' = peers /\ op'.pc = "idle"
      /\ blk' = [blk EXCEPT !.chunk = @ \ {op.who}, !.evq = @ \/ mode.by # {} \/ mode.evmap]
  BY DEF FreeChunk, Idle
<1>2. blk.resident[op.who] = {} BY <1>0, <1>1 DEF Underway
<1>3. PICK d : d = blk' OBVIOUS
<1>4. /\ d.prot = blk.prot /\ d.alloc = blk.alloc /\ d.chunk = blk.chunk \ {op.who}
      /\ d.resident = blk.resident /\ d.readdup = blk.readdup /\ d.maybe = blk.maybe
  BY <1>0, <1>1, <1>3 DEF TrackInv, BlkOK, Blocks
<1>5. \A p : Here(d, p) = Here(blk, p) BY <1>4 DEF Here
<1>6. Stored(d) BY <1>0, <1>2, <1>4, <1>5 DEF Stored
<1>7. Stored(blk)' /\ Reached(blk)' /\ AtomicsAlone(blk)' BY <1>1, <1>3, <1>4, <1>6, SameMaps
<1>8. UnderwayMaps' BY <1>1 DEF UnderwayMaps, Faulting
<1> QED BY <1>7, <1>8 DEF MapsInv

(* block_destroy_gpu_state: duplicated are the pages that have two copies.    *)
LEMMA DestroyMaps ==
  ASSUME Mappable, DestroyGpuState PROVE MapsInv'
<1>0. TrackInv /\ Underway /\ Stored(blk) BY DEF Mappable
<1>1. PICK g : g = op.who OBVIOUS
<1>3. PICK D : D = {p \in Pages : \E x, y \in Procs \ {g} : x # y /\ p \in blk.resident[x] \cap blk.resident[y]}
  OBVIOUS
<1>4. /\ op.pc = "destroy" /\ mode' = mode /\ peers' = peers /\ op' = [op EXCEPT !.pc = "wait"]
      /\ blk' = [blk EXCEPT !.resident[g] = {}, !.readdup = D, !.chunk = @ \ {g}, !.evicted[g] = {}]
  BY <1>1, <1>3 DEF DestroyGpuState
<1>5. g \in mode.gpus /\ blk.resident[g] = {} /\ g \in Procs /\ op.kind = "unregister"
  <2>1. g \in mode.gpus /\ blk.resident[g] = {} /\ op.kind = "unregister" BY <1>0, <1>1, <1>4 DEF TrackInv, OpOK
  <2> QED BY <1>0, <2>1, ProcFacts DEF TrackInv
<1>6. PICK d : d = blk' OBVIOUS
<1>7. /\ d.prot = blk.prot /\ d.alloc = blk.alloc /\ d.chunk = blk.chunk \ {g} /\ d.maybe = blk.maybe
      /\ d.resident = [blk.resident EXCEPT ![g] = {}] /\ d.readdup = D
  BY <1>0, <1>4, <1>6 DEF TrackInv, BlkOK, Blocks
<1>8. d.resident = blk.resident
  <2>1. blk.resident \in [Procs -> SUBSET Pages] BY <1>0 DEF TrackInv, BlkOK, Blocks
  <2> QED BY <1>5, <1>7, <2>1
<1>9. \A p : Here(d, p) = Here(blk, p) BY <1>8 DEF Here
<1>10. \A p \in D : Here(blk, p) # {} BY <1>3 DEF Here
<1>11. Stored(d) BY <1>0, <1>5, <1>7, <1>8, <1>9, <1>10 DEF Stored
<1>12. Stored(blk)' /\ Reached(blk)' /\ AtomicsAlone(blk)' BY <1>4, <1>6, <1>7, <1>8, <1>11, SameMaps
<1>13. op'.pc = "wait" /\ op'.kind = "unregister" BY <1>0, <1>4, <1>5 DEF TrackInv, OpOK
<1>14. UnderwayMaps' BY <1>13, RestMaps
<1> QED BY <1>12, <1>14 DEF MapsInv

(* uvm_va_block_disable_peer has unmapped what one GPU has of another's       *)
(* memory: nobody misses the link.                                            *)
LEMMA PeersGone ==
  ASSUME Mappable, op.pc = "wait", op.kind = "disable_peer", mode' = mode, blk' = blk, ~peers', op'.pc = "idle"
  PROVE  MapsInv'
<1>0. TrackInv /\ Stored(blk) /\ Reached(blk) /\ AtomicsAlone(blk) /\ UnderwayMaps /\ Backed(blk)
  BY DEF Mappable, InOrder
<1>1. Procs' = Procs /\ Pages' = Pages BY DEF Procs, Pages
<1>2. \A p : Here(blk, p)' = Here(blk, p) BY <1>1 DEF Here
<1>3. "cpu" \notin mode.gpus /\ Procs = {"cpu"} \cup mode.gpus BY <1>0, ProcFacts DEF TrackInv
<1>4. \A x \in mode.gpus, p \in Pages :
        blk.prot[x][p] > 0 => p \in blk.resident[x] \/ \A g \in mode.gpus : p \notin blk.resident[g]
  BY <1>0 DEF UnderwayMaps
<1>5. \A y \in Procs, x \in Procs : x \in Accessible(y)' <=> x = y \/ (y = "cpu" /\ mode.sysmem)
  BY <1>1 DEF Accessible
<1>6. ASSUME NEW x \in Procs, NEW p \in Pages, blk.prot[x][p] > 0, NEW y \in Here(blk, p), x \in Accessible(y)
      PROVE  x \in Accessible(y)' \/ x \in Here(blk, p)
  <2>0. y \in Procs /\ p \in blk.resident[y] BY <1>6 DEF Here
  <2>1. x = y \/ (y = "cpu" /\ mode.sysmem) \/ (y # "cpu" /\ x # "cpu") BY <1>6 DEF Accessible
  <2>2. CASE y # "cpu" /\ x # "cpu"
    <3>1. x \in mode.gpus /\ y \in mode.gpus BY <1>3, <2>0, <2>2
    <3>2. p \in blk.resident[x] BY <1>4, <1>6, <2>0, <3>1
    <3> QED BY <3>2 DEF Here
  <2> QED BY <1>5, <2>0, <2>1, <2>2
<1>7. Reached(blk)'
  <2> SUFFICES ASSUME NEW x \in Procs, NEW p \in Pages, blk.prot[x][p] > 0
               PROVE  p \in blk.maybe /\ \E y \in Here(blk, p) : x \in Accessible(y)'
    BY <1>1, <1>2 DEF Reached
  <2>1. PICK y \in Here(blk, p) : p \in blk.maybe /\ x \in Accessible(y) BY <1>0 DEF Reached
  <2>2. x \in Accessible(y)' \/ x \in Here(blk, p) BY <1>6, <2>1
  <2>3. x \in Accessible(x)' BY <1>5
  <2> QED BY <2>1, <2>2, <2>3
<1>8. AtomicsAlone(blk)'
  <2> SUFFICES ASSUME ~mode.rd, ~mode.track, NEW p \in Pages, NEW y \in Procs, NEW x \in Procs, NEW z \in Procs,
                      p \in blk.resident[y], blk.prot[x][p] = 3, x \notin Native(y)', z # x
               PROVE  blk.prot[z][p] < 2
    BY <1>1 DEF AtomicsAlone
  <2>1. PICK h \in Procs : Aimed(blk, x, p, [prot |-> blk.prot[x][p], to |-> h]) BY <1>0 DEF Backed
  <2>2. Here(blk, p) = {h} BY <2>1 DEF Aimed
  <2>3. h = y BY <2>2 DEF Here
  <2>4. x \in Accessible(y) BY <1>0, <2>2, <2>3 DEF Reached
  <2>5. x \in Accessible(y)' \/ x = y BY <1>6, <2>2, <2>3, <2>4
  <2>6. x \in Accessible(y)' BY <1>5, <2>5
  <2>7. x # y /\ y = "cpu" BY <1>5, <2>6 DEF Native
  <2>8. x \notin Native(y) BY <2>7 DEF Native
  <2> QED BY <1>0, <2>8 DEF AtomicsAlone
<1>9. Stored(blk)' BY <1>0, <1>2 DEF Stored
<1>10. UnderwayMaps' BY DEF UnderwayMaps, Faulting
<1> QED BY <1>7, <1>8, <1>9, <1>10 DEF MapsInv

(* The tracker is done.                                                       *)
LEMMA WaitedMaps ==
  ASSUME Mappable, Waited PROVE MapsInv'
<1>0. TrackInv /\ Stored(blk) /\ Reached(blk) /\ AtomicsAlone(blk) BY DEF Mappable
<1>1. op.pc = "wait" /\ mode' = mode /\ op'.pc = "idle" /\ peers' = (peers /\ op.kind # "disable_peer")
  BY DEF Waited, Idle
<1>2. UnderwayMaps' BY <1>1 DEF UnderwayMaps, Faulting
<1>3. CASE op.kind = "disable_peer"
  <2>1. blk' = blk BY <1>3 DEF Waited
  <2> QED BY <1>1, <1>3, <2>1, PeersGone
<1>4. CASE op.kind \notin {"disable_peer", "kill"}
  <2>1. blk' = blk BY <1>4 DEF Waited
  <2>2. peers' = peers BY <1>0, <1>1, <1>4 DEF TrackInv, BlkOK
  <2>3. PICK d : d = blk' OBVIOUS
  <2>4. Stored(blk)' /\ Reached(blk)' /\ AtomicsAlone(blk)' BY <1>0, <1>1, <2>1, <2>2, <2>3, SameMaps
  <2> QED BY <1>2, <2>4 DEF MapsInv
<1>5. CASE op.kind = "kill"
  <2>1. PICK E, X : E = [x \in Procs |-> {}] /\ X = [g \in mode.gpus |-> {}] OBVIOUS
  <2>2. blk' = [blk EXCEPT !.dead = TRUE, !.chunk = {}, !.alloc = {}, !.readdup = {}, !.resident = E, !.evicted = X]
    BY <1>5, <2>1 DEF Waited
  <2>3. blk'.readdup = {} /\ blk'.resident = E /\ blk'.prot = blk.prot /\ blk'.alloc = {}
    BY <1>0, <2>2 DEF TrackInv, BlkOK, Blocks
  <2>4. \A x \in Procs, p \in Pages : blk.prot[x][p] = 0 BY <1>0, <1>1, <1>5 DEF TrackInv, OpOK
  <2>5. Procs' = Procs /\ Pages' = Pages BY <1>1 DEF Procs, Pages
  <2>6. Reached(blk)' BY <2>3, <2>4, <2>5 DEF Reached
  <2>7. AtomicsAlone(blk)' BY <2>3, <2>4, <2>5 DEF AtomicsAlone
  <2>8. Stored(blk)'
    <3>1. mode.gpus \subseteq Procs /\ "cpu" \in Procs BY <1>0, ProcFacts DEF TrackInv
    <3>2. \A x \in Procs : blk'.resident[x] = {} BY <2>1, <2>3
    <3> QED BY <1>1, <2>3, <3>1, <3>2 DEF Stored
  <2> QED BY <1>2, <2>6, <2>7, <2>8 DEF MapsInv
<1> QED BY <1>3, <1>4, <1>5

(* block_make_resident_update_state forgets who had mapped the pages copied.  *)
LEMMA CopyMaybe ==
  ASSUME BlkOK, Copy
  PROVE  blk'.maybe = IF op.dup THEN blk.maybe ELSE blk.maybe \ {p \in Missing : ResidentProcs(p) # {}}
<1>0. PICK M, S : M = {p \in Missing : ResidentProcs(p) # {}} /\ S = {Source(p) : p \in M} OBVIOUS
<1>1. blk' = IF op.dup THEN DupFinish(M) ELSE MoveFinish(M, S) BY <1>0 DEF Copy
<1>2. CASE op.dup
  <2>1. PICK R, D, E : DupFinish(M) = [blk EXCEPT !.resident = R, !.readdup = D, !.evicted = E] BY DEF DupFinish
  <2> QED BY <1>1, <1>2, <2>1 DEF BlkOK, Blocks
<1>3. CASE ~op.dup
  <2>1. PICK m : m = blk.maybe \ M OBVIOUS
  <2>2. PICK R, E : UpdateState(blk, M, S) = [blk EXCEPT !.resident = R, !.maybe = m, !.evicted = E]
    BY <2>1 DEF UpdateState
  <2>3. PICK u : u = UpdateState(blk, M, S) OBVIOUS
  <2>4. u.maybe = m /\ u = [blk EXCEPT !.resident = R, !.maybe = m, !.evicted = E] BY <2>2, <2>3 DEF BlkOK, Blocks
  <2>5. PICK f : f = FirstTouch(u, P_op) OBVIOUS
  <2>6. PICK Q : f = [u EXCEPT !.resident = Q] BY <2>5 DEF FirstTouch
  <2>7. f.maybe = m BY <2>4, <2>6 DEF BlkOK, Blocks
  <2>8. PICK D, V : BreakReadDuplication(f) = [f EXCEPT !.readdup = D, !.resident = V] BY DEF BreakReadDuplication
  <2>9. BreakReadDuplication(f).maybe = m BY <2>4, <2>6, <2>8 DEF BlkOK, Blocks
  <2>10. blk' = BreakReadDuplication(f) BY <1>1, <1>3, <2>3, <2>5 DEF MoveFinish
  <2> QED BY <1>0, <1>3, <2>1, <2>9, <2>10
<1> QED BY <1>2, <1>3

(* The residency an operation leaves has memory, and who mapped a page and    *)
(* did not lose it can reach it still.                                        *)
LEMMA CopyKept ==
  ASSUME Mappable, op.pc = "copy", NEW b, Placement(b), b.readdup \subseteq Pages,
         \A x \in Procs : b.resident[x] \subseteq Pages,
         b.maybe = IF op.dup THEN blk.maybe ELSE blk.maybe \ {p \in Missing : ResidentProcs(p) # {}}
  PROVE  MapsKept(b)
<1>0. /\ TrackInv /\ BlkOK /\ Placed /\ Underway /\ Stored(blk) /\ Reached(blk) /\ AtomicsAlone(blk) /\ UnderwayMaps
      /\ Backed(blk) /\ mode \in Modes
  BY DEF Mappable, TrackInv, InOrder
<1>1. op.dst \in Procs /\ P_op \subseteq Pages BY <1>0 DEF TrackInv, OpOK, P_op
<1>2. "cpu" \notin mode.gpus /\ "cpu" \in Procs /\ mode.gpus \subseteq Procs BY <1>0, ProcFacts
<1>3. /\ b.prot = blk.prot /\ b.chunk = blk.chunk /\ b.alloc = blk.alloc
      /\ \A p \in Pages \ P_op : Here(b, p) = Here(blk, p)
      /\ \A p \in P_op : IF op.dup THEN Here(b, p) = Here(blk, p) \cup {op.dst} \cup (IF p \in Staged THEN {"cpu"} ELSE {})
                         ELSE Here(b, p) = {op.dst}
  BY DEF Placement
<1>4. \/ op.dst = "cpu" /\ Missing \subseteq blk.alloc
      \/ op.dst \in blk.chunk
      \/ Missing = {}
  BY <1>0 DEF Underway
<1>5. ASSUME NEW y \in Procs, NEW p \in Pages, y \in Here(b, p)
      PROVE  \/ y \in Here(blk, p)
             \/ y = op.dst /\ p \in Missing
             \/ y = "cpu" /\ p \in Staged
  <2>1. CASE p \notin P_op BY <1>3, <1>5, <2>1
  <2>2. CASE p \in P_op
    <3>1. p \in Missing \/ op.dst \in Here(blk, p) BY <1>1, <2>2 DEF Missing, Here
    <3>2. y \in Here(blk, p) \/ y = op.dst \/ (y = "cpu" /\ p \in Staged) BY <1>3, <1>5, <2>2
    <3> QED BY <3>1, <3>2
  <2> QED BY <2>1, <2>2
<1>6. blk.chunk \subseteq mode.gpus /\ \A x \in Procs : blk.resident[x] \subseteq Pages BY <1>0 DEF BlkOK, Blocks
<1>7. \A x \in Procs : \A p \in Pages : p \in b.resident[x] <=> x \in Here(b, p) BY DEF Here
<1>8. \A x \in Procs : \A p \in Pages : p \in blk.resident[x] <=> x \in Here(blk, p) BY DEF Here
<1>9. Stored(b)
  <2>1. ASSUME NEW p \in b.readdup PROVE Here(b, p) # {}
    <3>1. CASE p \in P_op
      <4>1. op.dst \in Here(b, p) BY <1>3, <3>1
      <4> QED BY <4>1
    <3>2. CASE p \notin P_op
      <4>1. p \in Pages BY <2>1
      <4>2. p \in blk.readdup BY <2>1, <3>2, <4>1 DEF Placement
      <4> QED BY <1>0, <1>3, <3>2, <4>1, <4>2 DEF Stored
    <3> QED BY <3>1, <3>2
  <2>2. ASSUME NEW g \in mode.gpus, NEW p \in Pages, p \in b.resident[g] PROVE g \in b.chunk
    <3>1. g # "cpu" /\ g \in Procs BY <1>2
    <3>2. g \in Here(blk, p) \/ (g = op.dst /\ p \in Missing) BY <1>5, <1>7, <2>2, <3>1
    <3>3. CASE g \in Here(blk, p) BY <1>0, <1>3, <1>8, <3>1, <3>3 DEF Stored
    <3>4. CASE g = op.dst /\ p \in Missing BY <1>3, <1>4, <3>1, <3>4
    <3> QED BY <3>2, <3>3, <3>4
  <2>3. ASSUME NEW p \in Pages, p \in b.resident["cpu"] PROVE p \in b.alloc
    <3>1. "cpu" \in Here(blk, p) \/ ("cpu" = op.dst /\ p \in Missing) \/ p \in Staged BY <1>2, <1>5, <1>7, <2>3
    <3>2. CASE "cpu" \in Here(blk, p) BY <1>0, <1>2, <1>3, <1>8, <3>2 DEF Stored
    <3>3. CASE "cpu" = op.dst /\ p \in Missing BY <1>2, <1>3, <1>4, <1>6, <3>3
    <3>4. CASE p \in Staged BY <1>0, <1>3, <3>4 DEF UnderwayMaps
    <3> QED BY <3>1, <3>2, <3>3, <3>4
  <2> QED BY <1>2, <2>1, <2>2, <2>3 DEF Stored
<1>10. ASSUME NEW x \in Procs, NEW p \in P_op, blk.prot[x][p] > 0, ~op.dup
       PROVE  p \notin Missing /\ op.dst \in Here(blk, p) /\ (x # op.dst => Here(blk, p) = {op.dst})
  <2>1. p \in Missing \/ (p \in blk.readdup /\ x # op.dst) => blk.prot[x][p] = 0 BY <1>0, <1>10 DEF Underway
  <2>2. p \notin Missing BY <1>10, <2>1
  <2>3. op.dst \in Here(blk, p) BY <1>1, <1>10, <2>2 DEF Missing, Here
  <2>4. ASSUME x # op.dst PROVE Here(blk, p) = {op.dst}
    <3>1. p \notin blk.readdup BY <1>10, <2>1, <2>4
    <3> QED BY <1>0, <2>3, <3>1, HereFacts, SoleCopy
  <2> QED BY <2>2, <2>3, <2>4
<1>11. Reached(b)
  <2> SUFFICES ASSUME NEW x \in Procs, NEW p \in Pages, blk.prot[x][p] > 0
               PROVE  p \in b.maybe /\ \E y \in Here(b, p) : x \in Accessible(y)
    BY <1>3 DEF Reached
  <2>1. PICK y \in Here(blk, p) : p \in blk.maybe /\ x \in Accessible(y) BY <1>0 DEF Reached
  <2>2. CASE p \notin P_op
    <3>1. p \in b.maybe BY <2>1, <2>2 DEF Missing
    <3> QED BY <1>3, <2>1, <2>2, <3>1
  <2>3. CASE p \in P_op /\ op.dup
    <3>1. p \in b.maybe BY <2>1, <2>3
    <3>2. y \in Here(b, p) BY <1>3, <2>1, <2>3
    <3> QED BY <2>1, <3>1, <3>2
  <2>4. CASE p \in P_op /\ ~op.dup
    <3>1. p \notin Missing /\ (x # op.dst => Here(blk, p) = {op.dst}) BY <1>10, <2>4
    <3>2. p \in b.maybe BY <2>1, <2>4, <3>1
    <3>3. x \in Accessible(op.dst)
      <4>1. CASE x = op.dst BY <4>1 DEF Accessible
      <4>2. CASE x # op.dst BY <2>1, <3>1, <4>2
      <4> QED BY <4>1, <4>2
    <3>4. op.dst \in Here(b, p) BY <1>3, <2>4
    <3> QED BY <3>2, <3>3, <3>4
  <2> QED BY <2>2, <2>3, <2>4
<1>12. AtomicsAlone(b)
  <2> SUFFICES ASSUME ~mode.rd, ~mode.track, NEW p \in Pages, NEW y \in Procs, NEW x \in Procs, NEW z \in Procs,
                      p \in b.resident[y], blk.prot[x][p] = 3, x \notin Native(y), z # x
               PROVE  blk.prot[z][p] < 2
    BY <1>3 DEF AtomicsAlone
  <2>1. ~op.dup BY <1>0 DEF Underway
  <2>2. y \in Here(b, p) BY <1>7
  <2>3. y \in Here(blk, p)
    <3>1. CASE p \notin P_op BY <1>3, <2>2, <3>1
    <3>2. CASE p \in P_op
      <4>1. y = op.dst BY <1>3, <2>1, <2>2, <3>2
      <4>2. blk.prot[x][p] > 0 OBVIOUS
      <4>3. op.dst \in Here(blk, p) BY <1>10, <2>1, <3>2, <4>2
      <4> QED BY <4>1, <4>3
    <3> QED BY <3>1, <3>2
  <2>4. p \in blk.resident[y] BY <1>8, <2>3
  <2> QED BY <1>0, <2>4 DEF AtomicsAlone
<1> QED BY <1>9, <1>11, <1>12 DEF MapsKept

(* The copies and the new residency: what moved is mapped by nobody.          *)
LEMMA CopyMaps ==
  ASSUME Mappable, Copy PROVE MapsInv'
<1>0. /\ TrackInv /\ BlkOK /\ Underway /\ Stored(blk) /\ Reached(blk) /\ UnderwayMaps /\ mode \in Modes
  BY DEF Mappable, TrackInv
<1>1. mode' = mode /\ peers' = peers /\ op.pc = "copy" BY DEF Copy
<1>2. PICK b : b = blk' OBVIOUS
<1>3. Placement(b) BY <1>0, <1>2, CopyPlacement
<1>4. b.maybe = IF op.dup THEN blk.maybe ELSE blk.maybe \ {p \in Missing : ResidentProcs(p) # {}}
  BY <1>0, <1>2, CopyMaybe
<1>5. b.readdup \subseteq Pages /\ \A x \in Procs : b.resident[x] \subseteq Pages
  <2>1. TrackInv' BY <1>0, CopyStep
  <2>2. b \in Blocks' BY <1>2, <2>1 DEF TrackInv, BlkOK
  <2>3. Procs' = Procs /\ Pages' = Pages BY <1>1 DEF Procs, Pages
  <2> QED BY <2>2, <2>3 DEF Blocks
<1>6. MapsKept(b) BY <1>1, <1>3, <1>4, <1>5, CopyKept
<1>7. Stored(blk)' /\ Reached(blk)' /\ AtomicsAlone(blk)' BY <1>1, <1>2, <1>6, KeptPrime
<1>8. PICK u : u = IF op.dup THEN Missing \ {p \in Missing : ResidentProcs(p) # {}} ELSE Missing OBVIOUS
<1>10. /\ op'.pc = After(op.kind) /\ op'.kind = op.kind /\ op'.who = op.who /\ op'.acc = op.acc
       /\ op'.dst = op.dst /\ op'.moved = u
  <2>1. PICK v : op' = [op EXCEPT !.pc = After(op.kind), !.moved = u, !.wait = v] BY <1>8 DEF Copy
  <2>2. PICK a : a = After(op.kind) OBVIOUS
  <2>3. op' = [op EXCEPT !.pc = a, !.moved = u, !.wait = v] BY <2>1, <2>2
  <2>4. op = [pc |-> op.pc, kind |-> op.kind, who |-> op.who, acc |-> op.acc, dst |-> op.dst,
              dup |-> op.dup, moved |-> op.moved, np |-> op.np, wait |-> op.wait]
    BY <1>0 DEF TrackInv, OpOK
  <2>5. op'.pc = a /\ op'.kind = op.kind /\ op'.who = op.who /\ op'.acc = op.acc
        /\ op'.dst = op.dst /\ op'.moved = u
    BY <2>3, <2>4
  <2> QED BY <2>2, <2>5
<1>11. op.kind \in {"fault", "evict", "host", "unregister"} BY <1>0, <1>1 DEF TrackInv, OpOK
<1>12. CASE op.kind # "fault"
  <2>1. op'.pc \in {"free", "write", "destroy"} BY <1>10, <1>11, <1>12 DEF After
  <2>2. op'.kind # "disable_peer" BY <1>10, <1>11
  <2> QED BY <1>7, <2>1, <2>2, RestMaps DEF MapsInv
<1>13. CASE op.kind = "fault"
  <2>1. op'.pc = "revoke" BY <1>10, <1>13 DEF After
  <2>2. /\ op.who \in Accessible(op.dst)
        /\ \A p \in P_op : blk.prot[op.who][p] < op.acc[p]
    BY <1>0, <1>1, <1>13 DEF UnderwayMaps, Faulting
  <2>3. blk'.prot = blk.prot BY <1>2, <1>3 DEF Placement
  <2>4. /\ Procs' = Procs /\ \A x : Accessible(x)' = Accessible(x) BY <1>1, TopologySame
  <2>5. ASSUME NEW p \in u, NEW x \in Procs PROVE blk.prot[x][p] = 0
    <3>0. p \in Pages /\ p \in P_op /\ p \in Missing BY <1>0, <1>1, <1>8, <2>5 DEF TrackInv, OpOK, Missing, P_op
    <3>1. CASE ~op.dup BY <1>0, <1>1, <3>0, <3>1 DEF Underway
    <3>2. CASE op.dup
      <4>1. Here(blk, p) = {} BY <1>8, <2>5, <3>2, HereFacts
      <4>2. blk.prot[x][p] \in 0..3 BY <1>0, <3>0 DEF BlkOK, Blocks
      <4> QED BY <1>0, <3>0, <4>1, <4>2 DEF Reached
    <3> QED BY <3>1, <3>2
  <2>6. UnderwayMaps' BY <1>10, <2>1, <2>2, <2>3, <2>4, <2>5 DEF UnderwayMaps, Faulting, P_op
  <2> QED BY <1>7, <2>6 DEF MapsInv
<1> QED BY <1>12, <1>13

(* Who must lose a permission to a fault does.                                *)
LEMMA RevocationTakes ==
  ASSUME NEW np, NEW y \in Procs, NEW p \in P_op \ op.moved, np[p] \in {2, 3}, y # op.who,
         np[p] = 2 \/ op.who \in Native(op.dst) => y \notin Native(op.dst),
         NEW l \in {2, 3}, l = IF op.who = "cpu" \/ np[p] = 2 THEN 3 ELSE 2,
         blk.prot[y][p] >= l, ~(y = "cpu" /\ l = 3)
  PROVE  p \in DOMAIN Revocation(np)[y] /\ Revocation(np)[y][p].prot = l - 1
<1> DEFINE stay(n) == {c \in P_op \ op.moved : np[c] = n}
           native == op.who \in Native(op.dst)
           loses(z, n) == z # op.who /\ (n = 2 \/ native => z \notin Native(op.dst))
           level(n) == IF op.who = "cpu" \/ n = 2 THEN 3 ELSE 2
           dom(z) == UNION {DOMAIN Revoking(z, stay(n), level(n)) : n \in {n \in {2, 3} : loses(z, n)}}
           V == [z \in Procs |-> [c \in dom(z) |-> Revoking(z, {c}, level(np[c]))[c]]]
<1>1. Revocation(np) = V BY DEF Revocation
<1>2. PICK n \in {2, 3} : n = np[p] OBVIOUS
<1>3. loses(y, n) /\ level(n) = l /\ p \in stay(n) BY <1>2
<1>4. p \in DOMAIN Revoking(y, stay(n), level(n))
  <2>1. PICK Q : Q = stay(n) OBVIOUS
  <2>2. p \in DOMAIN Revoking(y, Q, l) BY <1>3, <2>1 DEF Revoking
  <2> QED BY <1>3, <2>1, <2>2
<1>5. p \in dom(y) BY <1>3, <1>4
<1>6. p \in DOMAIN V[y] /\ V[y][p] = Revoking(y, {p}, level(np[p]))[p] BY <1>5
<1>7. Revoking(y, {p}, l)[p].prot = l - 1
  <2>1. p \in DOMAIN Revoking(y, {p}, l) BY DEF Revoking
  <2> QED BY <2>1, RevokingFacts
<1> HIDE DEF V, dom
<1> QED BY <1>1, <1>2, <1>3, <1>6, <1>7

(* The CPU reaches no memory but its own.                                     *)
LEMMA CpuReach ==
  ASSUME NEW y, "cpu" \in Accessible(y) PROVE y = "cpu" /\ "cpu" \in Native(y)
<1>1. y = "cpu" BY DEF Accessible
<1> QED BY <1>1 DEF Native

(* What compute_new_permission returns.                                       *)
LEMMA NewPermissionFacts ==
  ASSUME NEW p, op.acc[p] \in 0..3
  PROVE  /\ NewPermission(p) \in 0..3
         /\ NewPermission(p) = 2 => op.who \notin Native(op.dst)
  BY DEF NewPermission

(* The permissions of a fault: before a page is mapped writable, or for       *)
(* atomics, those who cannot keep theirs beside it have lost them.            *)
LEMMA RevokeTakes ==
  ASSUME Mappable, op.pc = "revoke", ~mode.rd, ~mode.track, NEW p \in P_op, NEW np, np = [c \in P_op |-> NewPermission(c)],
         np[p] >= 2, NEW R, R = Revocation(np), NEW b, Remembered(blk, R, b), Within(b, blk)
  PROVE  LET native == Native(op.dst)
         IN  /\ OnlyAt(p, op.dst)
             /\ np[p] = 2 => op.who \notin native
             /\ np[p] = 2 \/ op.who \in native => {x \in Procs : b.prot[x][p] >= 3} \subseteq native
             /\ np[p] = 3 /\ op.who \notin native => {x \in Procs : b.prot[x][p] >= 2} \subseteq {op.who}
<1>0. /\ TrackInv /\ BlkOK /\ Underway /\ Reached(blk) /\ UnderwayMaps
  BY DEF Mappable, TrackInv
<1>1. op.who \in Procs /\ P_op \subseteq Pages BY <1>0 DEF TrackInv, OpOK, P_op
<1>2. op.acc[p] \in 0..3 /\ OnlyAt(p, op.dst) /\ op.dst \in Procs BY <1>0 DEF Underway
<1>3. np[p] = NewPermission(p) OBVIOUS
<1>4. np[p] \in {2, 3} /\ (np[p] = 2 => op.who \notin Native(op.dst)) BY <1>2, <1>3, NewPermissionFacts
<1>5. /\ op.who \in Accessible(op.dst) /\ blk.prot[op.who][p] < op.acc[p]
      /\ \A c \in op.moved, x \in Procs : blk.prot[x][c] = 0
  BY <1>0 DEF UnderwayMaps, Faulting
<1>6. \A x \in Procs : blk.prot[x][p] \in 0..3 BY <1>0, <1>1 DEF BlkOK, Blocks
<1>7. \A x \in Procs : /\ b.prot[x][p] = IF p \in DOMAIN R[x] THEN R[x][p].prot ELSE blk.prot[x][p]
                       /\ b.prot[x][p] <= blk.prot[x][p] /\ b.prot[x][p] \in 0..3
  BY <1>1 DEF Remembered, Recorded, Within
<1>8. ASSUME NEW x \in Procs, blk.prot[x][p] > 0 PROVE x \in Accessible(op.dst) /\ p \notin op.moved
  <2>1. Here(blk, p) = {op.dst} BY <1>2, HereFacts DEF OnlyAt
  <2>2. x \in Accessible(op.dst) BY <1>0, <1>1, <1>8, <2>1 DEF Reached
  <2> QED BY <1>5, <1>8, <2>2
<1>9. ASSUME NEW x \in Procs, b.prot[x][p] >= 3, np[p] = 2 \/ op.who \in Native(op.dst), x \notin Native(op.dst)
      PROVE  FALSE
  <2>1. blk.prot[x][p] = 3 BY <1>6, <1>7, <1>9
  <2>2. x # op.who
    <3> SUFFICES ASSUME x = op.who PROVE FALSE OBVIOUS
    <3>1. blk.prot[op.who][p] = 3 BY <2>1
    <3> QED BY <1>2, <1>5, <3>1
  <2>3. blk.prot[x][p] > 0 BY <2>1
  <2>4. x \in Accessible(op.dst) /\ p \notin op.moved BY <1>8, <2>3
  <2>5. x # "cpu"
    <3> SUFFICES ASSUME x = "cpu" PROVE FALSE OBVIOUS
    <3> QED BY <1>9, <2>4, CpuReach
  <2>6. PICK l \in {2, 3} : l = IF op.who = "cpu" \/ np[p] = 2 THEN 3 ELSE 2 OBVIOUS
  <2>7. blk.prot[x][p] >= l BY <2>1, <2>6
  <2>8. p \in DOMAIN R[x] /\ R[x][p].prot = l - 1 BY <1>4, <1>9, <2>2, <2>4, <2>5, <2>6, <2>7, RevocationTakes
  <2>9. b.prot[x][p] = l - 1 BY <1>7, <2>8
  <2> QED BY <1>9, <2>6, <2>9
<1>10. ASSUME NEW x \in Procs, b.prot[x][p] >= 2, np[p] = 3, op.who \notin Native(op.dst), x # op.who
       PROVE  FALSE
  <2>1. blk.prot[x][p] >= 2 /\ blk.prot[x][p] > 0 BY <1>6, <1>7, <1>10
  <2>2. p \notin op.moved BY <1>8, <2>1
  <2>3. op.who # "cpu"
    <3> SUFFICES ASSUME op.who = "cpu" PROVE FALSE OBVIOUS
    <3>1. "cpu" \in Accessible(op.dst) BY <1>5
    <3> QED BY <1>10, <3>1, CpuReach
  <2>4. 2 = IF op.who = "cpu" \/ np[p] = 2 THEN 3 ELSE 2 BY <1>10, <2>3
  <2>5. PICK l \in {2, 3} : l = 2 OBVIOUS
  <2>6. p \in DOMAIN R[x] /\ R[x][p].prot = l - 1 BY <1>4, <1>10, <2>1, <2>2, <2>4, <2>5, RevocationTakes
  <2>7. b.prot[x][p] = 1 BY <1>7, <2>5, <2>6
  <2> QED BY <1>10, <2>7
<1> QED BY <1>2, <1>4, <1>9, <1>10

(* A fault takes what the others must not keep before it maps.                *)
LEMMA RevokeMaps ==
  ASSUME Mappable, Revoke PROVE MapsInv'
<1>0. TrackInv /\ Underway /\ UnderwayMaps /\ BlkOK /\ MapsKept(blk) BY DEF Mappable, TrackInv, MapsKept
<1>1. mode' = mode /\ peers' = peers /\ op.pc = "revoke" BY DEF Revoke
<1>2. PICK np : LET R == Revocation(np) IN
        /\ BulkRestore \/ np = [p \in P_op |-> NewPermission(p)]
        /\ blk' = [Bits(blk, R) EXCEPT !.dirty = @ \/ Records(np)]
        /\ op' = [op EXCEPT !.pc = "map", !.np = np]
  BY DEF Revoke
<1>3. PICK R : R = Revocation(np) OBVIOUS
<1>4. PICK d \in BOOLEAN : d = (blk.dirty \/ Records(np)) OBVIOUS
<1>5. op.who \in Procs /\ P_op \subseteq Pages BY <1>0, <1>1 DEF TrackInv, OpOK, P_op
<1>7. blk.tracking \in BOOLEAN /\ blk.dirty \in BOOLEAN BY <1>0 DEF TrackInv, BlkOK, Blocks
<1>8. blk' = [Bits(blk, R) EXCEPT !.tracking = blk.tracking, !.dirty = d]
  <2>1. PICK P, m : Bits(blk, R) = [blk EXCEPT !.prot = P, !.maybe = m] BY DEF Bits
  <2>2. Bits(blk, R).dirty = blk.dirty /\ Bits(blk, R).tracking = blk.tracking
    BY <1>0, <2>1 DEF TrackInv, BlkOK, Blocks
  <2>3. blk' = [Bits(blk, R) EXCEPT !.dirty = d] BY <1>2, <1>3, <1>4, <2>2
  <2> QED BY <1>0, <2>1, <2>3 DEF TrackInv, BlkOK, Blocks
<1>9. Lowers(R) BY <1>0, <1>3, <1>5, RevocationLowers
<1>10. PICK b : b = blk' OBVIOUS
<1>11. MapsKept(b) /\ Remembered(blk, R, b) /\ Within(b, blk) BY <1>0, <1>7, <1>8, <1>9, <1>10, LowerMaps
<1>12. Stored(blk)' /\ Reached(blk)' /\ AtomicsAlone(blk)' BY <1>1, <1>10, <1>11, KeptPrime
<1>13. op'.pc = "map" /\ op'.kind = op.kind /\ op'.who = op.who /\ op'.acc = op.acc /\ op'.dst = op.dst /\ op'.np = np
  BY <1>0, <1>2 DEF TrackInv, OpOK
<1>14. /\ Procs' = Procs /\ Pages' = Pages
       /\ \A x : Accessible(x)' = Accessible(x) /\ Native(x)' = Native(x)
  BY <1>1, TopologySame
<1>15. op.who \in Accessible(op.dst) BY <1>0, <1>1 DEF UnderwayMaps, Faulting
<1>16. ASSUME ~mode.rd, ~mode.track, NEW p \in DOMAIN np PROVE Revoked(p)'
  <2> SUFFICES ASSUME np[p] >= 2
               PROVE  LET native == Native(op.dst)
                      IN  /\ OnlyAt(p, op.dst)'
                          /\ np[p] = 2 => op.who \notin native
                          /\ np[p] = 2 \/ op.who \in native => {x \in Procs : blk'.prot[x][p] >= 3} \subseteq native
                          /\ np[p] = 3 /\ op.who \notin native => {x \in Procs : blk'.prot[x][p] >= 2} \subseteq {op.who}
    BY <1>13, <1>14 DEF Revoked, OnlyAt, Authorized
  <2>1. np = [c \in P_op |-> NewPermission(c)]
    <3>1. ~blk.tracking BY <1>0, <1>16 DEF TrackInv
    <3> QED BY <1>2, <3>1 DEF BulkRestore
  <2>2. p \in P_op BY <2>1
  <2>3. LET native == Native(op.dst)
        IN  /\ OnlyAt(p, op.dst)
            /\ np[p] = 2 => op.who \notin native
            /\ np[p] = 2 \/ op.who \in native => {x \in Procs : b.prot[x][p] >= 3} \subseteq native
            /\ np[p] = 3 /\ op.who \notin native => {x \in Procs : b.prot[x][p] >= 2} \subseteq {op.who}
    BY <1>1, <1>3, <1>11, <1>16, <2>1, <2>2, RevokeTakes
  <2>4. blk'.resident = blk.resident /\ blk'.readdup = blk.readdup BY <1>10, <1>11 DEF Remembered, Recorded
  <2>5. OnlyAt(p, op.dst)' BY <1>13, <1>14, <2>3, <2>4 DEF OnlyAt, ResidentProcs
  <2> QED BY <1>10, <2>3, <2>5
<1>17. UnderwayMaps' BY <1>1, <1>13, <1>14, <1>15, <1>16 DEF UnderwayMaps, Faulting
<1> QED BY <1>12, <1>17 DEF MapsInv

(* What uvm_va_block_map maps can be reached.                                 *)
LEMMA MappingReach ==
  ASSUME NEW x \in Procs, NEW P, NEW n \in 1..3, NEW p \in DOMAIN Mapping(x, P, n)
  PROVE  /\ p \in P /\ Mapping(x, P, n)[p].prot = (IF x = "cpu" /\ n > 1 THEN 3 ELSE n)
         /\ \E y \in Here(blk, p) : x \in Accessible(y)
<1> DEFINE pr == IF x = "cpu" /\ n > 1 THEN 3 ELSE n
           C(c) == Allowed(x) \cap ResidentProcs(c)
           D == {c \in P : blk.prot[x][c] < pr /\ C(c) # {}}
           M == [c \in D |-> [prot |-> pr, to |-> Closest(x, C(c))]]
<1>1. ~(x # "cpu" /\ att[x] # "on")
  <2>1. DOMAIN <<>> = {} OBVIOUS
  <2> QED BY <2>1 DEF Mapping
<1>2. Mapping(x, P, n) = M BY <1>1 DEF Mapping
<1>3. p \in D /\ M[p] = [prot |-> pr, to |-> Closest(x, C(p))] BY <1>2
<1>4. p \in P /\ M[p].prot = pr /\ C(p) # {} BY <1>3
<1>5. PICK y : y \in C(p) BY <1>4
<1>6. y \in ResidentProcs(p) /\ y \in Allowed(x) BY <1>5
<1>7. x \in Accessible(x) BY DEF Accessible
<1>8. x \in Accessible(y) BY <1>6, <1>7 DEF Allowed
<1>9. y \in Here(blk, p) BY <1>6, HereFacts
<1> HIDE DEF M, pr
<1> QED BY <1>2, <1>4, <1>8, <1>9 DEF pr

(* What x gets of three such maps in a row.                                   *)
Granted(x, A, B, C, a, b, c, r, p) ==
  /\ \E y \in Here(blk, p) : x \in Accessible(y)
  /\ r[p].prot \in 1..3
  /\ \/ p \in A /\ r[p].prot = IF x = "cpu" /\ a > 1 THEN 3 ELSE a
     \/ p \in B /\ r[p].prot = IF x = "cpu" /\ b > 1 THEN 3 ELSE b
     \/ p \in C /\ r[p].prot = IF x = "cpu" /\ c > 1 THEN 3 ELSE c

(* Three such maps in a row.                                                  *)
LEMMA MapThreeReach ==
  ASSUME NEW x \in Procs, NEW A, NEW B, NEW C, NEW a \in 1..3, NEW b \in 1..3, NEW c \in 1..3,
         NEW r, r = Or(Mapping(x, A, a), Or(Mapping(x, B, b), Mapping(x, C, c))), NEW p \in DOMAIN r
  PROVE  Granted(x, A, B, C, a, b, c, r, p)
<1>1. \/ p \in DOMAIN Mapping(x, A, a) /\ r[p] = Mapping(x, A, a)[p]
      \/ p \in DOMAIN Mapping(x, B, b) /\ r[p] = Mapping(x, B, b)[p]
      \/ p \in DOMAIN Mapping(x, C, c) /\ r[p] = Mapping(x, C, c)[p]
  <2>1. PICK f : f = Mapping(x, A, a) OBVIOUS
  <2>2. PICK g : g = Mapping(x, B, b) OBVIOUS
  <2>3. PICK h : h = Mapping(x, C, c) OBVIOUS
  <2>4. r = Or(f, Or(g, h)) BY <2>1, <2>2, <2>3, Zenon
  <2> QED BY <2>1, <2>2, <2>3, <2>4, OrFacts
<1>2. CASE p \in DOMAIN Mapping(x, A, a) /\ r[p] = Mapping(x, A, a)[p]
  <2>1. /\ p \in A /\ r[p].prot = (IF x = "cpu" /\ a > 1 THEN 3 ELSE a)
        /\ \E y \in Here(blk, p) : x \in Accessible(y)
    BY <1>2, MappingReach
  <2> QED BY <2>1 DEF Granted
<1>3. CASE p \in DOMAIN Mapping(x, B, b) /\ r[p] = Mapping(x, B, b)[p]
  <2>1. /\ p \in B /\ r[p].prot = (IF x = "cpu" /\ b > 1 THEN 3 ELSE b)
        /\ \E y \in Here(blk, p) : x \in Accessible(y)
    BY <1>3, MappingReach
  <2> QED BY <2>1 DEF Granted
<1>4. CASE p \in DOMAIN Mapping(x, C, c) /\ r[p] = Mapping(x, C, c)[p]
  <2>1. /\ p \in C /\ r[p].prot = (IF x = "cpu" /\ c > 1 THEN 3 ELSE c)
        /\ \E y \in Here(blk, p) : x \in Accessible(y)
    BY <1>4, MappingReach
  <2> QED BY <2>1 DEF Granted
<1> QED BY <1>1, <1>2, <1>3, <1>4

(* A change that maps: what it needs beside the reach is that atomics stay    *)
(* alone.                                                                     *)
Reaches(R) == \A x \in Procs : \A p \in DOMAIN R[x] :
                R[x][p].prot \in 1..3 /\ \E y \in Here(blk, p) : x \in Accessible(y)

(* What is mapped stays in order.                                             *)
LEMMA MapMaps ==
  ASSUME Mappable, mode' = mode, peers' = peers, NEW R, blk' = Bits(blk, R), Reaches(R),
         \A d : Remembered(blk, R, d) => AtomicsAlone(d)
  PROVE  Stored(blk)' /\ Reached(blk)' /\ AtomicsAlone(blk)' /\ Remembered(blk, R, blk')
<1>0. TrackInv /\ BlkOK /\ Stored(blk) /\ Reached(blk) BY DEF Mappable, TrackInv
<1>1. \A x \in Procs : \A p \in DOMAIN R[x] : R[x][p].prot \in 0..3 BY DEF Reaches
<1>2. /\ blk' = [Bits(blk, R) EXCEPT !.tracking = blk.tracking, !.dirty = blk.dirty]
      /\ blk.tracking \in BOOLEAN /\ blk.dirty \in BOOLEAN
  BY <1>0, <1>1, FlagsSame
<1>3. PICK b : b = blk' OBVIOUS
<1>4. Remembered(blk, R, b) BY <1>0, <1>1, <1>2, <1>3, BitsRemembered
<1>5. /\ b.resident = blk.resident /\ b.readdup = blk.readdup
      /\ b.chunk = blk.chunk /\ b.alloc = blk.alloc
  BY <1>4 DEF Remembered, Recorded
<1>6. Stored(b) BY <1>0, <1>5, StoredSame
<1>7. Reached(b)
  <2>1. \A x \in Procs : \A p \in DOMAIN R[x] :
          p \in Pages /\ R[x][p].prot > 0 => \E y \in Here(blk, p) : x \in Accessible(y)
    BY DEF Reaches
  <2> QED BY <1>0, <1>4, <2>1, ReachedAfter
<1>8. MapsKept(blk') BY <1>3, <1>4, <1>6, <1>7 DEF MapsKept
<1> QED BY <1>3, <1>4, <1>8, KeptPrime

(* What Revoked says of a page that gets write access.                        *)
LEMMA RevokedFacts ==
  ASSUME NEW p, Revoked(p), op.np[p] >= 2, NEW y \in Procs, p \in blk.resident[y]
  PROVE  /\ y = op.dst
         /\ op.np[p] = 2 => op.who \notin Native(op.dst)
         /\ op.np[p] = 2 \/ op.who \in Native(op.dst) =>
              \A x \in Procs : blk.prot[x][p] = 3 => x \in Native(op.dst)
         /\ op.pc = "map" /\ op.np[p] = 3 /\ op.who \notin Native(op.dst) =>
              \A x \in Procs : blk.prot[x][p] >= 2 => x = op.who
<1>1. y \in ResidentProcs(p) BY DEF ResidentProcs
<1>2. y = op.dst BY <1>1 DEF Revoked, OnlyAt
<1> QED BY <1>2 DEF Revoked, Authorized

(* The faulting processor gets what compute_new_permission says.              *)
LEMMA FaulterPtes ==
  ASSUME op.who \in Procs, op.who \in Accessible(op.dst),
         NEW r, r = Or(Mapping(op.who, PagesWith(1), 1),
                       Or(Mapping(op.who, PagesWith(2), 2), Mapping(op.who, PagesWith(3), 3))),
         NEW p \in DOMAIN r
  PROVE  /\ p \in DOMAIN op.np /\ op.np[p] \in 1..3
         /\ r[p].prot \in 1..3 /\ \E y \in Here(blk, p) : op.who \in Accessible(y)
         /\ op.who \notin Native(op.dst) => r[p].prot = op.np[p]
         /\ op.np[p] = 1 => r[p].prot = 1
<1>1. PICK a \in 1..3, b \in 1..3, c \in 1..3 : a = 1 /\ b = 2 /\ c = 3 OBVIOUS
<1>4. PICK w, A, B, C : w = op.who /\ A = PagesWith(1) /\ B = PagesWith(2) /\ C = PagesWith(3) OBVIOUS
<1>5. r = Or(Mapping(w, A, a), Or(Mapping(w, B, b), Mapping(w, C, c))) /\ w \in Procs BY <1>1, <1>4
<1>2. Granted(w, A, B, C, a, b, c, r, p) BY <1>5, MapThreeReach
<1>3. op.who \notin Native(op.dst) => op.who # "cpu" BY CpuReach
<1> QED BY <1>1, <1>2, <1>3, <1>4 DEF PagesWith, Granted

(* Atomics stay alone when the faulting processor is mapped.                  *)
LEMMA FaulterAlone ==
  ASSUME Mappable, op.pc = "map", NEW r,
         r = Or(Mapping(op.who, PagesWith(1), 1),
                Or(Mapping(op.who, PagesWith(2), 2), Mapping(op.who, PagesWith(3), 3))),
         NEW R, \A x \in Procs : R[x] = IF x = op.who THEN r ELSE <<>>, NEW d, Remembered(blk, R, d)
  PROVE  AtomicsAlone(d)
<1> SUFFICES ASSUME ~mode.rd, ~mode.track, NEW p \in Pages, NEW y \in Procs, NEW x \in Procs, NEW z \in Procs,
                    p \in d.resident[y], d.prot[x][p] = 3, x \notin Native(y), z # x
             PROVE  d.prot[z][p] < 2
  BY DEF AtomicsAlone
<1>0. TrackInv /\ AtomicsAlone(blk) /\ UnderwayMaps BY DEF Mappable
<1>1. op.who \in Procs /\ op.who \in Accessible(op.dst) BY <1>0 DEF TrackInv, OpOK, UnderwayMaps, Faulting
<1>2. DOMAIN <<>> = {} OBVIOUS
<1>3. p \in blk.resident[y] BY DEF Remembered, Recorded
<1>4. \A v \in Procs : d.prot[v][p] = IF v = op.who /\ p \in DOMAIN r THEN r[p].prot ELSE blk.prot[v][p]
  BY <1>2 DEF Remembered, Recorded
<1>5. CASE p \notin DOMAIN r \/ (x # op.who /\ z # op.who)
  <2>1. d.prot[x][p] = blk.prot[x][p] /\ d.prot[z][p] = blk.prot[z][p] BY <1>4, <1>5
  <2> QED BY <1>0, <1>3, <2>1 DEF AtomicsAlone
<1>6. CASE p \in DOMAIN r /\ (x = op.who \/ z = op.who)
  <2>1. /\ p \in DOMAIN op.np /\ op.np[p] \in 1..3 /\ r[p].prot \in 1..3
        /\ op.who \notin Native(op.dst) => r[p].prot = op.np[p]
        /\ op.np[p] = 1 => r[p].prot = 1
    BY <1>1, <1>6, FaulterPtes
  <2>2. CASE op.np[p] = 1
    <3>1. r[p].prot = 1 BY <2>1, <2>2
    <3>2. x # op.who BY <1>4, <1>6, <3>1
    <3> QED BY <1>4, <1>6, <3>1, <3>2
  <2>3. CASE op.np[p] >= 2
    <3>1. Revoked(p) BY <1>0, <2>1 DEF UnderwayMaps
    <3>2. /\ y = op.dst
          /\ op.np[p] = 2 => op.who \notin Native(op.dst)
          /\ op.np[p] = 2 \/ op.who \in Native(op.dst) =>
               \A v \in Procs : blk.prot[v][p] = 3 => v \in Native(op.dst)
          /\ op.np[p] = 3 /\ op.who \notin Native(op.dst) =>
               \A v \in Procs : blk.prot[v][p] >= 2 => v = op.who
      BY <1>3, <2>3, <3>1, RevokedFacts
    <3>3. blk.prot[z][p] \in 0..3 /\ blk.prot[x][p] \in 0..3 BY <1>0 DEF TrackInv, BlkOK, Blocks
    <3>4. CASE x = op.who
      <4>1. r[p].prot = 3 /\ op.who \notin Native(op.dst) BY <1>4, <1>6, <3>2, <3>4
      <4>2. op.np[p] = 3 BY <2>1, <4>1
      <4>3. d.prot[z][p] = blk.prot[z][p] BY <1>4, <3>4
      <4> QED BY <3>2, <3>3, <3>4, <4>1, <4>2, <4>3
    <3>5. CASE x # op.who
      <4>1. blk.prot[x][p] = 3 BY <1>4, <3>5
      <4>2. ~(op.np[p] = 2 \/ op.who \in Native(op.dst)) BY <3>2, <4>1
      <4>3. op.np[p] = 3 BY <2>1, <2>3, <4>2
      <4> QED BY <3>2, <3>5, <4>1, <4>2, <4>3
    <3> QED BY <3>4, <3>5
  <2> QED BY <2>1, <2>2, <2>3
<1> QED BY <1>5, <1>6

(* The faulting processor is mapped.                                          *)
LEMMA FaulterMaps ==
  ASSUME Mappable, Map PROVE MapsInv'
<1> DEFINE r == Or(Mapping(op.who, PagesWith(1), 1),
                   Or(Mapping(op.who, PagesWith(2), 2), Mapping(op.who, PagesWith(3), 3)))
           R == [NoChange EXCEPT ![op.who] = r]
<1>0. TrackInv /\ UnderwayMaps BY DEF Mappable
<1>1. /\ mode' = mode /\ peers' = peers /\ op.pc = "map" /\ blk' = Bits(blk, R)
      /\ op' = IF Followers = {} THEN Idle ELSE [op EXCEPT !.pc = "others"]
  BY DEF Map
<1>2. op.who \in Procs /\ op.who \in Accessible(op.dst)
  BY <1>0, <1>1 DEF TrackInv, OpOK, UnderwayMaps, Faulting
<1>3. \A x \in Procs : R[x] = IF x = op.who THEN r ELSE <<>> BY <1>2 DEF NoChange
<1>4. PICK f : f = r OBVIOUS
<1>5. f = Or(Mapping(op.who, PagesWith(1), 1), Or(Mapping(op.who, PagesWith(2), 2), Mapping(op.who, PagesWith(3), 3)))
  BY <1>4
<1>6. PICK Q : Q = R OBVIOUS
<1>7. \A x \in Procs : Q[x] = IF x = op.who THEN f ELSE <<>> BY <1>3, <1>4, <1>6
<1>8. blk' = Bits(blk, Q) BY <1>1, <1>6
<1> HIDE DEF r, R
<1>9. DOMAIN <<>> = {} OBVIOUS
<1>10. ASSUME NEW p \in DOMAIN f
       PROVE  /\ p \in DOMAIN op.np /\ op.np[p] \in 1..3
              /\ f[p].prot \in 1..3 /\ \E y \in Here(blk, p) : op.who \in Accessible(y)
              /\ op.who \notin Native(op.dst) => f[p].prot = op.np[p]
  BY <1>2, <1>5, <1>10, FaulterPtes
<1>11. Reaches(Q) BY <1>7, <1>9, <1>10 DEF Reaches
<1>12. \A d : Remembered(blk, Q, d) => AtomicsAlone(d) BY <1>1, <1>5, <1>7, FaulterAlone
<1>13. Stored(blk)' /\ Reached(blk)' /\ AtomicsAlone(blk)' /\ Remembered(blk, Q, blk')
  BY <1>1, <1>8, <1>11, <1>12, MapMaps
<1>14. CASE Followers = {}
  <2>1. op'.pc = "idle" BY <1>1, <1>14 DEF Idle
  <2>2. UnderwayMaps' BY <2>1 DEF UnderwayMaps, Faulting
  <2> QED BY <1>13, <2>2 DEF MapsInv
<1>15. CASE Followers # {}
  <2>1. /\ op'.pc = "others" /\ op'.kind = op.kind /\ op'.who = op.who /\ op'.acc = op.acc /\ op'.dst = op.dst
        /\ op'.np = op.np
    BY <1>0, <1>1, <1>15 DEF TrackInv, OpOK
  <2>2. /\ Procs' = Procs /\ Pages' = Pages
        /\ \A x : Accessible(x)' = Accessible(x) /\ Native(x)' = Native(x)
    BY <1>1, TopologySame
  <2>3. blk'.resident = blk.resident /\ blk'.readdup = blk.readdup BY <1>13 DEF Remembered, Recorded
  <2>4. ASSUME ~mode.rd, ~mode.track, NEW p \in DOMAIN op.np PROVE Revoked(p)'
    <3>1. Revoked(p) BY <1>0, <1>1, <2>4 DEF UnderwayMaps
    <3> SUFFICES ASSUME op.np[p] >= 2
                 PROVE  LET native == Native(op.dst)
                        IN  /\ OnlyAt(p, op.dst)'
                            /\ op.np[p] = 2 => op.who \notin native
                            /\ op.np[p] = 2 \/ op.who \in native =>
                                 \A x \in Procs : blk'.prot[x][p] >= 3 => x \in native
      BY <2>1, <2>2 DEF Revoked, OnlyAt, Authorized
    <3>2. OnlyAt(p, op.dst) /\ (op.np[p] = 2 => op.who \notin Native(op.dst)) BY <3>1 DEF Revoked
    <3>3. OnlyAt(p, op.dst)' BY <2>1, <2>2, <2>3, <3>2 DEF OnlyAt, ResidentProcs
    <3>4. ASSUME NEW x \in Procs, blk'.prot[x][p] >= 3, op.np[p] = 2 \/ op.who \in Native(op.dst)
          PROVE  x \in Native(op.dst)
      <4>0. p \in Pages
        <5>1. op.dst \in ResidentProcs(p) BY <3>2 DEF OnlyAt
        <5>2. op.dst \in Procs /\ p \in blk.resident[op.dst] BY <5>1 DEF ResidentProcs
        <5> QED BY <1>0, <5>2 DEF TrackInv, BlkOK, Blocks
      <4>1. blk'.prot[x][p] = IF p \in DOMAIN Q[x] THEN Q[x][p].prot ELSE blk.prot[x][p]
        BY <1>13, <4>0 DEF Remembered, Recorded
      <4>2. CASE p \in DOMAIN Q[x]
        <5>1. x = op.who /\ p \in DOMAIN f /\ Q[x][p] = f[p] BY <1>7, <1>9, <4>2
        <5>2. op.who \notin Native(op.dst) => f[p].prot = op.np[p] BY <1>10, <5>1
        <5> QED BY <3>4, <4>1, <4>2, <5>1, <5>2
      <4>3. CASE p \notin DOMAIN Q[x] BY <3>1, <3>4, <4>1, <4>3 DEF Revoked, Authorized
      <4> QED BY <4>2, <4>3
    <3> QED BY <3>2, <3>3, <3>4
  <2>5. UnderwayMaps' BY <1>1, <1>2, <2>1, <2>2, <2>4 DEF UnderwayMaps, Faulting
  <2> QED BY <1>13, <2>5 DEF MapsInv
<1> QED BY <1>14, <1>15

(* What entries r of page p may grant follower y.                             *)
Following(y, r, p) ==
  /\ p \in DOMAIN op.np /\ op.np[p] \in 1..3
  /\ op.np[p] = 1 => r[p].prot = 1
  /\ y \notin Native(op.dst) => r[p].prot # 3
  /\ op.np[p] = 3 /\ op.who \notin Native(op.dst) => r[p].prot = 1

(* What a processor of accessed_by gets beside the faulting one.              *)
LEMMA FollowerPtes ==
  ASSUME NEW y \in Procs, y \in Followers, NEW A, NEW B, NEW C, NEW a \in 1..3, NEW b \in 1..3, NEW c \in 1..3,
         A \subseteq PagesWith(1), B \subseteq PagesWith(2), C \subseteq PagesWith(3),
         a = FollowerProt(y, 1), b = FollowerProt(y, 2), c = FollowerProt(y, 3),
         NEW r, NEW p, Granted(y, A, B, C, a, b, c, r, p), op.who \in Accessible(op.dst)
  PROVE  Following(y, r, p)
<1>1. y \in Accessible(op.dst) BY DEF Followers
<1>2. y = "cpu" => y \in Native(op.dst) BY <1>1, CpuReach
<1>3. op.who \notin Native(op.dst) => op.who # "cpu" BY CpuReach
<1>4. a = 1 /\ b = 2 BY DEF FollowerProt
<1>5. c = 3 => op.who \in Native(op.dst) /\ y \in Native(op.dst) BY DEF FollowerProt
<1>6. op.who \notin Native(op.dst) => c = 1 BY <1>3 DEF FollowerProt
<1> QED BY <1>2, <1>4, <1>5, <1>6 DEF Granted, PagesWith, Following

(* Atomics stay alone when the followers are mapped.                          *)
LEMMA FollowersAlone ==
  ASSUME Mappable, op.pc = "others", NEW R, NEW d, Remembered(blk, R, d),
         \A y \in Procs : \A p \in DOMAIN R[y] :
           /\ p \in DOMAIN op.np /\ op.np[p] \in 1..3 /\ R[y][p].prot \in 1..3
           /\ op.np[p] = 1 => R[y][p].prot = 1
           /\ y \notin Native(op.dst) => R[y][p].prot # 3
           /\ op.np[p] = 3 /\ op.who \notin Native(op.dst) => R[y][p].prot = 1
  PROVE  AtomicsAlone(d)
<1> SUFFICES ASSUME ~mode.rd, ~mode.track, NEW p \in Pages, NEW y \in Procs, NEW x \in Procs, NEW z \in Procs,
                    p \in d.resident[y], d.prot[x][p] = 3, x \notin Native(y), z # x
             PROVE  d.prot[z][p] < 2
  BY DEF AtomicsAlone
<1>0. TrackInv /\ AtomicsAlone(blk) /\ UnderwayMaps BY DEF Mappable
<1>1. p \in blk.resident[y] BY DEF Remembered, Recorded
<1>2. \A v \in Procs : d.prot[v][p] = IF p \in DOMAIN R[v] THEN R[v][p].prot ELSE blk.prot[v][p]
  BY DEF Remembered, Recorded
<1>3. ASSUME p \in DOMAIN op.np, op.np[p] >= 2
      PROVE  /\ y = op.dst
             /\ op.np[p] = 2 \/ op.who \in Native(op.dst) =>
                  \A v \in Procs : blk.prot[v][p] = 3 => v \in Native(op.dst)
  <2>1. Revoked(p) BY <1>0, <1>3 DEF UnderwayMaps
  <2> QED BY <1>1, <1>3, <2>1, RevokedFacts
<1>4. p \notin DOMAIN R[x]
  <2> SUFFICES ASSUME p \in DOMAIN R[x] PROVE FALSE OBVIOUS
  <2>1. R[x][p].prot = 3 BY <1>2
  <2>2. p \in DOMAIN op.np /\ op.np[p] \in 1..3 /\ op.np[p] # 1 /\ x \in Native(op.dst) BY <2>1
  <2>3. op.np[p] >= 2 BY <2>2
  <2> QED BY <1>3, <2>2, <2>3
<1>5. blk.prot[x][p] = 3 BY <1>2, <1>4
<1>6. CASE p \notin DOMAIN R[z]
  <2>1. d.prot[z][p] = blk.prot[z][p] BY <1>2, <1>6
  <2> QED BY <1>0, <1>1, <1>5, <2>1 DEF AtomicsAlone
<1>7. CASE p \in DOMAIN R[z]
  <2>1. d.prot[z][p] = R[z][p].prot BY <1>2, <1>7
  <2>2. p \in DOMAIN op.np /\ op.np[p] \in 1..3 /\ (op.np[p] = 1 => R[z][p].prot = 1)
        /\ (op.np[p] = 3 /\ op.who \notin Native(op.dst) => R[z][p].prot = 1)
    BY <1>7
  <2>3. CASE op.np[p] = 1 BY <2>1, <2>2, <2>3
  <2>4. CASE op.np[p] >= 2
    <3>1. ~(op.np[p] = 2 \/ op.who \in Native(op.dst)) BY <1>3, <1>5, <2>2, <2>4
    <3> QED BY <2>1, <2>2, <2>4, <3>1
  <2> QED BY <2>2, <2>3, <2>4
<1> QED BY <1>6, <1>7

(* The processors of accessed_by are mapped.                                  *)
LEMMA FollowersMaps ==
  ASSUME Mappable, MapFollowers PROVE MapsInv'
<1> DEFINE of(y, n) == Mapping(y, (PagesWith(n) \cap P_op) \ blk.readdup, FollowerProt(y, n))
           R == [y \in Procs |-> IF y \in Followers THEN Or(of(y, 1), Or(of(y, 2), of(y, 3))) ELSE <<>>]
<1>0. TrackInv /\ UnderwayMaps BY DEF Mappable
<1>1. mode' = mode /\ peers' = peers /\ op.pc = "others" /\ blk' = Bits(blk, R) /\ op'.pc = "idle"
  BY DEF MapFollowers, Idle
<1>2. op.who \in Accessible(op.dst) BY <1>0, <1>1 DEF UnderwayMaps, Faulting
<1>3. ASSUME NEW y \in Procs, NEW p \in DOMAIN R[y]
      PROVE  /\ R[y][p].prot \in 1..3 /\ \E z \in Here(blk, p) : y \in Accessible(z)
             /\ p \in DOMAIN op.np /\ op.np[p] \in 1..3
             /\ op.np[p] = 1 => R[y][p].prot = 1
             /\ y \notin Native(op.dst) => R[y][p].prot # 3
             /\ op.np[p] = 3 /\ op.who \notin Native(op.dst) => R[y][p].prot = 1
  <2>0. DOMAIN <<>> = {} OBVIOUS
  <2>1. y \in Followers /\ R[y] = Or(of(y, 1), Or(of(y, 2), of(y, 3))) BY <1>3, <2>0
  <2>2. PICK A, B, C : /\ A = (PagesWith(1) \cap P_op) \ blk.readdup
                       /\ B = (PagesWith(2) \cap P_op) \ blk.readdup
                       /\ C = (PagesWith(3) \cap P_op) \ blk.readdup
    OBVIOUS
  <2>3. PICK a \in 1..3, b \in 1..3, c \in 1..3 :
          a = FollowerProt(y, 1) /\ b = FollowerProt(y, 2) /\ c = FollowerProt(y, 3)
    BY DEF FollowerProt
  <2>4. PICK f : f = R[y] OBVIOUS
  <2>5. f = Or(Mapping(y, A, a), Or(Mapping(y, B, b), Mapping(y, C, c))) BY <2>1, <2>2, <2>3, <2>4
  <2>6. p \in DOMAIN f BY <1>3, <2>4
  <2> HIDE DEF R, of
  <2>7. Granted(y, A, B, C, a, b, c, f, p) BY <2>5, <2>6, MapThreeReach
  <2>8. A \subseteq PagesWith(1) /\ B \subseteq PagesWith(2) /\ C \subseteq PagesWith(3) BY <2>2
  <2>11. y \in Followers BY <2>1
  <2>9. Following(y, f, p) BY ONLY <1>2, <1>3, <2>3, <2>7, <2>8, <2>11, FollowerPtes
  <2>10. f[p].prot \in 1..3 /\ \E z \in Here(blk, p) : y \in Accessible(z) BY <2>7 DEF Granted
  <2> QED BY <2>4, <2>9, <2>10 DEF Following
<1>4. PICK Q : Q = R OBVIOUS
<1> HIDE DEF R
<1>5. Reaches(Q) BY <1>3, <1>4 DEF Reaches
<1>6. \A d : Remembered(blk, Q, d) => AtomicsAlone(d)
  <2> SUFFICES ASSUME NEW d, Remembered(blk, Q, d) PROVE AtomicsAlone(d) OBVIOUS
  <2>1. \A y \in Procs : \A p \in DOMAIN Q[y] :
           /\ p \in DOMAIN op.np /\ op.np[p] \in 1..3 /\ Q[y][p].prot \in 1..3
           /\ op.np[p] = 1 => Q[y][p].prot = 1
           /\ y \notin Native(op.dst) => Q[y][p].prot # 3
           /\ op.np[p] = 3 /\ op.who \notin Native(op.dst) => Q[y][p].prot = 1
    BY <1>3, <1>4
  <2> QED BY <1>1, <2>1, FollowersAlone
<1>7. Stored(blk)' /\ Reached(blk)' /\ AtomicsAlone(blk)' BY <1>1, <1>4, <1>5, <1>6, MapMaps
<1>8. UnderwayMaps' BY <1>1 DEF UnderwayMaps, Faulting
<1> QED BY <1>7, <1>8 DEF MapsInv

(* uvm_va_block_page_compute_highest_permission, for a page at one place.     *)
LEMMA HighestPermissionFacts ==
  ASSUME NEW p, NEW x, NEW h, ResidentProcs(p) = {h}, NEW n \in 1..3, n = HighestPermission(p, x)
  PROVE  /\ x \in Accessible(h)
         /\ n >= 2 => p \notin blk.maybe \/ \A y \in Authorized(p, 3) \ {x} : y \in Native(h)
         /\ n = 3 => p \notin blk.maybe \/ x \in Native(h) \/ Authorized(p, 2) \ {x} = {}
<1>1. PICK H : H = ResidentProcs(p) OBVIOUS
<1>2. Cardinality(H) = 1 BY <1>1, FS_Singleton
<1>3. PICK o : o = CHOOSE y \in ResidentProcs(p) : TRUE OBVIOUS
<1>4. o = h BY <1>3
<1>5. PICK c : c = Cardinality(H) OBVIOUS
<1>6. n = CASE H = {} -> 0
            [] c > 1 -> IF x \in H THEN 1 ELSE 0
            [] c = 1 /\ x \notin Accessible(o) -> 0
            [] OTHER -> IF p \notin blk.maybe THEN 3
                        ELSE IF \E y \in Authorized(p, 3) \ {x} : y \notin Native(o) THEN 1
                        ELSE IF x \in Native(o) \/ Authorized(p, 2) \ {x} = {} THEN 3 ELSE 2
  BY <1>1, <1>3, <1>5 DEF HighestPermission
<1>7. H # {} /\ c = 1 BY <1>1, <1>2, <1>5
<1>8. x \in Accessible(h) BY <1>4, <1>6, <1>7
<1>9. n = IF p \notin blk.maybe THEN 3
          ELSE IF \E y \in Authorized(p, 3) \ {x} : y \notin Native(h) THEN 1
          ELSE IF x \in Native(h) \/ Authorized(p, 2) \ {x} = {} THEN 3 ELSE 2
  BY <1>4, <1>6, <1>7, <1>8
<1> QED BY <1>8, <1>9

(* What entries r of page p may grant x behind an eviction.                   *)
Adding(x, r, p) ==
  /\ r[p].prot \in 1..3 /\ \E y \in Here(blk, p) : x \in Accessible(y)
  /\ \E h \in Procs :
       /\ \A y \in Procs : p \in blk.resident[y] => y = h
       /\ r[p].prot >= 2 => p \notin blk.maybe \/ \A y \in Authorized(p, 3) \ {x} : y \in Native(h)
       /\ r[p].prot = 3 => p \notin blk.maybe \/ x \in Native(h) \/ Authorized(p, 2) \ {x} = {}

(* uvm_va_block_add_mappings grants what compute_highest_permission says.     *)
LEMMA AddedPtes ==
  ASSUME TrackInv, NEW x \in Procs, NEW P, NEW r, r = AddMappings(x, P), NEW p \in DOMAIN r
  PROVE  Adding(x, r, p)
<1>1. PICK A, B, C : /\ A = {c \in P \ blk.readdup : HighestPermission(c, x) = 1}
                     /\ B = {c \in P \ blk.readdup : HighestPermission(c, x) = 2}
                     /\ C = {c \in P \ blk.readdup : HighestPermission(c, x) = 3}
  OBVIOUS
<1>2. PICK a \in 1..3, b \in 1..3, c \in 1..3 : a = 1 /\ b = 2 /\ c = 3 OBVIOUS
<1>3. r = Or(Mapping(x, A, a), Or(Mapping(x, B, b), Mapping(x, C, c))) BY <1>1, <1>2 DEF AddMappings
<1>4. Granted(x, A, B, C, a, b, c, r, p) BY <1>3, MapThreeReach
<1>5. PICK n \in 1..3 : /\ p \notin blk.readdup /\ n = HighestPermission(p, x)
                        /\ r[p].prot = IF x = "cpu" /\ n > 1 THEN 3 ELSE n
  BY <1>1, <1>2, <1>4 DEF Granted
<1>6. r[p].prot \in 1..3 /\ \E y \in Here(blk, p) : x \in Accessible(y) BY <1>4 DEF Granted
<1>7. PICK h \in Here(blk, p) : x \in Accessible(h) BY <1>6
<1>8. h \in Procs /\ ResidentProcs(p) = {h} BY <1>5, <1>7, HereFacts, SoleCopy DEF TrackInv, Here
<1>9. /\ n >= 2 => p \notin blk.maybe \/ \A y \in Authorized(p, 3) \ {x} : y \in Native(h)
      /\ n = 3 => p \notin blk.maybe \/ x \in Native(h) \/ Authorized(p, 2) \ {x} = {}
  BY <1>5, <1>8, HighestPermissionFacts
<1>10. x = "cpu" => x \in Native(h) BY <1>7, CpuReach
<1>11. r[p].prot >= 2 => n >= 2 BY <1>5
<1>12. r[p].prot = 3 => n = 3 \/ x = "cpu" BY <1>5
<1>13. \A y \in Procs : p \in blk.resident[y] => y = h BY <1>8 DEF ResidentProcs
<1> QED BY <1>6, <1>8, <1>9, <1>10, <1>11, <1>12, <1>13 DEF Adding

(* Atomics stay alone when mappings are added behind an eviction.             *)
LEMMA AddedAlone ==
  ASSUME Mappable, NEW x \in Procs, NEW r, \A p \in DOMAIN r : Adding(x, r, p),
         NEW R, \A y \in Procs : R[y] = IF y = x THEN r ELSE <<>>, NEW d, Remembered(blk, R, d)
  PROVE  AtomicsAlone(d)
<1> SUFFICES ASSUME ~mode.rd, ~mode.track, NEW p \in Pages, NEW y \in Procs, NEW v \in Procs, NEW z \in Procs,
                    p \in d.resident[y], d.prot[v][p] = 3, v \notin Native(y), z # v
             PROVE  d.prot[z][p] < 2
  BY DEF AtomicsAlone
<1>0. TrackInv /\ AtomicsAlone(blk) /\ Reached(blk) BY DEF Mappable
<1>1. DOMAIN <<>> = {} OBVIOUS
<1>2. p \in blk.resident[y] BY DEF Remembered, Recorded
<1>3. \A u \in Procs : d.prot[u][p] = IF u = x /\ p \in DOMAIN r THEN r[p].prot ELSE blk.prot[u][p]
  BY <1>1 DEF Remembered, Recorded
<1>4. \A u \in Procs : blk.prot[u][p] \in 0..3 BY <1>0 DEF TrackInv, BlkOK, Blocks
<1>5. CASE p \notin DOMAIN r \/ (x # v /\ x # z)
  <2>1. d.prot[v][p] = blk.prot[v][p] /\ d.prot[z][p] = blk.prot[z][p] BY <1>3, <1>5
  <2> QED BY <1>0, <1>2, <2>1 DEF AtomicsAlone
<1>6. CASE p \in DOMAIN r /\ (x = v \/ x = z)
  <2>1. r[p].prot \in 1..3 BY <1>6 DEF Adding
  <2>2. /\ r[p].prot >= 2 => p \notin blk.maybe \/ \A u \in Authorized(p, 3) \ {x} : u \in Native(y)
        /\ r[p].prot = 3 => p \notin blk.maybe \/ x \in Native(y) \/ Authorized(p, 2) \ {x} = {}
    BY <1>2, <1>6 DEF Adding
  <2>3. p \notin blk.maybe => \A u \in Procs : blk.prot[u][p] = 0 BY <1>0, <1>4 DEF Reached
  <2>4. CASE x = v
    <3>1. r[p].prot = 3 BY <1>3, <1>6, <2>4
    <3>2. p \notin blk.maybe \/ Authorized(p, 2) \ {x} = {} BY <2>2, <2>4, <3>1
    <3>3. d.prot[z][p] = blk.prot[z][p] BY <1>3, <2>4
    <3>4. ~(blk.prot[z][p] >= 2) BY <2>3, <2>4, <3>2 DEF Authorized
    <3> QED BY <1>4, <3>3, <3>4
  <2>5. CASE x = z /\ x # v
    <3>1. blk.prot[v][p] = 3 /\ d.prot[z][p] = r[p].prot BY <1>3, <1>6, <2>5
    <3>2. v \in Authorized(p, 3) \ {x} BY <2>5, <3>1 DEF Authorized
    <3>3. p \in blk.maybe BY <2>3, <3>1
    <3>4. ~(r[p].prot >= 2) BY <2>2, <3>2, <3>3
    <3> QED BY <2>1, <3>1, <3>4
  <2> QED BY <1>6, <2>4, <2>5
<1> QED BY <1>5, <1>6

(* The worker of the eviction mappings.                                       *)
LEMMA EvictionMappingsMaps ==
  ASSUME Mappable, NEW x \in Procs, EvictionMappings(x) PROVE MapsInv'
<1> DEFINE P == IF x \in mode.by THEN Pages ELSE blk.evicted[x]
           R == [NoChange EXCEPT ![x] = AddMappings(x, P)]
<1>0. TrackInv BY DEF Mappable
<1>1. mode' = mode /\ peers' = peers /\ op'.pc = "idle" /\ blk' = Bits(blk, R)
  BY DEF EvictionMappings, Free
<1>2. PICK r : r = AddMappings(x, P) OBVIOUS
<1>3. PICK Q : Q = R OBVIOUS
<1>4. \A y \in Procs : Q[y] = IF y = x THEN r ELSE <<>> BY <1>2, <1>3 DEF NoChange
<1>5. blk' = Bits(blk, Q) BY <1>1, <1>3
<1>6. PICK S : S = P OBVIOUS
<1>7. r = AddMappings(x, S) BY <1>2, <1>6
<1> HIDE DEF R, P
<1>8. \A p \in DOMAIN r : Adding(x, r, p) BY <1>0, <1>7, AddedPtes
<1>9. DOMAIN <<>> = {} OBVIOUS
<1>10. Reaches(Q)
  <2> SUFFICES ASSUME NEW y \in Procs, NEW p \in DOMAIN Q[y]
               PROVE  Q[y][p].prot \in 1..3 /\ \E z \in Here(blk, p) : y \in Accessible(z)
    BY DEF Reaches
  <2>1. y = x /\ p \in DOMAIN r /\ Q[y] = r BY <1>4, <1>9
  <2>2. Adding(x, r, p) BY <1>8, <2>1
  <2> QED BY <2>1, <2>2 DEF Adding
<1>11. \A d : Remembered(blk, Q, d) => AtomicsAlone(d) BY <1>4, <1>8, AddedAlone
<1>12. Stored(blk)' /\ Reached(blk)' /\ AtomicsAlone(blk)' BY <1>1, <1>5, <1>10, <1>11, MapMaps
<1>13. UnderwayMaps' BY <1>1 DEF UnderwayMaps, Faulting
<1> QED BY <1>12, <1>13 DEF MapsInv

(* An empty block maps nothing.                                               *)
LEMMA InitMaps ==
  ASSUME Init PROVE MapsInv
<1>1. mode \in Modes BY DEF Init
<1>2. mode.gpus \subseteq Procs /\ "cpu" \in Procs BY <1>1, ProcFacts
<1>3. /\ \A x \in Procs, p \in Pages : blk.prot[x][p] = 0
      /\ \A x \in Procs : blk.resident[x] = {}
      /\ blk.readdup = {} /\ op.pc = "idle"
  BY DEF Init, Idle
<1>4. Stored(blk) BY <1>2, <1>3 DEF Stored
<1>5. Reached(blk) BY <1>3 DEF Reached
<1>6. AtomicsAlone(blk) BY <1>3 DEF AtomicsAlone
<1>7. UnderwayMaps BY <1>3 DEF UnderwayMaps, Faulting
<1> QED BY <1>4, <1>5, <1>6, <1>7 DEF MapsInv

(* Every step keeps the mappings in order.                                    *)
LEMMA NextMaps ==
  ASSUME Mappable, [Next]_vars PROVE MapsInv'
<1>1. UNCHANGED vars => MapsInv' BY QuietMaps
<1>2. CpuFault => MapsInv' BY FaultMaps
<1>3. \A x \in Procs : EvictionMappings(x) => MapsInv' BY EvictionMappingsMaps
<1>4. Populate \/ Copy \/ Abandoned => MapsInv' BY PopulateMaps, CopyMaps, QuietMaps
<1>5. Revoke \/ Map \/ MapFollowers => MapsInv' BY RevokeMaps, FaulterMaps, FollowersMaps
<1>6. \A g \in mode.gpus : GpuFault(g) \/ EvictChunks(g) \/ UnregisterGpu(g) => MapsInv' BY FaultMaps
<1>7. \A g \in mode.gpus : RemoveGpuVaSpace(g) \/ AddGpuVaSpace(g) => MapsInv' BY UnmapMaps, QuietMaps
<1>8. FreeChunk \/ DestroyGpuState \/ Waited => MapsInv' BY FreeChunkMaps, DestroyMaps, WaitedMaps
<1>9. EvictionMappingsEnd \/ Finalize \/ DisablePeer \/ Kill => MapsInv' BY UnmapMaps, QuietMaps
<1>10. \A p \in Pages : WriteFromCpu(p) => MapsInv' BY FaultMaps
<1>11. HostWrite \/ Prepare \/ Execute => MapsInv' BY PrepareMaps, QuietMaps
<1>12. \A x \in Procs, p \in Pages : Store(x, p) => MapsInv' BY QuietMaps
<1> QED BY <1>1, <1>2, <1>3, <1>4, <1>5, <1>6, <1>7, <1>8, <1>9, <1>10, <1>11, <1>12 DEF Next

(* What a fault or a worker maps can be reached, and what must not be mapped  *)
(* beside it has been revoked before, at every step of the operation.         *)
THEOREM MappingsInvariance == Spec => []MappingsInv
<1>1. Init => MappingsInv BY InitMaps DEF MappingsInv, MapsInv
<1>2. TrackInv /\ CoherenceInv /\ MappingsInv /\ [Next]_vars => MappingsInv'
  <2> SUFFICES ASSUME TrackInv, CoherenceInv, MappingsInv, [Next]_vars, TrackedLocal(mode')
               PROVE  MapsInv'
    BY DEF MappingsInv, MapsInv, TrackedLocal, LocalMode
  <2>1. mode' = mode BY ModeFixed
  <2>2. TrackedLocal(mode) BY <2>1
  <2>3. ~(mode.track /\ mode.rd) BY <2>2 DEF TrackedLocal
  <2>4. Mappable BY <2>2, <2>3 DEF CoherenceInv, MappingsInv, Mappable
  <2> QED BY <2>4, NextMaps
<1> QED BY <1>1, <1>2, TrackInvariance, CoherenceInvariance, PTL DEF Spec

(* Who may write to a page has the only copy in reach; who may read one that  *)
(* is duplicated has a copy.                                                  *)
LEMMA MapsBacked ==
  ASSUME Mappable, NEW x \in Procs, NEW p \in Pages
  PROVE  /\ blk.prot[x][p] > 0 /\ mode.rd => x \in ResidentProcs(p)
         /\ blk.prot[x][p] >= 2 => \E h \in Procs : ResidentProcs(p) = {h}
<1>1. Backed(blk) BY DEF Mappable, InOrder
<1>2. PICK y \in Procs : Aimed(blk, x, p, [prot |-> blk.prot[x][p], to |-> y]) BY <1>1 DEF Backed
<1>3. /\ blk.prot[x][p] > 0 /\ mode.rd => x \in Here(blk, p)
      /\ blk.prot[x][p] >= 2 => Here(blk, p) = {y}
  BY <1>2 DEF Aimed
<1> QED BY <1>3, HereFacts

(* Atomics that are not native where the page is are the only writer's.       *)
LEMMA LoneAtomics ==
  ASSUME Mappable, NEW p \in Pages, NEW h \in Procs, ResidentProcs(p) = {h}, NEW x \in Procs, blk.prot[x][p] = 3,
         x \notin Native(h)
  PROVE  \A z \in Procs : z # x => ~(blk.prot[z][p] >= 2)
<1>0. TrackInv /\ Reached(blk) /\ AtomicsAlone(blk) /\ TrackedLocal(mode) BY DEF Mappable
<1>1. h \in Native(h) BY DEF Native, Accessible
<1>2. x \in Accessible(h)
  <2>1. \E y \in Here(blk, p) : x \in Accessible(y) BY <1>0 DEF Reached
  <2> QED BY <2>1, HereFacts
<1>3. ~mode.rd BY <1>1, MapsBacked
<1>4. ~mode.track
  <2> SUFFICES ASSUME mode.track PROVE FALSE OBVIOUS
  <2>1. LocalMode(mode) BY <1>0 DEF TrackedLocal
  <2>2. Accessible(h) = {h} BY <1>0, <2>1, AccessLocal DEF TrackInv
  <2> QED BY <1>1, <1>2, <2>2
<1>5. p \in blk.resident[h] BY DEF ResidentProcs
<1>6. \A z \in Procs : blk.prot[z][p] \in 0..3 BY <1>0 DEF TrackInv, BlkOK, Blocks
<1>7. \A z \in Procs : z # x => blk.prot[z][p] < 2 BY <1>0, <1>3, <1>4, <1>5 DEF AtomicsAlone
<1> QED BY <1>6, <1>7

(* A page is at one place at most unless it is duplicated.                    *)
LEMMA HowManyCopies ==
  ASSUME TrackInv, NEW p
  PROVE  /\ p \notin blk.readdup => Cardinality(ResidentProcs(p)) <= 1
         /\ Cardinality(ResidentProcs(p)) > 1 => p \in blk.readdup
         /\ \A h : ResidentProcs(p) = {h} => Cardinality(ResidentProcs(p)) = 1
<1>1. PICK S : S = ResidentProcs(p) OBVIOUS
<1>2. S = {} => Cardinality(S) = 0 BY FS_EmptySet
<1>3. \A h : S = {h} => Cardinality(S) = 1 BY FS_Singleton
<1>4. p \notin blk.readdup /\ S # {} => \E h : S = {h} BY <1>1, SoleCopy DEF TrackInv
<1>5. p \notin blk.readdup => Cardinality(S) = 0 \/ Cardinality(S) = 1 BY <1>2, <1>3, <1>4
<1>6. p \notin blk.readdup => Cardinality(S) <= 1 BY <1>5
<1>7. Cardinality(S) > 1 => p \in blk.readdup BY <1>5
<1> QED BY <1>1, <1>3, <1>6, <1>7

(* What block_check_mappings asserts of a block nobody holds:                 *)
(* what is mapped is resident within reach, with memory behind it; several    *)
(* copies mean read duplication, read-only and local; whoever may write has   *)
(* the only copy in reach; atomics that are not native exclude every other    *)
(* writer; an evicted page is not on the GPU it was evicted from.  It holds   *)
(* of blocks that are not tracked, with any sharing, and of tracked ones      *)
(* whose GPUs map no memory but their own, which are those FLASH tracks: the  *)
(* bulk restore of uvm_va_block_service_finish maps every page of the block   *)
(* without a look at who else has mapped it.                                  *)
THEOREM MappingsAreOk == Spec => [](TrackedLocal(mode) => MappingsOk)
<1>1. TrackInv /\ CoherenceInv /\ MappingsInv => (TrackedLocal(mode) => MappingsOk)
  <2> SUFFICES ASSUME TrackInv, CoherenceInv, MappingsInv, TrackedLocal(mode), NEW p \in Pages
               PROVE  LET here == ResidentProcs(p)
                          readers == Authorized(p, 1)
                          writers == Authorized(p, 2)
                          atomics == Authorized(p, 3)
                          reach == UNION {Accessible(y) : y \in here}
                          native == UNION {Native(y) : y \in here}
                      IN  /\ p \in blk.readdup => here # {}
                          /\ p \notin blk.readdup => Cardinality(here) <= 1
                          /\ p \notin blk.maybe => readers = {}
                          /\ \A g \in mode.gpus : p \notin blk.evicted[g] \cap blk.resident[g]
                          /\ \A g \in mode.gpus : p \in blk.resident[g] => g \in blk.chunk
                          /\ p \in blk.resident["cpu"] => p \in blk.alloc
                          /\ readers # {} => /\ here # {}
                                             /\ IF Cardinality(here) > 1 THEN readers \subseteq here
                                                                         ELSE readers \subseteq reach
                          /\ writers # {} => Cardinality(here) = 1
                          /\ atomics # {} /\ atomics \cap native = {} => Cardinality(writers) = 1
                          /\ atomics \cap native # {} => atomics \subseteq native
    BY DEF MappingsOk
  <2>0. Mappable BY DEF CoherenceInv, MappingsInv, Mappable, TrackedLocal
  <2> DEFINE here == ResidentProcs(p)
             readers == Authorized(p, 1)
             writers == Authorized(p, 2)
             atomics == Authorized(p, 3)
             reach == UNION {Accessible(y) : y \in here}
             native == UNION {Native(y) : y \in here}
  <2>1. Stored(blk) /\ Reached(blk) /\ Placed BY <2>0 DEF Mappable, TrackInv
  <2>2. \A x \in Procs : blk.prot[x][p] \in 0..3 BY DEF TrackInv, BlkOK, Blocks
  <2>3. p \in blk.readdup => here # {} BY <2>1, HereFacts DEF Stored
  <2>4. p \notin blk.readdup => Cardinality(here) <= 1 BY HowManyCopies
  <2>5. ASSUME NEW x \in readers
        PROVE  x \in Procs /\ p \in blk.maybe /\ \E y \in here : x \in Accessible(y)
    <3>1. x \in Procs /\ blk.prot[x][p] > 0 BY <2>2, <2>5 DEF Authorized
    <3> QED BY <2>1, <3>1, HereFacts DEF Reached
  <2>6. p \notin blk.maybe => readers = {} BY <2>5
  <2>7. \A g \in mode.gpus : p \notin blk.evicted[g] \cap blk.resident[g] BY <2>1 DEF Placed
  <2>8. \A g \in mode.gpus : p \in blk.resident[g] => g \in blk.chunk BY <2>1 DEF Stored
  <2>9. p \in blk.resident["cpu"] => p \in blk.alloc BY <2>1 DEF Stored
  <2>10. readers # {} => here # {} /\ readers \subseteq reach BY <2>5
  <2>11. Cardinality(here) > 1 => readers \subseteq here
    <3> SUFFICES ASSUME Cardinality(here) > 1, NEW x \in readers PROVE x \in here OBVIOUS
    <3>1. p \in blk.readdup BY HowManyCopies
    <3>2. mode.rd BY <2>0, <3>1 DEF Mappable, Underway
    <3>3. x \in Procs /\ blk.prot[x][p] > 0 BY <2>2 DEF Authorized
    <3> QED BY <2>0, <3>2, <3>3, MapsBacked
  <2>12. ASSUME NEW x \in writers PROVE \E h \in Procs : here = {h}
    <3>1. x \in Procs /\ blk.prot[x][p] >= 2 BY <2>12 DEF Authorized
    <3> QED BY <2>0, <3>1, MapsBacked
  <2>13. writers # {} => Cardinality(here) = 1 BY <2>12, HowManyCopies
  <2>14. atomics \subseteq writers
    <3>1. \A x \in Procs : blk.prot[x][p] >= 3 => blk.prot[x][p] >= 2 BY <2>2
    <3> QED BY <3>1 DEF Authorized
  <2>15. ASSUME NEW x \in atomics, x \notin native PROVE writers = {x}
    <3>1. x \in Procs /\ blk.prot[x][p] = 3 BY <2>2, <2>15 DEF Authorized
    <3>2. PICK h \in Procs : here = {h} BY <2>12, <2>14, <2>15
    <3>3. x \notin Native(h) BY <2>15, <3>2
    <3>4. \A z \in Procs : z # x => ~(blk.prot[z][p] >= 2) BY <2>0, <3>1, <3>2, <3>3, LoneAtomics
    <3>5. x \in writers BY <2>14, <2>15
    <3> QED BY <3>4, <3>5 DEF Authorized
  <2>16. atomics # {} /\ atomics \cap native = {} => Cardinality(writers) = 1
    <3> SUFFICES ASSUME NEW x \in atomics, atomics \cap native = {} PROVE Cardinality(writers) = 1 OBVIOUS
    <3>1. writers = {x} BY <2>15
    <3> HIDE DEF writers
    <3> QED BY <3>1, FS_Singleton
  <2>17. atomics \cap native # {} => atomics \subseteq native
    <3> SUFFICES ASSUME NEW x \in atomics, x \notin native, NEW a \in atomics \cap native PROVE FALSE OBVIOUS
    <3>1. a \in {x} BY <2>14, <2>15
    <3> QED BY <3>1
  <2> QED BY <2>3, <2>4, <2>6, <2>7, <2>8, <2>9, <2>10, <2>11, <2>13, <2>16, <2>17
<1> QED BY <1>1, TrackInvariance, CoherenceInvariance, MappingsInvariance, PTL
=============================================================================
