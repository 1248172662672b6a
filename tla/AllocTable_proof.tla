-------------------------- MODULE AllocTable_proof --------------------------
(***************************************************************************)
(* Proofs about AllocTable, for any number of threads and for an address   *)
(* space and a table of any size.                                          *)
(***************************************************************************)
EXTENDS AllocTable, TLAPS

Entry == [va : Int, size : Int, freed : BOOLEAN, h2d : BOOLEAN]

(* An allocation is an interval that is not empty, so it overlaps itself.  *)
LEMMA RangeFacts ==
  ASSUME NEW a \in Ranges
  PROVE  /\ a.va \in Int /\ a.size \in Int /\ a.size >= 1
         /\ a = [va |-> a.va, size |-> a.size] /\ Overlap(a, a)
<1>1. a \in [va : 1..Units, size : 1..Units] BY DEF Ranges
<1>2. a.va \in Int /\ a.size \in Int /\ a.size >= 1 BY <1>1, TableAssumption
<1> QED BY <1>1, <1>2 DEF Overlap

(* Two live allocations with one address are one.                          *)
LEMMA Meet ==
  ASSUME Apart, live \subseteq Ranges, NEW a \in live, NEW b \in live, a.va = b.va
  PROVE  a = b
<1>1. a.va \in Int /\ a.size \in Int /\ a.size >= 1 BY RangeFacts
<1>2. b.va \in Int /\ b.size \in Int /\ b.size >= 1 BY RangeFacts
<1>3. Overlap(a, b) BY <1>1, <1>2 DEF Overlap
<1> QED BY <1>3 DEF Apart

(* An entry gets a flag and keeps what else it says.                       *)
LEMMA FlagFacts ==
  ASSUME NEW e \in Entry
  PROVE  /\ [e EXCEPT !.freed = TRUE] \in Entry
         /\ [e EXCEPT !.freed = TRUE].va = e.va /\ [e EXCEPT !.freed = TRUE].size = e.size
         /\ [e EXCEPT !.freed = TRUE].freed
         /\ [e EXCEPT !.h2d = TRUE] \in Entry
         /\ [e EXCEPT !.h2d = TRUE].va = e.va /\ [e EXCEPT !.h2d = TRUE].size = e.size
         /\ [e EXCEPT !.h2d = TRUE].freed = e.freed
  BY DEF Entry

(* A solid entry that stays solid and says the same still stands for its   *)
(* allocation, unless the allocation is being freed.                       *)
LEMMA HaveFrame ==
  ASSUME HaveEntry,
         \A i \in Slots : Solid(i) => Solid(i)' /\ EntryRange(i)' = EntryRange(i),
         \A a \in Owned' : a \in Owned /\ (a \notin Pending' => a \notin Pending),
         \A i \in Slots : Solid(i) /\ table'[i].freed /\ EntryRange(i) \notin Pending'
                          /\ EntryRange(i) \in Owned' => table[i].freed
  PROVE  HaveEntry'
<1> SUFFICES ASSUME NEW a \in Owned'
             PROVE  \E i \in Slots : /\ Solid(i)' /\ EntryRange(i)' = a
                                     /\ (a \notin Pending' => ~table'[i].freed)
  BY DEF HaveEntry
<1>1. PICK i \in Slots : /\ Solid(i) /\ EntryRange(i) = a
                         /\ (a \notin Pending => ~table[i].freed)
  BY DEF HaveEntry
<1> QED BY <1>1

LEMMA KnownFrame ==
  ASSUME KnownEntry, known' \subseteq known, n_allocs' = n_allocs,
         \A i \in Slots : Solid(i) => Solid(i)' /\ EntryRange(i)' = EntryRange(i)
  PROVE  KnownEntry'
<1> SUFFICES ASSUME NEW a \in known'
             PROVE  \E i \in Slots : Solid(i)' /\ i < n_allocs' /\ EntryRange(i)' = a
  BY DEF KnownEntry
<1>1. PICK i \in Slots : Solid(i) /\ i < n_allocs /\ EntryRange(i) = a BY DEF KnownEntry
<1> QED BY <1>1

LEMMA CleanFrame ==
  ASSUME Clean, overlapped' = "no" => overlapped = "no" /\ raced' \subseteq raced,
         overlapped = "no" => Recorded \subseteq Recorded' /\ Unfreed' = Unfreed
                              /\ \A i \in Unfreed : EntryRange(i)' = EntryRange(i)
  PROVE  Clean'
  BY DEF Clean

(* The table holds nothing at the start.                                   *)
LEMMA TableInit == Init => TableInv
<1> SUFFICES ASSUME Init PROVE TableInv OBVIOUS
<1>1. Unfreed = {} BY TableAssumption DEF Init, Unfreed, Published, Slots
<1>2. TypeOK
  <2>1. Blank \in [va : Int, size : Int, freed : BOOLEAN, h2d : BOOLEAN] BY DEF Blank
  <2> HIDE DEF Blank
  <2> QED BY <2>1, TableAssumption DEF Init, TypeOK
<1>3. Apart /\ Hooks /\ Alone /\ HaveEntry /\ KnownEntry
  BY DEF Init, Apart, Hooks, Fresh, Alone, Recorders, HaveEntry, Owned, KnownEntry
<1>4. Clean BY <1>1 DEF Init, Clean
<1> QED BY <1>2, <1>3, <1>4 DEF TableInv

(* What the steps use of the invariant.                                    *)
LEMMA Facts ==
  ASSUME TableInv
  PROVE  /\ TypeOK /\ Apart /\ Hooks /\ Alone /\ HaveEntry /\ KnownEntry /\ Clean
         /\ live \subseteq Ranges /\ dropped \subseteq live /\ h2d \subseteq live
         /\ raced \subseteq live /\ known \subseteq live
         /\ pc \in [Threads -> {"idle", "user", "userset", "slot", "va", "size", "bump", "free"}]
         /\ arg \in [Threads -> Ranges \cup {None}] /\ idx \in [Threads -> 0..Max]
         /\ table \in [Slots -> Entry] /\ count \in 0..Max
  BY DEF TableInv, TypeOK, Entry

LEMMA MallocStep ==
  ASSUME TableInv, NEW t \in Threads, NEW a \in Ranges, Malloc(t, a) PROVE TableInv'
<1>a. /\ TypeOK /\ Apart /\ Hooks /\ Alone /\ HaveEntry /\ KnownEntry /\ Clean
      /\ live \subseteq Ranges /\ dropped \subseteq live /\ known \subseteq live
      /\ pc \in [Threads -> {"idle", "user", "userset", "slot", "va", "size", "bump", "free"}]
      /\ arg \in [Threads -> Ranges \cup {None}]
  BY Facts
<1>1. /\ pc[t] = "idle" /\ pc' = [pc EXCEPT ![t] = "user"] /\ arg' = [arg EXCEPT ![t] = a]
      /\ live' = live \cup {a} /\ \A b \in live : ~Overlap(a, b)
      /\ UNCHANGED <<count, table, user, idx, dropped, h2d, cpc, n_allocs, user_read, raced, overlapped, known>>
  BY DEF Malloc, core, race
<1>2. a \notin live BY <1>1, RangeFacts
<1>3. /\ pc'[t] = "user" /\ arg'[t] = a
      /\ \A u \in Threads : u # t => pc'[u] = pc[u] /\ arg'[u] = arg[u]
  BY <1>1, <1>a
<1>4. Recorders' = Recorders /\ Fresh' = Fresh \cup {t} /\ t \notin Fresh
  BY <1>1, <1>3 DEF Recorders, Fresh
<1>5. Pending' = Pending \cup {a} BY <1>1, <1>3 DEF Pending
<1>6. \A u \in Recorders : u # t BY <1>1 DEF Recorders
<1>7. \A i \in Slots : Solid(i)' = Solid(i) /\ EntryRange(i)' = EntryRange(i)
  BY <1>1, <1>4 DEF Solid, Published, EntryRange
<1>8. Owned' = Owned
  <2>1. {arg'[u] : u \in Fresh'} = {arg[u] : u \in Fresh} \cup {a} BY <1>3, <1>4 DEF Fresh
  <2> QED BY <2>1, <1>1, <1>2 DEF Owned
<1>9. HaveEntry' BY <1>a, <1>1, <1>5, <1>7, <1>8, HaveFrame
<1>10. KnownEntry' BY <1>a, <1>1, <1>7, KnownFrame
<1>11. Recorded' = Recorded /\ Unfreed' = Unfreed
  BY <1>1, <1>2, <1>5 DEF Recorded, Unfreed, Published
<1>12. Clean'
  <2>1. \A i \in Unfreed : EntryRange(i)' = EntryRange(i) BY <1>7 DEF Unfreed, Published
  <2> QED BY <1>a, <1>1, <1>11, <2>1, CleanFrame
<1>13. TypeOK' BY <1>1, <1>a DEF TypeOK
<1>14. Apart'
  <2> SUFFICES ASSUME NEW x \in live', NEW y \in live', x # y PROVE ~Overlap(x, y) BY DEF Apart
  <2>1. CASE x = a BY <2>1, <1>1
  <2>2. CASE y = a
    <3>1. x \in live /\ ~Overlap(a, x) BY <2>2, <1>1
    <3> QED BY <3>1, <2>2 DEF Overlap
  <2>3. CASE x # a /\ y # a BY <2>3, <1>1, <1>a DEF Apart
  <2> QED BY <2>1, <2>2, <2>3
<1>15. Hooks' BY <1>1, <1>2, <1>3, <1>4, <1>a DEF Hooks, Fresh
<1>16. Alone' BY <1>1, <1>3, <1>4, <1>6, <1>a DEF Alone, Recorders
<1> QED BY <1>9, <1>10, <1>12, <1>13, <1>14, <1>15, <1>16 DEF TableInv

LEMMA UserStep ==
  ASSUME TableInv, NEW t \in Threads, UserCheck(t) \/ UserSet(t) PROVE TableInv'
<1>a. /\ TypeOK /\ Apart /\ Hooks /\ Alone /\ HaveEntry /\ KnownEntry /\ Clean
      /\ live \subseteq Ranges
      /\ pc \in [Threads -> {"idle", "user", "userset", "slot", "va", "size", "bump", "free"}]
  BY Facts
<1>1. /\ pc[t] \in {"user", "userset"} /\ pc'[t] \in {"userset", "slot"}
      /\ pc' \in [Threads -> {"idle", "user", "userset", "slot", "va", "size", "bump", "free"}]
      /\ \A u \in Threads : u # t => pc'[u] = pc[u]
      /\ UNCHANGED <<live, count, table, arg, idx, dropped, h2d, cpc, n_allocs, user_read, raced, overlapped, known>>
  BY <1>a DEF UserCheck, UserSet, core, race
<1>2. user' \in [va : Int, size : Int]
  <2>1. CASE UserCheck(t) BY <2>1, <1>a DEF UserCheck, TypeOK
  <2>2. CASE UserSet(t)
    <3>1. arg[t] \in Ranges BY <1>1, <1>a DEF Hooks
    <3> QED BY <3>1, <2>2, RangeFacts DEF UserSet
  <2> QED BY <2>1, <2>2
<1>3. Recorders' = Recorders /\ Fresh' = Fresh BY <1>1 DEF Recorders, Fresh
<1>4. Pending' = Pending BY <1>1 DEF Pending
<1>5. \A i \in Slots : Solid(i)' = Solid(i) /\ EntryRange(i)' = EntryRange(i)
  BY <1>1, <1>3 DEF Solid, Published, EntryRange
<1>6. Owned' = Owned /\ Recorded' = Recorded /\ Unfreed' = Unfreed
  BY <1>1, <1>3, <1>4 DEF Owned, Recorded, Unfreed, Published
<1>7. HaveEntry' BY <1>a, <1>1, <1>4, <1>5, <1>6, HaveFrame
<1>8. KnownEntry' BY <1>a, <1>1, <1>5, KnownFrame
<1>9. Clean'
  <2>1. \A i \in Unfreed : EntryRange(i)' = EntryRange(i) BY <1>5 DEF Unfreed, Published
  <2> QED BY <1>a, <1>1, <1>6, <2>1, CleanFrame
<1>10. TypeOK' BY <1>1, <1>2, <1>a DEF TypeOK
<1>11. Apart' BY <1>1, <1>a DEF Apart
<1>12. Hooks' BY <1>1, <1>3, <1>a DEF Hooks
<1>13. Alone' BY <1>1, <1>3, <1>a DEF Alone, Recorders
<1> QED BY <1>7, <1>8, <1>9, <1>10, <1>11, <1>12, <1>13 DEF TableInv

(* A thread that begins to record while another does marks both.           *)
LEMMA TakeSlotStep ==
  ASSUME TableInv, NEW t \in Threads, TakeSlot(t) PROVE TableInv'
<1>a. /\ TypeOK /\ Apart /\ Hooks /\ Alone /\ HaveEntry /\ KnownEntry /\ Clean
      /\ live \subseteq Ranges /\ dropped \subseteq live /\ raced \subseteq live
      /\ pc \in [Threads -> {"idle", "user", "userset", "slot", "va", "size", "bump", "free"}]
      /\ arg \in [Threads -> Ranges \cup {None}] /\ idx \in [Threads -> 0..Max] /\ count \in 0..Max
  BY Facts
<1>1. /\ pc[t] = "slot" /\ idx' = [idx EXCEPT ![t] = count]
      /\ UNCHANGED <<live, count, table, user, h2d, cpc, n_allocs, user_read, known>>
  BY DEF TakeSlot, core
<1>2. idx'[t] = count /\ \A u \in Threads : u # t => idx'[u] = idx[u] BY <1>1, <1>a
<1>3. arg[t] \in live /\ t \in Fresh /\ t \notin Recorders
  BY <1>1, <1>a DEF Hooks, Fresh, Recorders
<1>4. \A i \in Slots : EntryRange(i)' = EntryRange(i) BY <1>1 DEF EntryRange
<1>5. Unfreed' = Unfreed /\ Published' = Published BY <1>1 DEF Unfreed, Published
<1>6. Unfreed \subseteq Slots BY DEF Unfreed, Published
<1>7. Apart' BY <1>1, <1>a DEF Apart
<1>8. CASE /\ count < Max /\ pc' = [pc EXCEPT ![t] = "va"] /\ NoteRace(t) /\ UNCHANGED <<arg, dropped>>
  <2>1. pc'[t] = "va" /\ \A u \in Threads : u # t => pc'[u] = pc[u] BY <1>8, <1>a
  <2>2. Recorders' = Recorders \cup {t} /\ Fresh' = Fresh BY <1>1, <2>1 DEF Recorders, Fresh
  <2>3. Pending' = Pending BY <1>1, <1>8, <2>1 DEF Pending
  <2>4. \/ Recorders = {} /\ raced' = raced /\ overlapped' = overlapped
        \/ /\ Recorders # {} /\ overlapped' = "yes"
           /\ raced' = raced \cup {arg[u] : u \in Recorders \cup {t}}
    BY <1>8 DEF NoteRace
  <2>5. {arg[u] : u \in Recorders \cup {t}} \subseteq {arg[u] : u \in Fresh}
    BY <1>3 DEF Recorders, Fresh
  <2>6. {arg[u] : u \in Fresh} \subseteq live BY <1>a DEF Hooks, Fresh
  <2>7. raced \subseteq raced' /\ raced' \subseteq live BY <2>4, <2>5, <2>6, <1>a
  <2>8. \A i \in Slots : Solid(i) => Solid(i)'
    BY <1>2, <1>5, <2>2 DEF Solid, Published, Recorders
  <2>9. Owned' = Owned BY <1>1, <1>8, <2>2, <2>4, <2>5 DEF Owned
  <2>10. HaveEntry' BY <1>a, <1>1, <1>4, <2>3, <2>8, <2>9, HaveFrame
  <2>11. KnownEntry' BY <1>a, <1>1, <1>4, <2>8, KnownFrame
  <2>12. Recorded' = Recorded BY <1>1, <1>8, <2>3 DEF Recorded
  <2>13. Clean' BY <1>a, <1>4, <1>5, <1>6, <2>4, <2>12, CleanFrame
  <2>14. TypeOK'
    <3>1. overlapped' \in {"no", "yes"} BY <2>4, <1>a DEF TypeOK
    <3> QED BY <1>1, <1>8, <2>7, <3>1, <1>a DEF TypeOK
  <2>15. Hooks' BY <1>1, <1>8, <2>1, <2>2, <1>a DEF Hooks
  <2>16. Alone'
    <3>1. CASE Recorders = {}
      <4>1. Recorders' = {t} BY <2>2, <3>1
      <4> QED BY <4>1, <1>1, <1>2, <1>8, <2>1 DEF Alone
    <3>2. CASE Recorders # {}
      <4>1. \A u \in Recorders' : arg'[u] \in raced' BY <1>8, <2>2, <2>4, <3>2
      <4>2. \A u \in Recorders' : idx'[u] < Max BY <1>2, <1>3, <1>8, <2>2, <1>a DEF Alone, Recorders
      <4> QED BY <4>1, <4>2 DEF Alone
    <3> QED BY <3>1, <3>2
  <2> QED BY <1>7, <2>10, <2>11, <2>13, <2>14, <2>15, <2>16 DEF TableInv
<1>9. CASE /\ pc' = [pc EXCEPT ![t] = "idle"] /\ arg' = [arg EXCEPT ![t] = None]
           /\ dropped' = dropped \cup {arg[t]} /\ UNCHANGED <<raced, overlapped>>
  <2>1. /\ pc'[t] = "idle" /\ \A u \in Threads : u # t => pc'[u] = pc[u] /\ arg'[u] = arg[u]
    BY <1>9, <1>a
  <2>2. Recorders' = Recorders /\ Fresh' = Fresh \ {t} BY <1>1, <2>1 DEF Recorders, Fresh
  <2>3. \A u \in Threads : u # t /\ pc[u] # "idle" => arg[u] # arg[t] BY <1>1, <1>a DEF Hooks
  <2>4. Pending = Pending' \cup {arg[t]} /\ arg[t] \notin Pending' BY <1>1, <2>1, <2>3 DEF Pending
  <2>5. \A i \in Slots : Solid(i) <=> Solid(i)'
    BY <1>2, <1>3, <1>5, <2>2 DEF Solid, Recorders
  <2>6. Owned' \subseteq Owned
    <3>1. {arg[u] : u \in Fresh} \subseteq {arg'[u] : u \in Fresh'} \cup {arg[t]}
      BY <2>1, <2>2 DEF Fresh
    <3> QED BY <3>1, <1>1, <1>9 DEF Owned
  <2>7. \A b \in Owned' : b # arg[t] BY <1>9 DEF Owned
  <2>8. HaveEntry' BY <1>a, <1>1, <1>4, <2>4, <2>5, <2>6, <2>7, HaveFrame
  <2>9. KnownEntry' BY <1>a, <1>1, <1>4, <2>5, KnownFrame
  <2>10. Recorded' = Recorded BY <1>1, <1>9, <2>4 DEF Recorded
  <2>11. Clean' BY <1>a, <1>4, <1>5, <1>6, <1>9, <2>10, CleanFrame
  <2>12. TypeOK' BY <1>1, <1>3, <1>9, <1>a DEF TypeOK
  <2>13. Hooks'
    <3>1. \A u \in Fresh' : u # t /\ u \in Fresh /\ u \in Threads /\ pc[u] # "idle"
      BY <2>2 DEF Fresh
    <3>2. \A u \in Fresh' : arg'[u] \notin dropped' \cup known'
      BY <1>1, <1>9, <2>1, <2>3, <3>1, <1>a DEF Hooks
    <3> QED BY <1>1, <2>1, <3>2, <1>a DEF Hooks
  <2>14. Alone' BY <1>1, <1>2, <1>3, <1>9, <2>1, <2>2, <1>a DEF Alone, Recorders
  <2> QED BY <1>7, <2>8, <2>9, <2>11, <2>12, <2>13, <2>14 DEF TableInv
<1> QED BY <1>8, <1>9 DEF TakeSlot, race

(* A field of the entry at idx is written: no solid entry is that one, and *)
(* without a race no published one.                                        *)
LEMMA FillStep ==
  ASSUME TableInv, NEW t \in Threads, FillVa(t) \/ FillSize(t) PROVE TableInv'
<1>a. /\ TypeOK /\ Apart /\ Hooks /\ Alone /\ HaveEntry /\ KnownEntry /\ Clean
      /\ live \subseteq Ranges
      /\ pc \in [Threads -> {"idle", "user", "userset", "slot", "va", "size", "bump", "free"}]
      /\ arg \in [Threads -> Ranges \cup {None}] /\ idx \in [Threads -> 0..Max]
      /\ table \in [Slots -> Entry] /\ count \in 0..Max
  BY Facts
<1> DEFINE k == idx[t]
<1>1. /\ pc[t] \in {"va", "size"} /\ pc'[t] \in {"size", "bump"}
      /\ (pc[t] = "va" <=> pc'[t] = "size")
      /\ pc' \in [Threads -> {"idle", "user", "userset", "slot", "va", "size", "bump", "free"}]
      /\ \A u \in Threads : u # t => pc'[u] = pc[u]
      /\ UNCHANGED <<live, count, user, arg, idx, dropped, h2d, cpc, n_allocs, user_read, raced, overlapped, known>>
  BY <1>a DEF FillVa, FillSize, core, race
<1>2. t \in Recorders /\ k < Max /\ k \in Slots
  <2>1. t \in Recorders BY <1>1 DEF Recorders
  <2>2. k < Max /\ k \in 0..Max BY <2>1, <1>a DEF Alone
  <2> QED BY <2>1, <2>2, TableAssumption DEF Slots
<1>3. arg[t] \in Ranges /\ table[k] \in Entry BY <1>1, <1>2, <1>a DEF Hooks
<1>4. /\ table' \in [Slots -> Entry] /\ \A i \in Slots : i # k => table'[i] = table[i]
      /\ pc[t] = "va" => table'[k].va = arg[t].va
      /\ pc[t] = "size" => /\ table'[k].va = table[k].va /\ table'[k].size = arg[t].size
                           /\ ~table'[k].freed
  <2>1. arg[t].va \in Int /\ arg[t].size \in Int BY <1>3, RangeFacts
  <2>2. CASE FillVa(t)
    <3>1. table' = [table EXCEPT ![k].va = arg[t].va] /\ pc[t] = "va" BY <2>2 DEF FillVa
    <3>2. [table[k] EXCEPT !.va = arg[t].va] \in Entry /\ [table[k] EXCEPT !.va = arg[t].va].va = arg[t].va
      BY <1>3, <2>1 DEF Entry
    <3> QED BY <1>2, <1>a, <3>1, <3>2
  <2>3. CASE FillSize(t)
    <3> DEFINE e == [va |-> table[k].va, size |-> arg[t].size, freed |-> FALSE, h2d |-> FALSE]
    <3>1. table' = [table EXCEPT ![k] = e] /\ pc[t] = "size" BY <2>3 DEF FillSize
    <3>2. e \in Entry /\ e.va = table[k].va /\ e.size = arg[t].size /\ ~e.freed
      BY <1>3, <2>1 DEF Entry
    <3> HIDE DEF e
    <3> QED BY <1>2, <1>a, <3>1, <3>2
  <2> QED BY <2>2, <2>3
<1> HIDE DEF k
<1>5. Recorders' = Recorders /\ Fresh' = Fresh BY <1>1 DEF Recorders, Fresh
<1>6. Pending' = Pending BY <1>1 DEF Pending
<1>7. \A i \in Slots : Solid(i) => i # k BY <1>2, <1>a, TableAssumption DEF Solid, k, Slots
<1>8. \A i \in Slots : Solid(i) => /\ Solid(i)' /\ EntryRange(i)' = EntryRange(i)
                                   /\ table'[i] = table[i]
  BY <1>1, <1>4, <1>5, <1>7 DEF Solid, Published, EntryRange
<1>9. Owned' = Owned /\ Recorded' = Recorded BY <1>1, <1>5, <1>6 DEF Owned, Recorded
<1>10. HaveEntry' BY <1>a, <1>6, <1>8, <1>9, HaveFrame
<1>11. KnownEntry' BY <1>a, <1>1, <1>8, KnownFrame
<1>12. Clean'
  <2>1. ASSUME overlapped = "no" PROVE k \notin Published
    <3>1. arg[t] \notin raced BY <2>1, <1>a DEF Clean
    <3>2. k = count BY <3>1, <1>2, <1>a DEF Alone, k
    <3> QED BY <3>2, <1>a DEF Published
  <2>2. ASSUME overlapped = "no"
        PROVE  Unfreed' = Unfreed /\ \A i \in Unfreed : EntryRange(i)' = EntryRange(i)
    <3>1. \A i \in Published : table'[i] = table[i] BY <2>1, <2>2, <1>4 DEF Published
    <3>2. Published' = Published BY <1>1 DEF Published
    <3> QED BY <3>1, <3>2 DEF Unfreed, EntryRange
  <2> QED BY <1>a, <1>1, <1>9, <2>2, CleanFrame
<1>13. TypeOK' BY <1>1, <1>4, <1>a DEF TypeOK, Entry
<1>14. Apart' BY <1>1, <1>a DEF Apart
<1>15. Hooks' BY <1>1, <1>5, <1>a DEF Hooks
<1>16. Alone'
  <2>1. ASSUME NEW u \in Recorders, arg[u] \notin raced
        PROVE  /\ Recorders' = {u} /\ idx'[u] = count'
               /\ pc'[u] \in {"size", "bump"} => table'[count'].va = arg'[u].va
               /\ pc'[u] = "bump" => table'[count'].size = arg'[u].size /\ ~table'[count'].freed
    <3>1. Recorders = {u} /\ u = t /\ k = count BY <2>1, <1>2, <1>a DEF Alone, k
    <3>2. pc[t] = "size" => table[count].va = arg[t].va BY <2>1, <3>1, <1>a DEF Alone
    <3> QED BY <1>1, <1>4, <1>5, <3>1, <3>2 DEF k
  <2>2. \A u \in Recorders : idx'[u] < Max BY <1>1, <1>a DEF Alone
  <2> QED BY <1>1, <1>5, <2>1, <2>2 DEF Alone
<1> QED BY <1>10, <1>11, <1>12, <1>13, <1>14, <1>15, <1>16 DEF TableInv

(* The entry that a thread wrote alone becomes solid.                      *)
LEMMA PublishStep ==
  ASSUME TableInv, NEW t \in Threads, Publish(t) PROVE TableInv'
<1>a. /\ TypeOK /\ Apart /\ Hooks /\ Alone /\ HaveEntry /\ KnownEntry /\ Clean
      /\ live \subseteq Ranges
      /\ pc \in [Threads -> {"idle", "user", "userset", "slot", "va", "size", "bump", "free"}]
      /\ arg \in [Threads -> Ranges \cup {None}] /\ idx \in [Threads -> 0..Max]
      /\ count \in 0..Max
  BY Facts
<1>1. /\ pc[t] = "bump" /\ count' = idx[t] + 1 /\ pc' = [pc EXCEPT ![t] = "idle"]
      /\ arg' = [arg EXCEPT ![t] = None]
      /\ UNCHANGED <<live, table, user, idx, dropped, h2d, cpc, n_allocs, user_read, raced, overlapped, known>>
  BY DEF Publish, core, race
<1>2. /\ pc'[t] = "idle" /\ \A u \in Threads : u # t => pc'[u] = pc[u] /\ arg'[u] = arg[u]
  BY <1>1, <1>a
<1>3. /\ t \in Recorders /\ t \in Fresh /\ Recorders' = Recorders \ {t} /\ Fresh' = Fresh \ {t}
  BY <1>1, <1>2 DEF Recorders, Fresh
<1>4. idx[t] < Max /\ idx[t] \in Slots /\ count' \in 0..Max
  <2>1. idx[t] < Max /\ idx[t] \in 0..Max BY <1>3, <1>a DEF Alone
  <2> QED BY <1>1, <2>1, TableAssumption DEF Slots
<1>5. \A u \in Threads : u # t /\ pc[u] # "idle" => arg[u] # arg[t] BY <1>1, <1>a DEF Hooks
<1>6. Pending = Pending' \cup {arg[t]} /\ arg[t] \notin Pending' BY <1>1, <1>2, <1>5 DEF Pending
<1>7. \A i \in Slots : EntryRange(i)' = EntryRange(i) /\ (Solid(i) => Solid(i)')
  <2> SUFFICES ASSUME NEW i \in Slots, Solid(i) PROVE Solid(i)' BY <1>1 DEF EntryRange
  <2>1. i < idx[t] /\ i \in Int /\ idx[t] \in Int BY <1>3, <1>4, TableAssumption DEF Solid, Slots
  <2>2. i \in Published' BY <2>1, <1>1 DEF Published
  <2> QED BY <2>2, <1>1, <1>3 DEF Solid
<1>8. ASSUME arg[t] \notin raced
      PROVE  /\ Recorders' = {} /\ idx[t] = count
             /\ EntryRange(idx[t]) = arg[t] /\ ~table[idx[t]].freed
  <2>1. /\ Recorders = {t} /\ idx[t] = count /\ table[count].va = arg[t].va
        /\ table[count].size = arg[t].size /\ ~table[count].freed
    BY <1>1, <1>3, <1>8, <1>a DEF Alone
  <2>2. arg[t] \in Ranges BY <1>1, <1>a DEF Hooks
  <2>3. arg[t] = [va |-> arg[t].va, size |-> arg[t].size] BY <2>2, RangeFacts
  <2> QED BY <1>3, <2>1, <2>3 DEF EntryRange
<1>9. HaveEntry'
  <2> SUFFICES ASSUME NEW a \in Owned'
               PROVE  \E i \in Slots : /\ Solid(i)' /\ EntryRange(i)' = a
                                       /\ (a \notin Pending' => ~table'[i].freed)
    BY DEF HaveEntry
  <2>1. CASE a = arg[t]
    <3>1. arg[t] \notin raced BY <2>1, <1>1 DEF Owned
    <3>2. idx[t] \in Published' BY <1>1, <1>4, TableAssumption DEF Published, Slots
    <3>3. Solid(idx[t])' BY <1>8, <3>1, <3>2, <1>1 DEF Solid
    <3> QED BY <1>1, <1>4, <1>7, <1>8, <2>1, <3>1, <3>3
  <2>2. CASE a # arg[t]
    <3>1. {arg[u] : u \in Fresh} \subseteq {arg'[u] : u \in Fresh'} \cup {arg[t]}
      BY <1>2, <1>3 DEF Fresh
    <3>2. a \in Owned BY <1>1, <2>2, <3>1 DEF Owned
    <3>3. PICK i \in Slots : /\ Solid(i) /\ EntryRange(i) = a
                             /\ (a \notin Pending => ~table[i].freed)
      BY <3>2, <1>a DEF HaveEntry
    <3> QED BY <1>1, <1>6, <1>7, <2>2, <3>3
  <2> QED BY <2>1, <2>2
<1>10. KnownEntry' BY <1>a, <1>1, <1>7, KnownFrame
<1>11. Clean'
  <2> SUFFICES ASSUME overlapped = "no"
               PROVE  /\ raced' = {} /\ \A i \in Unfreed' : EntryRange(i)' \in Recorded'
                      /\ \A i, k \in Unfreed' : EntryRange(i)' = EntryRange(k)' => i = k
    BY <1>1 DEF Clean
  <2>1. /\ raced = {} /\ \A i \in Unfreed : EntryRange(i) \in Recorded
        /\ \A i, k \in Unfreed : EntryRange(i) = EntryRange(k) => i = k
    BY <1>a DEF Clean
  <2>2. idx[t] = count /\ EntryRange(count) = arg[t] /\ ~table[count].freed BY <2>1, <1>8
  <2>3. Published' = Published \cup {count}
    BY <2>2, <1>1, <1>4, <1>a, TableAssumption DEF Published, Slots
  <2>4. Unfreed' = Unfreed \cup {count} BY <1>1, <2>2, <2>3 DEF Unfreed
  <2>5. arg[t] \in live /\ arg[t] \notin dropped BY <1>1, <1>3, <1>a DEF Hooks
  <2>6. Recorded' = Recorded \cup {arg[t]} /\ arg[t] \notin Recorded
    BY <1>1, <1>6, <2>5 DEF Recorded
  <2>7. Unfreed \subseteq Slots /\ count \in Slots BY <1>4, <2>2 DEF Unfreed, Published
  <2> QED BY <1>1, <1>7, <2>1, <2>2, <2>4, <2>6, <2>7
<1>12. TypeOK' BY <1>1, <1>4, <1>a DEF TypeOK
<1>13. Apart' BY <1>1, <1>a DEF Apart
<1>14. Hooks'
  <2>1. \A u \in Fresh' : u # t /\ u \in Fresh BY <1>3
  <2> QED BY <1>1, <1>2, <2>1, <1>a DEF Hooks, Fresh
<1>15. Alone'
  <2> SUFFICES ASSUME NEW u \in Recorders' PROVE idx'[u] < Max /\ arg'[u] \in raced' BY DEF Alone
  <2>1. u # t /\ u \in Recorders /\ u \in Threads BY <1>3 DEF Recorders
  <2>2. Recorders # {u} BY <1>3, <2>1
  <2> QED BY <1>1, <1>2, <2>1, <2>2, <1>a DEF Alone
<1> QED BY <1>9, <1>10, <1>11, <1>12, <1>13, <1>14, <1>15 DEF TableInv

(* Of the solid entries only that of the freed allocation is flagged: the  *)
(* others have other addresses.                                            *)
LEMMA MarkFreedStep ==
  ASSUME TableInv, NEW t \in Threads, NEW a \in Ranges, MarkFreed(t, a) PROVE TableInv'
<1>a. /\ TypeOK /\ Apart /\ Hooks /\ Alone /\ HaveEntry /\ KnownEntry /\ Clean
      /\ live \subseteq Ranges
      /\ pc \in [Threads -> {"idle", "user", "userset", "slot", "va", "size", "bump", "free"}]
      /\ arg \in [Threads -> Ranges \cup {None}] /\ idx \in [Threads -> 0..Max]
      /\ table \in [Slots -> Entry] /\ count \in 0..Max
  BY Facts
<1> DEFINE H == {i \in Entries(a.va) : \A k \in Entries(a.va) : k <= i}
<1>1. /\ pc[t] = "idle" /\ a \in live /\ a \notin Pending
      /\ pc' = [pc EXCEPT ![t] = "free"] /\ arg' = [arg EXCEPT ![t] = a]
      /\ UNCHANGED <<live, count, user, idx, dropped, h2d, cpc, n_allocs, user_read, raced, overlapped, known>>
      /\ table' = [i \in Slots |-> IF i \in H THEN [table[i] EXCEPT !.freed = TRUE] ELSE table[i]]
  BY DEF MarkFreed, core, race
<1>2. /\ pc'[t] = "free" /\ arg'[t] = a
      /\ \A u \in Threads : u # t => pc'[u] = pc[u] /\ arg'[u] = arg[u]
  BY <1>1, <1>a
<1>3. /\ H \subseteq Published /\ \A i \in H : table[i].va = a.va
      /\ \A i \in H : i \in Unfreed
  BY DEF Entries, Unfreed
<1>4. \A i \in Slots : /\ table'[i] \in Entry
                       /\ table'[i].va = table[i].va /\ table'[i].size = table[i].size
                       /\ table'[i].freed <=> i \in H \/ table[i].freed
  <2> SUFFICES ASSUME NEW i \in Slots
               PROVE  /\ table'[i] \in Entry
                      /\ table'[i].va = table[i].va /\ table'[i].size = table[i].size
                      /\ table'[i].freed <=> i \in H \/ table[i].freed
    OBVIOUS
  <2> HIDE DEF H
  <2>1. table[i] \in Entry BY <1>a
  <2>2. CASE i \in H
    <3>1. table'[i] = [table[i] EXCEPT !.freed = TRUE] BY <1>1, <2>2
    <3>2. table'[i].freed /\ table'[i] \in Entry BY <3>1, <2>1 DEF Entry
    <3>3. table'[i].va = table[i].va /\ table'[i].size = table[i].size BY <3>1, <2>1, FlagFacts
    <3> QED BY <2>2, <3>2, <3>3
  <2>3. CASE i \notin H
    <3>1. table'[i] = table[i] BY <1>1, <2>3
    <3> QED BY <3>1, <2>1, <2>3
  <2> QED BY <2>2, <2>3
<1> HIDE DEF H
<1>5. Recorders' = Recorders /\ Fresh' = Fresh BY <1>1, <1>2 DEF Recorders, Fresh
<1>6. t \notin Fresh /\ t \notin Recorders BY <1>1 DEF Fresh, Recorders
<1>7. Pending' = Pending \cup {a} BY <1>1, <1>2 DEF Pending
<1>8. \A i \in Slots : EntryRange(i)' = EntryRange(i) /\ Solid(i)' = Solid(i)
  BY <1>1, <1>4, <1>5 DEF EntryRange, Solid, Published
<1>9. Owned' = Owned
  <2>1. {arg'[u] : u \in Fresh'} = {arg[u] : u \in Fresh} BY <1>2, <1>5, <1>6 DEF Fresh
  <2> QED BY <1>1, <2>1 DEF Owned
<1>10. HaveEntry'
  <2>1. ASSUME NEW i \in Slots, table'[i].freed, EntryRange(i) \notin Pending',
               EntryRange(i) \in Owned'
        PROVE  table[i].freed
    <3>1. EntryRange(i) \in live /\ EntryRange(i) # a BY <2>1, <1>7, <1>9 DEF Owned
    <3>2. EntryRange(i).va = table[i].va BY DEF EntryRange
    <3>3. table[i].va # a.va BY <3>1, <3>2, <1>1, <1>a, Meet
    <3> QED BY <2>1, <3>3, <1>3, <1>4
  <2> QED BY <1>a, <1>7, <1>8, <1>9, <2>1, HaveFrame
<1>11. KnownEntry' BY <1>a, <1>1, <1>8, KnownFrame
<1>12. Clean'
  <2> SUFFICES ASSUME overlapped = "no"
               PROVE  /\ raced' = {} /\ \A i \in Unfreed' : EntryRange(i)' \in Recorded'
                      /\ \A i, k \in Unfreed' : EntryRange(i)' = EntryRange(k)' => i = k
    BY <1>1 DEF Clean
  <2>1. /\ raced = {} /\ \A i \in Unfreed : EntryRange(i) \in Recorded
        /\ \A i, k \in Unfreed : EntryRange(i) = EntryRange(k) => i = k
    BY <1>a DEF Clean
  <2>2. Unfreed' = Unfreed \ H /\ Unfreed \subseteq Slots
    BY <1>1, <1>3, <1>4 DEF Unfreed, Published
  <2>3. \A i \in Unfreed : EntryRange(i) = a => i \in H
    <3> SUFFICES ASSUME NEW i \in Unfreed, EntryRange(i) = a PROVE i \in H OBVIOUS
    <3>1. i \in Entries(a.va) BY DEF Entries, Unfreed, EntryRange
    <3>2. ASSUME NEW k \in Entries(a.va) PROVE k = i
      <4>1. k \in Unfreed /\ table[k].va = a.va BY DEF Entries, Unfreed
      <4>2. EntryRange(k) \in live /\ EntryRange(k).va = a.va BY <2>1, <4>1 DEF Recorded, EntryRange
      <4>3. EntryRange(k) = a BY <4>2, <1>1, <1>a, Meet
      <4> QED BY <4>1, <4>3, <2>1
    <3>3. i \in Int BY TableAssumption DEF Unfreed, Published, Slots
    <3> QED BY <3>1, <3>2, <3>3 DEF H
  <2>4. Recorded' = Recorded \ {a} BY <1>1, <1>7 DEF Recorded
  <2> QED BY <1>1, <1>8, <2>1, <2>2, <2>3, <2>4
<1>13. TypeOK'
  <2>1. table' \in [Slots -> Entry] BY <1>1, <1>4
  <2> QED BY <2>1, <1>1, <1>a DEF TypeOK, Entry
<1>14. Apart' BY <1>1, <1>a DEF Apart
<1>15. Hooks'
  <2>1. \A u \in Threads : u # t /\ pc[u] # "idle" => arg[u] # a BY <1>1 DEF Pending
  <2>2. \A u \in Fresh' : u # t /\ u \in Fresh /\ u \in Threads BY <1>5, <1>6 DEF Fresh
  <2> QED BY <1>1, <1>2, <2>1, <2>2, <1>a DEF Hooks
<1>16. Alone'
  <2>1. \A u \in Recorders : u # t /\ u \in Threads BY <1>6 DEF Recorders
  <2>2. ASSUME NEW u \in Recorders
        PROVE  /\ idx'[u] < Max
               /\ arg'[u] \notin raced' =>
                    /\ Recorders' = {u} /\ idx'[u] = count'
                    /\ pc'[u] \in {"size", "bump"} => table'[count'].va = arg'[u].va
                    /\ pc'[u] = "bump" => table'[count'].size = arg'[u].size /\ ~table'[count'].freed
    <3>1. idx[u] < Max BY <1>a DEF Alone
    <3>2. ASSUME arg[u] \notin raced PROVE count \in Slots /\ count \notin H
      <4>1. idx[u] = count BY <3>2, <1>a DEF Alone
      <4>2. count \notin Published BY <1>a DEF Published
      <4> QED BY <3>1, <4>1, <4>2, <1>3, <1>a, TableAssumption DEF Slots
    <3> QED BY <1>1, <1>2, <1>4, <1>5, <2>1, <3>1, <3>2, <1>a DEF Alone
  <2> QED BY <1>5, <2>2 DEF Alone
<1> QED BY <1>10, <1>11, <1>12, <1>13, <1>14, <1>15, <1>16 DEF TableInv

(* The freed allocation leaves every set it was in.                        *)
LEMMA FreeStep ==
  ASSUME TableInv, NEW t \in Threads, Free(t) PROVE TableInv'
<1>a. /\ TypeOK /\ Apart /\ Hooks /\ Alone /\ HaveEntry /\ KnownEntry /\ Clean
      /\ live \subseteq Ranges
      /\ pc \in [Threads -> {"idle", "user", "userset", "slot", "va", "size", "bump", "free"}]
      /\ arg \in [Threads -> Ranges \cup {None}]
  BY Facts
<1>1. /\ pc[t] = "free" /\ live' = live \ {arg[t]} /\ dropped' = dropped \ {arg[t]}
      /\ h2d' = h2d \ {arg[t]} /\ raced' = raced \ {arg[t]} /\ known' = known \ {arg[t]}
      /\ pc' = [pc EXCEPT ![t] = "idle"] /\ arg' = [arg EXCEPT ![t] = None]
      /\ UNCHANGED <<count, table, user, idx, cpc, n_allocs, user_read, overlapped>>
  BY DEF Free, core
<1>2. /\ pc'[t] = "idle" /\ \A u \in Threads : u # t => pc'[u] = pc[u] /\ arg'[u] = arg[u]
  BY <1>1, <1>a
<1>3. Recorders' = Recorders /\ Fresh' = Fresh /\ t \notin Fresh /\ t \notin Recorders
  BY <1>1, <1>2 DEF Recorders, Fresh
<1>4. \A u \in Threads : u # t /\ pc[u] # "idle" => arg[u] # arg[t] BY <1>1, <1>a DEF Hooks
<1>5. Pending' = Pending \ {arg[t]} /\ arg[t] \in Pending BY <1>1, <1>2, <1>4 DEF Pending
<1>6. \A i \in Slots : Solid(i)' = Solid(i) /\ EntryRange(i)' = EntryRange(i)
  BY <1>1, <1>3 DEF Solid, Published, EntryRange
<1>7. Owned' = Owned \ {arg[t]}
  <2>1. {arg'[u] : u \in Fresh'} = {arg[u] : u \in Fresh} BY <1>2, <1>3 DEF Fresh
  <2> QED BY <1>1, <2>1 DEF Owned
<1>8. HaveEntry' BY <1>a, <1>1, <1>5, <1>6, <1>7, HaveFrame
<1>9. KnownEntry' BY <1>a, <1>1, <1>6, KnownFrame
<1>10. Recorded' = Recorded /\ Unfreed' = Unfreed /\ Unfreed \subseteq Slots
  BY <1>1, <1>5 DEF Recorded, Unfreed, Published
<1>11. Clean' BY <1>a, <1>1, <1>6, <1>10, CleanFrame
<1>12. TypeOK' BY <1>1, <1>a DEF TypeOK
<1>13. Apart' BY <1>1, <1>a DEF Apart
<1>14. Hooks'
  <2>1. \A u \in Fresh : u # t /\ u \in Threads /\ pc[u] # "idle" BY <1>3 DEF Fresh
  <2> QED BY <1>1, <1>2, <1>3, <1>4, <2>1, <1>a DEF Hooks
<1>15. Alone'
  <2>1. \A u \in Recorders : u # t /\ u \in Threads /\ pc[u] # "idle" BY <1>3 DEF Recorders
  <2>2. \A u \in Recorders : arg'[u] \notin raced' => arg[u] \notin raced
    BY <1>1, <1>2, <1>4, <2>1
  <2> QED BY <1>1, <1>2, <1>3, <2>1, <2>2, <1>a DEF Alone
<1> QED BY <1>8, <1>9, <1>11, <1>12, <1>13, <1>14, <1>15 DEF TableInv

(* The flag of a host-to-device copy is none of those that matter here.    *)
LEMMA MarkH2DStep ==
  ASSUME TableInv, NEW t \in Threads, NEW a \in Ranges, NEW addr \in 1..Units, MarkH2D(t, a, addr)
  PROVE  TableInv'
<1>a. /\ TypeOK /\ Apart /\ Hooks /\ Alone /\ HaveEntry /\ KnownEntry /\ Clean
      /\ idx \in [Threads -> 0..Max] /\ table \in [Slots -> Entry] /\ count \in 0..Max
  BY Facts
<1> DEFINE hits == {i \in Published : table[i].va <= addr /\ addr < table[i].va + table[i].size}
           H == {i \in hits : \A k \in hits : i <= k}
<1>1. /\ a \in live /\ h2d' = h2d \cup {a}
      /\ UNCHANGED <<live, count, user, pc, arg, idx, dropped, cpc, n_allocs, user_read, raced, overlapped, known>>
      /\ table' = [i \in Slots |-> IF i \in H THEN [table[i] EXCEPT !.h2d = TRUE] ELSE table[i]]
  BY DEF MarkH2D, core, race
<1> HIDE DEF H
<1>2. \A i \in Slots : /\ table'[i] \in Entry
                       /\ table'[i].va = table[i].va /\ table'[i].size = table[i].size
                       /\ table'[i].freed = table[i].freed
  <2> SUFFICES ASSUME NEW i \in Slots
               PROVE  /\ table'[i] \in Entry
                      /\ table'[i].va = table[i].va /\ table'[i].size = table[i].size
                      /\ table'[i].freed = table[i].freed
    OBVIOUS
  <2>1. table[i] \in Entry BY <1>a
  <2>2. CASE i \in H
    <3>1. table'[i] = [table[i] EXCEPT !.h2d = TRUE] BY <1>1, <2>2
    <3> QED BY <3>1, <2>1, FlagFacts
  <2>3. CASE i \notin H
    <3>1. table'[i] = table[i] BY <1>1, <2>3
    <3> QED BY <3>1, <2>1
  <2> QED BY <2>2, <2>3
<1>3. Recorders' = Recorders /\ Fresh' = Fresh /\ Pending' = Pending /\ Published' = Published
  BY <1>1 DEF Recorders, Fresh, Pending, Published
<1>4. \A i \in Slots : EntryRange(i)' = EntryRange(i) /\ Solid(i)' = Solid(i)
  BY <1>1, <1>2, <1>3 DEF EntryRange, Solid
<1>5. Owned' = Owned /\ Recorded' = Recorded BY <1>1, <1>3 DEF Owned, Recorded
<1>6. HaveEntry' BY <1>a, <1>2, <1>3, <1>4, <1>5, HaveFrame
<1>7. KnownEntry' BY <1>a, <1>1, <1>4, KnownFrame
<1>8. Unfreed' = Unfreed /\ Unfreed \subseteq Slots BY <1>2, <1>3 DEF Unfreed, Published
<1>9. Clean' BY <1>a, <1>1, <1>4, <1>5, <1>8, CleanFrame
<1>10. TypeOK'
  <2>1. table' \in [Slots -> Entry] BY <1>1, <1>2
  <2> QED BY <2>1, <1>1, <1>a DEF TypeOK, Entry
<1>11. Apart' BY <1>1, <1>a DEF Apart
<1>12. Hooks' BY <1>1, <1>3, <1>a DEF Hooks
<1>13. Alone'
  <2>1. ASSUME NEW u \in Recorders, arg[u] \notin raced PROVE count \in Slots
    <3>1. idx[u] = count /\ idx[u] < Max BY <2>1, <1>a DEF Alone
    <3> QED BY <3>1, <1>a, TableAssumption DEF Slots
  <2> QED BY <1>1, <1>2, <1>3, <2>1, <1>a DEF Alone
<1> QED BY <1>6, <1>7, <1>9, <1>10, <1>11, <1>12, <1>13 DEF TableInv

(* The count that ckpt_core reads covers every solid entry.                *)
LEMMA CoreStep ==
  ASSUME TableInv, CoreOpen \/ CoreExit PROVE TableInv'
<1>a. /\ TypeOK /\ Apart /\ Hooks /\ Alone /\ HaveEntry /\ KnownEntry /\ Clean /\ count \in 0..Max
  BY Facts
<1>1. /\ UNCHANGED <<live, count, table, user, pc, arg, idx, dropped, h2d, raced, overlapped>>
      /\ cpc' \in {"out", "open"} /\ user_read' \in [va : Int, size : Int]
      /\ \/ known' = {} /\ n_allocs' = 0
         \/ known' = Recorded \ raced /\ n_allocs' = count
  <2>1. CASE CoreOpen BY <2>1, <1>a DEF CoreOpen, race, TypeOK
  <2>2. CASE CoreExit BY <2>2 DEF CoreExit, race
  <2> QED BY <2>1, <2>2
<1>2. {arg[u] : u \in Fresh} \subseteq Pending BY DEF Fresh, Pending
<1>3. /\ Recorders' = Recorders /\ Fresh' = Fresh /\ Pending' = Pending /\ Owned' = Owned
      /\ Recorded' = Recorded /\ Unfreed' = Unfreed /\ Unfreed \subseteq Slots
  BY <1>1 DEF Recorders, Fresh, Pending, Owned, Recorded, Unfreed, Published
<1>4. \A i \in Slots : EntryRange(i)' = EntryRange(i) /\ Solid(i)' = Solid(i)
  BY <1>1, <1>3 DEF EntryRange, Solid, Published
<1>5. Recorded \ raced \subseteq Owned BY <1>2 DEF Recorded, Owned
<1>6. KnownEntry'
  <2> SUFFICES ASSUME NEW b \in known'
               PROVE  \E i \in Slots : Solid(i)' /\ i < n_allocs' /\ EntryRange(i)' = b
    BY DEF KnownEntry
  <2>1. b \in Owned /\ n_allocs' = count BY <1>1, <1>5
  <2>2. PICK i \in Slots : Solid(i) /\ EntryRange(i) = b BY <2>1, <1>a DEF HaveEntry
  <2>3. i < count BY <2>2 DEF Solid, Published
  <2> QED BY <1>4, <2>1, <2>2, <2>3
<1>7. HaveEntry' BY <1>a, <1>1, <1>3, <1>4, HaveFrame
<1>8. Clean' BY <1>a, <1>1, <1>3, <1>4, CleanFrame
<1>9. TypeOK'
  <2>1. known' \subseteq live BY <1>1 DEF Recorded
  <2>2. n_allocs' \in 0..Max BY <1>1, <1>a, TableAssumption
  <2> QED BY <1>1, <2>1, <2>2, <1>a DEF TypeOK
<1>10. Apart' BY <1>1, <1>a DEF Apart
<1>11. Hooks'
  <2>1. known' \cap {arg[u] : u \in Fresh} = {} BY <1>1, <1>2 DEF Recorded
  <2> QED BY <1>1, <1>3, <2>1, <1>a DEF Hooks
<1>12. Alone' BY <1>1, <1>3, <1>a DEF Alone
<1> QED BY <1>6, <1>7, <1>8, <1>9, <1>10, <1>11, <1>12 DEF TableInv

(* Every step keeps the invariant.                                         *)
LEMMA TableStep == TableInv /\ [Next]_vars => TableInv'
<1> SUFFICES ASSUME TableInv, [Next]_vars PROVE TableInv' OBVIOUS
<1>1. CASE Next
  <2>1. CASE CoreOpen \/ CoreExit BY <2>1, CoreStep
  <2>2. ASSUME NEW t \in Threads, NEW a \in Ranges, Malloc(t, a) \/ MarkFreed(t, a) PROVE TableInv'
    BY <2>2, MallocStep, MarkFreedStep
  <2>3. ASSUME NEW t \in Threads,
               UserCheck(t) \/ UserSet(t) \/ TakeSlot(t) \/ FillVa(t) \/ FillSize(t) \/ Publish(t) \/ Free(t)
        PROVE  TableInv'
    BY <2>3, UserStep, TakeSlotStep, FillStep, PublishStep, FreeStep
  <2>4. ASSUME NEW t \in Threads, NEW a \in Ranges, NEW addr \in 1..Units, MarkH2D(t, a, addr)
        PROVE  TableInv'
    BY <2>4, MarkH2DStep
  <2> QED BY ONLY <1>1, <2>1, <2>2, <2>3, <2>4 DEF Next
<1>2. CASE UNCHANGED vars
  BY <1>2 DEF vars, core, race, TableInv, TypeOK, Apart, Hooks, Fresh, Alone, Recorders, HaveEntry,
    Owned, Solid, Published, EntryRange, Pending, KnownEntry, Clean, Unfreed, Recorded
<1> QED BY <1>1, <1>2

(* However many threads of however many processes allocate and free at     *)
(* once through the hooks, which take no lock, an allocation that no other *)
(* thread was recording beside keeps an entry that none of them overwrites *)
(* or unpublishes (gate_record_alloc, gate_mark_freed).                    *)
THEOREM TableInvariance == Spec => []TableInv
  BY TableInit, TableStep, PTL DEF Spec

(* The in-app baseline copies every live allocation that was recorded      *)
(* alone, and as long as no two recordings have overlapped nothing else,   *)
(* for any number of threads and any size of table.                        *)
THEOREM BaselineCopiesLive == Spec => []BaselineIsLive
<1>1. TableInv => BaselineIsLive
  <2> SUFFICES ASSUME TableInv, Pending = {}
               PROVE  /\ live \ (dropped \cup raced) \subseteq BaselineRanges
                      /\ overlapped = "no" => BaselineRanges \subseteq live \ dropped
    BY DEF BaselineIsLive
  <2>a. HaveEntry /\ Clean BY Facts
  <2>1. {arg[t] : t \in Fresh} = {} BY DEF Pending, Fresh
  <2>2. ASSUME NEW a \in live \ (dropped \cup raced) PROVE a \in BaselineRanges
    <3>1. a \in Owned BY <2>1 DEF Owned
    <3>2. PICK i \in Slots : Solid(i) /\ EntryRange(i) = a /\ ~table[i].freed
      BY <3>1, <2>a DEF HaveEntry
    <3> QED BY <3>2 DEF Solid, Unfreed, BaselineRanges
  <2>3. overlapped = "no" => BaselineRanges \subseteq live \ dropped
    BY <2>a DEF Clean, BaselineRanges, Recorded
  <2> QED BY <2>2, <2>3
<1> QED BY <1>1, TableInvariance, PTL

(* What was recorded alone when ckpt_core read the count and is still      *)
(* allocated is captured, whatever the other threads have done to the      *)
(* table since (the filter of GET_VA_RANGES in ckpt_core).                 *)
THEOREM LiveIsKept == Spec => []LiveKept
<1>1. TableInv => LiveKept
  <2> SUFFICES ASSUME TableInv, NEW a \in known PROVE Kept(a) BY DEF LiveKept
  <2>a. /\ KnownEntry /\ known \subseteq live /\ live \subseteq Ranges /\ n_allocs \in 0..Max
        /\ table \in [Slots -> Entry]
    BY Facts DEF TypeOK
  <2>1. PICK i \in Slots : i < n_allocs /\ EntryRange(i) = a BY <2>a DEF KnownEntry
  <2>2. table[i].va = a.va /\ table[i].size = a.size BY <2>1 DEF EntryRange
  <2>3. a.va \in Int /\ a.size \in Int BY <2>a, RangeFacts
  <2>4. Within(a, table[i]) BY <2>2, <2>3 DEF Within
  <2>5. n_allocs > 0 BY <2>1, <2>a, TableAssumption DEF Slots
  <2>6. i \in Covering(a) BY <2>1, <2>4 DEF Covering
  <2> QED BY <2>5, <2>6 DEF Kept
<1> QED BY <1>1, TableInvariance, PTL

=============================================================================
