------------------------ MODULE DirtyTracking_proof ------------------------
(***************************************************************************)
(* Proofs about DirtyTracking, for every set of pages, blocks and values   *)
(* and for every environment.                                              *)
(***************************************************************************)
EXTENDS DirtyTracking, TLAPS

(* The initial state: nothing is populated, nothing is tracked.            *)
LEMMA InitInv == Init => TrackingInv
  BY TrackingAssumption
  DEF Init, TrackingInv, TypeOK, Structure, PrepareInv, TrackedInv, ReadInv,
      CaptureExact, KeepsBase, Tracked

(* Every step keeps the types of the driver's flags and of the progress.   *)
LEMMA TypeStep == TypeOK /\ [Next]_vars => TypeOK'
<1> SUFFICES ASSUME TypeOK, [Next]_vars PROVE TypeOK'
  OBVIOUS
<1> USE TrackingAssumption DEF TypeOK
<1>1. CASE PrepareStart BY <1>1 DEF PrepareStart
<1>2. CASE PrepareDone BY <1>2 DEF PrepareDone, StartBaseRead
<1>3. CASE PrepareFail BY <1>3 DEF PrepareFail, StartBaseRead
<1>4. ASSUME NEW b \in Blocks, PrepareMark(b) PROVE TypeOK'
  BY <1>4 DEF PrepareMark
<1>5. ASSUME NEW b \in Blocks, PrepareRevoke(b) PROVE TypeOK'
  BY <1>5 DEF PrepareRevoke
<1>6. ASSUME NEW p \in Pages, Pass1(p) PROVE TypeOK'
  BY <1>6 DEF Pass1, CopyOf
<1>7. ASSUME NEW p \in Pages, Pass2(p) PROVE TypeOK'
  BY <1>7 DEF Pass2, CopyOf
<1>8. CASE ReadFail BY <1>8 DEF ReadFail
<1>9. CASE BaseDone BY <1>9 DEF BaseDone
<1>10. CASE DeltaDone BY <1>10 DEF DeltaDone
<1>11. CASE FinalizeStart BY <1>11 DEF FinalizeStart
<1>12. CASE FinalizeDone BY <1>12 DEF FinalizeDone
<1>13. ASSUME NEW b \in Blocks, FinalizeBlock(b) PROVE TypeOK'
  BY <1>13 DEF FinalizeBlock, PagesOf
<1>14. ASSUME NEW b \in Blocks, FinalizeSkip(b) PROVE TypeOK'
  BY <1>14 DEF FinalizeSkip
<1>15. CASE Resume BY <1>15 DEF Resume
<1>16. CASE RoundEnd BY <1>16 DEF RoundEnd
<1>17. ASSUME NEW p \in Pages, NEW v \in Values, GpuWrite(p, v) PROVE TypeOK'
  BY <1>17 DEF GpuWrite, Unrecorded
<1>18. ASSUME NEW p \in Pages, NEW v \in Values, HostWrite(p, v) PROVE TypeOK'
  BY <1>18 DEF HostWrite, BlockCreate, Unrecorded
<1>19. ASSUME NEW p \in Pages, GpuFault(p) PROVE TypeOK'
  BY <1>19 DEF GpuFault, BlockCreate, PagesOf
<1>20. ASSUME NEW b \in Blocks, Evict(b) PROVE TypeOK'
  BY <1>20 DEF Evict
<1>21. ASSUME NEW b \in Blocks, RevokeLands(b) PROVE TypeOK'
  BY <1>21 DEF RevokeLands
<1>22. CASE AtBoundary BY <1>22 DEF AtBoundary
<1>23. CASE UNCHANGED vars BY <1>23 DEF vars
<1> QED
  BY <1>1, <1>2, <1>3, <1>4, <1>5, <1>6, <1>7, <1>8, <1>9, <1>10, <1>11, <1>12,
     <1>13, <1>14, <1>15, <1>16, <1>17, <1>18, <1>19, <1>20, <1>21, <1>22, <1>23
  DEF Next, Agent, Application

(* Every step keeps the invariant.  One step per action, one per conjunct.  *)
LEMMA InvStep == TrackingInv /\ [Next]_vars => TrackingInv'
<1> SUFFICES ASSUME TrackingInv, [Next]_vars PROVE TrackingInv'
  OBVIOUS
<1> USE TrackingAssumption DEF TrackingInv
<1>0. TypeOK' BY TypeStep
<1>1. CASE PrepareStart
  <2>1. Structure' BY <1>1 DEF PrepareStart, TypeOK, Structure
  <2>2. PrepareInv' BY <1>1 DEF PrepareStart, TypeOK, Structure, PrepareInv
  <2>3. TrackedInv' BY <1>1 DEF PrepareStart, TypeOK, Structure, TrackedInv, Tracked
  <2>4. ReadInv' BY <1>1 DEF PrepareStart, TypeOK, Structure, ReadInv, KeepsBase, Tracked, TrackedInv
  <2>5. CaptureExact' BY <1>1 DEF PrepareStart, TypeOK, Structure, CaptureExact, ReadInv, KeepsBase
  <2> QED BY <1>0, <2>1, <2>2, <2>3, <2>4, <2>5
<1>2. CASE PrepareDone
  <2>1. Structure' BY <1>2 DEF PrepareDone, StartBaseRead, TypeOK, Structure
  <2>2. PrepareInv' BY <1>2 DEF PrepareDone, StartBaseRead, TypeOK, Structure, PrepareInv
  <2>3. TrackedInv' BY <1>2 DEF PrepareDone, StartBaseRead, TypeOK, Structure, TrackedInv, Tracked, PrepareInv
  <2>4. ReadInv'
    BY <1>2 DEF PrepareDone, StartBaseRead, TypeOK, Structure, ReadInv, KeepsBase, Tracked, TrackedInv
  <2>5. CaptureExact'
    BY <1>2 DEF PrepareDone, StartBaseRead, TypeOK, Structure, CaptureExact, ReadInv, KeepsBase
  <2> QED BY <1>0, <2>1, <2>2, <2>3, <2>4, <2>5
<1>3. CASE PrepareFail
  <2>1. Structure' BY <1>3 DEF PrepareFail, StartBaseRead, TypeOK, Structure
  <2>2. PrepareInv' BY <1>3 DEF PrepareFail, StartBaseRead, TypeOK, Structure, PrepareInv
  <2>3. TrackedInv' BY <1>3 DEF PrepareFail, StartBaseRead, TypeOK, Structure, TrackedInv, Tracked, PrepareInv
  <2>4. ReadInv'
    BY <1>3 DEF PrepareFail, StartBaseRead, TypeOK, Structure, ReadInv, KeepsBase, Tracked, TrackedInv
  <2>5. CaptureExact'
    BY <1>3 DEF PrepareFail, StartBaseRead, TypeOK, Structure, CaptureExact, ReadInv, KeepsBase
  <2> QED BY <1>0, <2>1, <2>2, <2>3, <2>4, <2>5
<1>4. ASSUME NEW b \in Blocks, PrepareMark(b) PROVE TrackingInv'
  <2>1. Structure' BY <1>4 DEF PrepareMark, TypeOK, Structure
  <2>2. PrepareInv' BY <1>4 DEF PrepareMark, TypeOK, Structure, PrepareInv
  <2>3. TrackedInv' BY <1>4 DEF PrepareMark, TypeOK, Structure, TrackedInv, Tracked
  <2>4. ReadInv' BY <1>4 DEF PrepareMark, TypeOK, Structure, ReadInv, KeepsBase, Tracked, TrackedInv
  <2>5. CaptureExact' BY <1>4 DEF PrepareMark, TypeOK, Structure, CaptureExact, ReadInv, KeepsBase
  <2> QED BY <1>0, <2>1, <2>2, <2>3, <2>4, <2>5
<1>5. ASSUME NEW b \in Blocks, PrepareRevoke(b) PROVE TrackingInv'
  <2>1. Structure' BY <1>5 DEF PrepareRevoke, PagesOf, TypeOK, Structure
  <2>2. PrepareInv' BY <1>5 DEF PrepareRevoke, PagesOf, TypeOK, Structure, PrepareInv
  <2>3. TrackedInv' BY <1>5 DEF PrepareRevoke, PagesOf, TypeOK, Structure, TrackedInv, Tracked
  <2>4. ReadInv' BY <1>5 DEF PrepareRevoke, PagesOf, TypeOK, Structure, ReadInv, KeepsBase, Tracked, TrackedInv
  <2>5. CaptureExact' BY <1>5 DEF PrepareRevoke, PagesOf, TypeOK, Structure, CaptureExact, ReadInv, KeepsBase
  <2> QED BY <1>0, <2>1, <2>2, <2>3, <2>4, <2>5
<1>6. ASSUME NEW p \in Pages, Pass1(p) PROVE TrackingInv'
  <2>1. Structure' BY <1>6 DEF Pass1, CopyOf, DirtyOnly, TypeOK, Structure
  <2>2. PrepareInv' BY <1>6 DEF Pass1, CopyOf, DirtyOnly, TypeOK, Structure, PrepareInv
  <2>3. TrackedInv' BY <1>6 DEF Pass1, CopyOf, DirtyOnly, TypeOK, Structure, TrackedInv, Tracked
  <2>4. ReadInv'
    BY <1>6 DEF Pass1, CopyOf, DirtyOnly, TypeOK, Structure, ReadInv, KeepsBase, Tracked, TrackedInv
  <2>5. CaptureExact' BY <1>6 DEF Pass1, CopyOf, DirtyOnly, TypeOK, Structure, CaptureExact, ReadInv, KeepsBase
  <2> QED BY <1>0, <2>1, <2>2, <2>3, <2>4, <2>5
<1>7. ASSUME NEW p \in Pages, Pass2(p) PROVE TrackingInv'
  <2>1. Structure' BY <1>7 DEF Pass2, CopyOf, TypeOK, Structure
  <2>2. PrepareInv' BY <1>7 DEF Pass2, CopyOf, TypeOK, Structure, PrepareInv
  <2>3. TrackedInv' BY <1>7 DEF Pass2, CopyOf, TypeOK, Structure, TrackedInv, Tracked
  <2>4. ReadInv' BY <1>7 DEF Pass2, CopyOf, TypeOK, Structure, ReadInv, KeepsBase, Tracked, TrackedInv
  <2>5. CaptureExact' BY <1>7 DEF Pass2, CopyOf, TypeOK, Structure, CaptureExact, ReadInv, KeepsBase
  <2> QED BY <1>0, <2>1, <2>2, <2>3, <2>4, <2>5
<1>8. CASE ReadFail
  <2>1. Structure' BY <1>8 DEF ReadFail, TypeOK, Structure
  <2>2. PrepareInv' BY <1>8 DEF ReadFail, TypeOK, Structure, PrepareInv
  <2>3. TrackedInv' BY <1>8 DEF ReadFail, TypeOK, Structure, TrackedInv, Tracked
  <2>4. ReadInv' BY <1>8 DEF ReadFail, TypeOK, Structure, ReadInv, KeepsBase, Tracked, TrackedInv
  <2>5. CaptureExact' BY <1>8 DEF ReadFail, TypeOK, Structure, CaptureExact, ReadInv, KeepsBase
  <2> QED BY <1>0, <2>1, <2>2, <2>3, <2>4, <2>5
<1>9. CASE BaseDone
  <2>1. Structure' BY <1>9 DEF BaseDone, ScanDone, TypeOK, Structure
  <2>2. PrepareInv' BY <1>9 DEF BaseDone, ScanDone, TypeOK, Structure, PrepareInv
  <2>3. TrackedInv' BY <1>9 DEF BaseDone, ScanDone, TypeOK, Structure, TrackedInv, Tracked
  <2>4. ReadInv' BY <1>9 DEF BaseDone, ScanDone, TypeOK, Structure, ReadInv, KeepsBase, Tracked, TrackedInv
  <2>5. CaptureExact' BY <1>9 DEF BaseDone, ScanDone, TypeOK, Structure, CaptureExact, ReadInv, KeepsBase
  <2> QED BY <1>0, <2>1, <2>2, <2>3, <2>4, <2>5
<1>10. CASE DeltaDone
  <2>1. Structure' BY <1>10 DEF DeltaDone, ScanDone, TypeOK, Structure
  <2>2. PrepareInv' BY <1>10 DEF DeltaDone, ScanDone, TypeOK, Structure, PrepareInv
  <2>3. TrackedInv' BY <1>10 DEF DeltaDone, ScanDone, TypeOK, Structure, TrackedInv, Tracked
  <2>4. ReadInv' BY <1>10 DEF DeltaDone, ScanDone, TypeOK, Structure, ReadInv, KeepsBase, Tracked, TrackedInv
  <2>5. CaptureExact' BY <1>10 DEF DeltaDone, ScanDone, TypeOK, Structure, CaptureExact, ReadInv, KeepsBase
  <2> QED BY <1>0, <2>1, <2>2, <2>3, <2>4, <2>5
<1>11. CASE FinalizeStart
  <2>1. Structure' BY <1>11 DEF FinalizeStart, TypeOK, Structure
  <2>2. PrepareInv' BY <1>11 DEF FinalizeStart, TypeOK, Structure, PrepareInv
  <2>3. TrackedInv' BY <1>11 DEF FinalizeStart, TypeOK, Structure, TrackedInv, Tracked
  <2>4. ReadInv' BY <1>11 DEF FinalizeStart, TypeOK, Structure, ReadInv, KeepsBase, Tracked, TrackedInv
  <2>5. CaptureExact' BY <1>11 DEF FinalizeStart, TypeOK, Structure, CaptureExact, ReadInv, KeepsBase
  <2> QED BY <1>0, <2>1, <2>2, <2>3, <2>4, <2>5
<1>12. CASE FinalizeDone
  <2>1. Structure' BY <1>12 DEF FinalizeDone, TypeOK, Structure
  <2>2. PrepareInv' BY <1>12 DEF FinalizeDone, TypeOK, Structure, PrepareInv
  <2>3. TrackedInv' BY <1>12 DEF FinalizeDone, TypeOK, Structure, TrackedInv, Tracked
  <2>4. ReadInv' BY <1>12 DEF FinalizeDone, TypeOK, Structure, ReadInv, KeepsBase, Tracked, TrackedInv
  <2>5. CaptureExact' BY <1>12 DEF FinalizeDone, TypeOK, Structure, CaptureExact, ReadInv, KeepsBase
  <2> QED BY <1>0, <2>1, <2>2, <2>3, <2>4, <2>5
<1>13. ASSUME NEW b \in Blocks, FinalizeBlock(b) PROVE TrackingInv'
  <2>1. Structure' BY <1>13 DEF FinalizeBlock, PagesOf, TypeOK, Structure
  <2>2. PrepareInv' BY <1>13 DEF FinalizeBlock, PagesOf, TypeOK, Structure, PrepareInv
  <2>3. TrackedInv' BY <1>13 DEF FinalizeBlock, PagesOf, TypeOK, Structure, TrackedInv, Tracked
  <2>4. ReadInv' BY <1>13 DEF FinalizeBlock, PagesOf, TypeOK, Structure, ReadInv, KeepsBase, Tracked, TrackedInv
  <2>5. CaptureExact' BY <1>13 DEF FinalizeBlock, PagesOf, TypeOK, Structure, CaptureExact, ReadInv, KeepsBase
  <2> QED BY <1>0, <2>1, <2>2, <2>3, <2>4, <2>5
<1>14. ASSUME NEW b \in Blocks, FinalizeSkip(b) PROVE TrackingInv'
  <2>1. Structure' BY <1>14 DEF FinalizeSkip, TypeOK, Structure
  <2>2. PrepareInv' BY <1>14 DEF FinalizeSkip, TypeOK, Structure, PrepareInv
  <2>3. TrackedInv' BY <1>14 DEF FinalizeSkip, TypeOK, Structure, TrackedInv, Tracked
  <2>4. ReadInv' BY <1>14 DEF FinalizeSkip, TypeOK, Structure, ReadInv, KeepsBase, Tracked, TrackedInv
  <2>5. CaptureExact' BY <1>14 DEF FinalizeSkip, TypeOK, Structure, CaptureExact, ReadInv, KeepsBase
  <2> QED BY <1>0, <2>1, <2>2, <2>3, <2>4, <2>5
<1>15. CASE Resume
  <2>1. Structure' BY <1>15 DEF Resume, TypeOK, Structure
  <2>2. PrepareInv' BY <1>15 DEF Resume, TypeOK, Structure, PrepareInv
  <2>3. TrackedInv' BY <1>15 DEF Resume, TypeOK, Structure, TrackedInv, Tracked
  <2>4. ReadInv' BY <1>15 DEF Resume, TypeOK, Structure, ReadInv, KeepsBase, Tracked, TrackedInv
  <2>5. CaptureExact' BY <1>15 DEF Resume, TypeOK, Structure, CaptureExact, ReadInv, KeepsBase
  <2> QED BY <1>0, <2>1, <2>2, <2>3, <2>4, <2>5
<1>16. CASE RoundEnd
  <2>1. Structure' BY <1>16 DEF RoundEnd, TypeOK, Structure
  <2>2. PrepareInv' BY <1>16 DEF RoundEnd, TypeOK, Structure, PrepareInv
  <2>3. TrackedInv' BY <1>16 DEF RoundEnd, TypeOK, Structure, TrackedInv, Tracked
  <2>4. ReadInv' BY <1>16 DEF RoundEnd, TypeOK, Structure, ReadInv, KeepsBase, Tracked, TrackedInv
  <2>5. CaptureExact' BY <1>16 DEF RoundEnd, TypeOK, Structure, CaptureExact, ReadInv, KeepsBase
  <2> QED BY <1>0, <2>1, <2>2, <2>3, <2>4, <2>5
<1>17. ASSUME NEW p \in Pages, NEW v \in Values, GpuWrite(p, v) PROVE TrackingInv'
  <2>1. Structure' BY <1>17 DEF GpuWrite, Unrecorded, Precopy, TypeOK, Structure
  <2>2. PrepareInv' BY <1>17 DEF GpuWrite, Unrecorded, Precopy, TypeOK, Structure, PrepareInv
  <2>3. TrackedInv' BY <1>17 DEF GpuWrite, Unrecorded, Precopy, TypeOK, Structure, TrackedInv, Tracked
  <2>4. ReadInv'
    BY <1>17 DEF GpuWrite, Unrecorded, Precopy, TypeOK, Structure, ReadInv, KeepsBase, Tracked, TrackedInv
  <2>5. CaptureExact'
    BY <1>17 DEF GpuWrite, Unrecorded, Precopy, TypeOK, Structure, CaptureExact, ReadInv, KeepsBase
  <2> QED BY <1>0, <2>1, <2>2, <2>3, <2>4, <2>5
<1>18. ASSUME NEW p \in Pages, NEW v \in Values, HostWrite(p, v) PROVE TrackingInv'
  <2>1. Structure'
    BY <1>18 DEF HostWrite, BlockCreate, Unrecorded, Precopy, VaSpaceWriteLocked, TypeOK, Structure
  <2>2. PrepareInv'
    BY <1>18 DEF HostWrite, BlockCreate, Unrecorded, Precopy, VaSpaceWriteLocked, TypeOK, Structure, PrepareInv
  <2>3. TrackedInv'
    BY <1>18
    DEF HostWrite, BlockCreate, Unrecorded, Precopy, VaSpaceWriteLocked, TypeOK, Structure, TrackedInv, Tracked
  <2>4. ReadInv'
    BY <1>18
    DEF HostWrite, BlockCreate, Unrecorded, Precopy, VaSpaceWriteLocked, TypeOK, Structure, ReadInv, KeepsBase, Tracked, TrackedInv
  <2>5. CaptureExact'
    BY <1>18
    DEF HostWrite, BlockCreate, Unrecorded, Precopy, VaSpaceWriteLocked, TypeOK, Structure, CaptureExact, ReadInv, KeepsBase
  <2> QED BY <1>0, <2>1, <2>2, <2>3, <2>4, <2>5
<1>19. ASSUME NEW p \in Pages, GpuFault(p) PROVE TrackingInv'
  <2>1. Structure' BY <1>19 DEF GpuFault, BlockCreate, PagesOf, VaSpaceWriteLocked, TypeOK, Structure
  <2>2. PrepareInv'
    BY <1>19 DEF GpuFault, BlockCreate, PagesOf, VaSpaceWriteLocked, TypeOK, Structure, PrepareInv
  <2>3. TrackedInv'
    BY <1>19 DEF GpuFault, BlockCreate, PagesOf, VaSpaceWriteLocked, TypeOK, Structure, TrackedInv, Tracked
  <2>4. ReadInv'
    BY <1>19
    DEF GpuFault, BlockCreate, PagesOf, VaSpaceWriteLocked, TypeOK, Structure, ReadInv, KeepsBase, Tracked, TrackedInv
  <2>5. CaptureExact'
    BY <1>19
    DEF GpuFault, BlockCreate, PagesOf, VaSpaceWriteLocked, TypeOK, Structure, CaptureExact, ReadInv, KeepsBase
  <2> QED BY <1>0, <2>1, <2>2, <2>3, <2>4, <2>5
<1>20. ASSUME NEW b \in Blocks, Evict(b) PROVE TrackingInv'
  <2>1. Structure' BY <1>20 DEF Evict, BetweenPasses, Precopy, PagesOf, TypeOK, Structure
  <2>2. PrepareInv' BY <1>20 DEF Evict, BetweenPasses, Precopy, PagesOf, TypeOK, Structure, PrepareInv
  <2>3. TrackedInv' BY <1>20 DEF Evict, BetweenPasses, Precopy, PagesOf, TypeOK, Structure, TrackedInv, Tracked
  <2>4. ReadInv'
    BY <1>20 DEF Evict, BetweenPasses, Precopy, PagesOf, TypeOK, Structure, ReadInv, KeepsBase, Tracked, TrackedInv
  <2>5. CaptureExact'
    BY <1>20 DEF Evict, BetweenPasses, Precopy, PagesOf, TypeOK, Structure, CaptureExact, ReadInv, KeepsBase
  <2> QED BY <1>0, <2>1, <2>2, <2>3, <2>4, <2>5
<1>21. ASSUME NEW b \in Blocks, RevokeLands(b) PROVE TrackingInv'
  <2>1. Structure' BY <1>21 DEF RevokeLands, PagesOf, TypeOK, Structure
  <2>2. PrepareInv' BY <1>21 DEF RevokeLands, PagesOf, TypeOK, Structure, PrepareInv
  <2>3. TrackedInv' BY <1>21 DEF RevokeLands, PagesOf, TypeOK, Structure, TrackedInv, Tracked
  <2>4. ReadInv' BY <1>21 DEF RevokeLands, PagesOf, TypeOK, Structure, ReadInv, KeepsBase, Tracked, TrackedInv
  <2>5. CaptureExact' BY <1>21 DEF RevokeLands, PagesOf, TypeOK, Structure, CaptureExact, ReadInv, KeepsBase
  <2> QED BY <1>0, <2>1, <2>2, <2>3, <2>4, <2>5
<1>22. CASE AtBoundary
  <2>1. Structure' BY <1>22 DEF AtBoundary, TypeOK, Structure
  <2>2. PrepareInv' BY <1>22 DEF AtBoundary, TypeOK, Structure, PrepareInv
  <2>3. TrackedInv' BY <1>22 DEF AtBoundary, TypeOK, Structure, TrackedInv, Tracked
  <2>4. ReadInv' BY <1>22 DEF AtBoundary, TypeOK, Structure, ReadInv, KeepsBase, Tracked, TrackedInv
  <2>5. CaptureExact' BY <1>22 DEF AtBoundary, TypeOK, Structure, CaptureExact, ReadInv, KeepsBase
  <2> QED BY <1>0, <2>1, <2>2, <2>3, <2>4, <2>5
<1>23. CASE UNCHANGED vars
  BY <1>23 DEF vars, TypeOK, Structure, PrepareInv, TrackedInv, Tracked, ReadInv, KeepsBase, CaptureExact
<1> QED
  BY <1>1, <1>2, <1>3, <1>4, <1>5, <1>6, <1>7, <1>8, <1>9, <1>10, <1>11, <1>12, <1>13, <1>14,
     <1>15, <1>16, <1>17, <1>18, <1>19, <1>20, <1>21, <1>22, <1>23
  DEF Next, Agent, Application

(* The inductive invariant holds in every state of every round.             *)
THEOREM Invariance == Spec => []TrackingInv
  BY InitInv, InvStep, PTL DEF Spec

(* The flags the driver keeps and ckpt_core's progress have their types.    *)
THEOREM TypeCorrect == Spec => []TypeOK
<1>1. TrackingInv => TypeOK BY DEF TrackingInv
<1> QED BY <1>1, Invariance, PTL

(* Base plus delta is the memory of the stopped application, in every block *)
(* no disturbance touched, for any number of pages, blocks and rounds and   *)
(* whatever failed in the rounds before.                                    *)
THEOREM Exact == Spec => []CaptureExact
<1>1. TrackingInv => CaptureExact BY DEF TrackingInv
<1> QED BY <1>1, Invariance, PTL

(* No write between PREPARE_ALL and the delta escapes the dirty flags, but  *)
(* for the disturbances.                                                    *)
THEOREM NoLostWrite == Spec => []WrittenIsDirty
<1>1. TrackingInv => WrittenIsDirty
  BY DEF TrackingInv, TypeOK, TrackedInv, WrittenIsDirty
<1> QED BY <1>1, Invariance, PTL

(* A step inside a tracked round keeps every dirty flag: the flags are      *)
(* cleared by PREPARE_ALL and FINALIZE only.                                *)
THEOREM DirtyMonotone == Spec => DirtyIsKept
<1> DEFINE Keeps == (agent \in Tracked /\ agent' \in Tracked) => (dirty \subseteq dirty')
<1>1. TrackingInv /\ [Next]_vars => [Keeps]_vars
  BY DEF Tracked, Next, Agent, Application, PrepareStart, PrepareDone, PrepareFail,
     PrepareMark, PrepareRevoke, Pass1, Pass2, ReadFail, BaseDone, DeltaDone,
     FinalizeStart, FinalizeDone, FinalizeBlock, FinalizeSkip, Resume, RoundEnd,
     GpuWrite, HostWrite, GpuFault, Evict, RevokeLands, AtBoundary, StartBaseRead
<1> QED BY <1>1, Invariance, PTL DEF Spec, DirtyIsKept

-----------------------------------------------------------------------------
(* The round is an atomic snapshot of the blocks no disturbance hit.        *)

(* A step of the round is a step of the abstract snapshot, or changes       *)
(* nothing of it: the delta's last page is the instant the snapshot is      *)
(* taken, and the end of the round drops it.                                *)
LEMMA SnapshotStep ==
  ASSUME TrackingInv, [Next]_vars
  PROVE  [Abs!Next]_(Abs!vars)
<1> USE DEF SnapBar, Lost, Abs!vars
<1>1. CASE PrepareStart
  <2>1. Abs!Disturb BY <1>1 DEF PrepareStart, Abs!Disturb
  <2>2. SnapBar = NoSnap BY <1>1 DEF PrepareStart
  <2> QED BY <2>1, <2>2 DEF Abs!Next
<1>2. CASE PrepareDone BY <1>2 DEF PrepareDone, StartBaseRead
<1>3. CASE PrepareFail
  <2>1. Abs!Disturb BY <1>3 DEF PrepareFail, StartBaseRead, Abs!Disturb
  <2>2. SnapBar = NoSnap BY <1>3 DEF PrepareFail
  <2> QED BY <2>1, <2>2 DEF Abs!Next
<1>4. CASE \E b \in Blocks : PrepareMark(b) BY <1>4 DEF PrepareMark
<1>5. CASE \E b \in Blocks : PrepareRevoke(b) BY <1>5 DEF PrepareRevoke
<1>6. CASE \E p \in Pages : Pass1(p) BY <1>6 DEF Pass1
<1>7. CASE \E p \in Pages : Pass2(p) BY <1>7 DEF Pass2
<1>8. CASE ReadFail BY <1>8 DEF ReadFail
<1>9. CASE BaseDone BY <1>9 DEF BaseDone
<1>10. CASE DeltaDone
  <2>1. app = "stopped" /\ image \in [Pages -> Values]
    BY <1>10 DEF DeltaDone, TrackingInv, TypeOK, Structure
  <2>2. \A p \in Pages \ Lost : image[p] = mem[p]
    BY <1>10 DEF DeltaDone, ScanDone, TrackingInv, ReadInv
  <2>3. SnapBar = NoSnap /\ SnapBar' = image /\ Lost' = Lost /\ UNCHANGED <<mem, app>>
    BY <1>10 DEF DeltaDone
  <2>4. Abs!Take BY <2>1, <2>2, <2>3 DEF Abs!Take
  <2> QED BY <2>3, <2>4 DEF Abs!Next
<1>11. CASE FinalizeStart BY <1>11 DEF FinalizeStart
<1>12. CASE FinalizeDone BY <1>12 DEF FinalizeDone
<1>13. CASE \E b \in Blocks : FinalizeBlock(b) BY <1>13 DEF FinalizeBlock
<1>14. CASE \E b \in Blocks : FinalizeSkip(b) BY <1>14 DEF FinalizeSkip
<1>15. CASE Resume
  <2>1. Abs!Resume /\ Lost' = Lost BY <1>15 DEF Resume, Abs!Resume
  <2> QED BY <2>1 DEF Abs!Next
<1>16. CASE RoundEnd
  <2>1. Abs!Drop BY <1>16 DEF RoundEnd, Abs!Drop
  <2>2. SnapBar' = NoSnap BY <1>16 DEF RoundEnd
  <2> QED BY <2>1, <2>2 DEF Abs!Next
<1>17. ASSUME NEW p \in Pages, NEW v \in Values, GpuWrite(p, v)
       PROVE [Abs!Next]_(Abs!vars)
  <2>1. Abs!Write(p, v) BY <1>17 DEF GpuWrite, Abs!Write
  <2>2. SnapBar # NoSnap => Lost' = Lost
    BY <1>17 DEF GpuWrite, Unrecorded, Precopy
  <2> QED BY <2>1, <2>2 DEF Abs!Next
<1>18. ASSUME NEW p \in Pages, NEW v \in Values, HostWrite(p, v)
       PROVE [Abs!Next]_(Abs!vars)
  <2>1. Abs!Write(p, v) BY <1>18 DEF HostWrite, Abs!Write
  <2>2. SnapBar # NoSnap => Lost' = Lost
    BY <1>18 DEF HostWrite, Unrecorded, Precopy
  <2> QED BY <2>1, <2>2 DEF Abs!Next
<1>19. CASE \E p \in Pages : GpuFault(p) BY <1>19 DEF GpuFault
<1>20. ASSUME NEW b \in Blocks, Evict(b) PROVE [Abs!Next]_(Abs!vars)
  <2>1. Abs!Disturb BY <1>20 DEF Evict, Abs!Disturb
  <2>2. SnapBar # NoSnap => Lost' = Lost
    BY <1>20 DEF Evict, BetweenPasses, Precopy
  <2> QED BY <2>1, <2>2 DEF Abs!Next
<1>21. CASE \E b \in Blocks : RevokeLands(b) BY <1>21 DEF RevokeLands
<1>22. CASE AtBoundary
  <2>1. Abs!Stop /\ Lost' = Lost BY <1>22 DEF AtBoundary, Abs!Stop
  <2> QED BY <2>1 DEF Abs!Next
<1>23. CASE UNCHANGED vars BY <1>23 DEF vars
<1> QED
  BY <1>1, <1>2, <1>3, <1>4, <1>5, <1>6, <1>7, <1>8, <1>9, <1>10, <1>11, <1>12,
     <1>13, <1>14, <1>15, <1>16, <1>17, <1>18, <1>19, <1>20, <1>21, <1>22, <1>23
  DEF Next, Agent, Application

(* A checkpoint is atomic: PREPARE_ALL, the concurrent base read, the       *)
(* boundary and the delta read together implement the abstract snapshot,    *)
(* although no step copies more than one page, in whatever environment; the *)
(* blocks it gives up are those a named disturbance hit until it was taken. *)
THEOREM Atomic == Spec => AbsSpec
<1>1. Init => Abs!Init BY DEF Init, Abs!Init, SnapBar, Lost
<1>2. TrackingInv /\ [Next]_vars => [Abs!Next]_(Abs!vars) BY SnapshotStep
<1> QED BY <1>1, <1>2, Invariance, PTL DEF Spec, AbsSpec, Abs!Spec
=============================================================================
