SPECIFICATION FairSpec
CONSTANTS
  w1 = w1
  w2 = w2
  s1 = s1
  s2 = s2
  s3 = s3
  s4 = s4
  NoSlot = NoSlot
  Writers = {w1, w2}
  Slots = {s1, s2, s3, s4}
  Capacity = 4
  NRanges = 5
  FreeStack <- MCFreeStack
  NPages <- MCNPages
  PageBytes = 1
  MetaBytes = 1
  Start <- MCStart
  Faults = {"capture", "thread", "sync"}
INVARIANT SlotOwned
INVARIANT ImageComplete
PROPERTY PipelineEnds
CHECK_DEADLOCK FALSE
