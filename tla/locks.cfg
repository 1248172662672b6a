SPECIFICATION FairSpec
CONSTANTS
  Spaces = {"s1", "s2"}
  Mappers = {"s1"}
  Leaky = {"s1"}
INVARIANT HeldByCalls
INVARIANT HandsOffFreed
INVARIANT SuspendExcludes
PROPERTY EveryoneProceeds
CHECK_DEADLOCK FALSE
