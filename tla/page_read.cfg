SPECIFICATION FairSpec
CONSTANTS
  NPages = 4
  Placements <- MCPlacements
  MaxRun = 2
  InitCap = 2
  Threads = 2
  Channels = {"c1", "c2"}
  PoolSize = 1
  Calls <- MCCalls
  CCModes = {TRUE, FALSE}
  MaxFaults = 1
  MaxKey = 1
INVARIANT OkIsExact
INVARIANT RoundTrip
INVARIANT FailsOnlyForCause
INVARIANT BuffersSafe
PROPERTY CallEnds
CHECK_DEADLOCK FALSE
