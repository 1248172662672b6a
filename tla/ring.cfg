SPECIFICATION FairSpec
CONSTANTS
  w1 = w1
  a1 = a1
  a2 = a2
  NoJob = NoJob
  Workers = {w1}
  Apps = {a1, a2}
  N = 3
  NJobs = 4
  NAllocs = 2
  First <- MCFirst
  Count <- MCCount
  Faults = {"h2d", "decrypt", "pool", "thread", "static", "short"}
INVARIANT Exclusive
INVARIANT Restored
PROPERTY RestoreEnds
PROPERTY WorkersEnd
CHECK_DEADLOCK FALSE
