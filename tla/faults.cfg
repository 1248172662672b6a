SPECIFICATION FairSpec
CONSTANTS
  Modes <- MCModes
  Block <- MCBlock
  Perms <- MCPerms
  BadPages = {4}
  NumEntries = 3
  BatchSize = 2
  UpdatePutRatio = 40
  MaxBatches = 2
  MaxThrottle = 1
  MaxReplays = 2
  Events = {"perm", "evict", "detach", "nosub", "unregister", "fatal", "resume", "flush", "throttle", "retry", "oom", "parse"}
INVARIANTS NoFaultForgotten IvInStep BatchSpeaksForAll
PROPERTIES OnlyFatalCancelled AccessEnds
CHECK_DEADLOCK FALSE
