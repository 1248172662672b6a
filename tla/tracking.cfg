SPECIFICATION Spec
CONSTANTS
  b1 = b1
  p1 = p1
  p2 = p2
  Blocks <- MCBlocks
  Pages <- MCPages
  BlockOf <- MCBlockOf
  Values = {0, 1}
  Zero = 0
  NoSnap = NoSnap
  Env = {"revoke_async", "revoke_fail", "evict", "host_write"}
INVARIANT CaptureExact
INVARIANT WrittenIsDirty
PROPERTY AbsSpec
CHECK_DEADLOCK FALSE
