SPECIFICATION Spec
CONSTANTS
  t1 = t1
  t2 = t2
  None = None
  Threads = {t1, t2}
  Units = 2
  Max = 3
SYMMETRY Symm
INVARIANT BaselineIsLive
INVARIANT LiveKept
INVARIANT StaticIsFilled
CHECK_DEADLOCK FALSE
