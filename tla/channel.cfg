SPECIFICATION Spec
CONSTANTS
  t1 = t1
  t2 = t2
  Threads = {t1, t2}
  Ce = {1, 2}
  Wlc = {3}
  NumGpfifo = 3
  WlcGpfifo = 4
  MaxComplete = 1
  IvMin = 2
  IvLimit = 2
  IvFull = 5
  Asked = {"CE", "WLC"}
  CtrlOn = {1}
  Failing = {1}
  MaxOps = 3
SYMMETRY Symm
INVARIANT RingSafe
INVARIANT KeyStable
INVARIANT WlcAtRest
INVARIANT IvSafe
INVARIANT NobodyStuck
CHECK_DEADLOCK FALSE
