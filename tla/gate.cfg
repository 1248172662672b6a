SPECIFICATION Spec
CONSTANTS
  t1 = t1
  t2 = t2
  c1 = c1
  NoThread = NoThread
  Threads = {t1, t2}
  Owner = {t1, t2}
  Modes = {"v3", "pause", "stun", "p1d", "p1e"}
  Env = {"fail", "kill", "exit"}
  MaxRounds = 2
  MaxAllocs = 1
INVARIANT BoundaryHeld
INVARIANT BaselineAnswersRound
CHECK_DEADLOCK FALSE
