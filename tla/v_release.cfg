SPECIFICATION FairSpec
CONSTANTS
  t1 = t1
  t2 = t2
  c1 = c1
  NoThread = NoThread
  Threads = {t1}
  Owner = {t1}
  Modes = {"p1e"}
  Env = {}
  MaxRounds = 1
  MaxAllocs = 0
PROPERTY Released
CHECK_DEADLOCK FALSE
