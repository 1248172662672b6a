SPECIFICATION FairSpec
CONSTANTS
  t1 = t1
  t2 = t2
  c1 = c1
  NoThread = NoThread
  Threads = {t1, t2, c1}
  Owner = {t1, t2}
  Modes = {"v3", "pause", "stun", "p1d"}
  Env = {}
  MaxRounds = 2
  MaxAllocs = 0
PROPERTY RoundEnds
PROPERTY Released
CHECK_DEADLOCK FALSE
