SPECIFICATION Spec
CONSTANTS
  t1 = t1
  t2 = t2
  t3 = t3
  Threads = {t1, t2}
  Killable = {}
  Mutexes = {m}
  Sems = {}
  InitPermits = 0
  MaxReleases = 0
  NoOwner = NoOwner
INVARIANT NoLostWakeup
CHECK_DEADLOCK FALSE
