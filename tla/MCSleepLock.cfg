SPECIFICATION FairSpec
CONSTANTS
  t1 = t1
  t2 = t2
  t3 = t3
  Threads = {t1, t2, t3}
  Killable = {t3}
  Mutexes = {m}
  Sems = {s}
  InitPermits = 1
  MaxReleases = 1
  NoOwner = NoOwner
INVARIANTS
  TypeOK
  MutualExclusion
  OneTokenPerLock
  OwnerTracksGuard
  PermitConservation
  WaitersReachable
PROPERTIES
  HandoffDelivered
CHECK_DEADLOCK FALSE
