SPECIFICATION FairSpec
CONSTANTS
  MaxId = 3
  Ops = {"spawn_user", "sleep", "join", "exit"}
  Killers = {}
  Codes = {0}
  MaxSleep = 2
  TimesliceTicks = 2
  MaxThreads = 4
  MaxRetired = 4
  NumSlots = 4
PROPERTIES
  EventuallyRuns
  JoinReturns
CHECK_DEADLOCK FALSE
