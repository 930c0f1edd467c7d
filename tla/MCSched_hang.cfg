SPECIFICATION Spec
CONSTANTS
  MaxId = 4
  Ops = {"yield", "spawn", "exit"}
  Killers = {}
  Codes = {0}
  MaxSleep = 0
  TimesliceTicks = 4
  MaxThreads = 5
  MaxRetired = 4
  NumSlots = 5
INVARIANT NoSelfDeadlock
CHECK_DEADLOCK FALSE
