SPECIFICATION Spec
CONSTANTS
  MaxId = 3
  Ops = {"yield", "spawn", "spawn_user", "sleep", "join", "read", "exit", "kill"}
  Killers = {0}
  Codes = {0, 1}
  MaxSleep = 0
  TimesliceTicks = 1
  MaxThreads = 4
  MaxRetired = 4
  NumSlots = 4
INVARIANTS
  EveryThreadIsSomewhere
  StacksAreSafe
  RetiredCodesTrue
  IdleOnlyIfNothingReady
  NoPanic
PROPERTIES
  ExitIsFinal
CHECK_DEADLOCK FALSE
