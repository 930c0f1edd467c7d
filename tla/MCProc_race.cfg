SPECIFICATION Spec
CONSTANTS
  MaxPid = 2
  Frames = {f1, f2, f3, f4}
  ImageFrames = 1
  Codes = {0}
  KilledCode = 137
  FaultCode = 139
  NoCode = NoCode
  NoFrame = NoFrame
  Exclusive = FALSE
INVARIANT FreedBeforeDestroy
CHECK_DEADLOCK FALSE
