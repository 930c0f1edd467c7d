SPECIFICATION FairSpec
CONSTANTS
  MaxPid = 2
  Frames = {f1, f2, f3}
  ImageFrames = 1
  Codes = {0}
  KilledCode = 137
  FaultCode = 139
  NoCode = NoCode
  NoFrame = NoFrame
  Exclusive = TRUE
PROPERTIES
  ExitCompletes
  WaitReturns
CHECK_DEADLOCK FALSE
