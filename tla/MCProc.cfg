SPECIFICATION Spec
CONSTANTS
  MaxPid = 2
  Frames = {f1, f2, f3, f4, f5}
  ImageFrames = 1
  Codes = {0}
  KilledCode = 137
  FaultCode = 139
  NoCode = NoCode
  NoFrame = NoFrame
  Exclusive = TRUE
SYMMETRY Sym
INVARIANTS
  FramesNotShared
  NoFrameLost
  OneTeardown
  RegistryKnowsLive
  WaitersAgree
PROPERTIES
  ImplementsLife
CHECK_DEADLOCK FALSE
