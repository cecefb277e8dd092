SPECIFICATION Spec
CONSTANTS
  MaxDelegations = 2
  MaxMessages = 1
  MaxShells = 1
  MaxSide = 1
  MaxAttempts = 2
  MaxCalls = 1
  Vram = 10
  Context = 2
  MaxParams = 3
INVARIANTS
  OwnWhenAlone
  NeverStranded
  BackgroundIsReachable
  ReleasedJob
  HandedOnce
CHECK_DEADLOCK FALSE
