CONSTANTS
  Fiber = {f1, f2, f3}
  NoFiber = NoFiber
  MaxTime = 2
  MaxDelay = 1
  MayThrow = FALSE
SPECIFICATION FairFrames
CHECK_DEADLOCK FALSE
PROPERTIES
  EveryAlarmRings
