CONSTANTS
  Fiber = {f1, f2, f3}
  NoFiber = NoFiber
  MaxTime = 2
  MaxDelay = 1
  MayThrow = TRUE
SPECIFICATION Spec
CHECK_DEADLOCK FALSE
INVARIANTS
  TypeOK
  CurrentFiberIsRunning
  NoFramesLeaked
  EnteredOnce
PROPERTIES
  OncePerUpdate
  UpdateIsComplete
  LifecycleSpec
