SPECIFICATION Spec
CONSTANTS
  ClockMod = 8
  WatchdogTimeout = 2
  RxFrames = 2
  StepsPerMs = 1
INVARIANT
  StoppedBySecondInterval
