SPECIFICATION Spec
CONSTANTS
  ClockMod = 5
  WatchdogTimeout = 2
  RxFrames = 2
  StepsPerMs = 1
PROPERTY
  SilentHostStops
