SPECIFICATION Spec
CONSTANTS
  MaxFrames = 4
  MaxHeartbeats = 2
  telemetry_max_frames = 1
INVARIANT
  LostIsCounted
CHECK_DEADLOCK FALSE
