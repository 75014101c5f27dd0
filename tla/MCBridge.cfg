SPECIFICATION MCSpec
CONSTANTS
  Names = {a, b}
  Pins = {0, 1}
  Junk = Junk
  Resolutions = {1, 2}
  CountMod = 4
  MaxEntries = 2
  MaxWork = 4
  MaxEdges = 4
  MaxTimeouts = 1
  max_frames = 2
  max_publish_per_poll = 1
  MaxFrames = 3
INVARIANTS
  HostTypeOK
  
  
  DeltaExact
  
  
  PublishedUnderItsName
  
PROPERTIES
  QueuesDrain
CHECK_DEADLOCK FALSE
