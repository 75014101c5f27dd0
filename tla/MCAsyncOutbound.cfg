SPECIFICATION MCSpec
CONSTANTS
  Telemetry = {t1, t2}
  Event = {e1}
  TelemetrySize = 1
  EventSize = 2
  TxRoom = 3
  kAsyncOutboundFrames = 3
  MaxFrames = 2
  MaxQueued = 4
  CountMod = 3
  DigitalPins = {p1}
  Counters = {c1}
  Rates = {0, 1, 3}
  Flags = {{"on_change"}, {"on_change", "rising"}}
  Second = 2
  SubClockMod = 4
  kMaxSubscriptions = 2
INVARIANTS
  OutboundTypeOK
  RingCoherent
  EventsTrackValue
PROPERTIES
  ImplementsDropQueue
  TelemetryAtRate
