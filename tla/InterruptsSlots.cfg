SPECIFICATION Spec
CONSTANTS
  Pins = {1, 2}
  PinArgs = {1, 2, 9}
  Counters = {c0}
  Encoders = {e0}
  Modes = {4}
  CountMod = 4
INVARIANTS
  TypeOK
  NoDanglingIsr
  UnsharedIsAttached
  CounterTracks
  EncoderTracks
