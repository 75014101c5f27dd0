SPECIFICATION Spec
CONSTANTS
  Pins = {5, 6}
  PinArgs = {5, 6}
  Counters = {wheel_ticks}
  Encoders = {steering_encoder}
  Modes = {4}
  CountMod = 4
INVARIANT
  ActiveIsAttached
