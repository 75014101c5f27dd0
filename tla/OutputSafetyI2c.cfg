SPECIFICATION Spec
CONSTANTS
  ClockMod = 4
  WatchdogTimeout = 1
  MaxLag = 1
  Pins = {}
  PwmPins = {}
  PinArgs = {}
  Duties = {0}
  Buses = {0, 1}
  BusArgs = {0, 1, 3}
  Addresses = {96}
  Dacs = {0}
  DacArgs = {0, 8}
  MaxChannels = 1
  WordBits = 2
  Scale = 2
PROPERTY
  StoppedDacsHold
