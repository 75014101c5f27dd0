SPECIFICATION MCSpec
CONSTANTS
  ClockMod = 5
  WatchdogTimeout = 1
  MaxLag = 1
  Pins = {1, 2}
  PwmPins = {1, 2}
  PinArgs = {1, 2, 9}
  Duties = {0, 1}
  Buses = {0, 1}
  BusArgs = {0, 1, 3}
  Addresses = {96}
  Dacs = {0}
  DacArgs = {0, 8}
  MaxChannels = 1
  WordBits = 2
  Scale = 2
INVARIANTS
  TypeOK
  StoppedPwmPinsOff
  DrivenPinIsFresh
  StopIsLatched
  DacSlotsSound
PROPERTIES
  NoEnergizeWhileStopped
  RefusedChangesNothing
  DacHeldWhileStopped
