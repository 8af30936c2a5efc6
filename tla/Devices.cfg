CONSTANTS
  Oid = {0, 1}
  Pin = {p1, p2}
  Reading = {0, 1}
  Query <- MCQuery
  ByteRange = 4
  ValueRange = 4
  MaxInvalid = 2
  ADC_DUMMY = ADC_DUMMY
  HalfRange = 48
  Wrap = 48
  Edge = 2
  KickTicks = 2
  MinTry = 2
  Repeat = 2
  IdleRepeat = 4
  Defer = 2
  TooLate = 6
  AddDelays <- MCAddDelays
  EventDelays <- MCEventDelays
  AddStopped = FALSE
  Slow = 1
  Latency = 2
SPECIFICATION Spec
INVARIANTS InputsAreRead TimerKeepsUp
SYMMETRY Symmetry
VIEW View
