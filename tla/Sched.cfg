CONSTANTS
  HalfRange = 7
  Period = 3
  Timers = {t1, t2}
  MinTry = 0
  Repeat = 1
  IdleRepeat = 1
  Defer = 1
  TooLate = 0
  MaxLatency = 1
  MaxRx = 1
  CommandDelays <- MCCommandDelays
  EventDelays <- MCEventDelays
SPECIFICATION SafeSched
INVARIANTS WellFormed InsertStops TimersAreInTime
PROPERTIES ImplementsTimerList ImplementsTaskLoop KeepsPromise
VIEW View
SYMMETRY Symmetry
