CONSTANTS
  HalfRange = 7
  Period = 3
  Timers = {t1}
  MinTry = 1
  Repeat = 1
  IdleRepeat = 1
  Defer = 1
  TooLate = 1
  MaxLatency = 1
  MaxRx = 2
  CommandDelays <- MCLiveDelays
  EventDelays <- MCEventDelays
SPECIFICATION SpecSched
INVARIANTS NoLostWakeup ShutdownIsAtomic
PROPERTIES DueTimerRuns TasksNotStarved WorkIsServed
VIEW View
