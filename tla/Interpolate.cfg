CONSTANTS
  Keys = {0, 1, 2, 4, 5}
  Values = {0, 1, 2, 3, 6}
  MaxSamples = 4
INIT InitInterpolate
NEXT NextInterpolate
INVARIANT MeetsSamples
CHECK_DEADLOCK FALSE
