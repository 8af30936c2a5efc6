CONSTANTS
  Timer = {t1, t2}
  NoTimer = NoTimer
  MaxTime = 1
  MaxMessages = 2
SPECIFICATION LiveSpec
INVARIANTS IdentsAgree
PROPERTY CallbackRuns
CHECK_DEADLOCK FALSE
