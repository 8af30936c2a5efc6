CONSTANTS
  Timer = {t1, t2}
  NoTimer = NoTimer
  MaxTime = 1
  MaxMessages = 3
SPECIFICATION Spec
INVARIANT CancelLeavesOthers
