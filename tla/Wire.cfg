CONSTANTS
  PosRange = 12
  BufSize = 16
  Lengths = {4, 5}
  Paced = TRUE
SPECIFICATION Spec
INVARIANTS QueuedIsPending GuardIsReleased ConsoleKeepsBytes
PROPERTIES NothingIsStuck
VIEW View
CHECK_DEADLOCK FALSE
