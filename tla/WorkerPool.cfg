SPECIFICATION FairSpec
CONSTANTS
  w1 = w1
  w2 = w2
  w3 = w3
  None = None
  Worker = {w1, w2, w3}
  MaxWork = 2
  MayStop = TRUE
INVARIANTS TypeOK SleepExact
PROPERTIES NoSleepAfterQuit AwakeWorkersExit
CHECK_DEADLOCK FALSE
