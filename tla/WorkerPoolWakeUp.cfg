SPECIFICATION FairSpec
CONSTANTS
  w1 = w1
  w2 = w2
  w3 = w3
  None = None
  Worker = {w1, w2}
  MaxWork = 1
  MayStop = FALSE
PROPERTY WakeUpSignals
