SPECIFICATION FairSpec
CONSTANTS
  n1 = n1
  n2 = n2
  Node = {n1, n2}
  NearShift = 1
  LevelShift = 1
  MaxDelay = 3
  MaxDiff = 2
  MaxLag = 1
INVARIANTS TypeOK Placed FiresOnTime LinkedOnce NowIsTime
PROPERTY Fires
CHECK_DEADLOCK FALSE
