CONSTANTS
  t1 = t1
  t2 = t2
  Thread <- TwoThreads
  Name = {1, 2, 3, 4, 5}
  Handle = {11, 12}
  InitialCap = 2
  MaxSlotSize = 4
SPECIFICATION FairSpec
INVARIANTS TypeOK Sorted
PROPERTIES LoopsEnd ImplementsDirectory
CHECK_DEADLOCK FALSE
