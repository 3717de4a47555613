CONSTANTS
  t1 = t1
  t2 = t2
  t3 = t3
  t4 = t4
  Thread <- FourThreads
  Writer <- TwoThreads
SPECIFICATION FairSpec
INVARIANTS TypeOK ReadCountExact WriterIsAlone
PROPERTIES WriterGetsIn ImplementsRWLock
