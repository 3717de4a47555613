SPECIFICATION FairSpec
CONSTANTS
  q1 = q1
  q2 = q2
  w1 = w1
  w2 = w2
  s1 = s1
  None = None
  Queue = {q1, q2}
  Worker = {w1, w2}
  Sender = {s1}
  Source <- MCSource
  Weight <- MCWeight
  Callback = {q2}
  EmptyPop <- MCEmptyPop
  MqOverload = 1
  MaxLen <- MCMaxLen
INVARIANTS TypeOK RefExact SingleOwner NoLostPush NoUseOfDeleted ListWellFormed AssertionsHold
PROPERTIES GlobalIsFifo DispatchReturns
CHECK_DEADLOCK FALSE
