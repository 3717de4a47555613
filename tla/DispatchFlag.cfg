SPECIFICATION Spec
CONSTANTS
  q1 = q1
  q2 = q2
  w1 = w1
  w2 = w2
  s1 = s1
  None = None
  Queue = {q1, q2}
  Worker = {w1, w2}
  Sender = {s1}
  Source <- MCSource
  Weight <- MCWeight
  Callback = {q2}
  EmptyPop <- MCMeasuredPop
  MqOverload = 1
  MaxLen <- MCMaxLen
INVARIANT FlagMeansScheduled
CHECK_DEADLOCK FALSE
