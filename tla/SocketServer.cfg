SPECIFICATION Spec
CONSTANTS
  c1 = c1
  c2 = c2
  None = None
  Client <- MCClient
  Calls <- MCCalls
  MaxSocket = 2
  MaxId = 4
  MaxPipe = 1
  MaxList = 1
  MaxBatch = 1
  EarlySend = FALSE
INVARIANTS TypeOK SendingExact CountedIsDiscounted NoLostWrite WritesToItsSocket ReservedForOne
VIEW View
CHECK_DEADLOCK FALSE
