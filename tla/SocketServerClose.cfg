SPECIFICATION Spec
CONSTANTS
  c1 = c1
  c2 = c2
  None = None
  Client <- MCClient
  Calls <- CloseCalls
  MaxSocket = 1
  MaxId = 2
  MaxPipe = 2
  MaxList = 2
  MaxBatch = 1
  EarlySend = FALSE
INVARIANT CloseOnce
CHECK_DEADLOCK FALSE
