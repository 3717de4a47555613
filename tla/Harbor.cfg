CONSTANTS
    h1 = h1
    h3 = h3
    n1 = n1
    None = None
    Remote = {1, 2}
    Self = 3
    Handle = {h1, h3}
    HarborOf <- MCHarborOf
    Name = {n1}
    QueueSize = 2
    HeaderSize = 2
    Lengths = {1, 2}
    MaxFd = 2
    MaxInput = 4
SPECIFICATION Spec
CHECK_DEADLOCK FALSE
INVARIANTS TypeOK Accounted SentRight NothingStranded InStep
PROPERTY DisconnectReported
