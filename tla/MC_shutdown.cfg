CONSTANTS
    Modes = {"real"}
    QueueCap = 2
    MaxRequests = 2
    MaxQty = 1
    StreamFails = FALSE
SPECIFICATION Spec
INVARIANT ShutdownCancelsAll
CHECK_DEADLOCK FALSE
