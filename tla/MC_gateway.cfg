CONSTANTS
    Modes = {"real", "sim"}
    QueueCap = 2
    MaxRequests = 2
    MaxQty = 2
    StreamFails = TRUE
SPECIFICATION Spec
INVARIANTS  DropsExplained PendingCanBeFilled RequestsAccounted
