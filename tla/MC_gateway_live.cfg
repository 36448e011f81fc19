CONSTANTS
    Modes = {"real", "sim"}
    QueueCap = 2
    MaxRequests = 2
    MaxQty = 1
    StreamFails = FALSE
SPECIFICATION FairSpec
PROPERTIES QueuedAreProcessed 
