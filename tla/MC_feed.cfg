CONSTANTS
    Kinds = {"direct", "mux"}
    Symbols = {"btc", "eth"}
    Streams = {"eth"}
    MaxCalls = 5
    TickCap = 1
SPECIFICATION FairSpec
INVARIANTS MuxNeverTerminates MuxStopIsFinal SubscriptionsOnWire 
PROPERTIES  LossIsNoticed
CHECK_DEADLOCK FALSE
