CONSTANTS
    Kinds = {"direct", "mux"}
    Symbols = {"btc", "eth"}
    Streams = {"eth"}
    MaxCalls = 2
    TickCap = 1
SPECIFICATION FairSpec
PROPERTY FeedRecovers
CHECK_DEADLOCK FALSE
