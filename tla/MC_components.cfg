CONSTANTS
    Symbols = {"btc", "eth"}
    Fills <- MCFills
    MaxFills = 5
    Feeds = {"binance", "okx", "binance_mux", "okx_mux"}
    Quotes = {1, 2}
    MaxLot = 1
    TopLevels = 1
    PipeCap = 2
    MaxMoves = 3
    LevelPrices = {1, 2}
    DepthLimit = 1
    BookWriters = {w1, w2}
    BookReaders = {b1}
    ReadTries = 2
    MaxBookCalls = 3
    LogTypes <- MCLogTypes
    BufCap = 2
    Retention = 1
    MaxRecords = 4
    LastDay = 3
    Categories = {"network", "system"}
    Severities = {0, 1}
    HistorySizes = {2, 3}
    MaxErrors = 3
    MaxCallbacks = 1
    BridgeCap = 2
    MaxEvents = 5
    MaxStarts = 2
    LogSets <- MCLogs
    GridPrices <- MCGridPrices
    TickPrices = {1, 3, 5}
    OrderQueueCap = 3
SPECIFICATION SumSpec
INVARIANTS    HotIsBest BookReadsAgree    BridgeAccounts ReplayInOrder 
CHECK_DEADLOCK FALSE
