CONSTANTS
    Symbols = {"btc"}
    Orders <- MCOrders
    NumStrategies = 2
    Subscribed <- MCSubscribed
    QueueCap = 1
    MaxOrdersPerSecond = 1
    MaxOrderValue = 5
    MaxPositionValue = 4
    MaxTotalValue = 9
    Capital = 9
    MinCapital = 3
    MaxTicks = 1
    MaxRequests = 2
    MaxSecond = 2
SPECIFICATION Spec
INVARIANT FillsReachOwner
