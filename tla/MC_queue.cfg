CONSTANTS
    N = 2
    Producers = {"p1", "p2"}
    Consumers = {"c1", "c2"}
    Observers = {"o1"}
    MaxPushes <- MCPushes
    WordMod = 64
SPECIFICATION FairSpec
INVARIANTS ExclusiveSlot SlotProtocol SizeErrsLow
PROPERTIES RefinesFIFO CallsReturn EventuallyPopped
