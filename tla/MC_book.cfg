CONSTANTS
    Price = {1, 2, 3}
    MaxQty = 1
    MaxDepth = 2
    HotDepth = 1
    HotReaders = {h1}
    ColdReaders = {c1}
    MaxUpdates = 4
SPECIFICATION Spec
INVARIANTS BookIsExact HotIsTop HotReadIsOneVersion ColdReadUndisturbed
