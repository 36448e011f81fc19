CONSTANTS
    Field = {f1, f2}
    Writers = {w1}
    Readers = {r1}
    Snapshotters = {s1}
    MaxUpdates = 3
    MaxRetries = 2
SPECIFICATION FairSpec
INVARIANTS HotReadIsAtomic SnapshotSurvivesUpdate
PROPERTY ReadsReturn
