SPECIFICATION FairSpec
CONSTANTS
    Jobs = {j1, j2}
    BatchIds = {b1, b2, b3, b4}
    Workers = {w1, w2}
    Started = {w1}
    Calls = {c1, c2}
    None = None
    BatchMaxCount = 2
    Concurrency = 2
    MaxStalledCount = 1
    Faults = {"crash", "stall", "redis", "slow"}
    MaxFaults = 1
INVARIANTS TypeOK KeysInStep DedupIsSafe LossNeedsTwoMishaps NoDoubleBatching OpenBatchIsWatched
PROPERTIES ImplementsDelivery StoredIsEmitted
CHECK_DEADLOCK FALSE
