SPECIFICATION FairSpec
CONSTANTS
    Jobs = {j1}
    BatchIds = {b1, b2}
    Workers = {w1, w2}
    Started = {w1, w2}
    Calls = {c1, c2}
    None = None
    BatchMaxCount = 2
    Concurrency = 2
    MaxStalledCount = 1
    Faults = {"crash"}
    MaxFaults = 1
PROPERTIES EveryRowIsEmitted
CHECK_DEADLOCK FALSE
