SPECIFICATION FairSpec
CONSTANTS
    Workers = {w1}
    Calls = {c1, c2}
    None = None
    Total = 2
    Limit = 1
    Listeners = 2
    MaxEpoch = 1
    MaxJobs = 2
    Faults = {"crash", "rpc"}
    MaxFaults = 1
INVARIANTS TypeOK RecheckIsPending
PROPERTIES ExhaustionIsNotStale
CHECK_DEADLOCK FALSE
