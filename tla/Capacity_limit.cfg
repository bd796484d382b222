SPECIFICATION Spec
CONSTANTS
    Workers = {w1}
    Calls = {c1, c2}
    None = None
    Total = 3
    Limit = 1
    Listeners = 2
    MaxEpoch = 0
    MaxJobs = 2
    Faults = {}
    MaxFaults = 0
INVARIANTS LimitIsKept
CHECK_DEADLOCK FALSE
