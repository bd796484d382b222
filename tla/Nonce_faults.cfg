SPECIFICATION FairSpec
CONSTANTS
    Calls = {c1, c2, c3}
    KeysToCheck = 2
    MaxNonce = 3
    Faults = {"boot", "lost", "drop", "slow"}
    MaxFaults = 1
INVARIANTS TypeOK ClashNeedsGap DrawnOnce
PROPERTIES GapsAreFilled
CHECK_DEADLOCK FALSE
