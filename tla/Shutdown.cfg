SPECIFICATION FairSpec
CONSTANTS
    Ids = {i1, i2}
    Slots = {s1, s2}
    None = None
    MaxPolls = 20
    MaxHandlers = 2
INVARIANTS TypeOK HandlersAreAwaited TrackedIsAlive
PROPERTIES ShutdownEnds
CHECK_DEADLOCK FALSE
