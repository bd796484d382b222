SPECIFICATION Spec
CONSTANTS
    a1 = a1
    r1 = r1
    Assets = {a1}
    Requests = {r1}
    Refs <- OneAsset
    Uploads = {u1}
    Procs = {p1}
    None = None
    AssetAttempts = 3
    MaxEvents = 2
    Faults = {"ipfs"}
INVARIANTS NothingPinnedIsEmpty
CHECK_DEADLOCK FALSE
