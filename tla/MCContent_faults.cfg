SPECIFICATION FairSpec
CONSTANTS
    a1 = a1
    r1 = r1
    Assets = {a1}
    Requests = {r1}
    Refs <- OneAsset
    Uploads = {u1}
    Procs = {p1, p2}
    None = None
    AssetAttempts = 2
    MaxEvents = 3
    Faults = {"crash", "ipfs", "slow"}
INVARIANTS TypeOK ReferenceableIsPinnable DelaysAreBounded AnnouncedIsPinned
PROPERTIES RequestIsSettled ImplementsAnnouncing
CHECK_DEADLOCK FALSE
