SPECIFICATION Spec
CONSTANTS
    b1 = b1
    j1 = j1
    BatchJobs = {j1}
    Carries <- OneBatch
    Batches = {b1}
    Txs = {t1}
    Calls = {c1, c2}
    None = None
    PublishAttempts = 3
    RetryAttempts = 1
    ReceiptAttempts = 4
    MaxStalledCount = 1
    Faults = {"drop"}
    MaxFaults = 1
INVARIANTS DroppedIsRepublished
CHECK_DEADLOCK FALSE
