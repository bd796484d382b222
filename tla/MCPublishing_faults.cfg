SPECIFICATION FairSpec
CONSTANTS
    b1 = b1
    j1 = j1
    BatchJobs = {j1}
    Carries <- OneBatch
    Batches = {b1}
    Txs = {t1, t2, t3}
    Calls = {c1, c2}
    None = None
    PublishAttempts = 2
    RetryAttempts = 1
    ReceiptAttempts = 2
    MaxStalledCount = 1
    Faults = {"crash", "stall", "rpc", "redis", "fees", "slow", "congested", "refused", "erred", "late", "drop", "reorg", "evict"}
    MaxFaults = 2
INVARIANTS TypeOK PublishedOnce SentIsTracked CompletedWasSent
PROPERTIES EveryBatchIsSettled ImplementsPublication
CHECK_DEADLOCK FALSE
