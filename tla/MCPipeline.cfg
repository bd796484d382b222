SPECIFICATION Spec
CONSTANTS
    r1 = r1
    r2 = r2
    a1 = a1
    Requests = {r1, r2}
    Assets = {a1}
    Refs <- OneWithAsset
    Batches = {b1, b2, b3}
    Txs = {t1, t2}
SYMMETRY Symmetry
INVARIANTS OnChainOnce OnChainIsAnswerable
