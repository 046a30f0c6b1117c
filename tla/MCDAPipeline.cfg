CONSTANTS
    o1 = o1
    o2 = o2
    o3 = o3
    b1 = b1
    b2 = b2
    b3 = b3
    Ops <- MCOps
    Batches <- MCBatches
    NoOp = NoOp
    NoBatch = NoBatch
    BatchSize = 2
    IpfsMaxAttempts = 2
    MlMaxAttempts = 1
    MaxRetryAttempts = 10
    MaxBatchRows = 2
    FailureThreshold = 1

SPECIFICATION Spec
SYMMETRY Symmetry
INVARIANT TypeOK
INVARIANT BatchWithinSize
INVARIANT EnqueuedOnlyWhenCommitted
INVARIANT NoDuplicateEnqueue
