CONSTANTS
    o1 = o1
    o2 = o2
    b1 = b1
    b2 = b2
    Ops <- MCOps
    Batches <- MCBatches
    NoOp = NoOp
    NoBatch = NoBatch
    BatchSize = 2
    IpfsMaxAttempts = 1
    MlMaxAttempts = 1
    MaxRetryAttempts = 10
    MaxBatchRows = 2
    FailureThreshold = 2

SPECIFICATION FairSpec
PROPERTY EventuallyCompleted BatchEventuallyCompleted
