\* Threshold 2 and a 2-second timeout: failures can fall inside and outside
\* one window, and the counter can pass the threshold and keep growing.
CONSTANTS
    FailureThreshold = 2
    ResetTimeout = 2
    MaxTime = 6
    MaxFailures = 4
    None = None

SPECIFICATION Spec
\* The clock stops at MaxTime and the counter at MaxFailures.
CHECK_DEADLOCK FALSE
INVARIANT TypeOK
INVARIANT OpenAfterThresholdInWindow
PROPERTY ImplementsAbstract
