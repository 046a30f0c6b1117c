CONSTANTS
    commit1 = commit1
    prove1 = prove1
    commit2 = commit2
    Main = Main
    Custom = Custom
    NoOp = NoOp
    OpSeq <- MCOpSeq
    CommitOps <- MCCommitOps
    Senders = {Main, Custom}
    MaxRestarts = 2
    MaxExternal = 1

SPECIFICATION Spec
\* Once every operation is saved and sent and the bounds are spent, or the
\* stop signal has been seen, the node has nothing left to do.
CHECK_DEADLOCK FALSE
INVARIANT TypeOK
INVARIANT OneEthTxPerOp
PROPERTY FreshNonce
