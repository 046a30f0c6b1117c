CONSTANTS
    c1 = c1
    c2 = c2
    x = x
    y = y
    d1 = d1
    d2 = d2
    Empty = Empty
    NoBlob = NoBlob
    NoData = NoData
    Callers <- MCCallers
    Numbers <- MCNumbers
    Blobs <- MCBlobs
    L1Batches <- MCL1Batches
    Limit = 2
    Datas <- MCDatas

SPECIFICATION Spec
INVARIANT TypeOK
INVARIANT OkMeansStored
PROPERTY ReadsFollowSpec
SYMMETRY Symmetry
