SPECIFICATION Spec
CONSTANTS
    n1 = n1
    n2 = n2
    left = left
    right = right
    empty = empty
    some = some
    shard0 = shard0
    shard1 = shard1
    Node = {n1, n2}
    Fork = {left, right}
    MaxHeight = 2
    Data = {empty, some}
    Empty = empty
    Shard = {shard0, shard1}
    Shard0 = shard0
    BadArgs = BadArgs
    RpcError = RpcError
    InvalidData = InvalidData
    Nothing = Nothing
SYMMETRY NodeSymmetry
INVARIANTS
    TypeOK
    AnsweredAsAsked
    LatestIsFresh
    FinalNeverUndone
    ChunkOfViewedBlock
