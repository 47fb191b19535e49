CONSTANTS
    sync = sync
    async = async
    in = in
    out = out
    Device <- Devices
    MaxBitAddress = 0
    PosEdge <- Trigger
    NegEdge <- Trigger
    Output <- Outs
    SyncWrite <- Sync
    Arrangement <- Arrangements
    Failing <- MayFail
    MaxBuffer = 1
SPECIFICATION FairSpec
INVARIANTS
    TypeOK
    StopLeavesLow
    LineFollows
    EdgesAlternate
    StartsEmpty
PROPERTIES
    CallsReturn
    ComesUp
    OutputReaches
