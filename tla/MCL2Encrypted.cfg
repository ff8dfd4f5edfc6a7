SPECIFICATION FairSpec
CONSTANTS
    MaxCalls = 2
    CmdSizes = {2, 3, 5}
    ResSizes = {1, 3}
    ChunkMax = 2
    PacketMax = 4
    RecvMaxChunks = 3
    LT_CRC_ERR_RETRY_ATTEMPTS = 2
    Garbled <- SingleBitGarbled
INVARIANTS
    TypeOK
    ChunksInOrder
    ResultWhole
    FitsBuffer
PROPERTIES
    CallReturns
    ImplementsRpc
CHECK_DEADLOCK FALSE
