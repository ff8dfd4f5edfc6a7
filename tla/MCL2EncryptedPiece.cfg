SPECIFICATION Spec
CONSTANTS
    MaxCalls = 1
    CmdSizes = {2}
    ResSizes = {3}
    ChunkMax = 2
    PacketMax = 4
    RecvMaxChunks = 3
    LT_CRC_ERR_RETRY_ATTEMPTS = 2
    Garbled <- SingleBitGarbled
INVARIANT PieceReceivedOk
CHECK_DEADLOCK FALSE
