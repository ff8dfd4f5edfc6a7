SPECIFICATION L1FairSpec
CONSTANTS
    MaxCalls = 2
    LT_CRC_ERR_RETRY_ATTEMPTS = 3
    LT_L1_READ_MAX_TRIES = 2
    Garbled <- SingleBitGarbled
INVARIANTS
    TypeOK
    IInv
    AtMostOnce
    OkIsAnswered
    BusReleased
PROPERTIES
    CallReturns
    ImplementsRpc
    ImplementsL2
CHECK_DEADLOCK FALSE
