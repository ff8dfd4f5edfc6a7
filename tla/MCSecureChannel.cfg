SPECIFICATION VerifiedSpec
CONSTANTS
    MaxCalls = 4
    MaxHandshakes = 2
    NonceMax = 2
    TR01_MCOUNTER_VALUE_MAX = 100
    Requests <- MCRequests
    Results <- MCResults
    SlotSizes = {0, 475}
    Stores <- MCStores
INVARIANTS
    TypeOK
    IInv
    NonceUnique
    InStep
    ExecutedInOrder
    OverflowNotSent
    OutputIsResult
    ChecksAgree
    CertsExact
    KeyIsDevices
PROPERTIES
    ImplementsRpc
