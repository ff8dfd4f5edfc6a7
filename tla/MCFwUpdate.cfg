SPECIFICATION FairSpec
CONSTANTS
    Chunks = 2
    MaxCalls = 3
    MaxFaults = 2
INVARIANTS
    TypeOK
    IInv
    OkMeansUpdated
    KeepsBootable
PROPERTIES
    RetrySucceeds
CHECK_DEADLOCK FALSE
