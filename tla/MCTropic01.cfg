SPECIFICATION FairSpec
CONSTANTS
    Slots <- OneSlot
    SlotArgs <- SlotNumbers
    Data = {d1, d2}
    LongData = {long}
    MaxFaults = 3
INVARIANTS
    TypeOK
    OneRejectionPerBoot
    LiveHandle
PROPERTIES
    AlarmKeepsWarning
    LateServicesAreHarmless
    InitRetried
