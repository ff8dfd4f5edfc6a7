SPECIFICATION ServedSpec
CONSTANTS
    Slots <- OneSlot
    SlotArgs <- SlotNumbers
    Data = {d1, d2}
    LongData = {long}
    MaxFaults = 1
PROPERTIES
    SessionRecovers
