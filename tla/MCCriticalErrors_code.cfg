SPECIFICATION FairSpec
CONSTANTS
    p1 = p1
    p2 = p2
    Producers = {p1, p2}
    Width = 2
    Slots = 3
    MaxRecs = 4
    Shifts = {"wraps", "zero"}
CHECK_DEADLOCK FALSE
INVARIANTS
    RecordOwnership
    NoMissedSignal
    OwnSlotKept
PROPERTIES
    RecordsWritten
