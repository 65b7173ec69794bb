SPECIFICATION Spec
CONSTANTS
    p1 = p1
    p2 = p2
    Producers = {p1, p2}
    Width = 2
    Slots = 3
    MaxRecs = 3
    Shifts = {"wraps"}
CHECK_DEADLOCK FALSE
INVARIANTS
    NoneLost
