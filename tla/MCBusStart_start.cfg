SPECIFICATION FairSpec
CONSTANTS
    w1 = w1
    w2 = w2
    m1 = m1
    m2 = m2
    m3 = m3
    m4 = m4
    m5 = m5
    Workers = {w1, w2}
    Early = {m1, m2, m3}
    Late = {m4, m5}
    MaxTasks = 2
    SizeMod = 4
    None = None
CHECK_DEADLOCK FALSE
INVARIANTS
    ResetHarmless
PROPERTIES
    LateDelivered
