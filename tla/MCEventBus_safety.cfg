SPECIFICATION Spec
CONSTANTS
    w1 = w1
    w2 = w2
    c1 = c1
    c2 = c2
    k1 = k1
    k2 = k2
    Workers = {w1, w2}
    Clients = {c1}
    Keys = {k1, k2}
    MaxTasks = 2
    MaxMsgs = 3
    MaxSubs = 2
    Nesting = TRUE
    Faults = {"callback", "memcpy"}
    None = None
    Gone = Gone
CHECK_DEADLOCK FALSE
INVARIANTS
    TypeOK
    WaitersWoken
    DataOwnership
    SubsOutliveTasks
    DrainedAtJoin
PROPERTIES
    IsFifo
