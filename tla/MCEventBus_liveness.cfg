SPECIFICATION FairSpec
CONSTANTS
    w1 = w1
    w2 = w2
    c1 = c1
    c2 = c2
    k1 = k1
    k2 = k2
    Workers = {w1, w2}
    Clients = {c1, c2}
    Keys = {k1}
    MaxTasks = 2
    MaxMsgs = 4
    MaxSubs = 1
    Nesting = FALSE
    Faults = {"callback"}
    None = None
    Gone = Gone
CHECK_DEADLOCK FALSE
INVARIANTS
    NoLeakWhileUp
PROPERTIES
    Delivered
    PublishReturns
    ShutdownTerminates
