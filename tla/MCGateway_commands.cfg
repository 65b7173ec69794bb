SPECIFICATION FairSpec
CONSTANTS
    s1 = s1
    s2 = s2
    d = d
    l1 = l1
    Senders = {s1, s2}
    Disp = d
    Libs = {l1}
    Lens = {1, 2}
    Capacity = 7
    Reentrant = TRUE
    MaxMsgs = 3
INVARIANTS
    TypeOK
    NoneLost
    SetUpOnce
PROPERTIES
    Delivered
    SendReturns
