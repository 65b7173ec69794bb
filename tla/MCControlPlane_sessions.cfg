SPECIFICATION FairSpec
CONSTANTS
    c1 = c1
    c2 = c2
    Ctls = {c1, c2}
    Faults = {"bind", "select", "interrupt", "hangup", "init"}
    MaxCmds = 3
CHECK_DEADLOCK FALSE
PROPERTIES
    SignalOpensSocket
    PendingServed
    CommandAnswered
