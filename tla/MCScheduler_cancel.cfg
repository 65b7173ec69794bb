SPECIFICATION Spec
CONSTANTS
    main = main
    worker = worker
    sched = sched
    p1 = p1
    p2 = p2
    Clients = {main, worker}
    Owner = main
    Sched = sched
    Callers = {worker}
    Plugins = {p1}
    Delays = {1}
    MaxTimers = 1
    MaxNow = 2
    Slip = 0
    TimeMod = 16
    GarbageIds = {0}
INVARIANTS
    CancelStops
