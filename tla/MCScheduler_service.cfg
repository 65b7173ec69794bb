SPECIFICATION FairSpec
CONSTANTS
    main = main
    worker = worker
    sched = sched
    p1 = p1
    p2 = p2
    Clients = {main, worker}
    Owner = main
    Sched = sched
    Callers = {worker, sched}
    Plugins = {p1}
    Delays = {0, 1}
    MaxTimers = 2
    MaxNow = 2
    Slip = 0
    TimeMod = 16
    GarbageIds = {0}
INVARIANTS
    TypeOK
    TimerOwnership
    Sorted
    NoMissedWakeup
    OneShotOnce
    ShutdownQuiesces
PROPERTIES
    FifoAmongEquals
    RepeatingSurvives
    DueTimerFires
    ShutdownTerminates
