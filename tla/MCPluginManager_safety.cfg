SPECIFICATION Spec
CONSTANTS
    d1 = d1
    d2 = d2
    Dirs = {d1, d2}
    Failures = {"calloc", "manifest", "data", "stub", "dlopen", "symbol", "realloc"}
    Exports = {{}, {"start"}, {"start", "stop", "shutdown"}}
    Used = {"subscribe", "timer_every_ms"}
    None = None
SYMMETRY DirSymmetry
CHECK_DEADLOCK FALSE
INVARIANTS
    OwnTypes
    IdsLeadHome
    RunningIsVisible
