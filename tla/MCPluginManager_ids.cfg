SPECIFICATION Spec
CONSTANTS
    d1 = d1
    d2 = d2
    Dirs = {d1, d2}
    Failures = {"dlopen"}
    Exports = {{}, {"start"}, {"start", "stop", "shutdown"}}
    Used = {"subscribe", "timer_every_ms"}
    None = None
CHECK_DEADLOCK FALSE
INVARIANTS
    RightPluginCalled
