SPECIFICATION Spec
CONSTANTS
    Sessions = {s1, s2}
    Conns = {c1, c2}
    Queries = {q1, q2}
    None = None
    Torn = Torn
    ConfigMode = "full_auto"
    HookVerdicts <- NoHook
    Ops <- AbortOps
    Patient = TRUE
    MaxBlocks = 1
    MaxCalls = 0
    MaxClock = 0
    MaxCrashes = 0
SYMMETRY Symmetry
PROPERTIES AbortReachesRegistered OnlyItsSessionAborts
CHECK_DEADLOCK FALSE
