SPECIFICATION ServedSpec
CONSTANTS
    Sessions = {s1}
    Conns = {c1}
    Queries = {q1, q2}
    None = None
    Torn = Torn
    ConfigMode = "full_auto"
    HookVerdicts <- MixedHook
    Ops <- ServedOps
    Patient = FALSE
    MaxBlocks = 1
    MaxCalls = 1
    MaxClock = 0
    MaxCrashes = 0
PROPERTIES EveryQueryReported StopLeadsToDown
CHECK_DEADLOCK FALSE
