SPECIFICATION Spec
CONSTANTS
    Sessions = {s1}
    Conns = {c1}
    Queries = {q1}
    None = None
    Torn = Torn
    ConfigMode = "full_auto"
    HookVerdicts <- NoHook
    Ops <- MessageOps
    Patient = TRUE
    MaxBlocks = 1
    MaxCalls = 0
    MaxClock = 0
    MaxCrashes = 0
PROPERTIES NoLostMessage
CHECK_DEADLOCK FALSE
