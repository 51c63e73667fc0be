SPECIFICATION Spec
CONSTANTS
    Sessions = {s1, s2}
    Conns = {c1, c2}
    Queries = {q1, q2}
    None = None
    Torn = Torn
    ConfigMode = "full_auto"
    HookVerdicts <- NoHook
    Ops <- PatientOps
    Patient = TRUE
    MaxBlocks = 2
    MaxCalls = 0
    MaxClock = 1
    MaxCrashes = 1
SYMMETRY Symmetry
PROPERTIES ImplementsHistories
CHECK_DEADLOCK FALSE
