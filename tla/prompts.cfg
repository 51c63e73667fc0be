SPECIFICATION Spec
CONSTANTS
    Sessions = {s1}
    Conns = {c1, c2}
    Queries = {q1, q2}
    None = None
    Torn = Torn
    ConfigMode = "accept_edits"
    HookVerdicts <- NoHook
    Ops <- LeaveOps
    Patient = FALSE
    MaxBlocks = 1
    MaxCalls = 2
    MaxClock = 0
    MaxCrashes = 0
SYMMETRY Symmetry
INVARIANTS NoOrphanPrompt FirstReplyRules ActiveTargetsRunning ActiveIsExplained
CHECK_DEADLOCK FALSE
