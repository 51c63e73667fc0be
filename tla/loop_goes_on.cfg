SPECIFICATION Spec
CONSTANTS
    Tools = {t1, t2}
    NoTool = NoTool
    MaxIterations = 3
    MaxSame = 3
    MaxErrors = 2
    MaxTotal = 5
    Preserve = 2
    MaxUses = 3
    MaxTurns = 1
PROPERTIES LoopEndsTurn
CHECK_DEADLOCK FALSE
