SPECIFICATION PartsSpec
CONSTANTS
    Tools = {t1, t2}
    NoTool = NoTool
    MaxIterations = 3
    MaxSame = 3
    MaxErrors = 2
    MaxTotal = 5
    Preserve = 4
    MaxUses = 3
    MaxTurns = 3
    MaxRetries = 1
    MaxStreamCalls = 2
    MaxPieces = 2
    Servers = {1, 2}
    Names = {"own", "shared"}
    Offers <- TwoOffers
    NoServer = 0
    Slots = {1}
    MaxPages = 2
    AgentIds = {a1, a2}
INVARIANTS
    NoUnansweredUse ResultsHaveCalls NoCallAfterLoop
    MessageIsWhatArrived BlocksAreBracketed
    NoOrphanProcess CallSentOnce
    EndIsWritten
PROPERTIES ImplementsLink ReportedToolsAreRouted EveryOperationEnds RunningAgentEnds
CHECK_DEADLOCK FALSE
