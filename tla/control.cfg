SPECIFICATION ControlSpec
CONSTANTS
    WorkerIds = {w1}
    Prompts = {p1, p2}
    None = None
    Raised = {"PartialPluginStartup"}
    MaxAttempts = 2
    MaxEscalations = 1
    Callers = {k1, k2}
    LocalModes = {"plan", "default", "acceptEdits"}
    BundledPlugins = {"b"}
    ExternalPlugins = {"e"}
    Versions = {"v1", "v2"}
    Damaged = Damaged
    MaxUpgrades = 1
    MaxFailures = 2
    TaskIds = {t1, t2}
    TeamIds = {g1, g2}
    NoTeam = NoTeam
    Turns = {u1, u2}
    Paths = {"f1", "f2"}
    Absent = Absent
    Recent = 2
    MaxRotated = 0
    MaxLines = 3
    MaxCuts = 1
    Models = {m1, m2}
    NoModel = NoModel
    DockerFails = TRUE
    MayOverlap = FALSE
    Exts = {x1, x2}
    DependsOn <- FirstNeedsRest
    Threads = {h1, h2}
    Tools = {c1, c2}
SYMMETRY Symmetry
INVARIANTS
    NoPromptOverAnother ReplayIsOfLostPrompt OneLossPerDispatch OneRecoveryBeforeEscalation
    PlanIsReversible SavedFlagsHold TeamOfTaskListsIt
    FileIsMemory SavedIsOnDisk GapsOnlyAtResume
    SwapEndsAsAnswered ActiveModelIsThere CachedFlagsAreCurrent
    RefusedOrAskedIsNotRun MoreModeAllowsMore
PROPERTIES ReportHeals
CHECK_DEADLOCK FALSE
