SPECIFICATION SwapSpec
CONSTANTS
    Models = {m1, m2}
    NoModel = NoModel
    DockerFails = FALSE
    MayOverlap = FALSE
INVARIANTS ActivatedIsServed
CHECK_DEADLOCK FALSE
