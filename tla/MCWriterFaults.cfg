SPECIFICATION MCSpec
CONSTANTS
    Layers <- MCLayers
    Row = {"a", "b"}
    CommitLimit = 2
    CommitFaults = TRUE
    MaxFeatures = 4
INVARIANTS
    CleanExitIsComplete
CHECK_DEADLOCK FALSE
