SPECIFICATION MCSpec
CONSTANTS
    Layers <- MCLayers
    Row = {"a", "b"}
    CommitLimit = 2
    CommitFaults = FALSE
    MaxFeatures = 4
INVARIANTS
    WriterTypeOK
    CleanExitIsComplete
PROPERTIES
    KeepsLayerFiles
CHECK_DEADLOCK FALSE
