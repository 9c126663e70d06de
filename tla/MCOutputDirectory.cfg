SPECIFICATION Spec
CONSTANTS
    Proc <- MCProc
    Layers <- MCLayers
INVARIANTS
    OutputTypeOK
    StrangersDontMix
    UndisturbedRunIsWhole
PROPERTIES
    EveryRunEnds
CHECK_DEADLOCK FALSE
