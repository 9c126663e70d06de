SPECIFICATION Spec
CONSTANTS
    Float <- MCFloat
    Lines <- MCLines
    Width <- MCWidth
    Err = 1
    ShortSize = 11
    Garbage <- MCGarbage
    Points <- MCPoints
    Mercator <- MCMercator
    Infinity = 1000000
INVARIANTS
    ClosestTypeOK
    LineComesBack
    LoopsAreOperators
    AsCloseAsEveryNode
    BestBesideTheNode
CHECK_DEADLOCK FALSE
