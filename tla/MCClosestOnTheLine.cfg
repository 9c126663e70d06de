SPECIFICATION Spec
CONSTANTS
    Float <- MCFloat
    Lines <- MCLines
    Width <- MCWidth
    Err = 1
    ShortSize = 100
    Garbage <- MCGarbage
    Points <- MCPoints
    Mercator <- MCMercator
    Infinity = 1000000
INVARIANT ClosestOnTheLine
CHECK_DEADLOCK FALSE
