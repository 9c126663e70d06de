SPECIFICATION Spec
CONSTANTS
    UIntSize = 256
    MaxRange = 6
    Ways <- MCWays
INVARIANTS
    InterpolationTypeOK
    EveryNumberOnce
    SummaryIsExact
PROPERTIES
    FeedWayReturns
CHECK_DEADLOCK FALSE
