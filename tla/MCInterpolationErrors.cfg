SPECIFICATION Spec
CONSTANTS
    UIntSize = 65536
    MaxRange = 1000
    Ways <- LetteredWays
INVARIANTS
    PreciseErrorsStay
CHECK_DEADLOCK FALSE
