SPECIFICATION Spec
CONSTANTS
    InputFiles <- SortedFiles
    NodeIds <- MCNodeIds
    IdSize = 64
    Names <- MCNames
    Undefined = Undefined
    Distance <- MCDistance
    Centroid <- MCCentroid
    PointAlong <- MCPointAlong
    LatCell = 16
    LonCell = 20
    Float <- MCFloat
    MAXDIST = 40
    MaxDistance = 40
    OverCos <- MCOverCos
    Narrow <- MCNarrow
    LonSum <- MCNarrow
    UIntSize = 256
    MaxRange = 4
    GrowSize = 3
    MaxTable = 31
    Raw <- MCRaw
    Row = {}
    CommitLimit = 2
    CommitFaults = FALSE
    CompressionError = 16
    NarrowError = 1
INVARIANTS
    OsmiTypeOK
    WayDrawnOnce
    EveryPointHasItsRoad
    PointsMatchLines
    RoadFlagAgrees
    StreetVerdictIsRight
    PlaceVerdictIsRight
    InterpolationVerdictIsRight
    SortedFilesDontAbort
    AddressNodesAreStored
    AlarmsAreReal
    MistakesAreShown
CHECK_DEADLOCK FALSE
