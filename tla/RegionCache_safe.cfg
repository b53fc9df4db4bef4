SPECIFICATION Spec
CONSTANTS
    Depth = 6
    Regions = {r1}
    Threads = {t1, t2}
    Requested <- BoundaryFrames
    Corrupt = {}
    Timeout = 0
    NoEntry = NoEntry
    NoData = NoData
INVARIANTS
    TypeOK
    CacheShape
    ExactUnlessUnaligned
    RaceNeedsCrossing
    NullOnlyAtTail
PROPERTIES
    ServesRegions
SYMMETRY Symmetry
