SPECIFICATION FairSpec
CONSTANTS
    Depth = 2
    Regions = {r1}
    Threads = {t1, t2}
    Requested <- AllFrames
    Corrupt = {}
    Timeout = 0
    NoEntry = NoEntry
    NoData = NoData
PROPERTIES
    RequestReturns
    UnusedIsPurged
