SPECIFICATION FairSpec
CONSTANTS
    Connections = {c1, c2, c3}
    Addresses = {a1, a2}
    Loaders = {l1, l2}
INVARIANTS
    TouchesLive
    OpenIsNotified
    MapRaceNeedsNobody
PROPERTIES
    ClosedIsForgotten
