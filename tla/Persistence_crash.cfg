SPECIFICATION Spec
CONSTANTS
    NBlocks = 2
    Regions = {r1, r2}
    Faults = {}
    MaxTorn = 1
    NoJson = NoJson
INVARIANTS
    CommitIsComplete
    ReadyIsComplete
PROPERTIES
    CommittedFrozen
    AnnouncedStands
    StoresData
SYMMETRY Symmetry
