SPECIFICATION Spec
CONSTANTS
    NBlocks = 2
    Regions = {r1, r2}
    Faults = {"no_write", "short_write"}
    MaxTorn = 1
    NoJson = NoJson
INVARIANTS
    CommitIsComplete
SYMMETRY Symmetry
