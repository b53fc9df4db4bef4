SPECIFICATION FairSpec
CONSTANTS
    NBlocks = 2
    Regions = {r1}
    Faults = {"no_write", "short_write", "short_image", "no_memory"}
    MaxTorn = 0
    NoJson = NoJson
PROPERTIES
    StartSettles
