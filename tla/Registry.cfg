SPECIFICATION FairSpec
CONSTANTS
    Ids = {i1, i2}
    Objs = {o1, o2}
    Handlers = {h1, h2}
    None = None
INVARIANTS
    OneObject
    ShutdownSaves
    HeldIsAlive
    DestroyedOnce
PROPERTIES
    ShutdownCompletes
