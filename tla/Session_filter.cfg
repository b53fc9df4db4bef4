SPECIFICATION Spec
CONSTANTS
    Workers = {w1, w2}
    MaxSeq = 1
    Frames = {0}
    NoOne = NoOne
INVARIANTS
    FilterInUseExists
