SPECIFICATION FairSpec
CONSTANTS
    Workers = {w1, w2}
    MaxSeq = 0
    Frames = {0, 1}
    NoOne = NoOne
PROPERTIES
    CloseCompletes
