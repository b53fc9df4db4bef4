SPECIFICATION Spec
CONSTANTS
    Workers = {w1, w2}
    MaxSeq = 1
    Frames = {0, 1}
    NoOne = NoOne
INVARIANTS
    TypeOK
    SpectrumInOrder
    VideoInOrder
    ClosedIsQuiet
    WorkersNeverStuck
PROPERTIES
    SpectraInSequence
    VideosInSequence
SYMMETRY Symmetry
