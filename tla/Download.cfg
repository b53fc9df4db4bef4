SPECIFICATION FairSpec
CONSTANTS
    Word = 2
    Unit = 4
    WriteSize = 4
    Stdio = 4
    HeaderUnits = 2
    Cubes <- SmallCubes
    HeaderRequests = {h1}
    DataRequests = {d1}
INVARIANTS
    TypeOK
    BufferFits
    VerdictFitsStream
    FitsFileComplete
    CubeKept
    AnswersAreFinal
PROPERTIES
    RequestsAnswered
    AnnouncedStands
    ServesData
