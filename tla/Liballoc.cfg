SPECIFICATION FairSpec
CONSTANTS
    NumPages = 6
    PageSize = 8
    PageCount = 2
    Hdr = 1
    MinExp = 2
    MaxExp = 7
    MaxComplete = 1
    Sizes = {1, 6, 16}
    Counts = {2}
INVARIANTS
    BlocksSound
    BinsSound
    RegionsInPieces
PROPERTIES
    HeapSpec
    CallsReturn
\* a write through the null pointer stops the machine
CHECK_DEADLOCK FALSE
