SPECIFICATION LogFairSpec
CONSTANTS
    \* the blocks of the lines do not divide what the tables leave of it, as in
    \* the kernel, where (8192 - 3) % 16 = 13
    NumPages = 34
    Requests = {1}
    PageSize = 8
    PageCount = 2
    Hdr = 1
    MinExp = 2
    MaxExp = 9
    MaxComplete = 5
    FrameSize = 4
    KernelFrames = 2
    AddressLimit = 256
    LineBytes = 5
    MadtBytes = 3
    TableLines = 2
    LaterLines = 4
    Height = 3
    Width = 3
    WordBits = 30
    NumeralBytes = 32
    Messages <- MCMessages
    Keys <- MCKeys
    Maps <- MCMaps
INVARIANTS
    PagesApart
    ScreenShowsLog
    BufferHoldsLine
    HexNumeralsRight
    HeapInRam
PROPERTIES
    ImplementsLiballoc
    LinesEnd
\* the idle loop, a write through NULL
CHECK_DEADLOCK FALSE
