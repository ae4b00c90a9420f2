SPECIFICATION FairSpec
CONSTANTS
    MaxTimeout = 2
    CheckInterval = 2
    MaxPing = 4
    MaxBuffer = 3
    Interval = 2
    Word = 5
    FirstKinds = {"mouse"}
    SecondKinds = {}
    MaxPlugs = 1
    MaxLost = 0
    MaxLine = 1
CHECK_DEADLOCK FALSE
PROPERTIES
    PresumedIsKeyboard
