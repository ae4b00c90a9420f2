SPECIFICATION FairSpec
CONSTANTS
    MaxTimeout = 2
    CheckInterval = 2
    MaxPing = 4
    MaxBuffer = 3
    Interval = 2
    Word = 5
    FirstKinds = {"keyboard", "mouse"}
    SecondKinds = {}
    MaxPlugs = 1
    MaxLost = 1
    MaxLine = 1
CHECK_DEADLOCK FALSE
INVARIANTS
    IdentificationTimed
    KeepsAlive
PROPERTIES
    IdentifiedRight
    IdentificationEnds
    UnpluggedNoticed
