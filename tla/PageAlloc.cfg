SPECIFICATION FairSpec
CONSTANTS
    NumPages = 6
    Requests = {1, 2, 3}
INVARIANTS
    NoOverlap
    NoLeak
    SparePoolSound
    Inv
PROPERTIES
    CallsReturn
    PageSourceSpec
