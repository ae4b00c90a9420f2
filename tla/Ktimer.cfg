SPECIFICATION FairSpec
CONSTANTS
    Tasks = {t1, t2, t3}
    NULL = NULL
    MaxInterval = 3
    Word = 8
INVARIANTS
    NeverLate
PROPERTIES
    NeverEarly
    OthersStayLinked
    TicksEnd
