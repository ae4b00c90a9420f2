SPECIFICATION FairSpec
CONSTANTS
    PageSize = 4
    TablePages = 4
    paging_size = 3
    MaxTables = 3
    NULL = NULL
    JUNK = JUNK
    MAX_CPU_COUNT = 2
    MAX_IOAPIC_COUNT = 2
    Machines <- SmallMachines
INVARIANTS
    TypeOK
    WindowsReleased
    StopsExplained
    TablesRead
    LinesRouted
PROPERTY StartupEnds
\* a panic, a fault, the idle loop, and a walk that goes round for ever
CHECK_DEADLOCK FALSE
