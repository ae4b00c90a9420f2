SPECIFICATION FairSpec
CONSTANTS
    MaxInterrupts = 2
    FirmwareTimer = TRUE
INVARIANTS
    HeapExclusive
    OneInService
    FlagTracksIF
    IInv
PROPERTIES
    InterruptsComeBack
    InterruptsTaken
    BootCompletes
\* the idle loop, kpanic and an exception handler stop
CHECK_DEADLOCK FALSE
