SPECIFICATION Spec
CONSTANTS
    MaxInterrupts = 1
    FirmwareTimer = TRUE
INVARIANT UnlockRestores
\* the idle loop, kpanic and an exception handler stop
CHECK_DEADLOCK FALSE
