SPECIFICATION Spec
CONSTANTS
    ETH_TXBUFNB = 2
    MaxBufs = 1
    MaxFrames = 4
    CallerChecks = FALSE
CHECK_DEADLOCK FALSE
PROPERTY OwnedUntouched
