SPECIFICATION MCSpec
CONSTANTS
    ETH_TXBUFNB = 3
    MaxBufs = 2
    MaxFrames = 5
    CallerChecks = TRUE
    ETH_RXBUFNB = 3
    MaxSegs = 4
    MaxRxFrames = 4
    Limit = 3
    Forced <- Straight
    MiiTimely <- BOOLEAN
    MaxCalls = 2
CHECK_DEADLOCK FALSE
INVARIANTS EthTypeOK MacAgrees
PROPERTIES ImplementsQueue RxImplementsQueue EarlierFramesLeave EveryFrameRead LoopBackOnly ConfigEnds
