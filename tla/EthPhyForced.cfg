SPECIFICATION PhySpec
CONSTANTS
    Limit = 3
    Forced <- Setting
    MiiTimely <- BOOLEAN
    MaxCalls = 0
CHECK_DEADLOCK FALSE
INVARIANT MacAgrees
