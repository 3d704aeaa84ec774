SPECIFICATION Spec
CONSTANTS
    Pages <- TwoPages
    ByteOf <- Bytes
    Limit = 2
    Ops <- AllOps
    MaxCalls = 3
    MaxResets = 1
INVARIANTS TypeOK CompleteMeansDone MainModesReleased ProtectionKept EraseSelectsOne
PROPERTIES StartsClean CallReturns
