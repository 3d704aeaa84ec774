SPECIFICATION MCSpec
CONSTANTS
    Setups <- MCSetups
    MaxFaults = 2
    MaxPlugs = 2
    Lengths = {0, 1, 2, 5}
    MaxPackSize = 2
    MaxSends = 2
    MaxLost = 3
    MaxReplugs = 1
CHECK_DEADLOCK FALSE
INVARIANTS UsbHostTypeOK StagesDone ChannelsAddressDevice SendExact
PROPERTIES UnplugNoticed DeviceReady SendEnds
