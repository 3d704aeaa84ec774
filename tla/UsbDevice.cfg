SPECIFICATION MCSpec
CONSTANTS
    MPS = 2
    Requests <- SomeRequests
    ClassHandlers = {"none", "CDC", "HID", "MSC"}
    MaxAborts = 2
    MaxResets = 1
    FastIsr = TRUE
    BlkNbr = 4
    BlkSize = 2
    MediaPacket = 4
    Word = 256
    AppClears = TRUE
    FastBulk = TRUE
    Commands <- ProperCommands
    MaxCommands = 4
    MayFail = {"READY"}
CHECK_DEADLOCK FALSE
INVARIANTS UsbTypeOK DataExact AddressAgreed CswTrue ReadyForNext
PROPERTIES RetryAnswered SenseCurrent ProperAnswered
