SPECIFICATION FairSpec
CONSTANTS
    MAX_LEN = 2
    BannerLen = 1
    MaxBytes = 2
    MaxMsg = 3
    PoliteHost = FALSE
    QuietBoot = FALSE
    BootIdle <- NeverIdle
    FastCpu = FALSE
CHECK_DEADLOCK FALSE
INVARIANTS TypeOK BufferSafe
PROPERTIES ReturnsToLoop
