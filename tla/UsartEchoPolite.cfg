SPECIFICATION FairSpec
CONSTANTS
    MAX_LEN = 3
    BannerLen = 2
    MaxBytes = 6
    MaxMsg = 3
    PoliteHost = TRUE
    QuietBoot = TRUE
    BootIdle <- Either
    FastCpu = TRUE
CHECK_DEADLOCK FALSE
INVARIANTS EchoExact
PROPERTIES ArmedLossless ImplementsService
