SPECIFICATION FairSpec
CONSTANTS
    MAX_LEN = 3
    BannerLen = 2
    MaxBytes = 3
    MaxMsg = 3
    PoliteHost = TRUE
    QuietBoot = TRUE
    BootIdle <- NeverIdle
    FastCpu = TRUE
CHECK_DEADLOCK FALSE
PROPERTIES MessageEchoed
