SPECIFICATION Spec
CONSTANTS
    MAX_LEN = 2
    BannerLen = 1
    MaxBytes = 4
    MaxMsg = 3
    PoliteHost = FALSE
    QuietBoot = TRUE
    BootIdle <- Either
    FastCpu = FALSE
CHECK_DEADLOCK FALSE
INVARIANTS ByteConservation
PROPERTIES SnapshotStable
