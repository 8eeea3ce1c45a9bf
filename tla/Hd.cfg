\* Requests of 1 to CountRange sectors; the disk may exceed HD_TIMEOUT.
SPECIFICATION Spec
CONSTANTS
    FS = FS
    HD = HD
    SYS = SYS
    ANY = ANY
    INTERRUPT = INTERRUPT
    HARD_INT = HARD_INT
    Blank = Blank
    Values <- MCValues
    NSectors = 2
    MaxSectors = 2
    CountRange = 2
    MaxTables = 2
    Timeouts = TRUE
INVARIANTS
    TypeOK
    ReplyComplete
    QuietWhenTiming
PROPERTIES
    RequestsAnswered
