SPECIFICATION Spec
CONSTANTS
    SCR_WIDTH = 2
    ScrLines = 2
    ConLines = 4
    ReadMax = 2
INVARIANTS
    TypeOK
    ScreenInside
    OutputShown
    OnlyOvertakingFailsAsserts
PROPERTIES
    OutCharReturns
CHECK_DEADLOCK FALSE
