SPECIFICATION Spec
CONSTANTS
    KB_IN_BYTES = 3
    Keys <- MCKeys
    MaxHeld = 2
    MaxTyped = 3
    EarlyKeys = FALSE
INVARIANTS
    TypeOK
    RingHolds
    Decoded
    MidCodeWaits
CHECK_DEADLOCK FALSE
