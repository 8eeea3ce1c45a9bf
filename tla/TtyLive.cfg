\* A shell on the only terminal: every read returns.
SPECIFICATION Spec
CONSTANTS
    FS = FS
    TTY = TTY
    ANY = ANY
    INTERRUPT = INTERRUPT
    HARD_INT = HARD_INT
    Blank = Blank
    u1 = u1
    u2 = u2
    Users <- MCUser
    TtyOf <- MCAlone
    Calls <- MCShellAlone
    NTtys = 1
    Keys = {"char", "newline"}
    MaxCnt = 2
    KbBytes = 1
    InBytes = 1
PROPERTIES
    ReadsReturn
