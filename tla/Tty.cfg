\* A shell on one of two terminals, and a process that uses files.
SPECIFICATION Spec
CONSTANTS
    FS = FS
    TTY = TTY
    ANY = ANY
    INTERRUPT = INTERRUPT
    HARD_INT = HARD_INT
    Blank = Blank
    u1 = u1
    u2 = u2
    Users <- MCUsers
    TtyOf <- MCFirst
    Calls <- MCShell
    NTtys = 2
    Keys = {"char", "backspace", "newline", "switch"}
    MaxCnt = 2
    KbBytes = 1
    InBytes = 1
INVARIANTS
    TypeOK
    ReaderWaits
    RepliesWanted
    NoKeySlept
    NoPanic
