SPECIFICATION Spec
CONSTANTS
    t = t
    u = u
    v = v
    w = w
    m1 = m1
    m2 = m2
    Procs = {t, u, v}
    IntTasks = {t}
    Bodies = {m1, m2}
    NestedInts = TRUE
    ANY = ANY
    INTERRUPT = INTERRUPT
    NO_TASK = NO_TASK
    SENDING = SENDING
    RECEIVING = RECEIVING
    HARD_INT = HARD_INT
    Blank = Blank
INVARIANTS
    OnlyInterruptsFailAsserts

    
\* Processes may all be waiting to receive, which deadlock() does not look at.
CHECK_DEADLOCK FALSE
