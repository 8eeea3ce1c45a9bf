SPECIFICATION Spec
CONSTANTS
    t = t
    u = u
    v = v
    w = w
    m1 = m1
    m2 = m2
    Procs = {t, u, v, w}
    IntTasks = {t}
    Bodies = {m1}
    NestedInts = TRUE
    ANY = ANY
    INTERRUPT = INTERRUPT
    NO_TASK = NO_TASK
    SENDING = SENDING
    RECEIVING = RECEIVING
    HARD_INT = HARD_INT
    Blank = Blank
SYMMETRY SymProcs
INVARIANTS
    TypeOK
    FieldsOK
    QueueOK
    NoSendCycle
    NoMissedWakeup
    QueuePathSafe
\* Processes may all be waiting to receive, which deadlock() does not look at.
CHECK_DEADLOCK FALSE
