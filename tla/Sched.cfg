\* Clock ticks anywhere, system calls that block and unblock, one informed task.
CONSTANTS
    NProcs = 4
    priority <- MCPriority
    Informed <- MCInformed

SPECIFICATION Spec
INVARIANTS
    TypeOK
    RunsRunnable
    PicksGreatest
PROPERTIES
    NoStarvation
