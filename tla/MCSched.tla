------------------------------ MODULE MCSched ------------------------------
(* An instance of Sched for TLC: a task an interrupt unblocks, a task no    *)
(* interrupt unblocks and two user processes, tasks with the higher         *)
(* priority.                                                                *)
EXTENDS Sched

MCPriority == [q \in Procs |-> IF q < 2 THEN 2 ELSE 1]
MCInformed == {0}
=============================================================================
