------------------------------- MODULE Sched -------------------------------
(***************************************************************************)
(* Which process runs: schedule() (kernel/proc.c), the clock interrupt     *)
(* that charges the running process and calls it (kernel/clock.c), and the *)
(* paths into and out of the kernel (kernel/kernel.asm: save, sys_call,    *)
(* hwint_master, restart).  What a system call does to the process table   *)
(* is module Ipc's subject; here it unblocks one process, blocks its       *)
(* caller, or neither.                                                     *)
(*                                                                         *)
(* The loops of schedule() are taken step by step: block() calls it with   *)
(* interrupts enabled, so a clock interrupt may charge p_proc_ready, which *)
(* is then only the best candidate so far, and an interrupt may unblock a  *)
(* driver task the loop has already passed.                                *)
(***************************************************************************)
EXTENDS Integers

CONSTANTS
    NProcs,       \* NR_TASKS + NR_PROCS
    priority,     \* the ticks a process is refilled with
    Informed      \* the tasks inform_int unblocks

Procs == 0 .. NProcs - 1        \* proc_table, FIRST_PROC to LAST_PROC

ASSUME SchedAssumption ==
    /\ NProcs \in Nat \ {0}
    /\ priority \in [Procs -> Nat \ {0}]
    /\ Informed \subseteq Procs

VARIABLES
    runnable,         \* the processes with p_flags = 0
    ticks,            \* ticks[q]: what is left of q's time
    p_proc_ready,     \* the process that runs, or runs next
    mode,             \* "user", "call", or where schedule() is
    byClock,          \* schedule() was called by clock_handler
    p,                \* schedule()'s loop variable
    greatest_ticks    \* and its greatest ticks so far

vars == <<runnable, ticks, p_proc_ready, mode, byClock, p, greatest_ticks>>

----------------------------------------------------------------------------

Init ==
    /\ runnable = Procs
    /\ ticks = priority
    /\ p_proc_ready = 0
    /\ mode = "user"
    /\ byClock = FALSE
    /\ p = 0
    /\ greatest_ticks = 0

\* schedule() is entered
Schedule(clock) ==
    /\ mode' = "look"
    /\ byClock' = clock
    /\ p' = 0
    /\ greatest_ticks' = 0

InSchedule == mode \in {"look", "take", "refill"}

NoScheduling == UNCHANGED <<byClock, p, greatest_ticks>>

----------------------------------------------------------------------------
(* System calls of the running process *)

Call ==
    /\ mode = "user"
    /\ mode' = "call"
    /\ UNCHANGED <<runnable, ticks, p_proc_ready>> /\ NoScheduling

\* it returns to the caller, having unblocked a process at most
CallReturns ==
    /\ mode = "call"
    /\ \/ UNCHANGED runnable
       \/ \E q \in Procs \ runnable : runnable' = runnable \cup {q}
    /\ mode' = "user"
    /\ UNCHANGED <<ticks, p_proc_ready>> /\ NoScheduling

\* it blocks the caller: p_flags is set, block() calls schedule()
CallBlocks ==
    /\ mode = "call"
    /\ runnable' = runnable \ {p_proc_ready}
    /\ Schedule(FALSE)
    /\ UNCHANGED <<ticks, p_proc_ready>>

----------------------------------------------------------------------------
(* Interrupts *)

\* Mutant: the running process is not charged.
ChargeNobody == ticks' = ticks

\* Mutant: a process without ticks is charged as well.
ChargeUnchecked ==
    ticks' = [ticks EXCEPT ![p_proc_ready] = @ - 1]

\* clock_handler: if (p_proc_ready->ticks) p_proc_ready->ticks--
Charge ==
    ticks' = [ticks EXCEPT ![p_proc_ready] = IF @ > 0 THEN @ - 1 ELSE 0]

\* the clock interrupts a process: it runs on, or schedule() chooses
UserTick ==
    /\ mode = "user"
    /\ Charge
    /\ IF ticks'[p_proc_ready] > 0
       THEN UNCHANGED mode /\ NoScheduling
       ELSE Schedule(TRUE)
    /\ UNCHANGED <<runnable, p_proc_ready>>

\* it interrupts the kernel (k_reenter # 0) and returns; the handler's own
\* interrupt is masked while it runs
KernelTick ==
    /\ mode # "user"
    /\ ~byClock
    /\ Charge
    /\ UNCHANGED <<runnable, p_proc_ready, mode>> /\ NoScheduling

\* an interrupt handler unblocks a task, whatever runs
InformInt ==
    /\ \E t \in Informed \ runnable : runnable' = runnable \cup {t}
    /\ UNCHANGED <<ticks, p_proc_ready, mode>> /\ NoScheduling

----------------------------------------------------------------------------
(* schedule() *)

\* Mutant: blocked processes are considered.
LookAnyone ==
    /\ mode = "look"
    /\ p \in Procs
    /\ IF ticks[p] > greatest_ticks
       THEN mode' = "take" /\ UNCHANGED p
       ELSE p' = p + 1 /\ UNCHANGED mode
    /\ UNCHANGED <<runnable, ticks, p_proc_ready, byClock, greatest_ticks>>

\* the test of the first for loop
Look ==
    /\ mode = "look"
    /\ p \in Procs
    /\ IF p \in runnable /\ ticks[p] > greatest_ticks
       THEN mode' = "take" /\ UNCHANGED p
       ELSE p' = p + 1 /\ UNCHANGED mode
    /\ UNCHANGED <<runnable, ticks, p_proc_ready, byClock, greatest_ticks>>

\* Mutant: the first process with ticks is followed by any other with ticks.
TakeAny ==
    /\ mode = "take"
    /\ greatest_ticks' = 1
    /\ p_proc_ready' = p
    /\ mode' = "look"
    /\ p' = p + 1
    /\ UNCHANGED <<runnable, ticks, byClock>>

\* its body, which reads p->ticks again
Take ==
    /\ mode = "take"
    /\ greatest_ticks' = ticks[p]
    /\ p_proc_ready' = p
    /\ mode' = "look"
    /\ p' = p + 1
    /\ UNCHANGED <<runnable, ticks, byClock>>

\* its end: leave schedule() and the kernel, or refill
LookEnd ==
    /\ mode = "look"
    /\ p = NProcs
    /\ IF greatest_ticks > 0
       THEN mode' = "user" /\ byClock' = FALSE
       ELSE mode' = "refill" /\ UNCHANGED byClock
    /\ p' = 0
    /\ UNCHANGED <<runnable, ticks, p_proc_ready, greatest_ticks>>

\* the second for loop
Refill ==
    /\ mode = "refill"
    /\ p \in Procs
    /\ ticks' = IF p \in runnable THEN [ticks EXCEPT ![p] = priority[p]]
                                  ELSE ticks
    /\ p' = p + 1
    /\ UNCHANGED <<runnable, p_proc_ready, mode, byClock, greatest_ticks>>

RefillEnd ==
    /\ mode = "refill"
    /\ p = NProcs
    /\ mode' = "look"
    /\ p' = 0
    /\ UNCHANGED <<runnable, ticks, p_proc_ready, byClock, greatest_ticks>>

----------------------------------------------------------------------------

Kernel == CallReturns \/ CallBlocks
          \/ Look \/ Take \/ LookEnd \/ Refill \/ RefillEnd

Next == Call \/ Kernel \/ UserTick \/ KernelTick \/ InformInt

\* The kernel's code goes on, and the clock does not forever strike only
\* while the kernel runs: a system call takes microseconds of a process that
\* computes, the clock has a period of 10 ms.  Processes need not call.
Fairness == WF_vars(Kernel) /\ SF_vars(UserTick)

Spec == Init /\ [][Next]_vars /\ Fairness

----------------------------------------------------------------------------
(* Properties *)

\* The values of the scheduler's state; nobody has negative time or more
\* time than its priority.
TypeOK ==
    /\ runnable \subseteq Procs
    /\ ticks \in [Procs -> Nat]
    /\ \A q \in Procs : ticks[q] <= priority[q]
    /\ p_proc_ready \in Procs
    /\ mode \in {"user", "call", "look", "take", "refill"}
    /\ byClock \in BOOLEAN
    /\ p \in 0 .. NProcs
    /\ greatest_ticks \in Nat

\* The process restart() returns to is not blocked, although schedule() uses
\* p_proc_ready for its candidates while interrupts change ticks and flags.
RunsRunnable == mode = "user" => p_proc_ready \in runnable

\* Of the processes that were runnable when schedule() passed them, none has
\* more ticks than the candidate had when it was taken; so time is refilled
\* only when all of them have used theirs up.  (A task that an interrupt
\* unblocks may become runnable behind the loop.)
PicksGreatest ==
    mode \in {"look", "take"} =>
        \A q \in runnable \ Informed : q < p => ticks[q] <= greatest_ticks

\* A clock interrupt inside schedule(): it charges a candidate, which has
\* not run.
TickInSchedule == KernelTick /\ InSchedule

\* A process that stays runnable runs again and again, whatever the others
\* do, if the clock does not forever strike inside schedule().
NoStarvation ==
    \A q \in Procs :
        <>[](q \in runnable) /\ <>[][~TickInSchedule]_vars
            => []<>(mode = "user" /\ p_proc_ready = q)
=============================================================================
