---------------------------- MODULE SchedProofs ----------------------------
(***************************************************************************)
(* The scheduler's invariants, for any number of processes, priorities and *)
(* informed tasks: the candidate in p_proc_ready is always runnable, and   *)
(* it is the one with the most ticks, interrupts in schedule() or not.     *)
(***************************************************************************)
EXTENDS Sched, TLAPS

\* What schedule() knows in its loops: the candidate is runnable and was
\* passed, and the one about to be taken beats it still.
LoopOK ==
    /\ mode \in {"user", "call"} => p_proc_ready \in runnable
    /\ mode \in {"look", "take"} /\ greatest_ticks > 0
          => p_proc_ready \in runnable /\ p_proc_ready < p
    /\ mode = "take" => p \in runnable /\ ticks[p] >= greatest_ticks
    /\ mode = "refill" => greatest_ticks = 0

IInv == TypeOK /\ LoopOK /\ PicksGreatest

----------------------------------------------------------------------------

\* The processes are the numbers below NProcs, and priorities are positive.
LEMMA Constants ==
    /\ NProcs \in Nat \ {0}
    /\ Procs = 0 .. NProcs - 1
    /\ \A q \in Procs : q \in Nat /\ priority[q] \in Nat \ {0}
    /\ Informed \subseteq Procs
BY SchedAssumption DEF Procs

\* The initial state satisfies the invariant.
LEMMA InitInv == Init => IInv
<1> SUFFICES ASSUME Init PROVE IInv
  OBVIOUS
<1>1. ticks \in [Procs -> Nat] /\ \A q \in Procs : ticks[q] <= priority[q]
  BY Constants, SchedAssumption DEF Init
<1>2. 0 \in Procs /\ 0 \in 0 .. NProcs
  BY Constants
<1>3. TypeOK
  BY <1>1, <1>2 DEF Init, TypeOK
<1>4. LoopOK /\ PicksGreatest
  BY <1>2 DEF Init, LoopOK, PicksGreatest
<1> QED
  BY <1>3, <1>4 DEF IInv

\* Charging a process keeps everybody's ticks between 0 and the priority,
\* and never adds to anybody's.
LEMMA ChargeProperties ==
    ASSUME TypeOK, Charge
    PROVE  /\ ticks' \in [Procs -> Nat]
           /\ \A q \in Procs : ticks'[q] <= ticks[q]
           /\ \A q \in Procs : q # p_proc_ready => ticks'[q] = ticks[q]
BY Constants DEF TypeOK, Charge

\* Every step keeps the types.
LEMMA TypeStep == IInv /\ [Next]_vars => TypeOK'
<1> SUFFICES ASSUME IInv, [Next]_vars PROVE TypeOK'
  OBVIOUS
<1> USE Constants DEF IInv
<1>1. CASE Call
  BY <1>1 DEF TypeOK, Call, NoScheduling
<1>2. CASE CallReturns
  BY <1>2 DEF TypeOK, CallReturns, NoScheduling
<1>3. CASE CallBlocks
  <2>1. byClock' \in BOOLEAN
    BY <1>3, Zenon DEF CallBlocks, Schedule
  <2>2. mode' = "look" /\ p' = 0 /\ greatest_ticks' = 0
    BY <1>3, Zenon DEF CallBlocks, Schedule
  <2>3. runnable' \subseteq runnable /\ UNCHANGED <<ticks, p_proc_ready>>
    BY <1>3, Zenon DEF CallBlocks
  <2> QED
    BY <2>1, <2>2, <2>3 DEF TypeOK
<1>4. CASE Look
  BY <1>4 DEF TypeOK, Look
<1>5. CASE Take
  BY <1>5 DEF TypeOK, LoopOK, Take
<1>6. CASE LookEnd
  <2>1. byClock' \in BOOLEAN
    <3>1. byClock' = FALSE \/ byClock' = byClock
      BY <1>6, Zenon DEF LookEnd
    <3> QED
      BY <3>1, Zenon DEF TypeOK
  <2> QED
    BY <1>6, <2>1 DEF TypeOK, LookEnd
<1>7. CASE Refill
  BY <1>7 DEF TypeOK, Refill
<1>8. CASE RefillEnd
  BY <1>8 DEF TypeOK, RefillEnd
<1>9. CASE UserTick
  <2>1. /\ ticks' \in [Procs -> Nat]
        /\ \A q \in Procs : ticks'[q] <= priority[q]
    BY <1>9, ChargeProperties DEF TypeOK, UserTick
  <2>2. byClock' \in BOOLEAN
    BY <1>9, Zenon DEF TypeOK, UserTick, Schedule, NoScheduling
  <2> QED
    BY <1>9, <2>1, <2>2 DEF TypeOK, UserTick, Schedule, NoScheduling
<1>10. CASE KernelTick
  <2>1. /\ ticks' \in [Procs -> Nat]
        /\ \A q \in Procs : ticks'[q] <= priority[q]
    BY <1>10, ChargeProperties DEF TypeOK, KernelTick
  <2> QED
    BY <1>10, <2>1 DEF TypeOK, KernelTick, NoScheduling
<1>11. CASE InformInt
  BY <1>11 DEF TypeOK, InformInt, NoScheduling
<1>12. CASE UNCHANGED vars
  BY <1>12 DEF TypeOK, vars
<1> QED
  BY <1>1, <1>2, <1>3, <1>4, <1>5, <1>6, <1>7, <1>8, <1>9, <1>10, <1>11,
     <1>12 DEF Next, Kernel

\* Every step keeps what the loops know.  A clock interrupt can spoil the
\* process about to be taken only while there is no other candidate.
LEMMA LoopStep == IInv /\ [Next]_vars => LoopOK'
<1> SUFFICES ASSUME IInv, [Next]_vars PROVE LoopOK'
  OBVIOUS
<1> USE Constants DEF IInv, TypeOK, LoopOK
<1>1. CASE Call
  BY <1>1 DEF Call, NoScheduling
<1>2. CASE CallReturns
  BY <1>2 DEF CallReturns, NoScheduling
<1>3. CASE CallBlocks
  BY <1>3 DEF CallBlocks, Schedule
<1>4. CASE Look
  BY <1>4 DEF Look
<1>5. CASE Take
  BY <1>5 DEF Take
<1>6. CASE LookEnd
  BY <1>6 DEF LookEnd
<1>7. CASE Refill
  BY <1>7 DEF Refill
<1>8. CASE RefillEnd
  BY <1>8 DEF RefillEnd
<1>9. CASE UserTick
  BY <1>9 DEF UserTick, Schedule, NoScheduling
<1>10. CASE KernelTick
  <2>1. mode = "take" => ticks'[p] >= greatest_ticks
    <3>1. CASE p_proc_ready = p
      BY <1>10, <3>1, ChargeProperties DEF KernelTick
    <3>2. CASE p_proc_ready # p
      BY <1>10, <3>2, ChargeProperties DEF KernelTick
    <3> QED
      BY <3>1, <3>2
  <2> QED
    BY <1>10, <2>1 DEF KernelTick, NoScheduling
<1>11. CASE InformInt
  BY <1>11 DEF InformInt, NoScheduling
<1>12. CASE UNCHANGED vars
  BY <1>12 DEF vars
<1> QED
  BY <1>1, <1>2, <1>3, <1>4, <1>5, <1>6, <1>7, <1>8, <1>9, <1>10, <1>11,
     <1>12 DEF Next, Kernel

\* Every step keeps the candidate the one with the most ticks.
LEMMA GreatestStep == IInv /\ [Next]_vars => PicksGreatest'
<1> SUFFICES ASSUME IInv, [Next]_vars PROVE PicksGreatest'
  OBVIOUS
<1> USE Constants DEF IInv, TypeOK, LoopOK, PicksGreatest
<1>1. CASE Call
  BY <1>1 DEF Call, NoScheduling
<1>2. CASE CallReturns
  BY <1>2 DEF CallReturns, NoScheduling
<1>3. CASE CallBlocks
  BY <1>3 DEF CallBlocks, Schedule
<1>4. CASE Look
  BY <1>4 DEF Look
<1>5. CASE Take
  BY <1>5 DEF Take
<1>6. CASE LookEnd
  BY <1>6 DEF LookEnd
<1>7. CASE Refill
  BY <1>7 DEF Refill
<1>8. CASE RefillEnd
  BY <1>8 DEF RefillEnd
<1>9. CASE UserTick
  BY <1>9, ChargeProperties DEF UserTick, Schedule, NoScheduling
<1>10. CASE KernelTick
  BY <1>10, ChargeProperties DEF KernelTick, NoScheduling
<1>11. CASE InformInt
  BY <1>11 DEF InformInt, NoScheduling
<1>12. CASE UNCHANGED vars
  BY <1>12 DEF vars
<1> QED
  BY <1>1, <1>2, <1>3, <1>4, <1>5, <1>6, <1>7, <1>8, <1>9, <1>10, <1>11,
     <1>12 DEF Next, Kernel

\* The inductive invariant holds in every state.
THEOREM Invariance == Spec => []IInv
<1>1. IInv /\ [Next]_vars => IInv'
  BY TypeStep, LoopStep, GreatestStep DEF IInv
<1> QED
  BY InitInv, <1>1, PTL DEF Spec

\* The scheduler's variables keep their types; time left stays between 0 and
\* the priority (clock_handler, schedule()).
THEOREM TypeCorrect == Spec => []TypeOK
<1>1. IInv => TypeOK
  BY DEF IInv
<1> QED
  BY Invariance, <1>1, PTL

\* restart() never returns to a blocked process.
THEOREM NeverRunsBlocked == Spec => []RunsRunnable
<1>1. IInv => RunsRunnable
  BY DEF IInv, LoopOK, RunsRunnable
<1> QED
  BY Invariance, <1>1, PTL

\* schedule()'s candidate has the most ticks of those it has passed.
THEOREM CandidateIsGreatest == Spec => []PicksGreatest
<1>1. IInv => PicksGreatest
  BY DEF IInv
<1> QED
  BY Invariance, <1>1, PTL
=============================================================================
