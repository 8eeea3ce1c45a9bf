-------------------------------- MODULE Ipc --------------------------------
(***************************************************************************)
(* The kernel's synchronous message passing: kernel/proc.c, sys_sendrec    *)
(* and what it calls, as entered through sys_call (kernel/kernel.asm), and *)
(* inform_int, by which the interrupt handlers tell a driver task that its *)
(* device wants attention.                                                 *)
(*                                                                         *)
(* sys_call executes `sti' before it calls sys_sendrec, so interrupts nest *)
(* inside a system call, while the nested clock interrupt never            *)
(* reschedules (clock_handler returns when k_reenter # 0).  A system call  *)
(* is therefore atomic with respect to the other processes, and is not     *)
(* atomic with respect to inform_int.  The model has one system call in    *)
(* progress at most, cut into the pieces between which an inform_int of    *)
(* the same process table entry makes a difference; kpc is the next piece. *)
(*                                                                         *)
(* Which process runs is left open: any process with p_flags = 0 may make  *)
(* the next call (module Sched models the choice).                         *)
(***************************************************************************)
EXTENDS Naturals, SequencesExt

CONSTANTS
    Procs,        \* the process table entries, tasks and user processes
    IntTasks,     \* those some interrupt handler informs (TASK_TTY, TASK_HD)
    Bodies,       \* what a message carries
    NestedInts,   \* whether interrupts are enabled in a system call (`sti')
    ANY, INTERRUPT, NO_TASK,            \* the special process numbers
    SENDING, RECEIVING,                 \* the bits of p_flags
    HARD_INT, Blank                     \* an interrupt's body; a cleared one

ASSUME IpcAssumption ==
    /\ IntTasks \subseteq Procs
    /\ NestedInts \in BOOLEAN
    /\ ANY \notin Procs /\ INTERRUPT \notin Procs /\ NO_TASK \notin Procs
    /\ ANY # INTERRUPT /\ ANY # NO_TASK /\ INTERRUPT # NO_TASK
    /\ SENDING # RECEIVING
    /\ HARD_INT \notin Bodies /\ Blank \notin Bodies /\ HARD_INT # Blank

VARIABLES
    p_flags,      \* p_flags[p]: the set of the bits that are set
    p_msg,        \* p_msg[p]: whether the pointer to p's MESSAGE is not null
    p_recvfrom, p_sendto, has_int_msg,
    q_sending,    \* q_sending[d]: the list q_sending/next_sending, as a sequence
    buf,          \* buf[p]: the MESSAGE p passed with its current or last call
    kpc,          \* the next piece of the call in progress, "user" without one
    cur,          \* the caller of the call in progress, else NO_TASK
    peer          \* the src_dest argument of that call, else NO_TASK

tableVars == <<p_flags, p_msg, p_recvfrom, p_sendto, has_int_msg, q_sending>>
vars == <<tableVars, buf, kpc, cur, peer>>

----------------------------------------------------------------------------

\* A failed assertion or panic in ring 0 never returns: the machine spins.
Panics == {"deadlock", "assertSend", "assertInt", "assertFetch",
           "assertBlock", "assertInform"}

KernelPcs == {"user", "send", "sendCheck", "sendCopy", "sendClear",
              "sendUnblock", "recv", "recvInt", "recvIntCheck", "recvFetch",
              "recvBlock", "recvCheck"} \cup Panics

Message == [source : Procs \cup {INTERRUPT},
            body   : Bodies \cup {HARD_INT, Blank}]

HardInt == [source |-> INTERRUPT, body |-> HARD_INT]

(***************************************************************************)
(* The loop of deadlock(): from dest it follows p_sendto as long as the    *)
(* process is SENDING.  Chain(dest) is the set of processes it comes to,   *)
(* the least set with dest that is closed under that step; a loop that     *)
(* never came back to src and never ended would be a cycle without src.    *)
(***************************************************************************)
IsSending(p) == SENDING \in p_flags[p]

ClosedUnderSending(S) == \A p \in S : IsSending(p) => p_sendto[p] \in S

Chain(dest) ==
    {p \in Procs : \A S \in SUBSET Procs :
                        dest \in S /\ ClosedUnderSending(S) => p \in S}

\* Mutant: only a direct answer is noticed, not a longer chain.
DeadlockDirect(src, dest) == IsSending(dest) /\ p_sendto[dest] = src

Deadlock(src, dest) ==
    \E p \in Chain(dest) : IsSending(p) /\ p_sendto[p] = src

\* msg_send's test that dest is waiting for a message from src
WaitingFor(dest, src) ==
    /\ RECEIVING \in p_flags[dest]
    /\ p_recvfrom[dest] \in {src, ANY}

\* Mutant: a receiver of ANY does not count as waiting for an interrupt.
WaitingForIntOnly(t) ==
    /\ RECEIVING \in p_flags[t]
    /\ p_recvfrom[t] = INTERRUPT

\* inform_int's test that t is waiting for its interrupt
WaitingForInt(t) ==
    /\ RECEIVING \in p_flags[t]
    /\ p_recvfrom[t] \in {INTERRUPT, ANY}

\* the four fields a process has when it takes part in no call
AtRest(p) ==
    /\ p_flags[p] = {}
    /\ ~p_msg[p]
    /\ p_recvfrom[p] = NO_TASK
    /\ p_sendto[p] = NO_TASK

\* the call goes on at pc
Continue(pc) ==
    /\ kpc' = pc
    /\ UNCHANGED <<cur, peer>>

\* the call returns when its last assertions hold
Return(asserts, panic) ==
    IF asserts
    THEN kpc' = "user" /\ cur' = NO_TASK /\ peer' = NO_TASK
    ELSE Continue(panic)

----------------------------------------------------------------------------

Init ==
    /\ p_flags = [p \in Procs |-> {}]
    /\ p_msg = [p \in Procs |-> FALSE]
    /\ p_recvfrom = [p \in Procs |-> NO_TASK]
    /\ p_sendto = [p \in Procs |-> NO_TASK]
    /\ has_int_msg = [p \in Procs |-> FALSE]
    /\ q_sending = [p \in Procs |-> <<>>]
    /\ buf = [p \in Procs |-> [source |-> p, body |-> Blank]]
    /\ kpc = "user"
    /\ cur = NO_TASK
    /\ peer = NO_TASK

(***************************************************************************)
(* sys_sendrec: a runnable process traps with SEND or RECEIVE; the kernel  *)
(* writes the source field of the caller's MESSAGE.  send_recv clears the  *)
(* MESSAGE of a RECEIVE first; BOTH is a SEND and then a RECEIVE.          *)
(***************************************************************************)
Enter(p, target, pc, body) ==
    /\ kpc = "user"
    /\ p_flags[p] = {}
    /\ target # p
    /\ kpc' = pc
    /\ cur' = p
    /\ peer' = target
    /\ buf' = [buf EXCEPT ![p] = [source |-> p, body |-> body]]
    /\ UNCHANGED tableVars

CallSend(p, dest, body) == Enter(p, dest, "send", body)

\* a RECEIVE of its own, or the second half of BOTH with the message of the SEND
CallReceive(p, src) ==
    \E body \in {Blank, buf[p].body} : Enter(p, src, "recv", body)

(***************************************************************************)
(* Whom p may ask for: of the driver tasks, TTY only ever asks for ANY; HD *)
(* for ANY (its main loop), INTERRUPT (interrupt_wait) and TASK_SYS (in    *)
(* get_ticks, called by waitfor while the disk has no interrupt to raise:  *)
(* module Hd).  The other processes never ask for INTERRUPT.               *)
(***************************************************************************)
SourcesFor(p) ==
    IF p \notin IntTasks THEN Procs \cup {ANY}
    ELSE {ANY, INTERRUPT} \cup {s \in Procs : ~has_int_msg[p]}

\* t asks for the message of a certain process: its device is quiet
AsksProcess(t) ==
    \/ p_recvfrom[t] \in Procs
    \/ /\ t = cur /\ peer \in Procs
       /\ kpc \in {"recv", "recvFetch", "recvBlock", "recvCheck"}

----------------------------------------------------------------------------
(* msg_send *)

\* the deadlock check fails: panic()
SendDeadlock ==
    /\ kpc = "send"
    /\ Deadlock(cur, peer)
    /\ Continue("deadlock")
    /\ UNCHANGED <<tableVars, buf>>

\* dest is seen waiting; the hand-over starts
SendReady ==
    /\ kpc = "send"
    /\ ~Deadlock(cur, peer)
    /\ WaitingFor(peer, cur)
    /\ Continue("sendCheck")
    /\ UNCHANGED <<tableVars, buf>>

\* Mutant: p_msg is not set.
SendBlockNoMsg ==
    /\ kpc = "send"
    /\ ~Deadlock(cur, peer)
    /\ ~WaitingFor(peer, cur)
    /\ p_flags' = [p_flags EXCEPT ![cur] = @ \cup {SENDING}]
    /\ p_sendto' = [p_sendto EXCEPT ![cur] = peer]
    /\ q_sending' = [q_sending EXCEPT ![peer] = Append(@, cur)]
    /\ Return(TRUE, "assertSend")
    /\ UNCHANGED <<p_msg, p_recvfrom, has_int_msg, buf>>

\* dest is not waiting: the caller joins dest's queue and is blocked
SendBlock ==
    /\ kpc = "send"
    /\ ~Deadlock(cur, peer)
    /\ ~WaitingFor(peer, cur)
    /\ p_flags' = [p_flags EXCEPT ![cur] = @ \cup {SENDING}]
    /\ p_sendto' = [p_sendto EXCEPT ![cur] = peer]
    /\ p_msg' = [p_msg EXCEPT ![cur] = TRUE]
    /\ q_sending' = [q_sending EXCEPT ![peer] = Append(@, cur)]
    /\ Return(p_flags'[cur] = {SENDING} /\ p_recvfrom[cur] = NO_TASK,
              "assertSend")
    /\ UNCHANGED <<p_recvfrom, has_int_msg, buf>>

\* assert(p_dest->p_msg)
SendCheck ==
    /\ kpc = "sendCheck"
    /\ Continue(IF p_msg[peer] THEN "sendCopy" ELSE "assertSend")
    /\ UNCHANGED <<tableVars, buf>>

\* phys_copy; to address 0 of dest's segment if p_msg has become null
SendCopy ==
    /\ kpc = "sendCopy"
    /\ buf' = IF p_msg[peer] THEN [buf EXCEPT ![peer] = buf[cur]] ELSE buf
    /\ Continue("sendClear")
    /\ UNCHANGED tableVars

\* p_dest->p_msg = 0
SendClear ==
    /\ kpc = "sendClear"
    /\ p_msg' = [p_msg EXCEPT ![peer] = FALSE]
    /\ Continue("sendUnblock")
    /\ UNCHANGED <<p_flags, p_recvfrom, p_sendto, has_int_msg, q_sending, buf>>

\* Mutant: the receiver keeps p_recvfrom.
SendUnblockKeep ==
    /\ kpc = "sendUnblock"
    /\ p_flags' = [p_flags EXCEPT ![peer] = @ \ {RECEIVING}]
    /\ UNCHANGED <<p_msg, p_recvfrom, p_sendto, has_int_msg, q_sending, buf>>
    /\ Return(TRUE, "assertSend")

\* dest has received the message; the assertions about both processes
SendUnblock ==
    /\ kpc = "sendUnblock"
    /\ p_flags' = [p_flags EXCEPT ![peer] = @ \ {RECEIVING}]
    /\ p_recvfrom' = [p_recvfrom EXCEPT ![peer] = NO_TASK]
    /\ UNCHANGED <<p_msg, p_sendto, has_int_msg, q_sending, buf>>
    /\ Return(\A p \in {peer, cur} : AtRest(p)', "assertSend")

----------------------------------------------------------------------------
(* msg_receive *)

\* is an interrupt pending that this call accepts?
RecvTest ==
    /\ kpc = "recv"
    /\ Continue(IF has_int_msg[cur] /\ peer \in {ANY, INTERRUPT}
                THEN "recvInt" ELSE "recvFetch")
    /\ UNCHANGED <<tableVars, buf>>

\* hand HARD_INT to the caller
RecvInt ==
    /\ kpc = "recvInt"
    /\ buf' = [buf EXCEPT ![cur] = HardInt]
    /\ has_int_msg' = [has_int_msg EXCEPT ![cur] = FALSE]
    /\ Continue("recvIntCheck")
    /\ UNCHANGED <<p_flags, p_msg, p_recvfrom, p_sendto, q_sending>>

\* the assertions behind it, the last one that has_int_msg is still clear
RecvIntCheck ==
    /\ kpc = "recvIntCheck"
    /\ Return(/\ p_flags[cur] = {} /\ ~p_msg[cur]
              /\ p_sendto[cur] = NO_TASK /\ ~has_int_msg[cur],
              "assertInt")
    /\ UNCHANGED <<tableVars, buf>>

\* Mutant: the last sender in the queue is taken for ANY.
CandidatesLast ==
    IF peer = ANY
    THEN {q_sending[cur][i] : i \in {Len(q_sending[cur])} \ {0}}
    ELSE {p \in {peer} \cap Procs : IsSending(p) /\ p_sendto[p] = cur}

\* the senders msg_receive may take a message from now: the first in the
\* queue for ANY, the named one if it is blocked sending to the caller
Candidates ==
    IF peer = ANY
    THEN {q_sending[cur][i] : i \in {1} \cap DOMAIN q_sending[cur]}
    ELSE {p \in {peer} \cap Procs : IsSending(p) /\ p_sendto[p] = cur}

FetchAsserts(from) ==
    /\ AtRest(cur)
    /\ \E i \in DOMAIN q_sending[cur] : q_sending[cur][i] = from
    /\ p_flags[from] = {SENDING}
    /\ p_msg[from]
    /\ p_recvfrom[from] = NO_TASK
    /\ p_sendto[from] = cur

\* Mutant: the head is unlinked, whoever's message was taken.
UnlinkHead(q, p) == Tail(q)

\* q without p (which stands in it once, see QueueOK)
Unlink(q, p) == RemoveAt(q, CHOOSE i \in DOMAIN q : q[i] = p)

\* take the message of a blocked sender, unlink it and unblock it
Fetch(from) ==
    /\ q_sending' = [q_sending EXCEPT ![cur] = Unlink(@, from)]
    /\ buf' = [buf EXCEPT ![cur] = buf[from]]
    /\ p_msg' = [p_msg EXCEPT ![from] = FALSE]
    /\ p_sendto' = [p_sendto EXCEPT ![from] = NO_TASK]
    /\ p_flags' = [p_flags EXCEPT ![from] = @ \ {SENDING}]
    /\ Return(p_flags'[from] = {}, "assertFetch")
    /\ UNCHANGED <<p_recvfrom, has_int_msg>>

RecvFetch ==
    /\ kpc = "recvFetch"
    /\ \E from \in Candidates :
          IF FetchAsserts(from)
          THEN Fetch(from)
          ELSE Continue("assertFetch") /\ UNCHANGED <<tableVars, buf>>

\* nobody is sending
RecvNone ==
    /\ kpc = "recvFetch"
    /\ Candidates = {}
    /\ Continue("recvBlock")
    /\ UNCHANGED <<tableVars, buf>>

\* Mutant: the source is stored in p_sendto.
RecvBlockSendto ==
    /\ kpc = "recvBlock"
    /\ p_flags' = [p_flags EXCEPT ![cur] = @ \cup {RECEIVING}]
    /\ p_msg' = [p_msg EXCEPT ![cur] = TRUE]
    /\ p_sendto' = [p_sendto EXCEPT ![cur] = peer]
    /\ Continue("recvCheck")
    /\ UNCHANGED <<p_recvfrom, has_int_msg, q_sending, buf>>

\* the caller is blocked; inform_int sees it waiting from p_recvfrom = src on
RecvBlock ==
    /\ kpc = "recvBlock"
    /\ p_flags' = [p_flags EXCEPT ![cur] = @ \cup {RECEIVING}]
    /\ p_msg' = [p_msg EXCEPT ![cur] = TRUE]
    /\ p_recvfrom' = [p_recvfrom EXCEPT ![cur] = peer]
    /\ Continue("recvCheck")
    /\ UNCHANGED <<p_sendto, has_int_msg, q_sending, buf>>

\* block()'s assertion and those behind it
RecvCheck ==
    /\ kpc = "recvCheck"
    /\ Return(/\ p_flags[cur] = {RECEIVING} /\ p_msg[cur]
              /\ p_recvfrom[cur] # NO_TASK /\ p_sendto[cur] = NO_TASK
              /\ ~has_int_msg[cur],
              "assertBlock")
    /\ UNCHANGED <<tableVars, buf>>

----------------------------------------------------------------------------
(* inform_int(t), called by clock_handler (TASK_TTY) and hd_handler (TASK_HD) *)

InterruptsOn == kpc = "user" \/ (NestedInts /\ kpc \notin Panics)

\* t waits for it: HARD_INT is written through p_msg and t is unblocked
InformWaiting(t) ==
    /\ InterruptsOn
    /\ WaitingForInt(t)
    /\ buf' = IF p_msg[t] THEN [buf EXCEPT ![t] = HardInt] ELSE buf
    /\ p_msg' = [p_msg EXCEPT ![t] = FALSE]
    /\ has_int_msg' = [has_int_msg EXCEPT ![t] = FALSE]
    /\ p_flags' = [p_flags EXCEPT ![t] = @ \ {RECEIVING}]
    /\ p_recvfrom' = [p_recvfrom EXCEPT ![t] = NO_TASK]
    /\ UNCHANGED <<p_sendto, q_sending, cur, peer>>
    /\ kpc' = IF AtRest(t)' THEN kpc ELSE "assertInform"

\* t does not: the interrupt is remembered, once
InformBusy(t) ==
    /\ InterruptsOn
    /\ ~WaitingForInt(t)
    /\ has_int_msg' = [has_int_msg EXCEPT ![t] = TRUE]
    /\ UNCHANGED <<p_flags, p_msg, p_recvfrom, p_sendto, q_sending,
                   buf, kpc, cur, peer>>

\* the halted machine: spin() in ring 0
Halted ==
    /\ kpc \in Panics
    /\ UNCHANGED vars

----------------------------------------------------------------------------

Send == SendDeadlock \/ SendReady \/ SendBlock \/ SendCheck \/ SendCopy
        \/ SendClear \/ SendUnblock

Receive == RecvTest \/ RecvInt \/ RecvIntCheck \/ RecvFetch
           \/ RecvNone \/ RecvBlock \/ RecvCheck

InformInt ==
    \E t \in IntTasks : ~AsksProcess(t) /\ (InformWaiting(t) \/ InformBusy(t))

Calls ==
    \E p \in Procs :
       \/ \E dest \in Procs, body \in Bodies : CallSend(p, dest, body)
       \/ \E src \in SourcesFor(p) : CallReceive(p, src)

Next == Calls \/ Send \/ Receive \/ InformInt \/ Halted

Spec == Init /\ [][Next]_vars

----------------------------------------------------------------------------
(* Properties *)

\* The values of the process table, the messages and the call in progress.
TypeOK ==
    /\ p_flags \in [Procs -> SUBSET {SENDING, RECEIVING}]
    /\ p_msg \in [Procs -> BOOLEAN]
    /\ p_recvfrom \in [Procs -> Procs \cup {ANY, INTERRUPT, NO_TASK}]
    /\ p_sendto \in [Procs -> Procs \cup {NO_TASK}]
    /\ has_int_msg \in [Procs -> BOOLEAN]
    /\ q_sending \in [Procs -> Seq(Procs)]
    /\ buf \in [Procs -> Message]
    /\ kpc \in KernelPcs
    /\ cur \in Procs \cup {NO_TASK}
    /\ peer \in Procs \cup {ANY, INTERRUPT, NO_TASK}

\* A process never waits to send and to receive at once, and p_sendto,
\* p_recvfrom and p_msg are set exactly while it waits (p_msg of the receiver
\* of a hand-over is cleared one store before its p_flags): nothing a call
\* or an interrupt in its midst leaves behind survives into the next call.
FieldsOK ==
    \A p \in Procs :
        /\ p_flags[p] \in {{}, {SENDING}, {RECEIVING}}
        /\ p_sendto[p] # NO_TASK <=> SENDING \in p_flags[p]
        /\ p_recvfrom[p] # NO_TASK <=> RECEIVING \in p_flags[p]
        /\ p_msg[p] <=> p_flags[p] # {} /\ ~(kpc = "sendUnblock" /\ p = peer)

\* d's sending queue holds exactly the processes blocked sending to d, each
\* once: msg_receive unlinks what msg_send linked, whatever was taken from
\* the middle of the queue in between.
QueueOK ==
    \A d \in Procs :
        /\ \A p \in Procs : p_sendto[p] = d
              <=> \E i \in DOMAIN q_sending[d] : q_sending[d][i] = p
        /\ \A i, j \in DOMAIN q_sending[d] :
              q_sending[d][i] = q_sending[d][j] => i = j

\* No set of processes waits to send among itself: the graph deadlock() walks
\* stays free of cycles, so its loop ends and no sender waits forever on a
\* circle of senders.
NoSendCycle ==
    \A C \in (SUBSET Procs) \ {{}} :
        \E p \in C : ~(IsSending(p) /\ p_sendto[p] \in C)

\* A process is never left waiting for what is already there: not for a
\* sender that is in its queue, nor for an interrupt that is pending.  (An
\* interrupt that comes between msg_receive's test of has_int_msg and its
\* last store is noticed by the assertion behind block().)
NoMissedWakeup ==
    \A p \in Procs : RECEIVING \in p_flags[p] =>
        /\ \A s \in Procs : p_sendto[s] = p => p_recvfrom[p] \notin {s, ANY}
        /\ has_int_msg[p] => \/ p_recvfrom[p] \notin {INTERRUPT, ANY}
                             \/ kpc \in {"recvCheck", "assertBlock"} /\ p = cur

\* The assertions on the queue path of msg_receive and in inform_int never
\* fail, interrupts in system calls or not.
QueuePathSafe == kpc \notin {"assertFetch", "assertInform"}

\* An interrupt has ended p's receive, and p has not gone on since.
Woken(p) == p \in IntTasks /\ AtRest(p) /\ buf[p] = HardInt

\* An assertion of msg_send, msg_receive, block, unblock or inform_int fails
\* only if interrupts are enabled in system calls, and then in three places
\* alone, by an interrupt for a process of the call in progress: the receiver
\* of a hand-over has been woken (proc.c:307), or an interrupt has come for
\* the caller of msg_receive behind its test (:407) or while it is blocked
\* (:515 to :519).  So a call between processes no interrupt informs fails none.
OnlyInterruptsFailAsserts ==
    /\ kpc \in Panics => kpc = "deadlock" \/ NestedInts
    /\ kpc \notin {"assertFetch", "assertInform"}
    /\ kpc = "assertSend" => Woken(peer)
    /\ kpc = "assertInt" => cur \in IntTasks /\ has_int_msg[cur]
    /\ kpc = "assertBlock" => cur \in IntTasks /\ (has_int_msg[cur] \/ Woken(cur))

=============================================================================
