-------------------------------- MODULE Tty --------------------------------
(***************************************************************************)
(* Terminal input and output: user processes that read and write through   *)
(* TASK_FS (task_fs, do_rdwt), the terminal driver TASK_TTY (kernel/tty.c) *)
(* with its consoles, the keyboard buffer kb_in (kernel/keyboard.c), and   *)
(* the clock, which wakes TASK_TTY after a key press (kernel/clock.c).     *)
(* The tasks communicate through the kernel as module Rendezvous describes *)
(* it, with the panic of msg_send on a circle of senders added.            *)
(*                                                                         *)
(* A key is one byte of kb_in here: what its scan codes are, and which     *)
(* characters go to the console, is left out.                              *)
(***************************************************************************)
EXTENDS Integers, Sequences

CONSTANTS
    FS, TTY, Users,
    ANY, INTERRUPT, HARD_INT, Blank,
    NTtys,                \* the terminals, 1 .. NTtys (NR_CONSOLES)
    TtyOf,                \* the terminal a user has open
    Calls,                \* what a user calls
    Keys,                 \* the keys that are pressed
    MaxCnt,               \* the most bytes a read asks for
    KbBytes,              \* KB_IN_BYTES
    InBytes               \* TTY_IN_BYTES

ASSUME TtyAssumption ==
    /\ FS # TTY /\ FS \notin Users /\ TTY \notin Users
    /\ {ANY, INTERRUPT} \cap (Users \cup {FS, TTY}) = {} /\ ANY # INTERRUPT
    /\ NTtys \in Nat \ {0}
    /\ TtyOf \in [Users -> 1 .. NTtys]
    /\ Calls \in [Users -> SUBSET {"OPEN", "READ", "WRITE", "CLOSE"}]
    /\ Keys \subseteq {"char", "backspace", "newline", "switch"}
    /\ MaxCnt \in Nat \ {0}
    /\ KbBytes \in Nat \ {0} /\ InBytes \in Nat \ {0}

Procs == Users \cup {FS, TTY}
Ttys == 1 .. NTtys

\* The fields of a MESSAGE this module needs: type, PROC_NR and CNT.
Body(type, proc, cnt) == [type |-> type, proc |-> proc, cnt |-> cnt]

Bodies == [type : {"OPEN", "READ", "WRITE", "CLOSE", "DEV_OPEN", "DEV_READ",
                   "DEV_WRITE", "SUSPEND_PROC", "RESUME_PROC", "SYSCALL_RET"},
           proc : Users, cnt : 0 .. MaxCnt]

VARIABLES
    call, waiting, msg, pending,    \* the kernel, see Rendezvous
    pc,           \* pc[p]: where process p is
    req,          \* req[u]: the request u has made last
    src,          \* task_fs's src
    len,          \* do_rdwt's len
    tty,          \* the TTY task_tty's loop is at
    console,      \* nr_current_console, as its TTY's number
    ibuf,         \* ibuf[t]: the keys in t's ibuf
    procnr, left, trans,    \* tty_procnr, tty_left_cnt, tty_trans_cnt
    kb_in, key_pressed

kernelVars == <<call, waiting, msg, pending>>
fsVars == <<src, len>>
reqVars == <<procnr, left, trans>>
ttyVars == <<tty, console, ibuf, reqVars>>
kbVars == <<kb_in, key_pressed>>
vars == <<kernelVars, pc, req, fsVars, ttyVars, kbVars>>

K == INSTANCE Rendezvous WITH IntTasks <- {TTY}

\* a panic, or an assertion that fails in a task, halts the machine
Running == \A p \in Procs : pc[p] \notin {"panic", "assert"}

\* p's last call has ended and p is at the given place
At(p, place) == Running /\ call[p] = K!Idle /\ pc[p] = place

Goto(p, place) == pc' = [pc EXCEPT ![p] = place]

(***************************************************************************)
(* SEND.  The only circles of senders that can form among these processes  *)
(* have two members, since TASK_TTY sends to TASK_FS only and a user too.  *)
(***************************************************************************)
Send(p, d, body, place) ==
    IF call[d] = K!Sending(p)
    THEN Goto(p, "panic") /\ UNCHANGED kernelVars
    ELSE K!StartSend(p, d, body) /\ Goto(p, place)

\* RECEIVE, which clears the MESSAGE; the RECEIVE of BOTH, which does not
Receive(p, place) ==
    /\ K!StartReceive(p, ANY)
    /\ msg'[p].body = Blank
    /\ Goto(p, place)

ReceiveReply(p, s, place) ==
    /\ K!StartReceive(p, s)
    /\ msg'[p].body = msg[p].body
    /\ Goto(p, place)

Init ==
    /\ K!Init
    /\ pc = [p \in Procs |-> CASE p = FS -> "main"
                               [] p = TTY -> "read"
                               [] OTHER -> "idle"]
    /\ req = [u \in Users |-> Body("OPEN", u, 0)]        \* none
    /\ src = FS                     \* not set yet
    /\ len = 0
    /\ tty = 1
    /\ console = 1
    /\ ibuf = [t \in Ttys |-> <<>>]
    /\ procnr = [t \in Ttys |-> TTY]   \* process number 0
    /\ left = [t \in Ttys |-> 0]
    /\ trans = [t \in Ttys |-> 0]
    /\ kb_in = <<>>
    /\ key_pressed = FALSE

----------------------------------------------------------------------------
(* The kernel *)

Deliver(p) ==
    /\ Running
    /\ \E i \in DOMAIN waiting[p] : K!HandOver(p, i)
    /\ UNCHANGED <<pc, req, fsVars, ttyVars, kbVars>>

DeliverInterrupt ==
    /\ Running
    /\ TTY \in pending
    /\ K!TakeInterrupt(TTY)
    /\ UNCHANGED <<pc, req, fsVars, ttyVars, kbVars>>

\* keyboard_handler: a byte too many is dropped
KeyPress(key) ==
    /\ Running
    /\ kb_in' = IF Len(kb_in) < KbBytes THEN Append(kb_in, key) ELSE kb_in
    /\ key_pressed' = TRUE
    /\ UNCHANGED <<kernelVars, pc, req, fsVars, ttyVars>>

\* clock_handler
Tick ==
    /\ Running
    /\ key_pressed
    /\ K!Raise(TTY)
    /\ UNCHANGED <<pc, req, fsVars, ttyVars, kbVars>>

----------------------------------------------------------------------------
(* User processes: open, read, write; close is a call TASK_FS answers alone *)

Requests(u) ==
    {Body("CLOSE", u, 0), Body("OPEN", u, 0), Body("WRITE", u, MaxCnt)} \cup
    {Body("READ", u, cnt) : cnt \in 1 .. MaxCnt}

UserCall(u) ==
    /\ At(u, "idle")
    /\ \E body \in {b \in Requests(u) : b.type \in Calls[u]} :
          /\ req' = [req EXCEPT ![u] = body]
          /\ Send(u, FS, body, "sent")
    /\ UNCHANGED <<fsVars, ttyVars, kbVars>>

UserAwait(u) ==
    /\ At(u, "sent")
    /\ ReceiveReply(u, FS, "wait")
    /\ UNCHANGED <<req, fsVars, ttyVars, kbVars>>

UserDone(u) ==
    /\ At(u, "wait")
    /\ Goto(u, "idle")
    /\ req' = [req EXCEPT ![u] = Body("OPEN", u, 0)]     \* none
    /\ UNCHANGED <<kernelVars, fsVars, ttyVars, kbVars>>

----------------------------------------------------------------------------
(* TASK_FS; fs_msg is its message in the kernel's hands *)

fs_msg == msg[FS]

FsMain ==
    /\ At(FS, "main")
    /\ Receive(FS, "dispatch")
    /\ src' = FS                    \* a local of the loop's body
    /\ UNCHANGED <<req, len, ttyVars, kbVars>>

FsTypes(types) == At(FS, "dispatch") /\ fs_msg.body.type \in types

\* Mutant: src stays the sender of the RESUME_PROC.
FsAnswerKeep ==
    /\ FsTypes({"CLOSE", "RESUME_PROC"})
    /\ src' = fs_msg.source
    /\ Goto(FS, "reply")
    /\ UNCHANGED <<kernelVars, req, len, ttyVars, kbVars>>

\* what needs no driver; RESUME_PROC is answered to the process it names
FsAnswer ==
    /\ FsTypes({"CLOSE", "RESUME_PROC"})
    /\ src' = IF fs_msg.body.type = "RESUME_PROC" THEN fs_msg.body.proc
              ELSE fs_msg.source
    /\ Goto(FS, "reply")
    /\ UNCHANGED <<kernelVars, req, len, ttyVars, kbVars>>

\* do_open, do_rdwt on a terminal
FsTty ==
    /\ FsTypes({"OPEN", "READ", "WRITE"})
    /\ src' = fs_msg.source
    /\ len' = fs_msg.body.cnt
    /\ LET type == CASE fs_msg.body.type = "OPEN" -> "DEV_OPEN"
                     [] fs_msg.body.type = "READ" -> "DEV_READ"
                     [] fs_msg.body.type = "WRITE" -> "DEV_WRITE"
       IN Send(FS, TTY, Body(type, fs_msg.source, fs_msg.body.cnt), "sent")
    /\ UNCHANGED <<req, ttyVars, kbVars>>

FsTtyAwait ==
    /\ At(FS, "sent")
    /\ ReceiveReply(FS, TTY, "wait")
    /\ UNCHANGED <<req, fsVars, ttyVars, kbVars>>

\* Mutant: a suspended process is answered.
FsTtyDoneReply ==
    /\ At(FS, "wait")
    /\ Goto(FS, IF fs_msg.body.cnt # len THEN "assert" ELSE "reply")
    /\ len' = 0                       \* do_rdwt returns
    /\ UNCHANGED <<kernelVars, req, src, ttyVars, kbVars>>

\* do_rdwt's assertion; no reply yet if the process is to be suspended
FsTtyDone ==
    /\ At(FS, "wait")
    /\ Goto(FS, IF fs_msg.body.cnt # len THEN "assert"
                ELSE IF fs_msg.body.type = "SUSPEND_PROC" THEN "main"
                ELSE "reply")
    /\ len' = 0                       \* do_rdwt returns
    /\ UNCHANGED <<kernelVars, req, src, ttyVars, kbVars>>

FsReply ==
    /\ At(FS, "reply")
    /\ Send(FS, src, Body("SYSCALL_RET", src, fs_msg.body.cnt), "main")
    /\ UNCHANGED <<req, fsVars, ttyVars, kbVars>>

----------------------------------------------------------------------------
(* TASK_TTY *)

\* tty_dev_read: keyboard_read for the current console's TTY
TtyRead ==
    /\ At(TTY, "read")
    /\ Goto(TTY, IF tty = console THEN "drain" ELSE "write")
    /\ UNCHANGED <<kernelVars, req, fsVars, ttyVars, kbVars>>

\* Mutant: the room in ibuf is not looked at.
PutKeyAlways(key) == ibuf' = [ibuf EXCEPT ![tty] = Append(@, key)]

\* put_key: a key too many is dropped
PutKey(key) ==
    ibuf' = [ibuf EXCEPT ![tty] = IF Len(@) < InBytes THEN Append(@, key) ELSE @]

\* keyboard_read, in_process: a byte of kb_in; Alt+Fn selects a console
KeyboardRead ==
    /\ At(TTY, "drain")
    /\ kb_in # <<>>
    /\ kb_in' = Tail(kb_in)
    /\ IF Head(kb_in) = "switch"
       THEN console' = (console % NTtys) + 1 /\ UNCHANGED ibuf
       ELSE PutKey(Head(kb_in)) /\ UNCHANGED console
    /\ UNCHANGED <<kernelVars, pc, req, fsVars, tty, reqVars, key_pressed>>

KeyboardReadEnd ==
    /\ At(TTY, "drain")
    /\ kb_in = <<>>
    /\ Goto(TTY, "write")
    /\ UNCHANGED <<kernelVars, req, fsVars, ttyVars, kbVars>>

\* tty_dev_write: a key nobody reads is dropped
TtyDiscard ==
    /\ At(TTY, "write")
    /\ ibuf[tty] # <<>>
    /\ left[tty] = 0
    /\ ibuf' = [ibuf EXCEPT ![tty] = Tail(@)]
    /\ UNCHANGED <<kernelVars, pc, req, fsVars, tty, console, reqVars, kbVars>>

\* Mutant: a backspace does not give its place back.
TransferNoReturn(key) ==
    CASE key = "char" ->
            trans' = [trans EXCEPT ![tty] = @ + 1] /\
            left' = [left EXCEPT ![tty] = @ - 1]
      [] key = "backspace" /\ trans[tty] > 0 ->
            trans' = [trans EXCEPT ![tty] = @ - 1] /\ UNCHANGED left
      [] OTHER -> UNCHANGED <<left, trans>>

\* a character goes to the process, a backspace takes one back
Transfer(key) ==
    CASE key = "char" ->
            trans' = [trans EXCEPT ![tty] = @ + 1] /\
            left' = [left EXCEPT ![tty] = @ - 1]
      [] key = "backspace" /\ trans[tty] > 0 ->
            trans' = [trans EXCEPT ![tty] = @ - 1] /\
            left' = [left EXCEPT ![tty] = @ + 1]
      [] OTHER -> UNCHANGED <<left, trans>>

\* tty_dev_write: a key for the reader, which is resumed when the line ends
\* or the buffer is full
TtyTransfer ==
    /\ At(TTY, "write")
    /\ ibuf[tty] # <<>>
    /\ left[tty] > 0
    /\ LET key == Head(ibuf[tty])
       IN /\ ibuf' = [ibuf EXCEPT ![tty] = Tail(@)]
          /\ Transfer(key)
          /\ IF key = "newline" \/ left'[tty] = 0
             THEN Send(TTY, FS, Body("RESUME_PROC", procnr[tty], trans'[tty]),
                       "resumed")
             ELSE UNCHANGED <<kernelVars, pc>>
    /\ UNCHANGED <<req, fsVars, tty, console, procnr, kbVars>>

\* and behind the SEND
TtyResumed ==
    /\ At(TTY, "resumed")
    /\ left' = [left EXCEPT ![tty] = 0]
    /\ Goto(TTY, "write")
    /\ UNCHANGED <<kernelVars, req, fsVars, tty, console, ibuf, procnr, trans,
                   kbVars>>

\* the next TTY, or the next message
TtyNext ==
    /\ At(TTY, "write")
    /\ ibuf[tty] = <<>>
    /\ IF tty < NTtys
       THEN /\ tty' = tty + 1
            /\ Goto(TTY, "read")
            /\ UNCHANGED kernelVars
       ELSE /\ Receive(TTY, "dispatch")
            /\ tty' = 1
    /\ UNCHANGED <<req, fsVars, console, ibuf, reqVars, kbVars>>

\* Mutant: the keys are left for the next message.
TtyHardIntBreak ==
    /\ At(TTY, "dispatch")
    /\ msg[TTY] = K!HardInt
    /\ key_pressed' = FALSE
    /\ tty' = NTtys
    /\ Goto(TTY, "write")
    /\ UNCHANGED <<kernelVars, req, fsVars, console, ibuf, reqVars, kb_in>>

\* case HARD_INT
TtyHardInt ==
    /\ At(TTY, "dispatch")
    /\ msg[TTY] = K!HardInt
    /\ key_pressed' = FALSE
    /\ Goto(TTY, "read")
    /\ UNCHANGED <<kernelVars, req, fsVars, ttyVars, kb_in>>

\* the other cases: a message
Dispatch == At(TTY, "dispatch") /\ msg[TTY].source # INTERRUPT

\* DEV_OPEN, tty_do_write; default, which drops the message
TtyOpenWrite ==
    /\ Dispatch
    /\ msg[TTY].body.type # "DEV_READ"
    /\ IF msg[TTY].body.type \in {"DEV_OPEN", "DEV_WRITE"}
       THEN Send(TTY, msg[TTY].source,
                 [msg[TTY].body EXCEPT !.type = "SYSCALL_RET"], "read")
       ELSE Goto(TTY, "read") /\ UNCHANGED kernelVars
    /\ UNCHANGED <<req, fsVars, ttyVars, kbVars>>

\* Mutant: the reply tells what has been transferred.
TtyDoReadTrans ==
    /\ Dispatch
    /\ msg[TTY].body.type = "DEV_READ"
    /\ LET t == TtyOf[msg[TTY].body.proc]
       IN /\ procnr' = [procnr EXCEPT ![t] = msg[TTY].body.proc]
          /\ left' = [left EXCEPT ![t] = msg[TTY].body.cnt]
          /\ trans' = [trans EXCEPT ![t] = 0]
    /\ Send(TTY, msg[TTY].source,
            Body("SUSPEND_PROC", msg[TTY].body.proc, 0), "read")
    /\ UNCHANGED <<req, fsVars, tty, console, ibuf, kbVars>>

\* tty_do_read
TtyDoRead ==
    /\ Dispatch
    /\ msg[TTY].body.type = "DEV_READ"
    /\ LET t == TtyOf[msg[TTY].body.proc]
       IN /\ procnr' = [procnr EXCEPT ![t] = msg[TTY].body.proc]
          /\ left' = [left EXCEPT ![t] = msg[TTY].body.cnt]
          /\ trans' = [trans EXCEPT ![t] = 0]
    /\ Send(TTY, msg[TTY].source, [msg[TTY].body EXCEPT !.type = "SUSPEND_PROC"],
            "read")
    /\ UNCHANGED <<req, fsVars, tty, console, ibuf, kbVars>>

----------------------------------------------------------------------------

UserStep == \E u \in Users : UserAwait(u) \/ UserDone(u)
FsStep == FsMain \/ FsAnswer \/ FsTty \/ FsTtyAwait \/ FsTtyDone \/ FsReply
TtyStep == TtyRead \/ KeyboardRead \/ KeyboardReadEnd \/ TtyDiscard
           \/ TtyTransfer \/ TtyResumed \/ TtyNext \/ TtyHardInt
           \/ TtyOpenWrite \/ TtyDoRead
KernelStep == DeliverInterrupt \/ Tick \/ \E p \in Procs : Deliver(p)

Next ==
    \/ UserStep \/ FsStep \/ TtyStep \/ KernelStep
    \/ \E u \in Users : UserCall(u)
    \/ \E key \in Keys : KeyPress(key)

(***************************************************************************)
(* The processes are scheduled and the clock ticks.  The kernel hands over *)
(* at once where both parties are ready and no interrupt is pending, which *)
(* comes first: so TASK_FS's message is taken if TASK_TTY again and again  *)
(* waits without one.  Enter is pressed again and again.                   *)
(***************************************************************************)
Fairness ==
    /\ \A u \in Users : WF_vars(UserAwait(u) \/ UserDone(u))
    /\ WF_vars(FsStep) /\ WF_vars(TtyStep)
    /\ \A p \in Procs \ {TTY} : WF_vars(Deliver(p))
    /\ SF_vars(TTY \notin pending /\ Deliver(TTY))
    /\ WF_vars(DeliverInterrupt) /\ WF_vars(Tick)
    /\ WF_vars(KeyPress("newline"))

Spec == Init /\ [][Next]_vars /\ Fairness

----------------------------------------------------------------------------
(* Properties *)

\* The types of the variables of the tasks.
TypeOK ==
    /\ pc[FS] \in {"main", "dispatch", "sent", "wait", "reply", "panic", "assert"}
    /\ pc[TTY] \in {"read", "drain", "write", "resumed", "dispatch", "panic"}
    /\ \A u \in Users : pc[u] \in {"idle", "sent", "wait", "panic"}
    /\ req \in [Users -> Bodies]
    /\ src \in Users \cup {FS} /\ len \in 0 .. MaxCnt
    /\ tty \in Ttys /\ console \in Ttys
    /\ \A t \in Ttys : Len(ibuf[t]) <= InBytes
    /\ procnr \in [Ttys -> Users \cup {TTY}]
    /\ left \in [Ttys -> 0 .. MaxCnt] /\ trans \in [Ttys -> 0 .. MaxCnt]
    /\ Len(kb_in) <= KbBytes /\ key_pressed \in BOOLEAN

\* A terminal that still owes characters owes them to a process that is
\* blocked in a read of that terminal, and what it has transferred and what is
\* left add up to what the process asked for: no character is put into the
\* buffer of a process that does not read, or behind the buffer's end.
ReaderWaits ==
    \A t \in Ttys : left[t] > 0 /\ pc[TTY] # "resumed" =>
        LET u == procnr[t]
        IN /\ TtyOf[u] = t
           /\ req[u].type = "READ"
           /\ \/ pc[u] = "sent" /\ call[u] = K!Idle
              \/ pc[u] = "wait" /\ call[u] = K!Receiving(FS)
           /\ left[t] + trans[t] = req[u].cnt

\* TASK_FS sends a reply only to a process that has a call outstanding, and
\* one whose call it is not to suspend: nobody is answered twice, or instead
\* of another.
RepliesWanted ==
    \A u \in Users : call[FS] = K!Sending(u) =>
        /\ pc[u] \in {"sent", "wait"}
        /\ call[u] # K!Sending(FS)
        /\ req[u].type = "READ" => msg[FS].body.cnt <= req[u].cnt

\* TASK_TTY never sleeps over a key: when it waits for a message and kb_in is
\* not empty, its interrupt is there or the next tick of the clock brings it.
\* The flag that keyboard_handler sets and task_tty clears, and the interrupt
\* the clock raises for it, lose no wakeup however they interleave.
NoKeySlept ==
    call[TTY] = K!Receiving(ANY) /\ kb_in # <<>> => key_pressed \/ TTY \in pending

\* No SEND closes a circle of senders, and do_rdwt's assertion that the driver
\* answered for as many bytes as it was asked for holds.
NoPanic == Running

\* The keys leave TASK_TTY the time to come to a SEND or RECEIVE again and
\* again for which no interrupt is pending.
TypistPauses ==
    []<>(~Running \/ (call[TTY] # K!Idle /\ TTY \notin pending))

\* Every call is answered, a read too if Enter is pressed again and again:
\* lib/read.c:32, "On success, the number of bytes read are returned".
ReadsReturn ==
    TypistPauses => \A u \in Users : pc[u] = "sent" ~> pc[u] = "idle"
=============================================================================
