----------------------------- MODULE Rendezvous -----------------------------
(***************************************************************************)
(* What the kernel's message passing promises its callers, without process *)
(* table, flags or null pointers: a send ends when its message has been    *)
(* handed to the receiver, exactly once; a receive ends with the message   *)
(* of a sender it asked for, the longest waiting one if it asked for any;  *)
(* an interrupt is kept until the task receives it.                        *)
(***************************************************************************)
EXTENDS Naturals, SequencesExt

CONSTANTS Procs, IntTasks, Bodies, ANY, INTERRUPT, HARD_INT, Blank

VARIABLES
    call,        \* call[p]: the call p has made and that has not ended
    waiting,     \* waiting[d]: those whose send to d has not ended, in order
    msg,         \* msg[p]: the message p sends, or has received
    pending      \* the tasks with an interrupt they have not received

vars == <<call, waiting, msg, pending>>

Idle == [op |-> "none", peer |-> ANY]
Sending(d) == [op |-> "send", peer |-> d]
Receiving(s) == [op |-> "receive", peer |-> s]

HardInt == [source |-> INTERRUPT, body |-> HARD_INT]

Init ==
    /\ call = [p \in Procs |-> Idle]
    /\ waiting = [p \in Procs |-> <<>>]
    /\ msg = [p \in Procs |-> [source |-> p, body |-> Blank]]
    /\ pending = {}

StartSend(p, d, body) ==
    /\ call[p] = Idle
    /\ call' = [call EXCEPT ![p] = Sending(d)]
    /\ waiting' = [waiting EXCEPT ![d] = Append(@, p)]
    /\ msg' = [msg EXCEPT ![p] = [source |-> p, body |-> body]]
    /\ UNCHANGED pending

StartReceive(p, s) ==
    /\ call[p] = Idle
    /\ call' = [call EXCEPT ![p] = Receiving(s)]
    /\ \E body \in {Blank, msg[p].body} :
          msg' = [msg EXCEPT ![p] = [source |-> p, body |-> body]]
    /\ UNCHANGED <<waiting, pending>>

\* d takes the message of the i-th process waiting to send to it; both calls end
HandOver(d, i) ==
    LET s == waiting[d][i]
    IN /\ \/ call[d] = Receiving(s)
          \/ call[d] = Receiving(ANY) /\ i = 1
       /\ call[s] = Sending(d)
       /\ msg' = [msg EXCEPT ![d] = msg[s]]
       /\ call' = [call EXCEPT ![d] = Idle, ![s] = Idle]
       /\ waiting' = [waiting EXCEPT ![d] = RemoveAt(@, i)]
       /\ UNCHANGED pending

Raise(t) ==
    /\ pending' = pending \cup {t}
    /\ UNCHANGED <<call, waiting, msg>>

\* t's receive ends with an interrupt, pending or raised this moment
TakeInterrupt(t) ==
    /\ call[t] \in {Receiving(ANY), Receiving(INTERRUPT)}
    /\ msg' = [msg EXCEPT ![t] = HardInt]
    /\ call' = [call EXCEPT ![t] = Idle]
    /\ pending' = pending \ {t}
    /\ UNCHANGED waiting

(***************************************************************************)
(* What is left of the promise when an interrupt strikes while a message   *)
(* is handed to the task it informs, which asked for any.                  *)
(***************************************************************************)

\* The interrupt comes first: it has ended d's receive, the send of s, the last
\* to call, ends too, and its message is lost.
LoseMessage(d, i) ==
    LET s == waiting[d][i]
    IN /\ i = Len(waiting[d])
       /\ call[s] = Sending(d)
       /\ call[d] = Idle /\ msg[d] = HardInt
       /\ call' = [call EXCEPT ![s] = Idle]
       /\ waiting' = [waiting EXCEPT ![d] = RemoveAt(@, i)]
       /\ UNCHANGED <<msg, pending>>

\* The message comes first, and the interrupt takes its place before its sender
\* makes another call.
OverwriteMessage(d) ==
    /\ call[d] = Idle
    /\ msg[d].source \in Procs \ {d}
    /\ call[msg[d].source] = Idle
    /\ msg' = [msg EXCEPT ![d] = HardInt]
    /\ UNCHANGED <<call, waiting, pending>>

Collide ==
    \E d \in IntTasks :
       \/ \E i \in DOMAIN waiting[d] : LoseMessage(d, i)
       \/ OverwriteMessage(d)

Next ==
    \/ \E p, d \in Procs, body \in Bodies : p # d /\ StartSend(p, d, body)
    \/ \E p \in Procs, s \in Procs \cup {ANY, INTERRUPT} :
          p # s /\ StartReceive(p, s)
    \/ \E d \in Procs : \E i \in DOMAIN waiting[d] : HandOver(d, i)
    \/ \E t \in IntTasks : Raise(t) \/ TakeInterrupt(t)

Spec == Init /\ [][Next]_vars
=============================================================================
