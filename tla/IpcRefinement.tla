--------------------------- MODULE IpcRefinement ---------------------------
(***************************************************************************)
(* The kernel's message passing implements Rendezvous, up to collisions    *)
(* with interrupts if they nest in system calls: the refinement mapping    *)
(* and what it shows.                                                      *)
(***************************************************************************)
EXTENDS Ipc

\* A send is in progress, and its message has not been copied.
Unsent == {"send", "sendCheck", "sendCopy", "deadlock", "assertSend"}

\* The call p has made: the one in progress until its hand-over, else the one
\* the process table shows p blocked in.  A receiver whose message has been
\* copied has received it, though its p_flags are cleared later.
AbsCall(p) ==
    CASE p = cur /\ kpc \in Unsent ->
            [op |-> "send", peer |-> peer]
      [] p = cur /\ kpc \in {"recv", "recvInt", "recvFetch", "recvBlock"} ->
            [op |-> "receive", peer |-> peer]
      [] p_flags[p] = {SENDING} -> [op |-> "send", peer |-> p_sendto[p]]
      [] p_flags[p] = {RECEIVING}
            /\ ~(p = peer /\ kpc \in {"sendClear", "sendUnblock"}) ->
            [op |-> "receive", peer |-> p_recvfrom[p]]
      [] OTHER -> [op |-> "none", peer |-> ANY]

\* Those whose send to d has not ended: the queue, and the send in progress.
AbsWaiting(d) ==
    IF d = peer /\ kpc \in Unsent
    THEN Append(q_sending[d], cur)
    ELSE q_sending[d]

R == INSTANCE Rendezvous WITH
        call    <- [p \in Procs |-> AbsCall(p)],
        waiting <- [d \in Procs |-> AbsWaiting(d)],
        msg     <- buf,
        pending <- {p \in Procs : has_int_msg[p]}

\* Every message is handed over exactly once, in the order the senders called
\* when the receiver asks for any, and no pending interrupt is forgotten.  Only
\* if interrupts are enabled in system calls, as they are (kernel.asm:366), a
\* message may collide with an interrupt for its receiver, and then it alone
\* is lost: the queue, the other calls and messages keep the promise.
ImplementsRendezvous ==
    R!Init /\ [][R!Next \/ (NestedInts /\ R!Collide)]_(R!vars)

\* "If dest is blocked waiting for the message, copy the message to it and
\* unblock dest": a send that returns without having blocked has left its
\* message in the receiver's MESSAGE.
MessageHandedOver ==
    [][kpc = "sendUnblock" /\ kpc' = "user" => buf'[peer] = buf'[cur]]_vars
=============================================================================
