------------------------------ MODULE TtyProofs ------------------------------
(***************************************************************************)
(* Proofs about Tty, for any number of users, terminals and keys.  Users   *)
(* may share terminals.  The invariant says which task has a user's call   *)
(* in its hands: TASK_FS, or TASK_TTY after it has suspended a read, and   *)
(* never both.                                                             *)
(***************************************************************************)
EXTENDS Tty, SequenceTheorems, TLAPS

(***************************************************************************)
(* Where the processes are, and the calls they may have made there.        *)
(***************************************************************************)

UserCalls ==
    \A u \in Users :
        \/ pc[u] = "idle" /\ call[u] = K!Idle
        \/ pc[u] = "sent" /\ call[u] \in {K!Idle, K!Sending(FS)}
        \/ pc[u] = "wait" /\ call[u] \in {K!Idle, K!Receiving(FS)}
FsCalls ==
    \/ pc[FS] \in {"reply", "panic", "assert"} /\ call[FS] = K!Idle
    \/ pc[FS] = "main" /\ call[FS] \in {K!Idle, K!Sending(src)}
    \/ pc[FS] = "dispatch" /\ call[FS] \in {K!Idle, K!Receiving(ANY)}
    \/ pc[FS] = "sent" /\ call[FS] \in {K!Idle, K!Sending(TTY)}
    \/ pc[FS] = "wait" /\ call[FS] \in {K!Idle, K!Receiving(TTY)}
TtyCalls ==
    \/ pc[TTY] \in {"drain", "write", "panic"} /\ call[TTY] = K!Idle
    \/ pc[TTY] \in {"read", "resumed"} /\ call[TTY] \in {K!Idle, K!Sending(FS)}
    \/ pc[TTY] = "dispatch" /\ call[TTY] \in {K!Idle, K!Receiving(ANY)} /\ tty = 1

\* FS has taken a message and looks at it.
Dispatching == pc[FS] = "dispatch" /\ call[FS] = K!Idle

\* The exchange of do_rdwt with the driver: FS waits for the reply exactly
\* while TTY has the request, or sends the reply, and then FS has it.
Waits == \/ pc[FS] = "sent" /\ call[FS] = K!Idle
         \/ pc[FS] = "wait" /\ call[FS] = K!Receiving(TTY)
Taken == pc[TTY] = "dispatch" /\ call[TTY] = K!Idle /\ msg[TTY].source = FS
Replying == pc[TTY] = "read" /\ call[TTY] = K!Sending(FS)
Answered == pc[FS] = "wait" /\ call[FS] = K!Idle

\* TTY resumes the reader of the terminal it is at.
Resuming == pc[TTY] = "resumed" /\ call[TTY] = K!Sending(FS)

Places == /\ UserCalls /\ FsCalls /\ TtyCalls
          /\ Waits <=> Taken \/ Replying

(***************************************************************************)
(* Who owes whom an answer.                                                *)
(***************************************************************************)

\* FS has taken u's request, and u has not been answered.
Outstanding(u) == \/ pc[u] = "sent" /\ call[u] = K!Idle
                  \/ pc[u] = "wait" /\ call[u] = K!Receiving(FS)

\* The driver has told FS, or is about to, that the process is suspended.
Suspended == \/ Replying /\ msg[TTY].body.type = "SUSPEND_PROC"
             \/ Answered /\ msg[FS].body.type = "SUSPEND_PROC"

\* It is FS that has u's call in its hands.
FsOwes(u) == \/ Dispatching /\ msg[FS].source = u
             \/ Dispatching /\ msg[FS].source = TTY /\ msg[FS].body.proc = u
             \/ pc[FS] \in {"sent", "wait"} /\ src = u /\ ~Suspended
             \/ pc[FS] = "reply" /\ src = u
             \/ pc[FS] = "main" /\ call[FS] = K!Sending(u)

Owed == \A u \in Users : FsOwes(u) => Outstanding(u)

\* It is TTY that has u's read of terminal t in its hands.
Reads(u, t) == /\ u \in Users /\ TtyOf[u] = t /\ req[u].type = "READ"
               /\ Outstanding(u) /\ ~FsOwes(u)

Readers ==
    /\ \A t \in Ttys : left[t] > 0 /\ ~(pc[TTY] = "resumed" /\ t = tty) =>
          Reads(procnr[t], t) /\ left[t] + trans[t] = req[procnr[t]].cnt
    /\ Resuming => Reads(procnr[tty], tty) /\ trans[tty] <= req[procnr[tty]].cnt

(***************************************************************************)
(* What the messages say.                                                  *)
(***************************************************************************)

UserMsgs ==
    \A u \in Users :
        /\ call[u] = K!Sending(FS) => msg[u] = [source |-> u, body |-> req[u]]
        /\ pc[u] # "idle" => req[u].type \in Calls[u] /\ req[u].proc = u

DevType(type) == CASE type = "OPEN" -> "DEV_OPEN" [] type = "READ" -> "DEV_READ"
                   [] OTHER -> "DEV_WRITE"
Asked == [source |-> FS, body |-> Body(DevType(req[src].type), src, len)]
IsAnswer(m) == \E type \in {"SYSCALL_RET", "SUSPEND_PROC"} :
                   m = [source |-> TTY, body |-> Body(type, src, len)]

FsMsgs ==
    /\ Dispatching =>
          \/ msg[FS].source \in Users /\ msg[FS].body = req[msg[FS].source]
          \/ /\ msg[FS].source = TTY /\ msg[FS].body.type = "RESUME_PROC"
             /\ msg[FS].body.proc \in Users
             /\ msg[FS].body.cnt <= req[msg[FS].body.proc].cnt
    /\ pc[FS] \in {"sent", "wait"} =>
          /\ src \in Users
          /\ ~Suspended => /\ req[src].type \in {"OPEN", "READ", "WRITE"}
                           /\ len = req[src].cnt
    /\ call[FS] = K!Sending(TTY) => msg[FS] = Asked
    /\ Answered => IsAnswer(msg[FS])
    /\ pc[FS] = "reply" \/ (pc[FS] = "main" /\ call[FS] # K!Idle) =>
          /\ src \in Users
          /\ req[src].type = "READ" => msg[FS].body.cnt <= req[src].cnt

TtyMsgs ==
    /\ pc[TTY] = "dispatch" /\ call[TTY] = K!Idle =>
          msg[TTY] = K!HardInt \/ (Taken /\ msg[TTY] = Asked)
    /\ Replying => IsAnswer(msg[TTY])
    /\ Resuming => msg[TTY] = [source |-> TTY,
                               body |-> Body("RESUME_PROC", procnr[tty], trans[tty])]

Messages == UserMsgs /\ FsMsgs /\ TtyMsgs

\* A key that the clock will not tell TTY of is one that the loop over the
\* terminals still comes to.
KeysSeen ==
    kb_in # <<>> /\ ~key_pressed =>
        \/ pc[TTY] = "read" /\ tty <= console
        \/ pc[TTY] \in {"write", "resumed"} /\ tty < console
        \/ pc[TTY] \in {"drain", "panic"}

Kernel ==
    /\ call = [p \in Procs |-> call[p]] /\ msg = [p \in Procs |-> msg[p]]
    /\ waiting \in [Procs -> Seq(Procs)]

Data ==
    /\ pc = [p \in Procs |-> pc[p]]
    /\ req \in [Users -> Bodies]
    /\ src \in Users \cup {FS} /\ len \in 0 .. MaxCnt
    /\ tty \in Ttys /\ console \in Ttys
    /\ ibuf \in [Ttys -> Seq(Keys)] /\ \A t \in Ttys : Len(ibuf[t]) <= InBytes
    /\ procnr \in [Ttys -> Users \cup {TTY}]
    /\ left \in [Ttys -> 0 .. MaxCnt] /\ trans \in [Ttys -> 0 .. MaxCnt]
    /\ kb_in \in Seq(Keys) /\ Len(kb_in) <= KbBytes /\ key_pressed \in BOOLEAN

IInv == Kernel /\ Data /\ Places /\ Owed /\ Readers /\ Messages /\ KeysSeen

----------------------------------------------------------------------------
(* Processes and calls are told apart. *)

LEMMA Apart ==
    /\ FS # TTY /\ FS \in Procs /\ TTY \in Procs /\ Users \subseteq Procs
    /\ \A u \in Users : u # FS /\ u # TTY /\ u # ANY /\ u # INTERRUPT
    /\ FS # ANY /\ TTY # ANY /\ FS # INTERRUPT /\ TTY # INTERRUPT /\ ANY # INTERRUPT
    /\ \A p \in Procs : p \in Users \/ p = FS \/ p = TTY
BY TtyAssumption DEF Procs

LEMMA CallsDiffer ==
    /\ \A d : K!Idle # K!Sending(d) /\ K!Idle # K!Receiving(d)
    /\ \A d, e : K!Sending(d) # K!Receiving(e)
    /\ \A d, e : K!Sending(d) = K!Sending(e) => d = e
    /\ \A d, e : K!Receiving(d) = K!Receiving(e) => d = e
BY DEF K!Idle, K!Sending, K!Receiving

LEMMA Numbers ==
    /\ MaxCnt \in Nat /\ MaxCnt >= 1 /\ NTtys \in Nat /\ NTtys >= 1
    /\ Ttys = 1 .. NTtys /\ KbBytes \in Nat /\ InBytes \in Nat
    /\ KbBytes >= 1 /\ InBytes >= 1
    /\ \A u \in Users : TtyOf[u] \in Ttys
    /\ \A b \in Bodies : b.cnt \in 0 .. MaxCnt
BY TtyAssumption DEF Ttys, Bodies

----------------------------------------------------------------------------
(* What a call of the kernel changes, process by process. *)

LEMMA Goes ==
    ASSUME Data, NEW p \in Procs, NEW place, Goto(p, place)
    PROVE  /\ pc'[p] = place
           /\ \A q \in Procs \ {p} : pc'[q] = pc[q]
           /\ pc' = [q \in Procs |-> pc'[q]]
BY DEF Data, Goto

LEMMA Sends ==
    ASSUME Kernel, NEW p \in Procs, NEW d \in Procs, NEW body, K!StartSend(p, d, body)
    PROVE  /\ call[p] = K!Idle /\ call'[p] = K!Sending(d)
           /\ msg'[p] = [source |-> p, body |-> body]
           /\ \A q \in Procs \ {p} : call'[q] = call[q] /\ msg'[q] = msg[q]
           /\ Kernel'
<1>1. /\ call = [q \in Procs |-> call[q]] /\ msg = [q \in Procs |-> msg[q]]
      /\ waiting \in [Procs -> Seq(Procs)]
  BY DEF Kernel
<1>2. /\ call[p] = K!Idle /\ call' = [call EXCEPT ![p] = K!Sending(d)]
      /\ msg' = [msg EXCEPT ![p] = [source |-> p, body |-> body]]
      /\ waiting' = [waiting EXCEPT ![d] = Append(@, p)]
  BY DEF K!StartSend
<1>3. waiting' \in [Procs -> Seq(Procs)]
  BY <1>1, <1>2
<1>4. call' = [q \in Procs |-> call'[q]] /\ msg' = [q \in Procs |-> msg'[q]]
  BY <1>1, <1>2
<1> QED  BY <1>1, <1>2, <1>3, <1>4 DEF Kernel

LEMMA Receives ==
    ASSUME Kernel, NEW p \in Procs, NEW s, K!StartReceive(p, s)
    PROVE  /\ call[p] = K!Idle /\ call'[p] = K!Receiving(s)
           /\ \A q \in Procs \ {p} : call'[q] = call[q] /\ msg'[q] = msg[q]
           /\ Kernel'
BY DEF Kernel, K!StartReceive

LEMMA Stays ==
    ASSUME Kernel, UNCHANGED kernelVars
    PROVE  Kernel' /\ call' = call /\ msg' = msg
BY DEF Kernel, kernelVars

LEMMA HandsOver ==
    ASSUME Kernel, NEW d \in Procs, NEW i \in DOMAIN waiting[d], K!HandOver(d, i)
    PROVE  \E s \in Procs \ {d} :
               /\ call[s] = K!Sending(d) /\ call[d] \in {K!Receiving(s), K!Receiving(ANY)}
               /\ call'[s] = K!Idle /\ call'[d] = K!Idle
               /\ msg'[d] = msg[s] /\ msg'[s] = msg[s]
               /\ \A q \in Procs \ {s, d} : call'[q] = call[q] /\ msg'[q] = msg[q]
               /\ Kernel'
<1>1. /\ call = [q \in Procs |-> call[q]] /\ msg = [q \in Procs |-> msg[q]]
      /\ waiting \in [Procs -> Seq(Procs)]
  BY DEF Kernel
<1>2. PICK s : /\ s = waiting[d][i]
               /\ call[d] = K!Receiving(s) \/ call[d] = K!Receiving(ANY)
               /\ call[s] = K!Sending(d)
               /\ msg' = [msg EXCEPT ![d] = msg[s]]
               /\ call' = [call EXCEPT ![d] = K!Idle, ![s] = K!Idle]
               /\ waiting' = [waiting EXCEPT ![d] = K!RemoveAt(@, i)]
  BY DEF K!HandOver
<1>3. waiting[d] \in Seq(Procs) /\ i \in 1 .. Len(waiting[d])
  BY <1>1
<1>4. s \in Procs \ {d}
  BY <1>2, <1>3, CallsDiffer
<1>5. K!RemoveAt(waiting[d], i) \in Seq(Procs)
  BY <1>3 DEF K!RemoveAt
<1>6. waiting' \in [Procs -> Seq(Procs)]
  BY <1>1, <1>2, <1>5
<1>7. call' = [q \in Procs |-> call'[q]] /\ msg' = [q \in Procs |-> msg'[q]]
  BY <1>1, <1>2
<1>8. /\ call'[s] = K!Idle /\ call'[d] = K!Idle
      /\ msg'[d] = msg[s] /\ msg'[s] = msg[s]
      /\ \A q \in Procs \ {s, d} : call'[q] = call[q] /\ msg'[q] = msg[q]
  BY <1>1, <1>2, <1>4
<1>9. Kernel'
  BY <1>6, <1>7 DEF Kernel
<1> QED  BY <1>2, <1>4, <1>8, <1>9

LEMMA Interrupted ==
    ASSUME Kernel, K!TakeInterrupt(TTY)
    PROVE  /\ call[TTY] \in {K!Receiving(ANY), K!Receiving(INTERRUPT)}
           /\ call'[TTY] = K!Idle /\ msg'[TTY] = K!HardInt
           /\ \A q \in Procs \ {TTY} : call'[q] = call[q] /\ msg'[q] = msg[q]
           /\ Kernel'
BY Apart DEF Kernel, K!TakeInterrupt

----------------------------------------------------------------------------
(* What a step leaves alone. *)

\* Process p is where it was.
Same(p) == pc'[p] = pc[p] /\ call'[p] = call[p] /\ msg'[p] = msg[p]

LEMMA InvParts ==
    ASSUME IInv
    PROVE  /\ Kernel /\ Data /\ UserCalls /\ FsCalls /\ TtyCalls
           /\ Waits <=> Taken \/ Replying
           /\ Owed /\ Readers /\ UserMsgs /\ FsMsgs /\ TtyMsgs /\ KeysSeen
BY DEF IInv, Places, Messages

LEMMA FsSame ==
    ASSUME Same(FS)
    PROVE  /\ Waits' <=> Waits
           /\ Answered' <=> Answered
           /\ Dispatching' <=> Dispatching
BY DEF Same, Waits, Answered, Dispatching, K!Idle, K!Receiving, K!Sending

LEMMA TtySame ==
    ASSUME Same(TTY)
    PROVE  /\ Taken' <=> Taken
           /\ Replying' <=> Replying
           /\ Resuming' <=> Resuming
BY DEF Same, Taken, Replying, Resuming, K!Idle, K!Receiving, K!Sending

LEMMA UserSame ==
    ASSUME NEW u \in Users, Same(u)
    PROVE  Outstanding(u)' <=> Outstanding(u)
BY DEF Same, Outstanding, K!Idle, K!Receiving

LEMMA OwesSame ==
    ASSUME Same(FS), Same(TTY), UNCHANGED src
    PROVE  /\ Suspended' <=> Suspended
           /\ \A u \in Users : FsOwes(u)' <=> FsOwes(u)
<1>1. Suspended' <=> Suspended
  BY FsSame, TtySame DEF Suspended, Same
<1> QED  BY <1>1, FsSame DEF FsOwes, Same, K!Sending

\* FS waits for TTY, and is not told that the process is suspended, as long as
\* it has sent no request, or TTY has not replied.
LEMMA NotSuspended ==
    ASSUME Places, (pc[FS] = "sent" /\ call[FS] # K!Idle) \/ Taken
    PROVE  ~Suspended
<1>1. Taken => ~Replying /\ Waits
  BY DEF Places, Taken, Replying
<1>2. Waits => ~Answered
  BY CallsDiffer DEF Waits, Answered
<1>3. pc[FS] = "sent" /\ call[FS] # K!Idle => ~Waits /\ ~Answered
  BY DEF Waits, Answered
<1> QED  BY <1>1, <1>2, <1>3 DEF Places, Suspended

LEMMA DataStays ==
    ASSUME Data, UNCHANGED <<req, fsVars, ttyVars, kbVars>>,
           pc' = [p \in Procs |-> pc'[p]]
    PROVE  Data'
BY DEF Data, fsVars, ttyVars, reqVars, kbVars

----------------------------------------------------------------------------
(* The users. *)

\* A step of a user that FS and TTY do not see.
LEMMA UserActs ==
    ASSUME IInv, NEW u \in Users, Same(FS), Same(TTY),
           \A v \in Users \ {u} : Same(v) /\ req'[v] = req[v],
           UNCHANGED <<fsVars, ttyVars, kbVars>>,
           Outstanding(u) => Outstanding(u)' /\ req'[u] = req[u]
    PROVE  /\ FsCalls' /\ TtyCalls' /\ (Waits <=> Taken \/ Replying)'
           /\ Owed' /\ Readers' /\ FsMsgs' /\ TtyMsgs' /\ KeysSeen'
<1>1. /\ Kernel /\ Data /\ UserCalls /\ FsCalls /\ TtyCalls
      /\ Waits <=> Taken \/ Replying
      /\ Owed /\ Readers /\ UserMsgs /\ FsMsgs /\ TtyMsgs /\ KeysSeen
  BY InvParts
<1>2. /\ UNCHANGED <<src, len, tty, console, ibuf, procnr, left, trans, kb_in, key_pressed>>
      /\ pc'[FS] = pc[FS] /\ call'[FS] = call[FS] /\ msg'[FS] = msg[FS]
      /\ pc'[TTY] = pc[TTY] /\ call'[TTY] = call[TTY] /\ msg'[TTY] = msg[TTY]
  BY DEF Same, fsVars, ttyVars, reqVars, kbVars
<1>3. /\ Waits' <=> Waits
      /\ Answered' <=> Answered
      /\ Dispatching' <=> Dispatching
      /\ Taken' <=> Taken
      /\ Replying' <=> Replying
      /\ Resuming' <=> Resuming
      /\ Suspended' <=> Suspended
      /\ \A v \in Users : FsOwes(v)' <=> FsOwes(v)
  BY <1>2, FsSame, TtySame, OwesSame
<1>4. \A v \in Users : Outstanding(v) => Outstanding(v)' /\ req'[v] = req[v]
  BY UserSame
<1>5. FsCalls' /\ TtyCalls'
  BY <1>1, <1>2 DEF FsCalls, TtyCalls, K!Idle, K!Sending, K!Receiving
<1>6. Owed'
  BY <1>1, <1>3, <1>4 DEF Owed
<1>7. \A v, t : Reads(v, t) => Reads(v, t)' /\ req'[v] = req[v]
  BY <1>3, <1>4 DEF Reads
<1>8. Readers'
  BY <1>1, <1>2, <1>3, <1>7 DEF Readers
<1>9. \A v \in Users : FsOwes(v) => req'[v] = req[v]
  BY <1>1, <1>4 DEF Owed
<1>10. pc[FS] \in {"sent", "wait"} /\ ~Suspended => src \in Users /\ req'[src] = req[src]
  BY <1>1, <1>9 DEF FsOwes, FsMsgs
<1>11. Taken \/ call[FS] = K!Sending(TTY) => Asked' = Asked
  <2>1. Taken \/ call[FS] = K!Sending(TTY) => pc[FS] \in {"sent", "wait"} /\ ~Suspended
    <3>1. Places
      BY DEF IInv
    <3>2. call[FS] = K!Sending(TTY) => pc[FS] = "sent" /\ call[FS] # K!Idle
      <4>1. src # TTY
        BY <1>1, Apart DEF Data
      <4> QED  BY <1>1, <4>1, CallsDiffer DEF FsCalls
    <3>3. Taken => pc[FS] \in {"sent", "wait"}
      BY <1>1 DEF Waits
    <3> QED  BY <3>1, <3>2, <3>3, NotSuspended
  <2> QED  BY <1>2, <1>10, <2>1 DEF Asked
<1>12. FsMsgs'
  <2>1. Dispatching' =>
          \/ msg'[FS].source \in Users /\ msg'[FS].body = req'[msg'[FS].source]
          \/ /\ msg'[FS].source = TTY /\ msg'[FS].body.type = "RESUME_PROC"
             /\ msg'[FS].body.proc \in Users
             /\ msg'[FS].body.cnt <= req'[msg'[FS].body.proc].cnt
    BY <1>1, <1>2, <1>3, <1>9 DEF FsMsgs, FsOwes
  <2>2. pc'[FS] \in {"sent", "wait"} =>
          /\ src' \in Users
          /\ ~Suspended' => /\ req'[src'].type \in {"OPEN", "READ", "WRITE"}
                            /\ len' = req'[src'].cnt
    BY <1>1, <1>2, <1>3, <1>10 DEF FsMsgs
  <2>3. call'[FS] = K!Sending(TTY) => msg'[FS] = Asked'
    BY <1>1, <1>2, <1>11 DEF FsMsgs
  <2>4. Answered' => IsAnswer(msg[FS])'
    BY <1>1, <1>2, <1>3 DEF FsMsgs, IsAnswer
  <2>5. pc'[FS] = "reply" \/ (pc'[FS] = "main" /\ call'[FS] # K!Idle) =>
          /\ src' \in Users
          /\ req'[src'].type = "READ" => msg'[FS].body.cnt <= req'[src'].cnt
    BY <1>1, <1>2, <1>9 DEF FsMsgs, FsOwes, FsCalls
  <2> QED  BY <2>1, <2>2, <2>3, <2>4, <2>5 DEF FsMsgs, K!Sending, K!Idle
<1>13. TtyMsgs'
  BY <1>1, <1>2, <1>3, <1>11
     DEF TtyMsgs, IsAnswer, K!Idle, K!HardInt
<1>14. KeysSeen'
  BY <1>1, <1>2 DEF KeysSeen
<1> QED  BY <1>1, <1>3, <1>5, <1>6, <1>8, <1>12, <1>13, <1>14

\* The rest of the invariant, once the step is known to keep the user's part.
LEMMA UserKeeps ==
    ASSUME IInv, NEW u \in Users, Same(FS), Same(TTY),
           \A v \in Users \ {u} : Same(v) /\ req'[v] = req[v],
           UNCHANGED <<fsVars, ttyVars, kbVars>>,
           Outstanding(u) => Outstanding(u)' /\ req'[u] = req[u],
           Kernel', pc' = [p \in Procs |-> pc'[p]], req' \in [Users -> Bodies],
           \/ pc'[u] = "idle" /\ call'[u] = K!Idle
           \/ pc'[u] = "sent" /\ call'[u] \in {K!Idle, K!Sending(FS)}
           \/ pc'[u] = "wait" /\ call'[u] \in {K!Idle, K!Receiving(FS)},
           call'[u] = K!Sending(FS) => msg'[u] = [source |-> u, body |-> req'[u]],
           pc'[u] # "idle" => req'[u].type \in Calls[u] /\ req'[u].proc = u
    PROVE  IInv'
<1>1. Data /\ UserCalls /\ UserMsgs
  BY InvParts
<1>2. Data'
  BY <1>1 DEF Data, fsVars, ttyVars, reqVars, kbVars
<1>3. UserCalls'
  BY <1>1 DEF UserCalls, Same, K!Idle, K!Sending, K!Receiving
<1>4. UserMsgs'
  BY <1>1 DEF UserMsgs, Same, K!Sending
<1>5. /\ FsCalls' /\ TtyCalls' /\ (Waits <=> Taken \/ Replying)'
      /\ Owed' /\ Readers' /\ FsMsgs' /\ TtyMsgs' /\ KeysSeen'
  BY UserActs
<1> QED  BY <1>2, <1>3, <1>4, <1>5 DEF IInv, Places, Messages

\* FS does not send to a user that makes no call.
LEMMA IdleUnanswered ==
    ASSUME IInv, NEW u \in Users, pc[u] = "idle"
    PROVE  call[FS] # K!Sending(u) /\ ~Outstanding(u)
<1>1. UserCalls /\ FsCalls /\ Owed
  BY InvParts
<1>2. ~Outstanding(u)
  BY <1>1, CallsDiffer DEF UserCalls, Outstanding
<1>3. call[FS] = K!Sending(u) => FsOwes(u)
  BY <1>1, Apart, CallsDiffer DEF FsCalls, FsOwes
<1> QED  BY <1>1, <1>2, <1>3 DEF Owed

LEMMA StepUserCall == ASSUME NEW u \in Users PROVE IInv /\ UserCall(u) => IInv'
<1> SUFFICES ASSUME IInv, UserCall(u) PROVE IInv'
  OBVIOUS
<1>1. PICK body \in Requests(u) :
         /\ body.type \in Calls[u] /\ req' = [req EXCEPT ![u] = body]
         /\ Send(u, FS, body, "sent")
  BY DEF UserCall
<1>2. pc[u] = "idle" /\ UNCHANGED <<fsVars, ttyVars, kbVars>>
  BY DEF UserCall, At
<1>3. Kernel /\ Data
  BY InvParts
<1>4. call[FS] # K!Sending(u) /\ ~Outstanding(u)
  BY <1>2, IdleUnanswered
<1>5. K!StartSend(u, FS, body) /\ Goto(u, "sent")
  BY <1>1, <1>4 DEF Send
<1>6. /\ call'[u] = K!Sending(FS) /\ msg'[u] = [source |-> u, body |-> body]
      /\ \A q \in Procs \ {u} : call'[q] = call[q] /\ msg'[q] = msg[q]
      /\ Kernel'
  BY <1>3, <1>5, Apart, Sends
<1>7. /\ pc'[u] = "sent" /\ \A q \in Procs \ {u} : pc'[q] = pc[q]
      /\ pc' = [q \in Procs |-> pc'[q]]
  BY <1>3, <1>5, Apart, Goes
<1>8. body \in Bodies /\ body.proc = u
  BY <1>1, Numbers DEF Requests, Body, Bodies
<1>9. /\ req' \in [Users -> Bodies] /\ req'[u] = body
      /\ \A v \in Users \ {u} : req'[v] = req[v]
  BY <1>1, <1>3, <1>8 DEF Data
<1>10. Same(FS) /\ Same(TTY) /\ \A v \in Users \ {u} : Same(v)
  BY <1>6, <1>7, Apart DEF Same
<1> QED  BY <1>1, <1>2, <1>4, <1>6, <1>7, <1>8, <1>9, <1>10, UserKeeps

LEMMA StepUserAwait == ASSUME NEW u \in Users PROVE IInv /\ UserAwait(u) => IInv'
<1> SUFFICES ASSUME IInv, UserAwait(u) PROVE IInv'
  OBVIOUS
<1>1. /\ pc[u] = "sent" /\ call[u] = K!Idle /\ K!StartReceive(u, FS) /\ Goto(u, "wait")
      /\ UNCHANGED <<req, fsVars, ttyVars, kbVars>>
  BY DEF UserAwait, At, ReceiveReply
<1>2. Kernel /\ Data /\ UserMsgs
  BY InvParts
<1>3. /\ call'[u] = K!Receiving(FS) /\ Kernel'
      /\ \A q \in Procs \ {u} : call'[q] = call[q] /\ msg'[q] = msg[q]
  BY <1>1, <1>2, Apart, Receives
<1>4. /\ pc'[u] = "wait" /\ \A q \in Procs \ {u} : pc'[q] = pc[q]
      /\ pc' = [q \in Procs |-> pc'[q]]
  BY <1>1, <1>2, Apart, Goes
<1>5. Same(FS) /\ Same(TTY) /\ \A v \in Users \ {u} : Same(v)
  BY <1>3, <1>4, Apart DEF Same
<1>6. Outstanding(u)'
  BY <1>3, <1>4 DEF Outstanding, K!Receiving
<1>7. req' \in [Users -> Bodies]
  BY <1>1, <1>2 DEF Data
<1>8. call'[u] # K!Sending(FS)
  BY <1>3, CallsDiffer
<1>9. req'[u].type \in Calls[u] /\ req'[u].proc = u
  BY <1>1, <1>2 DEF UserMsgs
<1> QED  BY <1>1, <1>3, <1>4, <1>5, <1>6, <1>7, <1>8, <1>9, UserKeeps

LEMMA StepUserDone == ASSUME NEW u \in Users PROVE IInv /\ UserDone(u) => IInv'
<1> SUFFICES ASSUME IInv, UserDone(u) PROVE IInv'
  OBVIOUS
<1>1. /\ pc[u] = "wait" /\ call[u] = K!Idle /\ Goto(u, "idle")
      /\ req' = [req EXCEPT ![u] = Body("OPEN", u, 0)]
      /\ UNCHANGED <<kernelVars, fsVars, ttyVars, kbVars>>
  BY DEF UserDone, At
<1>2. Kernel /\ Data
  BY InvParts
<1>3. Kernel' /\ call' = call /\ msg' = msg
  BY <1>1, <1>2, Stays
<1>4. /\ pc'[u] = "idle" /\ \A q \in Procs \ {u} : pc'[q] = pc[q]
      /\ pc' = [q \in Procs |-> pc'[q]]
  BY <1>1, <1>2, Apart, Goes
<1>5. Same(FS) /\ Same(TTY) /\ \A v \in Users \ {u} : Same(v)
  BY <1>3, <1>4, Apart DEF Same
<1>6. ~Outstanding(u)
  BY <1>1, CallsDiffer DEF Outstanding
<1>7. Body("OPEN", u, 0) \in Bodies
  BY Numbers DEF Body, Bodies
<1>8. req' \in [Users -> Bodies] /\ \A v \in Users \ {u} : req'[v] = req[v]
  BY <1>1, <1>2, <1>7 DEF Data
<1>9. call'[u] = K!Idle /\ call'[u] # K!Sending(FS)
  BY <1>1, <1>3, CallsDiffer
<1> QED  BY <1>1, <1>3, <1>4, <1>5, <1>6, <1>8, <1>9, UserKeeps

\* What users have asked for, and where they are, when they do not move.
LEMMA UsersStay ==
    ASSUME UserCalls, UserMsgs, \A u \in Users : Same(u), req' = req
    PROVE  UserCalls' /\ UserMsgs' /\ \A u \in Users : Outstanding(u)' <=> Outstanding(u)
<1>1. UserCalls'
  BY DEF UserCalls, Same, K!Idle, K!Sending, K!Receiving
<1>2. UserMsgs'
  BY DEF UserMsgs, Same, K!Sending
<1> QED  BY <1>1, <1>2, UserSame

----------------------------------------------------------------------------
(* TASK_FS. *)

\* A step of FS alone: it owes no one an answer that it did not owe before.
LEMMA FsActs ==
    ASSUME IInv, Same(TTY), \A u \in Users : Same(u),
           UNCHANGED <<req, ttyVars, kbVars>>,
           Kernel', pc' = [p \in Procs |-> pc'[p]],
           src' \in Users \cup {FS}, len' \in 0 .. MaxCnt,
           FsCalls', FsMsgs', Waits' <=> Waits, Waits => UNCHANGED fsVars,
           \A u \in Users : FsOwes(u)' => FsOwes(u)
    PROVE  IInv'
<1>1. /\ Data /\ UserCalls /\ TtyCalls
      /\ Waits <=> Taken \/ Replying
      /\ Owed /\ Readers /\ UserMsgs /\ TtyMsgs /\ KeysSeen
  BY InvParts
<1>2. /\ UNCHANGED <<tty, console, ibuf, procnr, left, trans, kb_in, key_pressed>>
      /\ pc'[TTY] = pc[TTY] /\ call'[TTY] = call[TTY] /\ msg'[TTY] = msg[TTY]
  BY DEF Same, ttyVars, reqVars, kbVars
<1>3. Data'
  BY <1>1, <1>2 DEF Data
<1>4. UserCalls' /\ UserMsgs' /\ \A u \in Users : Outstanding(u)' <=> Outstanding(u)
  BY <1>1, UsersStay
<1>5. TtyCalls'
  BY <1>1, <1>2 DEF TtyCalls, K!Idle, K!Sending, K!Receiving
<1>6. (Taken' <=> Taken) /\ (Replying' <=> Replying) /\ (Resuming' <=> Resuming)
  BY TtySame
<1>7. Owed'
  BY <1>1, <1>4 DEF Owed
<1>8. \A u, t : Reads(u, t) => Reads(u, t)'
  BY <1>4 DEF Reads
<1>9. Readers'
  BY <1>1, <1>2, <1>6, <1>8 DEF Readers
<1>10. Waits => Asked' = Asked
  BY DEF Asked, fsVars
<1>11. TtyMsgs'
  <2>1. pc'[TTY] = "dispatch" /\ call'[TTY] = K!Idle =>
          msg'[TTY] = K!HardInt \/ (Taken' /\ msg'[TTY] = Asked')
    BY <1>1, <1>2, <1>6, <1>10 DEF TtyMsgs
  <2>2. Replying' => IsAnswer(msg[TTY])'
    BY <1>1, <1>2, <1>6 DEF TtyMsgs, IsAnswer, fsVars
  <2>3. Resuming' => msg'[TTY] = [source |-> TTY,
                         body |-> Body("RESUME_PROC", procnr'[tty'], trans'[tty'])]
    BY <1>1, <1>2, <1>6 DEF TtyMsgs
  <2> QED  BY <2>1, <2>2, <2>3 DEF TtyMsgs, K!Idle, K!HardInt
<1>12. KeysSeen'
  BY <1>1, <1>2 DEF KeysSeen
<1>13. (Waits <=> Taken \/ Replying)'
  BY <1>1, <1>6
<1> QED  BY <1>3, <1>4, <1>5, <1>7, <1>9, <1>11, <1>12, <1>13 DEF IInv, Places, Messages

LEMMA StepFsMain == IInv /\ FsMain => IInv'
<1> SUFFICES ASSUME IInv, FsMain PROVE IInv'
  OBVIOUS
<1>1. /\ pc[FS] = "main" /\ call[FS] = K!Idle
      /\ K!StartReceive(FS, ANY) /\ Goto(FS, "dispatch") /\ src' = FS
      /\ UNCHANGED <<req, len, ttyVars, kbVars>>
  BY DEF FsMain, At, Receive
<1>2. Kernel /\ Data
  BY InvParts
<1>3. /\ call'[FS] = K!Receiving(ANY) /\ Kernel'
      /\ \A q \in Procs \ {FS} : call'[q] = call[q] /\ msg'[q] = msg[q]
  BY <1>1, <1>2, Apart, Receives
<1>4. /\ pc'[FS] = "dispatch" /\ \A q \in Procs \ {FS} : pc'[q] = pc[q]
      /\ pc' = [q \in Procs |-> pc'[q]]
  BY <1>1, <1>2, Apart, Goes
<1>5. Same(TTY) /\ \A u \in Users : Same(u)
  BY <1>3, <1>4, Apart DEF Same
<1>6. ~Waits /\ ~Waits' /\ ~Dispatching' /\ ~Answered'
  BY <1>1, <1>3, <1>4, CallsDiffer DEF Waits, Dispatching, Answered, K!Receiving, K!Idle
<1>7. FsCalls'
  BY <1>3, <1>4 DEF FsCalls, K!Receiving
<1>8. FsMsgs'
  BY <1>3, <1>4, <1>6, CallsDiffer DEF FsMsgs, K!Receiving, K!Sending
<1>9. \A u \in Users : ~FsOwes(u)'
  BY <1>4, <1>6 DEF FsOwes
<1>10. len' \in 0 .. MaxCnt
  BY <1>1, <1>2 DEF Data
<1> QED  BY <1>1, <1>3, <1>4, <1>5, <1>6, <1>7, <1>8, <1>9, <1>10, FsActs

\* What FS has to dispatch is a user's request, or TTY's to resume a reader.
LEMMA ToDispatch ==
    ASSUME IInv, Dispatching
    PROVE  \/ /\ msg[FS].source \in Users /\ msg[FS].body = req[msg[FS].source]
              /\ FsOwes(msg[FS].source)
              /\ msg[FS].body.type \in {"OPEN", "READ", "WRITE", "CLOSE"}
           \/ /\ msg[FS].source = TTY /\ msg[FS].body.type = "RESUME_PROC"
              /\ msg[FS].body.proc \in Users /\ FsOwes(msg[FS].body.proc)
              /\ msg[FS].body.cnt <= req[msg[FS].body.proc].cnt
<1>1. FsMsgs /\ Owed /\ UserMsgs
  BY InvParts
<1>2. CASE msg[FS].source \in Users /\ msg[FS].body = req[msg[FS].source]
  <2>1. FsOwes(msg[FS].source)
    BY <1>2 DEF FsOwes
  <2>2. pc[msg[FS].source] # "idle"
    BY <1>1, <1>2, <2>1 DEF Owed, Outstanding
  <2>3. msg[FS].body.type \in Calls[msg[FS].source]
    BY <1>1, <1>2, <2>2 DEF UserMsgs
  <2>4. msg[FS].body.type \in {"OPEN", "READ", "WRITE", "CLOSE"}
    BY <1>2, <2>3, TtyAssumption
  <2> QED  BY <1>2, <2>1, <2>4
<1>3. CASE /\ msg[FS].source = TTY /\ msg[FS].body.type = "RESUME_PROC"
           /\ msg[FS].body.proc \in Users
           /\ msg[FS].body.cnt <= req[msg[FS].body.proc].cnt
  BY <1>3 DEF FsOwes
<1> QED  BY <1>1, <1>2, <1>3 DEF FsMsgs

LEMMA StepFsAnswer == IInv /\ FsAnswer => IInv'
<1> SUFFICES ASSUME IInv, FsAnswer PROVE IInv'
  OBVIOUS
<1>1. /\ pc[FS] = "dispatch" /\ call[FS] = K!Idle /\ Dispatching
      /\ msg[FS].body.type \in {"CLOSE", "RESUME_PROC"} /\ Goto(FS, "reply")
      /\ src' = IF msg[FS].body.type = "RESUME_PROC" THEN msg[FS].body.proc
                ELSE msg[FS].source
      /\ UNCHANGED <<kernelVars, req, len, ttyVars, kbVars>>
  BY DEF FsAnswer, FsTypes, At, fs_msg, Dispatching
<1>2. Kernel /\ Data
  BY InvParts
<1>3. Kernel' /\ call' = call /\ msg' = msg
  BY <1>1, <1>2, Stays
<1>4. /\ pc'[FS] = "reply" /\ \A q \in Procs \ {FS} : pc'[q] = pc[q]
      /\ pc' = [q \in Procs |-> pc'[q]]
  BY <1>1, <1>2, Apart, Goes
<1>5. Same(TTY) /\ \A u \in Users : Same(u)
  BY <1>3, <1>4, Apart DEF Same
<1>6. ~Waits /\ ~Waits' /\ ~Dispatching' /\ ~Answered'
  BY <1>1, <1>4 DEF Waits, Dispatching, Answered
<1>7. /\ src' \in Users /\ FsOwes(src)' /\ FsOwes(src')
      /\ req[src'].type = "READ" => msg[FS].body.cnt <= req[src'].cnt
  <2>1. /\ src' \in Users /\ FsOwes(src')
        /\ req[src'].type = "READ" => msg[FS].body.cnt <= req[src'].cnt
    BY <1>1, ToDispatch
  <2>2. FsOwes(src)'
    BY <1>4 DEF FsOwes
  <2> QED  BY <2>1, <2>2
<1>8. \A u \in Users : FsOwes(u)' => FsOwes(u)
  BY <1>4, <1>6, <1>7 DEF FsOwes
<1>9. FsCalls'
  BY <1>1, <1>3, <1>4 DEF FsCalls, K!Idle
<1>10. FsMsgs'
  BY <1>1, <1>3, <1>4, <1>6, <1>7, CallsDiffer DEF FsMsgs, K!Sending, K!Idle
<1>11. len' \in 0 .. MaxCnt
  BY <1>1, <1>2 DEF Data
<1> QED  BY <1>1, <1>3, <1>4, <1>5, <1>6, <1>7, <1>8, <1>9, <1>10, <1>11, FsActs

LEMMA StepFsTty == IInv /\ FsTty => IInv'
<1> SUFFICES ASSUME IInv, FsTty PROVE IInv'
  OBVIOUS
<1> DEFINE u == msg[FS].source
           type == CASE msg[FS].body.type = "OPEN" -> "DEV_OPEN"
                     [] msg[FS].body.type = "READ" -> "DEV_READ"
                     [] msg[FS].body.type = "WRITE" -> "DEV_WRITE"
           body == Body(type, u, msg[FS].body.cnt)
<1>1. /\ pc[FS] = "dispatch" /\ call[FS] = K!Idle /\ Dispatching
      /\ msg[FS].body.type \in {"OPEN", "READ", "WRITE"}
      /\ src' = u /\ len' = msg[FS].body.cnt
      /\ Send(FS, TTY, body, "sent")
      /\ UNCHANGED <<req, ttyVars, kbVars>>
  BY DEF FsTty, FsTypes, At, fs_msg, Dispatching
<1>2. Kernel /\ Data /\ (Waits <=> Taken \/ Replying)
  BY InvParts
<1>3. u \in Users /\ msg[FS].body = req[u] /\ FsOwes(u)
  BY <1>1, ToDispatch
<1>4. ~Waits /\ ~Replying
  BY <1>1, <1>2 DEF Waits
<1>5. len' = req[u].cnt /\ len' \in 0 .. MaxCnt
  BY <1>1, <1>2, <1>3, Numbers DEF Data
<1>6. body = Body(DevType(req[u].type), u, req[u].cnt)
  BY <1>1, <1>3 DEF DevType
<1>7. CASE call[TTY] = K!Sending(FS)
  <2>1. Goto(FS, "panic") /\ UNCHANGED kernelVars
    BY <1>1, <1>7 DEF Send
  <2>2. Kernel' /\ call' = call /\ msg' = msg
    BY <1>2, <2>1, Stays
  <2>3. /\ pc'[FS] = "panic" /\ \A q \in Procs \ {FS} : pc'[q] = pc[q]
        /\ pc' = [q \in Procs |-> pc'[q]]
    BY <1>2, <2>1, Apart, Goes
  <2>4. Same(TTY) /\ \A v \in Users : Same(v)
    BY <2>2, <2>3, Apart DEF Same
  <2>5. ~Waits' /\ ~Dispatching' /\ ~Answered' /\ \A v \in Users : ~FsOwes(v)'
    BY <2>3 DEF Waits, Dispatching, Answered, FsOwes
  <2>6. FsCalls'
    BY <1>1, <2>2, <2>3 DEF FsCalls, K!Idle
  <2>7. FsMsgs'
    <3>1. call'[FS] # K!Sending(TTY)
      BY <1>1, <2>2, CallsDiffer
    <3> QED  BY <2>3, <2>5, <3>1 DEF FsMsgs, K!Sending
  <2> QED  BY <1>1, <1>3, <1>4, <1>5, <2>2, <2>3, <2>4, <2>5, <2>6, <2>7, FsActs
<1>8. CASE call[TTY] # K!Sending(FS)
  <2>1. K!StartSend(FS, TTY, body) /\ Goto(FS, "sent")
    BY <1>1, <1>8 DEF Send
  <2> HIDE DEF body
  <2>2. /\ call'[FS] = K!Sending(TTY) /\ msg'[FS] = [source |-> FS, body |-> body]
        /\ \A q \in Procs \ {FS} : call'[q] = call[q] /\ msg'[q] = msg[q]
        /\ Kernel'
    BY <1>2, <2>1, Apart, Sends
  <2>3. /\ pc'[FS] = "sent" /\ \A q \in Procs \ {FS} : pc'[q] = pc[q]
        /\ pc' = [q \in Procs |-> pc'[q]]
    BY <1>2, <2>1, Apart, Goes
  <2>4. Same(TTY) /\ \A v \in Users : Same(v)
    BY <2>2, <2>3, Apart DEF Same
  <2>5. ~Waits' /\ ~Dispatching' /\ ~Answered' /\ ~Replying'
    BY <1>4, <2>2, <2>3, <2>4, TtySame, CallsDiffer
       DEF Waits, Dispatching, Answered, K!Idle, K!Sending
  <2>6. ~Suspended'
    BY <2>5 DEF Suspended
  <2>7. \A v \in Users : FsOwes(v)' => FsOwes(v)
    BY <1>1, <1>3, <2>3, <2>5 DEF FsOwes
  <2>8. FsCalls'
    BY <2>2, <2>3 DEF FsCalls, K!Sending
  <2>9. msg'[FS] = Asked'
    BY <1>1, <1>5, <1>6, <2>2 DEF Asked
  <2>10. FsMsgs'
    BY <1>1, <1>3, <1>5, <2>3, <2>5, <2>6, <2>9 DEF FsMsgs
  <2> QED  BY <1>1, <1>3, <1>4, <1>5, <2>2, <2>3, <2>4, <2>5, <2>7, <2>8, <2>10, FsActs
<1> QED  BY <1>7, <1>8

LEMMA StepFsTtyAwait == IInv /\ FsTtyAwait => IInv'
<1> SUFFICES ASSUME IInv, FsTtyAwait PROVE IInv'
  OBVIOUS
<1>1. /\ pc[FS] = "sent" /\ call[FS] = K!Idle
      /\ K!StartReceive(FS, TTY) /\ Goto(FS, "wait")
      /\ UNCHANGED <<req, fsVars, ttyVars, kbVars>>
  BY DEF FsTtyAwait, At, ReceiveReply
<1>2. Kernel /\ Data /\ FsMsgs
  BY InvParts
<1>3. /\ call'[FS] = K!Receiving(TTY) /\ Kernel'
      /\ \A q \in Procs \ {FS} : call'[q] = call[q] /\ msg'[q] = msg[q]
  BY <1>1, <1>2, Apart, Receives
<1>4. /\ pc'[FS] = "wait" /\ \A q \in Procs \ {FS} : pc'[q] = pc[q]
      /\ pc' = [q \in Procs |-> pc'[q]]
  BY <1>1, <1>2, Apart, Goes
<1>5. Same(TTY) /\ \A u \in Users : Same(u)
  BY <1>3, <1>4, Apart DEF Same
<1>6. Waits /\ Waits' /\ ~Dispatching' /\ ~Answered' /\ ~Answered
  BY <1>1, <1>3, <1>4, CallsDiffer DEF Waits, Dispatching, Answered, K!Receiving, K!Idle
<1>7. Suspended' <=> Suspended
  BY <1>5, <1>6, TtySame DEF Suspended, Same
<1>8. FsCalls'
  BY <1>3, <1>4 DEF FsCalls, K!Receiving
<1>9. UNCHANGED <<src, len, req>>
  BY <1>1 DEF fsVars
<1>10. call'[FS] # K!Sending(TTY)
  BY <1>3, CallsDiffer
<1>11. FsMsgs'
  BY <1>1, <1>2, <1>4, <1>6, <1>7, <1>9, <1>10 DEF FsMsgs, K!Sending
<1>12. \A u \in Users : FsOwes(u)' => FsOwes(u)
  BY <1>1, <1>4, <1>6, <1>7, <1>9 DEF FsOwes
<1>13. src' \in Users \cup {FS} /\ len' \in 0 .. MaxCnt
  BY <1>2, <1>9 DEF Data
<1> QED  BY <1>1, <1>3, <1>4, <1>5, <1>6, <1>8, <1>11, <1>12, <1>13, FsActs

LEMMA StepFsTtyDone == IInv /\ FsTtyDone => IInv'
<1> SUFFICES ASSUME IInv, FsTtyDone PROVE IInv'
  OBVIOUS
<1>1. /\ pc[FS] = "wait" /\ call[FS] = K!Idle /\ Answered
      /\ Goto(FS, IF msg[FS].body.cnt # len THEN "assert"
                  ELSE IF msg[FS].body.type = "SUSPEND_PROC" THEN "main"
                  ELSE "reply")
      /\ len' = 0 /\ src' = src
      /\ UNCHANGED <<kernelVars, req, ttyVars, kbVars>>
  BY DEF FsTtyDone, At, fs_msg, Answered
<1>2. Kernel /\ Data /\ (Waits <=> Taken \/ Replying) /\ FsMsgs
  BY InvParts
<1>3. msg[FS].body.cnt = len
  BY <1>1, <1>2 DEF FsMsgs, IsAnswer, Body
<1>4. Kernel' /\ call' = call /\ msg' = msg
  BY <1>1, <1>2, Stays
<1> DEFINE there == IF msg[FS].body.type = "SUSPEND_PROC" THEN "main" ELSE "reply"
<1>5. /\ pc'[FS] = there /\ \A q \in Procs \ {FS} : pc'[q] = pc[q]
      /\ pc' = [q \in Procs |-> pc'[q]]
  BY <1>1, <1>2, <1>3, Apart, Goes
<1>6. Same(TTY) /\ \A u \in Users : Same(u)
  BY <1>4, <1>5, Apart DEF Same
<1>7. ~Waits /\ ~Waits' /\ ~Dispatching' /\ ~Answered' /\ ~Replying
  BY <1>1, <1>2, <1>4, <1>5, CallsDiffer DEF Waits, Dispatching, Answered
<1>8. Suspended <=> msg[FS].body.type = "SUSPEND_PROC"
  BY <1>1, <1>7 DEF Suspended
<1>9. FsCalls'
  BY <1>1, <1>4, <1>5 DEF FsCalls, K!Idle
<1>10. FsMsgs'
  <2>1. pc'[FS] \in {"main", "reply"} /\ call'[FS] = K!Idle /\ call'[FS] # K!Sending(TTY)
    BY <1>1, <1>4, <1>5, CallsDiffer
  <2>2. pc'[FS] = "reply" =>
          /\ src' \in Users
          /\ req'[src'].type = "READ" => msg'[FS].body.cnt <= req'[src'].cnt
    <3>1. src \in Users
      BY <1>1, <1>2 DEF FsMsgs
    <3>2. len = req[src].cnt \/ pc'[FS] = "main"
      BY <1>1, <1>2, <1>5, <1>8 DEF FsMsgs
    <3>3. src' = src /\ req' = req /\ msg'[FS].body.cnt = len /\ len \in Nat
      BY <1>1, <1>2, <1>3, <1>4, Numbers DEF Data
    <3> QED  BY <3>1, <3>2, <3>3
  <2> HIDE DEF there
  <2> QED  BY <1>7, <2>1, <2>2 DEF FsMsgs, K!Idle, K!Sending
<1>11. \A u \in Users : FsOwes(u)' => FsOwes(u)
  BY <1>1, <1>4, <1>5, <1>7, <1>8, CallsDiffer DEF FsOwes, K!Sending
<1>12. src' \in Users \cup {FS} /\ len' \in 0 .. MaxCnt
  BY <1>1, <1>2, Numbers DEF Data
<1> QED  BY <1>1, <1>4, <1>5, <1>6, <1>7, <1>9, <1>10, <1>11, <1>12, FsActs

LEMMA StepFsReply == IInv /\ FsReply => IInv'
<1> SUFFICES ASSUME IInv, FsReply PROVE IInv'
  OBVIOUS
<1> DEFINE body == Body("SYSCALL_RET", src, msg[FS].body.cnt)
<1>1. /\ pc[FS] = "reply" /\ call[FS] = K!Idle
      /\ Send(FS, src, body, "main")
      /\ UNCHANGED <<req, fsVars, ttyVars, kbVars>>
  BY DEF FsReply, At, fs_msg
<1>2. Kernel /\ Data /\ FsMsgs /\ Owed
  BY InvParts
<1>3. /\ src \in Users /\ FsOwes(src)
      /\ req[src].type = "READ" => msg[FS].body.cnt <= req[src].cnt
  BY <1>1, <1>2 DEF FsMsgs, FsOwes
<1>4. call[src] # K!Sending(FS)
  BY <1>2, <1>3, CallsDiffer DEF Owed, Outstanding
<1>5. K!StartSend(FS, src, body) /\ Goto(FS, "main")
  BY <1>1, <1>4 DEF Send
<1>6. /\ call'[FS] = K!Sending(src) /\ msg'[FS] = [source |-> FS, body |-> body]
      /\ \A q \in Procs \ {FS} : call'[q] = call[q] /\ msg'[q] = msg[q]
      /\ Kernel'
  BY <1>2, <1>3, <1>5, Apart, Sends
<1>7. /\ pc'[FS] = "main" /\ \A q \in Procs \ {FS} : pc'[q] = pc[q]
      /\ pc' = [q \in Procs |-> pc'[q]]
  BY <1>2, <1>5, Apart, Goes
<1>8. Same(TTY) /\ \A u \in Users : Same(u)
  BY <1>6, <1>7, Apart DEF Same
<1>9. ~Waits /\ ~Waits' /\ ~Dispatching' /\ ~Answered'
  BY <1>1, <1>7 DEF Waits, Dispatching, Answered
<1>10. src' = src /\ len' = len
  BY <1>1 DEF fsVars
<1>11. FsCalls'
  BY <1>6, <1>7, <1>10 DEF FsCalls, K!Sending
<1>12. msg'[FS].body.cnt = msg[FS].body.cnt
  BY <1>6 DEF Body
<1>13. call'[FS] # K!Sending(TTY)
  BY <1>3, <1>6, Apart, CallsDiffer
<1>14. FsMsgs'
  BY <1>1, <1>3, <1>7, <1>9, <1>10, <1>12, <1>13 DEF FsMsgs, K!Sending
<1>15. \A u \in Users : FsOwes(u)' => FsOwes(u)
  <2>1. \A u : call'[FS] = K!Sending(u) => u = src
    BY <1>6, CallsDiffer
  <2>2. \A u \in Users : FsOwes(u)' => u = src
    BY <1>7, <1>9, <2>1 DEF FsOwes, K!Sending
  <2> QED  BY <1>3, <2>2
<1>16. src' \in Users \cup {FS} /\ len' \in 0 .. MaxCnt
  BY <1>2, <1>10 DEF Data
<1> QED  BY <1>1, <1>6, <1>7, <1>8, <1>9, <1>11, <1>14, <1>15, <1>16, FsActs

----------------------------------------------------------------------------
(* TASK_TTY. *)

\* Who reads, when FS owes no one an answer that it did not owe before.
LEMMA ReadsStay ==
    ASSUME UserCalls, UserMsgs, Same(FS), \A u \in Users : Same(u),
           UNCHANGED <<req, src>>, Suspended => Suspended'
    PROVE  /\ \A u \in Users : FsOwes(u)' => FsOwes(u)
           /\ \A u, t : Reads(u, t) => Reads(u, t)'
<1>1. \A u \in Users : Outstanding(u)' <=> Outstanding(u)
  BY UsersStay
<1>2. \A u \in Users : FsOwes(u)' => FsOwes(u)
  BY FsSame DEF FsOwes, Same, K!Sending
<1> QED  BY <1>1, <1>2 DEF Reads

\* A step of TTY alone.
LEMMA TtyActs ==
    ASSUME IInv, Same(FS), \A u \in Users : Same(u), UNCHANGED <<req, fsVars>>,
           Kernel', Data', TtyCalls', (Waits <=> Taken \/ Replying)',
           Suspended => Suspended', Readers', TtyMsgs', KeysSeen'
    PROVE  IInv'
<1>1. UserCalls /\ FsCalls /\ Owed /\ UserMsgs /\ FsMsgs
  BY InvParts
<1>2. /\ UNCHANGED <<src, len, req>>
      /\ pc'[FS] = pc[FS] /\ call'[FS] = call[FS] /\ msg'[FS] = msg[FS]
  BY DEF Same, fsVars
<1>3. UserCalls' /\ UserMsgs' /\ \A u \in Users : Outstanding(u)' <=> Outstanding(u)
  BY <1>1, UsersStay
<1>4. FsCalls'
  BY <1>1, <1>2 DEF FsCalls, K!Idle, K!Sending, K!Receiving
<1>5. \A u \in Users : FsOwes(u)' => FsOwes(u)
  BY <1>1, <1>2, ReadsStay
<1>6. Owed'
  BY <1>1, <1>3, <1>5 DEF Owed
<1>7. (Dispatching' <=> Dispatching) /\ (Answered' <=> Answered)
  BY FsSame
<1>8. Asked' = Asked /\ (IsAnswer(msg[FS])' <=> IsAnswer(msg[FS]))
  BY <1>2 DEF Asked, IsAnswer
<1>9. FsMsgs'
  BY <1>1, <1>2, <1>7, <1>8 DEF FsMsgs, K!Sending, K!Idle
<1> QED  BY <1>3, <1>4, <1>6, <1>9 DEF IInv, Places, Messages

\* A step of TTY between its messages.
LEMMA TtyMoves ==
    ASSUME IInv, ~Taken, ~Replying, Same(FS), \A u \in Users : Same(u),
           UNCHANGED <<req, fsVars>>, Kernel', Data', TtyCalls', Readers', KeysSeen',
           ~(pc'[TTY] = "dispatch" /\ call'[TTY] = K!Idle), ~Replying', ~Resuming'
    PROVE  IInv'
<1>1. Waits <=> Taken \/ Replying
  BY InvParts
<1>2. (Waits' <=> Waits) /\ (Answered' <=> Answered)
  BY FsSame
<1>3. ~Taken'
  BY DEF Taken, K!Idle
<1>4. Suspended => Suspended'
  BY <1>2 DEF Suspended, Same
<1>5. TtyMsgs'
  BY DEF TtyMsgs, K!Idle
<1> QED  BY <1>1, <1>2, <1>3, <1>4, <1>5, TtyActs

LEMMA ReadersStay ==
    ASSUME IInv, Same(FS), \A u \in Users : Same(u), UNCHANGED <<req, src, reqVars>>,
           Suspended => Suspended', pc[TTY] # "resumed", ~Resuming'
    PROVE  Readers'
<1>1. UserCalls /\ UserMsgs /\ Readers
  BY InvParts
<1>2. \A u, t : Reads(u, t) => Reads(u, t)'
  BY <1>1, ReadsStay
<1>3. UNCHANGED <<procnr, left, trans, req>>
  BY DEF reqVars
<1> QED  BY <1>1, <1>2, <1>3 DEF Readers

\* ... that leaves the readers alone.
LEMMA TtyRuns ==
    ASSUME IInv, pc[TTY] \in {"read", "drain", "write"} \/ msg[TTY].source # FS,
           call[TTY] = K!Idle, pc[TTY] # "resumed",
           Same(FS), \A u \in Users : Same(u), UNCHANGED <<req, fsVars, reqVars>>,
           Kernel', Data', TtyCalls', KeysSeen', pc'[TTY] # "resumed",
           \/ pc'[TTY] \in {"read", "drain", "write"} /\ call'[TTY] = K!Idle
           \/ pc'[TTY] = "dispatch" /\ call'[TTY] = K!Receiving(ANY)
    PROVE  IInv'
<1>1. ~Taken /\ ~Replying
  BY CallsDiffer DEF Taken, Replying
<1>2. ~(pc'[TTY] = "dispatch" /\ call'[TTY] = K!Idle) /\ ~Replying' /\ ~Resuming'
  <2>1. call'[TTY] # K!Sending(FS)
    BY CallsDiffer
  <2>2. ~Replying' /\ ~Resuming'
    BY <2>1 DEF Replying, Resuming, K!Sending
  <2> QED  BY <2>2, CallsDiffer
<1>3. Suspended => Suspended'
  <2>1. Answered' <=> Answered
    BY FsSame
  <2> QED  BY <1>1, <2>1 DEF Suspended, Same
<1>4. Readers'
  BY <1>2, <1>3, ReadersStay DEF fsVars
<1> QED  BY <1>1, <1>2, <1>4, TtyMoves

\* A step that calls nothing leaves the others where they are.
LEMMA TtyInside ==
    ASSUME Kernel, Data, UNCHANGED kernelVars, NEW place, Goto(TTY, place)
    PROVE  /\ Kernel' /\ pc'[TTY] = place /\ call'[TTY] = call[TTY]
           /\ msg'[TTY] = msg[TTY] /\ pc' = [p \in Procs |-> pc'[p]]
           /\ Same(FS) /\ \A u \in Users : Same(u)
<1>1. Kernel' /\ call' = call /\ msg' = msg
  BY Stays
<1>2. /\ pc'[TTY] = place /\ \A p \in Procs \ {TTY} : pc'[p] = pc[p]
      /\ pc' = [p \in Procs |-> pc'[p]]
  BY Apart, Goes
<1> QED  BY <1>1, <1>2, Apart DEF Same

LEMMA StepTtyRead == IInv /\ TtyRead => IInv'
<1> SUFFICES ASSUME IInv, TtyRead PROVE IInv'
  OBVIOUS
<1> DEFINE place == IF tty = console THEN "drain" ELSE "write"
<1>1. /\ pc[TTY] = "read" /\ call[TTY] = K!Idle /\ Goto(TTY, place)
      /\ UNCHANGED <<kernelVars, req, fsVars, ttyVars, kbVars>>
  BY DEF TtyRead, At
<1>2. Kernel /\ Data /\ KeysSeen
  BY InvParts
<1>3. /\ Kernel' /\ pc'[TTY] = place /\ call'[TTY] = K!Idle
      /\ pc' = [p \in Procs |-> pc'[p]] /\ Same(FS) /\ \A u \in Users : Same(u)
  BY <1>1, <1>2, TtyInside
<1>4. UNCHANGED <<tty, console, ibuf, procnr, left, trans, kb_in, key_pressed>>
  BY <1>1 DEF ttyVars, reqVars, kbVars
<1>5. Data'
  BY <1>1, <1>2, <1>3, DataStays
<1>6. TtyCalls'
  BY <1>3 DEF TtyCalls, K!Idle
<1>7. KeysSeen'
  <2>1. tty \in Nat /\ console \in Nat
    BY <1>2, Numbers DEF Data
  <2> QED  BY <1>1, <1>2, <1>3, <1>4, <2>1 DEF KeysSeen
<1>8. UNCHANGED <<req, fsVars, reqVars>>
  BY <1>1 DEF ttyVars
<1>9. pc'[TTY] \in {"read", "drain", "write"} /\ pc'[TTY] # "resumed"
  BY <1>3
<1> QED  BY <1>1, <1>3, <1>5, <1>6, <1>7, <1>8, <1>9, TtyRuns

LEMMA StepKeyboardRead == IInv /\ KeyboardRead => IInv'
<1> SUFFICES ASSUME IInv, KeyboardRead PROVE IInv'
  OBVIOUS
<1> DEFINE key == Head(kb_in)
<1>1. /\ pc[TTY] = "drain" /\ call[TTY] = K!Idle /\ kb_in # <<>> /\ kb_in' = Tail(kb_in)
      /\ UNCHANGED <<kernelVars, pc, req, fsVars, tty, reqVars, key_pressed>>
  BY DEF KeyboardRead, At
<1>2. \/ console' = (console % NTtys) + 1 /\ UNCHANGED ibuf
      \/ PutKey(key) /\ UNCHANGED console
  BY DEF KeyboardRead
<1>3. Kernel /\ Data /\ TtyCalls
  BY InvParts
<1>4. Kernel' /\ call' = call /\ msg' = msg
  BY <1>1, <1>3, Stays
<1>5. Same(FS) /\ \A u \in Users : Same(u)
  BY <1>1, <1>4 DEF Same
<1>6. Data'
  <2>1. console' \in Ttys
    <3>1. console \in 1 .. NTtys /\ NTtys \in Nat /\ NTtys >= 1
      BY <1>3, Numbers DEF Data
    <3>2. (console % NTtys) + 1 \in 1 .. NTtys
      BY <3>1
    <3> QED  BY <1>2, <3>1, <3>2, Numbers
  <2>2. key \in Keys /\ kb_in' \in Seq(Keys) /\ Len(kb_in') <= KbBytes
    <3>1. kb_in \in Seq(Keys) /\ Len(kb_in) <= KbBytes /\ KbBytes \in Nat
      BY <1>3, Numbers DEF Data
    <3> QED  BY <1>1, <3>1
  <2>3. ibuf' \in [Ttys -> Seq(Keys)] /\ \A t \in Ttys : Len(ibuf'[t]) <= InBytes
    <3>1. tty \in Ttys /\ ibuf \in [Ttys -> Seq(Keys)] /\ \A t \in Ttys : Len(ibuf[t]) <= InBytes
      BY <1>3 DEF Data
    <3>2. CASE PutKey(key)
      <4> DEFINE new == IF Len(ibuf[tty]) < InBytes THEN Append(ibuf[tty], key) ELSE ibuf[tty]
      <4>1. ibuf' = [ibuf EXCEPT ![tty] = new]
        BY <3>2 DEF PutKey
      <4>2. new \in Seq(Keys) /\ Len(new) <= InBytes
        BY <2>2, <3>1, Numbers
      <4> HIDE DEF new
      <4> QED  BY <3>1, <4>1, <4>2
    <3> QED  BY <1>2, <3>1, <3>2
  <2> QED  BY <1>1, <1>3, <2>1, <2>2, <2>3 DEF Data, fsVars, reqVars
<1>7. TtyCalls'
  BY <1>1, <1>3, <1>4 DEF TtyCalls, K!Idle, K!Sending, K!Receiving
<1>8. KeysSeen'
  BY <1>1 DEF KeysSeen
<1>9. UNCHANGED <<req, fsVars, reqVars>> /\ pc'[TTY] = "drain" /\ call'[TTY] = K!Idle
  BY <1>1, <1>4
<1> QED  BY <1>1, <1>4, <1>5, <1>6, <1>7, <1>8, <1>9, TtyRuns

LEMMA StepKeyboardReadEnd == IInv /\ KeyboardReadEnd => IInv'
<1> SUFFICES ASSUME IInv, KeyboardReadEnd PROVE IInv'
  OBVIOUS
<1>1. /\ pc[TTY] = "drain" /\ call[TTY] = K!Idle /\ kb_in = <<>> /\ Goto(TTY, "write")
      /\ UNCHANGED <<kernelVars, req, fsVars, ttyVars, kbVars>>
  BY DEF KeyboardReadEnd, At
<1>2. Kernel /\ Data
  BY InvParts
<1>3. /\ Kernel' /\ pc'[TTY] = "write" /\ call'[TTY] = K!Idle
      /\ pc' = [p \in Procs |-> pc'[p]] /\ Same(FS) /\ \A u \in Users : Same(u)
  BY <1>1, <1>2, TtyInside
<1>4. Data'
  BY <1>1, <1>2, <1>3, DataStays
<1>5. TtyCalls'
  BY <1>3 DEF TtyCalls, K!Idle
<1>6. KeysSeen'
  BY <1>1 DEF KeysSeen, kbVars
<1>7. UNCHANGED <<req, fsVars, reqVars>>
  BY <1>1 DEF ttyVars
<1> QED  BY <1>1, <1>3, <1>4, <1>5, <1>6, <1>7, TtyRuns

LEMMA StepTtyDiscard == IInv /\ TtyDiscard => IInv'
<1> SUFFICES ASSUME IInv, TtyDiscard PROVE IInv'
  OBVIOUS
<1>1. /\ pc[TTY] = "write" /\ call[TTY] = K!Idle /\ ibuf[tty] # <<>>
      /\ ibuf' = [ibuf EXCEPT ![tty] = Tail(ibuf[tty])]
      /\ UNCHANGED <<kernelVars, pc, req, fsVars, tty, console, reqVars, kbVars>>
  BY DEF TtyDiscard, At
<1>2. Kernel /\ Data /\ TtyCalls /\ KeysSeen
  BY InvParts
<1>3. Kernel' /\ call' = call /\ msg' = msg
  BY <1>1, <1>2, Stays
<1>4. Same(FS) /\ \A u \in Users : Same(u)
  BY <1>1, <1>3 DEF Same
<1>5. ibuf' \in [Ttys -> Seq(Keys)] /\ \A t \in Ttys : Len(ibuf'[t]) <= InBytes
  <2>1. tty \in Ttys /\ ibuf \in [Ttys -> Seq(Keys)] /\ \A t \in Ttys : Len(ibuf[t]) <= InBytes
    BY <1>2 DEF Data
  <2> DEFINE rest == Tail(ibuf[tty])
  <2>2. rest \in Seq(Keys) /\ Len(rest) <= InBytes /\ ibuf' = [ibuf EXCEPT ![tty] = rest]
    BY <1>1, <2>1, Numbers
  <2> HIDE DEF rest
  <2> QED  BY <2>1, <2>2
<1>6. Data'
  BY <1>1, <1>2, <1>5 DEF Data, fsVars, reqVars, kbVars
<1>7. TtyCalls'
  BY <1>1, <1>2, <1>3 DEF TtyCalls, K!Idle, K!Sending, K!Receiving
<1>8. KeysSeen'
  BY <1>1, <1>2 DEF KeysSeen, kbVars
<1>9. pc'[TTY] = "write" /\ call'[TTY] = K!Idle /\ UNCHANGED <<req, fsVars, reqVars>>
  BY <1>1, <1>3
<1> QED  BY <1>1, <1>3, <1>4, <1>6, <1>7, <1>8, <1>9, TtyRuns

\* What the reader has got and what it still gets add up as before.
LEMMA Transfers ==
    ASSUME Data, NEW key, Transfer(key), left[tty] > 0, left[tty] + trans[tty] <= MaxCnt
    PROVE  /\ left' \in [Ttys -> 0 .. MaxCnt] /\ trans' \in [Ttys -> 0 .. MaxCnt]
           /\ \A t \in Ttys \ {tty} : left'[t] = left[t] /\ trans'[t] = trans[t]
           /\ left'[tty] + trans'[tty] = left[tty] + trans[tty]
           /\ trans'[tty] <= left[tty] + trans[tty]
<1>1. /\ tty \in Ttys /\ left \in [Ttys -> 0 .. MaxCnt] /\ trans \in [Ttys -> 0 .. MaxCnt]
  BY DEF Data
<1>2. left[tty] \in Nat /\ trans[tty] \in Nat /\ MaxCnt \in Nat
  BY <1>1, Numbers
<1>3. CASE key = "char"
  <2>1. /\ trans' = [trans EXCEPT ![tty] = trans[tty] + 1]
        /\ left' = [left EXCEPT ![tty] = left[tty] - 1]
    BY <1>3 DEF Transfer
  <2>2. trans[tty] + 1 \in 0 .. MaxCnt /\ left[tty] - 1 \in 0 .. MaxCnt
    BY <1>2
  <2>3. trans'[tty] = trans[tty] + 1 /\ left'[tty] = left[tty] - 1
    BY <1>1, <2>1
  <2> QED  BY <1>1, <1>2, <2>1, <2>2, <2>3
<1>4. CASE key = "backspace" /\ trans[tty] > 0
  <2>1. /\ trans' = [trans EXCEPT ![tty] = trans[tty] - 1]
        /\ left' = [left EXCEPT ![tty] = left[tty] + 1]
    BY <1>4 DEF Transfer
  <2>2. trans[tty] - 1 \in 0 .. MaxCnt /\ left[tty] + 1 \in 0 .. MaxCnt
    BY <1>2, <1>4
  <2>3. trans'[tty] = trans[tty] - 1 /\ left'[tty] = left[tty] + 1
    BY <1>1, <2>1
  <2> QED  BY <1>1, <1>2, <2>1, <2>2, <2>3
<1>5. CASE key # "char" /\ ~(key = "backspace" /\ trans[tty] > 0)
  BY <1>1, <1>2, <1>5 DEF Transfer
<1> QED  BY <1>3, <1>4, <1>5

LEMMA StepTtyTransfer == IInv /\ TtyTransfer => IInv'
<1> SUFFICES ASSUME IInv, TtyTransfer PROVE IInv'
  OBVIOUS
<1> DEFINE key == Head(ibuf[tty])
           u == procnr[tty]
           body == Body("RESUME_PROC", u, trans'[tty])
<1>1. /\ pc[TTY] = "write" /\ call[TTY] = K!Idle /\ ibuf[tty] # <<>> /\ left[tty] > 0
      /\ ibuf' = [ibuf EXCEPT ![tty] = Tail(ibuf[tty])] /\ Transfer(key)
      /\ UNCHANGED <<req, fsVars, tty, console, procnr, kbVars>>
  BY DEF TtyTransfer, At
<1>2. Send(TTY, FS, body, "resumed") \/ UNCHANGED <<kernelVars, pc>>
  BY DEF TtyTransfer
<1>3. /\ Kernel /\ Data /\ UserCalls /\ UserMsgs /\ TtyCalls /\ Readers /\ KeysSeen
      /\ Waits <=> Taken \/ Replying
  BY InvParts
<1>4. tty \in Ttys /\ req \in [Users -> Bodies]
  BY <1>3 DEF Data
<1>5. Reads(u, tty) /\ left[tty] + trans[tty] = req[u].cnt
  BY <1>1, <1>3, <1>4 DEF Readers
<1>6. left[tty] + trans[tty] <= MaxCnt
  <2>1. req[u] \in Bodies
    BY <1>4, <1>5 DEF Reads
  <2> QED  BY <1>5, <2>1, Numbers
<1>7. /\ left' \in [Ttys -> 0 .. MaxCnt] /\ trans' \in [Ttys -> 0 .. MaxCnt]
      /\ \A t \in Ttys \ {tty} : left'[t] = left[t] /\ trans'[t] = trans[t]
      /\ left'[tty] + trans'[tty] = req[u].cnt /\ trans'[tty] <= req[u].cnt
  BY <1>1, <1>3, <1>5, <1>6, Transfers
<1>8. \/ /\ pc'[TTY] = "resumed" /\ call'[TTY] = K!Sending(FS)
         /\ msg'[TTY] = [source |-> TTY, body |-> body]
      \/ pc'[TTY] \in {"write", "panic"} /\ call'[TTY] = K!Idle
  <2>1. CASE K!StartSend(TTY, FS, body) /\ Goto(TTY, "resumed")
    BY <1>3, <2>1, Apart, Sends, Goes
  <2>2. CASE UNCHANGED kernelVars /\ Goto(TTY, "panic")
    BY <1>1, <1>3, <2>2, TtyInside
  <2>3. CASE UNCHANGED <<kernelVars, pc>>
    BY <1>1, <1>3, <2>3, Stays
  <2> QED  BY <1>2, <2>1, <2>2, <2>3 DEF Send
<1>9. Kernel' /\ Same(FS) /\ (\A v \in Users : Same(v)) /\ pc' = [p \in Procs |-> pc'[p]]
  <2>1. CASE K!StartSend(TTY, FS, body) /\ Goto(TTY, "resumed")
    <3>1. /\ \A q \in Procs \ {TTY} : call'[q] = call[q] /\ msg'[q] = msg[q]
          /\ Kernel'
      BY <1>3, <2>1, Apart, Sends
    <3>2. /\ \A q \in Procs \ {TTY} : pc'[q] = pc[q]
          /\ pc' = [p \in Procs |-> pc'[p]]
      BY <1>3, <2>1, Apart, Goes
    <3> QED  BY <3>1, <3>2, Apart DEF Same
  <2>2. CASE UNCHANGED kernelVars /\ Goto(TTY, "panic")
    BY <1>3, <2>2, TtyInside
  <2>3. CASE UNCHANGED <<kernelVars, pc>>
    BY <1>3, <2>3, Stays DEF Same, Data
  <2> QED  BY <1>2, <2>1, <2>2, <2>3 DEF Send
<1>10. ~Taken /\ ~Replying /\ ~Taken' /\ ~Replying'
  BY <1>1, <1>8 DEF Taken, Replying
<1>11. (Waits' <=> Waits) /\ (Answered' <=> Answered)
  BY <1>9, FsSame
<1>12. Suspended => Suspended'
  BY <1>9, <1>10, <1>11 DEF Suspended, Same
<1>13. Data'
  <2>1. ibuf' \in [Ttys -> Seq(Keys)] /\ \A t \in Ttys : Len(ibuf'[t]) <= InBytes
    <3>1. tty \in Ttys /\ ibuf \in [Ttys -> Seq(Keys)]
          /\ \A t \in Ttys : Len(ibuf[t]) <= InBytes
      BY <1>3 DEF Data
    <3> DEFINE rest == Tail(ibuf[tty])
    <3>2. rest \in Seq(Keys) /\ Len(rest) <= InBytes /\ ibuf' = [ibuf EXCEPT ![tty] = rest]
      BY <1>1, <3>1, Numbers
    <3> HIDE DEF rest
    <3> QED  BY <3>1, <3>2
  <2>2. UNCHANGED <<req, src, len, tty, console, procnr, kb_in, key_pressed>>
    BY <1>1 DEF fsVars, kbVars
  <2> QED  BY <1>3, <1>7, <1>9, <2>1, <2>2 DEF Data
<1>14. TtyCalls'
  BY <1>8 DEF TtyCalls, K!Idle, K!Sending
<1>15. Readers'
  <2>1. \A v, t : Reads(v, t) => Reads(v, t)'
    BY <1>1, <1>3, <1>9, <1>12, ReadsStay DEF fsVars
  <2>2. procnr' = procnr /\ tty' = tty /\ req' = req
    BY <1>1
  <2>3. \A t \in Ttys \ {tty} : left'[t] > 0 =>
            Reads(procnr[t], t)' /\ left'[t] + trans'[t] = req[procnr[t]].cnt
    <3>1. \A t \in Ttys \ {tty} : left'[t] > 0 =>
              Reads(procnr[t], t) /\ left'[t] + trans'[t] = req[procnr[t]].cnt
      BY <1>1, <1>3, <1>7 DEF Readers
    <3> QED  BY <2>1, <2>2, <3>1
  <2>4. Reads(procnr[tty], tty)'
    BY <1>5, <2>1, <2>2
  <2>5. left'[tty] + trans'[tty] = req'[procnr'[tty]].cnt
        /\ trans'[tty] <= req'[procnr'[tty]].cnt
    BY <1>7, <2>2
  <2> QED  BY <2>2, <2>3, <2>4, <2>5 DEF Readers
<1>16. TtyMsgs'
  <2>1. pc'[TTY] # "dispatch"
    BY <1>8
  <2>2. Resuming' => msg'[TTY] = [source |-> TTY,
                           body |-> Body("RESUME_PROC", procnr'[tty'], trans'[tty'])]
    BY <1>1, <1>8 DEF Resuming
  <2> QED  BY <1>10, <2>1, <2>2 DEF TtyMsgs
<1>17. KeysSeen'
  BY <1>1, <1>3, <1>8 DEF KeysSeen, kbVars
<1> HIDE DEF key, u, body
<1> QED  BY <1>1, <1>3, <1>9, <1>10, <1>11, <1>12, <1>13, <1>14, <1>15, <1>16, <1>17,
            TtyActs

LEMMA StepTtyResumed == IInv /\ TtyResumed => IInv'
<1> SUFFICES ASSUME IInv, TtyResumed PROVE IInv'
  OBVIOUS
<1>1. /\ pc[TTY] = "resumed" /\ call[TTY] = K!Idle /\ Goto(TTY, "write")
      /\ left' = [left EXCEPT ![tty] = 0]
      /\ UNCHANGED <<kernelVars, req, fsVars, tty, console, ibuf, procnr, trans, kbVars>>
  BY DEF TtyResumed, At
<1>2. Kernel /\ Data /\ UserCalls /\ UserMsgs /\ Readers /\ KeysSeen
  BY InvParts
<1>3. /\ Kernel' /\ pc'[TTY] = "write" /\ call'[TTY] = K!Idle
      /\ pc' = [p \in Procs |-> pc'[p]] /\ Same(FS) /\ \A u \in Users : Same(u)
  BY <1>1, <1>2, TtyInside
<1>4. tty \in Ttys /\ left \in [Ttys -> 0 .. MaxCnt] /\ left' \in [Ttys -> 0 .. MaxCnt]
      /\ left'[tty] = 0 /\ \A t \in Ttys \ {tty} : left'[t] = left[t]
  <2>1. tty \in Ttys /\ left \in [Ttys -> 0 .. MaxCnt]
    BY <1>2 DEF Data
  <2>2. 0 \in 0 .. MaxCnt
    BY Numbers
  <2> QED  BY <1>1, <2>1, <2>2
<1>5. Data'
  BY <1>1, <1>2, <1>3, <1>4 DEF Data, fsVars, kbVars
<1>6. TtyCalls'
  BY <1>3 DEF TtyCalls, K!Idle
<1>7. KeysSeen'
  BY <1>1, <1>2, <1>3 DEF KeysSeen, kbVars
<1>8. ~Taken /\ ~Replying /\ ~Replying' /\ ~Resuming'
  BY <1>1, <1>3 DEF Taken, Replying, Resuming
<1>9. Suspended => Suspended'
  <2>1. Answered' <=> Answered
    BY <1>3, FsSame
  <2> QED  BY <1>3, <1>8, <2>1 DEF Suspended, Same
<1>10. Readers'
  <2>1. \A v, t : Reads(v, t) => Reads(v, t)'
    BY <1>1, <1>2, <1>3, <1>9, ReadsStay DEF fsVars
  <2>2. \A t \in Ttys : left'[t] > 0 => t # tty /\ left'[t] = left[t]
    BY <1>4
  <2> QED  BY <1>1, <1>2, <1>8, <2>1, <2>2 DEF Readers
<1> QED  BY <1>1, <1>3, <1>5, <1>6, <1>7, <1>8, <1>10, TtyMoves

LEMMA StepTtyNext == IInv /\ TtyNext => IInv'
<1> SUFFICES ASSUME IInv, TtyNext PROVE IInv'
  OBVIOUS
<1>1. /\ pc[TTY] = "write" /\ call[TTY] = K!Idle
      /\ UNCHANGED <<req, fsVars, console, ibuf, reqVars, kbVars>>
  BY DEF TtyNext, At
<1>2. \/ tty < NTtys /\ tty' = tty + 1 /\ Goto(TTY, "read") /\ UNCHANGED kernelVars
      \/ /\ ~(tty < NTtys) /\ tty' = 1
         /\ K!StartReceive(TTY, ANY) /\ Goto(TTY, "dispatch")
  BY DEF TtyNext, Receive
<1>3. Kernel /\ Data /\ KeysSeen
  BY InvParts
<1>4. tty \in 1 .. NTtys /\ console \in 1 .. NTtys /\ NTtys \in Nat
  BY <1>3, Numbers DEF Data
<1>5. /\ Kernel' /\ pc' = [p \in Procs |-> pc'[p]]
      /\ Same(FS) /\ \A u \in Users : Same(u)
      /\ \/ pc'[TTY] = "read" /\ call'[TTY] = K!Idle /\ tty < NTtys /\ tty' = tty + 1
         \/ pc'[TTY] = "dispatch" /\ call'[TTY] = K!Receiving(ANY) /\ tty = NTtys /\ tty' = 1
  <2>1. CASE tty < NTtys /\ tty' = tty + 1 /\ Goto(TTY, "read") /\ UNCHANGED kernelVars
    BY <1>1, <1>3, <2>1, TtyInside
  <2>2. CASE /\ ~(tty < NTtys) /\ tty' = 1
             /\ K!StartReceive(TTY, ANY) /\ Goto(TTY, "dispatch")
    <3>1. /\ call'[TTY] = K!Receiving(ANY) /\ Kernel'
          /\ \A q \in Procs \ {TTY} : call'[q] = call[q] /\ msg'[q] = msg[q]
      BY <1>3, <2>2, Apart, Receives
    <3>2. /\ pc'[TTY] = "dispatch" /\ \A q \in Procs \ {TTY} : pc'[q] = pc[q]
          /\ pc' = [q \in Procs |-> pc'[q]]
      BY <1>3, <2>2, Apart, Goes
    <3>3. Same(FS) /\ \A u \in Users : Same(u)
      BY <3>1, <3>2, Apart DEF Same
    <3> QED  BY <1>4, <2>2, <3>1, <3>2, <3>3
  <2> QED  BY <1>2, <2>1, <2>2
<1>6. tty' \in Ttys
  BY <1>4, <1>5, Numbers
<1>7. Data'
  BY <1>1, <1>3, <1>5, <1>6 DEF Data, fsVars, reqVars, kbVars
<1>8. TtyCalls'
  BY <1>5 DEF TtyCalls, K!Idle, K!Receiving
<1>9. KeysSeen'
  <2>1. kb_in' = kb_in /\ key_pressed' = key_pressed /\ console' = console
    BY <1>1 DEF kbVars
  <2>2. kb_in # <<>> /\ ~key_pressed => tty < console
    BY <1>1, <1>3 DEF KeysSeen
  <2> QED  BY <1>4, <1>5, <2>1, <2>2 DEF KeysSeen
<1>10. UNCHANGED <<req, fsVars, reqVars>> /\ pc'[TTY] # "resumed"
  BY <1>1, <1>5
<1> QED  BY <1>1, <1>5, <1>7, <1>8, <1>9, <1>10, TtyRuns

LEMMA StepTtyHardInt == IInv /\ TtyHardInt => IInv'
<1> SUFFICES ASSUME IInv, TtyHardInt PROVE IInv'
  OBVIOUS
<1>1. /\ pc[TTY] = "dispatch" /\ call[TTY] = K!Idle /\ msg[TTY] = K!HardInt
      /\ key_pressed' = FALSE /\ Goto(TTY, "read")
      /\ UNCHANGED <<kernelVars, req, fsVars, ttyVars, kb_in>>
  BY DEF TtyHardInt, At
<1>2. Kernel /\ Data /\ TtyCalls
  BY InvParts
<1>3. /\ Kernel' /\ pc'[TTY] = "read" /\ call'[TTY] = K!Idle
      /\ pc' = [p \in Procs |-> pc'[p]] /\ Same(FS) /\ \A u \in Users : Same(u)
  BY <1>1, <1>2, TtyInside
<1>4. UNCHANGED <<tty, console, ibuf, procnr, left, trans, kb_in, src, len, req>>
  BY <1>1 DEF ttyVars, reqVars, fsVars
<1>5. Data'
  BY <1>1, <1>2, <1>3, <1>4 DEF Data
<1>6. TtyCalls'
  BY <1>3 DEF TtyCalls, K!Idle
<1>7. KeysSeen'
  <2>1. tty = 1
    BY <1>1, <1>2 DEF TtyCalls
  <2>2. tty <= console
    BY <1>2, <2>1, Numbers DEF Data
  <2> QED  BY <1>3, <1>4, <2>2 DEF KeysSeen
<1>8. msg[TTY].source # FS
  BY <1>1, Apart DEF K!HardInt
<1>9. UNCHANGED <<req, fsVars, reqVars>> /\ pc'[TTY] # "resumed" /\ pc[TTY] # "resumed"
  BY <1>1, <1>3 DEF ttyVars
<1> QED  BY <1>1, <1>3, <1>5, <1>6, <1>7, <1>8, <1>9, TtyRuns

\* What TTY dispatches that is no interrupt is what FS asks for.
LEMMA ToDrive ==
    ASSUME IInv, Dispatch
    PROVE  /\ pc[TTY] = "dispatch" /\ call[TTY] = K!Idle /\ Taken /\ Waits /\ ~Suspended
           /\ msg[TTY] = Asked /\ src \in Users /\ FsOwes(src)
           /\ call[FS] # K!Sending(TTY)
           /\ req[src].type \in {"OPEN", "READ", "WRITE"} /\ len = req[src].cnt
<1>1. /\ Places /\ TtyMsgs /\ FsMsgs
      /\ Waits <=> Taken \/ Replying
  BY InvParts DEF IInv
<1>2. pc[TTY] = "dispatch" /\ call[TTY] = K!Idle /\ msg[TTY].source # INTERRUPT
  BY DEF Dispatch, At
<1>3. msg[TTY] # K!HardInt
  BY <1>2 DEF K!HardInt
<1>4. Taken /\ msg[TTY] = Asked
  BY <1>1, <1>2, <1>3 DEF TtyMsgs
<1>5. Waits /\ ~Suspended
  BY <1>1, <1>4, NotSuspended
<1>6. pc[FS] \in {"sent", "wait"} /\ call[FS] # K!Sending(TTY)
  BY <1>5, CallsDiffer DEF Waits
<1>7. /\ src \in Users /\ req[src].type \in {"OPEN", "READ", "WRITE"}
      /\ len = req[src].cnt
  BY <1>1, <1>5, <1>6 DEF FsMsgs
<1>8. FsOwes(src)
  BY <1>5, <1>6 DEF FsOwes
<1> QED  BY <1>2, <1>4, <1>5, <1>6, <1>7, <1>8

\* TTY replies.
LEMMA TtyReplies ==
    ASSUME IInv, Dispatch, NEW type \in {"SYSCALL_RET", "SUSPEND_PROC"},
           Send(TTY, msg[TTY].source, [msg[TTY].body EXCEPT !.type = type], "read")
    PROVE  /\ Kernel' /\ pc' = [p \in Procs |-> pc'[p]]
           /\ Same(FS) /\ \A u \in Users : Same(u)
           /\ pc'[TTY] = "read" /\ call'[TTY] = K!Sending(FS)
           /\ msg'[TTY] = [source |-> TTY, body |-> Body(type, src, len)]
           /\ TtyCalls' /\ (Waits <=> Taken \/ Replying)' /\ Replying' /\ ~Resuming'
<1>1. Kernel /\ Data
  BY InvParts
<1>2. /\ pc[TTY] = "dispatch" /\ call[TTY] = K!Idle /\ Taken /\ Waits
      /\ msg[TTY] = Asked /\ call[FS] # K!Sending(TTY)
  BY ToDrive
<1>3. msg[TTY].source = FS /\ [msg[TTY].body EXCEPT !.type = type] = Body(type, src, len)
  BY <1>2 DEF Asked, Body
<1>4. K!StartSend(TTY, FS, Body(type, src, len)) /\ Goto(TTY, "read")
  BY <1>2, <1>3 DEF Send
<1>5. /\ call'[TTY] = K!Sending(FS) /\ Kernel'
      /\ msg'[TTY] = [source |-> TTY, body |-> Body(type, src, len)]
      /\ \A q \in Procs \ {TTY} : call'[q] = call[q] /\ msg'[q] = msg[q]
  BY <1>1, <1>4, Apart, Sends
<1>6. /\ pc'[TTY] = "read" /\ \A q \in Procs \ {TTY} : pc'[q] = pc[q]
      /\ pc' = [q \in Procs |-> pc'[q]]
  BY <1>1, <1>4, Apart, Goes
<1>7. Same(FS) /\ \A u \in Users : Same(u)
  BY <1>5, <1>6, Apart DEF Same
<1>8. Replying' /\ ~Resuming'
  BY <1>5, <1>6 DEF Replying, Resuming, K!Sending
<1>9. Waits' <=> Waits
  BY <1>7, FsSame
<1>10. TtyCalls'
  BY <1>5, <1>6 DEF TtyCalls, K!Sending
<1> QED  BY <1>2, <1>5, <1>6, <1>7, <1>8, <1>9, <1>10

LEMMA StepTtyOpenWrite == IInv /\ TtyOpenWrite => IInv'
<1> SUFFICES ASSUME IInv, TtyOpenWrite PROVE IInv'
  OBVIOUS
<1>1. Dispatch /\ msg[TTY].body.type # "DEV_READ"
      /\ UNCHANGED <<req, fsVars, ttyVars, kbVars>>
  BY DEF TtyOpenWrite
<1>2. /\ pc[TTY] = "dispatch" /\ call[TTY] = K!Idle /\ msg[TTY] = Asked /\ ~Suspended
  BY <1>1, ToDrive
<1>3. msg[TTY].body.type \in {"DEV_OPEN", "DEV_WRITE"}
  BY <1>1, <1>2 DEF Asked, Body, DevType
<1>4. Send(TTY, msg[TTY].source, [msg[TTY].body EXCEPT !.type = "SYSCALL_RET"], "read")
  BY <1>3 DEF TtyOpenWrite
<1>5. /\ Kernel' /\ pc' = [p \in Procs |-> pc'[p]]
      /\ Same(FS) /\ \A u \in Users : Same(u)
      /\ pc'[TTY] = "read" /\ call'[TTY] = K!Sending(FS)
      /\ msg'[TTY] = [source |-> TTY, body |-> Body("SYSCALL_RET", src, len)]
      /\ TtyCalls' /\ (Waits <=> Taken \/ Replying)' /\ Replying' /\ ~Resuming'
  BY <1>1, <1>4, TtyReplies
<1>6. Data /\ KeysSeen
  BY InvParts
<1>7. Data'
  BY <1>1, <1>5, <1>6, DataStays
<1>8. src' = src /\ len' = len /\ UNCHANGED <<req, src, reqVars>>
  BY <1>1 DEF fsVars, ttyVars
<1>9. Readers'
  BY <1>2, <1>5, <1>8, ReadersStay
<1>10. TtyMsgs'
  BY <1>5, <1>8 DEF TtyMsgs, IsAnswer
<1>11. KeysSeen'
  BY <1>1, <1>2, <1>6 DEF KeysSeen, ttyVars, kbVars
<1> QED  BY <1>1, <1>2, <1>5, <1>7, <1>9, <1>10, <1>11, TtyActs

LEMMA StepTtyDoRead == IInv /\ TtyDoRead => IInv'
<1> SUFFICES ASSUME IInv, TtyDoRead PROVE IInv'
  OBVIOUS
<1>1. /\ Dispatch /\ msg[TTY].body.type = "DEV_READ"
      /\ procnr' = [procnr EXCEPT ![TtyOf[msg[TTY].body.proc]] = msg[TTY].body.proc]
      /\ left' = [left EXCEPT ![TtyOf[msg[TTY].body.proc]] = msg[TTY].body.cnt]
      /\ trans' = [trans EXCEPT ![TtyOf[msg[TTY].body.proc]] = 0]
      /\ Send(TTY, msg[TTY].source, [msg[TTY].body EXCEPT !.type = "SUSPEND_PROC"], "read")
      /\ UNCHANGED <<req, fsVars, tty, console, ibuf, kbVars>>
  BY DEF TtyDoRead
<1>2. /\ pc[TTY] = "dispatch" /\ call[TTY] = K!Idle /\ msg[TTY] = Asked /\ ~Suspended
      /\ src \in Users /\ FsOwes(src) /\ Waits
      /\ req[src].type \in {"OPEN", "READ", "WRITE"} /\ len = req[src].cnt
  BY <1>1, ToDrive
<1>t. PICK t \in Ttys : t = TtyOf[src]
  BY <1>2, Numbers
<1>3. /\ msg[TTY].body.proc = src /\ msg[TTY].body.cnt = len
      /\ msg[TTY].body.type = DevType(req[src].type)
  BY <1>2 DEF Asked, Body
<1>4. req[src].type = "READ"
  BY <1>1, <1>3 DEF DevType
<1>5. /\ procnr' = [procnr EXCEPT ![t] = src] /\ left' = [left EXCEPT ![t] = len]
      /\ trans' = [trans EXCEPT ![t] = 0] /\ t \in Ttys
  BY <1>1, <1>t, <1>3
<1>6. /\ Kernel' /\ pc' = [p \in Procs |-> pc'[p]]
      /\ Same(FS) /\ \A u \in Users : Same(u)
      /\ pc'[TTY] = "read" /\ call'[TTY] = K!Sending(FS)
      /\ msg'[TTY] = [source |-> TTY, body |-> Body("SUSPEND_PROC", src, len)]
      /\ TtyCalls' /\ (Waits <=> Taken \/ Replying)' /\ Replying' /\ ~Resuming'
  BY <1>1, TtyReplies
<1>7. Data /\ UserCalls /\ UserMsgs /\ Owed /\ Readers /\ KeysSeen
  BY InvParts
<1>8. src' = src /\ len' = len /\ req' = req
  BY <1>1 DEF fsVars
<1>9. /\ procnr'[t] = src /\ left'[t] = len /\ trans'[t] = 0
      /\ \A s \in Ttys \ {t} : procnr'[s] = procnr[s] /\ left'[s] = left[s] /\ trans'[s] = trans[s]
      /\ procnr' \in [Ttys -> Users \cup {TTY}]
      /\ left' \in [Ttys -> 0 .. MaxCnt] /\ trans' \in [Ttys -> 0 .. MaxCnt]
  <2>1. /\ procnr \in [Ttys -> Users \cup {TTY}] /\ len \in 0 .. MaxCnt
        /\ left \in [Ttys -> 0 .. MaxCnt] /\ trans \in [Ttys -> 0 .. MaxCnt]
        /\ 0 \in 0 .. MaxCnt /\ src \in Users \cup {TTY}
    <3>1. /\ procnr \in [Ttys -> Users \cup {TTY}] /\ len \in 0 .. MaxCnt
          /\ left \in [Ttys -> 0 .. MaxCnt] /\ trans \in [Ttys -> 0 .. MaxCnt]
      BY <1>7 DEF Data
    <3>2. 0 \in 0 .. MaxCnt
      BY Numbers
    <3> QED  BY <1>2, <3>1, <3>2
  <2>2. /\ procnr' \in [Ttys -> Users \cup {TTY}] /\ procnr'[t] = src
        /\ \A s \in Ttys \ {t} : procnr'[s] = procnr[s]
    BY <1>5, <2>1
  <2>3. /\ left' \in [Ttys -> 0 .. MaxCnt] /\ left'[t] = len
        /\ \A s \in Ttys \ {t} : left'[s] = left[s]
    BY <1>5, <2>1
  <2>4. /\ trans' \in [Ttys -> 0 .. MaxCnt] /\ trans'[t] = 0
        /\ \A s \in Ttys \ {t} : trans'[s] = trans[s]
    BY <1>5, <2>1
  <2> QED  BY <2>2, <2>3, <2>4
<1>10. Data'
  BY <1>1, <1>6, <1>7, <1>9 DEF Data, fsVars, kbVars
<1>11. Suspended'
  BY <1>6 DEF Suspended, Body
<1>12. Readers'
  <2>1. \A v, s : Reads(v, s) => Reads(v, s)'
    BY <1>2, <1>6, <1>7, <1>8, ReadsStay
  <2>2. Reads(src, t)'
    <3>1. Outstanding(src) /\ Outstanding(src)'
      BY <1>2, <1>6, <1>7, <1>8, UsersStay DEF Owed
    <3>2. pc'[FS] \in {"sent", "wait"}
      BY <1>2, <1>6 DEF Waits, Same
    <3>3. ~FsOwes(src)'
      BY <1>11, <3>2 DEF FsOwes, Dispatching
    <3> QED  BY <1>2, <1>4, <1>8, <1>t, <3>1, <3>3 DEF Reads
  <2>3. Reads(procnr[t], t)' /\ left'[t] + trans'[t] = req'[procnr'[t]].cnt
    <3>1. len \in Nat
      BY <1>7, Numbers DEF Data
    <3> QED  BY <1>2, <1>8, <1>9, <2>2, <3>1
  <2>4. \A s \in Ttys \ {t} : left'[s] > 0 =>
            Reads(procnr[s], s)' /\ left'[s] + trans'[s] = req'[procnr'[s]].cnt
    BY <1>2, <1>7, <1>8, <1>9, <2>1 DEF Readers
  <2>5. \A s \in Ttys : left'[s] > 0 =>
            Reads(procnr[s], s)' /\ left'[s] + trans'[s] = req'[procnr'[s]].cnt
    BY <2>3, <2>4
  <2> QED  BY <1>6, <2>5 DEF Readers
<1>13. TtyMsgs'
  BY <1>6, <1>8 DEF TtyMsgs, IsAnswer
<1>14. KeysSeen'
  BY <1>1, <1>2, <1>7 DEF KeysSeen, kbVars
<1> QED  BY <1>1, <1>2, <1>6, <1>10, <1>11, <1>12, <1>13, <1>14, TtyActs

----------------------------------------------------------------------------
(* The kernel, the clock and the keyboard. *)

\* A step that only keys, or the clock's interrupt, see.
LEMMA NobodyMoves ==
    ASSUME IInv, UNCHANGED <<call, msg, pc, req, fsVars, ttyVars>>, Kernel', Data', KeysSeen'
    PROVE  IInv'
<1>1. /\ Data /\ TtyCalls /\ TtyMsgs /\ Readers /\ UserCalls /\ UserMsgs
      /\ Waits <=> Taken \/ Replying
  BY InvParts
<1>2. Same(FS) /\ Same(TTY) /\ \A u \in Users : Same(u)
  BY DEF Same
<1>3. /\ Waits' <=> Waits
      /\ Taken' <=> Taken
      /\ Replying' <=> Replying
      /\ Resuming' <=> Resuming
  BY <1>2, FsSame, TtySame
<1>4. Suspended => Suspended'
  BY <1>2, OwesSame DEF fsVars
<1>5. UNCHANGED <<req, src, len, tty, procnr, left, trans>>
  BY DEF fsVars, ttyVars, reqVars
<1>6. Readers'
  <2>1. \A u, t : Reads(u, t) => Reads(u, t)'
    BY <1>1, <1>2, <1>4, <1>5, ReadsStay
  <2> QED  BY <1>1, <1>3, <1>5, <2>1 DEF Readers
<1>7. TtyCalls'
  BY <1>1, <1>5 DEF TtyCalls, K!Idle, K!Sending, K!Receiving
<1>8. TtyMsgs'
  BY <1>1, <1>3, <1>5 DEF TtyMsgs, Asked, IsAnswer, K!Idle, K!HardInt
<1> QED  BY <1>1, <1>2, <1>3, <1>4, <1>6, <1>7, <1>8, TtyActs

LEMMA StepKeyPress == ASSUME NEW key \in Keys PROVE IInv /\ KeyPress(key) => IInv'
<1> SUFFICES ASSUME IInv, KeyPress(key) PROVE IInv'
  OBVIOUS
<1>1. /\ kb_in' = IF Len(kb_in) < KbBytes THEN Append(kb_in, key) ELSE kb_in
      /\ key_pressed' = TRUE
      /\ UNCHANGED <<kernelVars, pc, req, fsVars, ttyVars>>
  BY DEF KeyPress
<1>2. Kernel /\ Data
  BY InvParts
<1>3. Kernel' /\ call' = call /\ msg' = msg
  BY <1>1, <1>2, Stays
<1>4. Data'
  <2>1. kb_in' \in Seq(Keys) /\ Len(kb_in') <= KbBytes
    BY <1>1, <1>2, Numbers DEF Data
  <2> QED  BY <1>1, <1>2, <2>1 DEF Data, fsVars, ttyVars, reqVars
<1>5. KeysSeen'
  BY <1>1 DEF KeysSeen
<1> QED  BY <1>1, <1>3, <1>4, <1>5, NobodyMoves

LEMMA StepTick == IInv /\ Tick => IInv'
<1> SUFFICES ASSUME IInv, Tick PROVE IInv'
  OBVIOUS
<1>1. /\ UNCHANGED <<call, waiting, msg>>
      /\ UNCHANGED <<pc, req, fsVars, ttyVars, kbVars>>
  BY DEF Tick, K!Raise
<1>2. Kernel /\ Data /\ KeysSeen
  BY InvParts
<1>3. Kernel'
  BY <1>1, <1>2 DEF Kernel
<1>4. Data'
  BY <1>1, <1>2, DataStays DEF Data
<1>5. KeysSeen'
  BY <1>1, <1>2 DEF KeysSeen, ttyVars, kbVars
<1> QED  BY <1>1, <1>3, <1>4, <1>5, NobodyMoves

LEMMA StepDeliverInterrupt == IInv /\ DeliverInterrupt => IInv'
<1> SUFFICES ASSUME IInv, DeliverInterrupt PROVE IInv'
  OBVIOUS
<1>1. K!TakeInterrupt(TTY) /\ UNCHANGED <<pc, req, fsVars, ttyVars, kbVars>>
  BY DEF DeliverInterrupt
<1>2. /\ Kernel /\ Data /\ TtyCalls /\ KeysSeen
      /\ Waits <=> Taken \/ Replying
  BY InvParts
<1>3. /\ call[TTY] \in {K!Receiving(ANY), K!Receiving(INTERRUPT)}
      /\ call'[TTY] = K!Idle /\ msg'[TTY] = K!HardInt
      /\ \A q \in Procs \ {TTY} : call'[q] = call[q] /\ msg'[q] = msg[q]
      /\ Kernel'
  BY <1>1, <1>2, Interrupted
<1>4. pc[TTY] = "dispatch" /\ pc'[TTY] = "dispatch" /\ tty = 1 /\ tty' = 1
  BY <1>1, <1>2, <1>3, CallsDiffer DEF TtyCalls, ttyVars
<1>5. Same(FS) /\ \A u \in Users : Same(u)
  BY <1>1, <1>3, Apart DEF Same
<1>6. ~Taken /\ ~Replying /\ ~Replying' /\ ~Resuming'
  BY <1>3, <1>4, CallsDiffer DEF Taken, Replying, Resuming
<1>7. ~Taken'
  BY <1>3, Apart DEF Taken, K!HardInt
<1>8. (Waits' <=> Waits) /\ (Answered' <=> Answered)
  BY <1>5, FsSame
<1>9. Suspended => Suspended'
  BY <1>5, <1>6, <1>8 DEF Suspended, Same
<1>10. Data'
  BY <1>1, <1>2, DataStays DEF Data
<1>11. TtyCalls'
  BY <1>3, <1>4 DEF TtyCalls, K!Idle
<1>12. Readers'
  BY <1>1, <1>4, <1>5, <1>6, <1>9, ReadersStay DEF fsVars, ttyVars
<1>13. TtyMsgs'
  BY <1>3, <1>6 DEF TtyMsgs, K!HardInt
<1>14. KeysSeen'
  BY <1>1, <1>2 DEF KeysSeen, ttyVars, kbVars
<1> QED  BY <1>1, <1>2, <1>3, <1>5, <1>6, <1>7, <1>8, <1>9, <1>10, <1>11, <1>12, <1>13,
            <1>14, TtyActs

\* d takes the message that s sends to it.
Hands(s, d) ==
    /\ call[s] = K!Sending(d) /\ call[d] \in {K!Receiving(s), K!Receiving(ANY)}
    /\ call'[s] = K!Idle /\ call'[d] = K!Idle
    /\ msg'[d] = msg[s] /\ msg'[s] = msg[s]
    /\ \A q \in Procs \ {s, d} : call'[q] = call[q] /\ msg'[q] = msg[q]
    /\ UNCHANGED <<pc, req, fsVars, ttyVars, kbVars>>

\* FS takes a user's request.
LEMMA UserToFs == ASSUME NEW u \in Users PROVE IInv /\ Hands(u, FS) /\ Kernel' => IInv'
<1> SUFFICES ASSUME IInv, Hands(u, FS), Kernel' PROVE IInv'
  OBVIOUS
<1>1. /\ Data /\ UserCalls /\ FsCalls /\ TtyCalls /\ Owed /\ Readers
      /\ UserMsgs /\ FsMsgs /\ TtyMsgs /\ KeysSeen
      /\ Waits <=> Taken \/ Replying
  BY InvParts
<1>2. /\ pc'[u] = "sent" /\ pc[u] = "sent" /\ call[u] = K!Sending(FS) /\ call'[u] = K!Idle
      /\ msg[u] = [source |-> u, body |-> req[u]]
  BY <1>1, CallsDiffer DEF UserCalls, UserMsgs, Hands
<1>3. /\ pc[FS] = "dispatch" /\ pc'[FS] = "dispatch"
      /\ call[FS] = K!Receiving(ANY) /\ call'[FS] = K!Idle
      /\ msg'[FS] = [source |-> u, body |-> req[u]]
  BY <1>1, <1>2, Apart, CallsDiffer DEF FsCalls, Hands
<1>4. Same(TTY) /\ \A v \in Users \ {u} : Same(v)
  BY Apart DEF Hands, Same
<1>5. UNCHANGED <<req, src, len, tty, console, ibuf, procnr, left, trans, kb_in, key_pressed>>
  BY DEF Hands, fsVars, ttyVars, reqVars, kbVars
<1>6. Data'
  BY <1>1, DataStays DEF Hands, Data
<1>7. ~Outstanding(u) /\ Outstanding(u)'
      /\ \A v \in Users \ {u} : Outstanding(v)' <=> Outstanding(v)
  BY <1>2, <1>4, UserSame, CallsDiffer DEF Outstanding, K!Idle
<1>8. ~Waits /\ ~Waits' /\ ~Answered' /\ Dispatching'
  BY <1>3 DEF Waits, Answered, Dispatching, K!Idle
<1>9. (Taken' <=> Taken) /\ (Replying' <=> Replying) /\ (Resuming' <=> Resuming)
  BY <1>4, TtySame
<1>10. \A v \in Users : FsOwes(v)' <=> v = u
  BY <1>3, <1>8, Apart DEF FsOwes
<1>11. \A v, t : Reads(v, t) => Reads(v, t)'
  BY <1>5, <1>7, <1>10 DEF Reads
<1>12. UserCalls'
  BY <1>1, <1>2, <1>4 DEF UserCalls, Same, K!Idle, K!Sending, K!Receiving
<1>13. FsCalls' /\ TtyCalls'
  BY <1>1, <1>3, <1>4, <1>5 DEF FsCalls, TtyCalls, Same, K!Idle, K!Sending, K!Receiving
<1>14. Owed'
  BY <1>7, <1>10 DEF Owed
<1>15. Readers'
  BY <1>1, <1>4, <1>5, <1>9, <1>11 DEF Readers, Same
<1>16. UserMsgs'
  <2>1. call'[u] # K!Sending(FS)
    BY <1>2, CallsDiffer
  <2> QED  BY <1>1, <1>2, <1>4, <1>5, <2>1 DEF UserMsgs, Same, K!Sending
<1>17. FsMsgs'
  <2>1. call'[FS] # K!Sending(TTY)
    BY <1>3, CallsDiffer
  <2> QED  BY <1>3, <1>5, <1>8, <2>1 DEF FsMsgs, K!Sending
<1>18. TtyMsgs'
  BY <1>1, <1>4, <1>5, <1>8, <1>9 DEF TtyMsgs, Same, K!Idle, K!HardInt
<1>19. KeysSeen'
  BY <1>1, <1>4, <1>5 DEF KeysSeen, Same
<1> QED  BY <1>1, <1>6, <1>8, <1>9, <1>12, <1>13, <1>14, <1>15, <1>16, <1>17, <1>18, <1>19
         DEF IInv, Places, Messages

\* FS takes the driver's reply, or its message to resume a reader.
LEMMA TtyToFs == IInv /\ Hands(TTY, FS) /\ Kernel' => IInv'
<1> SUFFICES ASSUME IInv, Hands(TTY, FS), Kernel' PROVE IInv'
  OBVIOUS
<1>1. /\ Data /\ UserCalls /\ FsCalls /\ TtyCalls /\ Owed /\ Readers
      /\ UserMsgs /\ FsMsgs /\ TtyMsgs /\ KeysSeen
      /\ Waits <=> Taken \/ Replying
  BY InvParts
<1>2. /\ call[TTY] = K!Sending(FS) /\ call'[TTY] = K!Idle /\ call'[FS] = K!Idle
      /\ call[FS] \in {K!Receiving(TTY), K!Receiving(ANY)} /\ msg'[FS] = msg[TTY]
      /\ pc' = pc
  BY DEF Hands
<1>3. \A u \in Users : Same(u)
  BY Apart DEF Hands, Same
<1>4. UNCHANGED <<req, src, len, tty, console, ibuf, procnr, left, trans, kb_in, key_pressed>>
  BY DEF Hands, fsVars, ttyVars, reqVars, kbVars
<1>5. Data' /\ KeysSeen'
  BY <1>1, <1>2, <1>4, DataStays DEF Hands, Data, KeysSeen
<1>6. UserCalls' /\ UserMsgs' /\ \A u \in Users : Outstanding(u)' <=> Outstanding(u)
  BY <1>1, <1>3, <1>4, UsersStay
<1>7. pc[TTY] \in {"read", "resumed"} /\ ~Taken /\ ~Taken' /\ ~Replying' /\ ~Resuming'
  BY <1>1, <1>2, CallsDiffer DEF TtyCalls, Taken, Replying, Resuming, K!Idle, K!Sending
<1>8. FsCalls' /\ TtyCalls'
  BY <1>1, <1>2, <1>4, <1>7, Apart, CallsDiffer DEF FsCalls, TtyCalls, K!Idle, K!Receiving
<1>9. ~Waits'
  BY <1>1, <1>2, <1>7, CallsDiffer DEF FsCalls, Waits, K!Idle, K!Receiving
<1>10. TtyMsgs'
  BY <1>2, <1>7 DEF TtyMsgs
<1>11. call'[FS] # K!Sending(TTY) /\ call'[FS] = K!Idle
  BY <1>2, CallsDiffer
<1>12. CASE pc[TTY] = "read"
  <2>1. Replying /\ IsAnswer(msg[TTY]) /\ Waits
    BY <1>1, <1>2, <1>12 DEF TtyMsgs, Replying
  <2>2. pc[FS] = "wait" /\ Answered' /\ ~Answered /\ ~Dispatching /\ ~Dispatching'
    BY <1>1, <1>2, <2>1, CallsDiffer DEF Waits, Answered, Dispatching, K!Idle
  <2>3. Suspended' <=> Suspended
    BY <1>2, <1>7, <2>1, <2>2 DEF Suspended
  <2>4. \A u \in Users : FsOwes(u)' <=> FsOwes(u)
    BY <1>2, <1>4, <2>2, <2>3 DEF FsOwes
  <2>5. Owed'
    BY <1>1, <1>6, <2>4 DEF Owed
  <2>6. \A u, t : Reads(u, t) => Reads(u, t)'
    BY <1>4, <1>6, <2>4 DEF Reads
  <2>7. Readers'
    BY <1>1, <1>2, <1>4, <1>7, <2>6 DEF Readers
  <2>8. IsAnswer(msg[FS])'
    BY <1>2, <1>4, <2>1 DEF IsAnswer
  <2>9. FsMsgs'
    BY <1>1, <1>2, <1>4, <1>11, <2>2, <2>3, <2>8 DEF FsMsgs, K!Sending
  <2> QED  BY <1>5, <1>6, <1>7, <1>8, <1>9, <1>10, <2>5, <2>7, <2>9
           DEF IInv, Places, Messages
<1>13. CASE pc[TTY] = "resumed"
  <2> DEFINE r == procnr[tty]
  <2>1. /\ Resuming /\ Reads(r, tty) /\ trans[tty] <= req[r].cnt
        /\ msg[TTY] = [source |-> TTY, body |-> Body("RESUME_PROC", r, trans[tty])]
    BY <1>1, <1>2, <1>13 DEF TtyMsgs, Readers, Resuming
  <2>2. r \in Users /\ TtyOf[r] = tty /\ Outstanding(r)
    BY <2>1 DEF Reads
  <2>3. ~Replying /\ ~Waits
    BY <1>1, <1>7, <1>13 DEF Replying
  <2>4. pc[FS] = "dispatch" /\ ~Answered' /\ Dispatching'
    BY <1>1, <1>2, <2>3, CallsDiffer DEF FsCalls, Waits, Answered, Dispatching, K!Idle
  <2>5. msg'[FS] = [source |-> TTY, body |-> Body("RESUME_PROC", r, trans[tty])]
    BY <1>2, <2>1
  <2>6. msg'[FS].source = TTY /\ msg'[FS].body.proc = r
        /\ msg'[FS].body.type = "RESUME_PROC" /\ msg'[FS].body.cnt = trans[tty]
    BY <2>5 DEF Body
  <2>7. \A u \in Users : FsOwes(u)' <=> u = r
    BY <1>2, <2>4, <2>6, Apart DEF FsOwes
  <2>8. Owed'
    BY <1>6, <2>2, <2>7 DEF Owed
  <2>9. \A u, t : Reads(u, t) /\ t # tty => Reads(u, t)'
    BY <1>4, <1>6, <2>2, <2>7 DEF Reads
  <2>10. Readers'
    BY <1>1, <1>2, <1>4, <1>7, <1>13, <2>9 DEF Readers
  <2>11. FsMsgs'
    BY <1>2, <1>4, <1>11, <2>1, <2>2, <2>4, <2>6 DEF FsMsgs, K!Sending
  <2> QED  BY <1>5, <1>6, <1>7, <1>8, <1>9, <1>10, <2>8, <2>10, <2>11
           DEF IInv, Places, Messages
<1> QED  BY <1>7, <1>12, <1>13

\* TTY takes what FS asks for.
LEMMA FsToTty == IInv /\ Hands(FS, TTY) /\ Kernel' => IInv'
<1> SUFFICES ASSUME IInv, Hands(FS, TTY), Kernel' PROVE IInv'
  OBVIOUS
<1>1. /\ Data /\ UserCalls /\ FsCalls /\ TtyCalls /\ Owed /\ Readers
      /\ UserMsgs /\ FsMsgs /\ TtyMsgs /\ KeysSeen /\ Places
      /\ Waits <=> Taken \/ Replying
  BY InvParts DEF IInv
<1>2. /\ call[FS] = K!Sending(TTY) /\ call'[TTY] = K!Idle /\ call'[FS] = K!Idle
      /\ call[TTY] \in {K!Receiving(FS), K!Receiving(ANY)} /\ msg'[TTY] = msg[FS]
      /\ msg'[FS] = msg[FS] /\ pc' = pc
  BY DEF Hands
<1>3. \A u \in Users : Same(u)
  BY Apart DEF Hands, Same
<1>4. UNCHANGED <<req, src, len, tty, console, ibuf, procnr, left, trans, kb_in, key_pressed>>
  BY DEF Hands, fsVars, ttyVars, reqVars, kbVars
<1>5. Data' /\ KeysSeen'
  BY <1>1, <1>2, <1>4, DataStays DEF Hands, Data, KeysSeen
<1>6. UserCalls' /\ UserMsgs' /\ \A u \in Users : Outstanding(u)' <=> Outstanding(u)
  BY <1>1, <1>3, <1>4, UsersStay
<1>7. pc[FS] = "sent" /\ ~Suspended
  <2>1. src # TTY
    BY <1>1, Apart DEF Data
  <2>2. pc[FS] = "sent" /\ call[FS] # K!Idle
    BY <1>1, <1>2, <2>1, CallsDiffer DEF FsCalls
  <2> QED  BY <1>1, <2>2, NotSuspended
<1>8. pc[TTY] = "dispatch"
  BY <1>1, <1>2, CallsDiffer DEF TtyCalls
<1>9. ~Replying' /\ ~Resuming' /\ ~Answered' /\ ~Suspended' /\ Waits'
      /\ ~Dispatching /\ ~Dispatching'
  BY <1>2, <1>7, <1>8 DEF Replying, Resuming, Answered, Suspended, Dispatching, Waits, K!Idle
<1>10. msg'[TTY] = Asked' /\ Taken'
  BY <1>1, <1>2, <1>4, <1>8 DEF FsMsgs, Asked, Taken, K!Idle
<1>11. FsCalls' /\ TtyCalls'
  BY <1>1, <1>2, <1>4, <1>7, <1>8 DEF FsCalls, TtyCalls, K!Idle
<1>12. \A u \in Users : FsOwes(u)' <=> FsOwes(u)
  BY <1>2, <1>4, <1>7, <1>9 DEF FsOwes
<1>13. Owed'
  BY <1>1, <1>6, <1>12 DEF Owed
<1>14. \A u, t : Reads(u, t) => Reads(u, t)'
  BY <1>4, <1>6, <1>12 DEF Reads
<1>15. Readers'
  BY <1>1, <1>2, <1>4, <1>8, <1>9, <1>14 DEF Readers
<1>16. call'[FS] # K!Sending(TTY)
  BY <1>2, CallsDiffer
<1>17. FsMsgs'
  BY <1>1, <1>2, <1>4, <1>7, <1>9, <1>16 DEF FsMsgs, K!Sending
<1>18. TtyMsgs'
  BY <1>9, <1>10 DEF TtyMsgs
<1> QED  BY <1>5, <1>6, <1>9, <1>10, <1>11, <1>13, <1>15, <1>17, <1>18
         DEF IInv, Places, Messages

\* A user takes its answer.
LEMMA FsToUser == ASSUME NEW u \in Users PROVE IInv /\ Hands(FS, u) /\ Kernel' => IInv'
<1> SUFFICES ASSUME IInv, Hands(FS, u), Kernel' PROVE IInv'
  OBVIOUS
<1>1. /\ Data /\ UserCalls /\ FsCalls /\ TtyCalls /\ Owed /\ Readers
      /\ UserMsgs /\ FsMsgs /\ TtyMsgs /\ KeysSeen
      /\ Waits <=> Taken \/ Replying
  BY InvParts
<1>2. /\ call[FS] = K!Sending(u) /\ call'[u] = K!Idle /\ call'[FS] = K!Idle
      /\ call[u] \in {K!Receiving(FS), K!Receiving(ANY)} /\ pc' = pc
  BY DEF Hands
<1>3. pc[u] = "wait"
  BY <1>1, <1>2, Apart, CallsDiffer DEF UserCalls
<1>4. pc[FS] = "main" /\ FsOwes(u)
  BY <1>1, <1>2, Apart, CallsDiffer DEF FsCalls, FsOwes
<1>5. Same(TTY) /\ \A v \in Users \ {u} : Same(v)
  BY Apart DEF Hands, Same
<1>6. UNCHANGED <<req, src, len, tty, console, ibuf, procnr, left, trans, kb_in, key_pressed>>
  BY DEF Hands, fsVars, ttyVars, reqVars, kbVars
<1>7. Data' /\ KeysSeen'
  BY <1>1, <1>2, <1>6, DataStays DEF Hands, Data, KeysSeen
<1>8. \A v \in Users \ {u} : Outstanding(v)' <=> Outstanding(v)
  BY <1>5, UserSame
<1>9. ~Waits /\ ~Waits' /\ ~Answered' /\ ~Dispatching'
  BY <1>2, <1>4 DEF Waits, Answered, Dispatching
<1>10. (Taken' <=> Taken) /\ (Replying' <=> Replying) /\ (Resuming' <=> Resuming)
  BY <1>5, TtySame
<1>11. \A v \in Users : ~FsOwes(v)'
  BY <1>2, <1>4, <1>9, CallsDiffer DEF FsOwes, K!Sending
<1>12. \A v, t : Reads(v, t) => Reads(v, t)'
  BY <1>4, <1>6, <1>8, <1>11 DEF Reads
<1>13. UserCalls'
  BY <1>1, <1>2, <1>3, <1>5 DEF UserCalls, Same, K!Idle, K!Sending, K!Receiving
<1>14. FsCalls' /\ TtyCalls'
  BY <1>1, <1>2, <1>4, <1>5, <1>6 DEF FsCalls, TtyCalls, Same, K!Idle, K!Sending, K!Receiving
<1>15. Owed'
  BY <1>11 DEF Owed
<1>16. Readers'
  BY <1>1, <1>5, <1>6, <1>10, <1>12 DEF Readers, Same
<1>17. UserMsgs'
  <2>1. call'[u] # K!Sending(FS)
    BY <1>2, CallsDiffer
  <2> QED  BY <1>1, <1>2, <1>5, <1>6, <2>1 DEF UserMsgs, Same, K!Sending
<1>18. FsMsgs'
  <2>1. call'[FS] # K!Sending(TTY)
    BY <1>2, CallsDiffer
  <2> QED  BY <1>2, <1>4, <1>9, <2>1 DEF FsMsgs, K!Idle, K!Sending
<1>19. TtyMsgs'
  BY <1>1, <1>5, <1>6, <1>9, <1>10 DEF TtyMsgs, Same, K!Idle, K!HardInt
<1> QED  BY <1>1, <1>7, <1>9, <1>10, <1>13, <1>14, <1>15, <1>16, <1>17, <1>18, <1>19
         DEF IInv, Places, Messages

LEMMA StepDeliver == ASSUME NEW p \in Procs PROVE IInv /\ Deliver(p) => IInv'
<1> SUFFICES ASSUME IInv, Deliver(p) PROVE IInv'
  OBVIOUS
<1>1. PICK i \in DOMAIN waiting[p] : K!HandOver(p, i)
  BY DEF Deliver
<1>2. UNCHANGED <<pc, req, fsVars, ttyVars, kbVars>>
  BY DEF Deliver
<1>3. Data /\ Kernel /\ UserCalls /\ FsCalls /\ TtyCalls
  BY InvParts
<1>4. PICK s \in Procs \ {p} : Hands(s, p) /\ Kernel'
  BY <1>1, <1>2, <1>3, HandsOver DEF Hands
<1>5. call[s] = K!Sending(p)
  BY <1>4 DEF Hands
<1>6. \A u \in Users : call[u] = K!Sending(p) => p = FS
  BY <1>3, CallsDiffer DEF UserCalls
<1>7. call[TTY] = K!Sending(p) => p = FS
  BY <1>3, CallsDiffer DEF TtyCalls
<1>8. CASE p = FS
  BY <1>4, <1>8, Apart, UserToFs, TtyToFs
<1>9. CASE p = TTY
  BY <1>4, <1>5, <1>6, <1>7, <1>9, Apart, FsToTty
<1>10. CASE p \in Users
  BY <1>4, <1>5, <1>6, <1>7, <1>10, Apart, FsToUser
<1> QED  BY <1>8, <1>9, <1>10, Apart

----------------------------------------------------------------------------
(* The theorems *)

LEMMA InitInv == Init => IInv
<1> SUFFICES ASSUME Init PROVE IInv
  OBVIOUS
<1>1. /\ call = [p \in Procs |-> K!Idle] /\ waiting = [p \in Procs |-> <<>>]
      /\ msg = [p \in Procs |-> [source |-> p, body |-> Blank]]
  BY DEF Init, K!Init
<1>2. /\ pc = [p \in Procs |-> CASE p = FS -> "main" [] p = TTY -> "read" [] OTHER -> "idle"]
      /\ req = [u \in Users |-> Body("OPEN", u, 0)] /\ src = FS /\ len = 0
      /\ tty = 1 /\ console = 1 /\ ibuf = [t \in Ttys |-> <<>>]
      /\ procnr = [t \in Ttys |-> TTY] /\ left = [t \in Ttys |-> 0]
      /\ trans = [t \in Ttys |-> 0] /\ kb_in = <<>> /\ key_pressed = FALSE
  BY DEF Init
<1>3. /\ pc[FS] = "main" /\ pc[TTY] = "read" /\ \A u \in Users : pc[u] = "idle"
      /\ \A p \in Procs : call[p] = K!Idle
  BY <1>1, <1>2, Apart
<1>4. ~Waits /\ ~Taken /\ ~Replying /\ ~Resuming /\ ~Dispatching /\ ~Answered
  BY <1>3, Apart, CallsDiffer DEF Waits, Taken, Replying, Resuming, Dispatching, Answered
<1>5. Kernel
  BY <1>1 DEF Kernel
<1>6. Data
  <2>1. req \in [Users -> Bodies]
    BY <1>2, Numbers DEF Body, Bodies
  <2>2. tty \in Ttys /\ console \in Ttys /\ len \in 0 .. MaxCnt
    BY <1>2, Numbers
  <2>3. left \in [Ttys -> 0 .. MaxCnt] /\ trans \in [Ttys -> 0 .. MaxCnt]
    BY <1>2, Numbers
  <2>4. ibuf \in [Ttys -> Seq(Keys)] /\ \A t \in Ttys : Len(ibuf[t]) <= InBytes
    BY <1>2, Numbers
  <2>5. kb_in \in Seq(Keys) /\ Len(kb_in) <= KbBytes
    BY <1>2, Numbers
  <2>6. pc = [p \in Procs |-> pc[p]]
    BY <1>2
  <2>7. /\ procnr \in [Ttys -> Users \cup {TTY}] /\ src \in Users \cup {FS}
        /\ key_pressed \in BOOLEAN
    BY <1>2
  <2> QED  BY <2>1, <2>2, <2>3, <2>4, <2>5, <2>6, <2>7 DEF Data
<1>7. Places
  BY <1>3, <1>4, Apart DEF Places, UserCalls, FsCalls, TtyCalls
<1>8. Owed
  BY <1>3, <1>4, Apart, CallsDiffer DEF Owed, FsOwes
<1>9. Readers
  BY <1>2, <1>4 DEF Readers
<1>10. Messages
  <2>1. UserMsgs
    BY <1>3, Apart, CallsDiffer DEF UserMsgs
  <2>2. FsMsgs
    BY <1>3, <1>4, Apart, CallsDiffer DEF FsMsgs
  <2>3. TtyMsgs
    BY <1>3, <1>4 DEF TtyMsgs
  <2> QED  BY <2>1, <2>2, <2>3 DEF Messages
<1>11. KeysSeen
  BY <1>2 DEF KeysSeen
<1> QED  BY <1>5, <1>6, <1>7, <1>8, <1>9, <1>10, <1>11 DEF IInv

LEMMA NextInv == IInv /\ [Next]_vars => IInv'
<1> SUFFICES ASSUME IInv, [Next]_vars PROVE IInv'
  OBVIOUS
<1>1. CASE UNCHANGED vars
  <2>1. /\ UNCHANGED <<kernelVars, call, waiting, msg, pc, req, fsVars, ttyVars, kbVars>>
    BY <1>1 DEF vars, kernelVars
  <2>2. Kernel /\ Data /\ KeysSeen
    BY InvParts
  <2>3. Kernel'
    BY <2>1, <2>2, Stays
  <2>4. Data'
    BY <2>1, <2>2, DataStays DEF Data
  <2>5. KeysSeen'
    BY <2>1, <2>2 DEF KeysSeen, ttyVars, kbVars
  <2> QED  BY <2>1, <2>3, <2>4, <2>5, NobodyMoves
<1>2. CASE UserStep
  BY <1>2, StepUserAwait, StepUserDone DEF UserStep
<1>3. CASE FsStep
  BY <1>3, StepFsMain, StepFsAnswer, StepFsTty, StepFsTtyAwait, StepFsTtyDone,
     StepFsReply DEF FsStep
<1>4. CASE TtyStep
  BY <1>4, StepTtyRead, StepKeyboardRead, StepKeyboardReadEnd, StepTtyDiscard,
     StepTtyTransfer, StepTtyResumed, StepTtyNext, StepTtyHardInt, StepTtyOpenWrite,
     StepTtyDoRead DEF TtyStep
<1>5. CASE KernelStep
  BY <1>5, StepDeliverInterrupt, StepTick, StepDeliver DEF KernelStep
<1>6. CASE \E u \in Users : UserCall(u)
  BY <1>6, StepUserCall
<1>7. CASE \E key \in Keys : KeyPress(key)
  BY <1>7, StepKeyPress
<1> QED  BY <1>1, <1>2, <1>3, <1>4, <1>5, <1>6, <1>7 DEF Next

LEMMA Invariance == Spec => []IInv
BY InitInv, NextInv, PTL DEF Spec

\* The variables of the tasks stay within their types: no buffer takes a key
\* too many, and no read's counters go below zero or above what was asked for
\* (keyboard_handler, put_key, tty_dev_write).
THEOREM TypeCorrect == Spec => []TypeOK
<1>1. IInv => TypeOK
  <2> SUFFICES ASSUME IInv PROVE TypeOK
    OBVIOUS
  <2>1. Data /\ UserCalls /\ FsCalls /\ TtyCalls
    BY InvParts
  <2> QED  BY <2>1 DEF TypeOK, Data, UserCalls, FsCalls, TtyCalls
<1> QED  BY Invariance, <1>1, PTL

\* The reader that a terminal owes characters is blocked in a read of that
\* terminal, and gets no more than it asked for, for any users on any terminals
\* (tty_do_read, tty_dev_write, and task_fs which does not answer it).
THEOREM ReadersBlocked == Spec => []ReaderWaits
<1>1. IInv => ReaderWaits
  <2> SUFFICES ASSUME IInv, NEW t \in Ttys, left[t] > 0 /\ pc[TTY] # "resumed"
               PROVE  LET u == procnr[t]
                      IN /\ TtyOf[u] = t /\ req[u].type = "READ"
                         /\ \/ pc[u] = "sent" /\ call[u] = K!Idle
                            \/ pc[u] = "wait" /\ call[u] = K!Receiving(FS)
                         /\ left[t] + trans[t] = req[u].cnt
    BY DEF ReaderWaits
  <2>1. Reads(procnr[t], t) /\ left[t] + trans[t] = req[procnr[t]].cnt
    BY InvParts DEF Readers
  <2> QED  BY <2>1 DEF Reads, Outstanding
<1> QED  BY Invariance, <1>1, PTL

\* TASK_FS answers only who waits for an answer, and a read with no more than
\* it asked for: a suspended read is answered when TASK_TTY resumes it, and
\* not before (do_rdwt, task_fs's RESUME_PROC).
THEOREM AnswersWanted == Spec => []RepliesWanted
<1>1. IInv => RepliesWanted
  <2> SUFFICES ASSUME IInv, NEW u \in Users, call[FS] = K!Sending(u)
               PROVE  /\ pc[u] \in {"sent", "wait"} /\ call[u] # K!Sending(FS)
                      /\ req[u].type = "READ" => msg[FS].body.cnt <= req[u].cnt
    BY DEF RepliesWanted
  <2>1. FsCalls /\ Owed /\ FsMsgs
    BY InvParts
  <2>2. pc[FS] = "main" /\ src = u /\ call[FS] # K!Idle
    BY <2>1, Apart, CallsDiffer DEF FsCalls
  <2>3. Outstanding(u)
    BY <2>1, <2>2 DEF Owed, FsOwes
  <2> QED  BY <2>1, <2>2, <2>3, CallsDiffer DEF Outstanding, FsMsgs
<1> QED  BY Invariance, <1>1, PTL

\* TASK_TTY does not sleep over a key that neither the flag nor an interrupt
\* tells it of (task_tty, keyboard_handler, clock_handler).
THEOREM KeysWake == Spec => []NoKeySlept
<1>1. IInv => NoKeySlept
  <2> SUFFICES ASSUME IInv, call[TTY] = K!Receiving(ANY), kb_in # <<>>
               PROVE  key_pressed \/ TTY \in pending
    BY DEF NoKeySlept
  <2>1. TtyCalls /\ KeysSeen
    BY InvParts
  <2>2. pc[TTY] = "dispatch"
    BY <2>1, CallsDiffer DEF TtyCalls
  <2> QED  BY <2>1, <2>2 DEF KeysSeen
<1> QED  BY Invariance, <1>1, PTL

----------------------------------------------------------------------------
(* No panic, where nobody else uses a terminal while somebody reads one.   *)

\* Only one process reads, and the calls of the others do not come to TTY
\* (CLOSE stands for every call that TASK_FS answers alone).
ReaderAlone ==
    \A u, v \in Users : u # v /\ "READ" \in Calls[u] => Calls[v] \subseteq {"CLOSE"}

\* When TTY has a read in its hands, FS has no request for TTY in its own.
LEMMA OneAtATime ==
    ASSUME ReaderAlone, IInv, NEW u \in Users, NEW v \in Users, NEW t,
           Reads(u, t), FsOwes(v), req[v].type \in {"OPEN", "READ", "WRITE"}
    PROVE  FALSE
<1>1. Owed /\ UserMsgs
  BY InvParts
<1>2. u # v
  BY DEF Reads
<1>3. Outstanding(u) /\ Outstanding(v)
  BY <1>1 DEF Owed, Reads
<1>4. req[u].type \in Calls[u] /\ req[v].type \in Calls[v]
  BY <1>1, <1>3 DEF UserMsgs, Outstanding
<1>5. "READ" \in Calls[u] /\ Calls[v] \subseteq {"CLOSE"}
  BY <1>2, <1>4 DEF Reads, ReaderAlone
<1> QED  BY <1>4, <1>5

LEMMA Calm ==
    ASSUME Data, NoPanic, NEW p \in Procs, NEW place, place \notin {"panic", "assert"},
           Goto(p, place)
    PROVE  NoPanic'
BY Goes DEF NoPanic, Running

LEMMA StepPanicFs == ReaderAlone /\ IInv /\ NoPanic /\ FsStep => NoPanic'
<1> SUFFICES ASSUME ReaderAlone, IInv, NoPanic, FsStep PROVE NoPanic'
  OBVIOUS
<1>1. /\ Data /\ FsMsgs /\ TtyMsgs /\ TtyCalls /\ Owed /\ Readers
      /\ Waits <=> Taken \/ Replying
  BY InvParts
<1>2. CASE FsMain
  BY <1>1, <1>2, Calm, Apart DEF FsMain, Receive
<1>3. CASE FsAnswer
  BY <1>1, <1>3, Calm, Apart DEF FsAnswer
<1>4. CASE FsTtyAwait
  BY <1>1, <1>4, Calm, Apart DEF FsTtyAwait, ReceiveReply
<1>5. CASE FsTtyDone
  <2>1. Answered
    BY <1>5 DEF FsTtyDone, At, Answered
  <2>2. msg[FS].body.cnt = len
    BY <1>1, <2>1 DEF FsMsgs, IsAnswer, Body
  <2>3. Goto(FS, IF msg[FS].body.type = "SUSPEND_PROC" THEN "main" ELSE "reply")
    BY <1>5, <2>2 DEF FsTtyDone, fs_msg
  <2> QED  BY <1>1, <2>3, Calm, Apart
<1>6. CASE FsReply
  <2>1. pc[FS] = "reply" /\ Send(FS, src, Body("SYSCALL_RET", src, fs_msg.body.cnt), "main")
    BY <1>6 DEF FsReply, At
  <2>2. src \in Users /\ FsOwes(src)
    BY <1>1, <2>1 DEF FsMsgs, FsOwes
  <2>3. call[src] # K!Sending(FS)
    BY <1>1, <2>2, CallsDiffer DEF Owed, Outstanding
  <2>4. Goto(FS, "main")
    BY <2>1, <2>3 DEF Send
  <2> QED  BY <1>1, <2>4, Calm, Apart
<1>7. CASE FsTty
  <2>1. /\ pc[FS] = "dispatch" /\ call[FS] = K!Idle
        /\ msg[FS].body.type \in {"OPEN", "READ", "WRITE"}
    BY <1>7 DEF FsTty, FsTypes, At, fs_msg
  <2>2. /\ msg[FS].source \in Users /\ FsOwes(msg[FS].source)
        /\ req[msg[FS].source].type \in {"OPEN", "READ", "WRITE"}
    BY <2>1, ToDispatch DEF Dispatching
  <2>3. call[TTY] # K!Sending(FS)
    <3> SUFFICES ASSUME call[TTY] = K!Sending(FS) PROVE FALSE
      OBVIOUS
    <3>1. ~Replying
      BY <1>1, <2>1 DEF Waits
    <3>2. Resuming
      BY <1>1, <3>1, CallsDiffer DEF TtyCalls, Replying, Resuming
    <3>3. Reads(procnr[tty], tty)
      BY <1>1, <3>2 DEF Readers
    <3> QED  BY <2>2, <3>3, OneAtATime DEF Reads
  <2>4. Goto(FS, "sent")
    BY <1>7, <2>3 DEF FsTty, Send
  <2> QED  BY <1>1, <2>4, Calm, Apart
<1> QED  BY <1>2, <1>3, <1>4, <1>5, <1>6, <1>7 DEF FsStep

LEMMA StepPanicTty == ReaderAlone /\ IInv /\ NoPanic /\ TtyStep => NoPanic'
<1> SUFFICES ASSUME ReaderAlone, IInv, NoPanic, TtyStep PROVE NoPanic'
  OBVIOUS
<1>1. Data /\ FsCalls /\ FsMsgs /\ Readers /\ Places
  BY InvParts DEF IInv
<1>2. CASE TtyRead
  BY <1>1, <1>2, Calm, Apart DEF TtyRead
<1>3. CASE KeyboardRead \/ TtyDiscard
  BY <1>3 DEF KeyboardRead, TtyDiscard, NoPanic, Running
<1>4. CASE KeyboardReadEnd
  BY <1>1, <1>4, Calm, Apart DEF KeyboardReadEnd
<1>5. CASE TtyResumed
  BY <1>1, <1>5, Calm, Apart DEF TtyResumed
<1>6. CASE TtyNext
  <2>1. Goto(TTY, "read") \/ Goto(TTY, "dispatch")
    BY <1>6 DEF TtyNext, Receive
  <2> QED  BY <1>1, <2>1, Calm, Apart
<1>7. CASE TtyHardInt
  BY <1>1, <1>7, Calm, Apart DEF TtyHardInt
<1>8. CASE TtyOpenWrite \/ TtyDoRead
  <2>1. Dispatch
    BY <1>8 DEF TtyOpenWrite, TtyDoRead
  <2>2. msg[TTY].source = FS /\ call[FS] # K!Sending(TTY)
    BY <2>1, ToDrive DEF Asked
  <2>3. Goto(TTY, "read")
    BY <1>8, <2>2 DEF TtyOpenWrite, TtyDoRead, Send
  <2> QED  BY <1>1, <2>3, Calm, Apart
<1>9. CASE TtyTransfer
  <2>1. pc[TTY] = "write" /\ left[tty] > 0
    BY <1>9 DEF TtyTransfer, At
  <2>2. Reads(procnr[tty], tty)
    BY <1>1, <2>1 DEF Readers, Data
  <2>3. call[FS] # K!Sending(TTY)
    <3> SUFFICES ASSUME call[FS] = K!Sending(TTY) PROVE FALSE
      OBVIOUS
    <3>1. src # TTY
      BY <1>1, Apart DEF Data
    <3>2. pc[FS] = "sent" /\ call[FS] # K!Idle
      BY <1>1, <3>1, CallsDiffer DEF FsCalls
    <3>3. ~Suspended
      BY <1>1, <3>2, NotSuspended
    <3>4. src \in Users /\ FsOwes(src) /\ req[src].type \in {"OPEN", "READ", "WRITE"}
      BY <1>1, <3>2, <3>3 DEF FsMsgs, FsOwes
    <3> QED  BY <2>2, <3>4, OneAtATime DEF Reads
  <2>4. Goto(TTY, "resumed") \/ pc' = pc
    BY <1>9, <2>3 DEF TtyTransfer, Send
  <2>5. CASE Goto(TTY, "resumed")
    BY <1>1, <2>5, Calm, Apart
  <2>6. CASE pc' = pc
    BY <2>6 DEF NoPanic, Running
  <2> QED  BY <2>4, <2>5, <2>6
<1> QED  BY <1>2, <1>3, <1>4, <1>5, <1>6, <1>7, <1>8, <1>9 DEF TtyStep

\* No SEND of users, TASK_FS and TASK_TTY closes a circle, and do_rdwt's
\* assertion holds, if a process that reads a terminal is the only one that uses
\* any (msg_send's deadlock check, do_rdwt).  One that reads and one that writes
\* are enough for a panic: TtyTwo.cfg.
THEOREM NeverPanics == ReaderAlone => (Spec => []NoPanic)
<1> SUFFICES ASSUME ReaderAlone PROVE Spec => []NoPanic
  OBVIOUS
<1>1. Init => NoPanic
  BY Apart DEF Init, NoPanic, Running
<1>2. IInv /\ NoPanic /\ [Next]_vars => NoPanic'
  <2> SUFFICES ASSUME IInv, NoPanic, [Next]_vars PROVE NoPanic'
    OBVIOUS
  <2>1. CASE pc' = pc
    BY <2>1 DEF NoPanic, Running
  <2>2. CASE UserStep
    <3>1. PICK u \in Users : Goto(u, "wait") \/ Goto(u, "idle")
      BY <2>2 DEF UserStep, UserAwait, UserDone, ReceiveReply
    <3> QED  BY <3>1, Calm, Apart, InvParts
  <2>3. CASE \E u \in Users : UserCall(u)
    <3>1. PICK u \in Users : UserCall(u)
      BY <2>3
    <3>2. pc[u] = "idle"
      BY <3>1 DEF UserCall, At
    <3>3. call[FS] # K!Sending(u)
      BY <3>2, IdleUnanswered
    <3>4. Goto(u, "sent")
      BY <3>1, <3>3 DEF UserCall, Send
    <3> QED  BY <3>4, Calm, Apart, InvParts
  <2>4. CASE KernelStep \/ (\E key \in Keys : KeyPress(key)) \/ UNCHANGED vars
    BY <2>1, <2>4 DEF KernelStep, DeliverInterrupt, Tick, Deliver, KeyPress, vars
  <2> QED  BY <2>2, <2>3, <2>4, StepPanicFs, StepPanicTty DEF Next
<1> QED  BY <1>1, <1>2, Invariance, PTL DEF Spec

----------------------------------------------------------------------------
(* No call is lost, where no two processes read the same terminal.         *)

\* Processes that may read have terminals of their own.
ReadersApart ==
    \A u, v \in Users : u # v /\ "READ" \in Calls[u] \cap Calls[v] => TtyOf[u] # TtyOf[v]

\* A terminal owes u characters, or TTY is sending that u be resumed.
TtyOwes(u) ==
    \/ \E t \in Ttys : procnr[t] = u /\ left[t] > 0 /\ ~(pc[TTY] = "resumed" /\ t = tty)
    \/ Resuming /\ procnr[tty] = u

\* Every call that FS has taken and not answered is in somebody's hands.
Held == \A u \in Users : Outstanding(u) => FsOwes(u) \/ TtyOwes(u)

\* Nobody reads zero bytes.
ReadsSome == \A u \in Users : req[u].type = "READ" => req[u].cnt >= 1

LEMMA TtyOwesSame ==
    ASSUME Same(TTY), UNCHANGED ttyVars
    PROVE  \A u \in Users : TtyOwes(u)' <=> TtyOwes(u)
<1>1. Resuming' <=> Resuming
  BY TtySame
<1> QED  BY <1>1 DEF TtyOwes, Same, ttyVars, reqVars

LEMMA HeldFs ==
    ASSUME Held, Same(TTY), \A u \in Users : Same(u), UNCHANGED ttyVars,
           \A u \in Users : FsOwes(u) => FsOwes(u)'
    PROVE  Held'
<1>1. \A u \in Users : Outstanding(u)' <=> Outstanding(u)
  BY UserSame
<1> QED  BY <1>1, TtyOwesSame DEF Held

LEMMA HeldUser ==
    ASSUME IInv, Held, NEW u \in Users, Same(FS), Same(TTY),
           \A v \in Users \ {u} : Same(v), UNCHANGED <<src, ttyVars>>,
           Outstanding(u)' => Outstanding(u)
    PROVE  Held'
<1>1. \A v \in Users : Outstanding(v)' => Outstanding(v)
  BY UserSame
<1> QED  BY <1>1, OwesSame, TtyOwesSame DEF Held

LEMMA HeldUserStep ==
    ASSUME NEW u \in Users
    PROVE  IInv /\ Held /\ (UserCall(u) \/ UserAwait(u) \/ UserDone(u)) => Held'
<1> SUFFICES ASSUME IInv, Held, UserCall(u) \/ UserAwait(u) \/ UserDone(u) PROVE Held'
  OBVIOUS
<1>1. Kernel /\ Data
  BY InvParts
<1>2. UNCHANGED <<src, ttyVars>>
  BY DEF UserCall, UserAwait, UserDone, fsVars
<1>3. CASE UserCall(u)
  <2>1. PICK body : Send(u, FS, body, "sent")
    BY <1>3 DEF UserCall
  <2>2. call[FS] # K!Sending(u)
    BY <1>3, IdleUnanswered DEF UserCall, At
  <2>3. K!StartSend(u, FS, body) /\ Goto(u, "sent")
    BY <2>1, <2>2 DEF Send
  <2>4. /\ call'[u] = K!Sending(FS)
        /\ \A q \in Procs \ {u} : call'[q] = call[q] /\ msg'[q] = msg[q]
    BY <1>1, <2>3, Apart, Sends
  <2>5. pc'[u] = "sent" /\ \A q \in Procs \ {u} : pc'[q] = pc[q]
    BY <1>1, <2>3, Apart, Goes
  <2>6. Same(FS) /\ Same(TTY) /\ \A v \in Users \ {u} : Same(v)
    BY <2>4, <2>5, Apart DEF Same
  <2>7. ~Outstanding(u)'
    BY <2>4, <2>5, CallsDiffer DEF Outstanding, K!Idle
  <2> QED  BY <1>2, <2>6, <2>7, HeldUser
<1>4. CASE UserAwait(u)
  <2>1. /\ pc[u] = "sent" /\ call[u] = K!Idle /\ K!StartReceive(u, FS) /\ Goto(u, "wait")
    BY <1>4 DEF UserAwait, At, ReceiveReply
  <2>2. \A q \in Procs \ {u} : call'[q] = call[q] /\ msg'[q] = msg[q]
    BY <1>1, <2>1, Apart, Receives
  <2>3. \A q \in Procs \ {u} : pc'[q] = pc[q]
    BY <1>1, <2>1, Apart, Goes
  <2>4. Same(FS) /\ Same(TTY) /\ \A v \in Users \ {u} : Same(v)
    BY <2>2, <2>3, Apart DEF Same
  <2>5. Outstanding(u)
    BY <2>1 DEF Outstanding
  <2> QED  BY <1>2, <2>4, <2>5, HeldUser
<1>5. CASE UserDone(u)
  <2>1. Goto(u, "idle") /\ UNCHANGED kernelVars
    BY <1>5 DEF UserDone
  <2>2. call' = call /\ msg' = msg
    BY <1>1, <2>1, Stays
  <2>3. pc'[u] = "idle" /\ \A q \in Procs \ {u} : pc'[q] = pc[q]
    BY <1>1, <2>1, Apart, Goes
  <2>4. Same(FS) /\ Same(TTY) /\ \A v \in Users \ {u} : Same(v)
    BY <2>2, <2>3, Apart DEF Same
  <2>5. ~Outstanding(u)'
    BY <2>3 DEF Outstanding
  <2> QED  BY <1>2, <2>4, <2>5, HeldUser
<1> QED  BY <1>3, <1>4, <1>5

LEMMA HeldFsStep == IInv /\ Held /\ FsStep /\ Running' => Held'
<1> SUFFICES ASSUME IInv, Held, FsStep, Running' PROVE Held'
  OBVIOUS
<1>1. /\ Kernel /\ Data /\ FsMsgs /\ Owed
      /\ Waits <=> Taken \/ Replying
  BY InvParts
<1>2. UNCHANGED ttyVars
  BY DEF FsStep, FsMain, FsAnswer, FsTty, FsTtyAwait, FsTtyDone, FsReply
<1>3. CASE FsMain
  <2>1. pc[FS] = "main" /\ call[FS] = K!Idle /\ K!StartReceive(FS, ANY) /\ Goto(FS, "dispatch")
    BY <1>3 DEF FsMain, At, Receive
  <2>2. \A q \in Procs \ {FS} : call'[q] = call[q] /\ msg'[q] = msg[q]
    BY <1>1, <2>1, Apart, Receives
  <2>3. \A q \in Procs \ {FS} : pc'[q] = pc[q]
    BY <1>1, <2>1, Apart, Goes
  <2>4. Same(TTY) /\ \A u \in Users : Same(u)
    BY <2>2, <2>3, Apart DEF Same
  <2>5. \A u \in Users : ~FsOwes(u)
    BY <2>1, CallsDiffer DEF FsOwes, Dispatching
  <2> QED  BY <1>2, <2>4, <2>5, HeldFs
<1>4. CASE FsAnswer
  <2>1. /\ pc[FS] = "dispatch" /\ call[FS] = K!Idle /\ Dispatching
        /\ msg[FS].body.type \in {"CLOSE", "RESUME_PROC"} /\ Goto(FS, "reply")
        /\ src' = IF msg[FS].body.type = "RESUME_PROC" THEN msg[FS].body.proc
                  ELSE msg[FS].source
        /\ UNCHANGED kernelVars
    BY <1>4 DEF FsAnswer, FsTypes, At, fs_msg, Dispatching
  <2>2. call' = call /\ msg' = msg
    BY <1>1, <2>1, Stays
  <2>3. pc'[FS] = "reply" /\ \A q \in Procs \ {FS} : pc'[q] = pc[q]
    BY <1>1, <2>1, Apart, Goes
  <2>4. Same(TTY) /\ \A u \in Users : Same(u)
    BY <2>2, <2>3, Apart DEF Same
  <2>5. \A u \in Users : FsOwes(u) => src' = u
    BY <2>1, ToDispatch, Apart DEF FsOwes
  <2>6. \A u \in Users : FsOwes(u) => FsOwes(u)'
    BY <2>3, <2>5 DEF FsOwes
  <2> QED  BY <1>2, <2>4, <2>6, HeldFs
<1>5. CASE FsTty
  <2>1. PICK body : Send(FS, TTY, body, "sent")
    BY <1>5 DEF FsTty
  <2>2. /\ pc[FS] = "dispatch" /\ call[FS] = K!Idle /\ Dispatching
        /\ msg[FS].body.type \in {"OPEN", "READ", "WRITE"} /\ src' = msg[FS].source
    BY <1>5 DEF FsTty, FsTypes, At, fs_msg, Dispatching
  <2>3. K!StartSend(FS, TTY, body) /\ Goto(FS, "sent")
    <3>1. ~Goto(FS, "panic")
      BY <1>1, Goes, Apart DEF Running
    <3> QED  BY <2>1, <3>1 DEF Send
  <2>4. /\ call'[FS] = K!Sending(TTY)
        /\ \A q \in Procs \ {FS} : call'[q] = call[q] /\ msg'[q] = msg[q]
    BY <1>1, <2>3, Apart, Sends
  <2>5. pc'[FS] = "sent" /\ \A q \in Procs \ {FS} : pc'[q] = pc[q]
    BY <1>1, <2>3, Apart, Goes
  <2>6. Same(TTY) /\ \A u \in Users : Same(u)
    BY <2>4, <2>5, Apart DEF Same
  <2>7. \A u \in Users : FsOwes(u) => src' = u
    BY <2>2, ToDispatch, Apart DEF FsOwes
  <2>8. ~Suspended'
    <3>1. ~Replying
      BY <1>1, <2>2 DEF Waits
    <3>2. ~Replying' /\ ~Answered'
      BY <2>5, <2>6, <3>1, TtySame DEF Answered
    <3> QED  BY <3>2 DEF Suspended
  <2>9. \A u \in Users : FsOwes(u) => FsOwes(u)'
    BY <2>5, <2>7, <2>8 DEF FsOwes
  <2> QED  BY <1>2, <2>6, <2>9, HeldFs
<1>6. CASE FsTtyAwait
  <2>1. /\ pc[FS] = "sent" /\ call[FS] = K!Idle /\ src' = src
        /\ K!StartReceive(FS, TTY) /\ Goto(FS, "wait")
    BY <1>6 DEF FsTtyAwait, At, ReceiveReply, fsVars
  <2>2. /\ call'[FS] = K!Receiving(TTY)
        /\ \A q \in Procs \ {FS} : call'[q] = call[q] /\ msg'[q] = msg[q]
    BY <1>1, <2>1, Apart, Receives
  <2>3. pc'[FS] = "wait" /\ \A q \in Procs \ {FS} : pc'[q] = pc[q]
    BY <1>1, <2>1, Apart, Goes
  <2>4. Same(TTY) /\ \A u \in Users : Same(u)
    BY <2>2, <2>3, Apart DEF Same
  <2>5. Suspended' => Suspended
    <3>1. ~Answered'
      BY <2>2, CallsDiffer DEF Answered, K!Idle
    <3> QED  BY <2>4, <3>1, TtySame DEF Suspended, Same
  <2>6. \A u \in Users : FsOwes(u) => FsOwes(u)'
    BY <2>1, <2>3, <2>5 DEF FsOwes, Dispatching
  <2> QED  BY <1>2, <2>4, <2>6, HeldFs
<1>7. CASE FsTtyDone
  <2>1. /\ pc[FS] = "wait" /\ call[FS] = K!Idle /\ Answered /\ src' = src
        /\ UNCHANGED kernelVars
    BY <1>7 DEF FsTtyDone, At, Answered
  <2>2. msg[FS].body.cnt = len
    BY <1>1, <2>1 DEF FsMsgs, IsAnswer, Body
  <2>3. Goto(FS, IF msg[FS].body.type = "SUSPEND_PROC" THEN "main" ELSE "reply")
    BY <1>7, <2>2 DEF FsTtyDone, fs_msg
  <2>4. call' = call /\ msg' = msg
    BY <1>1, <2>1, Stays
  <2>5. /\ pc'[FS] = IF msg[FS].body.type = "SUSPEND_PROC" THEN "main" ELSE "reply"
        /\ \A q \in Procs \ {FS} : pc'[q] = pc[q]
    BY <1>1, <2>3, Apart, Goes
  <2>6. Same(TTY) /\ \A u \in Users : Same(u)
    BY <2>4, <2>5, Apart DEF Same
  <2>7. msg[FS].body.type = "SUSPEND_PROC" => Suspended
    BY <2>1 DEF Suspended
  <2>8. \A u \in Users : FsOwes(u) => FsOwes(u)'
    BY <2>1, <2>5, <2>7 DEF FsOwes, Dispatching
  <2> QED  BY <1>2, <2>6, <2>8, HeldFs
<1>8. CASE FsReply
  <2>1. /\ pc[FS] = "reply" /\ src' = src
        /\ Send(FS, src, Body("SYSCALL_RET", src, fs_msg.body.cnt), "main")
    BY <1>8 DEF FsReply, At, fsVars
  <2>2. src \in Users /\ FsOwes(src)
    BY <1>1, <2>1 DEF FsMsgs, FsOwes
  <2>3. call[src] # K!Sending(FS)
    BY <1>1, <2>2, CallsDiffer DEF Owed, Outstanding
  <2>4. K!StartSend(FS, src, Body("SYSCALL_RET", src, fs_msg.body.cnt)) /\ Goto(FS, "main")
    BY <2>1, <2>3 DEF Send
  <2>5. /\ call'[FS] = K!Sending(src)
        /\ \A q \in Procs \ {FS} : call'[q] = call[q] /\ msg'[q] = msg[q]
    BY <1>1, <2>2, <2>4, Apart, Sends
  <2>6. pc'[FS] = "main" /\ \A q \in Procs \ {FS} : pc'[q] = pc[q]
    BY <1>1, <2>4, Apart, Goes
  <2>7. Same(TTY) /\ \A u \in Users : Same(u)
    BY <2>5, <2>6, Apart DEF Same
  <2>8. \A u \in Users : FsOwes(u) => FsOwes(u)'
    BY <2>1, <2>5, <2>6 DEF FsOwes, Dispatching, K!Sending
  <2> QED  BY <1>2, <2>7, <2>8, HeldFs
<1> QED  BY <1>3, <1>4, <1>5, <1>6, <1>7, <1>8 DEF FsStep

\* TTY replies, or moves, and FS owes whom it owed.
LEMMA FsStillOwes ==
    ASSUME Same(FS), UNCHANGED src, Suspended' => Suspended
    PROVE  \A u \in Users : FsOwes(u) => FsOwes(u)'
BY FsSame DEF FsOwes, Same, K!Sending

LEMMA HeldTty ==
    ASSUME Held, Same(FS), \A u \in Users : Same(u),
           \A u \in Users : FsOwes(u) \/ TtyOwes(u) => FsOwes(u)' \/ TtyOwes(u)'
    PROVE  Held'
<1>1. \A u \in Users : Outstanding(u)' <=> Outstanding(u)
  BY UserSame
<1> QED  BY <1>1 DEF Held

\* A step of TTY that sends nothing, and leaves the readers alone.
LEMMA HeldRuns ==
    ASSUME Held, Same(FS), \A u \in Users : Same(u), UNCHANGED <<src, procnr, left>>,
           pc[TTY] # "resumed", pc'[TTY] # "resumed", call'[TTY] # K!Sending(FS)
    PROVE  Held'
<1>1. ~Replying'
  BY DEF Replying, K!Sending
<1>2. Answered' <=> Answered
  BY FsSame
<1>3. Suspended' => Suspended
  BY <1>1, <1>2 DEF Suspended, Same
<1>4. \A u \in Users : FsOwes(u) => FsOwes(u)'
  BY <1>3, FsStillOwes
<1>5. \A u \in Users : TtyOwes(u) => TtyOwes(u)'
  BY DEF TtyOwes, Resuming
<1> QED  BY <1>4, <1>5, HeldTty

LEMMA HeldTtyInside ==
    IInv /\ Held /\ (TtyRead \/ KeyboardRead \/ KeyboardReadEnd \/ TtyDiscard
                     \/ TtyNext \/ TtyHardInt) => Held'
<1> SUFFICES ASSUME IInv, Held, TtyRead \/ KeyboardRead \/ KeyboardReadEnd \/ TtyDiscard
                     \/ TtyNext \/ TtyHardInt
             PROVE  Held'
  OBVIOUS
<1>1. Kernel /\ Data
  BY InvParts
<1>2. UNCHANGED <<src, procnr, left>>
  BY DEF TtyRead, KeyboardRead, KeyboardReadEnd, TtyDiscard, TtyNext, TtyHardInt,
         fsVars, ttyVars, reqVars
<1>3. pc[TTY] # "resumed" /\ call[TTY] = K!Idle /\ K!Idle # K!Sending(FS)
      /\ K!Receiving(ANY) # K!Sending(FS)
  BY CallsDiffer DEF TtyRead, KeyboardRead, KeyboardReadEnd, TtyDiscard, TtyNext,
     TtyHardInt, At
<1>4. CASE \E place \in {"read", "drain", "write"} : Goto(TTY, place) /\ UNCHANGED kernelVars
  <2>1. PICK place \in {"read", "drain", "write"} : Goto(TTY, place) /\ UNCHANGED kernelVars
    BY <1>4
  <2>2. pc'[TTY] = place /\ call'[TTY] = call[TTY] /\ Same(FS) /\ \A u \in Users : Same(u)
    BY <1>1, <2>1, TtyInside
  <2> QED  BY <1>2, <1>3, <2>1, <2>2, HeldRuns
<1>5. CASE UNCHANGED <<kernelVars, pc>>
  <2>1. call' = call /\ msg' = msg /\ pc' = pc
    BY <1>1, <1>5, Stays
  <2>2. Same(FS) /\ \A u \in Users : Same(u)
    BY <2>1 DEF Same
  <2> QED  BY <1>2, <1>3, <2>1, <2>2, HeldRuns
<1>6. CASE K!StartReceive(TTY, ANY) /\ Goto(TTY, "dispatch")
  <2>1. /\ call'[TTY] = K!Receiving(ANY)
        /\ \A q \in Procs \ {TTY} : call'[q] = call[q] /\ msg'[q] = msg[q]
    BY <1>1, <1>6, Apart, Receives
  <2>2. pc'[TTY] = "dispatch" /\ \A q \in Procs \ {TTY} : pc'[q] = pc[q]
    BY <1>1, <1>6, Apart, Goes
  <2>3. Same(FS) /\ \A u \in Users : Same(u)
    BY <2>1, <2>2, Apart DEF Same
  <2> QED  BY <1>2, <1>3, <2>1, <2>2, <2>3, HeldRuns
<1>7. TtyRead \/ KeyboardReadEnd \/ TtyHardInt =>
          \E place \in {"read", "drain", "write"} : Goto(TTY, place) /\ UNCHANGED kernelVars
  BY DEF TtyRead, KeyboardReadEnd, TtyHardInt
<1>8. KeyboardRead \/ TtyDiscard => UNCHANGED <<kernelVars, pc>>
  BY DEF KeyboardRead, TtyDiscard
<1>9. TtyNext => \/ Goto(TTY, "read") /\ UNCHANGED kernelVars
                 \/ K!StartReceive(TTY, ANY) /\ Goto(TTY, "dispatch")
  BY DEF TtyNext, Receive
<1> QED  BY <1>4, <1>5, <1>6, <1>7, <1>8, <1>9

\* A character goes to the reader, and its terminal owes it the rest, or TTY
\* is sending that it be resumed.
LEMMA HeldTtyTransfer == IInv /\ Held /\ TtyTransfer /\ Running' => Held'
<1> SUFFICES ASSUME IInv, Held, TtyTransfer, Running' PROVE Held'
  OBVIOUS
<1> DEFINE u == procnr[tty]
           body == Body("RESUME_PROC", u, trans'[tty])
<1>1. /\ pc[TTY] = "write" /\ call[TTY] = K!Idle /\ left[tty] > 0
      /\ Transfer(Head(ibuf[tty])) /\ UNCHANGED <<fsVars, src, tty, procnr>>
      /\ \/ Send(TTY, FS, body, "resumed")
         \/ left'[tty] # 0 /\ UNCHANGED <<kernelVars, pc>>
  BY DEF TtyTransfer, At, fsVars
<1>2. Kernel /\ Data /\ Readers
  BY InvParts
<1>3. tty \in Ttys /\ req \in [Users -> Bodies]
  BY <1>2 DEF Data
<1>4. Reads(u, tty) /\ left[tty] + trans[tty] = req[u].cnt
  BY <1>1, <1>2, <1>3 DEF Readers
<1>5. left[tty] + trans[tty] <= MaxCnt
  <2>1. req[u] \in Bodies
    BY <1>3, <1>4 DEF Reads
  <2> QED  BY <1>4, <2>1, Numbers
<1>6. /\ left' \in [Ttys -> 0 .. MaxCnt]
      /\ \A t \in Ttys \ {tty} : left'[t] = left[t]
  BY <1>1, <1>2, <1>5, Transfers
<1>7. ~Goto(TTY, "panic")
  BY <1>2, Goes, Apart DEF Running
<1>8. \/ K!StartSend(TTY, FS, body) /\ Goto(TTY, "resumed")
      \/ left'[tty] # 0 /\ UNCHANGED <<kernelVars, pc>>
  BY <1>1, <1>7 DEF Send
<1>9. /\ \/ pc'[TTY] = "resumed" /\ call'[TTY] = K!Sending(FS)
         \/ left'[tty] > 0 /\ pc'[TTY] = "write"
      /\ Same(FS) /\ \A v \in Users : Same(v)
  <2>1. CASE K!StartSend(TTY, FS, body) /\ Goto(TTY, "resumed")
    <3>1. /\ call'[TTY] = K!Sending(FS)
          /\ \A q \in Procs \ {TTY} : call'[q] = call[q] /\ msg'[q] = msg[q]
      BY <1>2, <2>1, Apart, Sends
    <3>2. pc'[TTY] = "resumed" /\ \A q \in Procs \ {TTY} : pc'[q] = pc[q]
      BY <1>2, <2>1, Apart, Goes
    <3> QED  BY <3>1, <3>2, Apart DEF Same
  <2>2. CASE left'[tty] # 0 /\ UNCHANGED <<kernelVars, pc>>
    <3>1. left'[tty] > 0
      BY <1>3, <1>6, <2>2, Numbers
    <3>2. call' = call /\ msg' = msg /\ pc' = pc
      BY <1>2, <2>2, Stays
    <3> QED  BY <1>1, <3>1, <3>2 DEF Same
  <2> QED  BY <1>8, <2>1, <2>2
<1>10. ~Replying'
  BY <1>9 DEF Replying
<1>11. Suspended' => Suspended
  <2>1. Answered' <=> Answered
    BY <1>9, FsSame
  <2> QED  BY <1>9, <1>10, <2>1 DEF Suspended, Same
<1>12. \A v \in Users : FsOwes(v) => FsOwes(v)'
  BY <1>1, <1>9, <1>11, FsStillOwes
<1>13. TtyOwes(u)'
  BY <1>1, <1>3, <1>9 DEF TtyOwes, Resuming, K!Sending
<1>14. \A v \in Users : TtyOwes(v) => TtyOwes(v)'
  <2>1. SUFFICES ASSUME NEW v \in Users, TtyOwes(v) PROVE TtyOwes(v)'
    OBVIOUS
  <2>2. PICK t \in Ttys : procnr[t] = v /\ left[t] > 0
    BY <1>1, <2>1 DEF TtyOwes, Resuming
  <2>3. CASE t = tty
    BY <1>1, <1>13, <2>2, <2>3 DEF TtyOwes, Resuming, K!Sending
  <2>4. CASE t # tty
    BY <1>1, <1>6, <2>2, <2>4 DEF TtyOwes
  <2> QED  BY <2>3, <2>4
<1> HIDE DEF u, body
<1> QED  BY <1>9, <1>12, <1>14, HeldTty

LEMMA HeldTtyResumed == IInv /\ Held /\ TtyResumed => Held'
<1> SUFFICES ASSUME IInv, Held, TtyResumed PROVE Held'
  OBVIOUS
<1>1. /\ pc[TTY] = "resumed" /\ call[TTY] = K!Idle /\ Goto(TTY, "write")
      /\ left' = [left EXCEPT ![tty] = 0] /\ UNCHANGED <<kernelVars, src, tty, procnr>>
  BY DEF TtyResumed, At, fsVars
<1>2. Kernel /\ Data
  BY InvParts
<1>3. /\ pc'[TTY] = "write" /\ call'[TTY] = K!Idle /\ msg'[TTY] = msg[TTY]
      /\ Same(FS) /\ \A u \in Users : Same(u)
  BY <1>1, <1>2, TtyInside
<1>4. \A t \in Ttys \ {tty} : left'[t] = left[t]
  BY <1>1, <1>2 DEF Data
<1>5. Suspended' => Suspended
  <2>1. Answered' <=> Answered
    BY <1>3, FsSame
  <2>2. ~Replying'
    BY <1>3 DEF Replying
  <2> QED  BY <1>3, <2>1, <2>2 DEF Suspended, Same
<1>6. \A u \in Users : FsOwes(u) => FsOwes(u)'
  BY <1>1, <1>3, <1>5, FsStillOwes
<1>7. \A u \in Users : TtyOwes(u) => TtyOwes(u)'
  BY <1>1, <1>3, <1>4, CallsDiffer DEF TtyOwes, Resuming
<1> QED  BY <1>3, <1>6, <1>7, HeldTty

LEMMA HeldTtyOpenWrite == IInv /\ Held /\ TtyOpenWrite => Held'
<1> SUFFICES ASSUME IInv, Held, TtyOpenWrite PROVE Held'
  OBVIOUS
<1>1. Dispatch /\ msg[TTY].body.type # "DEV_READ" /\ UNCHANGED <<src, procnr, left>>
  BY DEF TtyOpenWrite, fsVars, ttyVars, reqVars
<1>2. /\ pc[TTY] = "dispatch" /\ msg[TTY] = Asked
  BY <1>1, ToDrive
<1>3. msg[TTY].body.type \in {"DEV_OPEN", "DEV_WRITE"}
  BY <1>1, <1>2 DEF Asked, Body, DevType
<1>4. Send(TTY, msg[TTY].source, [msg[TTY].body EXCEPT !.type = "SYSCALL_RET"], "read")
  BY <1>3 DEF TtyOpenWrite
<1>5. /\ Same(FS) /\ \A u \in Users : Same(u)
      /\ pc'[TTY] = "read" /\ msg'[TTY] = [source |-> TTY, body |-> Body("SYSCALL_RET", src, len)]
  BY <1>1, <1>4, TtyReplies
<1>6. Suspended' => Suspended
  <2>1. Answered' <=> Answered
    BY <1>5, FsSame
  <2> QED  BY <1>5, <2>1 DEF Suspended, Same, Body
<1>7. \A u \in Users : FsOwes(u) => FsOwes(u)'
  BY <1>1, <1>5, <1>6, FsStillOwes
<1>8. \A u \in Users : TtyOwes(u) => TtyOwes(u)'
  BY <1>1, <1>2, <1>5 DEF TtyOwes, Resuming
<1> QED  BY <1>5, <1>7, <1>8, HeldTty

\* A read goes from FS to TTY, whose terminal nobody else is reading.
LEMMA HeldTtyDoRead == ReadersApart /\ ReadsSome /\ IInv /\ Held /\ TtyDoRead => Held'
<1> SUFFICES ASSUME ReadersApart, ReadsSome, IInv, Held, TtyDoRead PROVE Held'
  OBVIOUS
<1>1. /\ Dispatch /\ msg[TTY].body.type = "DEV_READ"
      /\ procnr' = [procnr EXCEPT ![TtyOf[msg[TTY].body.proc]] = msg[TTY].body.proc]
      /\ left' = [left EXCEPT ![TtyOf[msg[TTY].body.proc]] = msg[TTY].body.cnt]
      /\ Send(TTY, msg[TTY].source, [msg[TTY].body EXCEPT !.type = "SUSPEND_PROC"], "read")
      /\ src' = src
  BY DEF TtyDoRead, fsVars
<1>2. /\ pc[TTY] = "dispatch" /\ msg[TTY] = Asked /\ src \in Users /\ FsOwes(src) /\ Waits
      /\ req[src].type \in {"OPEN", "READ", "WRITE"} /\ len = req[src].cnt
  BY <1>1, ToDrive
<1>3. /\ msg[TTY].body.proc = src /\ msg[TTY].body.cnt = len
      /\ msg[TTY].body.type = DevType(req[src].type)
  BY <1>2 DEF Asked, Body
<1>4. req[src].type = "READ"
  BY <1>1, <1>3 DEF DevType
<1>5. PICK t \in Ttys : t = TtyOf[src]
  BY <1>2, Numbers
<1>6. Data /\ UserMsgs /\ Owed /\ Readers
  BY InvParts
<1>7. /\ procnr'[t] = src /\ left'[t] = len
      /\ \A s \in Ttys \ {t} : procnr'[s] = procnr[s] /\ left'[s] = left[s]
  BY <1>1, <1>3, <1>5, <1>6 DEF Data
<1>8. /\ Same(FS) /\ \A u \in Users : Same(u)
      /\ pc'[TTY] = "read"
  BY <1>1, TtyReplies
<1>9. len > 0
  <2>1. len >= 1
    BY <1>2, <1>4 DEF ReadsSome
  <2>2. len \in 0 .. MaxCnt
    BY <1>6 DEF Data
  <2> QED  BY <2>1, <2>2, Numbers
<1>10. TtyOwes(src)'
  BY <1>1, <1>5, <1>7, <1>8, <1>9 DEF TtyOwes
<1>11. \A u \in Users : FsOwes(u) => u = src
  BY <1>2, CallsDiffer DEF FsOwes, Waits, Dispatching
<1>12. \A u \in Users : TtyOwes(u) => TtyOwes(u)'
  <2>1. SUFFICES ASSUME NEW u \in Users, TtyOwes(u) PROVE TtyOwes(u)'
    OBVIOUS
  <2>2. PICK s \in Ttys : procnr[s] = u /\ left[s] > 0
    BY <1>2, <2>1 DEF TtyOwes, Resuming
  <2>3. Reads(u, s)
    BY <1>2, <1>6, <2>2 DEF Readers
  <2>4. s # t
    <3> SUFFICES ASSUME s = t PROVE FALSE
      OBVIOUS
    <3>1. u # src
      BY <1>2, <2>3 DEF Reads
    <3>2. Outstanding(u) /\ Outstanding(src)
      BY <1>2, <1>6, <2>3 DEF Reads, Owed
    <3>3. "READ" \in Calls[u] \cap Calls[src]
      BY <1>2, <1>4, <1>6, <2>3, <3>2 DEF Reads, Outstanding, UserMsgs
    <3> QED  BY <1>2, <1>5, <2>3, <3>1, <3>3 DEF Reads, ReadersApart
  <2> QED  BY <1>7, <1>8, <2>2, <2>4 DEF TtyOwes
<1>13. \A u \in Users : FsOwes(u) => TtyOwes(u)'
  BY <1>1, <1>10, <1>11
<1> QED  BY <1>8, <1>12, <1>13, HeldTty

\* The kernel hands on a message, and with it a call.
LEMMA HeldDeliver == ASSUME NEW p \in Procs PROVE IInv /\ Held /\ Deliver(p) => Held'
<1> SUFFICES ASSUME IInv, Held, Deliver(p) PROVE Held'
  OBVIOUS
<1>1. PICK i \in DOMAIN waiting[p] : K!HandOver(p, i)
  BY DEF Deliver
<1>2. UNCHANGED <<pc, req, fsVars, ttyVars, kbVars>>
  BY DEF Deliver
<1>3. /\ Data /\ Kernel /\ UserCalls /\ FsCalls /\ TtyCalls /\ UserMsgs /\ TtyMsgs /\ Places
      /\ Waits <=> Taken \/ Replying
  BY InvParts DEF IInv
<1>4. PICK s \in Procs \ {p} : Hands(s, p)
  BY <1>1, <1>2, <1>3, HandsOver DEF Hands
<1>5. /\ call[s] = K!Sending(p) /\ call[p] \in {K!Receiving(s), K!Receiving(ANY)}
      /\ call'[s] = K!Idle /\ call'[p] = K!Idle
      /\ msg'[p] = msg[s] /\ msg'[s] = msg[s]
      /\ \A q \in Procs \ {s, p} : call'[q] = call[q] /\ msg'[q] = msg[q]
  BY <1>4 DEF Hands
<1>6. UNCHANGED <<pc, src, tty, procnr, left>>
  BY <1>2 DEF fsVars, ttyVars, reqVars
<1>7. CASE p = FS /\ s \in Users
  <2>1. pc[s] = "sent" /\ msg[s] = [source |-> s, body |-> req[s]]
    BY <1>3, <1>5, <1>7, CallsDiffer DEF UserCalls, UserMsgs
  <2>2. pc[FS] = "dispatch" /\ call[FS] # K!Idle
    BY <1>3, <1>5, <1>7, Apart, CallsDiffer DEF FsCalls
  <2>3. \A v \in Users : ~FsOwes(v)
    BY <2>2 DEF FsOwes, Dispatching
  <2>4. FsOwes(s)'
    BY <1>5, <1>6, <1>7, <2>1, <2>2 DEF FsOwes, Dispatching, K!Idle
  <2>5. Same(TTY) /\ \A v \in Users \ {s} : Same(v)
    BY <1>5, <1>6, <1>7, Apart DEF Same
  <2>6. \A v \in Users \ {s} : Outstanding(v)' <=> Outstanding(v)
    BY <2>5, UserSame
  <2>7. \A v \in Users : TtyOwes(v)' <=> TtyOwes(v)
    BY <1>2, <2>5, TtyOwesSame
  <2> QED  BY <2>3, <2>4, <2>6, <2>7 DEF Held
<1>8. CASE p = FS /\ s = TTY /\ pc[TTY] = "read"
  <2>1. Replying /\ Waits
    BY <1>3, <1>5, <1>8 DEF Replying
  <2>2. pc[FS] = "wait" /\ call[FS] # K!Idle
    BY <1>5, <1>8, <2>1, CallsDiffer DEF Waits
  <2>3. Suspended' => Suspended
    <3>1. ~Replying'
      BY <1>5, <1>8, CallsDiffer DEF Replying, K!Idle, K!Sending
    <3> QED  BY <1>5, <1>8, <2>1, <3>1 DEF Suspended
  <2>4. \A v \in Users : FsOwes(v) => FsOwes(v)'
    BY <1>6, <2>2, <2>3 DEF FsOwes, Dispatching
  <2>5. \A v \in Users : TtyOwes(v) => TtyOwes(v)'
    BY <1>6, <1>8 DEF TtyOwes, Resuming
  <2>6. \A v \in Users : Same(v)
    BY <1>5, <1>6, <1>8, Apart DEF Same
  <2>7. \A v \in Users : Outstanding(v)' <=> Outstanding(v)
    BY <2>6, UserSame
  <2> QED  BY <2>4, <2>5, <2>7 DEF Held
<1>9. CASE p = FS /\ s = TTY /\ pc[TTY] = "resumed"
  <2>1. Resuming /\ ~Replying
    BY <1>5, <1>9 DEF Resuming, Replying
  <2>2. ~Waits
    BY <1>3, <1>9, <2>1 DEF Taken
  <2>3. pc[FS] = "dispatch" /\ call[FS] # K!Idle
    BY <1>3, <1>5, <1>9, <2>2, CallsDiffer DEF FsCalls, Waits
  <2>4. \A v \in Users : ~FsOwes(v)
    BY <2>3 DEF FsOwes, Dispatching
  <2>5. msg'[FS] = [source |-> TTY, body |-> Body("RESUME_PROC", procnr[tty], trans[tty])]
    BY <1>3, <1>5, <1>9, <2>1 DEF TtyMsgs
  <2>6. msg'[FS].source = TTY /\ msg'[FS].body.proc = procnr[tty]
    BY <2>5 DEF Body
  <2>7. Dispatching'
    BY <1>5, <1>6, <1>9, <2>3 DEF Dispatching, K!Idle
  <2>8. \A v \in Users : v = procnr[tty] => FsOwes(v)'
    BY <2>6, <2>7 DEF FsOwes
  <2>9. \A v \in Users : TtyOwes(v) => v = procnr[tty] \/ TtyOwes(v)'
    BY <1>6 DEF TtyOwes
  <2>10. \A v \in Users : Same(v)
    BY <1>5, <1>6, <1>9, Apart DEF Same
  <2>11. \A v \in Users : Outstanding(v)' <=> Outstanding(v)
    BY <2>10, UserSame
  <2> QED  BY <2>4, <2>8, <2>9, <2>11 DEF Held
<1>10. CASE p = TTY
  <2>1. s = FS
    BY <1>3, <1>5, <1>10, Apart, CallsDiffer DEF UserCalls
  <2>2. src # TTY
    BY <1>3, Apart DEF Data
  <2>3. pc[FS] = "sent" /\ call[FS] # K!Idle
    BY <1>3, <1>5, <1>10, <2>1, <2>2, CallsDiffer DEF FsCalls
  <2>4. pc[TTY] = "dispatch"
    BY <1>3, <1>5, <1>10, <2>1, CallsDiffer DEF TtyCalls
  <2>5. ~Suspended'
    BY <1>6, <2>3, <2>4 DEF Suspended, Replying, Answered
  <2>6. \A v \in Users : FsOwes(v) => FsOwes(v)'
    BY <1>6, <2>3, <2>5 DEF FsOwes, Dispatching
  <2>7. \A v \in Users : TtyOwes(v) => TtyOwes(v)'
    BY <1>6, <2>4 DEF TtyOwes, Resuming
  <2>8. \A v \in Users : Same(v)
    BY <1>5, <1>6, <1>10, <2>1, Apart DEF Same
  <2>9. \A v \in Users : Outstanding(v)' <=> Outstanding(v)
    BY <2>8, UserSame
  <2> QED  BY <2>6, <2>7, <2>9 DEF Held
<1>11. CASE p \in Users
  <2>1. s = FS
    BY <1>3, <1>5, <1>11, Apart, CallsDiffer DEF UserCalls, TtyCalls
  <2>2. pc[FS] = "main"
    BY <1>3, <1>5, <1>11, <2>1, Apart, CallsDiffer DEF FsCalls
  <2>3. \A v \in Users : FsOwes(v) => v = p
    BY <1>5, <2>1, <2>2, CallsDiffer DEF FsOwes, Dispatching
  <2>4. Same(TTY) /\ \A v \in Users \ {p} : Same(v)
    BY <1>5, <1>6, <1>11, <2>1, Apart DEF Same
  <2>5. \A v \in Users \ {p} : Outstanding(v)' <=> Outstanding(v)
    BY <2>4, UserSame
  <2>6. ~Outstanding(p)'
    <3>1. pc'[p] # "sent"
      BY <1>3, <1>5, <1>6, <1>11, <2>1, Apart, CallsDiffer DEF UserCalls
    <3>2. call'[p] # K!Receiving(FS)
      BY <1>5, CallsDiffer
    <3> QED  BY <3>1, <3>2 DEF Outstanding, K!Receiving
  <2>7. \A v \in Users : TtyOwes(v)' <=> TtyOwes(v)
    BY <1>2, <2>4, TtyOwesSame
  <2> QED  BY <2>3, <2>5, <2>6, <2>7 DEF Held
<1>12. s = TTY => p = FS /\ pc[TTY] \in {"read", "resumed"}
  BY <1>3, <1>5, CallsDiffer DEF TtyCalls
<1> QED  BY <1>7, <1>8, <1>9, <1>10, <1>11, <1>12, Apart

LEMMA HeldNobody ==
    ASSUME Held, Same(FS), Same(TTY), \A u \in Users : Same(u), UNCHANGED <<src, ttyVars>>
    PROVE  Held'
BY OwesSame, HeldFs

LEMMA HeldInterrupt ==
    IInv /\ Held /\ (DeliverInterrupt \/ Tick \/ (\E key \in Keys : KeyPress(key))
                     \/ UNCHANGED vars) => Held'
<1> SUFFICES ASSUME IInv, Held, DeliverInterrupt \/ Tick \/ (\E key \in Keys : KeyPress(key))
                                \/ UNCHANGED vars
             PROVE  Held'
  OBVIOUS
<1>1. Kernel /\ TtyCalls
  BY InvParts
<1>2. UNCHANGED <<pc, src, ttyVars, procnr, left>>
  BY DEF DeliverInterrupt, Tick, KeyPress, vars, fsVars, ttyVars, reqVars
<1>3. CASE DeliverInterrupt
  <2>1. /\ call[TTY] \in {K!Receiving(ANY), K!Receiving(INTERRUPT)}
        /\ call'[TTY] = K!Idle
        /\ \A q \in Procs \ {TTY} : call'[q] = call[q] /\ msg'[q] = msg[q]
    BY <1>1, <1>3, Interrupted DEF DeliverInterrupt
  <2>2. Same(FS) /\ \A u \in Users : Same(u)
    BY <1>2, <2>1, Apart DEF Same
  <2>3. pc[TTY] = "dispatch" /\ pc'[TTY] = "dispatch"
    BY <1>1, <1>2, <2>1, CallsDiffer DEF TtyCalls
  <2> QED  BY <1>2, <2>1, <2>2, <2>3, CallsDiffer, HeldRuns
<1>4. CASE ~DeliverInterrupt
  <2>1. call' = call /\ msg' = msg
    BY <1>4 DEF Tick, K!Raise, KeyPress, vars, kernelVars
  <2>2. Same(FS) /\ Same(TTY) /\ \A u \in Users : Same(u)
    BY <1>2, <2>1 DEF Same
  <2> QED  BY <1>2, <2>2, HeldNobody
<1> QED  BY <1>3, <1>4

LEMMA SomeRead == IInv /\ ReadsSome /\ [Next]_vars => ReadsSome'
<1> SUFFICES ASSUME IInv, ReadsSome, [Next]_vars PROVE ReadsSome'
  OBVIOUS
<1>1. req \in [Users -> Bodies]
  BY InvParts DEF Data
<1>2. CASE \E u \in Users : UserCall(u)
  <2>1. PICK u \in Users : UserCall(u)
    BY <1>2
  <2>2. PICK body \in Requests(u) : req' = [req EXCEPT ![u] = body]
    BY <2>1 DEF UserCall
  <2>3. body.type = "READ" => body.cnt >= 1
    BY <2>2, Numbers DEF Requests, Body
  <2> QED  BY <1>1, <2>2, <2>3 DEF ReadsSome
<1>3. CASE \E u \in Users : UserDone(u)
  <2>1. PICK u \in Users : req' = [req EXCEPT ![u] = Body("OPEN", u, 0)]
    BY <1>3 DEF UserDone
  <2> QED  BY <1>1, <2>1 DEF ReadsSome, Body
<1>4. CASE req' = req
  BY <1>4 DEF ReadsSome
<1>5. (\E u \in Users : UserCall(u) \/ UserDone(u)) \/ req' = req
  BY DEF Next, UserStep, UserAwait, FsStep, FsMain, FsAnswer, FsTty, FsTtyAwait, FsTtyDone,
     FsReply, TtyStep, TtyRead, KeyboardRead, KeyboardReadEnd, TtyDiscard, TtyTransfer,
     TtyResumed, TtyNext, TtyHardInt, TtyOpenWrite, TtyDoRead, KernelStep,
     DeliverInterrupt, Tick, Deliver, KeyPress, vars
<1> QED  BY <1>2, <1>3, <1>4, <1>5

\* While the machine runs, every call that TASK_FS has taken and that is not
\* answered is in the hands of TASK_FS or TASK_TTY: a suspended read is never
\* forgotten, if no two processes read the same terminal, whose driver keeps
\* one reader only (tty_do_read overwrites tty_procnr).
THEOREM NoCallLost == ReadersApart => (Spec => [](Running => Held))
<1> SUFFICES ASSUME ReadersApart PROVE Spec => [](Running => Held)
  OBVIOUS
<1>1. Init => ReadsSome /\ (Running => Held)
  <2> SUFFICES ASSUME Init PROVE ReadsSome /\ Held
    OBVIOUS
  <2>1. ReadsSome
    BY DEF Init, ReadsSome, Body
  <2>2. \A u \in Users : pc[u] = "idle"
    BY Apart DEF Init
  <2> QED  BY <2>1, <2>2 DEF Held, Outstanding
<1>2. IInv /\ ReadsSome /\ [Next]_vars => ReadsSome'
  BY SomeRead
<1>3. IInv /\ ReadsSome /\ (Running => Held) /\ [Next]_vars => (Running => Held)'
  <2> SUFFICES ASSUME IInv, ReadsSome, Running => Held, [Next]_vars, Running'
               PROVE  Held'
    OBVIOUS
  <2>1. CASE UNCHANGED vars
    <3>1. Running
      BY <2>1 DEF vars, Running
    <3> QED  BY <2>1, <3>1, HeldInterrupt
  <2>2. CASE Next
    <3>1. Running
      BY <2>2 DEF Next, UserStep, UserCall, UserAwait, UserDone, FsStep, FsMain, FsAnswer,
         FsTty, FsTtyAwait, FsTtyDone, FsReply, FsTypes, TtyStep, TtyRead, KeyboardRead,
         KeyboardReadEnd, TtyDiscard, TtyTransfer, TtyResumed, TtyNext, TtyHardInt,
         TtyOpenWrite, TtyDoRead, Dispatch, KernelStep, DeliverInterrupt, Tick, Deliver,
         KeyPress, At
    <3>2. Held
      BY <3>1
    <3>3. ASSUME NEW u \in Users, UserCall(u) PROVE Held'
      BY <3>2, <3>3, HeldUserStep
    <3>4. CASE UserStep
      BY <3>2, <3>4, HeldUserStep DEF UserStep
    <3>5. CASE FsStep
      BY <3>2, <3>5, HeldFsStep
    <3>6. CASE TtyStep
      BY <3>2, <3>6, HeldTtyInside, HeldTtyTransfer, HeldTtyResumed, HeldTtyOpenWrite,
         HeldTtyDoRead DEF TtyStep
    <3>7. CASE KernelStep
      BY <3>2, <3>7, HeldDeliver, HeldInterrupt DEF KernelStep
    <3>8. CASE \E key \in Keys : KeyPress(key)
      BY <3>2, <3>8, HeldInterrupt
    <3> QED  BY <2>2, <3>3, <3>4, <3>5, <3>6, <3>7, <3>8 DEF Next
  <2> QED  BY <2>1, <2>2
<1> QED  BY <1>1, <1>2, <1>3, Invariance, PTL DEF Spec

=============================================================================
