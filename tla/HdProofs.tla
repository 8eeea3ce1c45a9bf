------------------------------ MODULE HdProofs ------------------------------
(***************************************************************************)
(* The hard disk driver, for every number of sectors and partition tables: *)
(* when TASK_HD replies, the request is served and the disk is done with   *)
(* it, and no interrupt of the disk meets TASK_HD where it does not expect *)
(* one.  Requests are at most as long as a command can tell the disk.      *)
(***************************************************************************)
EXTENDS Hd, TLAPS

(***************************************************************************)
(* The tasks and the messages between them.                                *)
(***************************************************************************)

\* FS has asked for something that HD has taken, and has no answer yet.
Waits == \/ pc[FS] = "sent" /\ call[FS] = K!Idle
         \/ pc[FS] = "wait" /\ call[FS] = K!Receiving(HD)

\* HD has a request that it has not answered.
Working == {"ticks", "ticksSent", "poll", "cmdOut", "intWait", "portRead",
            "portWrite", "written", "reply", "panic"}
Taken == pc[HD] = "dispatch" /\ call[HD] = K!Idle
Serves == \/ Taken
          \/ pc[HD] \in Working
          \/ pc[HD] = "main" /\ call[HD] = K!Sending(FS)

\* SYS has been asked for the time, and HD waits for it.
Asked == \/ pc[SYS] = "answer" /\ call[SYS] = K!Idle
         \/ pc[SYS] = "main" /\ call[SYS] = K!Sending(HD)
AwaitsTime == \/ pc[HD] = "ticksSent" /\ call[HD] = K!Idle
              \/ pc[HD] = "poll" /\ call[HD] = K!Receiving(SYS)

\* Where the tasks are, and the calls they may have made there.
FsCalls ==
    \/ pc[FS] \in {"open", "idle"} /\ call[FS] = K!Idle
    \/ pc[FS] = "sent" /\ call[FS] \in {K!Idle, K!Sending(HD)}
    \/ pc[FS] = "wait" /\ call[FS] \in {K!Idle, K!Receiving(HD)}
SysCalls ==
    \/ pc[SYS] = "main" /\ call[SYS] \in {K!Idle, K!Sending(HD)}
    \/ pc[SYS] = "answer" /\ call[SYS] \in {K!Idle, K!Receiving(ANY)}
HdCalls ==
    \/ /\ pc[HD] \in {"ticks", "cmdOut", "intWait", "portWrite", "reply", "panic"}
       /\ call[HD] = K!Idle
    \/ pc[HD] = "main" /\ call[HD] \in {K!Idle, K!Sending(FS)}
    \/ pc[HD] = "dispatch" /\ call[HD] \in {K!Idle, K!Receiving(ANY)}
    \/ pc[HD] = "ticksSent" /\ call[HD] \in {K!Idle, K!Sending(SYS)}
    \/ pc[HD] = "poll" /\ call[HD] \in {K!Idle, K!Receiving(SYS)}
    \/ pc[HD] \in {"portRead", "written"} /\ call[HD] \in {K!Idle, K!Receiving(INTERRUPT)}
Calls ==
    /\ FsCalls /\ SysCalls /\ HdCalls
    /\ Waits <=> Serves
    /\ Asked <=> AwaitsTime

\* Who waits to send, never more than one to the same task.
Queues ==
    /\ waiting[HD] = IF call[FS] = K!Sending(HD) THEN <<FS>>
                     ELSE IF call[SYS] = K!Sending(HD) THEN <<SYS>> ELSE <<>>
    /\ waiting[FS] = IF call[HD] = K!Sending(FS) THEN <<HD>> ELSE <<>>
    /\ waiting[SYS] = IF call[HD] = K!Sending(SYS) THEN <<HD>> ELSE <<>>
    /\ call = [t \in Tasks |-> call[t]] /\ waiting = [t \in Tasks |-> waiting[t]]
    /\ msg = [t \in Tasks |-> msg[t]] /\ pc = [t \in Tasks |-> pc[t]]

\* What FS may ask for, and when: the device opened twice at the most, and
\* closed by the second client only.
IsRequest(b) ==
    \/ /\ b.type \in IoTypes /\ b.pos \in Nat /\ b.cnt \in 1 .. MaxSectors
       /\ b.pos + b.cnt <= NSectors
    \/ b.type \in {"DEV_OPEN", "DEV_CLOSE", "DEV_IOCTL"}
Opened(b) ==
    /\ b.type = "DEV_OPEN" => open_cnt < 2
    /\ b.type = "DEV_CLOSE" => open_cnt = 2
    /\ b.type # "DEV_OPEN" => open_cnt >= 1

Messages ==
    /\ call[FS] = K!Sending(HD) =>
          msg[FS].source = FS /\ IsRequest(msg[FS].body) /\ Opened(msg[FS].body)
    /\ Taken => msg[HD].source = FS /\ IsRequest(msg[HD].body) /\ Opened(msg[HD].body)
    /\ pc[HD] \in Working => hdmsg.source = FS /\ IsRequest(hdmsg.body)
    /\ pc[SYS] = "answer" /\ call[SYS] = K!Idle => msg[SYS].source = HD
    /\ call[HD] = K!Sending(SYS) => msg[HD].source = HD
    /\ call[FS] # K!Sending(HD) /\ ~Taken =>
          IF pc[FS] = "open" THEN open_cnt = 0 ELSE open_cnt \in 1 .. 2

(***************************************************************************)
(* The driver and the disk.                                                *)
(***************************************************************************)

\* No interrupt is on its way, or exactly one.
Quiet == HD \notin pending /\ ~disk.intrq
Coming == disk.intrq <=> HD \notin pending

\* HD waits for an interrupt, or has received it.
Awaiting == \/ pc[HD] = "intWait"
            \/ pc[HD] \in {"portRead", "written"} /\ call[HD] # K!Idle
Arrived == pc[HD] \in {"portRead", "written"} /\ call[HD] = K!Idle

Writing == todo = 0 /\ hdmsg.body.type = "DEV_WRITE"

\* The first n sectors of the request are transferred.
Agree(n) == \A i \in 0 .. n - 1 : fsbuf[i] = disk.data[hdmsg.body.pos + i]

\* The disk has `rest' sectors to go, after the first n of the request.
Where(rest, n) == disk.count = rest /\ disk.pos = hdmsg.body.pos + n

DiskType == disk \in [status : {"idle", "busy", "prepare", "store", "DRQ"},
                      command : {"read", "write"}, pos : 0 .. NSectors,
                      count : 0 .. CountRange, intrq : BOOLEAN,
                      data : [Sectors -> Values]]

\* Between requests nothing is left of one.
Rests ==
    /\ pc[HD] \in {"main", "dispatch", "reply"} =>
          disk.status = "idle" /\ Quiet /\ todo = 0
    /\ pc[HD] = "reply" /\ hdmsg.body.type \in IoTypes => Agree(hdmsg.body.cnt)

\* In a request, there are commands of hd_open or sectors left to do.
InRequest ==
    pc[HD] \in Working \ {"reply"} =>
        \/ todo > 0 /\ hdmsg.body.type = "DEV_OPEN"
        \/ todo = 0 /\ hdmsg.body.type \in IoTypes /\ left \in 1 .. hdmsg.body.cnt

\* The disk is ready for a command, or about to be for a sector.
BeforeCommand ==
    /\ pc[HD] \in {"ticks", "ticksSent", "poll", "panic"} =>
          /\ Quiet
          /\ \/ /\ wants = "notBusy" /\ disk.status = "idle"
                /\ todo = 0 => left = hdmsg.body.cnt
             \/ /\ wants = "DRQ" /\ disk.status \in {"prepare", "DRQ"}
                /\ Writing /\ disk.command = "write" /\ Where(left, Done) /\ Agree(Done)
    /\ pc[HD] = "cmdOut" =>
          /\ Quiet /\ disk.status = "idle"
          /\ todo = 0 => left = hdmsg.body.cnt
    /\ pc[HD] = "portWrite" =>
          /\ Quiet /\ wants = "DRQ" /\ disk.status = "DRQ"
          /\ Writing /\ disk.command = "write" /\ Where(left, Done) /\ Agree(Done)

\* A sector is on its way from the disk, or to it, and so is its interrupt.
InCommand ==
    /\ pc[HD] = "portRead" => disk.command = "read"
    /\ pc[HD] = "written" => disk.command = "write"
    /\ (Awaiting \/ Arrived) /\ disk.command = "read" =>
          /\ ~Writing /\ wants = "notBusy"
          /\ IF Arrived THEN disk.status = "DRQ" /\ Quiet
             ELSE \/ disk.status = "busy" /\ Quiet
                  \/ disk.status = "DRQ" /\ Coming
          /\ todo > 0 => disk.count = 1 /\ disk.pos = 0
          /\ todo = 0 => Where(left, Done) /\ Agree(Done)
    /\ (Awaiting \/ Arrived) /\ disk.command # "read" =>
          /\ Writing /\ wants = "DRQ" /\ Agree(Done + 1)
          /\ \/ disk.status = "store" /\ Quiet /\ ~Arrived /\ Where(left, Done)
             \/ /\ disk.status = (IF left > 1 THEN "DRQ" ELSE "idle")
                /\ IF Arrived THEN Quiet ELSE Coming
                /\ Where(left - 1, Done + 1)

Driver == Rests /\ InRequest /\ BeforeCommand /\ InCommand

IInv == TypeOK /\ DiskType /\ Calls /\ Queues /\ Messages /\ Driver

----------------------------------------------------------------------------
(* Tasks and calls are told apart. *)

LEMMA Distinct ==
    /\ FS # HD /\ HD # SYS /\ SYS # FS /\ Tasks = {FS, HD, SYS}
    /\ K!Idle # K!Sending(HD) /\ K!Idle # K!Sending(FS) /\ K!Idle # K!Sending(SYS)
    /\ K!Idle # K!Receiving(ANY) /\ K!Idle # K!Receiving(HD)
    /\ K!Idle # K!Receiving(SYS) /\ K!Idle # K!Receiving(INTERRUPT)
    /\ K!Idle # K!Receiving(FS)
    /\ \A d, s \in Tasks \cup {ANY, INTERRUPT} : K!Sending(d) # K!Receiving(s)
    /\ K!Sending(FS) # K!Sending(SYS)
    /\ \A d, s \in Tasks \cup {ANY, INTERRUPT} : d # s => K!Receiving(d) # K!Receiving(s)
    /\ ANY # HD /\ ANY # FS /\ ANY # SYS /\ ANY # INTERRUPT
    /\ INTERRUPT # HD /\ INTERRUPT # FS /\ INTERRUPT # SYS
BY HdAssumption DEF Tasks, K!Idle, K!Sending, K!Receiving

LEMMA Numbers ==
    /\ NSectors \in Nat /\ MaxSectors \in Nat /\ 1 <= MaxSectors /\ MaxSectors <= NSectors
    /\ CountRange \in Nat /\ 1 <= CountRange /\ MaxTables \in Nat /\ 1 <= MaxTables
BY HdAssumption

\* The driver's part of the invariant does not see what the other tasks do.
LEMMA DriverStays ==
    ASSUME IInv, UNCHANGED <<hdVars, fsbuf, disk, pending>>, pc'[HD] = pc[HD],
           pc[HD] \in {"portRead", "written"} =>
               (call'[HD] = K!Idle <=> call[HD] = K!Idle)
    PROVE  TypeOK' /\ DiskType' /\ Driver'
<1>1. UNCHANGED <<hdmsg, open_cnt, todo, left, timed, wants, fsbuf, disk, pending>>
  BY DEF hdVars
<1>2. TypeOK' /\ DiskType'
  BY <1>1 DEF IInv, TypeOK, DiskType, Sectors
<1>3. /\ Quiet' <=> Quiet
      /\ Coming' <=> Coming
      /\ Awaiting' <=> Awaiting
      /\ Arrived' <=> Arrived
      /\ Writing' <=> Writing
  BY <1>1 DEF Quiet, Coming, Awaiting, Arrived, Writing, K!Idle
<1>4. Rests' /\ InRequest'
  BY <1>1, <1>3 DEF IInv, Driver, Rests, InRequest, Agree
<1>5. BeforeCommand'
  BY <1>1, <1>3 DEF IInv, Driver, BeforeCommand, Agree, Where, Done
<1>6. InCommand'
  BY <1>1, <1>3 DEF IInv, Driver, InCommand, Agree, Where, Done
<1> QED  BY <1>2, <1>4, <1>5, <1>6 DEF Driver

----------------------------------------------------------------------------
(* What a call of the kernel changes, task by task. *)

LEMMA Gone ==
    ASSUME Queues, NEW t \in Tasks, NEW place, Goto(t, place)
    PROVE  /\ pc'[t] = place
           /\ \A u \in Tasks \ {t} : pc'[u] = pc[u]
           /\ pc' = [u \in Tasks |-> pc'[u]]
BY DEF Queues, Goto

LEMMA Sends ==
    ASSUME Queues, NEW t \in Tasks, NEW d \in Tasks, NEW body, K!StartSend(t, d, body)
    PROVE  /\ call[t] = K!Idle /\ call'[t] = K!Sending(d)
           /\ \A u \in Tasks \ {t} : call'[u] = call[u] /\ msg'[u] = msg[u]
           /\ msg'[t] = [source |-> t, body |-> body]
           /\ waiting'[d] = Append(waiting[d], t)
           /\ \A u \in Tasks \ {d} : waiting'[u] = waiting[u]
           /\ pending' = pending
           /\ call' = [u \in Tasks |-> call'[u]]
           /\ waiting' = [u \in Tasks |-> waiting'[u]]
           /\ msg' = [u \in Tasks |-> msg'[u]]
BY DEF Queues, K!StartSend

LEMMA Receives ==
    ASSUME Queues, NEW t \in Tasks, NEW s, K!StartReceive(t, s)
    PROVE  /\ call[t] = K!Idle /\ call'[t] = K!Receiving(s)
           /\ \A u \in Tasks \ {t} : call'[u] = call[u] /\ msg'[u] = msg[u]
           /\ waiting' = waiting /\ pending' = pending
           /\ call' = [u \in Tasks |-> call'[u]]
           /\ waiting' = [u \in Tasks |-> waiting'[u]]
           /\ msg' = [u \in Tasks |-> msg'[u]]
BY DEF Queues, K!StartReceive

\* Only one waits for the task that receives: the queue is empty afterwards.
LEMMA HandsOver ==
    ASSUME Queues, NEW t \in Tasks, NEW i \in DOMAIN waiting[t], K!HandOver(t, i)
    PROVE  \E s \in Tasks \ {t} :
               /\ call[s] = K!Sending(t) /\ call[t] \in {K!Receiving(s), K!Receiving(ANY)}
               /\ call'[s] = K!Idle /\ call'[t] = K!Idle
               /\ msg'[t] = msg[s] /\ msg'[s] = msg[s]
               /\ waiting[t] = <<s>> /\ waiting'[t] = <<>>
               /\ \A u \in Tasks \ {s, t} : call'[u] = call[u] /\ msg'[u] = msg[u]
               /\ \A u \in Tasks \ {t} : waiting'[u] = waiting[u]
               /\ pending' = pending
               /\ call' = [u \in Tasks |-> call'[u]]
               /\ waiting' = [u \in Tasks |-> waiting'[u]]
               /\ msg' = [u \in Tasks |-> msg'[u]]
<1>1. \A u \in Tasks : waiting[u] = <<>> \/ \E s \in Tasks \ {u} : waiting[u] = <<s>>
  BY Distinct DEF Queues
<1>2. waiting[t] # <<>>
  OBVIOUS
<1>3. PICK s \in Tasks \ {t} : waiting[t] = <<s>>
  BY <1>1, <1>2
<1>4. i = 1 /\ waiting[t][i] = s
  BY <1>3
<1>5. K!RemoveAt(<<s>>, 1) = <<>>
  BY DEF K!RemoveAt
<1>6. /\ call[t] = K!Receiving(s) \/ call[t] = K!Receiving(ANY)
      /\ call[s] = K!Sending(t)
      /\ msg' = [msg EXCEPT ![t] = msg[s]]
      /\ call' = [call EXCEPT ![t] = K!Idle, ![s] = K!Idle]
      /\ waiting' = [waiting EXCEPT ![t] = K!RemoveAt(@, 1)]
      /\ pending' = pending
  BY <1>4 DEF K!HandOver
<1>7. /\ call = [u \in Tasks |-> call[u]] /\ waiting = [u \in Tasks |-> waiting[u]]
      /\ msg = [u \in Tasks |-> msg[u]]
  BY DEF Queues
<1>8. waiting'[t] = <<>>
  BY <1>3, <1>5, <1>6, <1>7
<1> QED  BY <1>3, <1>6, <1>7, <1>8

LEMMA Unmoved ==
    ASSUME Queues, UNCHANGED kernelVars
    PROVE  /\ \A u \in Tasks : call'[u] = call[u] /\ msg'[u] = msg[u]
           /\ waiting' = waiting /\ pending' = pending
           /\ call' = [u \in Tasks |-> call'[u]]
           /\ waiting' = [u \in Tasks |-> waiting'[u]]
           /\ msg' = [u \in Tasks |-> msg'[u]]
BY DEF Queues, kernelVars

----------------------------------------------------------------------------
(* The client and TASK_SYS. *)

LEMMA FsAsks ==
    ASSUME IInv, NEW body, call[FS] = K!Idle, pc[FS] \in {"open", "idle"},
           K!StartSend(FS, HD, body), Goto(FS, "sent"), UNCHANGED hdVars,
           IsRequest(body), (~Taken /\ call[FS] # K!Sending(HD)) => Opened(body)
    PROVE  /\ Calls' /\ Queues' /\ Messages' /\ ~Serves
           /\ pc'[HD] = pc[HD] /\ call'[HD] = call[HD] /\ pending' = pending
<1>0. Queues /\ Calls /\ Messages
  BY DEF IInv
<1>1. /\ pc'[FS] = "sent" /\ pc'[HD] = pc[HD] /\ pc'[SYS] = pc[SYS]
      /\ pc' = [u \in Tasks |-> pc'[u]]
  BY <1>0, Distinct, Gone
<1>2. /\ call'[FS] = K!Sending(HD) /\ call'[HD] = call[HD] /\ call'[SYS] = call[SYS]
      /\ msg'[HD] = msg[HD] /\ msg'[SYS] = msg[SYS]
      /\ msg'[FS] = [source |-> FS, body |-> body]
      /\ waiting'[HD] = Append(waiting[HD], FS)
      /\ waiting'[FS] = waiting[FS] /\ waiting'[SYS] = waiting[SYS]
      /\ pending' = pending
      /\ call' = [u \in Tasks |-> call'[u]] /\ waiting' = [u \in Tasks |-> waiting'[u]]
      /\ msg' = [u \in Tasks |-> msg'[u]]
  <2>1. FS \in Tasks /\ HD \in Tasks /\ SYS \in Tasks
    BY Distinct
  <2>2. /\ call'[FS] = K!Sending(HD)
        /\ \A u \in Tasks \ {FS} : call'[u] = call[u] /\ msg'[u] = msg[u]
        /\ msg'[FS] = [source |-> FS, body |-> body]
        /\ waiting'[HD] = Append(waiting[HD], FS)
        /\ \A u \in Tasks \ {HD} : waiting'[u] = waiting[u]
        /\ pending' = pending
        /\ call' = [u \in Tasks |-> call'[u]] /\ waiting' = [u \in Tasks |-> waiting'[u]]
        /\ msg' = [u \in Tasks |-> msg'[u]]
    BY <1>0, <2>1, Sends
  <2> QED  BY <2>1, <2>2, Distinct
<1>3. ~Waits /\ ~Waits'
  BY <1>1, <1>2, Distinct DEF Waits
<1>4. ~Serves
  BY <1>0, <1>3 DEF Calls
<1>5. call[SYS] # K!Sending(HD)
  BY <1>0, <1>4, Distinct DEF Calls, SysCalls, Asked, AwaitsTime, Serves, Working
<1>6. waiting'[HD] = <<FS>>
  BY <1>0, <1>2, <1>5, Distinct DEF Queues
<1>7. Queues'
  BY <1>0, <1>1, <1>2, <1>6, Distinct DEF Queues
<1>8. FsCalls' /\ SysCalls' /\ HdCalls'
  BY <1>0, <1>1, <1>2, Distinct DEF Calls, FsCalls, SysCalls, HdCalls
<1>9. (Serves' <=> Serves) /\ (Asked' <=> Asked) /\ (AwaitsTime' <=> AwaitsTime)
      /\ (Taken' <=> Taken)
  BY <1>1, <1>2 DEF Serves, Taken, Asked, AwaitsTime, K!Idle, K!Sending, K!Receiving
<1>10. Calls'
  BY <1>0, <1>3, <1>4, <1>8, <1>9 DEF Calls
<1>11. hdmsg' = hdmsg /\ open_cnt' = open_cnt
  BY DEF hdVars
<1>12. ~Taken /\ Opened(body) /\ pc[HD] \notin Working
  BY <1>4, Distinct DEF Serves
<1>13. Opened(body)' /\ IsRequest(body)'
  BY <1>11, <1>12 DEF Opened, IsRequest
<1>14. msg'[FS].source = FS /\ msg'[FS].body = body
  BY <1>2
<1>15. Messages'
  BY <1>0, <1>1, <1>2, <1>9, <1>11, <1>12, <1>13, <1>14, Distinct
     DEF Messages, Opened
<1> QED  BY <1>1, <1>2, <1>4, <1>7, <1>10, <1>15

\* When HD is not asked, the device is closed until FS has opened it.
LEMMA Unasked ==
    ASSUME IInv, call[FS] = K!Idle, ~Taken
    PROVE  IF pc[FS] = "open" THEN open_cnt = 0 ELSE open_cnt \in 1 .. 2
BY Distinct DEF IInv, Messages

LEMMA StepFsOpen == IInv /\ FsOpen => IInv'
<1> SUFFICES ASSUME IInv, FsOpen PROVE IInv'
  OBVIOUS
<1>1. call[FS] = K!Idle /\ pc[FS] = "open" /\ K!StartSend(FS, HD, Body("DEV_OPEN", 0, 0))
      /\ Goto(FS, "sent") /\ UNCHANGED <<hdVars, fsbuf, disk>>
  BY DEF FsOpen, At
<1>2. IsRequest(Body("DEV_OPEN", 0, 0))
  BY DEF IsRequest, Body
<1>3. ~Taken => Opened(Body("DEV_OPEN", 0, 0))
  BY <1>1, Unasked DEF Opened, Body
<1>4. Calls' /\ Queues' /\ Messages'
  BY <1>1, <1>2, <1>3, FsAsks
<1>5. pc'[HD] = pc[HD] /\ call'[HD] = call[HD] /\ pending' = pending
  BY <1>1, <1>2, <1>3, FsAsks
<1>6. TypeOK' /\ DiskType' /\ Driver'
  BY <1>1, <1>5, DriverStays
<1> QED  BY <1>4, <1>6 DEF IInv

LEMMA StepFsOther == IInv /\ FsOther => IInv'
<1> SUFFICES ASSUME IInv, FsOther PROVE IInv'
  OBVIOUS
<1>1. PICK type \in {"DEV_OPEN", "DEV_CLOSE", "DEV_IOCTL"} :
          /\ type = "DEV_CLOSE" => open_cnt > 1
          /\ type = "DEV_OPEN" => open_cnt < 2
          /\ K!StartSend(FS, HD, Body(type, 0, 0))
  BY DEF FsOther
<1>2. call[FS] = K!Idle /\ pc[FS] = "idle" /\ Goto(FS, "sent")
      /\ UNCHANGED <<hdVars, fsbuf, disk>>
  BY DEF FsOther, At
<1>3. IsRequest(Body(type, 0, 0))
  BY DEF IsRequest, Body
<1>4. ~Taken => Opened(Body(type, 0, 0))
  BY <1>1, <1>2, Unasked DEF Opened, Body
<1>5. Calls' /\ Queues' /\ Messages'
  BY <1>1, <1>2, <1>3, <1>4, FsAsks
<1>6. pc'[HD] = pc[HD] /\ call'[HD] = call[HD] /\ pending' = pending
  BY <1>1, <1>2, <1>3, <1>4, FsAsks
<1>7. TypeOK' /\ DiskType' /\ Driver'
  BY <1>2, <1>6, DriverStays
<1> QED  BY <1>5, <1>7 DEF IInv

\* Between requests the driver's part only says that nothing is left of one.
LEMMA Resting ==
    ASSUME pc'[HD] \in {"main", "dispatch", "spin"},
           pc'[HD] # "spin" => disk'.status = "idle" /\ Quiet' /\ todo' = 0
    PROVE  Driver'
BY DEF Driver, Rests, InRequest, BeforeCommand, InCommand, Awaiting, Arrived, Working

LEMMA StepFsRdwt == IInv /\ FsRdwt => IInv'
<1> SUFFICES ASSUME IInv, FsRdwt PROVE IInv'
  OBVIOUS
<1>1. PICK type \in IoTypes, pos \in Sectors, cnt \in 1 .. MaxSectors :
          /\ pos + cnt <= NSectors
          /\ K!StartSend(FS, HD, Body(type, pos, cnt))
          /\ IF type = "DEV_WRITE" THEN fsbuf' \in [0 .. MaxSectors - 1 -> Values]
                                   ELSE UNCHANGED fsbuf
  BY DEF FsRdwt
<1>2. call[FS] = K!Idle /\ pc[FS] = "idle" /\ Goto(FS, "sent") /\ UNCHANGED <<hdVars, disk>>
  BY DEF FsRdwt, At
<1>3. IsRequest(Body(type, pos, cnt))
  BY <1>1 DEF IsRequest, Body, Sectors
<1>4. ~Taken => Opened(Body(type, pos, cnt))
  BY <1>1, <1>2, Unasked DEF Opened, Body, IoTypes
<1>5. Calls' /\ Queues' /\ Messages' /\ ~Serves
  BY <1>1, <1>2, <1>3, <1>4, FsAsks
<1>6. pc'[HD] = pc[HD] /\ call'[HD] = call[HD] /\ pending' = pending
  BY <1>1, <1>2, <1>3, <1>4, FsAsks
<1>7. UNCHANGED <<hdmsg, open_cnt, todo, left, timed, wants, disk>>
  BY <1>2 DEF hdVars
<1>8. fsbuf' \in [0 .. MaxSectors - 1 -> Values]
  BY <1>1 DEF IInv, TypeOK
<1>9. TypeOK' /\ DiskType'
  BY <1>6, <1>7, <1>8 DEF IInv, TypeOK, DiskType, Sectors
<1>10. pc[HD] \in {"main", "dispatch", "spin"}
  BY <1>5 DEF Serves, Working, IInv, TypeOK
<1>11. Driver'
  <2>1. pc[HD] # "spin" => disk.status = "idle" /\ Quiet /\ todo = 0
    BY <1>10 DEF IInv, Driver, Rests
  <2>2. pc'[HD] # "spin" => disk'.status = "idle" /\ Quiet' /\ todo' = 0
    BY <1>6, <1>7, <2>1 DEF Quiet
  <2> QED  BY <1>6, <1>10, <2>2, Resting
<1> QED  BY <1>5, <1>9, <1>11 DEF IInv

LEMMA StepFsAwait == IInv /\ FsAwait => IInv'
<1> SUFFICES ASSUME IInv, FsAwait PROVE IInv'
  OBVIOUS
<1>0. Queues /\ Calls /\ Messages
  BY DEF IInv
<1>1. call[FS] = K!Idle /\ pc[FS] = "sent" /\ K!StartReceive(FS, HD) /\ Goto(FS, "wait")
      /\ UNCHANGED <<hdVars, fsbuf, disk>>
  BY DEF FsAwait, At
<1>2. /\ pc'[FS] = "wait" /\ pc'[HD] = pc[HD] /\ pc'[SYS] = pc[SYS]
      /\ pc' = [u \in Tasks |-> pc'[u]]
  BY <1>0, <1>1, Distinct, Gone
<1>3. /\ call'[FS] = K!Receiving(HD) /\ call'[HD] = call[HD] /\ call'[SYS] = call[SYS]
      /\ msg'[HD] = msg[HD] /\ msg'[SYS] = msg[SYS]
      /\ waiting' = waiting /\ pending' = pending
      /\ call' = [u \in Tasks |-> call'[u]] /\ waiting' = [u \in Tasks |-> waiting'[u]]
      /\ msg' = [u \in Tasks |-> msg'[u]]
  BY <1>0, <1>1, Distinct, Receives
<1>4. Waits /\ Waits'
  BY <1>1, <1>2, <1>3 DEF Waits, K!Receiving
<1>5. (Serves' <=> Serves) /\ (Asked' <=> Asked) /\ (AwaitsTime' <=> AwaitsTime)
      /\ (Taken' <=> Taken)
  BY <1>2, <1>3 DEF Serves, Taken, Asked, AwaitsTime, K!Idle, K!Sending, K!Receiving
<1>6. Calls'
  BY <1>0, <1>2, <1>3, <1>4, <1>5, Distinct DEF Calls, FsCalls, SysCalls, HdCalls
<1>7. call'[FS] # K!Sending(HD) /\ call[FS] # K!Sending(HD)
  BY <1>1, <1>3, Distinct
<1>8. Queues'
  BY <1>0, <1>2, <1>3, <1>7 DEF Queues, K!Sending
<1>9. hdmsg' = hdmsg /\ open_cnt' = open_cnt
  BY <1>1 DEF hdVars
<1>10. Messages'
  BY <1>0, <1>1, <1>2, <1>3, <1>5, <1>7, <1>9
     DEF Messages, Opened, IsRequest, K!Sending, K!Idle
<1>11. TypeOK' /\ DiskType' /\ Driver'
  BY <1>1, <1>2, <1>3, DriverStays
<1> QED  BY <1>6, <1>8, <1>10, <1>11 DEF IInv

LEMMA StepFsDone == IInv /\ FsDone => IInv'
<1> SUFFICES ASSUME IInv, FsDone PROVE IInv'
  OBVIOUS
<1>0. Queues /\ Calls /\ Messages
  BY DEF IInv
<1>1. call[FS] = K!Idle /\ pc[FS] = "wait" /\ Goto(FS, "idle")
      /\ UNCHANGED <<kernelVars, hdVars, fsbuf, disk>>
  BY DEF FsDone, At
<1>2. /\ pc'[FS] = "idle" /\ pc'[HD] = pc[HD] /\ pc'[SYS] = pc[SYS]
      /\ pc' = [u \in Tasks |-> pc'[u]]
  BY <1>0, <1>1, Distinct, Gone
<1>3. UNCHANGED <<call, waiting, msg, pending, hdmsg, open_cnt>>
  BY <1>1 DEF kernelVars, hdVars
<1>4. ~Waits /\ ~Waits'
  BY <1>1, <1>2, <1>3, Distinct DEF Waits
<1>5. (Serves' <=> Serves) /\ (Asked' <=> Asked) /\ (AwaitsTime' <=> AwaitsTime)
      /\ (Taken' <=> Taken)
  BY <1>2, <1>3 DEF Serves, Taken, Asked, AwaitsTime, K!Idle, K!Sending, K!Receiving
<1>6. Calls'
  BY <1>0, <1>1, <1>2, <1>3, <1>4, <1>5 DEF Calls, FsCalls, SysCalls, HdCalls,
     K!Idle, K!Sending, K!Receiving
<1>7. Queues'
  BY <1>0, <1>2, <1>3 DEF Queues, K!Sending
<1>8. Messages'
  BY <1>0, <1>1, <1>2, <1>3, <1>5, Distinct
     DEF Messages, Opened, IsRequest, K!Sending, K!Idle
<1>9. TypeOK' /\ DiskType' /\ Driver'
  BY <1>1, <1>2, <1>3, DriverStays
<1> QED  BY <1>6, <1>7, <1>8, <1>9 DEF IInv

LEMMA StepSysMain == IInv /\ SysMain => IInv'
<1> SUFFICES ASSUME IInv, SysMain PROVE IInv'
  OBVIOUS
<1>0. Queues /\ Calls /\ Messages
  BY DEF IInv
<1>1. call[SYS] = K!Idle /\ pc[SYS] = "main" /\ K!StartReceive(SYS, ANY)
      /\ Goto(SYS, "answer") /\ UNCHANGED <<hdVars, fsbuf, disk>>
  BY DEF SysMain, At
<1>2. /\ pc'[SYS] = "answer" /\ pc'[HD] = pc[HD] /\ pc'[FS] = pc[FS]
      /\ pc' = [u \in Tasks |-> pc'[u]]
  BY <1>0, <1>1, Distinct, Gone
<1>3. /\ call'[SYS] = K!Receiving(ANY) /\ call'[HD] = call[HD] /\ call'[FS] = call[FS]
      /\ msg'[HD] = msg[HD] /\ msg'[FS] = msg[FS]
      /\ waiting' = waiting /\ pending' = pending
      /\ call' = [u \in Tasks |-> call'[u]] /\ waiting' = [u \in Tasks |-> waiting'[u]]
      /\ msg' = [u \in Tasks |-> msg'[u]]
  BY <1>0, <1>1, Distinct, Receives
<1>4. ~Asked /\ ~Asked'
  BY <1>1, <1>2, <1>3, Distinct DEF Asked
<1>5. (Serves' <=> Serves) /\ (Waits' <=> Waits) /\ (AwaitsTime' <=> AwaitsTime)
      /\ (Taken' <=> Taken)
  BY <1>2, <1>3 DEF Serves, Taken, Waits, AwaitsTime, K!Idle, K!Sending, K!Receiving
<1>6. Calls'
  BY <1>0, <1>2, <1>3, <1>4, <1>5, Distinct DEF Calls, FsCalls, SysCalls, HdCalls
<1>7. call'[SYS] # K!Sending(HD) /\ call[SYS] # K!Sending(HD) /\ call'[SYS] # K!Idle
  BY <1>1, <1>3, Distinct
<1>8. Queues'
  BY <1>0, <1>2, <1>3, <1>7 DEF Queues, K!Sending
<1>9. hdmsg' = hdmsg /\ open_cnt' = open_cnt
  BY <1>1 DEF hdVars
<1>10. Messages'
  BY <1>0, <1>1, <1>2, <1>3, <1>5, <1>7, <1>9
     DEF Messages, Opened, IsRequest, K!Sending, K!Idle
<1>11. TypeOK' /\ DiskType' /\ Driver'
  BY <1>1, <1>2, <1>3, DriverStays
<1> QED  BY <1>6, <1>8, <1>10, <1>11 DEF IInv

\* SYS answers who asked it, HD.
LEMMA StepSysAnswer == IInv /\ SysAnswer => IInv'
<1> SUFFICES ASSUME IInv, SysAnswer PROVE IInv'
  OBVIOUS
<1>0. Queues /\ Calls /\ Messages
  BY DEF IInv
<1>1. call[SYS] = K!Idle /\ pc[SYS] = "answer"
      /\ K!StartSend(SYS, msg[SYS].source, msg[SYS].body)
      /\ Goto(SYS, "main") /\ UNCHANGED <<hdVars, fsbuf, disk>>
  BY DEF SysAnswer, At
<1>a. PICK body : K!StartSend(SYS, HD, body)
  BY <1>0, <1>1 DEF Messages
<1>2. /\ pc'[SYS] = "main" /\ pc'[HD] = pc[HD] /\ pc'[FS] = pc[FS]
      /\ pc' = [u \in Tasks |-> pc'[u]]
  BY <1>0, <1>1, Distinct, Gone
<1>3. /\ call'[SYS] = K!Sending(HD) /\ call'[HD] = call[HD] /\ call'[FS] = call[FS]
      /\ msg'[HD] = msg[HD] /\ msg'[FS] = msg[FS]
      /\ waiting'[HD] = Append(waiting[HD], SYS)
      /\ waiting'[FS] = waiting[FS] /\ waiting'[SYS] = waiting[SYS]
      /\ pending' = pending
      /\ call' = [u \in Tasks |-> call'[u]] /\ waiting' = [u \in Tasks |-> waiting'[u]]
      /\ msg' = [u \in Tasks |-> msg'[u]]
  BY <1>0, <1>a, Distinct, Sends
<1>4. Asked /\ Asked'
  BY <1>1, <1>2, <1>3 DEF Asked, K!Sending
<1>5. (Serves' <=> Serves) /\ (Waits' <=> Waits) /\ (AwaitsTime' <=> AwaitsTime)
      /\ (Taken' <=> Taken)
  BY <1>2, <1>3 DEF Serves, Taken, Waits, AwaitsTime, K!Idle, K!Sending, K!Receiving
<1>6. Calls'
  BY <1>0, <1>2, <1>3, <1>4, <1>5, Distinct DEF Calls, FsCalls, SysCalls, HdCalls
<1>7. call[FS] # K!Sending(HD) /\ call[SYS] # K!Sending(HD)
  <2>1. Waits
    BY <1>0, <1>4 DEF Calls, AwaitsTime, Serves, Working
  <2> QED  BY <1>1, <2>1, Distinct DEF Waits
<1>8. waiting'[HD] = <<SYS>>
  <2>1. waiting[HD] = <<>>
    BY <1>0, <1>7 DEF Queues
  <2> QED  BY <1>3, <2>1
<1>9. Queues'
  BY <1>0, <1>2, <1>3, <1>7, <1>8 DEF Queues, K!Sending
<1>10. hdmsg' = hdmsg /\ open_cnt' = open_cnt
  BY <1>1 DEF hdVars
<1>11. Messages'
  BY <1>0, <1>1, <1>2, <1>3, <1>5, <1>10
     DEF Messages, Opened, IsRequest, K!Sending, K!Idle
<1>12. TypeOK' /\ DiskType' /\ Driver'
  BY <1>1, <1>2, <1>3, DriverStays
<1> QED  BY <1>6, <1>9, <1>11, <1>12 DEF IInv

----------------------------------------------------------------------------
(* TASK_HD: its calls. *)

\* A step of HD that keeps what it serves and awaits leaves the others' part.
LEMMA OthersStay ==
    ASSUME IInv,
           pc'[FS] = pc[FS], pc'[SYS] = pc[SYS],
           call'[FS] = call[FS], call'[SYS] = call[SYS],
           HdCalls', Serves' <=> Serves, AwaitsTime' <=> AwaitsTime
    PROVE  Calls'
<1>1. Calls
  BY DEF IInv
<1>2. (Waits' <=> Waits) /\ (Asked' <=> Asked)
  BY DEF Waits, Asked, K!Idle, K!Sending, K!Receiving
<1> QED  BY <1>1, <1>2 DEF Calls, FsCalls, SysCalls, K!Idle, K!Sending, K!Receiving

LEMMA StepHdMain == IInv /\ HdMain => IInv'
<1> SUFFICES ASSUME IInv, HdMain PROVE IInv'
  OBVIOUS
<1>0. Queues /\ Calls /\ Messages
  BY DEF IInv
<1>1. call[HD] = K!Idle /\ pc[HD] = "main" /\ K!StartReceive(HD, ANY)
      /\ Goto(HD, "dispatch") /\ UNCHANGED <<hdVars, fsbuf, disk>>
  BY DEF HdMain, At
<1>2. /\ pc'[HD] = "dispatch" /\ pc'[SYS] = pc[SYS] /\ pc'[FS] = pc[FS]
      /\ pc' = [u \in Tasks |-> pc'[u]]
  BY <1>0, <1>1, Distinct, Gone
<1>3. /\ call'[HD] = K!Receiving(ANY) /\ call'[SYS] = call[SYS] /\ call'[FS] = call[FS]
      /\ msg'[SYS] = msg[SYS] /\ msg'[FS] = msg[FS]
      /\ waiting' = waiting /\ pending' = pending
      /\ call' = [u \in Tasks |-> call'[u]] /\ waiting' = [u \in Tasks |-> waiting'[u]]
      /\ msg' = [u \in Tasks |-> msg'[u]]
  BY <1>0, <1>1, Distinct, Receives
<1>4. HdCalls'
  BY <1>2, <1>3 DEF HdCalls, K!Receiving
<1>5. ~Serves /\ ~Serves' /\ ~AwaitsTime /\ ~AwaitsTime' /\ ~Taken /\ ~Taken'
  BY <1>1, <1>2, <1>3, Distinct DEF Serves, Taken, AwaitsTime, Working
<1>6. Calls'
  BY <1>2, <1>3, <1>4, <1>5, OthersStay
<1>7. /\ call[HD] # K!Sending(FS) /\ call[HD] # K!Sending(SYS)
      /\ call'[HD] # K!Sending(FS) /\ call'[HD] # K!Sending(SYS)
  BY <1>1, <1>3, Distinct
<1>8. Queues'
  BY <1>0, <1>2, <1>3, <1>7 DEF Queues, K!Sending
<1>9. UNCHANGED <<hdmsg, open_cnt, todo, left, timed, wants, fsbuf, disk>>
  BY <1>1 DEF hdVars
<1>10. Messages'
  BY <1>0, <1>2, <1>3, <1>5, <1>7, <1>9
     DEF Messages, Opened, IsRequest, Working, K!Sending, K!Idle
<1>11. Driver'
  BY <1>1, <1>2, <1>3, <1>9, Resting DEF IInv, Driver, Rests, Quiet
<1>12. TypeOK' /\ DiskType'
  BY <1>2, <1>9 DEF IInv, TypeOK, DiskType, Sectors
<1> QED  BY <1>6, <1>8, <1>10, <1>11, <1>12 DEF IInv

\* While HD waits for the disk to get ready, its place does not matter.
Timing == {"ticks", "ticksSent", "poll", "panic"}

LEMMA TimingStays ==
    ASSUME IInv, pc[HD] \in Timing, pc'[HD] \in Timing,
           UNCHANGED <<hdmsg, todo, left, wants, fsbuf, disk, pending>>
    PROVE  Driver'
<1>1. Driver
  BY DEF IInv
<1>2. Rests'
  BY DEF Rests, Timing
<1>3. InRequest'
  BY <1>1 DEF Driver, InRequest, Working, Timing
<1>4. (Quiet' <=> Quiet) /\ (Writing' <=> Writing)
  BY DEF Quiet, Writing
<1>5. BeforeCommand'
  BY <1>1, <1>4 DEF Driver, BeforeCommand, Timing, Where, Done, Agree
<1>6. InCommand'
  BY DEF InCommand, Awaiting, Arrived, Timing
<1> QED  BY <1>2, <1>3, <1>5, <1>6 DEF Driver

LEMMA StepHdTicks == IInv /\ HdTicks => IInv'
<1> SUFFICES ASSUME IInv, HdTicks PROVE IInv'
  OBVIOUS
<1>0. Queues /\ Calls /\ Messages
  BY DEF IInv
<1>1. call[HD] = K!Idle /\ pc[HD] = "ticks" /\ K!StartSend(HD, SYS, Body("GET_TICKS", 0, 0))
      /\ Goto(HD, "ticksSent") /\ UNCHANGED <<hdVars, fsbuf, disk>>
  BY DEF HdTicks, At
<1>2. /\ pc'[HD] = "ticksSent" /\ pc'[SYS] = pc[SYS] /\ pc'[FS] = pc[FS]
      /\ pc' = [u \in Tasks |-> pc'[u]]
  BY <1>0, <1>1, Distinct, Gone
<1>3. /\ call'[HD] = K!Sending(SYS) /\ call'[SYS] = call[SYS] /\ call'[FS] = call[FS]
      /\ msg'[SYS] = msg[SYS] /\ msg'[FS] = msg[FS]
      /\ msg'[HD] = [source |-> HD, body |-> Body("GET_TICKS", 0, 0)]
      /\ waiting'[SYS] = Append(waiting[SYS], HD)
      /\ waiting'[FS] = waiting[FS] /\ waiting'[HD] = waiting[HD]
      /\ pending' = pending
      /\ call' = [u \in Tasks |-> call'[u]] /\ waiting' = [u \in Tasks |-> waiting'[u]]
      /\ msg' = [u \in Tasks |-> msg'[u]]
  BY <1>0, <1>1, Distinct, Sends
<1>4. HdCalls'
  BY <1>2, <1>3 DEF HdCalls
<1>5. Serves /\ Serves' /\ ~AwaitsTime /\ ~AwaitsTime' /\ ~Taken /\ ~Taken'
  BY <1>1, <1>2, <1>3, Distinct DEF Serves, Taken, AwaitsTime, Working
<1>6. Calls'
  BY <1>2, <1>3, <1>4, <1>5, OthersStay
<1>7. call[HD] # K!Sending(FS) /\ call[HD] # K!Sending(SYS) /\ call'[HD] # K!Sending(FS)
  BY <1>1, <1>3, Distinct
<1>8. waiting'[SYS] = <<HD>>
  <2>1. waiting[SYS] = <<>>
    BY <1>0, <1>7 DEF Queues
  <2> QED  BY <1>3, <2>1
<1>9. Queues'
  BY <1>0, <1>2, <1>3, <1>7, <1>8 DEF Queues, K!Sending
<1>10. UNCHANGED <<hdmsg, open_cnt, todo, left, timed, wants, fsbuf, disk>>
  BY <1>1 DEF hdVars
<1>11. msg'[HD].source = HD
  BY <1>3
<1>12. Messages'
  BY <1>0, <1>1, <1>2, <1>3, <1>5, <1>10, <1>11
     DEF Messages, Opened, IsRequest, Working, K!Sending, K!Idle
<1>13. Driver'
  BY <1>1, <1>2, <1>3, <1>10, TimingStays DEF Timing
<1>14. TypeOK' /\ DiskType'
  BY <1>2, <1>10 DEF IInv, TypeOK, DiskType, Sectors
<1> QED  BY <1>6, <1>9, <1>12, <1>13, <1>14 DEF IInv

LEMMA StepHdTicksAwait == IInv /\ HdTicksAwait => IInv'
<1> SUFFICES ASSUME IInv, HdTicksAwait PROVE IInv'
  OBVIOUS
<1>0. Queues /\ Calls /\ Messages
  BY DEF IInv
<1>1. call[HD] = K!Idle /\ pc[HD] = "ticksSent" /\ K!StartReceive(HD, SYS)
      /\ Goto(HD, "poll") /\ UNCHANGED <<hdVars, fsbuf, disk>>
  BY DEF HdTicksAwait, At
<1>2. /\ pc'[HD] = "poll" /\ pc'[SYS] = pc[SYS] /\ pc'[FS] = pc[FS]
      /\ pc' = [u \in Tasks |-> pc'[u]]
  BY <1>0, <1>1, Distinct, Gone
<1>3. /\ call'[HD] = K!Receiving(SYS) /\ call'[SYS] = call[SYS] /\ call'[FS] = call[FS]
      /\ msg'[SYS] = msg[SYS] /\ msg'[FS] = msg[FS]
      /\ waiting' = waiting /\ pending' = pending
      /\ call' = [u \in Tasks |-> call'[u]] /\ waiting' = [u \in Tasks |-> waiting'[u]]
      /\ msg' = [u \in Tasks |-> msg'[u]]
  BY <1>0, <1>1, Distinct, Receives
<1>4. HdCalls'
  BY <1>2, <1>3 DEF HdCalls
<1>5. Serves /\ Serves' /\ AwaitsTime /\ AwaitsTime' /\ ~Taken /\ ~Taken'
  BY <1>1, <1>2, <1>3, Distinct DEF Serves, Taken, AwaitsTime, Working
<1>6. Calls'
  BY <1>2, <1>3, <1>4, <1>5, OthersStay
<1>7. /\ call[HD] # K!Sending(FS) /\ call[HD] # K!Sending(SYS)
      /\ call'[HD] # K!Sending(FS) /\ call'[HD] # K!Sending(SYS)
  BY <1>1, <1>3, Distinct
<1>8. Queues'
  BY <1>0, <1>2, <1>3, <1>7 DEF Queues, K!Sending
<1>9. UNCHANGED <<hdmsg, open_cnt, todo, left, timed, wants, fsbuf, disk>>
  BY <1>1 DEF hdVars
<1>10. Messages'
  BY <1>0, <1>1, <1>2, <1>3, <1>5, <1>7, <1>9
     DEF Messages, Opened, IsRequest, Working, K!Sending, K!Idle
<1>11. Driver'
  BY <1>1, <1>2, <1>3, <1>9, TimingStays DEF Timing
<1>12. TypeOK' /\ DiskType'
  BY <1>2, <1>9 DEF IInv, TypeOK, DiskType, Sectors
<1> QED  BY <1>6, <1>8, <1>10, <1>11, <1>12 DEF IInv

LEMMA StepHdReply == IInv /\ HdReply => IInv'
<1> SUFFICES ASSUME IInv, HdReply PROVE IInv'
  OBVIOUS
<1>0. Queues /\ Calls /\ Messages
  BY DEF IInv
<1>1. call[HD] = K!Idle /\ pc[HD] = "reply" /\ K!StartSend(HD, hdmsg.source, hdmsg.body)
      /\ Goto(HD, "main") /\ UNCHANGED <<hdVars, fsbuf, disk>>
  BY DEF HdReply, At
<1>a. PICK body : K!StartSend(HD, FS, body)
  BY <1>0, <1>1 DEF Messages, Working
<1>2. /\ pc'[HD] = "main" /\ pc'[SYS] = pc[SYS] /\ pc'[FS] = pc[FS]
      /\ pc' = [u \in Tasks |-> pc'[u]]
  BY <1>0, <1>1, Distinct, Gone
<1>3. /\ call'[HD] = K!Sending(FS) /\ call'[SYS] = call[SYS] /\ call'[FS] = call[FS]
      /\ msg'[SYS] = msg[SYS] /\ msg'[FS] = msg[FS]
      /\ waiting'[FS] = Append(waiting[FS], HD)
      /\ waiting'[SYS] = waiting[SYS] /\ waiting'[HD] = waiting[HD]
      /\ pending' = pending
      /\ call' = [u \in Tasks |-> call'[u]] /\ waiting' = [u \in Tasks |-> waiting'[u]]
      /\ msg' = [u \in Tasks |-> msg'[u]]
  BY <1>0, <1>a, Distinct, Sends
<1>4. HdCalls'
  BY <1>2, <1>3 DEF HdCalls
<1>5. Serves /\ Serves' /\ ~AwaitsTime /\ ~AwaitsTime' /\ ~Taken /\ ~Taken'
  BY <1>1, <1>2, <1>3, Distinct DEF Serves, Taken, AwaitsTime, Working
<1>6. Calls'
  BY <1>2, <1>3, <1>4, <1>5, OthersStay
<1>7. call[HD] # K!Sending(FS) /\ call[HD] # K!Sending(SYS) /\ call'[HD] # K!Sending(SYS)
  BY <1>1, <1>3, Distinct
<1>8. waiting'[FS] = <<HD>>
  <2>1. waiting[FS] = <<>>
    BY <1>0, <1>7 DEF Queues
  <2> QED  BY <1>3, <2>1
<1>9. Queues'
  BY <1>0, <1>2, <1>3, <1>7, <1>8 DEF Queues, K!Sending
<1>10. UNCHANGED <<hdmsg, open_cnt, todo, left, timed, wants, fsbuf, disk>>
  BY <1>1 DEF hdVars
<1>11. Messages'
  BY <1>0, <1>1, <1>2, <1>3, <1>5, <1>7, <1>10
     DEF Messages, Opened, IsRequest, Working, K!Sending, K!Idle
<1>12. Driver'
  BY <1>1, <1>2, <1>3, <1>10, Resting DEF IInv, Driver, Rests, Quiet
<1>13. TypeOK' /\ DiskType'
  BY <1>2, <1>10 DEF IInv, TypeOK, DiskType, Sectors
<1> QED  BY <1>6, <1>9, <1>11, <1>12, <1>13 DEF IInv

\* HD waits for the interrupt of a command, which may be there already.
LEMMA StepHdIntWait == IInv /\ HdIntWait => IInv'
<1> SUFFICES ASSUME IInv, HdIntWait PROVE IInv'
  OBVIOUS
<1>0. Queues /\ Calls /\ Messages /\ Driver /\ DiskType
  BY DEF IInv
<1> DEFINE place == IF disk.command = "write" THEN "written" ELSE "portRead"
<1>1. call[HD] = K!Idle /\ pc[HD] = "intWait" /\ K!StartReceive(HD, INTERRUPT)
      /\ Goto(HD, place) /\ UNCHANGED <<hdVars, fsbuf, disk>>
  BY DEF HdIntWait, At
<1>2. /\ pc'[HD] = place /\ pc'[SYS] = pc[SYS] /\ pc'[FS] = pc[FS]
      /\ pc' = [u \in Tasks |-> pc'[u]]
  BY <1>0, <1>1, Distinct, Gone
<1>3. /\ call'[HD] = K!Receiving(INTERRUPT) /\ call'[SYS] = call[SYS] /\ call'[FS] = call[FS]
      /\ msg'[SYS] = msg[SYS] /\ msg'[FS] = msg[FS]
      /\ waiting' = waiting /\ pending' = pending
      /\ call' = [u \in Tasks |-> call'[u]] /\ waiting' = [u \in Tasks |-> waiting'[u]]
      /\ msg' = [u \in Tasks |-> msg'[u]]
  BY <1>0, <1>1, Distinct, Receives
<1>p. pc'[HD] \in {"portRead", "written"}
  BY <1>2
<1>4. HdCalls'
  BY <1>p, <1>3 DEF HdCalls
<1>5. Serves /\ Serves' /\ ~AwaitsTime /\ ~AwaitsTime' /\ ~Taken /\ ~Taken'
  BY <1>1, <1>p, <1>3, Distinct DEF Serves, Taken, AwaitsTime, Working
<1>6. Calls'
  BY <1>2, <1>3, <1>4, <1>5, OthersStay
<1>7. /\ call[HD] # K!Sending(FS) /\ call[HD] # K!Sending(SYS)
      /\ call'[HD] # K!Sending(FS) /\ call'[HD] # K!Sending(SYS) /\ call'[HD] # K!Idle
  BY <1>1, <1>3, Distinct
<1>8. Queues'
  BY <1>0, <1>2, <1>3, <1>7 DEF Queues, K!Sending
<1>9. UNCHANGED <<hdmsg, open_cnt, todo, left, timed, wants, fsbuf, disk>>
  BY <1>1 DEF hdVars
<1>10. Messages'
  BY <1>0, <1>1, <1>2, <1>3, <1>5, <1>7, <1>9, <1>p
     DEF Messages, Opened, IsRequest, Working, K!Sending, K!Idle
<1>11. Driver'
  <2>1. Awaiting /\ ~Arrived /\ Awaiting' /\ ~Arrived'
    BY <1>1, <1>p, <1>7 DEF Awaiting, Arrived, K!Idle
  <2>2. (Quiet' <=> Quiet) /\ (Coming' <=> Coming) /\ (Writing' <=> Writing)
    BY <1>3, <1>9 DEF Quiet, Coming, Writing
  <2>3. Rests'
    BY <1>p DEF Rests
  <2>4. InRequest'
    BY <1>0, <1>1, <1>p, <1>9 DEF Driver, InRequest, Working
  <2>5. BeforeCommand'
    BY <1>p DEF BeforeCommand
  <2>6. InCommand'
    BY <1>0, <1>2, <1>9, <2>1, <2>2 DEF Driver, InCommand, DiskType, Where, Done, Agree
  <2> QED  BY <2>3, <2>4, <2>5, <2>6 DEF Driver
<1>12. TypeOK' /\ DiskType'
  BY <1>p, <1>9 DEF IInv, TypeOK, DiskType, Sectors
<1> QED  BY <1>6, <1>8, <1>10, <1>11, <1>12 DEF IInv

----------------------------------------------------------------------------
(* TASK_HD: its work on a request. *)

LEMMA TypesKept ==
    ASSUME DiskType', fsbuf' \in [0 .. MaxSectors - 1 -> Values],
           pc'[HD] \in Working \cup {"main", "dispatch", "spin"},
           open_cnt' \in 0 .. 2, todo' \in 0 .. MaxTables + 1, left' \in 0 .. MaxSectors,
           timed' \in BOOLEAN
    PROVE  TypeOK'
<1>1. /\ disk'.status \in {"idle", "busy", "prepare", "store", "DRQ"}
      /\ disk'.data \in [Sectors -> Values] /\ disk'.pos \in 0 .. NSectors
  BY DEF DiskType
<1>2. pc'[HD] \in {"main", "dispatch", "ticks", "ticksSent", "poll", "cmdOut",
                   "intWait", "portRead", "portWrite", "written", "reply",
                   "spin", "panic"}
  BY DEF Working
<1> QED  BY <1>1, <1>2 DEF TypeOK, Sectors

\* HD takes the request it has received.
LEMMA Dispatched ==
    ASSUME IInv, NEW types, NEW place \in {"ticks", "reply"}, Dispatch(types), Goto(HD, place),
           open_cnt' = CASE msg[HD].body.type = "DEV_OPEN" -> open_cnt + 1
                         [] msg[HD].body.type = "DEV_CLOSE" -> open_cnt - 1
                         [] OTHER -> open_cnt
    PROVE  /\ Calls' /\ Queues' /\ Messages' /\ DiskType'
           /\ pc'[HD] = place /\ open_cnt' \in 1 .. 2
           /\ hdmsg' = msg[HD] /\ IsRequest(hdmsg'.body) /\ Opened(hdmsg'.body)
           /\ wants' = "notBusy" /\ timed' = FALSE /\ disk' = disk /\ fsbuf' = fsbuf
           /\ disk.status = "idle" /\ Quiet /\ Quiet' /\ todo = 0
<1>0. Queues /\ Calls /\ Messages /\ Driver /\ open_cnt \in 0 .. 2
  BY DEF IInv, TypeOK
<1>1. call[HD] = K!Idle /\ pc[HD] = "dispatch"
      /\ hdmsg' = msg[HD] /\ wants' = "notBusy" /\ timed' = FALSE
      /\ UNCHANGED <<kernelVars, fsbuf, disk>>
  BY DEF Dispatch, At
<1>2. /\ pc'[HD] = place /\ pc'[SYS] = pc[SYS] /\ pc'[FS] = pc[FS]
      /\ pc' = [u \in Tasks |-> pc'[u]]
  BY <1>0, Distinct, Gone
<1>3. UNCHANGED <<call, waiting, msg, pending>>
  BY <1>1 DEF kernelVars
<1>4. HdCalls'
  BY <1>1, <1>2, <1>3 DEF HdCalls, K!Idle
<1>5. Serves /\ Serves' /\ ~AwaitsTime /\ ~AwaitsTime' /\ Taken /\ ~Taken'
  BY <1>1, <1>2, <1>3, Distinct DEF Serves, Taken, AwaitsTime, Working
<1>6. Calls'
  BY <1>2, <1>3, <1>4, <1>5, OthersStay
<1>7. Queues'
  BY <1>0, <1>2, <1>3 DEF Queues, K!Sending
<1>8. msg[HD].source = FS /\ IsRequest(msg[HD].body) /\ Opened(msg[HD].body)
  BY <1>0, <1>5 DEF Messages
<1>9. open_cnt' \in 1 .. 2
  BY <1>0, <1>8 DEF Opened
<1>10. pc'[FS] # "open" /\ call'[FS] # K!Sending(HD)
  <2>1. Waits
    BY <1>0, <1>5 DEF Calls
  <2> QED  BY <1>2, <1>3, <2>1, Distinct DEF Waits
<1>11. hdmsg'.source = FS /\ IsRequest(hdmsg'.body) /\ IsRequest(hdmsg.body)'
  BY <1>1, <1>8 DEF IsRequest
<1>12. Messages'
  BY <1>0, <1>1, <1>2, <1>3, <1>5, <1>9, <1>10, <1>11 DEF Messages, K!Sending, K!Idle
<1>13. disk.status = "idle" /\ Quiet /\ todo = 0
  BY <1>0, <1>1 DEF Driver, Rests
<1>14. DiskType' /\ Quiet'
  BY <1>1, <1>3, <1>13 DEF IInv, DiskType, Sectors, Quiet
<1> QED  BY <1>1, <1>2, <1>6, <1>7, <1>8, <1>9, <1>11, <1>12, <1>13, <1>14

LEMMA StepHdOpen == IInv /\ HdOpen => IInv'
<1> SUFFICES ASSUME IInv, HdOpen PROVE IInv'
  OBVIOUS
<1>1. /\ Dispatch({"DEV_OPEN"}) /\ msg[HD].body.type = "DEV_OPEN"
      /\ open_cnt' = open_cnt + 1 /\ todo' \in 1 .. MaxTables + 1
      /\ Goto(HD, "ticks") /\ left' = left
  BY Numbers DEF HdOpen, Dispatch
<1>2. /\ Calls' /\ Queues' /\ Messages' /\ DiskType'
      /\ pc'[HD] = "ticks" /\ open_cnt' \in 1 .. 2
      /\ hdmsg' = msg[HD] /\ wants' = "notBusy" /\ timed' = FALSE
      /\ disk' = disk /\ fsbuf' = fsbuf /\ disk.status = "idle" /\ Quiet'
  BY <1>1, Dispatched
<1>3. Driver'
  <2>1. Rests' /\ InCommand'
    BY <1>2 DEF Rests, InCommand, Awaiting, Arrived
  <2>2. InRequest'
    BY <1>1, <1>2 DEF InRequest
  <2>3. BeforeCommand'
    BY <1>1, <1>2 DEF BeforeCommand
  <2> QED  BY <2>1, <2>2, <2>3 DEF Driver
<1>4. TypeOK'
  <2>1. open_cnt' \in 0 .. 2 /\ todo' \in 0 .. MaxTables + 1
    BY <1>1, <1>2, Numbers
  <2>2. left' \in 0 .. MaxSectors /\ fsbuf' \in [0 .. MaxSectors - 1 -> Values]
    BY <1>1, <1>2 DEF IInv, TypeOK
  <2> QED  BY <1>2, <2>1, <2>2, TypesKept DEF Working
<1> QED  BY <1>2, <1>3, <1>4 DEF IInv

LEMMA StepHdCloseIoctl == IInv /\ HdCloseIoctl => IInv'
<1> SUFFICES ASSUME IInv, HdCloseIoctl PROVE IInv'
  OBVIOUS
<1>1. /\ Dispatch({"DEV_CLOSE", "DEV_IOCTL"}) /\ msg[HD].body.type \in {"DEV_CLOSE", "DEV_IOCTL"}
      /\ open_cnt' = IF msg[HD].body.type = "DEV_CLOSE" THEN open_cnt - 1 ELSE open_cnt
      /\ Goto(HD, "reply") /\ todo' = todo /\ left' = left
  BY DEF HdCloseIoctl, Dispatch
<1>2. /\ Calls' /\ Queues' /\ Messages' /\ DiskType'
      /\ pc'[HD] = "reply" /\ open_cnt' \in 1 .. 2
      /\ hdmsg' = msg[HD] /\ wants' = "notBusy" /\ timed' = FALSE
      /\ disk' = disk /\ fsbuf' = fsbuf /\ disk.status = "idle" /\ Quiet' /\ todo = 0
  BY <1>1, Dispatched
<1>3. Driver'
  <2>1. Rests'
    BY <1>1, <1>2 DEF Rests, IoTypes
  <2>2. InRequest' /\ BeforeCommand' /\ InCommand'
    BY <1>2 DEF InRequest, Working, BeforeCommand, InCommand, Awaiting, Arrived
  <2> QED  BY <2>1, <2>2 DEF Driver
<1>4. TypeOK'
  <2>1. open_cnt' \in 0 .. 2 /\ todo' \in 0 .. MaxTables + 1
    BY <1>1, <1>2, Numbers
  <2>2. left' \in 0 .. MaxSectors /\ fsbuf' \in [0 .. MaxSectors - 1 -> Values]
    BY <1>1, <1>2 DEF IInv, TypeOK
  <2> QED  BY <1>2, <2>1, <2>2, TypesKept DEF Working
<1> QED  BY <1>2, <1>3, <1>4 DEF IInv

LEMMA StepHdRdwt == IInv /\ HdRdwt => IInv'
<1> SUFFICES ASSUME IInv, HdRdwt PROVE IInv'
  OBVIOUS
<1>1. /\ Dispatch(IoTypes) /\ msg[HD].body.type \in IoTypes
      /\ open_cnt' = open_cnt /\ Goto(HD, "ticks")
      /\ todo' = todo /\ left' = msg[HD].body.cnt
  BY DEF HdRdwt, Dispatch
<1>2. msg[HD].body.type # "DEV_OPEN" /\ msg[HD].body.type # "DEV_CLOSE"
      /\ msg[HD].body.type \notin {"DEV_OPEN", "DEV_CLOSE", "DEV_IOCTL"}
  BY <1>1 DEF IoTypes
<1>3. /\ Calls' /\ Queues' /\ Messages' /\ DiskType'
      /\ pc'[HD] = "ticks" /\ open_cnt' \in 1 .. 2
      /\ hdmsg' = msg[HD] /\ IsRequest(hdmsg'.body) /\ wants' = "notBusy" /\ timed' = FALSE
      /\ disk' = disk /\ fsbuf' = fsbuf /\ disk.status = "idle" /\ Quiet' /\ todo = 0
  BY <1>1, <1>2, Dispatched
<1>4. left' \in 1 .. MaxSectors
  BY <1>1, <1>2, <1>3 DEF IsRequest
<1>5. Driver'
  <2>1. Rests' /\ InCommand'
    BY <1>3 DEF Rests, InCommand, Awaiting, Arrived
  <2>2. InRequest'
    BY <1>1, <1>3, <1>4 DEF InRequest
  <2>3. BeforeCommand'
    BY <1>1, <1>3 DEF BeforeCommand
  <2> QED  BY <2>1, <2>2, <2>3 DEF Driver
<1>6. TypeOK'
  <2>1. open_cnt' \in 0 .. 2 /\ todo' \in 0 .. MaxTables + 1
    BY <1>1, <1>3, Numbers
  <2>2. left' \in 0 .. MaxSectors /\ fsbuf' \in [0 .. MaxSectors - 1 -> Values]
    BY <1>3, <1>4, Numbers DEF IInv, TypeOK
  <2> QED  BY <1>3, <2>1, <2>2, TypesKept DEF Working
<1> QED  BY <1>3, <1>5, <1>6 DEF IInv

\* HD goes on with a request.
LEMMA GoesOn ==
    ASSUME IInv, call[HD] = K!Idle, pc[HD] \in Working \ {"ticksSent"},
           NEW place \in Working \ {"ticksSent"}, Goto(HD, place),
           UNCHANGED <<kernelVars, hdmsg, open_cnt>>
    PROVE  /\ Calls' /\ Queues' /\ Messages' /\ pc'[HD] = place
           /\ hdmsg.source = FS /\ IsRequest(hdmsg.body)
           /\ call'[HD] = K!Idle /\ pending' = pending
<1>0. Queues /\ Calls /\ Messages
  BY DEF IInv
<1>1. /\ pc'[HD] = place /\ pc'[SYS] = pc[SYS] /\ pc'[FS] = pc[FS]
      /\ pc' = [u \in Tasks |-> pc'[u]]
  BY <1>0, Distinct, Gone
<1>2. UNCHANGED <<call, waiting, msg, pending>>
  BY DEF kernelVars
<1>3. HdCalls'
  BY <1>1, <1>2 DEF HdCalls, K!Idle, Working
<1>4. Serves /\ Serves' /\ ~AwaitsTime /\ ~AwaitsTime' /\ ~Taken /\ ~Taken'
  BY <1>1, <1>2, Distinct DEF Serves, Taken, AwaitsTime, Working
<1>5. Calls'
  BY <1>1, <1>2, <1>3, <1>4, OthersStay
<1>6. Queues'
  BY <1>0, <1>1, <1>2 DEF Queues, K!Sending
<1>7. Messages'
  BY <1>0, <1>1, <1>2, <1>4 DEF Messages, Opened, IsRequest, K!Sending, K!Idle
<1> QED  BY <1>0, <1>1, <1>2, <1>5, <1>6, <1>7 DEF Messages, K!Idle

LEMMA StepHdPoll == IInv /\ HdPoll => IInv'
<1> SUFFICES ASSUME IInv, HdPoll PROVE IInv'
  OBVIOUS
<1>1. /\ call[HD] = K!Idle /\ pc[HD] = "poll"
      /\ UNCHANGED <<kernelVars, hdmsg, open_cnt, todo, left, wants, fsbuf>>
  BY DEF HdPoll, At
<1>2. BeforeCommand /\ Quiet /\ disk.intrq = FALSE
  BY <1>1 DEF IInv, Driver, BeforeCommand, Quiet, DiskType
<1>3. [disk EXCEPT !.intrq = FALSE] = disk
  BY <1>2 DEF IInv, DiskType
<1>4. disk' = disk /\ timed' \in BOOLEAN
  BY <1>3 DEF HdPoll
<1>5. \/ Goto(HD, "ticks")
      \/ Goto(HD, "panic")
      \/ Goto(HD, "cmdOut") /\ Ready /\ wants # "DRQ"
      \/ Goto(HD, "portWrite") /\ Ready /\ wants = "DRQ"
  BY DEF HdPoll
<1>6. PICK place \in {"ticks", "panic", "cmdOut", "portWrite"} :
          /\ Goto(HD, place)
          /\ place = "cmdOut" => Ready /\ wants # "DRQ"
          /\ place = "portWrite" => Ready /\ wants = "DRQ"
  BY <1>5
<1>7. /\ Calls' /\ Queues' /\ Messages' /\ pc'[HD] = place
      /\ pending' = pending
  BY <1>1, <1>6, GoesOn DEF Working
<1>8. DiskType'
  BY <1>4 DEF IInv, DiskType, Sectors
<1>9. TypeOK'
  BY <1>1, <1>4, <1>6, <1>7, <1>8, TypesKept DEF Working, IInv, TypeOK
<1>10. Driver'
  <2>1. CASE place \in {"ticks", "panic"}
    BY <1>1, <1>4, <1>7, <2>1, TimingStays DEF Timing
  <2>2. CASE place = "cmdOut"
    <3>1. disk.status = "idle" /\ (todo = 0 => left = hdmsg.body.cnt)
      BY <1>1, <1>2, <1>6, <2>2 DEF BeforeCommand
    <3>2. Rests' /\ InCommand'
      BY <1>7, <2>2 DEF Rests, InCommand, Awaiting, Arrived
    <3>3. InRequest'
      BY <1>1, <1>7, <2>2 DEF IInv, Driver, InRequest, Working
    <3>4. BeforeCommand'
      BY <1>1, <1>2, <1>4, <1>7, <2>2, <3>1 DEF BeforeCommand, Quiet
    <3> QED  BY <3>2, <3>3, <3>4 DEF Driver
  <2>3. CASE place = "portWrite"
    <3>1. disk.status = "DRQ" /\ Writing /\ disk.command = "write"
          /\ Where(left, Done) /\ Agree(Done)
      BY <1>1, <1>2, <1>6, <2>3 DEF BeforeCommand, Ready
    <3>2. Rests' /\ InCommand'
      BY <1>7, <2>3 DEF Rests, InCommand, Awaiting, Arrived
    <3>3. InRequest'
      BY <1>1, <1>7, <2>3 DEF IInv, Driver, InRequest, Working
    <3>4. BeforeCommand'
      BY <1>1, <1>2, <1>4, <1>6, <1>7, <2>3, <3>1
         DEF BeforeCommand, Quiet, Writing, Where, Done, Agree
    <3> QED  BY <3>2, <3>3, <3>4 DEF Driver
  <2> QED  BY <1>6, <2>1, <2>2, <2>3
<1> QED  BY <1>7, <1>8, <1>9, <1>10 DEF IInv

\* A command of the longest request says 0, which the disk takes as that many.
LEMMA CountTold ==
    ASSUME NEW cnt \in 1 .. CountRange
    PROVE  LET n == SectorCount(cnt) IN (IF n = 0 THEN CountRange ELSE n) = cnt
<1>1. CASE cnt = CountRange
  BY <1>1, Numbers DEF SectorCount
<1>2. CASE cnt < CountRange
  <2>1. cnt % CountRange = cnt
    BY <1>2, Numbers
  <2> QED  BY <2>1 DEF SectorCount
<1> QED  BY <1>1, <1>2, Numbers

LEMMA StepHdCmdOut == MaxSectors <= CountRange /\ IInv /\ HdCmdOut => IInv'
<1> SUFFICES ASSUME MaxSectors <= CountRange, IInv, HdCmdOut PROVE IInv'
  OBVIOUS
<1> DEFINE cnt == hdmsg.body.cnt
           n == IF todo > 0 THEN 1 ELSE SectorCount(cnt)
           count == IF n = 0 THEN CountRange ELSE n
           pos == IF todo > 0 THEN 0 ELSE hdmsg.body.pos
<1>1. /\ call[HD] = K!Idle /\ pc[HD] = "cmdOut"
      /\ UNCHANGED <<kernelVars, hdmsg, open_cnt, todo, left, timed, fsbuf>>
  BY DEF HdCmdOut, At
<1>2. /\ disk' = [disk EXCEPT !.status = IF Writing THEN "prepare" ELSE "busy",
                             !.command = IF Writing THEN "write" ELSE "read",
                             !.pos = pos, !.count = count]
      /\ wants' = IF Writing THEN "DRQ" ELSE "notBusy"
      /\ Goto(HD, IF Writing THEN "ticks" ELSE "intWait")
  BY Zenon DEF HdCmdOut, Writing
<1>3. PICK place \in {"ticks", "intWait"} :
          Goto(HD, place) /\ place = IF Writing THEN "ticks" ELSE "intWait"
  BY <1>2
<1>4. /\ Calls' /\ Queues' /\ Messages' /\ pc'[HD] = place
      /\ IsRequest(hdmsg.body) /\ pending' = pending /\ call'[HD] = K!Idle
  BY <1>1, <1>3, GoesOn DEF Working
<1>5. /\ Quiet
      /\ todo = 0 => left = cnt
      /\ \/ todo > 0 /\ hdmsg.body.type = "DEV_OPEN"
         \/ todo = 0 /\ hdmsg.body.type \in IoTypes /\ left \in 1 .. cnt
  BY <1>1 DEF IInv, Driver, BeforeCommand, InRequest, Working
<1>6. todo = 0 => cnt \in 1 .. MaxSectors /\ hdmsg.body.pos \in Nat
                  /\ hdmsg.body.pos + cnt <= NSectors
  BY <1>4, <1>5 DEF IsRequest, IoTypes
<1>7. /\ todo > 0 => count = 1 /\ pos = 0
      /\ todo = 0 => count = left /\ pos = hdmsg.body.pos
  <2>1. CASE todo > 0
    BY <2>1, Numbers
  <2>2. CASE todo = 0
    <3>1. cnt \in 1 .. CountRange
      BY <1>6, <2>2, Numbers
    <3>2. count = cnt
      BY <2>2, <3>1, CountTold
    <3> QED  BY <1>5, <2>2, <3>2
  <2> QED  BY <1>5, <2>1, <2>2
<1>8. todo \in Nat /\ count \in 0 .. CountRange /\ pos \in 0 .. NSectors
  BY <1>5, <1>6, <1>7, Numbers DEF IInv, TypeOK
<1> HIDE DEF n, count, pos
<1>9. /\ disk'.status = (IF Writing THEN "prepare" ELSE "busy")
      /\ disk'.command = (IF Writing THEN "write" ELSE "read")
      /\ disk'.pos = pos /\ disk'.count = count
      /\ disk'.intrq = disk.intrq /\ disk'.data = disk.data
      /\ DiskType'
  BY <1>2, <1>8 DEF IInv, DiskType, Sectors
<1>10. TypeOK'
  BY <1>1, <1>3, <1>4, <1>9, TypesKept DEF Working, IInv, TypeOK
<1>11. Quiet' /\ (Writing' <=> Writing) /\ hdmsg' = hdmsg /\ todo' = todo /\ left' = left
  BY <1>1, <1>4, <1>5, <1>9 DEF Quiet, Writing
<1>12. todo = 0 => Done = 0 /\ Where(left, Done)' /\ Agree(Done)'
  <2> SUFFICES ASSUME todo = 0 PROVE Done = 0 /\ Where(left, Done)' /\ Agree(Done)'
    OBVIOUS
  <2>1. Done = 0 /\ Done' = 0
    BY <1>5, <1>6, <1>11, Numbers DEF Done
  <2>2. Where(left, Done)'
    BY <1>6, <1>7, <1>9, <1>11, <2>1 DEF Where
  <2>3. Agree(Done)'
    BY <2>1 DEF Agree
  <2> QED  BY <2>1, <2>2, <2>3
<1>13. Driver'
  <2>1. Rests'
    BY <1>3, <1>4 DEF Rests
  <2>2. InRequest'
    BY <1>5, <1>11 DEF InRequest
  <2>3. BeforeCommand'
    BY <1>2, <1>3, <1>4, <1>9, <1>11, <1>12 DEF BeforeCommand, Writing
  <2>4. InCommand'
    <3>1. CASE Writing
      BY <1>3, <1>4, <3>1 DEF InCommand, Awaiting, Arrived
    <3>2. CASE ~Writing
      BY <1>2, <1>3, <1>4, <1>7, <1>9, <1>11, <1>12, <3>2 DEF InCommand, Awaiting, Arrived
    <3> QED  BY <3>1, <3>2
  <2> QED  BY <2>1, <2>2, <2>3, <2>4 DEF Driver
<1> QED  BY <1>4, <1>9, <1>10, <1>13 DEF IInv

\* The numbers of a request for sectors that is not finished.
LEMMA Unfinished ==
    ASSUME IInv, pc[HD] \in Working \ {"reply"}, todo = 0
    PROVE  /\ hdmsg.body.type \in IoTypes /\ hdmsg.body.pos \in Nat
           /\ hdmsg.body.cnt \in 1 .. MaxSectors /\ hdmsg.body.pos + hdmsg.body.cnt <= NSectors
           /\ left \in 1 .. hdmsg.body.cnt
           /\ Done \in 0 .. MaxSectors - 1 /\ Done = hdmsg.body.cnt - left
           /\ hdmsg.body.pos + Done \in Sectors
<1>1. IsRequest(hdmsg.body) /\ hdmsg.body.type \in IoTypes /\ left \in 1 .. hdmsg.body.cnt
  BY DEF IInv, Messages, Driver, InRequest
<1>2. hdmsg.body.pos \in Nat /\ hdmsg.body.cnt \in 1 .. MaxSectors
      /\ hdmsg.body.pos + hdmsg.body.cnt <= NSectors
  BY <1>1 DEF IsRequest, IoTypes
<1>3. Done = hdmsg.body.cnt - left
  BY DEF Done
<1> HIDE DEF Done
<1>4. Done \in 0 .. MaxSectors - 1 /\ hdmsg.body.pos + Done \in 0 .. NSectors - 1
  BY <1>1, <1>2, <1>3, Numbers
<1> QED  BY <1>1, <1>2, <1>3, <1>4 DEF Sectors

\* What the disk has given away, and what it goes for.
LEMMA GivesAway ==
    ASSUME DiskType, disk.count \in 1 .. CountRange, disk.pos \in 0 .. NSectors - 1,
           disk' = AfterRead
    PROVE  /\ DiskType' /\ disk'.status = (IF disk.count > 1 THEN "busy" ELSE "idle")
           /\ disk'.pos = disk.pos + 1 /\ disk'.count = disk.count - 1
           /\ disk'.command = disk.command /\ disk'.intrq = disk.intrq
           /\ disk'.data = disk.data
<1>1. disk.pos + 1 \in 0 .. NSectors /\ disk.count - 1 \in 0 .. CountRange
  BY Numbers
<1>2. disk' = [disk EXCEPT !.status = IF disk.count > 1 THEN "busy" ELSE "idle",
                          !.pos = disk.pos + 1, !.count = disk.count - 1]
  BY DEF AfterRead
<1>3. /\ disk'.status = (IF disk.count > 1 THEN "busy" ELSE "idle")
      /\ disk'.pos = disk.pos + 1 /\ disk'.count = disk.count - 1
      /\ disk'.command = disk.command /\ disk'.intrq = disk.intrq
      /\ disk'.data = disk.data
  BY <1>2 DEF DiskType
<1>4. DiskType'
  BY <1>1, <1>2 DEF DiskType, Sectors
<1> QED  BY <1>3, <1>4

LEMMA StepHdTable == IInv /\ HdTable => IInv'
<1> SUFFICES ASSUME IInv, HdTable PROVE IInv'
  OBVIOUS
<1>1. /\ call[HD] = K!Idle /\ pc[HD] = "portRead" /\ todo > 0
      /\ disk' = AfterRead /\ todo' = todo - 1
      /\ UNCHANGED <<kernelVars, hdmsg, open_cnt, left, timed, wants, fsbuf>>
  BY DEF HdTable, At
<1>2. PICK place \in {"ticks", "reply"} :
          Goto(HD, place) /\ place = IF todo > 1 THEN "ticks" ELSE "reply"
  BY DEF HdTable
<1>3. /\ Calls' /\ Queues' /\ Messages' /\ pc'[HD] = place
      /\ pending' = pending /\ call'[HD] = K!Idle
  BY <1>1, <1>2, GoesOn DEF Working
<1>4. /\ Arrived /\ disk.status = "DRQ" /\ Quiet /\ wants = "notBusy"
      /\ disk.count = 1 /\ disk.pos = 0
  BY <1>1 DEF IInv, Driver, InCommand, Arrived
<1>5. hdmsg.body.type = "DEV_OPEN" /\ todo \in 1 .. MaxTables + 1
  BY <1>1, Numbers DEF IInv, Driver, InRequest, Working, TypeOK
<1>6. /\ DiskType' /\ disk'.status = "idle" /\ disk'.intrq = disk.intrq
  BY <1>1, <1>4, Numbers, GivesAway DEF IInv
<1>7. todo' \in 0 .. MaxTables + 1 /\ (todo > 1 => todo' > 0) /\ (todo <= 1 => todo' = 0)
  BY <1>1, <1>5, Numbers
<1>8. TypeOK'
  BY <1>1, <1>3, <1>6, <1>7, TypesKept DEF Working, IInv, TypeOK
<1>9. Quiet' /\ hdmsg' = hdmsg /\ wants' = wants
  BY <1>1, <1>3, <1>4, <1>6 DEF Quiet
<1>10. Driver'
  <2>1. InCommand' /\ (place = "reply" => todo' = 0) /\ (place = "ticks" => todo' > 0)
    BY <1>2, <1>3, <1>5, <1>7 DEF InCommand, Awaiting, Arrived
  <2>2. Rests'
    BY <1>3, <1>5, <1>6, <1>9, <2>1 DEF Rests, IoTypes
  <2>3. InRequest'
    BY <1>3, <1>5, <1>9, <2>1 DEF InRequest
  <2>4. BeforeCommand'
    BY <1>3, <1>4, <1>6, <1>7, <1>9, <2>1 DEF BeforeCommand
  <2> QED  BY <2>1, <2>2, <2>3, <2>4 DEF Driver
<1> QED  BY <1>3, <1>6, <1>8, <1>10 DEF IInv

LEMMA StepHdPortRead == IInv /\ HdPortRead => IInv'
<1> SUFFICES ASSUME IInv, HdPortRead PROVE IInv'
  OBVIOUS
<1>1. /\ call[HD] = K!Idle /\ pc[HD] = "portRead" /\ todo = 0 /\ left' = left - 1
      /\ UNCHANGED <<kernelVars, hdmsg, open_cnt, todo, timed, wants>>
  BY DEF HdPortRead, At
<1>2. PICK place \in {"intWait", "reply"} :
          Goto(HD, place) /\ place = IF left > 1 THEN "intWait" ELSE "reply"
  BY DEF HdPortRead
<1>3. /\ Calls' /\ Queues' /\ Messages' /\ pc'[HD] = place
      /\ pending' = pending /\ call'[HD] = K!Idle
  BY <1>1, <1>2, GoesOn DEF Working
<1>4. /\ Arrived /\ disk.status = "DRQ" /\ Quiet /\ wants = "notBusy" /\ ~Writing
      /\ disk.command = "read" /\ Where(left, Done) /\ Agree(Done)
  BY <1>1 DEF IInv, Driver, InCommand, Arrived
<1>5. /\ disk' = AfterRead
      /\ fsbuf' = [fsbuf EXCEPT ![Done] = disk.data[disk.pos]]
  BY <1>4 DEF HdPortRead
<1> DEFINE p == hdmsg.body.pos
           c == hdmsg.body.cnt
           d == Done
<1>6. /\ p \in Nat /\ c \in 1 .. MaxSectors /\ left \in 1 .. c
      /\ d \in 0 .. MaxSectors - 1 /\ d = c - left /\ p + d \in Sectors
      /\ hdmsg.body.type \in IoTypes
  BY <1>1, Unfinished DEF Working
<1>7. disk.count = left /\ disk.pos = p + d
  BY <1>4 DEF Where
<1>8. disk.count \in 1 .. CountRange /\ disk.pos \in 0 .. NSectors - 1
  BY <1>6, <1>7, Numbers DEF IInv, DiskType, Sectors
<1>9. /\ DiskType' /\ disk'.status = (IF left > 1 THEN "busy" ELSE "idle")
      /\ disk'.pos = p + d + 1 /\ disk'.count = left - 1
      /\ disk'.command = "read" /\ disk'.intrq = disk.intrq
      /\ disk'.data = disk.data
  BY <1>4, <1>5, <1>7, <1>8, GivesAway DEF IInv
<1>10. /\ fsbuf \in [0 .. MaxSectors - 1 -> Values] /\ disk.data \in [Sectors -> Values]
  BY DEF IInv, TypeOK
<1>11. Done' = c - (left - 1) /\ d + 1 = c - (left - 1) /\ d = c - left
  <2>1. Done' = hdmsg'.body.cnt - left'
    BY DEF Done
  <2> HIDE DEF d
  <2> QED  BY <1>1, <1>6, <2>1
<1>12. /\ \A i \in 0 .. d - 1 : fsbuf[i] = disk.data[p + i]
       /\ fsbuf' = [fsbuf EXCEPT ![d] = disk.data[p + d]]
  BY <1>4, <1>5, <1>7 DEF Agree
<1> HIDE DEF d, p, c
<1>13. ASSUME NEW i \in 0 .. d PROVE fsbuf'[i] = disk'.data[p + i]
  <2>1. i \in 0 .. MaxSectors - 1 /\ (i # d => i \in 0 .. d - 1)
    BY <1>6, Numbers
  <2>2. fsbuf'[i] = IF i = d THEN disk.data[p + d] ELSE fsbuf[i]
    BY <1>10, <1>12, <2>1
  <2> QED  BY <1>9, <1>12, <2>1, <2>2
<1>14. fsbuf' \in [0 .. MaxSectors - 1 -> Values]
  BY <1>6, <1>10, <1>12
<1>15. left' \in 0 .. MaxSectors /\ left' = left - 1
  BY <1>1, <1>6, Numbers
<1>16. TypeOK'
  BY <1>1, <1>2, <1>3, <1>9, <1>14, <1>15, TypesKept DEF Working, IInv, TypeOK
<1>17. /\ Quiet' /\ ~Writing' /\ hdmsg' = hdmsg /\ wants' = "notBusy" /\ todo' = 0
  BY <1>1, <1>3, <1>4, <1>9 DEF Quiet, Writing
<1>18. Agree(Done)' /\ Done' = d + 1
  <2>1. Done' = d + 1
    BY <1>11
  <2>2. 0 .. Done' - 1 = 0 .. d
    BY <1>6, <2>1, Numbers
  <2>3. hdmsg'.body.pos = p
    BY <1>17 DEF p
  <2> QED  BY <1>13, <2>1, <2>2, <2>3 DEF Agree
<1>19. Driver'
  <2>1. CASE left > 1
    <3>0. place = "intWait"
      BY <1>2, <2>1
    <3>1. Rests' /\ BeforeCommand'
      BY <1>3, <3>0 DEF Rests, BeforeCommand
    <3>2. InRequest'
      BY <1>3, <1>6, <1>15, <1>17, <2>1, <3>0, Numbers DEF InRequest, c
    <3>3. Agree(Done)'
      BY <1>18
    <3>4. Where(left, Done)'
      BY <1>6, <1>9, <1>15, <1>17, <1>18, Numbers DEF Where, p, Sectors
    <3>5. InCommand'
      BY <1>3, <1>9, <1>17, <2>1, <3>0, <3>3, <3>4 DEF InCommand, Awaiting, Arrived
    <3> QED  BY <3>1, <3>2, <3>5 DEF Driver
  <2>2. CASE left = 1
    <3>0. place = "reply" /\ d + 1 = c
      BY <1>2, <1>6, <2>2, Numbers
    <3>1. BeforeCommand' /\ InRequest' /\ InCommand'
      BY <1>3, <3>0 DEF BeforeCommand, InRequest, InCommand, Awaiting, Arrived
    <3>2. Agree(hdmsg.body.cnt)'
      <4>1. hdmsg'.body.cnt = Done'
        BY <1>17, <1>18, <3>0 DEF c
      <4> QED  BY <1>18, <4>1 DEF Agree
    <3>3. Rests'
      BY <1>3, <1>9, <1>17, <2>2, <3>0, <3>2 DEF Rests
    <3> QED  BY <3>1, <3>3 DEF Driver
  <2> QED  BY <1>6, <2>1, <2>2, Numbers
<1> QED  BY <1>3, <1>9, <1>16, <1>19 DEF IInv

LEMMA StepHdPortWrite == IInv /\ HdPortWrite => IInv'
<1> SUFFICES ASSUME IInv, HdPortWrite PROVE IInv'
  OBVIOUS
<1>1. /\ call[HD] = K!Idle /\ pc[HD] = "portWrite" /\ Goto(HD, "intWait")
      /\ disk' = [disk EXCEPT !.status = "store", !.data[disk.pos] = fsbuf[Done]]
      /\ UNCHANGED <<kernelVars, hdmsg, open_cnt, todo, left, timed, wants, fsbuf>>
  BY DEF HdPortWrite, At, hdVars
<1>2. /\ Calls' /\ Queues' /\ Messages' /\ pc'[HD] = "intWait"
      /\ pending' = pending /\ call'[HD] = K!Idle
  BY <1>1, GoesOn DEF Working
<1>3. /\ Quiet /\ wants = "DRQ" /\ Writing /\ todo = 0 /\ disk.command = "write"
      /\ Where(left, Done) /\ Agree(Done)
  BY <1>1 DEF IInv, Driver, BeforeCommand, Writing
<1> DEFINE p == hdmsg.body.pos
           c == hdmsg.body.cnt
           d == Done
<1>4. /\ p \in Nat /\ c \in 1 .. MaxSectors /\ left \in 1 .. c
      /\ d \in 0 .. MaxSectors - 1 /\ d = c - left /\ p + d \in Sectors
      /\ hdmsg.body.type \in IoTypes
  BY <1>1, <1>3, Unfinished DEF Working
<1>5. disk.count = left /\ disk.pos = p + d
  BY <1>3 DEF Where
<1>6. fsbuf \in [0 .. MaxSectors - 1 -> Values] /\ disk.data \in [Sectors -> Values]
  BY DEF IInv, TypeOK
<1>7. Done' = Done /\ hdmsg' = hdmsg /\ todo' = todo /\ left' = left /\ wants' = wants
  BY <1>1 DEF Done
<1>8. \A i \in 0 .. d - 1 : fsbuf[i] = disk.data[p + i]
  BY <1>3 DEF Agree
<1>9. disk' = [disk EXCEPT !.status = "store", !.data = [disk.data EXCEPT ![p + d] = fsbuf[d]]]
  BY <1>1, <1>5
<1>10. [disk.data EXCEPT ![p + d] = fsbuf[d]] \in [Sectors -> Values]
  BY <1>4, <1>6
<1>11. /\ DiskType' /\ disk'.status = "store" /\ disk'.command = "write"
       /\ disk'.pos = p + d /\ disk'.count = left /\ disk'.intrq = disk.intrq
       /\ disk'.data = [disk.data EXCEPT ![p + d] = fsbuf[d]]
  <2> HIDE DEF d, p
  <2> QED  BY <1>3, <1>5, <1>9, <1>10 DEF IInv, DiskType, Sectors
<1> HIDE DEF d, p, c
<1>12. ASSUME NEW i \in 0 .. d PROVE fsbuf[i] = disk'.data[p + i]
  <2>1. p + i \in Sectors /\ (i # d => i \in 0 .. d - 1 /\ p + i # p + d)
    BY <1>4, Numbers DEF Sectors
  <2>2. disk'.data[p + i] = IF i = d THEN fsbuf[d] ELSE disk.data[p + i]
    BY <1>6, <1>11, <2>1
  <2> QED  BY <1>8, <2>1, <2>2
<1>13. Agree(Done + 1)'
  <2>1. 0 .. (Done' + 1) - 1 = 0 .. d
    BY <1>4, <1>7 DEF d
  <2>2. fsbuf' = fsbuf /\ hdmsg'.body.pos = p
    BY <1>1 DEF p
  <2> QED  BY <1>12, <2>1, <2>2 DEF Agree
<1>14. TypeOK'
  BY <1>1, <1>2, <1>7, <1>11, TypesKept DEF Working, IInv, TypeOK
<1>15. Quiet' /\ Writing'
  BY <1>2, <1>3, <1>7, <1>11 DEF Quiet, Writing
<1>16. Where(left, Done)'
  BY <1>7, <1>11 DEF Where, d, p
<1>17. Awaiting' /\ ~Arrived'
  BY <1>2 DEF Awaiting, Arrived
<1>18. Driver'
  <2>1. Rests' /\ BeforeCommand'
    BY <1>2 DEF Rests, BeforeCommand
  <2>2. InRequest'
    BY <1>2, <1>3, <1>4, <1>7 DEF InRequest, c
  <2>3. InCommand'
    BY <1>2, <1>3, <1>7, <1>11, <1>13, <1>15, <1>16, <1>17 DEF InCommand
  <2> QED  BY <2>1, <2>2, <2>3 DEF Driver
<1> QED  BY <1>2, <1>11, <1>14, <1>18 DEF IInv

LEMMA StepHdWritten == IInv /\ HdWritten => IInv'
<1> SUFFICES ASSUME IInv, HdWritten PROVE IInv'
  OBVIOUS
<1>1. /\ call[HD] = K!Idle /\ pc[HD] = "written" /\ left' = left - 1
      /\ UNCHANGED <<kernelVars, hdmsg, open_cnt, todo, timed, wants, fsbuf, disk>>
  BY DEF HdWritten, At
<1>2. PICK place \in {"ticks", "reply"} :
          Goto(HD, place) /\ place = IF left > 1 THEN "ticks" ELSE "reply"
  BY DEF HdWritten
<1>3. /\ Calls' /\ Queues' /\ Messages' /\ pc'[HD] = place
      /\ pending' = pending /\ call'[HD] = K!Idle
  BY <1>1, <1>2, GoesOn DEF Working
<1>4. Arrived /\ disk.command = "write"
  BY <1>1 DEF IInv, Driver, InCommand, Arrived
<1>5. /\ Writing /\ todo = 0 /\ wants = "DRQ" /\ Agree(Done + 1) /\ Quiet
      /\ disk.status = (IF left > 1 THEN "DRQ" ELSE "idle") /\ Where(left - 1, Done + 1)
  BY <1>4 DEF IInv, Driver, InCommand, Writing
<1> DEFINE c == hdmsg.body.cnt
           d == Done
<1>6. /\ c \in 1 .. MaxSectors /\ left \in 1 .. c /\ d = c - left
      /\ d \in 0 .. MaxSectors - 1 /\ hdmsg.body.type \in IoTypes
  BY <1>1, <1>5, Unfinished DEF Working
<1>7. Done' = d + 1
  <2>1. Done' = c - (left - 1)
    BY <1>1 DEF Done
  <2> HIDE DEF d
  <2> QED  BY <1>6, <2>1
<1>8. /\ Agree(Done)' /\ Where(left, Done)' /\ Quiet' /\ Writing' /\ hdmsg' = hdmsg
  BY <1>1, <1>3, <1>5, <1>7 DEF Agree, Where, Quiet, Writing
<1>9. left' \in 0 .. MaxSectors /\ left' = left - 1
  BY <1>1, <1>6, Numbers
<1>10. DiskType'
  BY <1>1 DEF IInv, DiskType, Sectors
<1>11. TypeOK'
  BY <1>1, <1>2, <1>3, <1>9, <1>10, TypesKept DEF Working, IInv, TypeOK
<1>12. Driver'
  <2>1. CASE left > 1
    <3>0. place = "ticks"
      BY <1>2, <2>1
    <3>1. Rests' /\ InCommand'
      BY <1>3, <3>0 DEF Rests, InCommand, Awaiting, Arrived
    <3>2. InRequest'
      BY <1>1, <1>3, <1>5, <1>6, <1>9, <2>1, <3>0, Numbers DEF InRequest
    <3>3. BeforeCommand'
      BY <1>1, <1>3, <1>4, <1>5, <1>8, <2>1, <3>0 DEF BeforeCommand
    <3> QED  BY <3>1, <3>2, <3>3 DEF Driver
  <2>2. CASE left = 1
    <3>0. place = "reply" /\ Done' = c
      <4> HIDE DEF d, c
      <4> QED  BY <1>2, <1>6, <1>7, <2>2, Numbers
    <3>1. BeforeCommand' /\ InRequest' /\ InCommand'
      BY <1>3, <3>0 DEF BeforeCommand, InRequest, InCommand, Awaiting, Arrived
    <3>2. Agree(hdmsg.body.cnt)'
      BY <1>8, <3>0 DEF Agree
    <3>3. Rests'
      BY <1>1, <1>3, <1>5, <1>8, <2>2, <3>0, <3>2 DEF Rests
    <3> QED  BY <3>1, <3>3 DEF Driver
  <2> QED  BY <1>6, <2>1, <2>2, Numbers
<1> QED  BY <1>3, <1>10, <1>11, <1>12 DEF IInv

----------------------------------------------------------------------------
(* The disk and the kernel. *)

\* The tasks' part of the invariant does not see what the disk does.
LEMMA TasksStay ==
    ASSUME IInv, UNCHANGED <<call, waiting, msg, pc, hdmsg, open_cnt>>
    PROVE  Calls' /\ Queues' /\ Messages'
<1>0. Queues /\ Calls /\ Messages
  BY DEF IInv
<1>1. (Serves' <=> Serves) /\ (Waits' <=> Waits) /\ (Asked' <=> Asked)
      /\ (AwaitsTime' <=> AwaitsTime) /\ (Taken' <=> Taken)
  BY DEF Serves, Taken, Waits, Asked, AwaitsTime, K!Idle, K!Sending, K!Receiving
<1>2. Calls'
  BY <1>0, <1>1 DEF Calls, FsCalls, SysCalls, HdCalls, K!Idle, K!Sending, K!Receiving
<1>3. Queues'
  BY <1>0 DEF Queues, K!Sending
<1>4. Messages'
  BY <1>0, <1>1 DEF Messages, Opened, IsRequest, K!Sending, K!Idle
<1> QED  BY <1>2, <1>3, <1>4

\* The places where the disk may be busy, and those where it may store.
LEMMA DiskWorks ==
    ASSUME IInv, disk.status \in {"busy", "prepare", "store"}, pc[HD] # "spin"
    PROVE  /\ Quiet /\ ~Arrived
           /\ \/ disk.status \in {"busy", "store"} /\ Awaiting
              \/ /\ disk.status = "prepare" /\ pc[HD] \in Timing /\ wants = "DRQ" /\ Writing
                 /\ disk.command = "write" /\ Where(left, Done) /\ Agree(Done)
<1>1. pc[HD] \in {"main", "dispatch", "ticks", "ticksSent", "poll", "cmdOut",
                  "intWait", "portRead", "portWrite", "written", "reply", "panic"}
  BY DEF IInv, TypeOK
<1>2. CASE pc[HD] \in {"main", "dispatch", "reply", "cmdOut", "portWrite"}
  BY <1>2 DEF IInv, Driver, Rests, BeforeCommand
<1>3. CASE pc[HD] \in Timing
  BY <1>3 DEF IInv, Driver, BeforeCommand, Timing, Arrived
<1>4. CASE pc[HD] \in {"intWait", "portRead", "written"}
  <2>1. Awaiting \/ Arrived
    BY <1>4 DEF Awaiting, Arrived
  <2>2. Quiet /\ ~Arrived /\ disk.status \in {"busy", "store"}
    BY <2>1 DEF IInv, Driver, InCommand, Awaiting, Arrived
  <2> QED  BY <2>1, <2>2
<1> QED  BY <1>1, <1>2, <1>3, <1>4 DEF Timing

\* HD never spins: an interrupt does not reach its main loop.
LEMMA NoSpin == IInv => pc[HD] # "spin"
BY DEF IInv, Calls, HdCalls

LEMMA StepDiskReady == IInv /\ DiskReady => IInv'
<1> SUFFICES ASSUME IInv, DiskReady PROVE IInv'
  OBVIOUS
<1>1. /\ disk.status \in {"busy", "prepare"}
      /\ disk' = [disk EXCEPT !.status = "DRQ", !.intrq = (disk.status = "busy")]
      /\ UNCHANGED <<call, waiting, msg, pending, pc, hdmsg, open_cnt, todo, left, timed,
                     wants, fsbuf>>
  BY DEF DiskReady, kernelVars, hdVars
<1>2. Calls' /\ Queues' /\ Messages'
  BY <1>1, TasksStay
<1>3. pc[HD] # "spin"
  BY NoSpin
<1>4. /\ Quiet /\ ~Arrived
      /\ \/ disk.status = "busy" /\ Awaiting
         \/ /\ disk.status = "prepare" /\ pc[HD] \in Timing /\ wants = "DRQ" /\ Writing
            /\ disk.command = "write" /\ Where(left, Done) /\ Agree(Done)
  BY <1>1, <1>3, DiskWorks
<1>5. (disk.status = "busy") \in BOOLEAN
  OBVIOUS
<1>6. /\ DiskType' /\ disk'.status = "DRQ" /\ (disk'.intrq <=> disk.status = "busy")
      /\ disk'.command = disk.command /\ disk'.pos = disk.pos /\ disk'.count = disk.count
      /\ disk'.data = disk.data
  BY <1>1, <1>5 DEF IInv, DiskType, Sectors
<1>7. TypeOK'
  BY <1>1, <1>6 DEF IInv, TypeOK, Sectors
<1>8. /\ Done' = Done /\ (Where(left, Done)' <=> Where(left, Done))
      /\ (Agree(Done)' <=> Agree(Done)) /\ (Writing' <=> Writing)
      /\ (Awaiting' <=> Awaiting) /\ (Arrived' <=> Arrived)
  BY <1>1, <1>6 DEF Done, Where, Agree, Writing, Awaiting, Arrived, K!Idle
<1>9. InRequest'
  BY <1>1 DEF IInv, Driver, InRequest
<1>10. Driver'
  <2>1. CASE disk.status = "busy" /\ Awaiting
    <3>1. disk.command = "read"
      BY <2>1 DEF IInv, Driver, InCommand
    <3>2. pc'[HD] \in {"intWait", "portRead", "written"} /\ Coming'
      BY <1>1, <1>4, <1>6, <2>1 DEF Awaiting, Coming, Quiet
    <3>3. Rests' /\ BeforeCommand'
      BY <3>2 DEF Rests, BeforeCommand
    <3>4. InCommand'
      BY <1>1, <1>4, <1>6, <1>8, <2>1, <3>1, <3>2 DEF IInv, Driver, InCommand
    <3> QED  BY <1>9, <3>3, <3>4 DEF Driver
  <2>2. CASE ~(disk.status = "busy" /\ Awaiting)
    <3>1. Quiet' /\ pc'[HD] \in Timing
      BY <1>1, <1>4, <1>6, <2>2 DEF Quiet
    <3>2. Rests' /\ InCommand'
      BY <3>1 DEF Rests, InCommand, Awaiting, Arrived, Timing
    <3>3. BeforeCommand'
      BY <1>1, <1>4, <1>6, <1>8, <2>2, <3>1 DEF BeforeCommand, Timing
    <3> QED  BY <1>9, <3>2, <3>3 DEF Driver
  <2> QED  BY <2>1, <2>2
<1> QED  BY <1>2, <1>6, <1>7, <1>10 DEF IInv

LEMMA StepDiskStored == IInv /\ DiskStored => IInv'
<1> SUFFICES ASSUME IInv, DiskStored PROVE IInv'
  OBVIOUS
<1>1. /\ disk.status = "store"
      /\ disk' = [disk EXCEPT !.status = IF disk.count > 1 THEN "DRQ" ELSE "idle",
                             !.pos = disk.pos + 1, !.count = disk.count - 1, !.intrq = TRUE]
      /\ UNCHANGED <<call, waiting, msg, pending, pc, hdmsg, open_cnt, todo, left, timed,
                     wants, fsbuf>>
  BY DEF DiskStored, kernelVars, hdVars
<1>2. Calls' /\ Queues' /\ Messages'
  BY <1>1, TasksStay
<1>3. pc[HD] # "spin"
  BY NoSpin
<1>4. Quiet /\ ~Arrived /\ Awaiting
  BY <1>1, <1>3, DiskWorks
<1>5. disk.command # "read" /\ Writing /\ todo = 0 /\ wants = "DRQ"
      /\ Agree(Done + 1) /\ Where(left, Done)
  BY <1>1, <1>4 DEF IInv, Driver, InCommand, Writing
<1>6. pc[HD] \in {"intWait", "portRead", "written"}
  BY <1>4 DEF Awaiting
<1> DEFINE p == hdmsg.body.pos
           d == Done
<1>7. /\ p \in Nat /\ hdmsg.body.cnt \in 1 .. MaxSectors /\ left \in 1 .. hdmsg.body.cnt
      /\ p + d \in Sectors /\ d \in 0 .. MaxSectors - 1
  BY <1>5, <1>6, Unfinished DEF Working
<1>8. disk.count = left /\ disk.pos = p + d
  BY <1>5 DEF Where
<1> HIDE DEF p, d
<1>9. disk.pos + 1 \in 0 .. NSectors /\ disk.count - 1 \in 0 .. CountRange
      /\ p + d + 1 = p + (d + 1)
  BY <1>7, <1>8, Numbers DEF IInv, DiskType, Sectors
<1>10. /\ DiskType' /\ disk'.status = (IF left > 1 THEN "DRQ" ELSE "idle")
       /\ disk'.pos = p + (d + 1) /\ disk'.count = left - 1 /\ disk'.intrq = TRUE
       /\ disk'.command = disk.command /\ disk'.data = disk.data
  <2>1. /\ disk'.status = (IF disk.count > 1 THEN "DRQ" ELSE "idle")
        /\ disk'.pos = disk.pos + 1 /\ disk'.count = disk.count - 1 /\ disk'.intrq = TRUE
        /\ disk'.command = disk.command /\ disk'.data = disk.data
    BY <1>1 DEF IInv, DiskType
  <2>2. DiskType'
    BY <1>1, <1>9 DEF IInv, DiskType, Sectors
  <2> QED  BY <1>8, <1>9, <2>1, <2>2
<1>11. TypeOK'
  BY <1>1, <1>6, <1>10, TypesKept DEF Working, IInv, TypeOK
<1>12. /\ Done' = d /\ Where(left - 1, Done + 1)' /\ Agree(Done + 1)' /\ Writing'
       /\ Awaiting' /\ ~Arrived' /\ Coming'
  BY <1>1, <1>4, <1>5, <1>10
     DEF Done, d, p, Where, Agree, Writing, Awaiting, Arrived, K!Idle, Coming, Quiet
<1>13. Driver'
  <2>1. Rests' /\ BeforeCommand'
    BY <1>1, <1>6 DEF Rests, BeforeCommand
  <2>2. InRequest'
    BY <1>1 DEF IInv, Driver, InRequest
  <2>3. InCommand'
    <3>1. pc[HD] = "portRead" => disk.command = "read"
      BY DEF IInv, Driver, InCommand
    <3>2. pc[HD] = "written" => disk.command = "write"
      BY DEF IInv, Driver, InCommand
    <3> QED  BY <1>1, <1>5, <1>10, <1>12, <3>1, <3>2 DEF InCommand
  <2> QED  BY <2>1, <2>2, <2>3 DEF Driver
<1> QED  BY <1>2, <1>10, <1>11, <1>13 DEF IInv

\* The handler passes the interrupt on.
LEMMA StepHdHandler == IInv /\ HdHandler => IInv'
<1> SUFFICES ASSUME IInv, HdHandler PROVE IInv'
  OBVIOUS
<1>1. /\ disk.intrq /\ disk' = [disk EXCEPT !.intrq = FALSE]
      /\ pending' = pending \cup {HD}
      /\ UNCHANGED <<call, waiting, msg, pc, hdmsg, open_cnt, todo, left, timed, wants, fsbuf>>
  BY DEF HdHandler, K!Raise, hdVars
<1>2. Calls' /\ Queues' /\ Messages'
  BY <1>1, TasksStay
<1>3. pc[HD] # "spin" /\ ~Quiet
  BY <1>1, NoSpin DEF Quiet
<1>4. pc[HD] \in {"intWait", "portRead", "written"}
  BY <1>3 DEF IInv, TypeOK, Driver, Rests, BeforeCommand
<1>5. Awaiting /\ ~Arrived /\ Coming
  BY <1>3, <1>4 DEF IInv, Driver, InCommand, Awaiting, Arrived
<1>6. /\ DiskType' /\ disk'.status = disk.status /\ disk'.intrq = FALSE
      /\ disk'.command = disk.command /\ disk'.pos = disk.pos /\ disk'.count = disk.count
      /\ disk'.data = disk.data
  BY <1>1 DEF IInv, DiskType, Sectors
<1>7. TypeOK'
  BY <1>1, <1>6 DEF IInv, TypeOK, Sectors
<1>8. /\ Awaiting' /\ ~Arrived' /\ Coming' /\ (Writing' <=> Writing)
      /\ Done' = Done
  BY <1>1, <1>5, <1>6 DEF Awaiting, Arrived, Coming, Writing, Done, K!Idle
<1>9. /\ Where(left, Done)' <=> Where(left, Done)
      /\ Where(left - 1, Done + 1)' <=> Where(left - 1, Done + 1)
      /\ Agree(Done)' <=> Agree(Done)
      /\ Agree(Done + 1)' <=> Agree(Done + 1)
  BY <1>1, <1>6, <1>8 DEF Where, Agree
<1>10. Driver'
  <2>1. Rests' /\ BeforeCommand'
    BY <1>1, <1>4 DEF Rests, BeforeCommand
  <2>2. InRequest'
    BY <1>1 DEF IInv, Driver, InRequest
  <2>3. InCommand'
    BY <1>1, <1>3, <1>5, <1>6, <1>8, <1>9 DEF IInv, Driver, InCommand
  <2> QED  BY <2>1, <2>2, <2>3 DEF Driver
<1> QED  BY <1>2, <1>6, <1>7, <1>10 DEF IInv

\* HD receives an interrupt where it waits for one.
LEMMA StepDeliverInterrupt == IInv /\ DeliverInterrupt => IInv'
<1> SUFFICES ASSUME IInv, DeliverInterrupt PROVE IInv'
  OBVIOUS
<1>0. Queues /\ Calls /\ Messages
  BY DEF IInv
<1>1. /\ HD \in pending /\ call[HD] \in {K!Receiving(ANY), K!Receiving(INTERRUPT)}
      /\ msg' = [msg EXCEPT ![HD] = K!HardInt] /\ call' = [call EXCEPT ![HD] = K!Idle]
      /\ pending' = pending \ {HD} /\ waiting' = waiting
      /\ Goto(HD, IF pc[HD] = "dispatch" THEN "spin" ELSE pc[HD])
      /\ UNCHANGED <<hdmsg, open_cnt, todo, left, timed, wants, fsbuf, disk>>
  BY DEF DeliverInterrupt, K!TakeInterrupt, hdVars
<1>2. call[HD] # K!Idle /\ ~Quiet /\ pc[HD] # "dispatch"
  BY <1>1, Distinct DEF Quiet, IInv, Driver, Rests
<1>3. pc[HD] \in {"portRead", "written"}
  BY <1>0, <1>1, <1>2, Distinct DEF Calls, HdCalls
<1>4. /\ call'[HD] = K!Idle /\ call'[FS] = call[FS] /\ call'[SYS] = call[SYS]
      /\ msg'[FS] = msg[FS] /\ msg'[SYS] = msg[SYS]
      /\ call' = [u \in Tasks |-> call'[u]] /\ waiting' = [u \in Tasks |-> waiting'[u]]
      /\ msg' = [u \in Tasks |-> msg'[u]]
  BY <1>0, <1>1, Distinct DEF Queues
<1>5. Goto(HD, pc[HD])
  BY <1>1, <1>2
<1>6. pc' = pc
  BY <1>0, <1>5 DEF Queues, Goto
<1>7. HdCalls'
  BY <1>3, <1>4, <1>6 DEF HdCalls, K!Idle
<1>8. Serves /\ Serves' /\ ~AwaitsTime /\ ~AwaitsTime' /\ ~Taken /\ ~Taken'
  BY <1>3, <1>6 DEF Serves, Taken, AwaitsTime, Working
<1>9. Calls'
  BY <1>4, <1>6, <1>7, <1>8, OthersStay
<1>10. /\ call[HD] # K!Sending(FS) /\ call[HD] # K!Sending(SYS)
       /\ call'[HD] # K!Sending(FS) /\ call'[HD] # K!Sending(SYS)
  BY <1>1, <1>4, Distinct
<1>11. Queues'
  BY <1>0, <1>1, <1>4, <1>6, <1>10 DEF Queues, K!Sending
<1>12. Messages'
  BY <1>0, <1>1, <1>4, <1>6, <1>8, <1>10
     DEF Messages, Opened, IsRequest, K!Sending, K!Idle
<1>13. Awaiting /\ ~Arrived /\ Arrived' /\ ~Awaiting'
  BY <1>2, <1>3, <1>4, <1>6 DEF Awaiting, Arrived, K!Idle
<1>14. Coming /\ Quiet'
  <2>1. Coming
    BY <1>2, <1>13 DEF IInv, Driver, InCommand
  <2> QED  BY <1>1, <2>1 DEF Coming, Quiet
<1>15. TypeOK' /\ DiskType'
  BY <1>1, <1>6 DEF IInv, TypeOK, DiskType, Sectors
<1>16. Driver'
  <2>1. Rests' /\ BeforeCommand'
    BY <1>3, <1>6 DEF Rests, BeforeCommand
  <2>2. InRequest'
    BY <1>1, <1>6 DEF IInv, Driver, InRequest
  <2>3. /\ Done' = Done /\ (Writing' <=> Writing)
        /\ Where(left, Done)' <=> Where(left, Done)
        /\ Where(left - 1, Done + 1)' <=> Where(left - 1, Done + 1)
        /\ Agree(Done)' <=> Agree(Done)
        /\ Agree(Done + 1)' <=> Agree(Done + 1)
    BY <1>1 DEF Done, Writing, Where, Agree
  <2>4. InCommand'
    BY <1>1, <1>2, <1>6, <1>13, <1>14, <2>3 DEF IInv, Driver, InCommand
  <2> QED  BY <2>1, <2>2, <2>4 DEF Driver
<1> QED  BY <1>9, <1>11, <1>12, <1>15, <1>16 DEF IInv

\* A message is handed over: a request, a question for the time, or an answer.
LEMMA StepDeliver == IInv /\ Deliver => IInv'
<1> SUFFICES ASSUME IInv, Deliver PROVE IInv'
  OBVIOUS
<1>0. Queues /\ Calls /\ Messages
  BY DEF IInv
<1>1. PICK t \in Tasks : \E i \in DOMAIN waiting[t] : K!HandOver(t, i)
  BY DEF Deliver
<1>2. UNCHANGED <<pc, hdVars, fsbuf, disk, hdmsg, open_cnt>>
  BY DEF Deliver, hdVars
<1>3. PICK s \in Tasks \ {t} :
               /\ call[s] = K!Sending(t) /\ call[t] \in {K!Receiving(s), K!Receiving(ANY)}
               /\ call'[s] = K!Idle /\ call'[t] = K!Idle
               /\ msg'[t] = msg[s] /\ msg'[s] = msg[s]
               /\ waiting[t] = <<s>> /\ waiting'[t] = <<>>
               /\ \A u \in Tasks \ {s, t} : call'[u] = call[u] /\ msg'[u] = msg[u]
               /\ \A u \in Tasks \ {t} : waiting'[u] = waiting[u]
               /\ pending' = pending
               /\ call' = [u \in Tasks |-> call'[u]]
               /\ waiting' = [u \in Tasks |-> waiting'[u]]
               /\ msg' = [u \in Tasks |-> msg'[u]]
  BY <1>0, <1>1, HandsOver
<1>4. pc' = [u \in Tasks |-> pc'[u]]
  BY <1>0, <1>2 DEF Queues
<1>5. CASE t = HD /\ s = FS
  <2>1. call[FS] = K!Sending(HD) /\ pc[FS] = "sent"
    BY <1>0, <1>3, <1>5, Distinct DEF Calls, FsCalls
  <2>2. call[HD] = K!Receiving(ANY) /\ pc[HD] = "dispatch"
    BY <1>0, <1>3, <1>5, Distinct DEF Calls, HdCalls
  <2>3. /\ call'[FS] = K!Idle /\ call'[HD] = K!Idle /\ call'[SYS] = call[SYS]
        /\ msg'[HD] = msg[FS] /\ msg'[SYS] = msg[SYS] /\ waiting'[HD] = <<>>
        /\ waiting'[FS] = waiting[FS] /\ waiting'[SYS] = waiting[SYS]
    BY <1>3, <1>5, Distinct
  <2>4. ~AwaitsTime /\ ~AwaitsTime' /\ ~Asked
    BY <1>0, <1>2, <2>2, Distinct DEF Calls, AwaitsTime
  <2>5. ~Asked' /\ Waits' /\ Serves' /\ Taken' /\ ~Taken
    BY <1>2, <2>1, <2>2, <2>3, <2>4, Distinct DEF Asked, Waits, Serves, Taken, K!Idle, K!Sending
  <2>6. Calls'
    BY <1>0, <1>2, <2>1, <2>2, <2>3, <2>4, <2>5
       DEF Calls, FsCalls, SysCalls, HdCalls, K!Idle, K!Sending, K!Receiving
  <2>7. call[SYS] # K!Sending(HD)
    BY <1>0, <2>4, Distinct DEF Calls, SysCalls, Asked
  <2>8. Queues'
    BY <1>0, <1>3, <1>4, <2>2, <2>3, <2>7, Distinct DEF Queues
  <2>9. Messages'
    <3>1. msg'[HD].source = FS /\ IsRequest(msg'[HD].body) /\ Opened(msg'[HD].body)
      BY <1>0, <2>1, <2>3 DEF Messages
    <3>2. Opened(msg[HD].body)' /\ IsRequest(msg[HD].body)'
      BY <1>2, <3>1 DEF Opened, IsRequest
    <3>3. pc'[HD] \notin Working /\ call'[FS] # K!Sending(HD) /\ call'[HD] # K!Sending(SYS)
      BY <1>2, <2>2, <2>3, Distinct DEF Working
    <3>4. pc'[SYS] = "answer" /\ call'[SYS] = K!Idle => msg'[SYS].source = HD
      BY <2>4, <1>2, <2>3 DEF Asked
    <3> QED  BY <2>5, <3>1, <3>2, <3>3, <3>4 DEF Messages, K!Sending, K!Idle
  <2>10. TypeOK' /\ DiskType' /\ Driver'
    BY <1>2, <1>3, <2>2, DriverStays
  <2> QED  BY <2>6, <2>8, <2>9, <2>10 DEF IInv
<1>6. CASE t = HD /\ s = SYS
  <2>1. call[SYS] = K!Sending(HD) /\ pc[SYS] = "main" /\ Asked
    BY <1>0, <1>3, <1>6, Distinct DEF Calls, SysCalls, Asked
  <2>2. call[HD] = K!Receiving(SYS) /\ pc[HD] = "poll"
    BY <1>0, <1>3, <1>6, <2>1, Distinct DEF Calls, AwaitsTime
  <2>3. /\ call'[SYS] = K!Idle /\ call'[HD] = K!Idle /\ call'[FS] = call[FS]
        /\ msg'[FS] = msg[FS] /\ waiting'[HD] = <<>>
        /\ waiting'[FS] = waiting[FS] /\ waiting'[SYS] = waiting[SYS]
    BY <1>3, <1>6, Distinct
  <2>4. ~AwaitsTime' /\ ~Asked' /\ Serves /\ Serves' /\ ~Taken /\ ~Taken'
    BY <1>2, <2>1, <2>2, <2>3, Distinct
       DEF AwaitsTime, Asked, Serves, Taken, Working, K!Idle, K!Sending, K!Receiving
  <2>5. Waits /\ Waits'
    BY <1>0, <1>2, <2>3, <2>4 DEF Calls, Waits, K!Idle, K!Receiving
  <2>6. Calls'
    BY <1>0, <1>2, <2>1, <2>2, <2>3, <2>4, <2>5
       DEF Calls, FsCalls, SysCalls, HdCalls, K!Idle, K!Sending, K!Receiving
  <2>7. call[FS] # K!Sending(HD)
    BY <2>5, Distinct DEF Waits
  <2>8. Queues'
    BY <1>0, <1>3, <1>4, <2>2, <2>3, <2>7, Distinct DEF Queues
  <2>9. Messages'
    <3>1. call'[FS] # K!Sending(HD) /\ call'[HD] # K!Sending(SYS) /\ pc'[SYS] # "answer"
      BY <1>2, <2>1, <2>3, <2>7, Distinct
    <3> QED  BY <1>0, <1>2, <2>3, <2>4, <2>7, <3>1
             DEF Messages, Opened, IsRequest, K!Sending, K!Idle
  <2>10. TypeOK' /\ DiskType' /\ Driver'
    BY <1>2, <1>3, <2>2, DriverStays
  <2> QED  BY <2>6, <2>8, <2>9, <2>10 DEF IInv
<1>7. CASE t = FS /\ s = HD
  <2>1. call[HD] = K!Sending(FS) /\ pc[HD] = "main"
    BY <1>0, <1>3, <1>7, Distinct DEF Calls, HdCalls
  <2>2. call[FS] = K!Receiving(HD) /\ pc[FS] = "wait"
    BY <1>0, <1>3, <1>7, Distinct DEF Calls, FsCalls
  <2>3. /\ call'[FS] = K!Idle /\ call'[HD] = K!Idle /\ call'[SYS] = call[SYS]
        /\ msg'[SYS] = msg[SYS] /\ waiting'[FS] = <<>>
        /\ waiting'[HD] = waiting[HD] /\ waiting'[SYS] = waiting[SYS]
    BY <1>3, <1>7, Distinct
  <2>4. ~AwaitsTime /\ ~AwaitsTime' /\ ~Asked
    BY <1>0, <1>2, <2>1, Distinct DEF Calls, AwaitsTime
  <2>5. ~Asked' /\ ~Waits' /\ ~Serves' /\ ~Taken' /\ ~Taken
    BY <1>2, <2>1, <2>2, <2>3, <2>4, Distinct
       DEF Asked, Waits, Serves, Taken, Working, K!Idle, K!Sending, K!Receiving
  <2>6. Calls'
    BY <1>0, <1>2, <2>1, <2>2, <2>3, <2>4, <2>5
       DEF Calls, FsCalls, SysCalls, HdCalls, K!Idle, K!Sending, K!Receiving
  <2>7. call[FS] # K!Sending(HD) /\ call'[FS] # K!Sending(HD) /\ call'[HD] # K!Sending(FS)
        /\ call'[HD] # K!Sending(SYS) /\ call[HD] # K!Sending(SYS)
    BY <2>1, <2>2, <2>3, Distinct
  <2>8. Queues'
    BY <1>0, <1>3, <1>4, <2>3, <2>7, Distinct DEF Queues, K!Sending
  <2>9. Messages'
    BY <1>0, <1>2, <2>1, <2>2, <2>3, <2>5, <2>7
       DEF Messages, Opened, IsRequest, Working, K!Sending, K!Idle
  <2>10. TypeOK' /\ DiskType' /\ Driver'
    BY <1>2, <1>3, <2>1, DriverStays
  <2> QED  BY <2>6, <2>8, <2>9, <2>10 DEF IInv
<1>8. CASE t = SYS /\ s = HD
  <2>1. call[HD] = K!Sending(SYS) /\ pc[HD] = "ticksSent" /\ msg[HD].source = HD
    BY <1>0, <1>3, <1>8, Distinct DEF Calls, HdCalls, Messages
  <2>2. call[SYS] = K!Receiving(ANY) /\ pc[SYS] = "answer"
    BY <1>0, <1>3, <1>8, Distinct DEF Calls, SysCalls
  <2>3. /\ call'[SYS] = K!Idle /\ call'[HD] = K!Idle /\ call'[FS] = call[FS]
        /\ msg'[FS] = msg[FS] /\ msg'[SYS] = msg[HD] /\ waiting'[SYS] = <<>>
        /\ waiting'[FS] = waiting[FS] /\ waiting'[HD] = waiting[HD]
    BY <1>3, <1>8, Distinct
  <2>4. AwaitsTime' /\ Asked' /\ Serves /\ Serves' /\ ~Taken /\ ~Taken'
    BY <1>2, <2>1, <2>2, <2>3, Distinct
       DEF AwaitsTime, Asked, Serves, Taken, Working, K!Idle, K!Sending, K!Receiving
  <2>5. Waits /\ Waits'
    BY <1>0, <1>2, <2>3, <2>4 DEF Calls, Waits, K!Idle, K!Receiving
  <2>6. Calls'
    BY <1>0, <1>2, <2>1, <2>2, <2>3, <2>4, <2>5
       DEF Calls, FsCalls, SysCalls, HdCalls, K!Idle, K!Sending, K!Receiving
  <2>7. call[FS] # K!Sending(HD) /\ call'[FS] # K!Sending(HD)
        /\ call[SYS] # K!Sending(HD) /\ call'[SYS] # K!Sending(HD)
        /\ call[HD] # K!Sending(FS) /\ call'[HD] # K!Sending(FS) /\ call'[HD] # K!Sending(SYS)
    BY <2>1, <2>2, <2>3, <2>5, Distinct DEF Waits
  <2>8. Queues'
    BY <1>0, <1>3, <1>4, <2>3, <2>7, Distinct DEF Queues, K!Sending
  <2>9. Messages'
    BY <1>0, <1>2, <2>1, <2>3, <2>4, <2>7
       DEF Messages, Opened, IsRequest, Working, K!Sending, K!Idle
  <2>10. TypeOK' /\ DiskType' /\ Driver'
    BY <1>2, <1>3, <2>1, DriverStays
  <2> QED  BY <2>6, <2>8, <2>9, <2>10 DEF IInv
<1>9. ~(t = FS /\ s = SYS) /\ ~(t = SYS /\ s = FS)
  BY <1>0, <1>3, Distinct DEF Calls, SysCalls, FsCalls, K!Idle, K!Sending, K!Receiving
<1> QED  BY <1>3, <1>5, <1>6, <1>7, <1>8, <1>9, Distinct

----------------------------------------------------------------------------
(* The theorems *)

LEMMA InitInv == Init => IInv
<1> SUFFICES ASSUME Init PROVE IInv
  OBVIOUS
<1>1. /\ call = [p \in Tasks |-> K!Idle] /\ waiting = [p \in Tasks |-> <<>>]
      /\ msg = [p \in Tasks |-> [source |-> p, body |-> Blank]] /\ pending = {}
  BY DEF Init, K!Init
<1>2. /\ pc = [t \in Tasks |-> IF t = FS THEN "open" ELSE "main"]
      /\ open_cnt = 0 /\ todo = 0 /\ left = 0 /\ timed = FALSE
      /\ fsbuf \in [0 .. MaxSectors - 1 -> Values]
      /\ disk = [status |-> "idle", command |-> "read", pos |-> 0, count |-> 0,
                 intrq |-> FALSE, data |-> [s \in Sectors |-> s]]
  BY DEF Init
<1>3. pc[FS] = "open" /\ pc[HD] = "main" /\ pc[SYS] = "main"
  BY <1>2, Distinct
<1>4. /\ call[FS] = K!Idle /\ call[HD] = K!Idle /\ call[SYS] = K!Idle
      /\ waiting[FS] = <<>> /\ waiting[HD] = <<>> /\ waiting[SYS] = <<>>
  BY <1>1, Distinct
<1>5. [s \in Sectors |-> s] \in [Sectors -> Values]
  BY HdAssumption
<1>6. DiskType
  BY <1>2, <1>5, Numbers DEF DiskType
<1>7. TypeOK
  <2>1. /\ disk.status = "idle" /\ disk.pos = 0 /\ disk.data = [s \in Sectors |-> s]
    BY <1>2
  <2>2. disk.data \in [Sectors -> Values]
    BY <1>5, <2>1
  <2>3. timed \in BOOLEAN
    BY <1>2
  <2>4. open_cnt = 0 /\ todo = 0 /\ left = 0 /\ disk.pos = 0
    BY <1>2, <2>1
  <2>5. open_cnt \in 0 .. 2 /\ todo \in 0 .. MaxTables + 1 /\ left \in 0 .. MaxSectors
        /\ disk.pos \in 0 .. NSectors
    BY <2>4, Numbers
  <2> QED  BY <1>2, <1>3, <2>1, <2>2, <2>3, <2>5 DEF TypeOK
<1>8. ~Waits /\ ~Serves /\ ~Asked /\ ~AwaitsTime /\ ~Taken
  BY <1>3, <1>4, Distinct DEF Waits, Serves, Asked, AwaitsTime, Taken, Working
<1>9. Calls
  BY <1>3, <1>4, <1>8 DEF Calls, FsCalls, SysCalls, HdCalls
<1>10. Queues
  BY <1>1, <1>2, <1>4, Distinct DEF Queues
<1>11. Messages
  BY <1>2, <1>3, <1>4, <1>8, Distinct DEF Messages, Working
<1>12. Driver
  BY <1>1, <1>2, <1>3 DEF Driver, Rests, InRequest, BeforeCommand, InCommand, Awaiting,
     Arrived, Working, Quiet
<1> QED  BY <1>6, <1>7, <1>9, <1>10, <1>11, <1>12 DEF IInv

LEMMA NextInv == MaxSectors <= CountRange /\ IInv /\ [Next]_vars => IInv'
<1> SUFFICES ASSUME MaxSectors <= CountRange, IInv, [Next]_vars PROVE IInv'
  OBVIOUS
<1>1. CASE UNCHANGED vars
  <2>1. UNCHANGED <<call, waiting, msg, pending, pc, hdmsg, open_cnt, hdVars, fsbuf, disk>>
    BY <1>1 DEF vars, kernelVars, hdVars
  <2> QED  BY <2>1, TasksStay, DriverStays DEF IInv
<1>2. CASE FsRequest
  BY <1>2, StepFsRdwt, StepFsOther DEF FsRequest
<1>3. CASE FsStep
  BY <1>3, StepFsOpen, StepFsAwait, StepFsDone DEF FsStep
<1>4. CASE SysStep
  BY <1>4, StepSysMain, StepSysAnswer DEF SysStep
<1>5. CASE HdStep
  BY <1>5, StepHdMain, StepHdOpen, StepHdCloseIoctl, StepHdRdwt, StepHdTicks,
     StepHdTicksAwait, StepHdPoll, StepHdCmdOut, StepHdIntWait, StepHdTable,
     StepHdPortRead, StepHdPortWrite, StepHdWritten, StepHdReply DEF HdStep
<1>6. CASE DiskStep
  BY <1>6, StepDiskReady, StepDiskStored DEF DiskStep
<1>7. CASE HdHandler
  BY <1>7, StepHdHandler
<1>8. CASE KernelStep
  BY <1>8, StepDeliver, StepDeliverInterrupt DEF KernelStep
<1>9. CASE Stopped
  BY <1>1, <1>9 DEF Stopped
<1> QED  BY <1>1, <1>2, <1>3, <1>4, <1>5, <1>6, <1>7, <1>8, <1>9 DEF Next

LEMMA Invariance == MaxSectors <= CountRange => (Spec => []IInv)
<1> SUFFICES ASSUME MaxSectors <= CountRange PROVE Spec => []IInv
  OBVIOUS
<1>1. IInv /\ [Next]_vars => IInv'
  BY NextInv
<1> QED  BY InitInv, <1>1, PTL DEF Spec

\* The driver's variables and the disk stay within their types: the device is
\* never closed more often than opened, and no request transfers more sectors
\* than it asked for (hd_open, hd_close, hd_rdwt).
THEOREM HdTypes == MaxSectors <= CountRange => (Spec => []TypeOK)
<1> SUFFICES ASSUME MaxSectors <= CountRange PROVE Spec => []TypeOK
  OBVIOUS
<1>1. IInv => TypeOK
  BY DEF IInv
<1> QED  BY Invariance, <1>1, PTL

\* When hd_rdwt is done, the sectors asked for and the client's buffer agree,
\* and the disk has neither a command nor an interrupt left: every interrupt
\* was waited for exactly once, whatever order the disk, hd_handler and the
\* kernel took.
THEOREM RequestsServed == MaxSectors <= CountRange => (Spec => []ReplyComplete)
<1> SUFFICES ASSUME MaxSectors <= CountRange PROVE Spec => []ReplyComplete
  OBVIOUS
<1>1. IInv => ReplyComplete
  BY DEF IInv, Driver, Rests, ReplyComplete, Quiet, Agree
<1> QED  BY Invariance, <1>1, PTL

\* waitfor never asks for the time with an interrupt on its way, so
\* msg_receive's assertion holds there and no interrupt is cleared unseen.
THEOREM NoInterruptWhileTiming == MaxSectors <= CountRange => (Spec => []QuietWhenTiming)
<1> SUFFICES ASSUME MaxSectors <= CountRange PROVE Spec => []QuietWhenTiming
  OBVIOUS
<1>1. IInv => QuietWhenTiming
  BY DEF IInv, Driver, BeforeCommand, QuietWhenTiming, Quiet
<1> QED  BY Invariance, <1>1, PTL

\* The main loop of task_hd never receives an interrupt, on which it would
\* spin() for ever.
THEOREM NeverSpins == MaxSectors <= CountRange => (Spec => [](pc[HD] # "spin"))
<1> SUFFICES ASSUME MaxSectors <= CountRange PROVE Spec => [](pc[HD] # "spin")
  OBVIOUS
<1> QED  BY Invariance, NoSpin, PTL

=============================================================================
