--------------------------------- MODULE Hd ---------------------------------
(***************************************************************************)
(* The hard disk driver, TASK_HD (kernel/hd.c), between its client TASK_FS *)
(* (rw_sector, init_fs, mkfs of fs/main.c), TASK_SYS which tells it the    *)
(* time (kernel/systask.c), and the disk.  The tasks communicate through   *)
(* the kernel as module Rendezvous describes it.                           *)
(*                                                                         *)
(* The disk is modelled from what hd.c expects of it: a command makes it   *)
(* busy; when a sector can be read, or the next one after the first can be *)
(* written or the last has been stored, it raises its interrupt; reading   *)
(* the status register clears an interrupt that has not been taken.        *)
(***************************************************************************)
EXTENDS Integers, Sequences

CONSTANTS
    FS, HD, SYS,          \* the tasks
    ANY, INTERRUPT, HARD_INT, Blank,
    Values,               \* what a sector may hold
    NSectors,             \* the sectors of the disk
    MaxSectors,           \* the most sectors a request asks for
    CountRange,           \* a command's sector count is stored modulo this
    MaxTables,            \* the most partition tables on the disk
    Timeouts              \* whether the disk may exceed HD_TIMEOUT

Tasks == {FS, HD, SYS}
Sectors == 0 .. NSectors - 1

ASSUME HdAssumption ==
    /\ FS # HD /\ HD # SYS /\ SYS # FS
    /\ ANY \notin Tasks /\ INTERRUPT \notin Tasks /\ ANY # INTERRUPT
    /\ NSectors \in Nat /\ MaxSectors \in 1 .. NSectors
    /\ Sectors \subseteq Values
    /\ CountRange \in Nat \ {0}
    /\ MaxTables \in Nat \ {0}
    /\ Timeouts \in BOOLEAN

\* The fields of a MESSAGE this module needs: POSITION and CNT in sectors.
Body(type, pos, cnt) == [type |-> type, pos |-> pos, cnt |-> cnt]

IoTypes == {"DEV_READ", "DEV_WRITE"}

Bodies == [type : IoTypes \cup {"DEV_OPEN", "DEV_CLOSE", "DEV_IOCTL",
                                "GET_TICKS"},
           pos : Sectors, cnt : 0 .. MaxSectors]

VARIABLES
    call, waiting, msg, pending,    \* the kernel, see Rendezvous
    pc,           \* pc[t]: where task t is
    hdmsg,        \* task_hd's local msg
    open_cnt,     \* hd_info[0].open_cnt
    todo,         \* commands left of hd_open: identify, partition tables
    left,         \* bytes_left of hd_rdwt, in sectors
    timed,        \* waitfor has read its start time
    wants,        \* the status waitfor waits for: "notBusy" or "DRQ"
    fsbuf,        \* the client's buffer, fsbuf
    disk          \* the disk: status, command, position, count, interrupt, data

kernelVars == <<call, waiting, msg, pending>>
hdVars == <<hdmsg, open_cnt, todo, left, timed, wants>>
vars == <<kernelVars, pc, hdVars, fsbuf, disk>>

K == INSTANCE Rendezvous WITH Procs <- Tasks, IntTasks <- {HD}

\* t's last call has ended and t is at the given place
At(t, place) == call[t] = K!Idle /\ pc[t] = place

\* t goes on
Goto(t, place) == pc' = [pc EXCEPT ![t] = place]

Init ==
    /\ K!Init
    /\ pc = [t \in Tasks |-> IF t = FS THEN "open" ELSE "main"]
    /\ hdmsg = [source |-> HD, body |-> Blank]
    /\ open_cnt = 0
    /\ todo = 0
    /\ left = 0
    /\ timed = FALSE
    /\ wants = "notBusy"
    /\ fsbuf \in [0 .. MaxSectors - 1 -> Values]
    /\ disk = [status |-> "idle", command |-> "read", pos |-> 0, count |-> 0,
               intrq |-> FALSE, data |-> [s \in Sectors |-> s]]

----------------------------------------------------------------------------
(* The kernel: hand-over of a message, or of an interrupt *)

Deliver ==
    /\ \E t \in Tasks : \E i \in DOMAIN waiting[t] : K!HandOver(t, i)
    /\ UNCHANGED <<pc, hdVars, fsbuf, disk>>

\* HD receives an interrupt: in its main loop, which calls spin() for such a
\* message, or in interrupt_wait
DeliverInterrupt ==
    /\ HD \in pending
    /\ K!TakeInterrupt(HD)
    /\ Goto(HD, IF pc[HD] = "dispatch" THEN "spin" ELSE pc[HD])
    /\ UNCHANGED <<hdVars, fsbuf, disk>>

----------------------------------------------------------------------------
(* The client, TASK_FS: BOTH to HD, the device opened first *)

FsOpen ==
    /\ At(FS, "open")
    /\ K!StartSend(FS, HD, Body("DEV_OPEN", 0, 0))
    /\ Goto(FS, "sent")
    /\ UNCHANGED <<hdVars, fsbuf, disk>>

\* ask for sectors, having filled the buffer that is to be written
FsRdwt ==
    /\ At(FS, "idle")
    /\ \E type \in IoTypes, pos \in Sectors, cnt \in 1 .. MaxSectors :
          /\ pos + cnt <= NSectors
          /\ K!StartSend(FS, HD, Body(type, pos, cnt))
          /\ IF type = "DEV_WRITE"
             THEN fsbuf' \in [0 .. MaxSectors - 1 -> Values]
             ELSE UNCHANGED fsbuf
    /\ Goto(FS, "sent")
    /\ UNCHANGED <<hdVars, disk>>

\* mkfs asks for the geometry; what hd_open and hd_close do for a further
\* client that opens and closes the device is taken in
FsOther ==
    /\ At(FS, "idle")
    /\ \E type \in {"DEV_OPEN", "DEV_CLOSE", "DEV_IOCTL"} :
          /\ type = "DEV_CLOSE" => open_cnt > 1
          /\ type = "DEV_OPEN" => open_cnt < 2     \* bound
          /\ K!StartSend(FS, HD, Body(type, 0, 0))
    /\ Goto(FS, "sent")
    /\ UNCHANGED <<hdVars, fsbuf, disk>>

FsAwait ==
    /\ At(FS, "sent")
    /\ K!StartReceive(FS, HD)
    /\ Goto(FS, "wait")
    /\ UNCHANGED <<hdVars, fsbuf, disk>>

FsDone ==
    /\ At(FS, "wait")
    /\ Goto(FS, "idle")
    /\ UNCHANGED <<kernelVars, hdVars, fsbuf, disk>>

----------------------------------------------------------------------------
(* TASK_SYS, as far as HD uses it: GET_TICKS *)

SysMain ==
    /\ At(SYS, "main")
    /\ K!StartReceive(SYS, ANY)
    /\ Goto(SYS, "answer")
    /\ UNCHANGED <<hdVars, fsbuf, disk>>

SysAnswer ==
    /\ At(SYS, "answer")
    /\ K!StartSend(SYS, msg[SYS].source, msg[SYS].body)
    /\ Goto(SYS, "main")
    /\ UNCHANGED <<hdVars, fsbuf, disk>>

----------------------------------------------------------------------------
(* TASK_HD *)

HdMain ==
    /\ At(HD, "main")
    /\ K!StartReceive(HD, ANY)
    /\ Goto(HD, "dispatch")
    /\ UNCHANGED <<hdVars, fsbuf, disk>>

\* the switch of task_hd, which takes msg as the given types of request
Dispatch(types) ==
    /\ At(HD, "dispatch")
    /\ msg[HD].body.type \in types
    /\ hdmsg' = msg[HD]
    /\ wants' = "notBusy"
    /\ timed' = FALSE
    /\ UNCHANGED <<kernelVars, fsbuf, disk>>

\* hd_identify and, when the device is first opened, partition(), each a
\* command per sector
HdOpen ==
    /\ Dispatch({"DEV_OPEN"})
    /\ open_cnt' = open_cnt + 1
    /\ todo' \in IF open_cnt = 0 THEN 2 .. MaxTables + 1 ELSE {1}
    /\ Goto(HD, "ticks")
    /\ UNCHANGED left

\* Mutant: the case of DEV_CLOSE handles DEV_IOCTL, too.
HdCloseIoctlSame ==
    /\ Dispatch({"DEV_CLOSE", "DEV_IOCTL"})
    /\ open_cnt' = open_cnt - 1
    /\ Goto(HD, "reply")
    /\ UNCHANGED <<todo, left>>

\* hd_close, hd_ioctl
HdCloseIoctl ==
    /\ Dispatch({"DEV_CLOSE", "DEV_IOCTL"})
    /\ open_cnt' = IF msg[HD].body.type = "DEV_CLOSE" THEN open_cnt - 1
                                                     ELSE open_cnt
    /\ Goto(HD, "reply")
    /\ UNCHANGED <<todo, left>>

\* hd_rdwt
HdRdwt ==
    /\ Dispatch(IoTypes)
    /\ left' = msg[HD].body.cnt
    /\ Goto(HD, "ticks")
    /\ UNCHANGED <<open_cnt, todo>>

\* waitfor: get_ticks
HdTicks ==
    /\ At(HD, "ticks")
    /\ K!StartSend(HD, SYS, Body("GET_TICKS", 0, 0))
    /\ Goto(HD, "ticksSent")
    /\ UNCHANGED <<hdVars, fsbuf, disk>>

HdTicksAwait ==
    /\ At(HD, "ticksSent")
    /\ K!StartReceive(HD, SYS)
    /\ Goto(HD, "poll")
    /\ UNCHANGED <<hdVars, fsbuf, disk>>

\* Mutant: waitfor(STATUS_BSY, STATUS_BSY, ...).
ReadyBusy == CASE wants = "notBusy" -> disk.status = "busy"
               [] wants = "DRQ" -> disk.status = "DRQ"

Ready == CASE wants = "notBusy" -> disk.status \in {"idle", "DRQ"}
           [] wants = "DRQ" -> disk.status = "DRQ"

\* the disk exceeds HD_TIMEOUT: it is slow, or it has nothing to get ready
Expires == Timeouts \/ (disk.status = "idle" /\ ~Ready)

\* waitfor: the time is over, or the status register is read
HdPoll ==
    /\ At(HD, "poll")
    /\ \/ ~timed
          /\ timed' = TRUE /\ Goto(HD, "ticks") /\ UNCHANGED disk
       \/ timed /\ Expires
          /\ Goto(HD, "panic") /\ UNCHANGED <<timed, disk>>
       \/ timed
          /\ timed' = ~Ready
          /\ disk' = [disk EXCEPT !.intrq = FALSE]
          /\ Goto(HD, IF ~Ready THEN "ticks"
                      ELSE IF wants = "DRQ" THEN "portWrite" ELSE "cmdOut")
    /\ UNCHANGED <<kernelVars, hdmsg, open_cnt, todo, left, wants, fsbuf>>

\* cmd.count, a u8
SectorCount(cnt) == cnt % CountRange

\* hd_cmd_out: the registers; a count of 0 stands for the greatest number
HdCmdOut ==
    /\ At(HD, "cmdOut")
    /\ LET write == todo = 0 /\ hdmsg.body.type = "DEV_WRITE"
           n == IF todo > 0 THEN 1 ELSE SectorCount(hdmsg.body.cnt)
       IN /\ disk' = [disk EXCEPT
                        !.status = IF write THEN "prepare" ELSE "busy",
                        !.command = IF write THEN "write" ELSE "read",
                        !.pos = IF todo > 0 THEN 0 ELSE hdmsg.body.pos,
                        !.count = IF n = 0 THEN CountRange ELSE n]
          /\ wants' = IF write THEN "DRQ" ELSE "notBusy"
          /\ Goto(HD, IF write THEN "ticks" ELSE "intWait")
    /\ UNCHANGED <<kernelVars, hdmsg, open_cnt, todo, left, timed, fsbuf>>

\* interrupt_wait
HdIntWait ==
    /\ At(HD, "intWait")
    /\ K!StartReceive(HD, INTERRUPT)
    /\ Goto(HD, IF disk.command = "write" THEN "written" ELSE "portRead")
    /\ UNCHANGED <<hdVars, fsbuf, disk>>

Done == hdmsg.body.cnt - left       \* the sectors transferred so far

\* the disk gives a sector away and goes for the next
AfterRead == [disk EXCEPT !.status = IF disk.count > 1 THEN "busy" ELSE "idle",
                          !.pos = @ + 1,
                          !.count = @ - 1]

\* hd_identify, get_part_table: port_read to hdbuf
HdTable ==
    /\ At(HD, "portRead")
    /\ todo > 0
    /\ disk' = AfterRead
    /\ todo' = todo - 1
    /\ Goto(HD, IF todo > 1 THEN "ticks" ELSE "reply")
    /\ UNCHANGED <<kernelVars, hdmsg, open_cnt, left, timed, wants, fsbuf>>

\* Mutant: la is not advanced.
HdPortReadSame ==
    /\ At(HD, "portRead")
    /\ todo = 0
    /\ IF disk.status = "DRQ"
       THEN /\ fsbuf' = [fsbuf EXCEPT ![0] = disk.data[disk.pos]]
            /\ disk' = AfterRead
       ELSE UNCHANGED <<fsbuf, disk>>
    /\ left' = left - 1
    /\ Goto(HD, IF left > 1 THEN "intWait" ELSE "reply")
    /\ UNCHANGED <<kernelVars, hdmsg, open_cnt, todo, timed, wants>>

\* hd_rdwt: port_read, phys_copy to the client
HdPortRead ==
    /\ At(HD, "portRead")
    /\ todo = 0
    /\ IF disk.status = "DRQ"
       THEN /\ fsbuf' = [fsbuf EXCEPT ![Done] = disk.data[disk.pos]]
            /\ disk' = AfterRead
       ELSE UNCHANGED <<fsbuf, disk>>         \* there is nothing to read
    /\ left' = left - 1
    /\ Goto(HD, IF left > 1 THEN "intWait" ELSE "reply")
    /\ UNCHANGED <<kernelVars, hdmsg, open_cnt, todo, timed, wants>>

\* Mutant: hd_rdwt does not wait for an interrupt after a sector.
HdPortWriteNoWait ==
    /\ At(HD, "portWrite")
    /\ disk' = [disk EXCEPT !.status = "store",
                            !.data[disk.pos] = fsbuf[Done]]
    /\ Goto(HD, "written")
    /\ UNCHANGED <<kernelVars, hdVars, fsbuf>>

\* hd_rdwt: port_write from the client's buffer
HdPortWrite ==
    /\ At(HD, "portWrite")
    /\ disk' = [disk EXCEPT !.status = "store",
                            !.data[disk.pos] = fsbuf[Done]]
    /\ Goto(HD, "intWait")
    /\ UNCHANGED <<kernelVars, hdVars, fsbuf>>

\* and the interrupt behind it has come
HdWritten ==
    /\ At(HD, "written")
    /\ left' = left - 1
    /\ Goto(HD, IF left > 1 THEN "ticks" ELSE "reply")
    /\ UNCHANGED <<kernelVars, hdmsg, open_cnt, todo, timed, wants, fsbuf, disk>>

HdReply ==
    /\ At(HD, "reply")
    /\ K!StartSend(HD, hdmsg.source, hdmsg.body)
    /\ Goto(HD, "main")
    /\ UNCHANGED <<hdVars, fsbuf, disk>>

----------------------------------------------------------------------------
(* The disk, and hd_handler *)

\* a sector to be read is there, or the first to be written is accepted
DiskReady ==
    /\ disk.status \in {"busy", "prepare"}
    /\ disk' = [disk EXCEPT !.status = "DRQ",
                            !.intrq = (disk.status = "busy")]
    /\ UNCHANGED <<kernelVars, pc, hdVars, fsbuf>>

\* a written sector is stored
DiskStored ==
    /\ disk.status = "store"
    /\ disk' = [disk EXCEPT !.status = IF disk.count > 1 THEN "DRQ" ELSE "idle",
                            !.pos = @ + 1,
                            !.count = @ - 1,
                            !.intrq = TRUE]
    /\ UNCHANGED <<kernelVars, pc, hdVars, fsbuf>>

\* hd_handler: reading the status register clears the interrupt
HdHandler ==
    /\ disk.intrq
    /\ disk' = [disk EXCEPT !.intrq = FALSE]
    /\ K!Raise(HD)
    /\ UNCHANGED <<pc, hdVars, fsbuf>>

\* spin() and panic() do not return
Stopped ==
    /\ pc[HD] \in {"spin", "panic"}
    /\ UNCHANGED vars

----------------------------------------------------------------------------

FsRequest == FsRdwt \/ FsOther
FsStep == FsOpen \/ FsAwait \/ FsDone
SysStep == SysMain \/ SysAnswer
HdStep == HdMain \/ HdOpen \/ HdCloseIoctl \/ HdRdwt \/ HdTicks \/ HdTicksAwait \/ HdPoll
          \/ HdCmdOut \/ HdIntWait \/ HdTable \/ HdPortRead \/ HdPortWrite
          \/ HdWritten \/ HdReply
DiskStep == DiskReady \/ DiskStored
KernelStep == Deliver \/ DeliverInterrupt

Next == FsRequest \/ FsStep \/ SysStep \/ HdStep \/ DiskStep \/ HdHandler
        \/ KernelStep \/ Stopped

\* The tasks are scheduled (Sched, NoStarvation), the kernel hands over, the
\* disk finishes what it was told and its interrupts are taken.
Fairness ==
    /\ WF_vars(FsStep) /\ WF_vars(SysStep) /\ WF_vars(HdStep)
    /\ WF_vars(KernelStep) /\ WF_vars(DiskStep) /\ WF_vars(HdHandler)

Spec == Init /\ [][Next]_vars /\ Fairness

----------------------------------------------------------------------------
(* Properties *)

\* The types of the driver's variables and of the disk.
TypeOK ==
    /\ pc[HD] \in {"main", "dispatch", "ticks", "ticksSent", "poll", "cmdOut",
                   "intWait", "portRead", "portWrite", "written", "reply",
                   "spin", "panic"}
    /\ open_cnt \in 0 .. 2
    /\ todo \in 0 .. MaxTables + 1
    /\ left \in 0 .. MaxSectors
    /\ timed \in BOOLEAN
    /\ fsbuf \in [0 .. MaxSectors - 1 -> Values]
    /\ disk.status \in {"idle", "busy", "prepare", "store", "DRQ"}
    /\ disk.data \in [Sectors -> Values]
    /\ disk.pos \in 0 .. NSectors

\* When HD replies, the client's buffer and the sectors it asked for agree,
\* and the disk is done with the command: nothing of one request is left for
\* the next, not even an interrupt.
ReplyComplete ==
    pc[HD] = "reply" =>
        /\ disk.status = "idle" /\ ~disk.intrq /\ HD \notin pending
        /\ hdmsg.body.type \in IoTypes =>
              \A i \in 0 .. hdmsg.body.cnt - 1 :
                  fsbuf[i] = disk.data[hdmsg.body.pos + i]

\* While HD asks TASK_SYS for the time no interrupt is there or about to
\* come, so msg_receive's assertion that has_int_msg is clear holds for that
\* RECEIVE, too, and waitfor's reading of the status register clears none.
QuietWhenTiming ==
    pc[HD] \in {"ticks", "ticksSent", "poll"} =>
        HD \notin pending /\ ~disk.intrq /\ disk.status # "store"

\* rw_sector always returns: the main loop never receives an interrupt, which
\* it would spin() on, and every request is answered, unless the disk has
\* exceeded HD_TIMEOUT and hd_cmd_out or hd_rdwt has panicked.
RequestsAnswered ==
    [](pc[HD] # "panic") => (pc[FS] = "sent" ~> pc[FS] = "idle")
=============================================================================
