# Verification of the OS_211 kernel and its services

OS_211 is a teaching operating system of the Orange'S line for a 32-bit PC: a
kernel that passes messages, four tasks (TASK_TTY, TASK_SYS, TASK_HD, TASK_FS)
and three user processes. This directory holds TLA+ models of it, the TLC
configurations that check them on small instances, and proofs that TLAPS checks
for every instance. Paths below are relative to `src/OS_211`.

Contents: 1 the system, 2 the plan, 3 the modules and the code, 4 the runs,
5 fairness, 6 what is proved, 7 where code and documentation disagree,
8 what is not modelled.

## 1. The system

| Part | State | Operations | Talks to | What makes it correct |
|---|---|---|---|---|
| message passing, `kernel/proc.c` | of every process `p_flags`, `p_msg`, `p_recvfrom`, `p_sendto`, `has_int_msg`, `q_sending`/`next_sending` | `sys_sendrec` (`msg_send`, `msg_receive`, `deadlock`), `inform_int` | all processes by system call; interrupt handlers | each message is handed over once, in the order of the queue; nobody waits for what is there; no circle of senders; no assertion fails |
| scheduler, clock, `proc.c:schedule`, `kernel/clock.c`, `kernel.asm` | `ticks`, `priority`, `p_proc_ready`, `k_reenter` | `schedule`, `clock_handler`, `save`, `sys_call`, `restart` | `block` calls it; wakes TASK_TTY | only runnable processes run, the one with most time first, none starves |
| TASK_SYS, `kernel/systask.c` | none | GET_TICKS, GET_PID, GET_RTC_TIME | any process | answers every request |
| disk driver, `kernel/hd.c` | `hd_info`, `hd_status`, `hdbuf` | open, close, read/write, ioctl; `hd_handler` | TASK_FS, TASK_SYS (time), the disk | a reply means the transfer is done; no interrupt comes where none is expected; each request is answered |
| terminal driver, `kernel/tty.c` | per terminal `ibuf`, `tty_caller`, `tty_procnr`, `tty_req_buf`, `tty_left_cnt`, `tty_trans_cnt` | open, read (suspends), write, HARD_INT, the read/write loop | TASK_FS, keyboard, console, clock | the right reader gets the characters and is resumed; no key press is slept over |
| keyboard, `kernel/keyboard.c` | `kb_in` ring, shift and lock states, `key_pressed` | `keyboard_handler` (interrupt), `keyboard_read`, `init_keyboard`, `set_leds` | TASK_TTY | the ring is a queue; every key has the effect it had when it was pressed; the reader never waits for a byte that does not come |
| console, `kernel/console.c` | `cursor`, `crtc_start`, `is_full` of three consoles | `out_char`, `scroll_screen`, `select_console` | TASK_TTY, screen memory | the cursor is on the screen; a console keeps to its memory |
| file system, `fs/*.c` | root directory, inode and sector map, inodes, `inode_table`, `f_desc_table`, `filp`, the global `fs_msg` | open, close, read, write, unlink, move, rename, changeType, search, getPath, check, showPro | users, TASK_HD, TASK_TTY | maps, inodes, entries, child lists, counts agree, and the answers about them; a file is a sequence of bytes; every caller gets one answer, its own |
| system call library, `lib/*.c` | none | one stub per call | TASK_FS | |
| start-up, `boot/*`, `kernel/start.c`, `protect.c`, `i8259.c`, `main.c` | hardware tables | once | | |

How they interact. Processes share no memory except through messages; `send_recv`
blocks until the other side is ready. Interrupt handlers change kernel state
directly (`inform_int`, `key_pressed`, `kb_in`, `ticks`) and run whenever
interrupts are enabled: in processes, in tasks, and, because `sys_call` executes
`sti` (`kernel.asm:366`), inside system calls too. A nested clock interrupt does
not reschedule, so a system call is atomic against other processes and not
against interrupts.

Hard behaviours: interrupts inside `sys_sendrec` and `schedule`; the suspended
terminal read, which TASK_FS answers much later with a global message buffer;
TASK_TTY and TASK_FS sending to each other; the disk's interrupts against the
driver's waiting loops; file system operations that fail half way; tables that
run full. Nothing survives a restart: `mkfs` runs at every boot, so there is no
crash recovery to check. PROJECT.json lists every hazard with its line and the
properties aimed at it.

## 2. The plan

In order; those marked * are here.

1. \* `Ipc`, `Rendezvous`, `IpcRefinement`, `IpcProofs`:
   everything else rests on message passing. The abstract specification is the
   rendezvous.
2. \* `Sched`, `SchedProofs`.
3. \* `Hd` and `Tty`, each composed with the processes it talks to over
   `Rendezvous`; `HdProofs`, `TtyProofs`.
4. \* `FsDir`: the name space with its failing operations; `FsQuery`: the questions
   `fs_check`, `showPro` and `get_path` answer, as operators over its state;
   `FsDirProofs` about both.
5. \* `FsData`: `do_rdwt` on regular files; its abstract specification `FileSpec`
   is a sequence of bytes with positions; `FsDataProofs`.
6. \* `Console`, `ConsoleProofs`; `Keyboard`, `KeyboardProofs`: codes of several
   bytes, the ring buffer when full, the second initialisation.
7. `SendQueue`: the linked list of a sending queue implements the sequence of `Ipc`.

Runs are kept to one per question and to a dozen in all. Two of them show a
disagreement of code and documentation; the configurations of eight more are kept
here without a run (section 7).

## 3. Modules and code

**Ipc** (`proc.c`, with `sys_call` and `inform_int`). The process table entries
are functions of the process; a sending queue is the sequence its links spell.
A call in progress is cut into pieces (`kpc`) exactly where an `inform_int` of
the same entry in between makes a difference: `SendReady`/`SendBlock`,
`SendCheck`, `SendCopy`, `SendClear`, `SendUnblock` for `msg_send`; `RecvTest`,
`RecvInt`, `RecvIntCheck`, `RecvFetch`, `RecvNone`, `RecvBlock`, `RecvCheck` for
`msg_receive`. `NestedInts` says whether interrupts are enabled in a call (as in
the code). A failed assertion ends in a state of `Panics`. `msg_receive`'s call
`(src)` covers `ANY`, `INTERRUPT` and a process; who runs is left open.

**Rendezvous** is what the kernel promises: a call is `Idle`, `Sending(d)` or
`Receiving(s)`; a `HandOver` moves a message from the head of those that fit to
the receiver; interrupts are `Raise`d and taken, and come first. `Collide` is what is
left of the promise when an interrupt strikes the receiver of a message in the middle of
the call: the message is lost with its sender's call ended (`LoseMessage`), or the
interrupt takes the place of one that has been handed over (`OverwriteMessage`).
**IpcRefinement** maps `Ipc` to it: a call whose message or interrupt has been taken is
`Idle` although the kernel's bookkeeping still runs. `Collide` is allowed only with
`NestedInts`. `Hd` and `Tty` are composed over the rendezvous without collisions: what a
lost message does to the drivers is not followed there.

**Sched** (`schedule`, `clock_handler`, `save`/`restart`, `block`). The loops of
`schedule()` are steps: `Look` compares, `Take` stores the candidate in
`p_proc_ready`, `LookEnd`, `Refill`, `RefillEnd`. `UserTick` is a clock interrupt
in a process, `KernelTick` one in the kernel, which charges and does not
reschedule; `InformInt` unblocks a task behind the loop. `KernelTick` and
`InformInt` may come between any two steps.

**Hd** (`hd.c`) runs TASK_FS's requests (`rw_sector`, `init_fs`, `mkfs`), the
driver and TASK_SYS over `Rendezvous`, and the disk as external: a command makes
it busy, it raises an interrupt per sector, reading the status clears it. `pc[HD]`
is the place in the driver: `HdTicks`/`HdTicksAwait`/`HdPoll` are `waitfor` with
its two messages per turn, `HdCmdOut` the register writes, `HdPortRead`,
`HdPortWrite`, `HdWritten` the loop of `hd_rdwt`, `HdTable` the commands of
`hd_open`. Sizes count in sectors; `cmd.count` is taken modulo `CountRange` (256).

**Tty** (`tty.c`, with `task_fs`, `do_rdwt` on terminals, `keyboard_handler` and
`clock_handler`). Users call through TASK_FS; `FsTty`/`FsTtyDone` are the driver
exchange of `do_rdwt` with the shared `fs_msg`, `FsAnswer`/`FsReply` the main
loop; `TtyRead`/`KeyboardRead` drain `kb_in` into `ibuf`, `Transfer` is one turn
of `tty_dev_write`, `TtyHardInt`, `TtyDoRead`, `TtyOpenWrite` the requests. `Send`
adds `msg_send`'s panic on a circle of senders. A key is one byte here; what its
code is and does is the business of `Keyboard`.

**FsDir** (`fs/open.c`, `link.c`, `misc.c`, `entry.c`, `path.c:do_rename`, `main.c`).
TASK_FS serves one request at a time, so a request is a step:
`OpenCreate`/`OpenExisting` (`do_open`), `DoClose`, `DoUnlink`, `DoMove`, `DoRename`,
`DoChangeType`. The operators carry the code's names: `search_file` compares one slot
more than the directory has (`Scanned`), takes the first entry of the name and asks
whether the first entry of the parent's name lists it; `new_dir_entry` takes the first
free slot; `make_relat`, `delete_relat`, `move_relat` work on child arrays and fail when
they are full or empty. Half-done operations are modelled as the code leaves them: a
create whose `make_relat` fails keeps inode, sectors, entry and reference; an unlink
that is refused keeps its reference. A name is its text and the extent of its bytes,
because `strcpy` leaves the old end behind. When the directory has filled its sector,
what lies behind the sector (`Behind`) is what the scans see as one more entry, and no
file is created behind it. A user who passes a descriptor that is not open is outside
the model (the code asserts or dereferences null).

**FsQuery** (`fs/check.c`, `fs/time.c`, `path.c:get_path`) is `FsDir` with the
questions a process may ask in any state: `do_check`, with `check_relat`,
`check_child` and `check_path`, `do_showPro` with `calcu_size`, and `get_path`. The
first two test the mode of the descriptor before all else and answer 1 for one opened
with `O_CREAT` alone (`check.c:39`, `time.c:42`); the mode is an argument, for a file
may be open in any. They
change nothing, so they are operators and not actions. `check_path` and `calcu_size`
call themselves and `get_path` starts its search again: each is a function of the number
of rounds (`Way`, `SizesTo`, `Climb`), with as many rounds as a tree, or `m`, can have. The
loops of `check_child` and of the two others fail when they meet the slot behind the
directory's last entry, so an answer comes only if the directory's entries end with
their sector (`QueryGoesOn`), as the demo's do, which creates eight entries in all.
`Climbed` counts the slots of all passes together, as `get_path` does. Where a pointer is
used without having been set, or is null, the answers are a set. The reference
is the tree of the child arrays: `Kids`, and `Beneath` as the least set closed under it.

**FsData** (`read_write.c:do_rdwt`) is one file: the bytes of its sectors and of
the sectors behind them (`disk`), `i_size` and `i_lock` of its inode, the positions
of its descriptors. `Start` is the part in front of the loop (`pos_end`, `rw_sect_min`
and `_max`, `chunk`), `Chunk` one round with fsbuf, `Finish` the end with the new
size. A read fetches whole sectors, a write fetches, patches and stores them.
**FileSpec** is what the reader of `lib/read.c` and `write.c` is promised: a
sequence of bytes and a position per descriptor; `F!Spec` in `FsData` is the
refinement, with the bytes in front of the size as content.

**Keyboard** (`keyboard.c`, `keyboard.h`, `keymap.h`, with `tty.c:in_process`).
The user presses, repeats and releases keys; the controller delivers the codes byte
by byte (`KeyByte`, the interrupt handler with its dropped bytes); TASK_TTY runs
`init_keyboard` store by store, for it is interruptible there, and `keyboard_read`:
`Enter`, `ReadByte` (one `get_byte_from_kb_buf` and, when the code is complete,
what is done with it), `Leave`. `Decode` looks a code up in `keymap` (a kind, a row
and a column), keeps the flags and locks, translates the numeric pad and hands the
key over; `Special` and `Ignore` are Pause, Print Screen and what follows them in
one call. `Wanted` is the reference: what the user meant when the key was pressed,
given the keys held and the locks on at that moment, stated without the driver's
variables. `Ack` is the controller's answer `kb_ack` waits for, which the handler
may also have put into the ring.

**Console** (`console.c`, with the callers of `out_char` in `tty.c`) is the first
console: its memory, cursor and screen start, and the CRT controller's registers.
`out_char` is cut into `Call` (assertion, positions read), `Put`, `Wrap`, the
turns of its loop `Scroll`, and `Return`. Two actors run it: TASK_TTY (`Echo`,
`TtyDoWrite`) and a process inside the system call `sys_printx`, which may come
while TASK_TTY is between two of these steps, or has taken a key for the console and
not yet acted on it (`InProcess`; `ScrollKey` and `SelectConsole` are the keys). Then
`overtaken` is set: from there on TASK_TTY works with what it has read before. The
code can be cut within the steps too, between the load of a field and its store, so
of such a state only `TypeOK` and the assertions are claimed, which hold for every value
that may have been loaded; `mem` and `paper`, on which nothing depends, are not followed
any more (`Followed`). `paper` is the reference: what out_char would print on endless
paper (`Printed`). Every position counts in characters, a character is only there or not.

MC modules give the instances their users, names and symmetry sets.

## 4. The runs

| Run | Question | Bounds |
|---|---|---|
| `ipc_nested` | Do table, queues and circle check survive interrupts in every call? | 3 processes and an informed task, 1 body: queues of up to 3, circles of 2 and 3, all interrupt positions. Finite, no counters |
| `ipc_refines` | Does the kernel implement the rendezvous, where do interrupts in a call break it, and which assertions can they fail? | 2 processes, 1 task, 2 bodies, which tell messages apart |
| `ipc_lost` | What do interrupts in a call break? (section 7) | 3 processes |
| `sched` | Does the scheduler choose rightly and starve nobody? | 4 processes of priorities 2, 2, 1, 1, one informed task: a loop with a process before, at and behind the candidate |
| `hd` | Are replies complete, interrupts expected, requests answered? | 2 sectors, requests of 1 and 2, `CountRange` 2, two tables; the disk may exceed its timeout. Two sectors make first, middle and last interrupts differ |
| `tty` | Do readers get their characters, replies their callers, keys their wakeup? | a shell and a second client, 2 terminals, switching, reads of 1 and 2 bytes, `kb_in` and `ibuf` of one key so that both run full |
| `tty_live` | Does every read return? | one terminal, 2 kinds of keys |
| `keyboard` | Do the keys that are pressed have their effect? | a letter, Shift, Caps Lock, a keypad digit, Up, right Alt, F1, Print Screen, Pause; 3 keys pressed, 2 held at once; `kb_in` of 3 bytes (the code: 32), so that a code of 4 or 6 bytes does not fit and bytes are dropped |
| `fs` | Do the structures of the file system agree whatever fails, and the answers about them? | 2 processes with a descriptor each, 2 files beside the terminal, two names and a new one, paths through a folder that may not exist, 2 child slots (the terminal has one, so that the root runs full), inode table of 3 and a directory of 4 slots (both run full), `MaxChanges` 4 requests that change entries or counts |
| `fs_unlink` | Do the assertions of `do_unlink` hold? (section 7) | 3 files, 6 changes |
| `fsdata` | Is a file a sequence of bytes? | sectors of 2 bytes, a file of 3 sectors, fsbuf of 2, writes of 1, 2, 3 and 5 bytes, reads of 1 to 5, two descriptors, one of them without O_RDWR perhaps: transfers inside, across and behind sectors, of one chunk and of two |
| `console` | Does the screen show the output, and nothing else, does `out_char` return until a process overtakes TASK_TTY, and which assertion can fail then? | lines of 2 characters, screens of 2 lines, a console of 4 (the code: 80, 25, 68), reads of 2; a process prints between any two steps of TASK_TTY |

Every property of a passing run has a mutant, a plausible bug in the mapped
definition that makes TLC find the property violated; PROJECT.json lists them.
Deadlock is checked in `sched`, `hd`, `tty`, `tty_live` and `fsdata`. It
is off in the Ipc runs (processes may all wait to receive, and nothing in the code
looks at that), in `keyboard` (the user has pressed the last of `MaxTyped` keys) and
in `console`, `fs` and `fs_unlink` (a failed assertion or panic stops the machine, and
in the last two requests that are counted run out).

Beyond the bounds: the invariants of `Ipc`, `Sched`, `Hd`, `Tty`, `Console`, `FsDir`,
`FsData` and `Keyboard` are proved for every instance (section 6 says under which
hypotheses). In `fs` four changes reach each failing path of each
operation (a move that fails needs two, a full child array two, a hole in the
directory three); with one process of two descriptors, an inode table of 4 and a
directory of 5 slots its properties have been checked as well.
`FsData` has no bounded counters: the file's capacity ends every behaviour's
growth. Its numbers are chosen so that a chunk is smaller than the file and no
power of the sector. `console` has no bounded counters; with a console of 5 lines
its properties have been checked too. In `keyboard`, three presses make the pairs of
codes that share a byte meet, and the flags of any two keys that are held.

## 5. Fairness

- `Sched`: the kernel's code goes on (weak); a process that computes is
  eventually struck by the clock (strong `UserTick`: calls take microseconds, the
  clock's period is 10 ms). `NoStarvation` has as premise that the clock does not
  forever strike inside `schedule()`.
- `Hd`, `Tty`: weak fairness of every task's steps is what `NoStarvation` gives;
  the kernel hands over; the disk finishes what it was told and its interrupt is
  taken. Users need not call.
- `Tty`: `msg_receive` serves interrupts before senders (`proc.c:386`), so a
  message to TASK_TTY is taken only if the keys leave a gap: `TypistPauses` is
  the premise of `ReadsReturn`, with strong fairness of the hand-over. Enter is
  pressed again and again.
- `Console`: a process inside `out_char` is scheduled (weak).
- `RequestsAnswered` has as premise that the driver does not panic, which it
  does when the disk exceeds `HD_TIMEOUT`.

## 6. What is proved

TLAPS checks these for all values of the constants that satisfy the named assumptions of
the modules, which TLC evaluates on every run: `IpcAssumption` (the special numbers and
flags are different from each other and from processes), `SchedAssumption` (at least one
process, positive priorities), `HdAssumption` (the three tasks are different; at least
one sector), `TtyAssumption` (the two tasks are no users, the special numbers no
processes; sizes are positive), `ConsoleAssumption` (a console of two screens or more),
`FsDirAssumption` (tables that are not empty, finitely many processes; the texts of
names have a length), `FsDataAssumption`, `TextsAssumption`, `KeyboardAssumption`. A
hypothesis of a theorem stands for something the code does not rule out, and each time a
run or a configuration shows what happens without it (section 7):

| Module | Hypothesis | Theorems |
|---|---|---|
| `IpcProofs` | none, interrupts in calls allowed | `TypeCorrect`, `FieldsConsistent`, `QueueConsistent`, `SendersAcyclic`, `QueuePathAsserts`, `NothingMissed`, `AssertionsHold`, `KernelImplementsRendezvous` |
| `SchedProofs` | none | `TypeCorrect`, `NeverRunsBlocked`, `CandidateIsGreatest` |
| `HdProofs` | `MaxSectors <= CountRange`: `cmd.count` is a `u8` | `HdTypes`, `RequestsServed`, `NoInterruptWhileTiming`, `NeverSpins` |
| `ConsoleProofs` | none, processes print at any moment | `TypeCorrect`, `ScreenStaysInside`, `AssertionsHold` |
| `ConsoleProofs` | `ReadsFit`: no read takes more than a screen less a line, and one character: 1921 (`ConsoleLong.cfg`; the shell reads 70) | `ScreenShowsOutput` |
| `TtyProofs` | none | `TypeCorrect`, `ReadersBlocked`, `AnswersWanted`, `KeysWake` |
| `TtyProofs` | `ReaderAlone`: one process reads, the calls of the others do not reach the driver (`TtyTwo.cfg`) | `NeverPanics` |
| `TtyProofs` | `ReadersApart`: no two processes read the same terminal | `NoCallLost` |
| `FsDirProofs` | none | `TypeCorrect`, `OpenStaysPinned`, `MapsStayAgreed`, `AtMostOneParent`, `MoveNeverLoses`, `AnswersAgree` |
| `FsDataProofs` | `WithinFile` (`FsDataEnd.cfg`) | `FileTypes`, `NextFileKept`, `DataImplementsFile` |
| `KeyboardProofs` | `~EarlyKeys` (`KeyboardInit.cfg`) | `KeyboardTypes`, `RingIsQueue` |
| `KeyboardProofs` | also `CodesApart`: the codes of the keys in use are told apart as `keymap.h`'s appendix has them | `MidCodesEnd` |
| `KeyboardProofs` | also `OneAlt`: one Alt key is in use, since the driver has one flag for both (`KeyboardAlts.cfg`) | `KeysTakeEffect` |

`IpcProofs`. No property is inductive alone: whether `msg_receive` may unlink a sender
depends on the queue holding exactly those who send to it, and that on the fields of
processes at rest. The inductive invariant is `IInv == TypeOK /\ FieldsOK /\ QueueOK /\
NoSendCycle /\ CallOK /\ QueuePathSafe`, where `CallOK` says what each piece of a
call in progress knows about its caller and its peer. One lemma per conjunct
shows that steps preserve it (`TypeStep`, `CallStep`, `FieldsStep`, `SafeStep`,
`QueueStep`, `CycleStep`); `UnlinkProperties` states what removing an element
of a sequence does, and `ChainClosed` that the chain `deadlock()` walks is closed
under "sends to", from which `BlockKeepsAcyclic` follows: the one step that adds
an edge adds it only to a chain that does not come back. `NothingMissed` stands on
`IInv` and `NoneFits`: when `msg_receive` is about to block, nobody who fits has
joined the queue since it looked. `MissedStep` then asks of each step what it does to
a receiver that waits for nothing it could have (`Served`); a pending interrupt is
excused only while the call that is about to fail its assertion holds it.

The assertions and the refinement, at the end of `IpcProofs`. Without interrupts in
calls, what a call has read stays true until it acts on it. With them, an interrupt for
a process of the call may come in between, and `Undisturbed` says piece by piece what
then has become of it: the receiver of a hand-over goes on waiting for it (`Expects`),
or it has been woken and holds the interrupt's message (`Woken`); what `msg_receive` saw
of `has_int_msg` still holds, or the caller is a task that interrupts inform. From
`IInv`, `NoneFits`, `NoMissedWakeup` and `Undisturbed` it follows where an assertion can
fail (`AssertStep`), and that every step maps to a step of `Rendezvous`, to a collision
or to a stutter: a hand-over to a receiver that has been woken is the message lost
(`SendLoses`), an interrupt between the copy and the clearing of `p_flags` overwrites it
(in `WakesWaiting`). Otherwise the pieces of a call that keep books stutter
(`SendsQuietly`, `BlocksQuietly`, `UnblocksQuietly`, `ReceivesQuietly`), `SendCopy` and
`RecvFetch` are the hand-over (`HandsOver`), an interrupt is taken by the receiver
(`TakesPending`), wakes it (`WakesWaiting`) or stays pending (`BecomesPending`). That
the head of those who fit in `Ipc` is the head in `Rendezvous` needs the queue of every
process to hold exactly its senders, the reason for `QueueOK` in the invariant.

`SchedProofs`. The invariant says what the loop of `schedule()` has established for the
processes it has passed, while interrupts charge the candidate and unblock others.

`HdProofs`. The driver and the disk take turns, but over four channels: messages both
ways, the interrupt line and `pending`. `Calls` ties the places of the tasks to
their calls (TASK_FS waits exactly while TASK_HD has its request, TASK_SYS answers
exactly while `waitfor` asks for the time), `Queues` says that nobody else waits to
send, `Messages` what the messages in them are and that the device stays opened. For the
driver, `Driver` splits a request into phases: `Rests` (no request or all of it
served), `BeforeCommand` (no command, no interrupt: `Quiet`), `InCommand` (so many
sectors of the command are done, the interrupt for the next is either on the line or
`pending`, and if `Coming` then not both). A sector is counted by TASK_HD, the disk and
the reply, and `Agree` relates the three counts. Every action moves within a phase
or from one to the next; `NextInv` collects them. Since `hd_rdwt` waits for one interrupt
per sector of the request and the disk raises one per sector of `cmd.count`, the
hypothesis is that the request fits `cmd.count`. `NeverSpins` comes from the same
invariant: `task_hd` receives interrupts only where it asked for them.

`TtyProofs`. A user's call is in the hands of one task at a time: of TASK_FS, or of
TASK_TTY once it has suspended the read. `FsOwes` says it of TASK_FS, from the place it
is at, its message and `fs_msg`; `Reads` of a terminal that still owes characters. The
invariant is `IInv == Kernel /\ Data /\ Places /\ Owed /\ Readers /\ Messages /\
KeysSeen`. `Places` ties the places of the tasks to their calls: TASK_FS waits in
`do_rdwt` exactly while TASK_TTY has its request or sends the answer (`Waits`), which is
why a RESUME_PROC cannot be taken for the answer. `Owed`: TASK_FS has in its hands only
what is outstanding. `Readers`: a terminal that owes characters owes them to a process
whose read TASK_FS has not in its hands; with this and `Messages` (what each message on
its way says, and of whom) it follows that a reply goes to who asked. A second reader of
a terminal replaces the first, and all this still holds; what does not is that the first
is ever answered, so `NoCallLost` has `ReadersApart`: an outstanding call is then always
`FsOwes` or `TtyOwes`. Its induction needs that nobody reads zero bytes (`ReadsSome`),
which would be suspended with nothing owed. `NeverPanics` is about the circle of
senders: TASK_TTY resumes a reader with a SEND, which closes a circle if TASK_FS is
sending to it at that moment on behalf of another process. `KeysSeen` does not mention
interrupts: while a key is in `kb_in`, either `key_pressed` is set, so that every tick
wakes TASK_TTY, or the loop over the terminals is still to come to the one that reads
the keyboard. The clock's test of the flag alone keeps keys from being slept over.

`ConsoleProofs`. `AtEnd` says that only between the switch and the test for the end may the
cursor be behind the console, and that a process which finds it there has overtaken TASK_TTY
at this place; so no other assertion fails. It holds whoever prints whenever, like
`Placed`: `pos` is inside the console when a character is put, and the screen starts
at a whole line. Until TASK_TTY is overtaken, `Turns` adds that one actor is in `out_char`
at a time and that `pos` is the cursor until it moves. The rest is arithmetic of lines
(`Lines`, `LineOf`), with `ScrollsInside` for a turn of the scrolling loop, when the
console's end is met and when not.

`ScreenShowsOutput` relates the memory to endless paper, until TASK_TTY is overtaken.
`Agree` is its core: from the cursor upwards, as far as both go, line and row agree
(`Matches`), and from the cursor on memory is blank (`Blank`) up to the console's end,
or in a console that was full once only to the end of the screen, since what lies below
is a turn older. The cursor's own line counts only while it is in the console and on the
screen (`Seen`): between the switch and the clearing it may hold old text. `LastRow`
says that nothing stands right of the cursor, hence a line that is begun is empty.
`Behind` is why erasing needs `ReadsFit`: what the user may still erase (`Erasable`,
minus what the switch is about to do, `Due`) is always in the console, on the paper that
is kept and, once the console was full, on the screen; and the copy at the console's end
leaves all but a line of the screen above the cursor. `NewLine` and `OneWord` say what
ending a row and one character do to `Matches`; the switch combines them
(`NewlineShows`, `CharShows`, `BackspaceShows`, where erasing goes back over a line's
end), `WrapShows` is the copy and `ScrollShows` a turn of the loop, which in a console
that was full once is made at most once.

`FsDirProofs` has one lemma per request. The invariant is `IInv == TypeOK /\ Fixed /\
Blocks /\ MapsAgree /\ OpenIsPinned /\ Listed`. `Fixed`: entry 0 is the root's, which is
never removed. `Blocks`: the files' sectors are blocks of equal length laid end to end;
without it `MapsAgree` is not inductive, because `alloc_smap_bit` finds only the first
free bit and takes what follows for granted. `FreeBlock` shows that this bit begins a
whole free block inside the map, and `BitsLeft` by counting blocks and files that there
is one. `Listed`: only files in use are in child slots, never the root, each in one
slot, so that `delete_relat` takes away the one listing there is, and `OneParent`
follows. What `make_relat`, `delete_relat` and `move_relat` do to a file's listings is
stated once (`Made`, `Deleted`, `Moved`). `Moved` covers the roll-back: whichever half
failed, every file is listed as often as before, which is `MoveNeverLoses`, an action
property. `Pointed` and `Released` do the same for the descriptors' references.

`AnswersAgree` needs no further invariant: with the same `IInv`, the answers about a
file that is `Settled` are right in every state. `Listed` says that the root is in
nobody's child slots and every other file in at most one, and `KidsAre` reads that for
the entry the scans end with (`OneSlot`: an inode has one entry). The way up is thereby
unique. Since a settled file's folders list it, one after the other up to the root,
whichever folder a pass of `get_path` finds is the one `p_num` names, and what it has
put in front is an end of the inodes' path (`WayUp`, `OneFolderMore`, `PathIs`); the
slots `m` has counted before suffice for two folders. For the size, nothing settled lies
beneath itself (`NoneBeneathItself`: from there no way would reach the root), and what
lies beneath two different children is apart (`KidsApart`), so that the sum over the
slots is the cardinality of `Beneath` (`SumIs`, `TotalIs`). `calcu_size` goes down as
far as the tree does: `SizeIs` is an induction on the number of files beneath, which
becomes smaller with every level. The schema of induction takes an operator and cannot
be instantiated; `Upwards` states it for a set of numbers and is proved from the least
one missing (`WFMin`). The same lemma shows that a function of rounds exists (`Rounds`).

The proof changed the property. `AnswersTell` was first about every open file whose
way leads to the root, and TLC held with it in its bounds. It is false: after
`do_unlink` has cut the directory too short (`link.c:215`), a creation may write over the
entry of a file that is still open; its folder still lists it, and `get_path` gives its
folders without its name. This takes a directory of 5 slots and more changes than `fs`
makes. Hence `Settled` has `HasEntry`.

`FsDataProofs`. That a chunk does not change the next file's bytes is seen only from
where the request stands: `IInv` adds `Going`, that what is left of the request ends
within the file's sectors, and that the position is where the next round starts as long
as something is left. `StartGoes` establishes it from the sector arithmetic in front of
the loop (`DivMod`, `DivMonotone`), `ChunkGoes` is the round. For `DataImplementsFile`
the size joins in (`StartSized`, `ChunkSized`): the file ends at the larger of its old
size and what has been written. Then a request maps to one step of `FileSpec`:
`StartMaps`, the rounds with `ChunkMaps` (`WriteMaps`: the bytes fetched, patched and
stored are the content with the new bytes in it; `ReadMaps`: the bytes copied are the
content's), `FinishMaps` the answer.

`KeyboardProofs`. No key may come before `init_keyboard` has ended; with one the ring comes
apart. `RingHolds` speaks of the pointers outside the initialisation
only and is not inductive: `IInv` adds that the ring holds its bytes at all times
(`Ring`), that nothing has arrived while the pointers are set (`Untouched`), and
that Pause, which has no break code, is never among the keys held (`Releasable`;
the break code of a key is a sequence of bytes only for the others). `AcceptRing`
and `TakeRing` are the two lemmas on the ring, one for the handler and one for the
reader, with the wrap of either pointer; every other step leaves the ring alone.

Above the ring, `Stream` is the code that is being read, what the ring holds and what
is on the wire. `Whole` says that it is made of whole codes, by the set of places where a
code ends (`Cuts`): a set of numbers instead of a recursive parser. A code that is sent
adds a place (`WholeMore`), one that is dealt with moves them all (`WholeLess`), and
`ReadRight` says that `keyboard_read` stops reading where a code ends, however the bytes
were cut by interrupts and calls. A code begun is not whole (`BegunNotWhole`), so that
more of it is on its way: `MidCodesEnd`.

For `KeysTakeEffect`, `EffectIn`, `ModsAfter` and `LitAfter` say what a code does to a
driver with given flags and locks. `EffectNarrow` and `EffectWide` compare this with
`Wanted`, row of `keymap` by row; `PressedEffect` joins them: with flags that agree with
the keys held (`Agrees`), the make code has the effect the key was pressed for.
`PressedAgrees` and `ReleasedAgrees` keep the agreement. But when a key is pressed, the
driver has not yet seen the keys before it, and its flags are old. So the invariant
`Follows` is about the flags at the end of what is on its way: there is a set of points
(bytes and effects so far, flags and locks) such that from each of them the next code
has the next effect that is owed and leads to another one, or everything is read and the
flags agree (`Way`). A press or release extends it at the end (`WayMore`), a code that
is read shortens it at the front (`WayLess`), and when nothing is on its way the flags
of the driver are those of the keyboard (`WayEmpty`).

Model-checked only: liveness (`NoStarvation`, `RequestsAnswered`, `ReadsReturn`,
`OutCharReturns`; fairness and ENABLED are outside the prover). Every invariant and
every other action property of a passing run is a theorem.

## 7. Where code and documentation disagree

Shown by a run:

- `ipc_lost`: an interrupt for the receiver while `msg_send` hands over
  (`proc.c:310`) loses the message, and the send still succeeds.
- `fs_unlink`: removing the last file after another shrinks the directory too
  far (`link.c:215`); removing a file behind the new end fails an assertion.

Shown by a configuration that is kept here without a run:

- `TtyTwo.cfg` (module `MCTty`, `ReadsReturn`): completing a line (`tty.c:282`) while
  TASK_FS serves another process's terminal request (`read_write.c:72`) is a circle
  of senders and a panic, so that the read never returns.
- `ConsoleRace.cfg` (`Console`, `Running`): a process that prints by a system
  call while TASK_TTY is inside `out_char`, behind the move of the cursor
  (`console.c:112`) and before the test for the console's end (`:116`), fails the
  assertion at `console.c:89`.
- `ConsoleStuck.cfg` (`Console`, `OutCharEnds`): a process that overtakes TASK_TTY after
  it has read the cursor's line (`console.c:90`) scrolls the screen; TASK_TTY then moves
  the cursor from the old line (`:95`), which may be above the screen. What the process
  prints next scrolls upwards in the loop at `:130` and never reaches it.
- `ConsoleLong.cfg` (`Console`, `OutCharReturns`): who types a line that fills the screen
  and erases it takes the cursor above the screen; before the console was full
  once, `scroll_screen` does not move the screen then, and the loop at
  `console.c:130` never ends.
- `KeyboardInit.cfg` (`MCKeyboard`, `RingHolds`): TASK_TTY initializes the keyboard
  again (`tty.c:76`) with its interrupt enabled; a key between `count = 0`
  (`keyboard.c:79`) and the store of `p_head` (`:80`) is counted while `p_head` goes
  back to the start, and from then on every byte read is an old one.
- `KeyboardAlts.cfg` (`MCKeyboard`, `Decoded`): both Alt keys set and clear `alt_l`
  (`keyboard.c:217`, `:220`; `alt_r` is never set to 1), so that releasing one
  while the other is held clears the flag, and F1 no longer selects a console.
- `FsDataEnd.cfg` (`MCFsData`, `NeighbourKept`): `do_rdwt` cuts the position a write
  ends at to the file's sectors (`read_write.c:94`) but not the number of bytes
  (`:109`), so that a write at the end goes on into the sectors of the next file.
  In the same way a read at the end of the file returns bytes behind it and moves
  the position there, whereupon the file's size grows (`:139`).
- `FsCheck.cfg` (`MCFsDir`, `CheckReturns`): "Zero if successful, otherwise 1" say the
  headers of `do_check` and of `fs_check` (`check.c:29`, `lib/fs_check.c:26`). The code
  puts three answers into one number (`check.c:98-133`): a file that is in order is
  answered 4 when it has children and 6 when it has none, 0 is the answer about one that
  its folder does not list but that has children, and 1 also means that nothing was
  checked. `check_path` answers 1 for a way to the root (`:281`) where its header says
  zero (`:260`). `main.c:197` prints the number as a "condition code". `AnswersTell`
  states what the code answers, not what the headers say.

Seen by changing a constant: with `CountRange` 1 and requests of 2, `Hd` violates
`RequestsAnswered`: `do_rdwt` asks for up to 2048 sectors at once
(`read_write.c:102`), `hd_rdwt` keeps the count in a `u8` (`hd.c:186`) although
`hd.h:227` limits an operation to 256.

Within a passing run: `OnlyInterruptsFailAsserts` names the assertions of `proc.c` that
interrupts in calls make fail, and `ipc_refines` reaches them all: an interrupt wakes the
receiver of a hand-over (`:307`), comes for the caller of `msg_receive` behind its test
(`:407`), or while `msg_receive` blocks (behind `:509`, the assertions `:515` to `:519`). Every
one halts the machine.

The models contain further behaviour that no run refutes a statement with:
references kept by refused removals, renamed files that are not found, equal names
in two folders, moves back that answer success, old text on the cursor's line
after the screen of a full console was scrolled back to its oldest line (`back` in
`Console`); codes behind Pause or Print Screen in one `keyboard_read` that are
ignored, and a reader that spins in the middle of a code of which a byte was
dropped (`stale` and `lost` in `Keyboard`). Of the questions in `FsQuery`: they
fail unless the directory's entries end with a sector; a path three levels deep
loses its first folders, because `get_path` counts the slots of all its passes
(`path.c:240-273`); `check_path` passes `count--` and so never counts
(`check.c:284`), so that a circle of parents, which moves can make, is followed
without end; a folder that is not in `inode_table` is a null pointer; `showPro` of
a plain file shows size 0. `AnswersTell` has these cases in its premises.

## 8. What is not modelled

- Boot code, descriptor tables, the interrupt controller and exception messages:
  hardware set-up without a choice to make.
- Formatting and string primitives.
- The disk log: the first switch of `task_fs` (`fs/main.c:49`) has no case for
  `DISK_LOG`, so that a `syslog()` would fail its `assert(0)`; no program calls it,
  and the dump of the file descriptors is called in comments only. `LSEEK` has no
  case either.
- `do_getPath` has `get_path` write through a pointer that was never set, and
  `search()` never sets the length `do_search` copies: only the search itself
  (`search_file`) and `get_path` are modelled.
- The times of files, which `do_changeType`, reads and writes store and `showPro`
  prints.
- The entry behind a full sector of the directory, which the code misplaces
  (`open.c:454`), and the memory behind a console, which the clearing in `out_char`
  reaches when the cursor is inside the last line (`console.c:134`).
- What a key's character is, and the I/O ports of the keyboard.
- A read of zero bytes from a terminal never returns (`tty.c:310`), so users of
  `Tty` read at least one. Two processes reading one terminal overwrite each
  other's request (`tty.c:308`): the runs have one reader per terminal, and
  `NoCallLost` has it as hypothesis.
- A keyboard reader that has lost a byte or ignored a code is followed until its
  code in progress ends: what the user types after that is not stated.
