------------------------------ MODULE Console ------------------------------
(***************************************************************************)
(* The first console of 211 OS (kernel/console.c): the lines of video      *)
(* memory it owns, its cursor, the line its screen starts at, and the      *)
(* registers of the CRT controller, which show the current console.        *)
(*                                                                         *)
(* TASK_TTY prints with out_char what is typed and written (kernel/tty.c), *)
(* and any other process prints with it in a system call, sys_printx,      *)
(* which TASK_TTY cannot interrupt but may be interrupted by.  The pieces  *)
(* of out_char and scroll_screen are steps.  Once a process has printed    *)
(* while TASK_TTY was inside one of the two it is overtaken: the code can  *)
(* be cut inside the pieces as well, between the load and the store of a   *)
(* field, so that of such a state only what holds of every loaded value is *)
(* claimed, TypeOK and OnlyOvertakingFailsAsserts, and what stands in the  *)
(* memory, which decides nothing, is not followed further.                 *)
(*                                                                         *)
(* Positions count from the console's start.  Of a character only its      *)
(* presence is kept.  What lies behind the console's memory is left out:   *)
(* clear_screen writes there when the cursor is inside the last line.      *)
(***************************************************************************)
EXTENDS Integers, Sequences

CONSTANTS
    SCR_WIDTH,    \* characters of a line
    ScrLines,     \* lines of a screen
    ConLines,     \* lines of a console
    ReadMax       \* characters a process reads at once from the terminal

ASSUME ConsoleAssumption ==
    /\ SCR_WIDTH \in Nat \ {0} /\ ScrLines \in Nat \ {0, 1}
    /\ ConLines \in Nat /\ ConLines >= 2 * ScrLines
    /\ ReadMax \in Nat \ {0}

SCR_SIZE == SCR_WIDTH * ScrLines
con_size == SCR_WIDTH * ConLines
Words == 0 .. con_size - 1

Actors == {"TTY", "printx"}
Chars == {"char", "newline", "backspace"}

VARIABLES
    mem,                          \* mem[p]: whether a character stands at p
    cursor, crtc_start, is_full,  \* the CONSOLE
    current,                      \* whether it is the current console
    crtc,                         \* the registers, if it is
    typed,                        \* tty_trans_cnt of the read in progress
    pc, ch, pos,                  \* of each actor: place in out_char, its
                                  \* argument, the cursor when it was called
    paper,                        \* what has been printed, see Printed
    back,                         \* history: the screen of the full console
                                  \* was moved by hand
    overtaken                     \* history: a process has printed inside
                                  \* TASK_TTY's out_char or scroll_screen

conVars == <<cursor, crtc_start, is_full>>
callVars == <<pc, ch, pos>>
vars == <<mem, conVars, current, crtc, typed, callVars, paper, back,
          overtaken>>

Running == \A a \in Actors : pc[a] # "assert"

\* a system call runs to its end before TASK_TTY goes on
At(a, place) ==
    /\ Running
    /\ pc[a] = place
    /\ a = "TTY" => pc["printx"] = "idle"

Goto(a, place) == pc' = [pc EXCEPT ![a] = place]

(***************************************************************************)
(* The reference: out_char on endless paper, of which the last rows are    *)
(* kept.  A row is the set of columns that hold a character.               *)
(***************************************************************************)
Kept == ScrLines + 1
NewRow(rows) ==
    IF Len(rows) < Kept THEN Append(rows, {}) ELSE Append(Tail(rows), {})

Printed(rows, c, col) ==
    LET end == Len(rows)
    IN CASE c = "newline" -> NewRow(rows)
         [] c = "backspace" /\ col > 0 -> [rows EXCEPT ![end] = @ \ {col - 1}]
         [] c = "backspace" /\ col = 0 /\ end > 1 ->
                [SubSeq(rows, 1, end - 1) EXCEPT ![end - 1] = @ \ {SCR_WIDTH - 1}]
         [] c = "char" ->
                LET put == [rows EXCEPT ![end] = @ \cup {col}]
                IN IF col = SCR_WIDTH - 1 THEN NewRow(put) ELSE put
         [] OTHER -> rows

----------------------------------------------------------------------------
(* Memory and registers *)

\* the contents of memory, which are followed until TASK_TTY is overtaken
Followed(m) == IF overtaken THEN [p \in Words |-> FALSE] ELSE m

\* clear_screen
Cleared(m, p, len) == [i \in Words |-> m[i] /\ i \notin p .. p + len - 1]

\* w_copy
Copied(m, dst, src, size) ==
    [i \in Words |-> IF i \in dst .. dst + size - 1
                     THEN src + i - dst \in Words /\ m[src + i - dst] ELSE m[i]]

\* flush
Flush == crtc' = IF current' THEN <<cursor', crtc_start'>> ELSE crtc

\* Mutant of Scrolled: the screen does not go back to the first line.
ScrolledOn(cur, start, full, dir) ==
    LET newest == (cur \div SCR_WIDTH) * SCR_WIDTH
        oldest == IF full THEN (newest + SCR_WIDTH) % con_size ELSE 0
    IN CASE dir = "SCR_DN" /\ start # oldest /\ start # 0 -> start - SCR_WIDTH
         [] dir = "SCR_UP" /\ ~full /\ newest >= start + SCR_SIZE -> start + SCR_WIDTH
         [] dir = "SCR_UP" /\ full /\ start + SCR_SIZE - SCR_WIDTH # newest ->
                start + SCR_WIDTH
         [] OTHER -> start

\* Mutant of Scrolled: the newest line may stay behind the screen.
ScrolledLate(cur, start, full, dir) ==
    LET newest == (cur \div SCR_WIDTH) * SCR_WIDTH
    IN IF dir = "SCR_UP" /\ newest > start + SCR_SIZE THEN start + SCR_WIDTH
       ELSE start

\* scroll_screen: where the screen starts afterwards
Scrolled(cur, start, full, dir) ==
    LET newest == (cur \div SCR_WIDTH) * SCR_WIDTH
        oldest == IF full THEN (newest + SCR_WIDTH) % con_size ELSE 0
    IN CASE dir = "SCR_DN" /\ ~full /\ start > 0 -> start - SCR_WIDTH
         [] dir = "SCR_DN" /\ full /\ start # oldest ->
                IF start # 0 THEN start - SCR_WIDTH
                ELSE IF cur >= con_size - SCR_SIZE THEN 0
                ELSE con_size - SCR_SIZE
         [] dir = "SCR_UP" /\ ~full /\ newest >= start + SCR_SIZE -> start + SCR_WIDTH
         [] dir = "SCR_UP" /\ full /\ start + SCR_SIZE - SCR_WIDTH # newest ->
                IF start + SCR_SIZE = con_size THEN 0 ELSE start + SCR_WIDTH
         [] OTHER -> start

\* init_screen, behind what was printed while the system started
Init ==
    /\ mem = [p \in Words |-> FALSE]
    /\ \E line \in 0 .. ScrLines - 1 :
          /\ cursor = line * SCR_WIDTH
          /\ paper = [i \in 1 .. line + 1 |-> {}]
    /\ crtc_start = 0
    /\ is_full = FALSE
    /\ current = TRUE
    /\ crtc = <<cursor, crtc_start>>
    /\ typed = 0
    /\ pc = [a \in Actors |-> "idle"]
    /\ ch = [a \in Actors |-> "char"]
    /\ pos = [a \in Actors |-> 0]
    /\ back = FALSE /\ overtaken = FALSE

----------------------------------------------------------------------------
(* out_char, in steps *)

\* the assertion, and cursor_y and pch, which it keeps
Call(a, c) ==
    /\ IF cursor < con_size THEN Goto(a, "put") ELSE Goto(a, "assert")
    /\ ch' = [ch EXCEPT ![a] = c]
    /\ pos' = [pos EXCEPT ![a] = cursor]
    /\ UNCHANGED <<mem, conVars, current, crtc, paper, back>>

\* the switch
Put(a) ==
    /\ At(a, "put")
    /\ CASE ch[a] = "newline" ->
              cursor' = SCR_WIDTH * (pos[a] \div SCR_WIDTH + 1) /\ UNCHANGED mem
         [] ch[a] = "backspace" ->
              IF cursor > 0
              THEN cursor' = cursor - 1 /\ mem' = Followed(Cleared(mem, pos[a] - 1, 1))
              ELSE UNCHANGED <<cursor, mem>>
         [] ch[a] = "char" ->
              cursor' = cursor + 1 /\ mem' = Followed([mem EXCEPT ![pos[a]] = TRUE])
    /\ paper' = IF overtaken THEN <<{}>> ELSE Printed(paper, ch[a], pos[a] % SCR_WIDTH)
    /\ Goto(a, "wrap")
    /\ UNCHANGED <<crtc_start, is_full, current, crtc, typed, ch, pos, back, overtaken>>

\* Mutant of Wrap: the lines are copied from one line too early.
WrapEarly(a) ==
    /\ At(a, "wrap")
    /\ IF cursor >= con_size
       THEN LET src == (cursor \div SCR_WIDTH) * SCR_WIDTH - SCR_SIZE
                cur == SCR_SIZE - SCR_WIDTH + (cursor % SCR_WIDTH)
                copied == Copied(mem, 0, src, SCR_SIZE - SCR_WIDTH)
            IN /\ mem' = Followed(Cleared(copied, cur, SCR_WIDTH))
               /\ crtc_start' = 0 /\ cursor' = cur /\ is_full' = TRUE
       ELSE UNCHANGED <<mem, conVars>>
    /\ Goto(a, "scroll")
    /\ UNCHANGED <<current, crtc, typed, ch, pos, paper, back, overtaken>>

\* Mutant of Wrap: a cursor just behind the console's end is not noticed.
WrapLate(a) ==
    /\ At(a, "wrap")
    /\ IF cursor > con_size
       THEN LET src == (cursor \div SCR_WIDTH + 1) * SCR_WIDTH - SCR_SIZE
                cur == SCR_SIZE - SCR_WIDTH + (cursor % SCR_WIDTH)
                copied == Copied(mem, 0, src, SCR_SIZE - SCR_WIDTH)
            IN /\ mem' = Followed(Cleared(copied, cur, SCR_WIDTH))
               /\ crtc_start' = 0 /\ cursor' = cur /\ is_full' = TRUE
       ELSE UNCHANGED <<mem, conVars>>
    /\ Goto(a, "scroll")
    /\ UNCHANGED <<current, crtc, typed, ch, pos, paper, back, overtaken>>

\* At the end of the console its last lines are copied to its start.
Wrap(a) ==
    /\ At(a, "wrap")
    /\ IF cursor >= con_size
       THEN LET src == (cursor \div SCR_WIDTH + 1) * SCR_WIDTH - SCR_SIZE
                cur == SCR_SIZE - SCR_WIDTH + (cursor % SCR_WIDTH)
                copied == Copied(mem, 0, src, SCR_SIZE - SCR_WIDTH)
            IN /\ mem' = Followed(Cleared(copied, cur, SCR_WIDTH))
               /\ crtc_start' = 0 /\ cursor' = cur /\ is_full' = TRUE
       ELSE UNCHANGED <<mem, conVars>>
    /\ Goto(a, "scroll")
    /\ UNCHANGED <<current, crtc, typed, ch, pos, paper, back, overtaken>>

CursorShown == cursor >= crtc_start /\ cursor < crtc_start + SCR_SIZE

\* the loop, until the cursor is on the screen
Scroll(a) ==
    /\ At(a, "scroll")
    /\ ~CursorShown
    /\ crtc_start' = Scrolled(cursor, crtc_start, is_full, "SCR_UP")
    /\ mem' = Followed(Cleared(mem, cursor, SCR_WIDTH))
    /\ UNCHANGED <<cursor, is_full, current, typed, callVars, paper, back, overtaken>>
    /\ Flush

\* and back to the caller
Return(a) ==
    /\ At(a, "scroll")
    /\ CursorShown
    /\ Goto(a, "idle")
    /\ ch' = [ch EXCEPT ![a] = "char"] /\ pos' = [pos EXCEPT ![a] = 0]
    /\ UNCHANGED <<mem, conVars, current, typed, paper, back, overtaken>>
    /\ Flush

OutCharStep(a) == Put(a) \/ Wrap(a) \/ Scroll(a) \/ Return(a)

----------------------------------------------------------------------------
(* Who prints *)

\* Mutant of Echo: a backspace is taken although nothing has been typed.
EchoAnyBackspace ==
    /\ At("TTY", "idle")
    /\ \/ typed < ReadMax /\ typed' = typed + 1 /\ Call("TTY", "char")
       \/ typed < ReadMax /\ typed' = typed - 1 /\ Call("TTY", "backspace")
       \/ typed' = 0 /\ Call("TTY", "newline")
    /\ UNCHANGED overtaken

\* tty_dev_write: a line that is full is ended at once
Echo ==
    /\ At("TTY", "idle")
    /\ \/ typed < ReadMax /\ typed' = typed + 1 /\ Call("TTY", "char")
       \/ typed \in 1 .. ReadMax - 1 /\ typed' = typed - 1 /\ Call("TTY", "backspace")
       \/ typed' = 0 /\ Call("TTY", "newline")
    /\ UNCHANGED overtaken

\* tty_do_write; no program of the system writes a backspace
TtyDoWrite ==
    /\ At("TTY", "idle")
    /\ typed < ReadMax
    /\ \E c \in {"char", "newline"} : Call("TTY", c)
    /\ UNCHANGED <<typed, overtaken>>

\* sys_printx, between any two steps of TASK_TTY
SysPrintx ==
    /\ At("printx", "idle")
    /\ \E c \in {"char", "newline"} : Call("printx", c)
    /\ overtaken' = (overtaken \/ pc["TTY"] # "idle")
    /\ UNCHANGED typed

\* in_process, with a key for the console
InProcess ==
    /\ At("TTY", "idle")
    /\ Goto("TTY", "key")
    /\ UNCHANGED <<mem, conVars, current, crtc, typed, ch, pos, paper, back, overtaken>>

\* Shift+Up and Shift+Down: scroll_screen of the current console
ScrollKey ==
    /\ At("TTY", "key")
    /\ current
    /\ \E dir \in {"SCR_UP", "SCR_DN"} :
          crtc_start' = Scrolled(cursor, crtc_start, is_full, dir)
    /\ back' = (back \/ (is_full /\ crtc_start' # crtc_start))
    /\ Goto("TTY", "idle")
    /\ UNCHANGED <<mem, cursor, is_full, current, typed, ch, pos, paper, overtaken>>
    /\ Flush

\* Alt+Fn: select_console, with this console or another
SelectConsole ==
    /\ At("TTY", "key")
    /\ current' = ~current
    /\ Goto("TTY", "idle")
    /\ UNCHANGED <<mem, conVars, typed, ch, pos, paper, back, overtaken>>
    /\ IF current' THEN Flush ELSE crtc' = <<0, 0>>

Next ==
    \/ \E a \in Actors : OutCharStep(a)
    \/ Echo \/ TtyDoWrite \/ SysPrintx
    \/ InProcess \/ ScrollKey \/ SelectConsole

\* whoever prints is scheduled
Fairness == \A a \in Actors : WF_vars(OutCharStep(a))

Spec == Init /\ [][Next]_vars /\ Fairness

----------------------------------------------------------------------------
(* Properties *)

\* The types of the variables; the start of the screen has its range in
\* ScreenInside.
TypeOK ==
    /\ mem \in [Words -> BOOLEAN]
    /\ cursor \in 0 .. con_size /\ crtc_start \in Int
    /\ is_full \in BOOLEAN /\ current \in BOOLEAN
    /\ crtc \in (0 .. con_size) \X Int
    /\ typed \in 0 .. ReadMax
    /\ pc \in [Actors -> {"idle", "put", "wrap", "scroll", "key", "assert"}]
    /\ ch \in [Actors -> Chars] /\ pos \in [Actors -> 0 .. con_size]
    /\ Len(paper) \in 1 .. Kept
    /\ \A i \in DOMAIN paper : paper[i] \subseteq 0 .. SCR_WIDTH - 1
    /\ back \in BOOLEAN /\ overtaken \in BOOLEAN

\* Until a process overtakes TASK_TTY, the screen shows whole lines of the
\* console and never the memory of the next one, whatever is printed, scrolled
\* and selected (console.c:scroll_screen); and while nobody prints, the
\* registers hold the cursor and the start of the current console
\* (console.c:flush).
ScreenInside == ~overtaken =>
    /\ crtc_start \in 0 .. con_size - SCR_SIZE /\ crtc_start % SCR_WIDTH = 0
    /\ current /\ (\A a \in Actors : pc[a] = "idle") => crtc = <<cursor, crtc_start>>

Line(l) == {col \in 0 .. SCR_WIDTH - 1 : mem[l * SCR_WIDTH + col]}

\* When out_char has put the cursor on the screen, the lines of the screen
\* down to the cursor hold what was printed last, and those below are blank:
\* neither the copy at the console's end nor the clearing in the loop loses a
\* line or shows an old one (console.c:116-135).
OutputShown ==
    \A a \in Actors : pc[a] = "scroll" /\ CursorShown /\ ~back /\ ~overtaken =>
        LET l == cursor \div SCR_WIDTH
            top == crtc_start \div SCR_WIDTH
        IN \A i \in top .. top + ScrLines - 1 :
              /\ i > l => Line(i) = {}
              /\ i <= l /\ l - i < Len(paper) => Line(i) = paper[Len(paper) - (l - i)]

\* Of out_char's assertions (console.c:89, 128) only the first one can fail,
\* and only in a process that prints while TASK_TTY has its cursor behind the
\* console and not yet moved it back (console.c:110-122).
OnlyOvertakingFailsAsserts ==
    /\ pc["TTY"] # "assert"
    /\ pc["printx"] = "assert" => pc["TTY"] = "wrap" /\ cursor = con_size

\* The loop that scrolls until the cursor is on the screen ends, so that every
\* character printed returns (console.c:130), until a process overtakes
\* TASK_TTY.
OutCharReturns == \A a \in Actors : pc[a] = "put" ~> pc[a] = "idle" \/ overtaken

\* What a process prints returns even when it has overtaken TASK_TTY, unless an
\* assertion fails: it does not hold, the line that TASK_TTY remembers from
\* before may be above the screen, which scrolling upwards never reaches.
OutCharEnds == pc["printx"] = "put" ~> pc["printx"] = "idle" \/ ~Running
=============================================================================
