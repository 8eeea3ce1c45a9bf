------------------------------ MODULE Keyboard ------------------------------
(***************************************************************************)
(* The keyboard of 211 OS (kernel/keyboard.c): keys are pressed and        *)
(* released, the controller delivers their scan codes a byte at a time,    *)
(* the interrupt handler puts the bytes into the ring kb_in, and TASK_TTY  *)
(* takes them out again in keyboard_read, recognizes the codes, keeps the  *)
(* state of the modifier and lock keys and hands each key to in_process.   *)
(*                                                                         *)
(* A key is its make code (keymap.h's appendix).  What a key means to the  *)
(* driver is its place in keymap: a kind, a row and a column; which        *)
(* character stands there is left out.  When TASK_TTY calls keyboard_read, *)
(* and for which terminal, is in module Tty.                               *)
(***************************************************************************)
EXTENDS Integers, Sequences, FiniteSets

CONSTANTS
    KB_IN_BYTES,    \* bytes of kb_in
    Keys,           \* the keys in use, each its make code
    MaxHeld,        \* keys held down at once
    MaxTyped,       \* keys pressed in a behaviour
    EarlyKeys       \* whether a key is pressed before init_keyboard's end

ASSUME KeyboardAssumption ==
    /\ KB_IN_BYTES \in Nat \ {0}
    /\ Keys \subseteq Seq(0 .. 255) \ {<<>>}
    /\ \A k \in Keys : k[Len(k)] < 128 \/ k = <<225, 29, 69, 225, 157, 197>>
    /\ MaxHeld \in Nat /\ MaxTyped \in Nat /\ EarlyKeys \in BOOLEAN

Bytes == 0 .. 255
E0 == 224
E1 == 225
KB_ACK == 250
FLAG_BREAK == 128

Pause == <<E1, 29, 69, E1, 157, 197>>
PrintScreen == <<E0, 42, E0, 55>>
PrintScreenBreak == <<E0, 183, E0, 170>>
ShiftKeys == {<<42>>, <<54>>}
CtrlKeys == {<<29>>, <<E0, 29>>}
AltKeys == {<<56>>, <<E0, 56>>}
Modifiers == ShiftKeys \cup CtrlKeys \cup AltKeys

VARIABLES
    buf, p_head, p_tail, count,    \* kb_in
    fifo,          \* history: the bytes accepted into kb_in and not taken out
    wire,          \* bytes of the last code the controller has to deliver
    held, locks,   \* what is held down, and which locks are on
    typed,         \* keys pressed so far
    pc,            \* of TASK_TTY: in init_keyboard, "away", in keyboard_read
    code,          \* the bytes read of the code in progress
    key, make,     \* keyboard_read's locals
    mods, lit,     \* shift_l, ... alt_r that are set; caps_lock ... that are
    leds,          \* KB_ACKs set_leds waits for
    owed, agree,   \* history: effects typed and not yet seen, see Hand
    lost, stale    \* history: a byte was dropped; a code was ignored

ringVars == <<buf, p_head, p_tail, count, fifo>>
userVars == <<held, locks, typed>>
readVars == <<code, key, make>>
historyVars == <<owed, agree, lost, stale>>
vars == <<ringVars, wire, userVars, pc, readVars, mods, lit, leds, historyVars>>

None == <<"none", 0, 0>>

(***************************************************************************)
(* keymap.h                                                                *)
(***************************************************************************)
Letters == (16 .. 25) \cup (30 .. 38) \cup (44 .. 50)
CharRows == (2 .. 13) \cup (16 .. 27) \cup (30 .. 41) \cup {43} \cup (44 .. 53) \cup {55, 57}
FRows == (59 .. 68) \cup {87, 88}
PadDigits == {71, 72, 73, 75, 76, 77} \cup (79 .. 83)
PadSigns == {74, 78}

\* the rows of the keys that need no character and have one kind
Named == [row \in {1, 14, 15, 28, 29, 42, 54, 56, 58, 69, 70} |->
    CASE row = 1 -> "ESC" [] row = 14 -> "BACKSPACE" [] row = 15 -> "TAB"
      [] row = 28 -> "ENTER" [] row = 29 -> "CTRL_L" [] row = 42 -> "SHIFT_L"
      [] row = 54 -> "SHIFT_R" [] row = 56 -> "ALT_L" [] row = 58 -> "CAPS_LOCK"
      [] row = 69 -> "NUM_LOCK" [] row = 70 -> "SCROLL_LOCK"]

\* the kind of key in a column of a row; column 2 is for codes with E0
keymap == [row \in 0 .. 127 |-> [column \in 0 .. 2 |->
    IF column = 2
    THEN CASE row = 28 -> "ENTER" [] row = 53 -> "slash"
           [] row = 29 -> "CTRL_R" [] row = 56 -> "ALT_R"
           [] row = 72 -> "UP" [] row = 80 -> "DOWN"
           [] row \in (PadDigits \ {72, 76, 80}) \cup (91 .. 93) -> "grey"
           [] OTHER -> "none"
    ELSE CASE row \in CharRows -> "char"
           [] row \in DOMAIN Named -> Named[row]
           [] row \in FRows -> "F"
           [] row \in PadDigits -> IF column = 0 THEN "digit" ELSE "char"
           [] row \in PadSigns -> IF column = 0 THEN "sign" ELSE "char"
           [] OTHER -> "none"]]

----------------------------------------------------------------------------
(* The ring *)

\* one position on, with the wrap of a pointer that has reached the end
After(p) == IF p + 1 = KB_IN_BYTES THEN 0 ELSE p + 1

\* Mutant of Accept: one byte too many is accepted.
AcceptOneMore(b) ==
    /\ IF count <= KB_IN_BYTES
       THEN /\ buf' = [buf EXCEPT ![p_head] = b]
            /\ p_head' = After(p_head)
            /\ count' = count + 1
            /\ fifo' = Append(fifo, b)
       ELSE UNCHANGED <<buf, p_head, count, fifo>>
    /\ UNCHANGED p_tail

\* keyboard_handler
Accept(b) ==
    /\ IF count < KB_IN_BYTES
       THEN /\ buf' = [buf EXCEPT ![p_head] = b]
            /\ p_head' = After(p_head)
            /\ count' = count + 1
            /\ fifo' = Append(fifo, b)
       ELSE UNCHANGED <<buf, p_head, count, fifo>>
    /\ UNCHANGED p_tail

\* Mutant of Take: the pointer runs out of the buffer.
TakeNoWrap ==
    /\ count > 0
    /\ p_tail' = p_tail + 1
    /\ count' = count - 1
    /\ fifo' = Tail(fifo)
    /\ UNCHANGED <<buf, p_head>>

\* get_byte_from_kb_buf, with interrupts disabled
Take ==
    /\ count > 0
    /\ p_tail' = After(p_tail)
    /\ count' = count - 1
    /\ fifo' = Tail(fifo)
    /\ UNCHANGED <<buf, p_head>>

----------------------------------------------------------------------------
(* The keyboard and its user *)

\* the code of a key that is released
BreakCode(k) ==
    IF k = PrintScreen THEN PrintScreenBreak
    ELSE [k EXCEPT ![Len(k)] = @ + FLAG_BREAK]

\* the lock a key switches
LockOf(kind) == {kind} \cap {"CAPS_LOCK", "NUM_LOCK", "SCROLL_LOCK"}

Switched(set, kind) == (set \ LockOf(kind)) \cup (LockOf(kind) \ set)

(***************************************************************************)
(* The reference: what a key that is pressed is for, given the keys that   *)
(* are held down and the locks that are on.                                *)
(***************************************************************************)
Wanted(k) ==
    LET row == k[Len(k)]
        shift == held \cap ShiftKeys # {}
        Typed(upper) == <<"put", row, IF upper THEN 1 ELSE 0>>
    IN CASE k \in {<<l>> : l \in Letters} -> Typed(shift # ("CAPS_LOCK" \in locks))
         [] k \in {<<c>> : c \in CharRows \ Letters} -> Typed(shift)
         [] k \in {<<d>> : d \in PadDigits} /\ (shift \/ "NUM_LOCK" \in locks) -> Typed(TRUE)
         [] k \in {<<s>> : s \in PadSigns} -> Typed(TRUE)
         [] k = <<E0, 53>> -> Typed(FALSE)
         [] k \in {<<28>>, <<E0, 28>>} -> <<"newline", 0, 0>>
         [] k = <<14>> -> <<"backspace", 0, 0>>
         [] k = <<E0, 72>> /\ shift -> <<"SCR_DN", 0, 0>>
         [] k = <<E0, 80>> /\ shift -> <<"SCR_UP", 0, 0>>
         [] k \in {<<f>> : f \in FRows} /\ held \cap AltKeys # {} -> <<"select", row, 0>>
         [] OTHER -> None

(***************************************************************************)
(* The controller has sent the last code, and may send the next one.  A    *)
(* behaviour is not followed further when the driver has lost track: no    *)
(* property says more of it than that the code in progress ends.           *)
(***************************************************************************)
Quiet ==
    /\ wire = <<>>
    /\ ~lost /\ ~stale
    /\ pc \in {"count", "tail", "head"} => EarlyKeys

\* A key is pressed, or repeats because it is held.
Press(k) ==
    /\ Quiet
    /\ typed < MaxTyped
    /\ typed' = typed + 1
    /\ wire' = k
    /\ held' = IF k = Pause THEN held ELSE held \cup {k}
    /\ Cardinality(held') <= MaxHeld
    /\ locks' = IF Len(k) = 1 THEN Switched(locks, keymap[k[1]][0]) ELSE locks
    /\ owed' = IF Wanted(k) = None THEN owed ELSE Append(owed, Wanted(k))
    /\ UNCHANGED <<ringVars, pc, readVars, mods, lit, leds, agree, lost, stale>>

Release(k) ==
    /\ Quiet
    /\ k \in held
    /\ held' = held \ {k}
    /\ wire' = BreakCode(k)
    /\ UNCHANGED <<ringVars, locks, typed, pc, readVars, mods, lit, leds, historyVars>>

\* the interrupt of a byte of a code
KeyByte ==
    /\ wire # <<>>
    /\ Accept(Head(wire))
    /\ wire' = Tail(wire)
    /\ lost' = (lost \/ count = KB_IN_BYTES)
    /\ UNCHANGED <<userVars, pc, readVars, mods, lit, leds, owed, agree, stale>>

(***************************************************************************)
(* The KB_ACK kb_ack waits for, between codes.  The interrupt handler may  *)
(* have taken it for a scan code before kb_ack reads it.                   *)
(***************************************************************************)
Ack ==
    /\ leds > 0
    /\ wire = <<>>
    /\ leds' = leds - 1
    /\ Accept(KB_ACK) \/ UNCHANGED ringVars
    /\ UNCHANGED <<wire, userVars, pc, readVars, mods, lit, historyVars>>

----------------------------------------------------------------------------
(* init_keyboard in TASK_TTY: the one in kernel_main is over *)

Init ==
    /\ buf = [p \in 0 .. KB_IN_BYTES - 1 |-> 0]
    /\ p_head = 0 /\ p_tail = 0 /\ count = 0
    /\ fifo = <<>>
    /\ wire = <<>>
    /\ held = {} /\ locks = {"NUM_LOCK"}
    /\ typed = 0
    /\ pc = "count"
    /\ code = <<>> /\ key = "other" /\ make = FALSE
    /\ mods = {} /\ lit = {"NUM_LOCK"}
    /\ leds = 0
    /\ owed = <<>> /\ agree = TRUE /\ lost = FALSE /\ stale = FALSE

InitCount ==
    /\ pc = "count" /\ pc' = "tail"
    /\ count' = 0 /\ fifo' = <<>>
    /\ UNCHANGED <<buf, p_head, p_tail, wire, userVars, readVars, mods, lit, leds, historyVars>>

InitTail ==
    /\ pc = "tail" /\ pc' = "head"
    /\ p_tail' = 0
    /\ UNCHANGED <<buf, p_head, count, fifo, wire, userVars, readVars, mods, lit, leds, historyVars>>

InitHead ==
    /\ pc = "head" /\ pc' = "flags"
    /\ p_head' = 0
    /\ UNCHANGED <<buf, p_tail, count, fifo, wire, userVars, readVars, mods, lit, leds, historyVars>>

\* the flags, and set_leds
InitFlags ==
    /\ pc = "flags" /\ pc' = "away"
    /\ mods' = {} /\ lit' = {"NUM_LOCK"}
    /\ leds' = 2
    /\ UNCHANGED <<ringVars, wire, userVars, readVars, historyVars>>

init_keyboard == InitCount \/ InitTail \/ InitHead \/ InitFlags

----------------------------------------------------------------------------
(* keyboard_read *)

\* its call: make is not set
Enter ==
    /\ pc = "away" /\ leds = 0
    /\ count > 0
    /\ pc' = "read"
    /\ code' = <<>> /\ key' = "other" /\ make' \in BOOLEAN
    /\ UNCHANGED <<ringVars, wire, userVars, mods, lit, leds, historyVars>>

\* the end of its loop
Leave ==
    /\ pc = "read" /\ leds = 0
    /\ code = <<>> /\ count = 0
    /\ pc' = "away"
    /\ UNCHANGED <<ringVars, wire, userVars, readVars, mods, lit, leds, historyVars>>

\* Mutant of Begun: a byte more is awaited behind a code that is complete.
BegunLong == UNION {{SubSeq(c, 1, n) : n \in 1 .. Len(c)} :
                        c \in {Pause, PrintScreen, PrintScreenBreak}}

\* the beginnings of codes that make keyboard_read wait for another byte
Begun == UNION {{SubSeq(c, 1, n) : n \in 1 .. Len(c) - 1} :
                    c \in {Pause, PrintScreen, PrintScreenBreak}}

\* Mutant of Column: Caps Lock and Shift add up.
ColumnOr(row, e0) ==
    LET shift == mods \cap {"SHIFT_L", "SHIFT_R"} # {}
    IN IF e0 THEN 2
       ELSE IF shift \/ ("CAPS_LOCK" \in lit /\ row \in Letters) THEN 1 ELSE 0

\* the column of keymap a code is looked up in
Column(row, e0) ==
    LET shift == mods \cap {"SHIFT_L", "SHIFT_R"} # {}
    IN IF e0 THEN 2
       ELSE IF shift # ("CAPS_LOCK" \in lit /\ row \in Letters) THEN 1 ELSE 0

\* the flags of the modifier keys; alt_r is never set
Flags(kind, down) ==
    LET flag == {IF kind = "ALT_R" THEN "ALT_L" ELSE kind}
                    \cap {"SHIFT_L", "SHIFT_R", "CTRL_L", "CTRL_R", "ALT_L"}
    IN IF down THEN mods \cup flag ELSE mods \ flag

\* the numeric pad
Translated(kind, row, column) ==
    CASE kind = "slash" -> <<"char", row, 0>>
      [] kind = "sign" -> <<"char", row, 1>>
      [] kind = "digit" -> IF "NUM_LOCK" \in lit THEN <<"char", row, 1>>
                           ELSE <<keymap[row][2], row, 2>>
      [] OTHER -> <<kind, row, column>>

\* in_process: what a key does, given the flags
Effect(k, flags) ==
    LET shift == flags \cap {"SHIFT_L", "SHIFT_R"} # {}
    IN CASE k[1] = "char" -> <<"put", k[2], k[3]>>
         [] k[1] = "ENTER" -> <<"newline", 0, 0>>
         [] k[1] = "BACKSPACE" -> <<"backspace", 0, 0>>
         [] k[1] = "UP" /\ shift -> <<"SCR_DN", 0, 0>>
         [] k[1] = "DOWN" /\ shift -> <<"SCR_UP", 0, 0>>
         [] k[1] = "F" /\ "ALT_L" \in flags -> <<"select", k[2], 0>>
         [] OTHER -> None

\* an effect is compared with what was typed first
Hand(effect) ==
    IF effect = None \/ lost \/ stale THEN UNCHANGED <<owed, agree>>
    ELSE /\ agree' = (agree /\ owed # <<>> /\ Head(owed) = effect)
         /\ owed' = IF owed = <<>> THEN owed ELSE Tail(owed)

\* Pause, which leaves make alone, and Print Screen.  With flags key becomes
\* another number.
Special(name, down) ==
    /\ code' = <<>>
    /\ make' = down
    /\ key' = IF down /\ mods # {} THEN "other" ELSE name
    /\ UNCHANGED <<mods, lit, leds, historyVars>>

\* any other code, from keymap
Decode(scan, e0) ==
    LET row == scan % FLAG_BREAK
        down == scan < FLAG_BREAK
        kind == keymap[row][Column(row, e0)]
    IN /\ code' = <<>>
       /\ key' = "other" /\ make' = down
       /\ mods' = Flags(kind, down)
       /\ lit' = IF down THEN Switched(lit, kind) ELSE lit
       /\ leds' = IF down /\ LockOf(kind) # {} THEN 2 ELSE leds
       /\ Hand(IF down THEN Effect(Translated(kind, row, Column(row, e0)), mods') ELSE None)
       /\ UNCHANGED <<lost, stale>>

\* key still is PAUSEBREAK or PRINTSCREEN from a code before: this one is
\* not looked at
Ignore(scan) ==
    /\ code' = <<>>
    /\ stale' = (stale \/ scan # KB_ACK)
    /\ UNCHANGED <<key, make, mods, lit, leds, owed, agree, lost>>

\* one byte more of a code
ReadByte ==
    /\ pc = "read" /\ leds = 0
    /\ Take
    /\ LET byte == buf[p_tail]
           c == Append(code, byte)
           e0 == code # <<>> /\ code[Len(code)] = E0
           scan == IF c[1] = E1 THEN E1 ELSE byte
       IN IF c \in Begun
          THEN code' = c /\ UNCHANGED <<key, make, mods, lit, leds, historyVars>>
          ELSE CASE c = Pause -> Special("PAUSEBREAK", make)
                 [] c = PrintScreen -> Special("PRINTSCREEN", TRUE)
                 [] c = PrintScreenBreak -> Special("PRINTSCREEN", FALSE)
                 [] OTHER -> IF key # "other" THEN Ignore(scan) ELSE Decode(scan, e0)
    /\ UNCHANGED <<wire, userVars, pc>>

keyboard_read == Enter \/ Leave \/ ReadByte

Next ==
    \/ \E k \in Keys : Press(k) \/ Release(k)
    \/ KeyByte \/ Ack
    \/ init_keyboard \/ keyboard_read

Spec == Init /\ [][Next]_vars

----------------------------------------------------------------------------
(* Properties *)

\* The types of the variables.
TypeOK ==
    /\ buf \in [0 .. KB_IN_BYTES - 1 -> Bytes]
    /\ p_head \in 0 .. KB_IN_BYTES - 1 /\ p_tail \in 0 .. KB_IN_BYTES - 1
    /\ count \in 0 .. KB_IN_BYTES /\ fifo \in Seq(Bytes)
    /\ wire \in Seq(Bytes) /\ code \in Seq(Bytes)
    /\ held \subseteq Keys /\ typed \in 0 .. MaxTyped
    /\ pc \in {"count", "tail", "head", "flags", "away", "read"}
    /\ key \in {"other", "PAUSEBREAK", "PRINTSCREEN"} /\ make \in BOOLEAN
    /\ leds \in 0 .. 2
    /\ agree \in BOOLEAN /\ lost \in BOOLEAN /\ stale \in BOOLEAN

\* where the i-th byte of kb_in is
Place(i) == IF p_tail + i - 1 < KB_IN_BYTES THEN p_tail + i - 1
            ELSE p_tail + i - 1 - KB_IN_BYTES

\* kb_in holds the bytes that were accepted and not yet taken, in their
\* order, from p_tail on, and p_head is where the next one goes, however the
\* interrupts fall between the reader's steps (keyboard.c:58-65, 344-353).
RingHolds ==
    pc \notin {"tail", "head"} =>
        /\ count = Len(fifo)
        /\ \A i \in 1 .. Len(fifo) : buf[Place(i)] = fifo[i]
        /\ p_head = IF count = KB_IN_BYTES THEN p_tail ELSE Place(count + 1)

\* nothing is on its way any more
Drained == wire = <<>> /\ count = 0 /\ code = <<>> /\ leds = 0

\* a flag is set when a key it stands for is held, and the locks are those that
\* were switched on; either Alt sets alt_l
FlagsAgree ==
    LET Flag(k) == LET kind == keymap[k[Len(k)]][IF Len(k) = 2 THEN 2 ELSE 0]
                   IN IF kind = "ALT_R" THEN "ALT_L" ELSE kind
    IN /\ lit = locks
       /\ \A k \in Modifiers :
             Flag(k) \in mods <=> \E j \in held \cap Modifiers : Flag(j) = Flag(k)

\* Every key that is pressed has its effect, in the order of the presses and
\* with the modifiers and locks of that moment, although the codes arrive in
\* pieces and are read later; and when everything is read the driver's flags
\* are those of the keyboard.  It does not hold behind a byte that was dropped
\* or a code that was ignored because it was behind Pause or Print Screen in
\* one call of keyboard_read (keyboard.c:133-326).
Decoded ==
    ~lost /\ ~stale => agree /\ (Drained => owed = <<>> /\ FlagsAgree)

\* TASK_TTY spins in the middle of a code only while the rest of the code is
\* on its way, unless a byte was dropped (keyboard.c:344).
MidCodeWaits == pc = "read" /\ code # <<>> /\ count = 0 /\ wire = <<>> => lost
=============================================================================
