--------------------------- MODULE KeyboardProofs ---------------------------
(***************************************************************************)
(* For every size of the ring and every set of keys whose codes can be     *)
(* told apart, if no key is pressed before init_keyboard has ended: the    *)
(* ring kb_in between the keyboard's interrupts and TASK_TTY holds the     *)
(* accepted bytes in their order; the reader waits in the middle of a code *)
(* only for the rest of it; and every key has the effect it was pressed    *)
(* for.                                                                    *)
(***************************************************************************)
EXTENDS Keyboard, SequenceTheorems, TLAPS

Early == {"count", "tail", "head"}

\* The ring, as far as reader and handler need it.
Ring ==
    /\ count = Len(fifo)
    /\ \A i \in 1 .. Len(fifo) : buf[Place(i)] = fifo[i]
    /\ p_head = IF count = KB_IN_BYTES THEN p_tail ELSE Place(count + 1)

\* The ring is empty and nothing comes until init_keyboard has stored its
\* pointers.
Untouched ==
    pc \in Early =>
        /\ wire = <<>> /\ leds = 0
        /\ count = 0 /\ p_head = 0 /\ p_tail = 0 /\ fifo = <<>>

\* Pause is the one key that is never released.
Releasable == Pause \notin held

IInv == TypeOK /\ Ring /\ Untouched /\ Releasable

\* The types of the ring.
RingTypes ==
    /\ KB_IN_BYTES \in Nat \ {0}
    /\ buf \in [0 .. KB_IN_BYTES - 1 -> Bytes]
    /\ p_head \in 0 .. KB_IN_BYTES - 1 /\ p_tail \in 0 .. KB_IN_BYTES - 1
    /\ count \in 0 .. KB_IN_BYTES /\ fifo \in Seq(Bytes)

\* A byte is accepted behind the others or dropped.
LEMMA AcceptRing ==
    ASSUME RingTypes, Ring, NEW b \in Bytes, Accept(b)
    PROVE  RingTypes' /\ Ring'
<1> USE DEF RingTypes
<1>1. CASE count = KB_IN_BYTES
  <2>1. UNCHANGED <<buf, p_head, p_tail, count, fifo>>
    BY <1>1 DEF Accept
  <2> QED  BY <2>1 DEF Ring, Place
<1>2. CASE count < KB_IN_BYTES
  <2>1. /\ buf' = [buf EXCEPT ![p_head] = b]
        /\ p_head' = After(p_head) /\ p_tail' = p_tail
        /\ count' = count + 1 /\ fifo' = Append(fifo, b)
    BY <1>2 DEF Accept
  <2>2. p_head = Place(count + 1) /\ count = Len(fifo)
    BY <1>2 DEF Ring
  <2>3. After(p_head) \in 0 .. KB_IN_BYTES - 1
    BY DEF After
  <2>4. \A i \in 1 .. Len(fifo) : Place(i) # p_head /\ Place(i) \in 0 .. KB_IN_BYTES - 1
    BY <1>2, <2>2 DEF Place
  <2>5. Len(fifo') = count + 1 /\ fifo' \in Seq(Bytes) /\ fifo'[count + 1] = b
        /\ \A i \in 1 .. Len(fifo) : fifo'[i] = fifo[i]
    BY <2>1, <2>2
  <2>6. \A i \in 1 .. Len(fifo') : buf'[Place(i)] = fifo'[i]
    BY <2>1, <2>2, <2>4, <2>5 DEF Ring
  <2>7. p_head' = IF count' = KB_IN_BYTES THEN p_tail ELSE Place(count' + 1)
    <3>1. CASE p_tail + count < KB_IN_BYTES
      BY <3>1, <1>2, <2>1, <2>2 DEF After, Place
    <3>2. CASE p_tail + count >= KB_IN_BYTES
      BY <3>2, <1>2, <2>1, <2>2 DEF After, Place
    <3> QED  BY <3>1, <3>2
  <2>8. Ring'
    BY <2>1, <2>5, <2>6, <2>7, <2>2 DEF Ring, Place
  <2> QED  BY <2>1, <2>3, <2>5, <2>8, <1>2
<1> QED  BY <1>1, <1>2

\* The byte that is taken is the first of those accepted.
LEMMA TakeRing ==
    ASSUME RingTypes, Ring, Take
    PROVE  RingTypes' /\ Ring' /\ buf[p_tail] \in Bytes
<1> USE DEF RingTypes
<1> DEFINE At(i) == IF p_tail' + i - 1 < KB_IN_BYTES THEN p_tail' + i - 1
                    ELSE p_tail' + i - 1 - KB_IN_BYTES
<1>1. /\ count > 0 /\ p_tail' = After(p_tail) /\ count' = count - 1
      /\ fifo' = Tail(fifo) /\ UNCHANGED <<buf, p_head>>
  BY DEF Take
<1>2. count = Len(fifo) /\ fifo # <<>>
  BY <1>1 DEF Ring
<1>3. /\ fifo' \in Seq(Bytes) /\ Len(fifo') = count'
      /\ \A i \in 1 .. Len(fifo') : fifo'[i] = fifo[i + 1]
  BY <1>1, <1>2
<1>4. p_tail' \in 0 .. KB_IN_BYTES - 1
  BY <1>1 DEF After
<1>5. \A i \in 1 .. KB_IN_BYTES - 1 : At(i) = Place(i + 1)
  BY <1>1 DEF After, Place
<1>6. \A i \in 1 .. Len(fifo') : buf'[At(i)] = fifo'[i]
  <2>1. \A i \in 1 .. Len(fifo') : i \in 1 .. KB_IN_BYTES - 1 /\ i + 1 \in 1 .. Len(fifo)
    BY <1>1, <1>2, <1>3
  <2> HIDE DEF At
  <2> QED  BY <2>1, <1>1, <1>3, <1>5 DEF Ring
<1>7. p_head' = IF count' = KB_IN_BYTES THEN p_tail' ELSE At(count' + 1)
  <2>1. count' \in Nat /\ count' < KB_IN_BYTES /\ count' + 1 = count
    BY <1>1
  <2>2. p_head = IF count = KB_IN_BYTES THEN p_tail
                 ELSE IF p_tail + count < KB_IN_BYTES THEN p_tail + count
                 ELSE p_tail + count - KB_IN_BYTES
    BY DEF Ring, Place
  <2>3. p_tail' = (IF p_tail + 1 = KB_IN_BYTES THEN 0 ELSE p_tail + 1) /\ p_head' = p_head
    BY <1>1 DEF After
  <2> QED  BY <2>1, <2>2, <2>3
<1>8. Ring'
  <2>1. (\A i \in 1 .. Len(fifo) : buf[Place(i)] = fifo[i])'
    BY <1>6 DEF Place
  <2>2. (count = Len(fifo))'
    BY <1>3
  <2>3. (p_head = IF count = KB_IN_BYTES THEN p_tail ELSE Place(count + 1))'
    BY <1>7 DEF Place
  <2> QED  BY <2>1, <2>2, <2>3, Zenon DEF Ring
<1> QED  BY <1>1, <1>3, <1>4, <1>8

\* A ring nobody touches stays as it is.
LEMMA SameRing ==
    ASSUME RingTypes, Ring, UNCHANGED ringVars
    PROVE  RingTypes' /\ Ring'
BY DEF RingTypes, Ring, Place, ringVars

\* A break code is made of bytes.
LEMMA BreakBytes ==
    ASSUME NEW k \in Keys, k # Pause
    PROVE  BreakCode(k) \in Seq(Bytes)
<1>1. CASE k = PrintScreen
  BY <1>1 DEF BreakCode, PrintScreenBreak, Bytes, E0
<1>2. CASE k # PrintScreen
  <2>1. k \in Seq(0 .. 255) /\ k # <<>> /\ k[Len(k)] < 128
    BY KeyboardAssumption DEF Pause, E1
  <2>2. Len(k) \in 1 .. Len(k)
    BY <2>1, EmptySeq
  <2>3. k[Len(k)] \in 0 .. 255
    BY <2>1, <2>2, ElementOfSeq
  <2>4. \A n \in 0 .. 255 : n < 128 => n + FLAG_BREAK \in Bytes
    BY DEF Bytes, FLAG_BREAK
  <2>5. k[Len(k)] + FLAG_BREAK \in Bytes
    BY <2>1, <2>3, <2>4
  <2>6. [k EXCEPT ![Len(k)] = @ + FLAG_BREAK] \in Seq(Bytes)
    BY <2>1, <2>2, <2>5, ExceptSeq DEF Bytes
  <2> QED  BY <1>2, <2>6 DEF BreakCode
<1> QED  BY <1>1, <1>2

\* What a byte read does to keyboard_read's state is well typed.
LEMMA ReadTypes ==
    ASSUME TypeOK, ReadByte, buf[p_tail] \in Bytes
    PROVE  /\ code' \in Seq(Bytes)
           /\ key' \in {"other", "PAUSEBREAK", "PRINTSCREEN"} /\ make' \in BOOLEAN
           /\ leds' \in 0 .. 2
           /\ agree' \in BOOLEAN /\ lost' \in BOOLEAN /\ stale' \in BOOLEAN
<1> DEFINE byte == buf[p_tail]
           c == Append(code, byte)
           e0 == code # <<>> /\ code[Len(code)] = E0
           scan == IF c[1] = E1 THEN E1 ELSE byte
<1>1. c \in Seq(Bytes)
  BY DEF TypeOK
<1>2. CASE c \in Begun
  BY <1>1, <1>2 DEF ReadByte, TypeOK, historyVars
<1>3. CASE Special("PAUSEBREAK", make)
  BY <1>3 DEF Special, TypeOK, historyVars
<1>4. CASE Special("PRINTSCREEN", TRUE) \/ Special("PRINTSCREEN", FALSE)
  <2>1. CASE Special("PRINTSCREEN", TRUE)
    BY <2>1 DEF Special, TypeOK, historyVars
  <2>2. CASE Special("PRINTSCREEN", FALSE)
    <3>1. /\ code' = <<>> /\ make' = FALSE /\ key' = "PRINTSCREEN"
          /\ UNCHANGED <<leds, agree, lost, stale>>
      BY <2>2 DEF Special, historyVars
    <3>2. code' \in Seq(Bytes)
      BY <3>1, EmptySeq
    <3> QED  BY <3>1, <3>2 DEF TypeOK
  <2> QED  BY <1>4, <2>1, <2>2
<1>5. CASE Ignore(scan)
  BY <1>5 DEF Ignore, TypeOK
<1>6. CASE Decode(scan, e0)
  <2>1. code' = <<>> /\ key' = "other" /\ make' = (scan < FLAG_BREAK)
        /\ leds' \in {2, leds} /\ UNCHANGED <<lost, stale>>
    BY <1>6 DEF Decode
  <2>2. \E effect : Hand(effect)
    BY <1>6 DEF Decode
  <2>3. agree' \in BOOLEAN
    BY <2>2 DEF Hand, TypeOK
  <2> QED  BY <2>1, <2>3 DEF TypeOK
<1>7. \/ c \in Begun
      \/ Special("PAUSEBREAK", make)
      \/ Special("PRINTSCREEN", TRUE) \/ Special("PRINTSCREEN", FALSE)
      \/ Ignore(scan) \/ Decode(scan, e0)
  <2>1. c \in Begun \/ CASE c = Pause -> Special("PAUSEBREAK", make)
                         [] c = PrintScreen -> Special("PRINTSCREEN", TRUE)
                         [] c = PrintScreenBreak -> Special("PRINTSCREEN", FALSE)
                         [] OTHER -> IF key # "other" THEN Ignore(scan) ELSE Decode(scan, e0)
    BY Zenon DEF ReadByte
  <2> HIDE DEF c, e0, scan
  <2> QED  BY <2>1
<1> HIDE DEF c, e0, scan
<1> QED  BY <1>2, <1>3, <1>4, <1>5, <1>6, <1>7

LEMMA InitRing == Init /\ ~EarlyKeys => IInv
<1> SUFFICES ASSUME Init, ~EarlyKeys
             PROVE  IInv
  OBVIOUS
<1>1. TypeOK
  <2>1. /\ buf \in [0 .. KB_IN_BYTES - 1 -> Bytes]
        /\ 0 \in 0 .. KB_IN_BYTES - 1 /\ 0 \in 0 .. KB_IN_BYTES /\ 0 \in 0 .. MaxTyped
        /\ <<>> \in Seq(Bytes)
    BY KeyboardAssumption DEF Init, Bytes
  <2>2. /\ p_head \in 0 .. KB_IN_BYTES - 1 /\ p_tail \in 0 .. KB_IN_BYTES - 1
        /\ count \in 0 .. KB_IN_BYTES /\ typed \in 0 .. MaxTyped /\ leds \in 0 .. 2
    BY <2>1 DEF Init
  <2>3. fifo \in Seq(Bytes) /\ wire \in Seq(Bytes) /\ code \in Seq(Bytes)
    BY <2>1 DEF Init
  <2>4. /\ held \subseteq Keys
        /\ pc \in {"count", "tail", "head", "flags", "away", "read"}
        /\ key \in {"other", "PAUSEBREAK", "PRINTSCREEN"} /\ make \in BOOLEAN
        /\ agree \in BOOLEAN /\ lost \in BOOLEAN /\ stale \in BOOLEAN
    BY DEF Init
  <2> QED  BY <2>1, <2>2, <2>3, <2>4 DEF TypeOK
<1>2. Ring
  BY KeyboardAssumption DEF Init, Ring, Place
<1> QED  BY <1>1, <1>2 DEF Init, IInv, Untouched, Releasable

\* Every step keeps the invariant, one action at a time.
LEMMA StepRing == IInv /\ [Next]_vars /\ ~EarlyKeys => IInv'
<1> SUFFICES ASSUME IInv, [Next]_vars, ~EarlyKeys
             PROVE  IInv'
  OBVIOUS
<1>1. RingTypes /\ Ring
  BY KeyboardAssumption DEF IInv, TypeOK, RingTypes
<1>2. SUFFICES TypeOK' /\ Ring' /\ Untouched' /\ Releasable'
  BY DEF IInv
<1> USE DEF IInv, Untouched, Releasable, Early
<1>3. ASSUME NEW k \in Keys, Press(k)
      PROVE  <1>2!1
  <2>1. k \in Seq(Bytes) /\ pc \notin Early
    BY <1>3, KeyboardAssumption DEF Press, Quiet, Bytes
  <2>2. RingTypes' /\ Ring'
    BY <1>1, <1>3, SameRing DEF Press
  <2>3. typed' \in 0 .. MaxTyped
    BY <1>3, KeyboardAssumption DEF Press, TypeOK
  <2> QED
    BY <1>3, <2>1, <2>2, <2>3 DEF Press, TypeOK, RingTypes, readVars
<1>4. ASSUME NEW k \in Keys, Release(k)
      PROVE  <1>2!1
  <2>1. BreakCode(k) \in Seq(Bytes) /\ pc \notin Early
    BY <1>4, BreakBytes DEF Release, Quiet
  <2>2. RingTypes' /\ Ring'
    BY <1>1, <1>4, SameRing DEF Release
  <2> QED
    BY <1>4, <2>1, <2>2 DEF Release, TypeOK, RingTypes, readVars, historyVars
<1>5. CASE KeyByte
  <2>1. Head(wire) \in Bytes /\ Tail(wire) \in Seq(Bytes) /\ pc \notin Early
    BY <1>5, HeadTailProperties DEF KeyByte, TypeOK
  <2>2. RingTypes' /\ Ring'
    BY <1>1, <1>5, <2>1, AcceptRing DEF KeyByte
  <2> QED
    BY <1>5, <2>1, <2>2 DEF KeyByte, TypeOK, RingTypes, readVars, userVars
<1>6. CASE Ack
  <2>1. KB_ACK \in Bytes /\ pc \notin Early
    BY <1>6 DEF Ack, KB_ACK, Bytes
  <2>2. RingTypes' /\ Ring'
    BY <1>1, <1>6, <2>1, AcceptRing, SameRing DEF Ack
  <2> QED
    BY <1>6, <2>1, <2>2 DEF Ack, TypeOK, RingTypes, readVars, userVars, historyVars
<1>7. CASE init_keyboard
  <2>1. CASE InitCount
    <3>1. RingTypes' /\ Ring'
      BY <1>1, <2>1, SameRing DEF InitCount, RingTypes, Ring, Place
    <3> QED
      BY <2>1, <3>1 DEF InitCount, TypeOK, RingTypes, readVars, userVars, historyVars
  <2>2. CASE InitTail
    <3>1. RingTypes' /\ Ring'
      BY <1>1, <2>2 DEF InitTail, RingTypes, Ring, Place
    <3> QED
      BY <2>2, <3>1 DEF InitTail, TypeOK, RingTypes, readVars, userVars, historyVars
  <2>3. CASE InitHead
    <3>1. RingTypes' /\ Ring'
      BY <1>1, <2>3 DEF InitHead, RingTypes, Ring, Place
    <3> QED
      BY <2>3, <3>1 DEF InitHead, TypeOK, RingTypes, readVars, userVars, historyVars
  <2>4. CASE InitFlags
    <3>1. RingTypes' /\ Ring'
      BY <1>1, <2>4, SameRing DEF InitFlags
    <3> QED
      BY <2>4, <3>1 DEF InitFlags, TypeOK, RingTypes, readVars, userVars, historyVars
  <2> QED  BY <1>7, <2>1, <2>2, <2>3, <2>4 DEF init_keyboard
<1>8. CASE Enter
  <2>1. RingTypes' /\ Ring'
    BY <1>1, <1>8, SameRing DEF Enter
  <2> QED
    BY <1>8, <2>1 DEF Enter, TypeOK, RingTypes, userVars, historyVars
<1>9. CASE Leave
  <2>1. RingTypes' /\ Ring'
    BY <1>1, <1>9, SameRing DEF Leave
  <2> QED
    BY <1>9, <2>1 DEF Leave, TypeOK, RingTypes, userVars, readVars, historyVars
<1>10. CASE ReadByte
  <2>1. RingTypes' /\ Ring' /\ buf[p_tail] \in Bytes /\ pc = "read" /\ pc' = pc
    BY <1>1, <1>10, TakeRing DEF ReadByte
  <2>2. /\ code' \in Seq(Bytes)
        /\ key' \in {"other", "PAUSEBREAK", "PRINTSCREEN"} /\ make' \in BOOLEAN
        /\ leds' \in 0 .. 2
        /\ agree' \in BOOLEAN /\ lost' \in BOOLEAN /\ stale' \in BOOLEAN
    BY <1>10, <2>1, ReadTypes
  <2>3. UNCHANGED <<wire, held, typed>>
    BY <1>10 DEF ReadByte, userVars
  <2>4. TypeOK'
    BY <2>1, <2>2, <2>3 DEF TypeOK, RingTypes
  <2>5. Untouched'
    BY <2>1
  <2>6. Releasable'
    BY <2>3
  <2> QED  BY <2>1, <2>4, <2>5, <2>6
<1>11. CASE UNCHANGED vars
  <2>1. RingTypes' /\ Ring'
    BY <1>1, <1>11, SameRing DEF vars
  <2> QED
    BY <1>11, <2>1 DEF vars, TypeOK, RingTypes, ringVars, userVars, readVars, historyVars
<1> QED
  BY <1>3, <1>4, <1>5, <1>6, <1>7, <1>8, <1>9, <1>10, <1>11 DEF Next, keyboard_read

LEMMA Invariance == ~EarlyKeys => (Spec => []IInv)
<1> SUFFICES ASSUME ~EarlyKeys
             PROVE  Spec => []IInv
  OBVIOUS
<1>1. Init => IInv
  BY InitRing
<1>2. IInv /\ [Next]_vars => IInv'
  BY StepRing
<1> QED  BY <1>1, <1>2, PTL DEF Spec

\* The variables keep their types (keyboard.c).
THEOREM KeyboardTypes == ~EarlyKeys => (Spec => []TypeOK)
<1>1. IInv => TypeOK
  BY DEF IInv
<1> QED  BY <1>1, Invariance, PTL

\* kb_in holds the accepted bytes in their order, between the handler, which
\* may interrupt the reader anywhere, and the reader (keyboard.c:58-65,
\* 344-353).
THEOREM RingIsQueue == ~EarlyKeys => (Spec => []RingHolds)
<1>1. IInv => RingHolds
  BY DEF IInv, Ring, RingHolds
<1> QED  BY <1>1, Invariance, PTL

----------------------------------------------------------------------------
(* The codes on their way to the reader.                                   *)

\* What tells the codes of the keys in use apart (keymap.h's appendix): a byte
\* alone that is not E0 or E1, with or without FLAG_BREAK; E0 and a byte that
\* does not begin Print Screen's codes; or one of the two long codes.
CodesApart ==
    \A k \in Keys :
        \/ Len(k) = 1 /\ k[1] \notin {E0 - FLAG_BREAK, E1 - FLAG_BREAK}
        \/ Len(k) = 2 /\ k[1] = E0 /\ k[2] \notin {42, 183 - FLAG_BREAK}
        \/ k \in {PrintScreen, Pause}

\* what the controller may send
Codes == Keys \cup {BreakCode(k) : k \in Keys \ {Pause}} \cup {<<KB_ACK>>}

\* c stands in s behind the i-th byte
StandsAt(c, s, i) == i + Len(c) <= Len(s) /\ \A j \in 1 .. Len(c) : s[i + j] = c[j]

\* s is made of whole codes: from its beginning on there is one behind the
\* other.  cuts are the places where a code ends.
Cuts(s, cuts) == /\ cuts \subseteq 0 .. Len(s) /\ 0 \in cuts
                 /\ \A i \in cuts \ {Len(s)} : \E c \in Codes :
                       StandsAt(c, s, i) /\ i + Len(c) \in cuts
Whole(s) == \E cuts : Cuts(s, cuts)

\* the bytes of codes that are not yet dealt with
Stream == code \o fifo \o wire

\* Unless a byte was dropped, whole codes are on their way, and what has been
\* read of the first is the beginning of a longer one.
InCodes == /\ code # <<>> => code \in Begun /\ pc = "read"
           /\ ~lost => Whole(Stream)

\* A beginning of a code is shorter and agrees with it byte by byte.
LEMMA Beginning ==
    ASSUME NEW c \in Seq(Bytes), NEW n \in 1 .. Len(c)
    PROVE  /\ SubSeq(c, 1, n) \in Seq(Bytes) /\ Len(SubSeq(c, 1, n)) = n
           /\ \A i \in 1 .. n : SubSeq(c, 1, n)[i] = c[i]
<1>1. \A i \in 1 .. n : c[i] \in Bytes
  OBVIOUS
<1>2. n \in Int /\ 1 \in Int /\ n - 1 + 1 = n
  OBVIOUS
<1>3. /\ SubSeq(c, 1, n) \in Seq(Bytes)
      /\ Len(SubSeq(c, 1, n)) = IF 1 <= n THEN n - 1 + 1 ELSE 0
      /\ \A i \in 1 .. n - 1 + 1 : SubSeq(c, 1, n)[i] = c[1 + i - 1]
  BY <1>1, <1>2, SubSeqProperties
<1> QED  BY <1>3

LongCodes == {Pause, PrintScreen, PrintScreenBreak}

LEMMA LongBytes ==
    \A c \in LongCodes : c \in Seq(Bytes)
<1>1. Pause \in Seq(Bytes)
  BY DEF Pause, Bytes, E1
<1>2. PrintScreen \in Seq(Bytes)
  BY DEF PrintScreen, Bytes, E0
<1>3. PrintScreenBreak \in Seq(Bytes)
  BY DEF PrintScreenBreak, Bytes, E0
<1> QED  BY <1>1, <1>2, <1>3 DEF LongCodes

LEMMA LongAre ==
    /\ Len(Pause) = 6 /\ Pause[1] = 225 /\ Pause[2] = 29
    /\ Len(PrintScreen) = 4 /\ PrintScreen[1] = 224 /\ PrintScreen[2] = 42
    /\ Len(PrintScreenBreak) = 4 /\ PrintScreenBreak[1] = 224 /\ PrintScreenBreak[2] = 183
BY DEF Pause, PrintScreen, PrintScreenBreak, E0, E1

LEMMA BegunAre ==
    ASSUME NEW c \in Seq(Bytes)
    PROVE  c \in Begun <=> \E x \in LongCodes : /\ Len(c) \in 1 .. Len(x) - 1
                                            /\ \A i \in 1 .. Len(c) : c[i] = x[i]
<1>1. c \in Begun <=> \E x \in LongCodes : \E n \in 1 .. Len(x) - 1 : c = SubSeq(x, 1, n)
  BY DEF Begun, LongCodes
<1>2. ASSUME NEW x \in LongCodes, NEW n \in 1 .. Len(x) - 1
      PROVE  c = SubSeq(x, 1, n) <=> Len(c) = n /\ \A i \in 1 .. Len(c) : c[i] = x[i]
  <2>1. n \in 1 .. Len(x) /\ x \in Seq(Bytes)
    BY <1>2, LongBytes
  <2>2. /\ SubSeq(x, 1, n) \in Seq(Bytes) /\ Len(SubSeq(x, 1, n)) = n
        /\ \A i \in 1 .. n : SubSeq(x, 1, n)[i] = x[i]
    BY <2>1, Beginning
  <2> QED  BY <2>2, SeqEqual
<1> QED  BY <1>1, <1>2

\* The two sorts of short codes.
OneByte(c) == c \in Seq(Bytes) /\ Len(c) = 1 /\ c[1] \notin {E0, E1}
TwoBytes(c) == c \in Seq(Bytes) /\ Len(c) = 2 /\ c[1] = E0 /\ c[2] \notin {42, 183}

LEMMA ShortKey ==
    ASSUME CodesApart, NEW k \in Keys, k \notin {PrintScreen, Pause}
    PROVE  (OneByte(k) \/ TwoBytes(k)) /\ k[Len(k)] \in 0 .. 127
<1>1. /\ k \in Seq(0 .. 255) /\ k # <<>> /\ k[Len(k)] < 128
      /\ \/ Len(k) = 1 /\ k[1] \notin {96, 97}
         \/ Len(k) = 2 /\ k[1] = E0 /\ k[2] \notin {42, 55}
  BY KeyboardAssumption DEF CodesApart, Pause, FLAG_BREAK, E0, E1
<1>2. Len(k) \in 1 .. Len(k)
  BY <1>1
<1>3. k[Len(k)] \in 0 .. 255
  BY <1>1, <1>2, ElementOfSeq
<1>4. OneByte(k) \/ TwoBytes(k)
  BY <1>1 DEF OneByte, TwoBytes, Bytes, E0, E1
<1>5. k[Len(k)] \in 0 .. 127
  <2> DEFINE last == k[Len(k)]
  <2>1. last \in 0 .. 255 /\ last < 128
    BY <1>1, <1>3
  <2> HIDE DEF last
  <2>2. last \in 0 .. 127
    BY <2>1
  <2> QED  BY <2>2 DEF last
<1> QED  BY <1>4, <1>5

LEMMA ShortBreak ==
    ASSUME CodesApart, NEW k \in Keys, k \notin {PrintScreen, Pause}
    PROVE  LET c == BreakCode(k)
           IN /\ (OneByte(k) /\ OneByte(c)) \/ (TwoBytes(k) /\ TwoBytes(c))
              /\ Len(c) = Len(k) /\ k[Len(k)] \in 0 .. 127 /\ c[Len(c)] = k[Len(k)] + 128
<1> DEFINE c == BreakCode(k)
           last == k[Len(k)]
<1>1. (OneByte(k) \/ TwoBytes(k)) /\ last \in 0 .. 127
  BY ShortKey
<1>2. k \in Seq(Bytes) /\ Len(k) \in 1 .. Len(k) /\ c \in Seq(Bytes)
  BY <1>1, BreakBytes DEF OneByte, TwoBytes
<1>3. c = [k EXCEPT ![Len(k)] = @ + FLAG_BREAK]
  BY DEF BreakCode
<1>4. Len(c) = Len(k) /\ c[Len(k)] = last + 128
  BY <1>2, <1>3 DEF FLAG_BREAK
<1>5. Len(k) = 2 => c[1] = k[1]
  BY <1>2, <1>3
<1>6. /\ Len(k) = 1 => last \notin {96, 97}
      /\ Len(k) = 2 => last \notin {42, 55}
  <2>1. \/ Len(k) = 1 /\ k[1] \notin {96, 97}
        \/ Len(k) = 2 /\ k[2] \notin {42, 55}
    BY DEF CodesApart, FLAG_BREAK, E0, E1
  <2> QED  BY <2>1
<1> HIDE DEF last, c
<1>7. CASE Len(k) = 1
  <2>1. last + 128 \notin {224, 225} /\ c[1] = last + 128
    BY <1>1, <1>4, <1>6, <1>7
  <2> QED  BY <1>1, <1>2, <1>4, <1>7, <2>1 DEF OneByte, TwoBytes, E0, E1, c, last
<1>8. CASE Len(k) = 2
  <2>1. last + 128 \notin {42, 183} /\ c[2] = last + 128
    BY <1>1, <1>4, <1>6, <1>8
  <2> QED  BY <1>1, <1>2, <1>4, <1>5, <1>8, <2>1 DEF OneByte, TwoBytes, c, last
<1> QED  BY <1>1, <1>7, <1>8 DEF OneByte, TwoBytes

LEMMA CodeSorts ==
    ASSUME CodesApart, NEW c \in Codes
    PROVE  c \in LongCodes \/ OneByte(c) \/ TwoBytes(c)
<1>1. OneByte(<<KB_ACK>>)
  BY DEF OneByte, KB_ACK, Bytes, E0, E1
<1>2. BreakCode(PrintScreen) = PrintScreenBreak
  BY DEF BreakCode
<1>3. ASSUME NEW k \in Keys, k \notin {PrintScreen, Pause}
      PROVE  /\ OneByte(k) \/ TwoBytes(k)
             /\ OneByte(BreakCode(k)) \/ TwoBytes(BreakCode(k))
  BY <1>3, ShortKey, ShortBreak
<1> QED  BY <1>1, <1>2, <1>3 DEF Codes, LongCodes

\* A code is not the beginning of another, and keyboard_read knows all
\* beginnings.
LEMMA CodesComplete ==
    ASSUME CodesApart, NEW c \in Codes
    PROVE  /\ c \in Seq(Bytes) /\ c # <<>> /\ c \notin Begun
           /\ \A n \in 1 .. Len(c) - 1 : SubSeq(c, 1, n) \in Begun
<1>1. CASE c \in LongCodes
  <2>1. c \in Seq(Bytes) /\ Len(c) \in {4, 6} /\ c[1] \in {224, 225}
    BY <1>1, LongBytes, LongAre DEF LongCodes
  <2>2. ASSUME NEW x \in LongCodes, Len(c) \in 1 .. Len(x) - 1
        PROVE  c[1] # x[1]
    BY <1>1, <2>2, LongAre DEF LongCodes
  <2>3. c \notin Begun
    BY <2>1, <2>2, BegunAre
  <2>4. c # <<>>
    BY <2>1
  <2> QED  BY <2>1, <2>3, <2>4, <1>1 DEF Begun, LongCodes
<1>2. CASE OneByte(c)
  <2>1. \A x \in LongCodes : c[1] # x[1]
    BY <1>2, LongAre DEF LongCodes, OneByte, E0, E1
  <2>2. c \notin Begun
    BY <1>2, <2>1, BegunAre DEF OneByte
  <2> QED  BY <1>2, <2>2 DEF OneByte
<1>3. CASE TwoBytes(c)
  <2>1. 1 \in 1 .. Len(c)
    BY <1>3 DEF TwoBytes
  <2>2. /\ SubSeq(c, 1, 1) \in Seq(Bytes) /\ Len(SubSeq(c, 1, 1)) = 1
        /\ \A i \in 1 .. 1 : SubSeq(c, 1, 1)[i] = c[i]
    BY <1>3, <2>1, Beginning, Zenon DEF TwoBytes
  <2>3. \A x \in LongCodes : c[1] # x[1] \/ c[2] # x[2]
    BY <1>3, LongAre DEF LongCodes, TwoBytes, E0
  <2>4. c \notin Begun
    BY <1>3, <2>3, BegunAre DEF TwoBytes
  <2>5. SubSeq(c, 1, 1) \in Begun
    <3> DEFINE b == SubSeq(c, 1, 1)
    <3>1. b \in Seq(Bytes) /\ Len(b) = 1 /\ b[1] = 224
      BY <1>3, <2>2 DEF TwoBytes, E0
    <3>2. PrintScreen \in LongCodes
      BY DEF LongCodes
    <3> HIDE DEF b
    <3>3. Len(b) \in 1 .. Len(PrintScreen) - 1 /\ \A i \in 1 .. Len(b) : b[i] = PrintScreen[i]
      BY <3>1, LongAre
    <3>4. \E x \in LongCodes : /\ Len(b) \in 1 .. Len(x) - 1
                               /\ \A i \in 1 .. Len(b) : b[i] = x[i]
      BY <3>2, <3>3
    <3>5. b \in Begun
      BY <3>1, <3>4, BegunAre
    <3> QED  BY <3>5 DEF b
  <2> QED  BY <1>3, <2>4, <2>5 DEF TwoBytes
<1> QED  BY <1>1, <1>2, <1>3, CodeSorts

\* A beginning of a beginning is one.
LEMMA BegunBegins ==
    ASSUME NEW b \in Seq(Bytes), NEW c \in Seq(Bytes), c # <<>>,
           b \in Begun, StandsAt(c, b, 0)
    PROVE  c \in Begun
<1>1. PICK x \in LongCodes : /\ Len(b) \in 1 .. Len(x) - 1
                             /\ \A i \in 1 .. Len(b) : b[i] = x[i]
  BY BegunAre
<1>2. Len(c) \in 1 .. Len(b) /\ \A i \in 1 .. Len(c) : c[i] = b[i]
  BY DEF StandsAt
<1>3. Len(c) \in 1 .. Len(x) - 1 /\ \A i \in 1 .. Len(c) : c[i] = x[i]
  BY <1>1, <1>2, LongBytes
<1> QED  BY <1>3, BegunAre

\* When keyboard_read takes what it has read for a code, it is the code that
\* was sent: nothing is left of it, and nothing of the next is in it.
LEMMA ReadRight ==
    ASSUME CodesApart, NEW b \in Seq(Bytes), NEW byte \in Bytes, NEW t \in Seq(Bytes),
           b = <<>> \/ b \in Begun, Append(b, byte) \notin Begun,
           NEW d \in Codes, StandsAt(d, Append(b, byte) \o t, 0)
    PROVE  d = Append(b, byte)
<1> DEFINE c == Append(b, byte)
<1>1. /\ c \in Seq(Bytes) /\ Len(c) = Len(b) + 1
      /\ \A i \in 1 .. Len(b) : c[i] = b[i]
  OBVIOUS
<1>2. /\ d \in Seq(Bytes) /\ d # <<>> /\ d \notin Begun
      /\ \A n \in 1 .. Len(d) - 1 : SubSeq(d, 1, n) \in Begun
  BY CodesComplete
<1> HIDE DEF c
<1>3. \A i \in 1 .. Len(d) : i <= Len(c) => d[i] = c[i]
  <2>1. \A i \in 1 .. Len(c) : (c \o t)[i] = c[i]
    BY <1>1
  <2>2. \A i \in 1 .. Len(d) : d[i] = (c \o t)[i]
    BY <1>2 DEF StandsAt, c
  <2> QED  BY <1>1, <1>2, <2>1, <2>2
<1>4. CASE Len(d) < Len(c)
  <2>1. StandsAt(d, b, 0) /\ b # <<>>
    BY <1>1, <1>2, <1>3, <1>4 DEF StandsAt
  <2> QED  BY <1>2, <2>1, BegunBegins
<1>5. CASE Len(d) > Len(c)
  <2>1. Len(c) \in 1 .. Len(d) - 1 /\ Len(c) \in 1 .. Len(d)
    BY <1>1, <1>2, <1>5
  <2>2. /\ SubSeq(d, 1, Len(c)) \in Seq(Bytes) /\ Len(SubSeq(d, 1, Len(c))) = Len(c)
        /\ \A i \in 1 .. Len(c) : SubSeq(d, 1, Len(c))[i] = d[i]
    BY <1>2, <2>1, Beginning
  <2>3. SubSeq(d, 1, Len(c)) = c
    BY <1>1, <1>2, <1>3, <2>1, <2>2, SeqEqual
  <2> QED  BY <1>2, <2>1, <2>3 DEF c
<1>6. CASE Len(d) = Len(c)
  BY <1>1, <1>2, <1>3, <1>6, SeqEqual DEF c
<1> QED  BY <1>1, <1>2, <1>4, <1>5, <1>6

\* The first of the codes that make up s.
LEMMA FirstCode ==
    ASSUME NEW s \in Seq(Bytes), s # <<>>, NEW cuts, Cuts(s, cuts)
    PROVE  \E c \in Codes : StandsAt(c, s, 0) /\ Len(c) \in cuts
<1>1. 0 \in cuts \ {Len(s)}
  BY DEF Cuts
<1>2. PICK c \in Codes : StandsAt(c, s, 0) /\ 0 + Len(c) \in cuts
  BY <1>1 DEF Cuts
<1>3. 0 + Len(c) = Len(c)
  BY <1>2 DEF StandsAt
<1> QED  BY <1>2, <1>3

\* One code more is sent.
LEMMA WholeMore ==
    ASSUME CodesApart, NEW s \in Seq(Bytes), NEW c \in Codes, Whole(s)
    PROVE  Whole(s \o c)
<1>1. PICK cuts : Cuts(s, cuts)
  BY DEF Whole
<1>2. c \in Seq(Bytes) /\ Len(c) \in Nat
  BY CodesComplete
<1>3. /\ s \o c \in Seq(Bytes) /\ Len(s \o c) = Len(s) + Len(c)
      /\ \A i \in 1 .. Len(s) : (s \o c)[i] = s[i]
      /\ \A i \in 1 .. Len(c) : (s \o c)[Len(s) + i] = c[i]
  BY <1>2
<1> DEFINE more == cuts \cup {Len(s) + Len(c)}
<1>4. more \subseteq 0 .. Len(s \o c) /\ 0 \in more
  <2>1. cuts \subseteq 0 .. Len(s) /\ 0 \in cuts
    BY <1>1 DEF Cuts
  <2>2. 0 .. Len(s) \subseteq 0 .. Len(s \o c) /\ Len(s) + Len(c) \in 0 .. Len(s \o c)
    BY <1>2, <1>3
  <2> QED  BY <2>1, <2>2
<1>5. ASSUME NEW i \in cuts, i # Len(s)
      PROVE  \E d \in Codes : StandsAt(d, s \o c, i) /\ i + Len(d) \in more
  <2>1. PICK d \in Codes : StandsAt(d, s, i) /\ i + Len(d) \in cuts
    BY <1>1, <1>5 DEF Cuts
  <2>2. i \in Nat /\ d \in Seq(Bytes)
    BY <1>1, CodesComplete DEF Cuts
  <2>3. StandsAt(d, s \o c, i)
    BY <1>2, <1>3, <2>1, <2>2 DEF StandsAt
  <2> QED  BY <2>1, <2>3
<1>6. StandsAt(c, s \o c, Len(s)) /\ Len(s) + Len(c) \in more
  BY <1>2, <1>3 DEF StandsAt
<1>7. \A i \in more \ {Len(s \o c)} : i \in cuts
  BY <1>3
<1>8. \A i \in more \ {Len(s \o c)} : \E d \in Codes : StandsAt(d, s \o c, i) /\ i + Len(d) \in more
  <2> HIDE DEF more
  <2> QED  BY <1>5, <1>6, <1>7
<1>9. Cuts(s \o c, more)
  BY <1>4, <1>8 DEF Cuts
<1> QED  BY <1>9 DEF Whole

\* A code is dealt with.
LEMMA WholeLess ==
    ASSUME CodesApart, NEW b \in Seq(Bytes), NEW byte \in Bytes, NEW t \in Seq(Bytes),
           b = <<>> \/ b \in Begun, Append(b, byte) \notin Begun,
           Whole(Append(b, byte) \o t)
    PROVE  Append(b, byte) \in Codes /\ Whole(t)
<1> DEFINE c == Append(b, byte)
           s == c \o t
<1>1. PICK cuts : Cuts(s, cuts)
  BY DEF Whole
<1>2. c \in Seq(Bytes) /\ Len(c) = Len(b) + 1 /\ Len(c) \in Nat \ {0}
  OBVIOUS
<1> HIDE DEF c
<1>3. /\ s \in Seq(Bytes) /\ Len(s) = Len(c) + Len(t)
      /\ \A i \in 1 .. Len(t) : s[Len(c) + i] = t[i]
  BY <1>2
<1> HIDE DEF s
<1>4. s # <<>>
  BY <1>2, <1>3
<1>5. PICK d \in Codes : StandsAt(d, s, 0) /\ Len(d) \in cuts
  BY <1>1, <1>3, <1>4, FirstCode
<1>6. d = c
  BY <1>5, ReadRight DEF s, c
<1> DEFINE rest == {j \in 0 .. Len(t) : Len(c) + j \in cuts}
<1>7. rest \subseteq 0 .. Len(t) /\ 0 \in rest
  BY <1>2, <1>5, <1>6
<1>8. ASSUME NEW j \in rest, j # Len(t)
      PROVE  \E e \in Codes : StandsAt(e, t, j) /\ j + Len(e) \in rest
  <2>1. Len(c) + j \in cuts \ {Len(s)} /\ j \in 0 .. Len(t)
    BY <1>2, <1>3, <1>8
  <2>2. PICK e \in Codes : StandsAt(e, s, Len(c) + j) /\ Len(c) + j + Len(e) \in cuts
    BY <1>1, <2>1 DEF Cuts
  <2>3. e \in Seq(Bytes)
    BY CodesComplete
  <2>4. j + Len(e) \in 0 .. Len(t) /\ Len(c) + j + Len(e) = Len(c) + (j + Len(e))
    BY <1>2, <1>3, <2>1, <2>2, <2>3 DEF StandsAt
  <2>5. ASSUME NEW i \in 1 .. Len(e)
        PROVE  t[j + i] = e[i]
    <3>1. s[Len(c) + j + i] = e[i]
      BY <2>2 DEF StandsAt
    <3>2. j + i \in 1 .. Len(t) /\ Len(c) + j + i = Len(c) + (j + i)
      BY <1>2, <2>1, <2>3, <2>4
    <3> QED  BY <1>3, <3>1, <3>2
  <2>6. StandsAt(e, t, j)
    BY <2>4, <2>5 DEF StandsAt
  <2>7. j + Len(e) \in rest
    BY <2>2, <2>4
  <2> QED  BY <2>6, <2>7
<1>9. Cuts(t, rest)
  <2> HIDE DEF rest
  <2> QED  BY <1>7, <1>8 DEF Cuts
<1> QED  BY <1>5, <1>6, <1>9 DEF Whole, c

\* A code that has only begun is not whole.
LEMMA BegunNotWhole ==
    ASSUME CodesApart, NEW b \in Seq(Bytes), b \in Begun, Whole(b)
    PROVE  FALSE
<1>1. PICK cuts : Cuts(b, cuts)
  BY DEF Whole
<1>2. b # <<>>
  BY BegunAre
<1>3. PICK c \in Codes : StandsAt(c, b, 0)
  BY <1>1, <1>2, FirstCode
<1> QED  BY <1>3, CodesComplete, BegunBegins

LEMMA Assoc ==
    \A s, t, u \in Seq(Bytes) : (s \o t) \o u = s \o (t \o u)
BY ConcatAssociative

\* Taking a byte of t into s leaves what they are together.
LEMMA TakeOver ==
    ASSUME NEW s \in Seq(Bytes), NEW t \in Seq(Bytes), t # <<>>
    PROVE  Append(s, Head(t)) \o Tail(t) = s \o t
<1>1. /\ Append(s, Head(t)) \in Seq(Bytes) /\ Len(Append(s, Head(t))) = Len(s) + 1
      /\ Tail(t) \in Seq(Bytes) /\ Len(Tail(t)) = Len(t) - 1 /\ Len(t) \in Nat \ {0}
      /\ \A i \in 1 .. Len(t) - 1 : Tail(t)[i] = t[i + 1]
  OBVIOUS
<1> DEFINE l == Append(s, Head(t)) \o Tail(t)
           r == s \o t
<1>2. l \in Seq(Bytes) /\ r \in Seq(Bytes) /\ Len(l) = Len(r) /\ Len(r) = Len(s) + Len(t)
  BY <1>1
<1>3. ASSUME NEW i \in 1 .. Len(r)
      PROVE  l[i] = r[i]
  BY <1>1, <1>2, <1>3
<1> HIDE DEF l, r
<1>4. l = r
  BY <1>2, <1>3, SeqEqual
<1> QED  BY <1>4 DEF l, r

\* A byte that arrives, or is read, changes its place only.
LEMMA StreamSame ==
    ASSUME TypeOK
    PROVE  /\ wire # <<>> => code \o Append(fifo, Head(wire)) \o Tail(wire) = Stream
           /\ fifo # <<>> => Append(code, Head(fifo)) \o (Tail(fifo) \o wire) = Stream
<1>1. code \in Seq(Bytes) /\ fifo \in Seq(Bytes) /\ wire \in Seq(Bytes)
  BY DEF TypeOK
<1>2. ASSUME wire # <<>>
      PROVE  code \o Append(fifo, Head(wire)) \o Tail(wire) = Stream
  <2>1. Append(fifo, Head(wire)) \in Seq(Bytes) /\ Tail(wire) \in Seq(Bytes)
    BY <1>1, <1>2
  <2>2. code \o Append(fifo, Head(wire)) \o Tail(wire)
          = code \o (Append(fifo, Head(wire)) \o Tail(wire))
    BY <1>1, <2>1, Assoc, ZenonT(40)
  <2>3. Append(fifo, Head(wire)) \o Tail(wire) = fifo \o wire
    BY <1>1, <1>2, TakeOver
  <2>4. code \o (fifo \o wire) = code \o fifo \o wire
    BY <1>1, Assoc, ZenonT(40)
  <2> QED  BY <2>2, <2>3, <2>4, Zenon DEF Stream
<1>3. ASSUME fifo # <<>>
      PROVE  Append(code, Head(fifo)) \o (Tail(fifo) \o wire) = Stream
  <2>1. Append(code, Head(fifo)) \in Seq(Bytes) /\ Tail(fifo) \in Seq(Bytes)
    BY <1>1, <1>3
  <2> DEFINE c == Append(code, Head(fifo))
             t == Tail(fifo)
  <2>2. c \o t = code \o fifo
    BY <1>1, <1>3, TakeOver
  <2> HIDE DEF c, t
  <2>3. c \in Seq(Bytes) /\ t \in Seq(Bytes)
    BY <2>1 DEF c, t
  <2>4. (c \o t) \o wire = c \o (t \o wire)
    BY <1>1, <2>3, Assoc, ZenonT(40)
  <2>5. c \o (t \o wire) = Stream
    BY <2>2, <2>4 DEF Stream
  <2> QED  BY <2>5 DEF c, t
<1> QED  BY <1>2, <1>3

\* A code that is sent is behind the others.
LEMMA Sent ==
    ASSUME TypeOK, wire = <<>>, NEW c \in Seq(Bytes), wire' = c, UNCHANGED <<code, fifo>>
    PROVE  Stream' = Stream \o c
<1>1. Stream' = code \o fifo \o c /\ Stream = code \o fifo \o <<>>
  BY DEF Stream
<1>2. code \o fifo \in Seq(Bytes) /\ code \o fifo \o <<>> = code \o fifo
  BY DEF TypeOK
<1> QED  BY <1>1, <1>2

\* A byte that is not dropped is still on its way.
LEMMA Arrived ==
    ASSUME TypeOK, KeyByte, ~lost'
    PROVE  ~lost /\ Stream' = Stream
<1>1. /\ wire # <<>> /\ wire' = Tail(wire) /\ code' = code
      /\ lost' = (lost \/ count = KB_IN_BYTES) /\ Accept(Head(wire))
  BY DEF KeyByte, readVars
<1>2. ~lost /\ count # KB_IN_BYTES
  BY <1>1
<1>3. count < KB_IN_BYTES
  BY <1>2, KeyboardAssumption DEF TypeOK
<1>4. fifo' = Append(fifo, Head(wire))
  BY <1>1, <1>3 DEF Accept
<1> QED  BY <1>1, <1>2, <1>4, StreamSame DEF Stream

\* A KB_ACK that is taken for a scan code is a code more.
LEMMA AckSent ==
    ASSUME TypeOK, Ack
    PROVE  Stream' = Stream \/ Stream' = Stream \o <<KB_ACK>>
<1>1. /\ code \in Seq(Bytes) /\ fifo \in Seq(Bytes) /\ KB_ACK \in Bytes
      /\ wire = <<>> /\ wire' = wire /\ code' = code
      /\ fifo' = fifo \/ fifo' = Append(fifo, KB_ACK)
  BY DEF TypeOK, KB_ACK, Bytes, Ack, readVars, Accept, ringVars
<1>2. CASE fifo' = fifo
  BY <1>1, <1>2 DEF Stream
<1>3. CASE fifo' = Append(fifo, KB_ACK)
  <2>1. Stream = code \o fifo /\ Stream' = code \o Append(fifo, KB_ACK)
    BY <1>1, <1>3 DEF Stream
  <2>2. Append(fifo, KB_ACK) = fifo \o <<KB_ACK>> /\ <<KB_ACK>> \in Seq(Bytes)
    BY <1>1
  <2>3. code \o (fifo \o <<KB_ACK>>) = code \o fifo \o <<KB_ACK>>
    BY <1>1, <2>2, Assoc, ZenonT(40)
  <2> QED  BY <2>1, <2>2, <2>3
<1> QED  BY <1>1, <1>2, <1>3

\* init_keyboard finds nothing on its way.
LEMMA InitSame ==
    ASSUME IInv, init_keyboard
    PROVE  /\ Stream' = Stream /\ code' = code
           /\ UNCHANGED <<lost, stale, agree, owed, held, locks>>
<1>1. /\ UNCHANGED <<code, wire, lost, stale, agree, owed, held, locks>>
      /\ fifo' \in {fifo, <<>>}
      /\ fifo' # fifo => pc = "count"
  BY DEF init_keyboard, InitCount, InitTail, InitHead, InitFlags, ringVars, readVars,
     historyVars, userVars
<1>2. fifo' = fifo
  BY <1>1 DEF IInv, Untouched, Early
<1> QED  BY <1>1, <1>2 DEF Stream

\* What ReadByte does, with the byte it reads and the code it has by then.
LEMMA ReadByteIs ==
    ASSUME IInv, ReadByte
    PROVE  LET c == Append(code, Head(fifo))
               e0 == code # <<>> /\ code[Len(code)] = E0
               scan == IF c[1] = E1 THEN E1 ELSE Head(fifo)
           IN /\ fifo # <<>> /\ fifo' = Tail(fifo) /\ wire' = wire
              /\ IF c \in Begun
                 THEN code' = c /\ UNCHANGED <<key, make, mods, lit, leds, historyVars>>
                 ELSE CASE c = Pause -> Special("PAUSEBREAK", make)
                        [] c = PrintScreen -> Special("PRINTSCREEN", TRUE)
                        [] c = PrintScreenBreak -> Special("PRINTSCREEN", FALSE)
                        [] OTHER -> IF key # "other" THEN Ignore(scan) ELSE Decode(scan, e0)
<1>1. Take /\ wire' = wire
  BY DEF ReadByte
<1>2. fifo # <<>> /\ fifo' = Tail(fifo) /\ count = Len(fifo) /\ 1 \in 1 .. Len(fifo)
  BY <1>1 DEF Take, IInv, Ring, TypeOK
<1>3. buf[p_tail] = Head(fifo)
  <2>1. buf[Place(1)] = fifo[1]
    BY <1>2 DEF IInv, Ring
  <2>2. Place(1) = p_tail
    BY KeyboardAssumption DEF IInv, TypeOK, Place
  <2> QED  BY <1>2, <2>1, <2>2 DEF IInv, TypeOK
<1> QED  BY <1>1, <1>2, <1>3, Zenon DEF ReadByte

LEMMA Reading ==
    ASSUME IInv, ReadByte
    PROVE  /\ fifo # <<>> /\ fifo' = Tail(fifo) /\ wire' = wire /\ lost' = lost
           /\ \/ Append(code, Head(fifo)) \in Begun /\ code' = Append(code, Head(fifo))
              \/ Append(code, Head(fifo)) \notin Begun /\ code' = <<>>
<1> DEFINE c == Append(code, Head(fifo))
           e0 == code # <<>> /\ code[Len(code)] = E0
           scan == IF c[1] = E1 THEN E1 ELSE Head(fifo)
<1>1. fifo # <<>> /\ fifo' = Tail(fifo) /\ wire' = wire
  BY ReadByteIs, Zenon
<1>2. IF c \in Begun THEN code' = c /\ UNCHANGED <<key, make, mods, lit, leds, historyVars>>
      ELSE CASE c = Pause -> Special("PAUSEBREAK", make)
             [] c = PrintScreen -> Special("PRINTSCREEN", TRUE)
             [] c = PrintScreenBreak -> Special("PRINTSCREEN", FALSE)
             [] OTHER -> IF key # "other" THEN Ignore(scan) ELSE Decode(scan, e0)
  BY ReadByteIs, Zenon
<1> HIDE DEF c, e0, scan
<1>3. ASSUME c \notin Begun
      PROVE  \/ \E name, down : Special(name, down)
             \/ Ignore(scan) \/ Decode(scan, e0)
  BY <1>2, <1>3
<1>4. \/ c \in Begun /\ code' = c /\ lost' = lost
      \/ c \notin Begun /\ code' = <<>> /\ lost' = lost
  BY <1>2, <1>3 DEF Special, Ignore, Decode, historyVars
<1> QED  BY <1>1, <1>4 DEF c

LEMMA InitCodes == Init => InCodes
<1> SUFFICES ASSUME Init PROVE InCodes
  OBVIOUS
<1>1. Stream = <<>> /\ code = <<>>
  BY DEF Init, Stream
<1>2. Cuts(<<>>, {0})
  BY DEF Cuts
<1> QED  BY <1>1, <1>2 DEF InCodes, Whole

LEMMA StepCodes ==
    ASSUME CodesApart, IInv, InCodes, [Next]_vars, ~EarlyKeys
    PROVE  InCodes'
<1>1. /\ TypeOK /\ Ring /\ code \in Seq(Bytes) /\ fifo \in Seq(Bytes) /\ wire \in Seq(Bytes)
  BY DEF IInv, TypeOK
<1>2. ASSUME NEW c \in Codes, wire = <<>>, wire' = c, UNCHANGED <<code, fifo, lost, pc>>
      PROVE  InCodes'
  <2>1. Stream' = Stream \o c
    BY <1>1, <1>2, Sent, CodesComplete
  <2>2. Stream \in Seq(Bytes)
    BY <1>1 DEF Stream
  <2> QED  BY <1>2, <2>1, <2>2, WholeMore DEF InCodes
<1>3. ASSUME NEW k \in Keys, Press(k) PROVE InCodes'
  <2>1. k \in Codes /\ wire = <<>> /\ wire' = k /\ UNCHANGED <<code, fifo, lost, pc>>
    BY <1>3 DEF Codes, Press, Quiet, ringVars, readVars
  <2> QED  BY <1>2, <2>1
<1>4. ASSUME NEW k \in Keys, Release(k) PROVE InCodes'
  <2>1. k # Pause
    BY <1>4 DEF Release, IInv, Releasable
  <2>2. BreakCode(k) \in Codes
    BY <2>1 DEF Codes
  <2>3. wire = <<>> /\ wire' = BreakCode(k) /\ UNCHANGED <<code, fifo, lost, pc>>
    BY <1>4 DEF Release, Quiet, ringVars, readVars, historyVars
  <2> QED  BY <1>2, <2>2, <2>3
<1>5. CASE KeyByte
  <2>1. code' = code /\ pc' = pc
    BY <1>5 DEF KeyByte, readVars
  <2>2. ~lost' => ~lost /\ Stream' = Stream
    BY <1>1, <1>5, Arrived
  <2> QED  BY <2>1, <2>2 DEF InCodes
<1>6. CASE Ack
  <2>1. UNCHANGED <<code, lost, pc>> /\ Stream \in Seq(Bytes) /\ <<KB_ACK>> \in Codes
    BY <1>1, <1>6 DEF Ack, readVars, historyVars, Stream, Codes
  <2>2. Stream' = Stream \/ Stream' = Stream \o <<KB_ACK>>
    BY <1>1, <1>6, AckSent
  <2> QED  BY <2>1, <2>2, WholeMore DEF InCodes
<1>7. CASE init_keyboard
  <2>1. pc # "read"
    BY <1>7 DEF init_keyboard, InitCount, InitTail, InitHead, InitFlags
  <2> QED  BY <1>7, <2>1, InitSame DEF InCodes
<1>8. CASE Enter \/ Leave
  <2>1. UNCHANGED <<fifo, wire, lost>> /\ code = <<>> /\ code' = <<>>
    BY <1>8 DEF Enter, Leave, ringVars, readVars, historyVars, InCodes
  <2> QED  BY <2>1 DEF InCodes, Stream
<1>9. CASE ReadByte
  <2>1. /\ fifo # <<>> /\ fifo' = Tail(fifo) /\ wire' = wire /\ lost' = lost
        /\ Head(fifo) \in Bytes /\ Tail(fifo) \in Seq(Bytes)
    BY <1>1, <1>9, Reading
  <2> DEFINE c == Append(code, Head(fifo))
  <2>2. c \in Seq(Bytes) /\ c \o (Tail(fifo) \o wire) = Stream
    <3>1. c \in Seq(Bytes)
      BY <1>1, <2>1
    <3>2. c \o (Tail(fifo) \o wire) = Stream
      BY <1>1, <2>1, StreamSame, Zenon
    <3> QED  BY <3>1, <3>2
  <2>3. CASE c \in Begun /\ code' = c
    <3>1. Stream' = c \o Tail(fifo) \o wire
      BY <2>1, <2>3 DEF Stream
    <3>2. pc = "read" /\ pc' = pc
      BY <1>9 DEF ReadByte
    <3> HIDE DEF c
    <3>3. c \o Tail(fifo) \o wire = c \o (Tail(fifo) \o wire)
      BY <1>1, <2>1, <2>2, Assoc, ZenonT(40)
    <3> QED  BY <2>1, <2>2, <2>3, <3>1, <3>2, <3>3 DEF InCodes
  <2>4. CASE c \notin Begun /\ code' = <<>>
    <3>1. Stream' = Tail(fifo) \o wire /\ Tail(fifo) \o wire \in Seq(Bytes)
      BY <1>1, <2>1, <2>4 DEF Stream
    <3>2. ~lost => Whole(c \o (Tail(fifo) \o wire))
      BY <2>2 DEF InCodes
    <3>3. ~lost => Whole(Tail(fifo) \o wire)
      BY <1>1, <2>1, <2>4, <3>1, <3>2, WholeLess DEF InCodes
    <3> QED  BY <2>1, <2>4, <3>1, <3>3 DEF InCodes
  <2> QED  BY <1>9, <2>3, <2>4, Reading
<1>10. CASE UNCHANGED vars
  BY <1>10 DEF vars, ringVars, readVars, historyVars, InCodes, Stream
<1> QED
  BY <1>3, <1>4, <1>5, <1>6, <1>7, <1>8, <1>9, <1>10 DEF Next, keyboard_read

LEMMA CodesInvariance == CodesApart /\ ~EarlyKeys => (Spec => [](IInv /\ InCodes))
<1> SUFFICES ASSUME CodesApart, ~EarlyKeys
             PROVE  Spec => [](IInv /\ InCodes)
  OBVIOUS
<1>1. Init => InCodes
  BY InitCodes
<1>2. IInv /\ InCodes /\ [Next]_vars => InCodes'
  BY StepCodes
<1>3. Spec => []IInv
  BY Invariance
<1> QED  BY <1>1, <1>2, <1>3, PTL DEF Spec

\* TASK_TTY spins in get_byte_from_kb_buf, in the middle of a code, only while
\* the rest of the code is on its way, if no byte was dropped
\* (keyboard.c:133-190, 344).
THEOREM MidCodesEnd == CodesApart /\ ~EarlyKeys => (Spec => []MidCodeWaits)
<1> SUFFICES ASSUME CodesApart, ~EarlyKeys
             PROVE  Spec => []MidCodeWaits
  OBVIOUS
<1>1. IInv /\ InCodes => MidCodeWaits
  <2> SUFFICES ASSUME IInv, InCodes, code # <<>>, count = 0, wire = <<>>, ~lost
               PROVE  FALSE
    BY DEF MidCodeWaits
  <2>1. code \in Seq(Bytes) /\ code \in Begun
    BY DEF IInv, TypeOK, InCodes
  <2>2. fifo \in Seq(Bytes) /\ Len(fifo) = 0
    BY DEF IInv, TypeOK, Ring
  <2>3. Stream = code
    BY <2>1, <2>2 DEF Stream
  <2>4. Whole(code)
    BY <2>3 DEF InCodes
  <2> QED  BY <2>1, <2>4, BegunNotWhole
<1>2. Spec => [](IInv /\ InCodes)
  BY CodesInvariance
<1> QED  BY <1>1, <1>2, PTL

----------------------------------------------------------------------------
(* What a code does, as a function of the flags ms and the locks ls.       *)

FlagNames == {"SHIFT_L", "SHIFT_R", "CTRL_L", "CTRL_R", "ALT_L"}
LockNames == {"CAPS_LOCK", "NUM_LOCK", "SCROLL_LOCK"}

Row(c) == c[Len(c)] % FLAG_BREAK
Down(c) == c[Len(c)] < FLAG_BREAK

Shifted(ms) == ms \cap {"SHIFT_L", "SHIFT_R"} # {}

ColumnIn(ms, ls, c) ==
    IF Len(c) = 2 THEN 2
    ELSE IF Shifted(ms) # ("CAPS_LOCK" \in ls /\ Row(c) \in Letters) THEN 1 ELSE 0

KindIn(ms, ls, c) == keymap[Row(c)][ColumnIn(ms, ls, c)]

FlagOf(kind) == {IF kind = "ALT_R" THEN "ALT_L" ELSE kind} \cap FlagNames

KeyIn(ms, ls, c) ==
    LET kind == KindIn(ms, ls, c)
    IN CASE kind = "slash" -> <<"char", Row(c), 0>>
         [] kind = "sign" -> <<"char", Row(c), 1>>
         [] kind = "digit" -> IF "NUM_LOCK" \in ls THEN <<"char", Row(c), 1>>
                              ELSE <<keymap[Row(c)][2], Row(c), 2>>
         [] OTHER -> <<kind, Row(c), ColumnIn(ms, ls, c)>>

ModsAfter(ms, ls, c) ==
    IF c \in LongCodes THEN ms
    ELSE IF Down(c) THEN ms \cup FlagOf(KindIn(ms, ls, c)) ELSE ms \ FlagOf(KindIn(ms, ls, c))

LitAfter(ms, ls, c) ==
    IF c \in LongCodes \/ ~Down(c) THEN ls ELSE Switched(ls, KindIn(ms, ls, c))

EffectIn(ms, ls, c) ==
    IF c \in LongCodes \/ ~Down(c) THEN None
    ELSE Effect(KeyIn(ms, ls, c), ModsAfter(ms, ls, c))

\* The flags and locks are those of the keys h that are held and of the locks
\* l that are on.
Agrees(ms, ls, h, l) ==
    /\ ls = l
    /\ "SHIFT_L" \in ms <=> <<42>> \in h
    /\ "SHIFT_R" \in ms <=> <<54>> \in h
    /\ "CTRL_L" \in ms <=> <<29>> \in h
    /\ "CTRL_R" \in ms <=> <<E0, 29>> \in h
    /\ "ALT_L" \in ms <=> h \cap AltKeys # {}

\* The keys of the main block and of the numeric pad, by their rows.
PlainRows == CharRows \cup FRows \cup PadDigits \cup PadSigns
NamedRows == {14, 28, 29, 42, 54, 56, 58, 69, 70}

\* What keymap says of a row, in the columns without E0.
NarrowKind(row, column, kind) ==
    /\ row \in CharRows => kind = "char"
    /\ row \in FRows => kind = "F"
    /\ row \in PadDigits => kind = IF column = 0 THEN "digit" ELSE "char"
    /\ row \in PadSigns => kind = IF column = 0 THEN "sign" ELSE "char"
    /\ row = 14 => kind = "BACKSPACE"
    /\ row = 28 => kind = "ENTER"
    /\ row = 29 => kind = "CTRL_L"
    /\ row = 42 => kind = "SHIFT_L"
    /\ row = 54 => kind = "SHIFT_R"
    /\ row = 56 => kind = "ALT_L"
    /\ row = 58 => kind = "CAPS_LOCK"
    /\ row = 69 => kind = "NUM_LOCK"
    /\ row = 70 => kind = "SCROLL_LOCK"
    /\ row \notin PlainRows \cup NamedRows => kind \in {"ESC", "TAB", "none"}

LEMMA Narrow ==
    ASSUME NEW row \in 0 .. 127, NEW column \in {0, 1}
    PROVE  NarrowKind(row, column, keymap[row][column])
<1>1. keymap[row][column] =
        CASE row \in CharRows -> "char"
          [] row \in DOMAIN Named -> Named[row]
          [] row \in FRows -> "F"
          [] row \in PadDigits -> IF column = 0 THEN "digit" ELSE "char"
          [] row \in PadSigns -> IF column = 0 THEN "sign" ELSE "char"
          [] OTHER -> "none"
  BY DEF keymap
<1>2. DOMAIN Named = NamedRows \cup {1, 15}
  BY DEF Named, NamedRows
<1>3. /\ Named[14] = "BACKSPACE" /\ Named[28] = "ENTER" /\ Named[29] = "CTRL_L"
      /\ Named[42] = "SHIFT_L" /\ Named[54] = "SHIFT_R" /\ Named[56] = "ALT_L"
      /\ Named[58] = "CAPS_LOCK" /\ Named[69] = "NUM_LOCK" /\ Named[70] = "SCROLL_LOCK"
      /\ Named[1] = "ESC" /\ Named[15] = "TAB"
  BY DEF Named
<1>4. CASE row \in CharRows
  BY <1>1, <1>2, <1>4 DEF NarrowKind, CharRows, FRows, PadDigits, PadSigns, NamedRows, PlainRows
<1>5. CASE row \in NamedRows \cup {1, 15}
  BY <1>1, <1>2, <1>3, <1>5
     DEF NarrowKind, CharRows, FRows, PadDigits, PadSigns, NamedRows, PlainRows
<1>6. CASE row \in FRows
  BY <1>1, <1>2, <1>6 DEF NarrowKind, CharRows, FRows, PadDigits, PadSigns, NamedRows, PlainRows
<1>7. CASE row \in PadDigits
  BY <1>1, <1>2, <1>7 DEF NarrowKind, CharRows, FRows, PadDigits, PadSigns, NamedRows, PlainRows
<1>8. CASE row \in PadSigns
  BY <1>1, <1>2, <1>8 DEF NarrowKind, CharRows, FRows, PadDigits, PadSigns, NamedRows, PlainRows
<1>9. CASE row \notin PlainRows \cup NamedRows \cup {1, 15}
  BY <1>1, <1>2, <1>9 DEF NarrowKind, PlainRows, NamedRows
<1> QED  BY <1>4, <1>5, <1>6, <1>7, <1>8, <1>9 DEF NarrowKind, PlainRows

\* The same of the column for the codes with E0.
WideKind(row, kind) ==
    /\ row = 28 => kind = "ENTER"
    /\ row = 53 => kind = "slash"
    /\ row = 29 => kind = "CTRL_R"
    /\ row = 56 => kind = "ALT_R"
    /\ row = 72 => kind = "UP"
    /\ row = 80 => kind = "DOWN"
    /\ row \notin {28, 53, 29, 56, 72, 80} => kind \in {"grey", "none"}

LEMMA Wide ==
    ASSUME NEW row \in 0 .. 127
    PROVE  WideKind(row, keymap[row][2])
<1>1. keymap[row][2] =
        CASE row = 28 -> "ENTER" [] row = 53 -> "slash"
          [] row = 29 -> "CTRL_R" [] row = 56 -> "ALT_R"
          [] row = 72 -> "UP" [] row = 80 -> "DOWN"
          [] row \in (PadDigits \ {72, 76, 80}) \cup (91 .. 93) -> "grey"
          [] OTHER -> "none"
  BY DEF keymap
<1> QED  BY <1>1 DEF WideKind, PadDigits

\* What a key of one byte is for, by its row, and with Shift, Caps Lock, Num
\* Lock and Alt as they are.
NarrowEffect(row, shift, caps, num, alt) ==
    CASE row \in Letters -> <<"put", row, IF shift # caps THEN 1 ELSE 0>>
      [] row \in CharRows \ Letters -> <<"put", row, IF shift THEN 1 ELSE 0>>
      [] row \in PadDigits -> IF shift \/ num THEN <<"put", row, 1>> ELSE None
      [] row \in PadSigns -> <<"put", row, 1>>
      [] row = 28 -> <<"newline", 0, 0>>
      [] row = 14 -> <<"backspace", 0, 0>>
      [] row \in FRows -> IF alt THEN <<"select", row, 0>> ELSE None
      [] OTHER -> None

\* The same of a key of two bytes.
WideEffect(row, shift) ==
    CASE row = 53 -> <<"put", row, 0>>
      [] row = 28 -> <<"newline", 0, 0>>
      [] row = 72 -> IF shift THEN <<"SCR_DN", 0, 0>> ELSE None
      [] row = 80 -> IF shift THEN <<"SCR_UP", 0, 0>> ELSE None
      [] OTHER -> None

\* The rows of a kind are no rows of another.
LEMMA RowsApart ==
    /\ Letters \subseteq CharRows
    /\ \A r \in CharRows : r \notin PadDigits \cup PadSigns \cup FRows \cup {28, 14}
    /\ \A r \in PadDigits : r \notin PadSigns \cup FRows \cup {28, 14}
    /\ \A r \in PadSigns : r \notin FRows \cup {28, 14}
    /\ \A r \in FRows : r \notin {28, 14}
BY DEF Letters, CharRows, PadDigits, PadSigns, FRows

\* The reference for the keys of one byte, row by row.
LEMMA WantedNarrow ==
    ASSUME NEW row \in 0 .. 127
    PROVE  Wanted(<<row>>) = NarrowEffect(row, held \cap ShiftKeys # {}, "CAPS_LOCK" \in locks,
                                          "NUM_LOCK" \in locks, held \cap AltKeys # {})
<1> DEFINE k == <<row>>
           shift == held \cap ShiftKeys # {}
           wanted == Wanted(k)
           Typed(upper) == <<"put", row, IF upper THEN 1 ELSE 0>>
<1>1. /\ k \in {<<l>> : l \in Letters} <=> row \in Letters
      /\ k \in {<<c>> : c \in CharRows \ Letters} <=> row \in CharRows \ Letters
      /\ k \in {<<d>> : d \in PadDigits} <=> row \in PadDigits
      /\ k \in {<<s>> : s \in PadSigns} <=> row \in PadSigns
      /\ k \in {<<f>> : f \in FRows} <=> row \in FRows
  OBVIOUS
<1>2. /\ k # <<E0, 53>> /\ k # <<E0, 72>> /\ k # <<E0, 80>>
      /\ k \in {<<28>>, <<E0, 28>>} <=> row = 28
      /\ k = <<14>> <=> row = 14
      /\ k[Len(k)] = row
  OBVIOUS
<1>3. wanted =
        CASE k \in {<<l>> : l \in Letters} -> Typed(shift # ("CAPS_LOCK" \in locks))
          [] k \in {<<c>> : c \in CharRows \ Letters} -> Typed(shift)
          [] k \in {<<d>> : d \in PadDigits} /\ (shift \/ "NUM_LOCK" \in locks) -> Typed(TRUE)
          [] k \in {<<s>> : s \in PadSigns} -> Typed(TRUE)
          [] k = <<E0, 53>> -> Typed(FALSE)
          [] k \in {<<28>>, <<E0, 28>>} -> <<"newline", 0, 0>>
          [] k = <<14>> -> <<"backspace", 0, 0>>
          [] k = <<E0, 72>> /\ shift -> <<"SCR_DN", 0, 0>>
          [] k = <<E0, 80>> /\ shift -> <<"SCR_UP", 0, 0>>
          [] k \in {<<f>> : f \in FRows} /\ held \cap AltKeys # {} -> <<"select", row, 0>>
          [] OTHER -> None
  BY <1>2, Zenon DEF Wanted
<1> HIDE DEF k, shift, wanted
<1>4. wanted =
        CASE row \in Letters -> Typed(shift # ("CAPS_LOCK" \in locks))
          [] row \in CharRows \ Letters -> Typed(shift)
          [] row \in PadDigits /\ (shift \/ "NUM_LOCK" \in locks) -> Typed(TRUE)
          [] row \in PadSigns -> Typed(TRUE)
          [] row = 28 -> <<"newline", 0, 0>>
          [] row = 14 -> <<"backspace", 0, 0>>
          [] row \in FRows /\ held \cap AltKeys # {} -> <<"select", row, 0>>
          [] OTHER -> None
  BY <1>1, <1>2, <1>3
<1>5. shift \in BOOLEAN
  BY DEF shift
<1>6. wanted = NarrowEffect(row, shift, "CAPS_LOCK" \in locks, "NUM_LOCK" \in locks,
                            held \cap AltKeys # {})
  BY <1>4, <1>5, RowsApart DEF NarrowEffect
<1> QED  BY <1>6 DEF k, shift, wanted

\* The reference for the keys of two bytes.
LEMMA WantedWide ==
    ASSUME NEW row \in 0 .. 127
    PROVE  Wanted(<<E0, row>>) = WideEffect(row, held \cap ShiftKeys # {})
<1> DEFINE k == <<E0, row>>
           shift == held \cap ShiftKeys # {}
           wanted == Wanted(k)
           Typed(upper) == <<"put", row, IF upper THEN 1 ELSE 0>>
<1>1. /\ k \notin {<<l>> : l \in Letters} /\ k \notin {<<c>> : c \in CharRows \ Letters}
      /\ k \notin {<<d>> : d \in PadDigits} /\ k \notin {<<s>> : s \in PadSigns}
      /\ k \notin {<<f>> : f \in FRows}
  OBVIOUS
<1>2. /\ k = <<E0, 53>> <=> row = 53
      /\ k = <<E0, 72>> <=> row = 72
      /\ k = <<E0, 80>> <=> row = 80
      /\ k \in {<<28>>, <<E0, 28>>} <=> row = 28
      /\ k # <<14>>
      /\ k[Len(k)] = row
  OBVIOUS
<1>3. wanted =
        CASE k \in {<<l>> : l \in Letters} -> Typed(shift # ("CAPS_LOCK" \in locks))
          [] k \in {<<c>> : c \in CharRows \ Letters} -> Typed(shift)
          [] k \in {<<d>> : d \in PadDigits} /\ (shift \/ "NUM_LOCK" \in locks) -> Typed(TRUE)
          [] k \in {<<s>> : s \in PadSigns} -> Typed(TRUE)
          [] k = <<E0, 53>> -> Typed(FALSE)
          [] k \in {<<28>>, <<E0, 28>>} -> <<"newline", 0, 0>>
          [] k = <<14>> -> <<"backspace", 0, 0>>
          [] k = <<E0, 72>> /\ shift -> <<"SCR_DN", 0, 0>>
          [] k = <<E0, 80>> /\ shift -> <<"SCR_UP", 0, 0>>
          [] k \in {<<f>> : f \in FRows} /\ held \cap AltKeys # {} -> <<"select", row, 0>>
          [] OTHER -> None
  BY <1>2, Zenon DEF Wanted
<1> HIDE DEF k, shift, wanted
<1>4. wanted =
        CASE row = 53 -> Typed(FALSE)
          [] row = 28 -> <<"newline", 0, 0>>
          [] row = 72 /\ shift -> <<"SCR_DN", 0, 0>>
          [] row = 80 /\ shift -> <<"SCR_UP", 0, 0>>
          [] OTHER -> None
  BY <1>1, <1>2, <1>3
<1> QED  BY <1>4 DEF WideEffect, k, shift, wanted

LEMMA WantedLong == \A k \in LongCodes : Wanted(k) = None
<1> SUFFICES ASSUME NEW k \in LongCodes PROVE Wanted(k) = None
  OBVIOUS
<1>1. Len(k) \in {4, 6}
  BY LongAre DEF LongCodes
<1>2. /\ k \notin {<<l>> : l \in Letters} /\ k \notin {<<c>> : c \in CharRows \ Letters}
      /\ k \notin {<<d>> : d \in PadDigits} /\ k \notin {<<s>> : s \in PadSigns}
      /\ k \notin {<<f>> : f \in FRows}
  BY <1>1
<1>3. /\ k # <<E0, 53>> /\ k # <<E0, 72>> /\ k # <<E0, 80>>
      /\ k \notin {<<28>>, <<E0, 28>>} /\ k # <<14>>
  BY <1>1
<1> QED  BY <1>2, <1>3 DEF Wanted

\* What in_process does with a key of each kind.
LEMMA Effects ==
    /\ \A r, c, f : Effect(<<"char", r, c>>, f) = <<"put", r, c>>
    /\ \A r, c, f : Effect(<<"ENTER", r, c>>, f) = <<"newline", 0, 0>>
    /\ \A r, c, f : Effect(<<"BACKSPACE", r, c>>, f) = <<"backspace", 0, 0>>
    /\ \A r, c, f : Effect(<<"UP", r, c>>, f) = IF Shifted(f) THEN <<"SCR_DN", 0, 0>> ELSE None
    /\ \A r, c, f : Effect(<<"DOWN", r, c>>, f) = IF Shifted(f) THEN <<"SCR_UP", 0, 0>> ELSE None
    /\ \A r, c, f : Effect(<<"F", r, c>>, f) = IF "ALT_L" \in f THEN <<"select", r, 0>> ELSE None
    /\ \A kind, r, c, f : kind \notin {"char", "ENTER", "BACKSPACE", "UP", "DOWN", "F"} =>
                             Effect(<<kind, r, c>>, f) = None
<1>1. \A r, c, f : Effect(<<"char", r, c>>, f) = <<"put", r, c>>
  BY DEF Effect
<1>2. \A r, c, f : Effect(<<"ENTER", r, c>>, f) = <<"newline", 0, 0>>
  BY DEF Effect
<1>3. \A r, c, f : Effect(<<"BACKSPACE", r, c>>, f) = <<"backspace", 0, 0>>
  BY DEF Effect
<1>4. \A r, c, f : Effect(<<"UP", r, c>>, f) = IF Shifted(f) THEN <<"SCR_DN", 0, 0>> ELSE None
  BY DEF Effect, Shifted
<1>5. \A r, c, f : Effect(<<"DOWN", r, c>>, f) = IF Shifted(f) THEN <<"SCR_UP", 0, 0>> ELSE None
  BY DEF Effect, Shifted
<1>6. \A r, c, f : Effect(<<"F", r, c>>, f) = IF "ALT_L" \in f THEN <<"select", r, 0>> ELSE None
  BY DEF Effect
<1>7. \A kind, r, c, f : kind \notin {"char", "ENTER", "BACKSPACE", "UP", "DOWN", "F"} =>
                           Effect(<<kind, r, c>>, f) = None
  BY DEF Effect
<1> QED  BY <1>1, <1>2, <1>3, <1>4, <1>5, <1>6, <1>7

\* What the code of a key of one byte does, row by row.
LEMMA EffectNarrow ==
    ASSUME NEW row \in 0 .. 127, NEW k, k = <<row>>, NEW ms, NEW ls
    PROVE  EffectIn(ms, ls, k) = NarrowEffect(row, Shifted(ms), "CAPS_LOCK" \in ls,
                                              "NUM_LOCK" \in ls, "ALT_L" \in ms)
<1> DEFINE column == ColumnIn(ms, ls, k)
           kind == keymap[row][column]
           shift == Shifted(ms)
           caps == "CAPS_LOCK" \in ls /\ row \in Letters
           flags == ModsAfter(ms, ls, k)
<1>1. Len(k) = 1 /\ k[1] = row /\ k[Len(k)] = row
  OBVIOUS
<1>2. k \notin LongCodes
  BY <1>1, LongAre DEF LongCodes
<1>3. Row(k) = row /\ Down(k)
  BY <1>1 DEF Row, Down, FLAG_BREAK
<1>4. column = IF shift # caps THEN 1 ELSE 0
  BY <1>1, <1>3 DEF ColumnIn
<1>5. KindIn(ms, ls, k) = kind
  BY <1>3 DEF KindIn
<1>6. EffectIn(ms, ls, k) = Effect(KeyIn(ms, ls, k), flags)
  BY <1>2, <1>3 DEF EffectIn
<1>7. flags = ms \cup FlagOf(kind)
  BY <1>2, <1>3, <1>5 DEF ModsAfter
<1>8. KeyIn(ms, ls, k) =
        CASE kind = "slash" -> <<"char", row, 0>>
          [] kind = "sign" -> <<"char", row, 1>>
          [] kind = "digit" -> IF "NUM_LOCK" \in ls THEN <<"char", row, 1>>
                               ELSE <<keymap[row][2], row, 2>>
          [] OTHER -> <<kind, row, column>>
  BY <1>3, <1>5, Zenon DEF KeyIn
<1>9. column \in {0, 1} /\ shift \in BOOLEAN /\ NarrowKind(row, column, kind)
  <2>1. column \in {0, 1} /\ shift \in BOOLEAN
    BY <1>4 DEF Shifted
  <2> HIDE DEF column
  <2>2. NarrowKind(row, column, kind)
    BY <2>1, Narrow
  <2> QED  BY <2>1, <2>2
<1> HIDE DEF column, kind, shift, flags
<1>10. CASE row \in CharRows
  <2>1. kind = "char"
    BY <1>9, <1>10 DEF NarrowKind
  <2>2. EffectIn(ms, ls, k) = <<"put", row, column>>
    <3>1. KeyIn(ms, ls, k) = <<"char", row, column>>
      BY <1>8, <2>1
    <3> QED  BY <1>6, <3>1, Effects
  <2>3. row \notin PadDigits \cup PadSigns \cup FRows \cup {28, 14}
    BY <1>10, RowsApart
  <2>4. row \in Letters => column = IF shift # ("CAPS_LOCK" \in ls) THEN 1 ELSE 0
    BY <1>4
  <2>5. row \notin Letters => column = IF shift THEN 1 ELSE 0
    BY <1>4, <1>9
  <2> QED  BY <1>10, <2>2, <2>3, <2>4, <2>5 DEF NarrowEffect, shift
<1>11. CASE row \in PadDigits
  <2>1. row \notin CharRows \cup Letters \cup PadSigns \cup FRows \cup {28, 14}
    BY <1>11 DEF CharRows, Letters, PadDigits, PadSigns, FRows
  <2>2. column = IF shift THEN 1 ELSE 0
    BY <1>4, <1>9, <2>1
  <2>3. kind = IF column = 0 THEN "digit" ELSE "char"
    BY <1>9, <1>11 DEF NarrowKind
  <2>4. CASE shift
    <3>1. EffectIn(ms, ls, k) = <<"put", row, 1>>
      <4>1. KeyIn(ms, ls, k) = <<"char", row, 1>>
        BY <1>8, <2>2, <2>3, <2>4
      <4> QED  BY <1>6, <4>1, Effects
    <3> QED  BY <1>11, <2>1, <2>4, <3>1 DEF NarrowEffect, shift
  <2>5. CASE ~shift /\ "NUM_LOCK" \in ls
    <3>1. EffectIn(ms, ls, k) = <<"put", row, 1>>
      <4>1. KeyIn(ms, ls, k) = <<"char", row, 1>>
        BY <1>8, <2>2, <2>3, <2>5
      <4> QED  BY <1>6, <4>1, Effects
    <3> QED  BY <1>11, <2>1, <2>5, <3>1 DEF NarrowEffect, shift
  <2>6. CASE ~shift /\ "NUM_LOCK" \notin ls
    <3>1. EffectIn(ms, ls, k) = Effect(<<keymap[row][2], row, 2>>, flags)
      BY <1>6, <1>8, <2>2, <2>3, <2>6
    <3>2. ~Shifted(flags)
      BY <1>7, <2>2, <2>3, <2>6 DEF Shifted, FlagOf, FlagNames, shift
    <3>3. keymap[row][2] \in {"UP", "DOWN", "grey", "none"}
      <4>1. WideKind(row, keymap[row][2])
        BY Wide
      <4> QED  BY <1>11, <4>1 DEF WideKind, PadDigits
    <3>4. EffectIn(ms, ls, k) = None
      <4> DEFINE other == keymap[row][2]
      <4>1. /\ other = "UP" => Effect(<<other, row, 2>>, flags) = None
            /\ other = "DOWN" => Effect(<<other, row, 2>>, flags) = None
        BY <3>2, Effects
      <4>2. other \in {"grey", "none"} => Effect(<<other, row, 2>>, flags) = None
        BY Effects
      <4> QED  BY <3>1, <3>3, <4>1, <4>2
    <3> QED  BY <1>11, <2>1, <2>6, <3>4 DEF NarrowEffect, shift
  <2> QED  BY <2>4, <2>5, <2>6
<1>12. CASE row \in PadSigns
  <2>1. row \notin CharRows \cup Letters \cup PadDigits \cup FRows \cup {28, 14}
    BY <1>12 DEF CharRows, Letters, PadDigits, PadSigns, FRows
  <2>2. column = IF shift THEN 1 ELSE 0
    BY <1>4, <1>9, <2>1
  <2>3. kind = IF column = 0 THEN "sign" ELSE "char"
    BY <1>9, <1>12 DEF NarrowKind
  <2>4. EffectIn(ms, ls, k) = <<"put", row, 1>>
    <3>1. KeyIn(ms, ls, k) = <<"char", row, 1>>
      BY <1>8, <2>2, <2>3
    <3> QED  BY <1>6, <3>1, Effects
  <2> QED  BY <1>12, <2>1, <2>4 DEF NarrowEffect
<1>13. CASE row \in FRows
  <2>1. row \notin CharRows \cup Letters \cup PadDigits \cup PadSigns \cup {28, 14}
    BY <1>13 DEF CharRows, Letters, PadDigits, PadSigns, FRows
  <2>2. kind = "F"
    BY <1>9, <1>13 DEF NarrowKind
  <2>3. "ALT_L" \in flags <=> "ALT_L" \in ms
    BY <1>7, <2>2 DEF FlagOf, FlagNames
  <2>4. EffectIn(ms, ls, k) = IF "ALT_L" \in ms THEN <<"select", row, 0>> ELSE None
    <3>1. KeyIn(ms, ls, k) = <<"F", row, column>>
      BY <1>8, <2>2
    <3> QED  BY <1>6, <2>3, <3>1, Effects
  <2> QED  BY <1>13, <2>1, <2>4 DEF NarrowEffect
<1>14. CASE row \notin PlainRows
  <2>1. row \notin Letters
    BY <1>14 DEF PlainRows, CharRows, Letters
  <2>2. /\ row = 28 => kind = "ENTER"
        /\ row = 14 => kind = "BACKSPACE"
        /\ row \notin {28, 14} =>
              kind \in {"CTRL_L", "SHIFT_L", "SHIFT_R", "ALT_L", "CAPS_LOCK", "NUM_LOCK",
                        "SCROLL_LOCK", "ESC", "TAB", "none"}
    <3>1. CASE row \in NamedRows
      BY <1>9, <3>1 DEF NarrowKind, NamedRows
    <3>2. CASE row \notin PlainRows \cup NamedRows
      <4>1. kind \in {"ESC", "TAB", "none"}
        BY <1>9, <3>2 DEF NarrowKind
      <4> QED  BY <3>2, <4>1 DEF NamedRows
    <3> QED  BY <1>14, <3>1, <3>2
  <2>3. EffectIn(ms, ls, k) = Effect(<<kind, row, column>>, flags)
    BY <1>6, <1>8, <2>2
  <2>4. /\ row = 28 => EffectIn(ms, ls, k) = <<"newline", 0, 0>>
        /\ row = 14 => EffectIn(ms, ls, k) = <<"backspace", 0, 0>>
    BY <2>2, <2>3, Effects
  <2>5. row \notin {28, 14} => EffectIn(ms, ls, k) = None
    <3>1. kind \notin {"char", "ENTER", "BACKSPACE", "UP", "DOWN", "F"} =>
            Effect(<<kind, row, column>>, flags) = None
      BY Effects
    <3> QED  BY <2>2, <2>3, <3>1
  <2> QED  BY <1>14, <2>1, <2>4, <2>5 DEF NarrowEffect, PlainRows
<1> QED  BY <1>10, <1>11, <1>12, <1>13, <1>14 DEF PlainRows

\* What the code of a key of two bytes does.
LEMMA EffectWide ==
    ASSUME NEW row \in 0 .. 127, NEW k, k = <<E0, row>>, NEW ms, NEW ls
    PROVE  EffectIn(ms, ls, k) = WideEffect(row, Shifted(ms))
<1> DEFINE kind == keymap[row][2]
           flags == ModsAfter(ms, ls, k)
<1>1. Len(k) = 2 /\ k[2] = row /\ k[Len(k)] = row
  OBVIOUS
<1>2. k \notin LongCodes
  BY <1>1, LongAre DEF LongCodes
<1>3. Row(k) = row /\ Down(k)
  BY <1>1 DEF Row, Down, FLAG_BREAK
<1>4. ColumnIn(ms, ls, k) = 2 /\ KindIn(ms, ls, k) = kind
  BY <1>1, <1>3 DEF ColumnIn, KindIn
<1>5. EffectIn(ms, ls, k) = Effect(KeyIn(ms, ls, k), flags)
  BY <1>2, <1>3 DEF EffectIn
<1>6. flags = ms \cup FlagOf(kind)
  BY <1>2, <1>3, <1>4 DEF ModsAfter
<1>7. KeyIn(ms, ls, k) =
        CASE kind = "slash" -> <<"char", row, 0>>
          [] kind = "sign" -> <<"char", row, 1>>
          [] kind = "digit" -> IF "NUM_LOCK" \in ls THEN <<"char", row, 1>>
                               ELSE <<keymap[row][2], row, 2>>
          [] OTHER -> <<kind, row, 2>>
  BY <1>3, <1>4, Zenon DEF KeyIn
<1>8. /\ row = 28 => kind = "ENTER"
      /\ row = 53 => kind = "slash"
      /\ row = 72 => kind = "UP"
      /\ row = 80 => kind = "DOWN"
      /\ row \notin {28, 53, 72, 80} => kind \in {"CTRL_R", "ALT_R", "grey", "none"}
  <2>1. WideKind(row, kind)
    BY Wide
  <2> QED  BY <2>1 DEF WideKind
<1> HIDE DEF kind, flags
<1>9. kind \in {"UP", "DOWN"} => (Shifted(flags) <=> Shifted(ms))
  BY <1>6 DEF Shifted, FlagOf, FlagNames
<1>10. CASE row = 53
  <2>1. KeyIn(ms, ls, k) = <<"char", row, 0>>
    BY <1>7, <1>8, <1>10
  <2>2. EffectIn(ms, ls, k) = <<"put", row, 0>>
    BY <1>5, <2>1, Effects
  <2> QED  BY <1>10, <2>2 DEF WideEffect
<1>11. CASE row # 53
  <2>1. EffectIn(ms, ls, k) = Effect(<<kind, row, 2>>, flags)
    BY <1>5, <1>7, <1>8, <1>11
  <2>2. /\ row = 28 => EffectIn(ms, ls, k) = <<"newline", 0, 0>>
        /\ row = 72 => EffectIn(ms, ls, k) = IF Shifted(ms) THEN <<"SCR_DN", 0, 0>> ELSE None
        /\ row = 80 => EffectIn(ms, ls, k) = IF Shifted(ms) THEN <<"SCR_UP", 0, 0>> ELSE None
    BY <1>8, <1>9, <2>1, Effects
  <2>3. kind \notin {"char", "ENTER", "BACKSPACE", "UP", "DOWN", "F"} =>
          Effect(<<kind, row, 2>>, flags) = None
    BY Effects
  <2>4. row \notin {53, 28, 72, 80} => EffectIn(ms, ls, k) = None
    BY <1>8, <2>1, <2>3
  <2> QED  BY <1>11, <2>2, <2>4 DEF WideEffect
<1> QED  BY <1>10, <1>11

\* The driver has one flag for both Alt keys, so that no more than one of them
\* is in use.
OneAlt == ~(AltKeys \subseteq Keys)

\* A short code is its row, or E0 and its row.
LEMMA ShortIs ==
    ASSUME NEW k, OneByte(k) \/ TwoBytes(k)
    PROVE  /\ OneByte(k) => k = <<k[Len(k)]>> /\ Len(k) = 1
           /\ TwoBytes(k) => k = <<E0, k[Len(k)]>> /\ Len(k) = 2
           /\ k \notin LongCodes
<1>1. CASE OneByte(k)
  <2>1. k \in Seq(Bytes) /\ Len(k) = 1
    BY <1>1 DEF OneByte
  <2>2. k = <<k[1]>>
    BY <2>1
  <2>3. k \notin LongCodes
    <3>1. Len(k) = 1
      BY <2>1
    <3> QED  BY <3>1, LongAre DEF LongCodes
  <2> QED  BY <2>1, <2>2, <2>3 DEF TwoBytes
<1>2. CASE TwoBytes(k)
  <2>1. k \in Seq(Bytes) /\ Len(k) = 2 /\ k[1] = E0
    BY <1>2 DEF TwoBytes
  <2>2. k = <<k[1], k[2]>>
    BY <2>1
  <2>3. k \notin LongCodes
    <3>1. Len(k) = 2
      BY <2>1
    <3> QED  BY <3>1, LongAre DEF LongCodes
  <2> QED  BY <2>1, <2>2, <2>3 DEF OneByte
<1> QED  BY <1>1, <1>2

\* When flags and locks agree with the keys, a key that is pressed has the
\* effect that the user means.
LEMMA PressedEffect ==
    ASSUME CodesApart, NEW k \in Keys, NEW ms, NEW ls, Agrees(ms, ls, held, locks)
    PROVE  EffectIn(ms, ls, k) = Wanted(k)
<1>1. CASE k \in {PrintScreen, Pause}
  <2>1. k \in LongCodes
    BY <1>1 DEF LongCodes
  <2> QED  BY <2>1, WantedLong DEF EffectIn
<1>2. CASE k \notin {PrintScreen, Pause}
  <2>5. /\ Shifted(ms) = (held \cap ShiftKeys # {}) /\ ls = locks
        /\ ("ALT_L" \in ms) = (held \cap AltKeys # {})
    BY DEF Agrees, Shifted, ShiftKeys
  <2> DEFINE row == k[Len(k)]
  <2>1. (OneByte(k) \/ TwoBytes(k)) /\ row \in 0 .. 127
    BY <1>2, ShortKey
  <2>2. k = <<row>> \/ k = <<E0, row>>
    BY <2>1, ShortIs
  <2> HIDE DEF row
  <2>3. CASE k = <<row>>
    <3>1. EffectIn(ms, ls, k) = NarrowEffect(row, Shifted(ms), "CAPS_LOCK" \in ls,
                                             "NUM_LOCK" \in ls, "ALT_L" \in ms)
      BY <2>1, <2>3, EffectNarrow, Zenon
    <3>2. Wanted(k) = NarrowEffect(row, held \cap ShiftKeys # {}, "CAPS_LOCK" \in locks,
                                   "NUM_LOCK" \in locks, held \cap AltKeys # {})
      BY <2>1, <2>3, WantedNarrow, Zenon
    <3> QED  BY <2>5, <3>1, <3>2, Zenon
  <2>4. CASE k = <<E0, row>>
    <3>1. EffectIn(ms, ls, k) = WideEffect(row, Shifted(ms))
      BY <2>1, <2>4, EffectWide, Zenon
    <3>2. Wanted(k) = WideEffect(row, held \cap ShiftKeys # {})
      BY <2>1, <2>4, WantedWide, Zenon
    <3> QED  BY <2>5, <3>1, <3>2, Zenon
  <2> QED  BY <2>2, <2>3, <2>4
<1> QED  BY <1>1, <1>2

\* The flag a short code has to do with, by its row.
FlagBy(one, row) ==
    IF one
    THEN IF row = 42 THEN {"SHIFT_L"} ELSE IF row = 54 THEN {"SHIFT_R"}
         ELSE IF row = 29 THEN {"CTRL_L"} ELSE IF row = 56 THEN {"ALT_L"} ELSE {}
    ELSE IF row = 29 THEN {"CTRL_R"} ELSE IF row = 56 THEN {"ALT_L"} ELSE {}

LEMMA FlagOfCode ==
    ASSUME NEW k, OneByte(k) \/ TwoBytes(k), Row(k) \in 0 .. 127, NEW ms, NEW ls
    PROVE  FlagOf(KindIn(ms, ls, k)) = FlagBy(OneByte(k), Row(k))
<1> DEFINE row == Row(k)
           column == ColumnIn(ms, ls, k)
           kind == KindIn(ms, ls, k)
<1>1. kind = keymap[row][column]
  BY DEF KindIn
<1>2. CASE OneByte(k)
  <2>1. column \in {0, 1}
    BY <1>2 DEF ColumnIn, OneByte
  <2> HIDE DEF row, column, kind
  <2>2. row \in 0 .. 127
    BY DEF row
  <2> HIDE DEF row
  <2>8. NarrowKind(row, column, kind)
    BY <1>1, <2>1, <2>2, Narrow
  <2>3. /\ row = 29 => kind = "CTRL_L"
        /\ row = 42 => kind = "SHIFT_L"
        /\ row = 54 => kind = "SHIFT_R"
        /\ row = 56 => kind = "ALT_L"
    BY <2>8 DEF NarrowKind
  <2>4. row \in PlainRows => kind \in {"char", "F", "digit", "sign"}
    BY <2>8 DEF NarrowKind, PlainRows
  <2>5. row \in {14, 28, 58, 69, 70} =>
          kind \in {"BACKSPACE", "ENTER", "CAPS_LOCK", "NUM_LOCK", "SCROLL_LOCK"}
    BY <2>8 DEF NarrowKind
  <2>6. row \notin PlainRows \cup NamedRows => kind \in {"ESC", "TAB", "none"}
    BY <2>8 DEF NarrowKind
  <2>7. row \notin {29, 42, 54, 56} =>
          kind \in {"char", "F", "digit", "sign", "BACKSPACE", "ENTER", "CAPS_LOCK", "NUM_LOCK",
                    "SCROLL_LOCK", "ESC", "TAB", "none"}
    BY <2>4, <2>5, <2>6 DEF NamedRows
  <2> QED  BY <1>2, <2>3, <2>7 DEF FlagOf, FlagNames, FlagBy, row, kind
<1>3. CASE ~OneByte(k)
  <2>1. column = 2
    BY <1>3 DEF ColumnIn, TwoBytes
  <2> HIDE DEF row, column, kind
  <2>2. row \in 0 .. 127
    BY DEF row
  <2>3. /\ row = 29 => kind = "CTRL_R"
        /\ row = 56 => kind = "ALT_R"
        /\ row \notin {29, 56} => kind \in {"ENTER", "slash", "UP", "DOWN", "grey", "none"}
    <3>1. WideKind(row, kind)
      BY <1>1, <2>1, <2>2, Wide
    <3> QED  BY <3>1 DEF WideKind
  <2> QED  BY <1>3, <2>3 DEF FlagOf, FlagNames, FlagBy, row, kind
<1> QED  BY <1>2, <1>3

\* The lock a short code switches does not depend on flags and locks.
LEMMA LockOfCode ==
    ASSUME NEW k, OneByte(k) \/ TwoBytes(k), k[Len(k)] \in 0 .. 127, NEW ms, NEW ls
    PROVE  LockOf(KindIn(ms, ls, k)) = IF Len(k) = 1 THEN LockOf(keymap[k[1]][0]) ELSE {}
<1> DEFINE row == k[Len(k)]
           column == ColumnIn(ms, ls, k)
           kind == KindIn(ms, ls, k)
<1>1. Row(k) = row
  <2> HIDE DEF row
  <2>1. row \in 0 .. 127 => row % 128 = row
    OBVIOUS
  <2> QED  BY <2>1 DEF Row, FLAG_BREAK, row
<1>2. kind = keymap[row][column]
  BY <1>1 DEF KindIn
<1>3. CASE OneByte(k)
  <2>1. column \in {0, 1} /\ Len(k) = 1 /\ row = k[1]
    BY <1>3 DEF ColumnIn, OneByte
  <2> HIDE DEF row, column, kind
  <2>2. row \in 0 .. 127
    BY DEF row
  <2> DEFINE Kinds == {"CAPS_LOCK", "NUM_LOCK", "SCROLL_LOCK"}
  <2>3. ASSUME NEW r \in 0 .. 127, NEW c \in {0, 1}
        PROVE  /\ r = 58 => keymap[r][c] = "CAPS_LOCK"
               /\ r = 69 => keymap[r][c] = "NUM_LOCK"
               /\ r = 70 => keymap[r][c] = "SCROLL_LOCK"
               /\ r \notin {58, 69, 70} => keymap[r][c] \notin Kinds
    <3>1. NarrowKind(r, c, keymap[r][c])
      BY Narrow
    <3>2. r \in PlainRows => keymap[r][c] \in {"char", "F", "digit", "sign"}
      BY <3>1 DEF NarrowKind, PlainRows
    <3> QED  BY <3>1, <3>2 DEF NarrowKind, NamedRows
  <2>4. LockOf(kind) = LockOf(keymap[row][0])
    <3>1. LockOf(keymap[row][column]) = LockOf(keymap[row][0])
      <4>1. ASSUME NEW r \in 0 .. 127, NEW c \in {0, 1}
            PROVE  LockOf(keymap[r][c]) = LockOf(keymap[r][0])
        BY <2>3 DEF LockOf
      <4> QED  BY <2>1, <2>2, <4>1, Zenon
    <3> QED  BY <1>2, <3>1
  <2> QED  BY <2>1, <2>4 DEF kind
<1>4. CASE TwoBytes(k)
  <2>1. column = 2 /\ Len(k) = 2
    BY <1>4 DEF ColumnIn, TwoBytes
  <2> HIDE DEF row, column, kind
  <2>2. row \in 0 .. 127
    BY DEF row
  <2>3. kind \in {"CTRL_R", "ALT_R", "ENTER", "slash", "UP", "DOWN", "grey", "none"}
    <3>1. WideKind(row, kind)
      BY <1>2, <2>1, <2>2, Wide
    <3> QED  BY <3>1 DEF WideKind
  <2> QED  BY <2>1, <2>3 DEF LockOf, kind
<1> QED  BY <1>3, <1>4

\* The row of a short key, and of its code when it is released.
LEMMA ShortRow ==
    ASSUME NEW row \in 0 .. 127, NEW c, c[Len(c)] = row \/ c[Len(c)] = row + 128
    PROVE  Row(c) = row /\ (Down(c) <=> c[Len(c)] = row)
<1>1. row % 128 = row /\ (row + 128) % 128 = row /\ row < 128 /\ ~(row + 128 < 128)
  OBVIOUS
<1> QED  BY <1>1 DEF Row, Down, FLAG_BREAK

\* The flags and locks agree with the keys again behind the code of a key that
\* is pressed.
LEMMA PressedAgrees ==
    ASSUME CodesApart, NEW k \in Keys, NEW ms, NEW ls, NEW h, NEW l, Agrees(ms, ls, h, l)
    PROVE  Agrees(ModsAfter(ms, ls, k), LitAfter(ms, ls, k),
                  IF k = Pause THEN h ELSE h \cup {k},
                  IF Len(k) = 1 THEN Switched(l, keymap[k[1]][0]) ELSE l)
<1>1. CASE k \in {PrintScreen, Pause}
  <2>1. k \in LongCodes
    BY <1>1 DEF LongCodes
  <2>2. ModsAfter(ms, ls, k) = ms /\ LitAfter(ms, ls, k) = ls
    BY <2>1 DEF ModsAfter, LitAfter
  <2>3. Len(k) \in {4, 6}
    BY <1>1, LongAre
  <2>4. k \notin {<<42>>, <<54>>, <<29>>, <<E0, 29>>} \cup AltKeys
    BY <2>3 DEF AltKeys
  <2>5. Len(k) # 1
    BY <2>3
  <2> QED  BY <2>2, <2>4, <2>5 DEF Agrees
<1>2. CASE k \notin {PrintScreen, Pause}
  <2> DEFINE row == k[Len(k)]
             kind == KindIn(ms, ls, k)
  <2>1. (OneByte(k) \/ TwoBytes(k)) /\ row \in 0 .. 127
    BY <1>2, ShortKey
  <2>2. Row(k) = row /\ Down(k)
    BY <2>1, ShortRow
  <2>3. k \notin LongCodes
    BY <2>1, ShortIs
  <2>4. ModsAfter(ms, ls, k) = ms \cup FlagBy(OneByte(k), row)
    BY <2>1, <2>2, <2>3, FlagOfCode DEF ModsAfter
  <2>5. LitAfter(ms, ls, k) = Switched(ls, kind)
    BY <2>2, <2>3 DEF LitAfter
  <2>6. LockOf(kind) = IF Len(k) = 1 THEN LockOf(keymap[k[1]][0]) ELSE {}
    BY <2>1, LockOfCode
  <2>7. LitAfter(ms, ls, k) = IF Len(k) = 1 THEN Switched(l, keymap[k[1]][0]) ELSE l
    <3> HIDE DEF kind
    <3>1. ls = l
      BY DEF Agrees
    <3> QED  BY <2>5, <2>6, <3>1 DEF Switched
  <2>8. (OneByte(k) /\ k = <<row>>) \/ (~OneByte(k) /\ k = <<E0, row>>)
    BY <2>1, ShortIs
  <2> HIDE DEF row
  <2>9. LET m == ms \cup FlagBy(OneByte(k), row)
            held2 == h \cup {k}
        IN /\ "SHIFT_L" \in m <=> <<42>> \in held2
           /\ "SHIFT_R" \in m <=> <<54>> \in held2
           /\ "CTRL_L" \in m <=> <<29>> \in held2
           /\ "CTRL_R" \in m <=> <<E0, 29>> \in held2
           /\ "ALT_L" \in m <=> held2 \cap AltKeys # {}
    <3>1. CASE OneByte(k) /\ k = <<row>>
      BY <2>1, <3>1 DEF FlagBy, Agrees, AltKeys
    <3>2. CASE ~OneByte(k) /\ k = <<E0, row>>
      BY <2>1, <3>2 DEF FlagBy, Agrees, AltKeys
    <3> QED  BY <2>8, <3>1, <3>2
  <2> QED  BY <1>2, <2>4, <2>7, <2>9 DEF Agrees
<1> QED  BY <1>1, <1>2

\* The same of a key that is released, whose code has no effect.
LEMMA ReleasedAgrees ==
    ASSUME CodesApart, OneAlt, NEW h, h \subseteq Keys, NEW k \in h, k # Pause,
           NEW ms, NEW ls, NEW l, Agrees(ms, ls, h, l)
    PROVE  LET c == BreakCode(k)
           IN /\ EffectIn(ms, ls, c) = None
              /\ Agrees(ModsAfter(ms, ls, c), LitAfter(ms, ls, c), h \ {k}, l)
<1> DEFINE c == BreakCode(k)
<1>1. CASE k = PrintScreen
  <2>1. c \in LongCodes
    BY <1>1 DEF LongCodes, BreakCode
  <2>2. EffectIn(ms, ls, c) = None /\ ModsAfter(ms, ls, c) = ms /\ LitAfter(ms, ls, c) = ls
    BY <2>1 DEF ModsAfter, LitAfter, EffectIn
  <2>3. Len(k) = 4
    BY <1>1, LongAre
  <2>4. k \notin {<<42>>, <<54>>, <<29>>, <<E0, 29>>} \cup AltKeys
    BY <2>3 DEF AltKeys
  <2> QED  BY <2>2, <2>4 DEF Agrees
<1>2. CASE k # PrintScreen
  <2> DEFINE row == k[Len(k)]
  <2>1. k \in Keys /\ k \notin {PrintScreen, Pause}
    BY <1>2
  <2>2. /\ (OneByte(k) /\ OneByte(c)) \/ (TwoBytes(k) /\ TwoBytes(c))
        /\ row \in 0 .. 127 /\ c[Len(c)] = row + 128
    BY <2>1, ShortBreak
  <2> HIDE DEF c
  <2>3. Row(c) = row /\ ~Down(c)
    <3> HIDE DEF row
    <3>1. row + 128 # row
      BY <2>2
    <3> QED  BY <2>2, <3>1, ShortRow
  <2>4. c \notin LongCodes /\ OneByte(c) = OneByte(k)
    BY <2>2, ShortIs DEF OneByte, TwoBytes
  <2>5. ModsAfter(ms, ls, c) = ms \ FlagBy(OneByte(k), row)
    BY <2>2, <2>3, <2>4, FlagOfCode DEF ModsAfter
  <2>6. LitAfter(ms, ls, c) = ls /\ EffectIn(ms, ls, c) = None
    BY <2>3, <2>4 DEF LitAfter, EffectIn
  <2>7. (OneByte(k) /\ k = <<row>>) \/ (~OneByte(k) /\ k = <<E0, row>>)
    BY <2>2, ShortIs
  <2> HIDE DEF row
  <2>8. LET m == ms \ FlagBy(OneByte(k), row)
            held2 == h \ {k}
        IN /\ "SHIFT_L" \in m <=> <<42>> \in held2
           /\ "SHIFT_R" \in m <=> <<54>> \in held2
           /\ "CTRL_L" \in m <=> <<29>> \in held2
           /\ "CTRL_R" \in m <=> <<E0, 29>> \in held2
           /\ "ALT_L" \in m <=> held2 \cap AltKeys # {}
    <3>1. CASE OneByte(k) /\ k = <<row>>
      BY <2>2, <3>1 DEF FlagBy, Agrees, AltKeys, OneAlt
    <3>2. CASE ~OneByte(k) /\ k = <<E0, row>>
      BY <2>2, <3>2 DEF FlagBy, Agrees, AltKeys, OneAlt
    <3> QED  BY <2>7, <3>1, <3>2
  <2> QED  BY <2>5, <2>6, <2>8 DEF Agrees, c
<1> QED  BY <1>1, <1>2

\* A KB_ACK among the codes does nothing, and neither does the break code of
\* the same number.
LEMMA AckNothing ==
    ASSUME NEW c, OneByte(c) \/ TwoBytes(c), c[Len(c)] = KB_ACK, NEW ms, NEW ls
    PROVE  EffectIn(ms, ls, c) = None /\ ModsAfter(ms, ls, c) = ms /\ LitAfter(ms, ls, c) = ls
<1>1. c[Len(c)] = 122 + 128
  BY DEF KB_ACK
<1>2. Row(c) = 122 /\ ~Down(c)
  BY <1>1, ShortRow
<1>3. c \notin LongCodes
  BY ShortIs
<1>4. FlagOf(KindIn(ms, ls, c)) = {}
  BY <1>2, FlagOfCode DEF FlagBy
<1> QED  BY <1>2, <1>3, <1>4 DEF EffectIn, ModsAfter, LitAfter

----------------------------------------------------------------------------
(* What the codes on their way do, one behind the other.                   *)

\* Where the reader can stand in the codes: behind how many bytes and how many
\* effects, with which flags and locks.
Points == [at : Nat, seen : Nat, mods : SUBSET FlagNames, lit : SUBSET LockNames]

\* behind code c, which x stands in front of
Beyond(x, c) ==
    [at |-> x.at + Len(c),
     seen |-> IF EffectIn(x.mods, x.lit, c) = None THEN x.seen ELSE x.seen + 1,
     mods |-> ModsAfter(x.mods, x.lit, c), lit |-> LitAfter(x.mods, x.lit, c)]

\* the effect of c is the next one that is owed
Fits(x, c, o) ==
    EffectIn(x.mods, x.lit, c) # None =>
        x.seen < Len(o) /\ o[x.seen + 1] = EffectIn(x.mods, x.lit, c)

AtEnd(x, s, o, h, l) ==
    x.at = Len(s) /\ x.seen = Len(o) /\ Agrees(x.mods, x.lit, h, l)

Goes(x, s, o, way) == \E c \in Codes : StandsAt(c, s, x.at) /\ Fits(x, c, o) /\ Beyond(x, c) \in way

\* From any point of way the codes in s have the effects in o, and leave flags
\* and locks that agree with the keys h and the locks l.
Way(way, s, o, h, l) ==
    /\ way \subseteq Points
    /\ \A x \in way : x.at <= Len(s) /\ x.seen <= Len(o)
    /\ \A x \in way : AtEnd(x, s, o, h, l) \/ Goes(x, s, o, way)

Start(ms, ls) == [at |-> 0, seen |-> 0, mods |-> ms, lit |-> ls]

\* The codes in s do what was meant, for a driver with flags ms and locks ls.
Followed(ms, ls, s, o, h, l) == \E way : Start(ms, ls) \in way /\ Way(way, s, o, h, l)

EffectSet == {"put", "newline", "backspace", "SCR_DN", "SCR_UP", "select"}
                 \X (0 .. 127) \X {0, 1}

LEMMA BeyondPoint ==
    ASSUME CodesApart, NEW x \in Points, NEW c \in Codes
    PROVE  Beyond(x, c) \in Points
<1>1. ModsAfter(x.mods, x.lit, c) \in SUBSET FlagNames
  BY DEF Points, ModsAfter, FlagOf
<1>2. LitAfter(x.mods, x.lit, c) \in SUBSET LockNames
  BY DEF Points, LitAfter, Switched, LockOf, LockNames
<1>3. Len(c) \in Nat /\ x.at \in Nat /\ x.seen \in Nat
  BY CodesComplete DEF Points
<1> QED  BY <1>1, <1>2, <1>3 DEF Points, Beyond

\* One code more is sent, which does what was meant wherever flags and locks
\* agree with the keys.
LEMMA WayMore ==
    ASSUME CodesApart, NEW s \in Seq(Bytes), NEW o \in Seq(EffectSet), NEW c \in Codes,
           NEW e \in EffectSet \cup {None}, NEW h, NEW l, NEW h2, NEW l2, NEW ms, NEW ls,
           \A m, n : Agrees(m, n, h, l) =>
                       /\ EffectIn(m, n, c) = e
                       /\ Agrees(ModsAfter(m, n, c), LitAfter(m, n, c), h2, l2),
           Followed(ms, ls, s, o, h, l)
    PROVE  Followed(ms, ls, s \o c, IF e = None THEN o ELSE Append(o, e), h2, l2)
<1>1. PICK way : Start(ms, ls) \in way /\ Way(way, s, o, h, l)
  BY DEF Followed
<1> DEFINE s2 == s \o c
           o2 == IF e = None THEN o ELSE Append(o, e)
           ends == {x \in way : AtEnd(x, s, o, h, l)}
           way2 == way \cup {Beyond(x, c) : x \in ends}
<1>2. c \in Seq(Bytes) /\ Len(c) \in Nat \ {0}
  BY CodesComplete
<1>3. /\ s2 \in Seq(Bytes) /\ Len(s2) = Len(s) + Len(c)
      /\ \A i \in 1 .. Len(s) : s2[i] = s[i]
      /\ \A i \in 1 .. Len(c) : s2[Len(s) + i] = c[i]
  BY <1>2
<1>4. /\ o2 \in Seq(EffectSet) /\ Len(o2) = IF e = None THEN Len(o) ELSE Len(o) + 1
      /\ \A i \in 1 .. Len(o) : o2[i] = o[i]
      /\ e # None => o2[Len(o) + 1] = e
  BY DEF o2
<1> HIDE DEF s2, o2
<1>5. ASSUME NEW x \in ends
      PROVE  /\ Beyond(x, c) \in Points /\ AtEnd(Beyond(x, c), s2, o2, h2, l2)
             /\ Beyond(x, c).at <= Len(s2) /\ Beyond(x, c).seen <= Len(o2)
             /\ StandsAt(c, s2, x.at) /\ Fits(x, c, o2)
  <2>1. x \in Points /\ x.at = Len(s) /\ x.seen = Len(o) /\ Agrees(x.mods, x.lit, h, l)
    BY <1>1 DEF Way, AtEnd
  <2>2. /\ EffectIn(x.mods, x.lit, c) = e
        /\ Agrees(ModsAfter(x.mods, x.lit, c), LitAfter(x.mods, x.lit, c), h2, l2)
    BY <2>1
  <2>3. /\ Beyond(x, c).at = Len(s2) /\ Beyond(x, c).seen = Len(o2)
        /\ Beyond(x, c).mods = ModsAfter(x.mods, x.lit, c)
        /\ Beyond(x, c).lit = LitAfter(x.mods, x.lit, c)
    BY <1>3, <1>4, <2>1, <2>2 DEF Beyond
  <2>4. AtEnd(Beyond(x, c), s2, o2, h2, l2)
    BY <2>2, <2>3 DEF AtEnd
  <2>5. StandsAt(c, s2, x.at)
    BY <1>2, <1>3, <2>1 DEF StandsAt
  <2>6. Fits(x, c, o2)
    BY <1>4, <2>1, <2>2 DEF Fits
  <2> QED  BY <1>3, <1>4, <2>1, <2>3, <2>4, <2>5, <2>6, BeyondPoint
<1>6. ASSUME NEW x \in way
      PROVE  /\ x.at <= Len(s2) /\ x.seen <= Len(o2) /\ Goes(x, s2, o2, way2)
  <2>1. x \in Points /\ x.at \in Nat /\ x.seen \in Nat /\ x.at <= Len(s) /\ x.seen <= Len(o)
    BY <1>1 DEF Way, Points
  <2>2. x.at <= Len(s2) /\ x.seen <= Len(o2)
    BY <1>2, <1>3, <1>4, <2>1
  <2>3. CASE AtEnd(x, s, o, h, l)
    BY <1>5, <2>2, <2>3 DEF Goes
  <2>4. CASE Goes(x, s, o, way)
    <3>1. PICK d \in Codes : StandsAt(d, s, x.at) /\ Fits(x, d, o) /\ Beyond(x, d) \in way
      BY <2>4 DEF Goes
    <3>2. d \in Seq(Bytes)
      BY CodesComplete
    <3>3. StandsAt(d, s2, x.at)
      <4>1. ASSUME NEW i \in Nat, StandsAt(d, s, i)
            PROVE  StandsAt(d, s2, i)
        <5>1. i + Len(d) <= Len(s) /\ i + Len(d) <= Len(s2)
          BY <1>2, <1>3, <3>2, <4>1 DEF StandsAt
        <5>2. ASSUME NEW j \in 1 .. Len(d)
              PROVE  s2[i + j] = d[j]
          <6>1. s[i + j] = d[j] /\ i + j \in 1 .. Len(s)
            BY <3>2, <4>1, <5>1 DEF StandsAt
          <6> QED  BY <1>3, <6>1
        <5> QED  BY <5>1, <5>2 DEF StandsAt
      <4> QED  BY <2>1, <3>1, <4>1
    <3>4. Fits(x, d, o2)
      BY <1>4, <2>1, <3>1 DEF Fits
    <3> QED  BY <2>2, <3>1, <3>3, <3>4 DEF Goes
  <2> QED  BY <1>1, <2>3, <2>4 DEF Way
<1>7. Way(way2, s2, o2, h2, l2)
  <2>1. way2 \subseteq Points
    BY <1>1, <1>5 DEF Way
  <2>2. ASSUME NEW x \in way2
        PROVE  /\ x.at <= Len(s2) /\ x.seen <= Len(o2)
               /\ AtEnd(x, s2, o2, h2, l2) \/ Goes(x, s2, o2, way2)
    <3>1. CASE x \in way
      <4> HIDE DEF way2
      <4> QED  BY <1>6, <3>1
    <3>2. CASE \E y \in ends : x = Beyond(y, c)
      <4> HIDE DEF way2, ends
      <4> QED  BY <1>5, <3>2
    <3> QED  BY <3>1, <3>2
  <2> HIDE DEF way2
  <2> QED  BY <2>1, <2>2 DEF Way
<1>8. Start(ms, ls) \in way2
  BY <1>1
<1> QED
  <2> HIDE DEF way2
  <2>1. Followed(ms, ls, s2, o2, h2, l2)
    BY <1>7, <1>8 DEF Followed
  <2> QED  BY <2>1 DEF s2, o2

\* The first code is dealt with.
LEMMA WayLess ==
    ASSUME CodesApart, NEW b \in Seq(Bytes), NEW byte \in Bytes, NEW t \in Seq(Bytes),
           b = <<>> \/ b \in Begun, Append(b, byte) \notin Begun,
           NEW o \in Seq(EffectSet), NEW h, NEW l, NEW ms, NEW ls,
           Followed(ms, ls, Append(b, byte) \o t, o, h, l)
    PROVE  LET c == Append(b, byte)
               e == EffectIn(ms, ls, c)
           IN /\ c \in Codes
              /\ e # None => o # <<>> /\ Head(o) = e
              /\ Followed(ModsAfter(ms, ls, c), LitAfter(ms, ls, c), t,
                          IF e = None THEN o ELSE Tail(o), h, l)
<1> DEFINE c == Append(b, byte)
           e == EffectIn(ms, ls, c)
           s == c \o t
           o2 == IF e = None THEN o ELSE Tail(o)
           one == IF e = None THEN 0 ELSE 1
<1>1. PICK way : Start(ms, ls) \in way /\ Way(way, s, o, h, l)
  BY DEF Followed
<1>2. c \in Seq(Bytes) /\ Len(c) = Len(b) + 1 /\ Len(c) \in Nat \ {0}
  OBVIOUS
<1> HIDE DEF c
<1>3. /\ s \in Seq(Bytes) /\ Len(s) = Len(c) + Len(t)
      /\ \A i \in 1 .. Len(t) : s[Len(c) + i] = t[i]
  <2> HIDE DEF e, o2, one
  <2>1. s \in Seq(Bytes) /\ Len(s) = Len(c) + Len(t)
    BY <1>2, ConcatProperties, Zenon
  <2>2. ASSUME NEW i \in 1 .. Len(t)
        PROVE  s[Len(c) + i] = t[i]
    BY <1>2
  <2> QED  BY <2>1, <2>2
<1> HIDE DEF s, e
<1>4. PICK d \in Codes : /\ StandsAt(d, s, 0) /\ Fits(Start(ms, ls), d, o)
                         /\ Beyond(Start(ms, ls), d) \in way
  <2>1. Start(ms, ls).at = 0
    BY DEF Start
  <2>2. Start(ms, ls).at # Len(s)
    BY <1>2, <1>3, <2>1
  <2>3. Goes(Start(ms, ls), s, o, way)
    BY <1>1, <2>2 DEF Way, AtEnd
  <2> QED  BY <2>1, <2>3 DEF Goes
<1>5. d = c
  BY <1>4, ReadRight DEF s, c
<1>6. e # None => Len(o) > 0 /\ o[1] = e
  BY <1>4, <1>5 DEF Fits, Start, e
<1>7. e # None => o # <<>> /\ Head(o) = e
  BY <1>6
<1>8. /\ o2 \in Seq(EffectSet) /\ Len(o2) + one = Len(o) /\ one \in {0, 1}
      /\ \A i \in 1 .. Len(o2) : o2[i] = o[i + one]
  BY <1>6
<1> HIDE DEF o2, one
<1> DEFINE Shift(y) == [at |-> y.at + Len(c), seen |-> y.seen + one, mods |-> y.mods, lit |-> y.lit]
           way2 == {y \in Points : Shift(y) \in way}
<1>9. Start(ModsAfter(ms, ls, c), LitAfter(ms, ls, c)) \in way2
  <2> DEFINE x == Beyond(Start(ms, ls), c)
             y == Start(ModsAfter(ms, ls, c), LitAfter(ms, ls, c))
  <2>1. x \in way /\ x \in Points
    BY <1>1, <1>4, <1>5 DEF Way
  <2>2. x = [at |-> Len(c), seen |-> one, mods |-> ModsAfter(ms, ls, c),
             lit |-> LitAfter(ms, ls, c)]
    BY <1>2 DEF Beyond, Start, e, one
  <2>3. y \in Points
    BY <2>1, <2>2 DEF Points, Start
  <2>4. Shift(y) = x
    BY <1>2, <1>8, <2>2 DEF Start
  <2> QED  BY <2>1, <2>3, <2>4
<1>10. ASSUME NEW y \in way2
       PROVE  /\ y.at <= Len(t) /\ y.seen <= Len(o2)
              /\ AtEnd(y, t, o2, h, l) \/ Goes(y, t, o2, way2)
  <2> DEFINE x == Shift(y)
  <2>1. y \in Points /\ y.at \in Nat /\ y.seen \in Nat /\ x \in way
    BY DEF Points
  <2>2. x.at = y.at + Len(c) /\ x.seen = y.seen + one /\ x.mods = y.mods /\ x.lit = y.lit
    OBVIOUS
  <2> HIDE DEF x, way2
  <2>3. x.at <= Len(s) /\ x.seen <= Len(o)
    BY <1>1, <2>1 DEF Way
  <2>4. y.at <= Len(t) /\ y.seen <= Len(o2)
    BY <1>2, <1>3, <1>8, <2>1, <2>2, <2>3
  <2>5. CASE AtEnd(x, s, o, h, l)
    <3>1. AtEnd(y, t, o2, h, l)
      BY <1>2, <1>3, <1>8, <2>1, <2>2, <2>5 DEF AtEnd
    <3> QED  BY <2>4, <3>1
  <2>6. CASE Goes(x, s, o, way)
    <3>1. PICK f \in Codes : StandsAt(f, s, x.at) /\ Fits(x, f, o) /\ Beyond(x, f) \in way
      BY <2>6 DEF Goes
    <3>2. f \in Seq(Bytes) /\ Len(f) \in Nat
      BY CodesComplete
    <3>3. StandsAt(f, t, y.at)
      <4>1. ASSUME NEW n \in Nat, StandsAt(f, s, n + Len(c))
            PROVE  StandsAt(f, t, n)
        <5>1. n + Len(f) <= Len(t)
          BY <1>2, <1>3, <3>2, <4>1 DEF StandsAt
        <5>2. ASSUME NEW i \in 1 .. Len(f)
              PROVE  t[n + i] = f[i]
          <6>1. s[n + Len(c) + i] = f[i]
            BY <4>1 DEF StandsAt
          <6>2. n + i \in 1 .. Len(t) /\ n + Len(c) + i = Len(c) + (n + i)
            BY <1>2, <3>2, <5>1
          <6> QED  BY <1>3, <6>1, <6>2
        <5> QED  BY <5>1, <5>2 DEF StandsAt
      <4> QED  BY <2>1, <2>2, <3>1, <4>1
    <3>4. Fits(y, f, o2)
      <4> SUFFICES ASSUME EffectIn(y.mods, y.lit, f) # None
                   PROVE  y.seen < Len(o2) /\ o2[y.seen + 1] = EffectIn(y.mods, y.lit, f)
        BY DEF Fits
      <4>1. x.seen < Len(o) /\ o[x.seen + 1] = EffectIn(y.mods, y.lit, f)
        BY <2>2, <3>1 DEF Fits
      <4> DEFINE n == y.seen
      <4>2. n \in Nat /\ n + one < Len(o) /\ o[n + one + 1] = EffectIn(y.mods, y.lit, f)
        BY <2>1, <2>2, <4>1
      <4> HIDE DEF n
      <4>3. Len(o) \in Nat /\ Len(o2) \in Nat /\ Len(o2) + one = Len(o) /\ one \in {0, 1}
        BY <1>8
      <4>4. n < Len(o2) /\ n + 1 \in 1 .. Len(o2) /\ n + one + 1 = n + 1 + one
        BY <4>2, <4>3
      <4>5. o2[n + 1] = EffectIn(y.mods, y.lit, f)
        BY <1>8, <4>2, <4>4
      <4> QED  BY <4>4, <4>5 DEF n
    <3>5. Beyond(y, f) \in way2
      <4>1. Beyond(y, f) \in Points
        BY <2>1, BeyondPoint
      <4>2. Shift(Beyond(y, f)) = Beyond(x, f)
        BY <1>2, <1>8, <2>1, <2>2, <3>2 DEF Beyond
      <4> QED  BY <3>1, <4>1, <4>2 DEF way2
    <3> QED  BY <2>4, <3>3, <3>4, <3>5 DEF Goes
  <2> QED  BY <1>1, <2>1, <2>5, <2>6 DEF Way
<1>11. Followed(ModsAfter(ms, ls, c), LitAfter(ms, ls, c), t, o2, h, l)
  <2>1. way2 \subseteq Points
    OBVIOUS
  <2> HIDE DEF way2
  <2> QED  BY <1>9, <1>10, <2>1 DEF Way, Followed
<1> QED  BY <1>4, <1>5, <1>7, <1>11 DEF c, e, o2

\* Nothing is on its way.
LEMMA WayEmpty ==
    ASSUME CodesApart, NEW o \in Seq(EffectSet), NEW h, NEW l, NEW ms, NEW ls,
           Followed(ms, ls, <<>>, o, h, l)
    PROVE  o = <<>> /\ Agrees(ms, ls, h, l)
<1>1. PICK way : Start(ms, ls) \in way /\ Way(way, <<>>, o, h, l)
  BY DEF Followed
<1>2. ~Goes(Start(ms, ls), <<>>, o, way)
  <2> SUFFICES ASSUME NEW c \in Codes, StandsAt(c, <<>>, Start(ms, ls).at)
               PROVE  FALSE
    BY DEF Goes
  <2>1. c \in Seq(Bytes) /\ c # <<>>
    BY CodesComplete
  <2> QED  BY <2>1 DEF StandsAt, Start
<1>3. AtEnd(Start(ms, ls), <<>>, o, h, l)
  BY <1>1, <1>2 DEF Way
<1> QED  BY <1>3 DEF AtEnd, Start

\* Nothing has been sent.
LEMMA WayBegins ==
    ASSUME NEW ms \in SUBSET FlagNames, NEW ls \in SUBSET LockNames, NEW h, NEW l,
           Agrees(ms, ls, h, l)
    PROVE  Followed(ms, ls, <<>>, <<>>, h, l)
<1> DEFINE x == Start(ms, ls)
<1>1. x \in Points /\ x.at = 0 /\ x.seen = 0 /\ AtEnd(x, <<>>, <<>>, h, l)
  BY DEF Start, Points, AtEnd
<1> HIDE DEF x
<1>2. Way({x}, <<>>, <<>>, h, l)
  BY <1>1 DEF Way
<1> QED  BY <1>2 DEF Followed, x

----------------------------------------------------------------------------
(* Every key has its effect. *)

Follows ==
    /\ mods \in SUBSET FlagNames /\ lit \in SUBSET LockNames /\ locks \in SUBSET LockNames
    /\ owed \in Seq(EffectSet)
    /\ pc \in Early \cup {"flags"} => mods = {} /\ lit = {"NUM_LOCK"}
    /\ ~lost /\ ~stale => agree /\ Followed(mods, lit, Stream, owed, held, locks)

LEMMA WantedType ==
    ASSUME CodesApart, NEW k \in Keys
    PROVE  Wanted(k) \in EffectSet \cup {None}
<1>1. CASE k \in {PrintScreen, Pause}
  <2>1. k \in LongCodes
    BY <1>1 DEF LongCodes
  <2> QED  BY <2>1, WantedLong
<1>2. CASE k \notin {PrintScreen, Pause}
  <2> DEFINE row == k[Len(k)]
  <2>1. (OneByte(k) \/ TwoBytes(k)) /\ row \in 0 .. 127
    BY <1>2, ShortKey
  <2>2. k = <<row>> \/ k = <<E0, row>>
    BY <2>1, ShortIs
  <2> HIDE DEF row
  <2>3. CASE k = <<row>>
    <3>1. Wanted(k) = NarrowEffect(row, held \cap ShiftKeys # {}, "CAPS_LOCK" \in locks,
                                   "NUM_LOCK" \in locks, held \cap AltKeys # {})
      BY <2>1, <2>3, WantedNarrow, Zenon
    <3>2. \A a, b, c, d : NarrowEffect(row, a, b, c, d) \in EffectSet \cup {None}
      BY <2>1 DEF NarrowEffect, EffectSet
    <3> QED  BY <3>1, <3>2, Zenon
  <2>4. CASE k = <<E0, row>>
    <3>1. Wanted(k) = WideEffect(row, held \cap ShiftKeys # {})
      BY <2>1, <2>4, WantedWide, Zenon
    <3>2. \A a : WideEffect(row, a) \in EffectSet \cup {None}
      BY <2>1 DEF WideEffect, EffectSet
    <3> QED  BY <3>1, <3>2, Zenon
  <2> QED  BY <2>2, <2>3, <2>4
<1> QED  BY <1>1, <1>2

\* What keyboard_read does with a short code, in the terms above.
LEMMA DecodeDoes ==
    ASSUME NEW c, OneByte(c) \/ TwoBytes(c), NEW e0 \in BOOLEAN, e0 <=> Len(c) = 2,
           Decode(c[Len(c)], e0)
    PROVE  LET e == EffectIn(mods, lit, c)
           IN /\ mods' = ModsAfter(mods, lit, c) /\ lit' = LitAfter(mods, lit, c)
              /\ lost' = lost /\ stale' = stale
              /\ IF e = None \/ lost \/ stale THEN owed' = owed /\ agree' = agree
                 ELSE /\ agree' = (agree /\ owed # <<>> /\ Head(owed) = e)
                      /\ owed' = IF owed = <<>> THEN owed ELSE Tail(owed)
<1> DEFINE row == c[Len(c)] % FLAG_BREAK
           down == c[Len(c)] < FLAG_BREAK
           column == Column(row, e0)
           kind == keymap[row][column]
           effect == IF down THEN Effect(Translated(kind, row, column), mods') ELSE None
<1>1. /\ mods' = Flags(kind, down)
      /\ lit' = IF down THEN Switched(lit, kind) ELSE lit
      /\ Hand(effect)
      /\ lost' = lost /\ stale' = stale
  BY DEF Decode
<1>2. row = Row(c) /\ down = Down(c)
  BY DEF Row, Down
<1>3. column = ColumnIn(mods, lit, c)
  BY <1>2 DEF Column, ColumnIn, Shifted
<1>4. kind = KindIn(mods, lit, c)
  BY <1>2, <1>3 DEF KindIn
<1>5. Translated(kind, row, column) = KeyIn(mods, lit, c)
  BY <1>2, <1>3, <1>4 DEF Translated, KeyIn
<1>6. c \notin LongCodes
  BY ShortIs
<1> HIDE DEF row, down, column, kind
<1>7. mods' = ModsAfter(mods, lit, c)
  BY <1>1, <1>2, <1>4, <1>6 DEF Flags, ModsAfter, FlagOf, FlagNames
<1>8. lit' = LitAfter(mods, lit, c)
  BY <1>1, <1>2, <1>4, <1>6 DEF LitAfter
<1>9. effect = EffectIn(mods, lit, c)
  BY <1>2, <1>5, <1>6, <1>7 DEF EffectIn
<1> HIDE DEF effect
<1> QED  BY <1>1, <1>7, <1>8, <1>9 DEF Hand

LEMMA InitFollows == Init => Follows
<1> SUFFICES ASSUME Init PROVE Follows
  OBVIOUS
<1>1. Stream = <<>> /\ Agrees(mods, lit, held, locks)
  BY DEF Init, Stream, Agrees
<1>2. mods \in SUBSET FlagNames /\ lit \in SUBSET LockNames
  BY DEF Init, LockNames
<1>3. Followed(mods, lit, <<>>, <<>>, held, locks)
  BY <1>1, <1>2, WayBegins
<1> QED  BY <1>1, <1>2, <1>3 DEF Init, Follows, LockNames

LEMMA PressFollows ==
    ASSUME CodesApart, IInv, Follows, NEW k \in Keys, Press(k)
    PROVE  Follows'
<1> DEFINE h2 == IF k = Pause THEN held ELSE held \cup {k}
           l2 == IF Len(k) = 1 THEN Switched(locks, keymap[k[1]][0]) ELSE locks
           o2 == IF Wanted(k) = None THEN owed ELSE Append(owed, Wanted(k))
<1>1. /\ wire = <<>> /\ wire' = k /\ ~lost /\ ~stale
      /\ held' = h2 /\ locks' = l2 /\ owed' = o2
      /\ UNCHANGED <<code, fifo, pc, mods, lit, agree, lost, stale>>
  BY DEF Press, Quiet, ringVars, readVars
<1>2. k \in Codes /\ k \in Seq(Bytes) /\ Stream \in Seq(Bytes)
  BY CodesComplete DEF Codes, IInv, TypeOK, Stream
<1>3. Stream' = Stream \o k
  BY <1>1, <1>2, Sent DEF IInv
<1>4. Wanted(k) \in EffectSet \cup {None} /\ owed \in Seq(EffectSet)
  BY WantedType DEF Follows
<1>5. ASSUME NEW m, NEW n, Agrees(m, n, held, locks)
      PROVE  /\ EffectIn(m, n, k) = Wanted(k)
             /\ Agrees(ModsAfter(m, n, k), LitAfter(m, n, k), h2, l2)
  BY <1>5, PressedEffect, PressedAgrees
<1>6. agree /\ Followed(mods, lit, Stream, owed, held, locks)
  BY <1>1 DEF Follows
<1> HIDE DEF h2, l2
<1>7. Followed(mods, lit, Stream \o k, o2, h2, l2)
  BY <1>2, <1>4, <1>5, <1>6, WayMore
<1>8. locks' \in SUBSET LockNames
  BY <1>1 DEF l2, Follows, Switched, LockOf, LockNames
<1>9. owed' \in Seq(EffectSet)
  BY <1>1, <1>4
<1> QED  BY <1>1, <1>3, <1>6, <1>7, <1>8, <1>9 DEF Follows

LEMMA ReleaseFollows ==
    ASSUME CodesApart, OneAlt, IInv, Follows, NEW k \in Keys, Release(k)
    PROVE  Follows'
<1> DEFINE c == BreakCode(k)
           h2 == held \ {k}
<1>1. /\ wire = <<>> /\ wire' = c /\ ~lost /\ ~stale
      /\ held' = h2 /\ k \in held /\ k # Pause
      /\ UNCHANGED <<code, fifo, pc, mods, lit, locks, owed, agree, lost, stale>>
  BY DEF Release, Quiet, ringVars, readVars, historyVars, IInv, Releasable
<1>2. c \in Codes
  BY <1>1 DEF Codes
<1>3. c \in Seq(Bytes) /\ Stream \in Seq(Bytes)
  BY <1>2, CodesComplete DEF IInv, TypeOK, Stream
<1>4. Stream' = Stream \o c
  BY <1>1, <1>3, Sent DEF IInv
<1>5. owed \in Seq(EffectSet) /\ held \subseteq Keys
  BY DEF Follows, IInv, TypeOK
<1>6. ASSUME NEW m, NEW n, Agrees(m, n, held, locks)
      PROVE  /\ EffectIn(m, n, c) = None
             /\ Agrees(ModsAfter(m, n, c), LitAfter(m, n, c), h2, locks)
  BY <1>1, <1>5, <1>6, ReleasedAgrees
<1>7. agree /\ Followed(mods, lit, Stream, owed, held, locks)
  BY <1>1 DEF Follows
<1> HIDE DEF c, h2
<1>8. Followed(mods, lit, Stream \o c, owed, h2, locks)
  <2>1. None \in EffectSet \cup {None}
    OBVIOUS
  <2>2. Followed(mods, lit, Stream \o c, IF None = None THEN owed ELSE Append(owed, None), h2,
                 locks)
    BY <1>2, <1>3, <1>5, <1>6, <1>7, <2>1, WayMore, Zenon
  <2> QED  BY <2>2
<1> QED  BY <1>1, <1>4, <1>7, <1>8 DEF Follows

LEMMA AckFollows ==
    ASSUME CodesApart, IInv, Follows, Ack
    PROVE  Follows'
<1> DEFINE c == <<KB_ACK>>
<1>1. UNCHANGED <<pc, mods, lit, held, locks, owed, agree, lost, stale>>
  BY DEF Ack, userVars, historyVars
<1>2. Stream' = Stream \/ Stream' = Stream \o c
  BY AckSent DEF IInv
<1>3. c \in Codes /\ Stream \in Seq(Bytes) /\ owed \in Seq(EffectSet)
  BY DEF Codes, IInv, TypeOK, Stream, Follows
<1>4. OneByte(c) /\ c[Len(c)] = KB_ACK
  BY DEF OneByte, KB_ACK, Bytes, E0, E1
<1> HIDE DEF c
<1>5. ASSUME NEW m, NEW n, Agrees(m, n, held, locks)
      PROVE  /\ EffectIn(m, n, c) = None
             /\ Agrees(ModsAfter(m, n, c), LitAfter(m, n, c), held, locks)
  BY <1>4, <1>5, AckNothing
<1>6. ASSUME ~lost, ~stale
      PROVE  Followed(mods, lit, Stream \o c, owed, held, locks)
  <2>1. None \in EffectSet \cup {None} /\ Followed(mods, lit, Stream, owed, held, locks)
    BY <1>6 DEF Follows
  <2>2. Followed(mods, lit, Stream \o c, IF None = None THEN owed ELSE Append(owed, None), held,
                 locks)
    BY <1>3, <1>5, <2>1, WayMore, Zenon
  <2> QED  BY <2>2
<1> QED  BY <1>1, <1>2, <1>6 DEF Follows

LEMMA ReadFollows ==
    ASSUME CodesApart, IInv, InCodes, Follows, ReadByte
    PROVE  Follows'
<1> DEFINE c == Append(code, Head(fifo))
           e == EffectIn(mods, lit, c)
           e0 == code # <<>> /\ code[Len(code)] = E0
           scan == IF c[1] = E1 THEN E1 ELSE Head(fifo)
           t == Tail(fifo) \o wire
<1>1. fifo # <<>> /\ fifo' = Tail(fifo) /\ wire' = wire
  BY ReadByteIs, Zenon
<1>2. IF c \in Begun THEN code' = c /\ UNCHANGED <<key, make, mods, lit, leds, historyVars>>
      ELSE CASE c = Pause -> Special("PAUSEBREAK", make)
             [] c = PrintScreen -> Special("PRINTSCREEN", TRUE)
             [] c = PrintScreenBreak -> Special("PRINTSCREEN", FALSE)
             [] OTHER -> IF key # "other" THEN Ignore(scan) ELSE Decode(scan, e0)
  BY ReadByteIs, Zenon
<1>3. UNCHANGED <<held, locks>> /\ pc = "read" /\ pc' = "read"
  BY DEF ReadByte, userVars
<1>4. /\ code \in Seq(Bytes) /\ Head(fifo) \in Bytes /\ Tail(fifo) \in Seq(Bytes)
      /\ wire \in Seq(Bytes) /\ owed \in Seq(EffectSet) /\ c \in Seq(Bytes)
      /\ code = <<>> \/ code \in Begun
      /\ c[Len(c)] = Head(fifo) /\ Len(c) = Len(code) + 1
      /\ \A i \in 1 .. Len(code) : c[i] = code[i]
  BY <1>1 DEF IInv, TypeOK, Follows, InCodes
<1>5. t \in Seq(Bytes) /\ c \o t = Stream
  <2>1. t \in Seq(Bytes)
    BY <1>4
  <2>2. c \o t = Stream
    BY <1>1, StreamSame, Zenon DEF IInv
  <2> QED  BY <2>1, <2>2
<1> HIDE DEF t
<1>6. CASE c \in Begun
  <2>1. code' = c /\ UNCHANGED <<mods, lit, owed, agree, lost, stale>>
    BY <1>2, <1>6 DEF historyVars
  <2>2. Stream' = Stream
    <3>1. Stream' = c \o Tail(fifo) \o wire
      BY <1>1, <2>1 DEF Stream
    <3> HIDE DEF c
    <3>2. c \o Tail(fifo) \o wire = c \o (Tail(fifo) \o wire)
      BY <1>4, Assoc, ZenonT(40)
    <3> QED  BY <1>5, <3>1, <3>2 DEF t
  <2> QED  BY <1>3, <2>1, <2>2 DEF Follows
<1>7. CASE c \notin Begun
  <2> HIDE DEF e0, scan
  <2>1. ASSUME code' = <<>>
        PROVE  Stream' = t
    BY <1>1, <1>4, <2>1 DEF Stream, t
  <2>2. ASSUME ~lost, ~stale
        PROVE  /\ c \in Codes /\ agree
               /\ e # None => owed # <<>> /\ Head(owed) = e
               /\ Followed(ModsAfter(mods, lit, c), LitAfter(mods, lit, c), t,
                           IF e = None THEN owed ELSE Tail(owed), held, locks)
    <3>1. agree /\ Followed(mods, lit, c \o t, owed, held, locks)
      BY <1>5, <2>2 DEF Follows
    <3>2. /\ c \in Codes
          /\ e # None => owed # <<>> /\ Head(owed) = e
          /\ Followed(ModsAfter(mods, lit, c), LitAfter(mods, lit, c), t,
                      IF e = None THEN owed ELSE Tail(owed), held, locks)
      BY <1>4, <1>5, <1>7, <3>1, WayLess
    <3> QED  BY <3>1, <3>2
  <2> HIDE DEF c
  <2>3. CASE c \in LongCodes
    <3>1. code' = <<>> /\ UNCHANGED <<mods, lit, owed, agree, lost, stale>>
      <4>1. \E name, down : Special(name, down)
        BY <1>2, <1>7, <2>3 DEF LongCodes
      <4> QED  BY <4>1 DEF Special, historyVars
    <3>2. ModsAfter(mods, lit, c) = mods /\ LitAfter(mods, lit, c) = lit /\ e = None
      BY <2>3 DEF ModsAfter, LitAfter, EffectIn
    <3> QED  BY <1>3, <2>1, <2>2, <3>1, <3>2 DEF Follows
  <2>4. CASE c \notin LongCodes /\ key # "other"
    <3>1. Ignore(scan)
      BY <1>2, <1>7, <2>4 DEF LongCodes
    <3>2. /\ code' = <<>> /\ stale' = (stale \/ scan # KB_ACK)
          /\ UNCHANGED <<mods, lit, owed, agree, lost>>
      BY <3>1 DEF Ignore
    <3>3. ASSUME ~lost', ~stale'
          PROVE  agree /\ Followed(mods, lit, t, owed, held, locks)
      <4>1. ~lost /\ ~stale /\ scan = KB_ACK
        BY <3>2, <3>3
      <4>2. OneByte(c) \/ TwoBytes(c)
        BY <2>2, <2>4, <4>1, CodeSorts
      <4>3. c[Len(c)] = KB_ACK
        BY <1>4, <4>1 DEF scan, KB_ACK, E1
      <4>4. e = None /\ ModsAfter(mods, lit, c) = mods /\ LitAfter(mods, lit, c) = lit
        BY <4>2, <4>3, AckNothing
      <4> QED  BY <2>2, <4>1, <4>4
    <3> QED  BY <1>3, <2>1, <3>2, <3>3 DEF Follows
  <2>5. CASE c \notin LongCodes /\ key = "other"
    <3>1. Decode(scan, e0)
      BY <1>2, <1>7, <2>5 DEF LongCodes
    <3>2. CASE lost \/ stale
      <4>1. /\ mods' \in SUBSET FlagNames /\ lit' \in SUBSET LockNames
            /\ UNCHANGED <<owed, agree, lost, stale>>
        BY <3>1, <3>2 DEF Decode, Hand, Flags, Switched, LockOf, Follows, FlagNames, LockNames
      <4> QED  BY <1>3, <3>2, <4>1 DEF Follows, Early
    <3>3. CASE ~lost /\ ~stale
      <4>1. OneByte(c) \/ TwoBytes(c)
        BY <2>2, <2>5, <3>3, CodeSorts
      <4>2. scan = c[Len(c)]
        BY <1>4, <4>1 DEF scan, OneByte, TwoBytes, E0, E1
      <4>3. e0 \in BOOLEAN /\ (e0 <=> Len(c) = 2)
        <5>1. CASE OneByte(c)
          BY <1>4, <5>1 DEF OneByte, e0
        <5>2. CASE TwoBytes(c)
          BY <1>4, <5>2 DEF TwoBytes, e0
        <5> QED  BY <4>1, <5>1, <5>2
      <4>4. /\ mods' = ModsAfter(mods, lit, c) /\ lit' = LitAfter(mods, lit, c)
            /\ lost' = lost /\ stale' = stale
            /\ IF e = None \/ lost \/ stale THEN owed' = owed /\ agree' = agree
               ELSE /\ agree' = (agree /\ owed # <<>> /\ Head(owed) = e)
                    /\ owed' = IF owed = <<>> THEN owed ELSE Tail(owed)
        BY <3>1, <4>1, <4>2, <4>3, DecodeDoes
      <4>5. agree' /\ owed' = IF e = None THEN owed ELSE Tail(owed)
        BY <2>2, <3>3, <4>4
      <4>6. code' = <<>>
        BY <3>1 DEF Decode
      <4>7. owed' \in Seq(EffectSet)
        BY <1>4, <2>2, <3>3, <4>5
      <4>8. mods' \in SUBSET FlagNames /\ lit' \in SUBSET LockNames
        BY <4>4 DEF ModsAfter, LitAfter, FlagOf, Switched, LockOf, LockNames, Follows
      <4>9. Followed(mods', lit', Stream', owed', held', locks')
        BY <1>3, <2>1, <2>2, <3>3, <4>4, <4>5, <4>6
      <4> QED  BY <1>3, <4>5, <4>7, <4>8, <4>9 DEF Follows, Early
    <3> QED  BY <3>2, <3>3
  <2> QED  BY <2>3, <2>4, <2>5
<1> QED  BY <1>6, <1>7

LEMMA StepFollows ==
    ASSUME CodesApart, OneAlt, ~EarlyKeys, IInv, InCodes, Follows, [Next]_vars
    PROVE  Follows'
<1>1. ASSUME NEW k \in Keys, Press(k) PROVE Follows'
  BY <1>1, PressFollows
<1>2. ASSUME NEW k \in Keys, Release(k) PROVE Follows'
  BY <1>2, ReleaseFollows
<1>3. CASE KeyByte
  <2>1. UNCHANGED <<pc, mods, lit, held, locks, owed, agree, stale>>
    BY <1>3 DEF KeyByte, userVars
  <2>2. ~lost' => ~lost /\ Stream' = Stream
    BY <1>3, Arrived DEF IInv
  <2> QED  BY <2>1, <2>2 DEF Follows
<1>4. CASE Ack
  BY <1>4, AckFollows
<1>5. CASE init_keyboard
  <2>1. mods' = mods /\ lit' = lit
    BY <1>5 DEF init_keyboard, InitCount, InitTail, InitHead, InitFlags, Follows
  <2>2. pc' \in Early \cup {"flags"} => pc \in Early \cup {"flags"}
    BY <1>5 DEF init_keyboard, InitCount, InitTail, InitHead, InitFlags, Early
  <2> QED  BY <1>5, <2>1, <2>2, InitSame DEF Follows
<1>6. CASE Enter \/ Leave
  <2>1. /\ UNCHANGED <<mods, lit, held, locks, owed, agree, lost, stale, fifo, wire>>
        /\ code = <<>> /\ code' = <<>> /\ pc' \in {"read", "away"}
    BY <1>6 DEF Enter, Leave, ringVars, readVars, userVars, historyVars, InCodes
  <2>2. Stream' = Stream
    BY <2>1 DEF Stream
  <2> QED  BY <2>1, <2>2 DEF Follows, Early
<1>7. CASE ReadByte
  BY <1>7, ReadFollows
<1>8. CASE UNCHANGED vars
  <2>1. UNCHANGED <<pc, mods, lit, held, locks, owed, agree, lost, stale, Stream>>
    BY <1>8 DEF vars, ringVars, readVars, userVars, historyVars, Stream
  <2> QED  BY <2>1 DEF Follows
<1> QED
  BY <1>1, <1>2, <1>3, <1>4, <1>5, <1>6, <1>7, <1>8 DEF Next, keyboard_read

\* With flags and locks as Agrees says, FlagsAgree holds.
LEMMA AgreeEnough ==
    ASSUME Agrees(mods, lit, held, locks)
    PROVE  FlagsAgree
<1> DEFINE Flag(k) == LET kind == keymap[k[Len(k)]][IF Len(k) = 2 THEN 2 ELSE 0]
                      IN IF kind = "ALT_R" THEN "ALT_L" ELSE kind
<1>1. /\ keymap[42][0] = "SHIFT_L" /\ keymap[54][0] = "SHIFT_R" /\ keymap[29][0] = "CTRL_L"
      /\ keymap[56][0] = "ALT_L" /\ keymap[29][2] = "CTRL_R" /\ keymap[56][2] = "ALT_R"
  <2>1. /\ NarrowKind(42, 0, keymap[42][0]) /\ NarrowKind(54, 0, keymap[54][0])
        /\ NarrowKind(29, 0, keymap[29][0]) /\ NarrowKind(56, 0, keymap[56][0])
    <3>1. \A row \in {42, 54, 29, 56} : row \in 0 .. 127 /\ 0 \in {0, 1}
      OBVIOUS
    <3>2. \A row \in {42, 54, 29, 56} : NarrowKind(row, 0, keymap[row][0])
      BY <3>1, Narrow, Zenon
    <3> QED  BY <3>2
  <2>2. WideKind(29, keymap[29][2]) /\ WideKind(56, keymap[56][2])
    BY Wide
  <2> QED  BY <2>1, <2>2 DEF NarrowKind, WideKind
<1>2. /\ Flag(<<42>>) = "SHIFT_L" /\ Flag(<<54>>) = "SHIFT_R" /\ Flag(<<29>>) = "CTRL_L"
      /\ Flag(<<E0, 29>>) = "CTRL_R" /\ Flag(<<56>>) = "ALT_L" /\ Flag(<<E0, 56>>) = "ALT_L"
  BY <1>1
<1> HIDE DEF Flag
<1>3. Modifiers = {<<42>>, <<54>>, <<29>>, <<E0, 29>>, <<56>>, <<E0, 56>>}
  BY DEF Modifiers, ShiftKeys, CtrlKeys, AltKeys
<1>4. \A k \in Modifiers : Flag(k) \in mods <=> \E j \in held \cap Modifiers : Flag(j) = Flag(k)
  BY <1>2, <1>3 DEF Agrees, AltKeys
<1> QED  BY <1>4 DEF FlagsAgree, Flag, Agrees

\* Every key has its effect, once and in its turn, with the modifiers and locks
\* of the moment it was pressed, and when everything is read the driver's flags
\* are those of the keyboard: whatever keys are used and however their codes
\* are cut by the interrupts and the calls of keyboard_read, if no byte was
\* dropped and no code was ignored (keyboard.c:133-326).
THEOREM KeysTakeEffect == CodesApart /\ OneAlt /\ ~EarlyKeys => (Spec => []Decoded)
<1> SUFFICES ASSUME CodesApart, OneAlt, ~EarlyKeys
             PROVE  Spec => []Decoded
  OBVIOUS
<1>1. IInv /\ Follows => Decoded
  <2> SUFFICES ASSUME IInv, Follows, ~lost, ~stale
               PROVE  agree /\ (Drained => owed = <<>> /\ FlagsAgree)
    BY DEF Decoded
  <2>1. agree /\ Followed(mods, lit, Stream, owed, held, locks) /\ owed \in Seq(EffectSet)
    BY DEF Follows
  <2>2. ASSUME Drained
        PROVE  owed = <<>> /\ FlagsAgree
    <3>1. fifo \in Seq(Bytes) /\ Len(fifo) = 0 /\ wire = <<>> /\ code = <<>>
      BY <2>2 DEF IInv, TypeOK, Ring, Drained
    <3>2. Stream = <<>>
      BY <3>1 DEF Stream
    <3>3. owed = <<>> /\ Agrees(mods, lit, held, locks)
      BY <2>1, <3>2, WayEmpty
    <3>4. FlagsAgree
      BY <3>3, AgreeEnough
    <3> QED  BY <3>3, <3>4
  <2> QED  BY <2>1, <2>2
<1>2. Init => Follows
  BY InitFollows
<1>3. IInv /\ InCodes /\ Follows /\ [Next]_vars => Follows'
  BY StepFollows
<1>4. Spec => [](IInv /\ InCodes)
  BY CodesInvariance
<1> QED  BY <1>1, <1>2, <1>3, <1>4, PTL DEF Spec

=============================================================================
