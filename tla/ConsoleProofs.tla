---------------------------- MODULE ConsoleProofs ----------------------------
(***************************************************************************)
(* The console, for every width and height of screen and console and       *)
(* whoever prints at whatever moment: positions stay inside the console's  *)
(* memory, and out_char's assertions hold except in a process that has     *)
(* overtaken TASK_TTY at the console's end.  Until TASK_TTY is overtaken,  *)
(* the screen starts at a whole line and never reaches the next console,   *)
(* and shows what was printed last.                                        *)
(***************************************************************************)
EXTENDS Console, SequenceTheorems, TLAPS

Cols == 0 .. SCR_WIDTH - 1
Starts == 0 .. ConLines - ScrLines     \* the lines a screen may start at

\* The cursor stands behind the last line only between the switch and the test
\* for the console's end; TASK_TTY may be overtaken there, and then an assertion
\* fails.
AtEnd == cursor = con_size =>
    \/ pc["printx"] = "wrap"
    \/ pc["TTY"] = "wrap" /\ pc["printx"] \in {"idle", "assert"}

\* One actor is in out_char at a time, or has a key, and its argument pos is the
\* cursor until it moves.
Turns ==
    /\ \E a \in Actors : \A b \in Actors : b # a => pc[b] = "idle"
    /\ \A a \in Actors : pc[a] = "put" => pos[a] = cursor

Placed ==
    /\ paper \in Seq(SUBSET Cols)
    /\ \A a \in Actors : pc[a] = "put" => pos[a] \in Words
    /\ \E s \in Starts : crtc_start = s * SCR_WIDTH
    /\ AtEnd
    /\ ~overtaken => Turns

\* The registers follow the console.
Synced == current /\ (\A a \in Actors : pc[a] = "idle") => crtc = <<cursor, crtc_start>>

IInv == TypeOK /\ Placed /\ Synced /\ OnlyOvertakingFailsAsserts

----------------------------------------------------------------------------
(* Lines and positions. *)

LEMMA Sizes ==
    /\ SCR_WIDTH \in Nat \ {0} /\ ScrLines \in Nat \ {0, 1} /\ ConLines \in Nat
    /\ ConLines >= 2 * ScrLines
    /\ SCR_SIZE = ScrLines * SCR_WIDTH /\ con_size = ConLines * SCR_WIDTH
    /\ SCR_SIZE \in Nat /\ con_size \in Nat
    /\ 0 \in Starts /\ ConLines - ScrLines \in Starts
BY ConsoleAssumption DEF SCR_SIZE, con_size, Starts

LEMMA DivMod ==
    ASSUME NEW a \in Nat
    PROVE  /\ a \div SCR_WIDTH \in Nat /\ a % SCR_WIDTH \in Cols
           /\ a = (a \div SCR_WIDTH) * SCR_WIDTH + (a % SCR_WIDTH)
BY Sizes DEF Cols

\* Positions of lines are ordered and add up as the lines do.
LEMMA Lines ==
    ASSUME NEW a \in Nat, NEW b \in Nat
    PROVE  /\ a * SCR_WIDTH \in Nat
           /\ (a + 1) * SCR_WIDTH = a * SCR_WIDTH + SCR_WIDTH
           /\ (a + b) * SCR_WIDTH = a * SCR_WIDTH + b * SCR_WIDTH
           /\ a <= b => a * SCR_WIDTH <= b * SCR_WIDTH
           /\ a < b => a * SCR_WIDTH < b * SCR_WIDTH
           /\ (a * SCR_WIDTH) % SCR_WIDTH = 0
<1>1. SCR_WIDTH \in Nat \ {0}
  BY Sizes
<1>2. /\ a * SCR_WIDTH \in Nat
      /\ (a + 1) * SCR_WIDTH = a * SCR_WIDTH + SCR_WIDTH
      /\ (a + b) * SCR_WIDTH = a * SCR_WIDTH + b * SCR_WIDTH
  BY <1>1
<1>3. a <= b => a * SCR_WIDTH <= b * SCR_WIDTH
  BY <1>1
<1>4. a < b => a * SCR_WIDTH < b * SCR_WIDTH
  BY <1>1
<1>5. (a * SCR_WIDTH) % SCR_WIDTH = 0
  BY <1>1
<1> QED  BY <1>2, <1>3, <1>4, <1>5

\* The line of a position inside the console is one of the console's.
LEMMA LineOf ==
    ASSUME NEW x \in Nat, x < con_size
    PROVE  x \div SCR_WIDTH \in 0 .. ConLines - 1
<1> DEFINE l == x \div SCR_WIDTH
<1>1. l \in Nat /\ l * SCR_WIDTH <= x
  BY DivMod, Lines, Sizes DEF Cols
<1> HIDE DEF l
<1>2. ~(ConLines <= l)
  BY <1>1, Lines, Sizes
<1>3. l \in 0 .. ConLines - 1
  BY <1>1, <1>2, Sizes
<1> QED  BY <1>3 DEF l

----------------------------------------------------------------------------
(* scroll_screen *)

\* Wherever the screen starts and the cursor stands, scrolling leaves the
\* screen at a whole line from which it fits into the console.
LEMMA ScrollsInside ==
    ASSUME NEW cur \in Nat, cur < con_size, NEW s \in Starts,
           NEW full \in BOOLEAN, NEW dir \in {"SCR_UP", "SCR_DN"}
    PROVE  \E t \in Starts :
              Scrolled(cur, s * SCR_WIDTH, full, dir) = t * SCR_WIDTH
<1> DEFINE l == cur \div SCR_WIDTH
           newest == l * SCR_WIDTH
           start == s * SCR_WIDTH
           oldest == IF full THEN (newest + SCR_WIDTH) % con_size ELSE 0
           to == Scrolled(cur, start, full, dir)
<1>1. s \in Nat /\ s <= ConLines - ScrLines /\ l \in 0 .. ConLines - 1
  BY LineOf, Sizes DEF Starts
<1>2. \/ to = start
      \/ start # 0 /\ to = start - SCR_WIDTH
      \/ to = 0
      \/ to = con_size - SCR_SIZE
      \/ newest >= start + SCR_SIZE /\ to = start + SCR_WIDTH
      \/ start + SCR_SIZE # con_size /\ to = start + SCR_WIDTH
  <2>1. start \in Nat
    BY <1>1, Lines
  <2>2. to = CASE dir = "SCR_DN" /\ ~full /\ start > 0 -> start - SCR_WIDTH
               [] dir = "SCR_DN" /\ full /\ start # oldest ->
                      IF start # 0 THEN start - SCR_WIDTH
                      ELSE IF cur >= con_size - SCR_SIZE THEN 0
                      ELSE con_size - SCR_SIZE
               [] dir = "SCR_UP" /\ ~full /\ newest >= start + SCR_SIZE ->
                      start + SCR_WIDTH
               [] dir = "SCR_UP" /\ full /\ start + SCR_SIZE - SCR_WIDTH # newest ->
                      IF start + SCR_SIZE = con_size THEN 0 ELSE start + SCR_WIDTH
               [] OTHER -> start
    BY Zenon DEF Scrolled
  <2> HIDE DEF to, newest, start, oldest
  <2> QED  BY <2>1, <2>2
<1> HIDE DEF to, l
<1>3. CASE to = start
  BY <1>3 DEF to
<1>4. CASE start # 0 /\ to = start - SCR_WIDTH
  <2>1. s # 0
    BY <1>4, Sizes
  <2>2. s - 1 \in Starts /\ s - 1 \in Nat
    BY <1>1, <2>1, Sizes DEF Starts
  <2>3. start = (s - 1) * SCR_WIDTH + SCR_WIDTH
    <3>1. ((s - 1) + 1) * SCR_WIDTH = (s - 1) * SCR_WIDTH + SCR_WIDTH
      BY <2>2, Lines
    <3> QED  BY <1>1, <3>1
  <2>4. to = (s - 1) * SCR_WIDTH
    BY <1>4, <2>2, <2>3, Lines, Sizes
  <2> QED  BY <2>2, <2>4 DEF to
<1>5. CASE to = 0
  <2>1. to = 0 * SCR_WIDTH
    BY <1>5, Sizes
  <2> QED  BY <2>1, Sizes DEF to
<1>6. CASE to = con_size - SCR_SIZE
  <2> DEFINE d == ConLines - ScrLines
  <2>1. d \in Starts /\ d \in Nat /\ d + ScrLines = ConLines
    BY Sizes DEF Starts
  <2>2. con_size = d * SCR_WIDTH + SCR_SIZE
    <3> HIDE DEF d
    <3>1. (d + ScrLines) * SCR_WIDTH = d * SCR_WIDTH + ScrLines * SCR_WIDTH
      BY <2>1, Lines, Sizes
    <3> QED  BY <2>1, <3>1, Sizes
  <2>3. to = d * SCR_WIDTH
    <3> HIDE DEF d
    <3> QED  BY <1>6, <2>1, <2>2, Lines, Sizes
  <2> QED  BY <2>1, <2>3 DEF to
<1>7. ASSUME s + ScrLines < ConLines, to = start + SCR_WIDTH
      PROVE  \E t \in Starts : to = t * SCR_WIDTH
  <2>1. s + 1 \in Starts
    BY <1>1, <1>7, Sizes DEF Starts
  <2>2. to = (s + 1) * SCR_WIDTH
    BY <1>1, <1>7, Lines
  <2> QED  BY <2>1, <2>2
<1>8. start + SCR_SIZE = (s + ScrLines) * SCR_WIDTH
  BY <1>1, Lines, Sizes
<1>9. CASE newest >= start + SCR_SIZE /\ to = start + SCR_WIDTH
  <2>1. ~(l < s + ScrLines)
    BY <1>1, <1>8, <1>9, Lines, Sizes
  <2>2. s + ScrLines < ConLines
    BY <1>1, <2>1, Sizes
  <2> QED  BY <1>7, <1>9, <2>2 DEF to
<1>10. CASE start + SCR_SIZE # con_size /\ to = start + SCR_WIDTH
  <2>1. s + ScrLines # ConLines
    BY <1>8, <1>10, Sizes
  <2>2. s + ScrLines < ConLines
    BY <1>1, <2>1, Sizes
  <2> QED  BY <1>7, <1>10, <2>2 DEF to
<1> QED
  BY <1>2, <1>3, <1>4, <1>5, <1>6, <1>9, <1>10 DEF to

\* A screen that starts at one of the lines of Starts is ScreenInside's.
LEMMA StartsInside ==
    ASSUME NEW s \in Starts
    PROVE  /\ (s * SCR_WIDTH) % SCR_WIDTH = 0
           /\ s * SCR_WIDTH + SCR_SIZE <= con_size
           /\ s * SCR_WIDTH \in Words
<1>1. s \in Nat /\ s + ScrLines <= ConLines
  BY Sizes DEF Starts
<1>2. (s + ScrLines) * SCR_WIDTH <= con_size
  BY <1>1, Lines, Sizes
<1>3. (s + ScrLines) * SCR_WIDTH = s * SCR_WIDTH + SCR_SIZE
  BY <1>1, Lines, Sizes
<1>4. s * SCR_WIDTH \in Nat /\ (s * SCR_WIDTH) % SCR_WIDTH = 0
  BY <1>1, Lines
<1>5. SCR_SIZE > 0
  BY Sizes
<1>6. s * SCR_WIDTH \in Words
  BY <1>2, <1>3, <1>4, <1>5, Sizes DEF Words
<1> QED  BY <1>2, <1>3, <1>4, <1>6

----------------------------------------------------------------------------
(* out_char *)

\* What has been printed stays a sequence of one to Kept rows of columns.
LEMMA PrintedTypes ==
    ASSUME NEW rows \in Seq(SUBSET Cols), Len(rows) \in 1 .. Kept,
           NEW c \in Chars, NEW col \in Cols
    PROVE  /\ Printed(rows, c, col) \in Seq(SUBSET Cols)
           /\ Len(Printed(rows, c, col)) \in 1 .. Kept
<1> DEFINE end == Len(rows)
<1>1. ASSUME NEW r \in Seq(SUBSET Cols), Len(r) \in 1 .. Kept
      PROVE  NewRow(r) \in Seq(SUBSET Cols) /\ Len(NewRow(r)) \in 1 .. Kept
  <2>1. {} \in SUBSET Cols /\ Kept \in Nat
    BY Sizes DEF Kept
  <2>2. CASE Len(r) < Kept
    BY <1>1, <2>1, <2>2, AppendProperties DEF NewRow
  <2>3. CASE ~(Len(r) < Kept)
    <3>1. r # <<>> /\ Len(r) = Kept
      BY <1>1, <2>1, <2>3
    <3>2. Tail(r) \in Seq(SUBSET Cols) /\ Len(Tail(r)) = Kept - 1
      BY <3>1, HeadTailProperties
    <3> QED  BY <2>1, <2>3, <3>1, <3>2, AppendProperties DEF NewRow
  <2> QED  BY <2>2, <2>3
<1>2. ASSUME NEW r \in Seq(SUBSET Cols), Len(r) \in 1 .. Kept,
             NEW S \in SUBSET Cols, NEW k \in 1 .. Len(r)
      PROVE  /\ [r EXCEPT ![k] = S] \in Seq(SUBSET Cols)
             /\ Len([r EXCEPT ![k] = S]) = Len(r)
  BY <1>2, ExceptSeq
<1>3. end \in 1 .. Len(rows) /\ rows[end] \in SUBSET Cols
  BY Sizes, ElementOfSeq DEF Kept
<1>4. CASE c = "newline"
  BY <1>1, <1>4 DEF Printed
<1>5. CASE c = "backspace" /\ col > 0
  <2>1. Printed(rows, c, col) = [rows EXCEPT ![end] = rows[end] \ {col - 1}]
    BY <1>5 DEF Printed
  <2> QED  BY <1>2, <1>3, <2>1
<1>6. CASE c = "backspace" /\ col = 0 /\ end > 1
  <2> DEFINE r == SubSeq(rows, 1, end - 1)
  <2>1. /\ r \in Seq(SUBSET Cols) /\ Len(r) = end - 1
    BY <1>3, <1>6, Sizes DEF Kept
  <2>2. Len(r) \in 1 .. Kept /\ end - 1 \in 1 .. Len(r)
    BY <1>6, <2>1, Sizes DEF Kept
  <2>3. r[end - 1] \in SUBSET Cols
    BY <2>1, <2>2, ElementOfSeq
  <2>4. Printed(rows, c, col) =
           [r EXCEPT ![end - 1] = r[end - 1] \ {SCR_WIDTH - 1}]
    <3>1. ~(col > 0)
      BY <1>6
    <3> QED  BY <1>6, <3>1, Zenon DEF Printed
  <2> HIDE DEF r
  <2>5. r[end - 1] \ {SCR_WIDTH - 1} \in SUBSET Cols
    BY <2>3
  <2> QED  BY <1>2, <2>1, <2>2, <2>4, <2>5
<1>7. CASE c = "char"
  <2> DEFINE put == [rows EXCEPT ![end] = rows[end] \cup {col}]
  <2>1. put \in Seq(SUBSET Cols) /\ Len(put) \in 1 .. Kept
    BY <1>2, <1>3
  <2>2. Printed(rows, c, col) =
           IF col = SCR_WIDTH - 1 THEN NewRow(put) ELSE put
    BY <1>7 DEF Printed
  <2> HIDE DEF put
  <2> QED  BY <1>1, <2>1, <2>2
<1>8. CASE c = "backspace" /\ col = 0 /\ ~(end > 1)
  <2>1. Printed(rows, c, col) = rows
    BY <1>8 DEF Printed
  <2> QED  BY <2>1
<1>9. col > 0 \/ col = 0
  BY Sizes DEF Cols
<1> QED
  BY <1>4, <1>5, <1>6, <1>7, <1>8, <1>9 DEF Chars

\* Clearing and copying leave a memory.
LEMMA MemoryStays ==
    ASSUME NEW m \in [Words -> BOOLEAN], NEW x, NEW y, NEW z
    PROVE  /\ Cleared(m, x, y) \in [Words -> BOOLEAN]
           /\ Copied(m, x, y, z) \in [Words -> BOOLEAN]
<1>1. Cleared(m, x, y) \in [Words -> BOOLEAN]
  BY Zenon DEF Cleared
<1>2. ASSUME NEW i \in Words
      PROVE  (IF i \in x .. x + z - 1
              THEN y + i - x \in Words /\ m[y + i - x] ELSE m[i]) \in BOOLEAN
  BY Zenon
<1>3. Copied(m, x, y, z) \in [Words -> BOOLEAN]
  BY <1>2, Zenon DEF Copied
<1> QED  BY <1>1, <1>3

\* Only an actor in the switch, in the loop or with a key finds the cursor where
\* it must be; it may be behind the last line only on its way to the copy.
LEMMA CursorInside ==
    ASSUME IInv, NEW a \in Actors, NEW place \in {"idle", "put", "scroll", "key"},
           At(a, place), a = "TTY" \/ place # "idle"
    PROVE  cursor \in Nat /\ cursor < con_size
<1>1. cursor \in 0 .. con_size /\ AtEnd
  BY DEF IInv, TypeOK, Placed
<1>2. cursor # con_size
  BY <1>1 DEF AtEnd, At, Actors
<1> QED  BY <1>1, <1>2, Sizes

\* Until it is overtaken, TASK_TTY and the process that prints take turns.
LEMMA OthersIdle ==
    ASSUME IInv, ~overtaken, NEW a \in Actors, pc[a] # "idle"
    PROVE  \A b \in Actors : b # a => pc[b] = "idle"
BY DEF IInv, Placed, Turns

LEMMA FollowedStays ==
    ASSUME NEW m \in [Words -> BOOLEAN]
    PROVE  Followed(m) \in [Words -> BOOLEAN]
<1>1. [p \in Words |-> FALSE] \in [Words -> BOOLEAN]
  OBVIOUS
<1> QED  BY <1>1 DEF Followed

\* A step that does not begin out_char fails no assertion.
LEMMA NobodyFails ==
    ASSUME IInv, Running, NEW a \in Actors, NEW place, place # "assert",
           pc' = [pc EXCEPT ![a] = place]
    PROVE  OnlyOvertakingFailsAsserts'
<1>1. \A b \in Actors : pc'[b] # "assert"
  BY DEF Running, IInv, TypeOK
<1> QED  BY <1>1 DEF OnlyOvertakingFailsAsserts, Actors

\* The beginning of out_char: TASK_TTY finds the cursor inside the console, and
\* a process does unless TASK_TTY has moved it behind.
LEMMA CallInv ==
    ASSUME IInv, NEW a \in Actors, NEW c \in Chars, At(a, "idle"), Call(a, c),
           typed' \in 0 .. ReadMax, overtaken' \in BOOLEAN,
           ~overtaken' => ~overtaken /\ \A b \in Actors : pc[b] = "idle"
    PROVE  IInv'
<1> DEFINE place == IF cursor < con_size THEN "put" ELSE "assert"
<1> USE DEF IInv
<1>1. /\ pc' = [pc EXCEPT ![a] = place] /\ ch' = [ch EXCEPT ![a] = c]
      /\ pos' = [pos EXCEPT ![a] = cursor]
      /\ UNCHANGED <<mem, cursor, crtc_start, is_full, current, crtc, paper, back>>
  BY DEF Call, Goto, conVars
<1>2. pc[a] = "idle" /\ Running /\ cursor \in 0 .. con_size
  BY DEF At, TypeOK
<1>3. TypeOK'
  BY <1>1, <1>2 DEF TypeOK
<1>4. pc'[a] = place /\ pos'[a] = cursor
      /\ \A b \in Actors : b # a => pc'[b] = pc[b] /\ pos'[b] = pos[b]
  BY <1>1 DEF TypeOK
<1>5. place = "put" => cursor \in Words
  BY <1>2, Sizes DEF Words
<1>6. place = "assert" => a = "printx" /\ pc["TTY"] = "wrap" /\ cursor = con_size
  <2>1. cursor < con_size \/ cursor = con_size
    BY <1>2, Sizes
  <2>2. a = "TTY" => cursor < con_size
    BY CursorInside
  <2>3. cursor = con_size => AtEnd
    BY DEF Placed
  <2> QED  BY <1>2, <2>1, <2>2, <2>3, Sizes DEF AtEnd, Actors
<1>7. AtEnd'
  <2>1. cursor = con_size => place = "assert"
    BY Sizes
  <2> QED  BY <1>1, <1>4, <1>6, <2>1 DEF AtEnd, Actors
<1>8. ~overtaken' => Turns'
  BY <1>1, <1>4 DEF Turns
<1>9. Placed'
  <2>1. \A b \in Actors : pc'[b] = "put" => pos'[b] \in Words
    BY <1>4, <1>5 DEF Placed
  <2> QED  BY <1>1, <1>7, <1>8, <2>1 DEF Placed
<1>10. Synced'
  <2>1. pc'[a] # "idle"
    BY <1>4
  <2> QED  BY <2>1 DEF Synced
<1>11. OnlyOvertakingFailsAsserts'
  <2>1. \A b \in Actors : b # a => pc'[b] # "assert"
    BY <1>2, <1>4 DEF Running
  <2> QED  BY <1>1, <1>4, <1>6, <2>1 DEF OnlyOvertakingFailsAsserts, Actors
<1> QED  BY <1>3, <1>9, <1>10, <1>11

\* The switch: the cursor moves, at most to the position behind the console,
\* even from a position that was read before a process printed.
LEMMA PutInv ==
    ASSUME IInv, NEW a \in Actors, Put(a)
    PROVE  IInv'
<1> USE DEF IInv
<1>1. /\ pc[a] = "put" /\ At(a, "put") /\ Running
      /\ cursor \in Nat /\ cursor < con_size
      /\ pos[a] \in Words /\ pos[a] \in Nat /\ pos[a] < con_size /\ ch[a] \in Chars
      /\ a = "TTY" => pc["printx"] = "idle"
  <2>1. pc[a] = "put" /\ At(a, "put") /\ ch[a] \in Chars
    BY DEF Put, At, TypeOK
  <2>2. pos[a] \in Words
    BY <2>1 DEF Placed
  <2>3. cursor \in Nat /\ cursor < con_size
    BY <2>1, CursorInside
  <2> QED  BY <2>1, <2>2, <2>3, Sizes DEF At, Words
<1>2. /\ pc' = [pc EXCEPT ![a] = "wrap"]
      /\ paper' = IF overtaken THEN <<{}>> ELSE Printed(paper, ch[a], pos[a] % SCR_WIDTH)
      /\ UNCHANGED <<crtc_start, is_full, current, crtc, typed, ch, pos, back, overtaken>>
  BY DEF Put, Goto
<1>3. pc'[a] = "wrap" /\ \A b \in Actors : b # a => pc'[b] = pc[b]
  BY <1>2 DEF TypeOK
<1>4. cursor' \in 0 .. con_size /\ mem' \in [Words -> BOOLEAN]
  <2>1. mem \in [Words -> BOOLEAN] /\ cursor + 1 \in 0 .. con_size
    BY <1>1, Sizes DEF TypeOK
  <2>2. CASE ch[a] = "newline"
    <3> DEFINE l == pos[a] \div SCR_WIDTH
    <3>1. cursor' = SCR_WIDTH * (l + 1) /\ mem' = mem
      BY <2>2 DEF Put
    <3>2. l \in Nat /\ l + 1 \in Nat /\ l + 1 <= ConLines
      BY <1>1, LineOf, Sizes
    <3> HIDE DEF l
    <3>3. (l + 1) * SCR_WIDTH \in 0 .. con_size
      BY <3>2, Lines, Sizes
    <3>4. (l + 1) * SCR_WIDTH = SCR_WIDTH * (l + 1)
      BY <3>2, Sizes
    <3> QED  BY <2>1, <3>1, <3>3, <3>4
  <2>3. CASE ch[a] = "backspace"
    <3>1. \/ /\ cursor > 0 /\ cursor' = cursor - 1
             /\ mem' = Followed(Cleared(mem, pos[a] - 1, 1))
          \/ cursor' = cursor /\ mem' = mem
      BY <2>3 DEF Put
    <3>2. mem' \in [Words -> BOOLEAN]
      BY <2>1, <3>1, MemoryStays, FollowedStays
    <3> QED  BY <1>1, <3>1, <3>2, Sizes
  <2>4. CASE ch[a] = "char"
    <3>1. cursor' = cursor + 1 /\ mem' = Followed([mem EXCEPT ![pos[a]] = TRUE])
      BY <2>4 DEF Put
    <3>2. [mem EXCEPT ![pos[a]] = TRUE] \in [Words -> BOOLEAN]
      BY <2>1
    <3> QED  BY <2>1, <3>1, <3>2, FollowedStays
  <2> QED  BY <1>1, <2>2, <2>3, <2>4 DEF Chars
<1>5. paper' \in Seq(SUBSET Cols) /\ Len(paper') \in 1 .. Kept
  <2>1. CASE overtaken
    <3>1. <<{}>> \in Seq(SUBSET Cols) /\ Len(<<{}>>) = 1 /\ 1 \in 1 .. Kept
      BY Sizes DEF Kept
    <3> QED  BY <1>2, <2>1, <3>1
  <2>2. CASE ~overtaken
    <3>1. pos[a] % SCR_WIDTH \in Cols
      BY <1>1, DivMod
    <3> QED  BY <1>1, <1>2, <2>2, <3>1, PrintedTypes DEF Placed, TypeOK
  <2> QED  BY <2>1, <2>2
<1>6. \A i \in DOMAIN paper' : paper'[i] \subseteq Cols
  BY <1>5, ElementOfSeq, LenProperties
<1>7. TypeOK'
  BY <1>2, <1>4, <1>5, <1>6 DEF TypeOK, Cols
<1>8. Placed'
  <2>1. AtEnd'
    BY <1>1, <1>3 DEF AtEnd, Actors
  <2>2. ~overtaken => Turns'
    BY <1>1, <1>3, OthersIdle DEF Turns
  <2>3. \A b \in Actors : pc'[b] = "put" => pos'[b] \in Words
    BY <1>2, <1>3 DEF Placed
  <2> QED  BY <1>2, <1>5, <2>1, <2>2, <2>3 DEF Placed
<1>9. Synced'
  BY <1>3 DEF Synced
<1>10. OnlyOvertakingFailsAsserts'
  BY <1>1, <1>2, NobodyFails
<1> QED  BY <1>7, <1>8, <1>9, <1>10

\* The cursor behind the console goes to the last line of the first screen.
LEMMA WrapInv ==
    ASSUME IInv, NEW a \in Actors, Wrap(a)
    PROVE  IInv'
<1> USE DEF IInv
<1>1. /\ pc[a] = "wrap" /\ Running /\ cursor \in 0 .. con_size /\ mem \in [Words -> BOOLEAN]
  BY DEF Wrap, At, TypeOK
<1>2. /\ pc' = [pc EXCEPT ![a] = "scroll"]
      /\ UNCHANGED <<current, crtc, typed, ch, pos, paper, back, overtaken>>
  BY DEF Wrap, Goto
<1>3. pc'[a] = "scroll" /\ \A b \in Actors : b # a => pc'[b] = pc[b]
  BY <1>2 DEF TypeOK
<1>4. /\ cursor' \in 0 .. con_size /\ cursor' < con_size
      /\ mem' \in [Words -> BOOLEAN] /\ is_full' \in BOOLEAN
      /\ crtc_start' = crtc_start \/ crtc_start' = 0 * SCR_WIDTH
  <2>1. CASE cursor >= con_size
    <3> DEFINE src == (cursor \div SCR_WIDTH + 1) * SCR_WIDTH - SCR_SIZE
               cur == SCR_SIZE - SCR_WIDTH + (cursor % SCR_WIDTH)
    <3>1. /\ mem' = Followed(Cleared(Copied(mem, 0, src, SCR_SIZE - SCR_WIDTH), cur, SCR_WIDTH))
          /\ crtc_start' = 0 /\ cursor' = cur /\ is_full' = TRUE
      BY <2>1 DEF Wrap
    <3>2. cursor % SCR_WIDTH = 0
      <4>1. cursor = ConLines * SCR_WIDTH
        BY <1>1, <2>1, Sizes
      <4> QED  BY <4>1, Lines, Sizes
    <3>3. mem' \in [Words -> BOOLEAN]
      <4> HIDE DEF src, cur
      <4> QED  BY <1>1, <3>1, MemoryStays, FollowedStays
    <3>4. SCR_WIDTH <= SCR_SIZE /\ SCR_SIZE <= con_size
      <4>1. 1 * SCR_WIDTH <= ScrLines * SCR_WIDTH
        BY Lines, Sizes
      <4>2. ScrLines * SCR_WIDTH <= ConLines * SCR_WIDTH
        BY Lines, Sizes
      <4> QED  BY <4>1, <4>2, Sizes
    <3>5. cur \in Nat /\ cur < con_size
      <4>1. cur = SCR_SIZE - SCR_WIDTH
        BY <3>2, Sizes
      <4> HIDE DEF cur
      <4> QED  BY <3>4, <4>1, Sizes
    <3> HIDE DEF cur
    <3>6. 0 * SCR_WIDTH = 0
      BY Sizes
    <3> QED  BY <3>1, <3>3, <3>5, <3>6, Sizes
  <2>2. CASE ~(cursor >= con_size)
    <3>1. UNCHANGED <<mem, cursor, crtc_start, is_full>>
      BY <2>2 DEF Wrap, conVars
    <3> QED  BY <1>1, <2>2, <3>1, Sizes DEF TypeOK
  <2> QED  BY <2>1, <2>2
<1>5. PICK s \in Starts : crtc_start' = s * SCR_WIDTH
  BY <1>4, Sizes DEF Placed
<1>6. TypeOK'
  <2>1. crtc_start' \in Int
    BY <1>5, StartsInside DEF Words
  <2> QED  BY <1>2, <1>4, <2>1 DEF TypeOK
<1>7. Placed'
  <2>1. AtEnd'
    BY <1>4, Sizes DEF AtEnd
  <2>2. ~overtaken => Turns'
    BY <1>1, <1>3, OthersIdle DEF Turns
  <2>3. \A b \in Actors : pc'[b] = "put" => pos'[b] \in Words
    BY <1>2, <1>3 DEF Placed
  <2> QED  BY <1>2, <1>5, <2>1, <2>2, <2>3 DEF Placed
<1>8. Synced'
  BY <1>3 DEF Synced
<1>9. OnlyOvertakingFailsAsserts'
  BY <1>1, <1>2, NobodyFails
<1> QED  BY <1>6, <1>7, <1>8, <1>9

\* A step of the loop moves the screen, clears a line and sets the registers.
LEMMA ScrollInv ==
    ASSUME IInv, NEW a \in Actors, Scroll(a)
    PROVE  IInv'
<1> USE DEF IInv
<1>1. /\ pc[a] = "scroll" /\ At(a, "scroll") /\ Running
      /\ cursor \in 0 .. con_size /\ mem \in [Words -> BOOLEAN]
  BY DEF Scroll, At, TypeOK
<1>2. cursor \in Nat /\ cursor < con_size
  BY <1>1, CursorInside
<1>3. /\ crtc_start' = Scrolled(cursor, crtc_start, is_full, "SCR_UP")
      /\ mem' = Followed(Cleared(mem, cursor, SCR_WIDTH))
      /\ UNCHANGED <<cursor, is_full, current, typed, pc, ch, pos, paper, back, overtaken>>
      /\ crtc' = IF current' THEN <<cursor', crtc_start'>> ELSE crtc
  BY DEF Scroll, callVars, Flush
<1>4. PICK s \in Starts : crtc_start = s * SCR_WIDTH
  BY DEF Placed
<1>5. PICK t \in Starts : crtc_start' = t * SCR_WIDTH
  <2>1. is_full \in BOOLEAN
    BY DEF TypeOK
  <2> QED  BY <1>2, <1>3, <1>4, <2>1, ScrollsInside
<1>6. mem' \in [Words -> BOOLEAN]
  BY <1>1, <1>3, MemoryStays, FollowedStays
<1>7. crtc_start' \in Int
  BY <1>5, StartsInside DEF Words
<1>8. crtc' \in (0 .. con_size) \X Int
  BY <1>1, <1>3, <1>7 DEF TypeOK
<1>9. TypeOK'
  BY <1>3, <1>6, <1>7, <1>8 DEF TypeOK
<1>10. Placed'
  <2>1. AtEnd' /\ (~overtaken => Turns')
    BY <1>3 DEF Placed, AtEnd, Turns
  <2> QED  BY <1>3, <1>5, <2>1 DEF Placed
<1>11. Synced'
  BY <1>1, <1>3 DEF Synced
<1>12. OnlyOvertakingFailsAsserts'
  BY <1>3 DEF OnlyOvertakingFailsAsserts
<1> QED  BY <1>9, <1>10, <1>11, <1>12

\* The return leaves the registers as flush sets them.
LEMMA ReturnInv ==
    ASSUME IInv, NEW a \in Actors, Return(a)
    PROVE  IInv'
<1> USE DEF IInv
<1>1. /\ pc[a] = "scroll" /\ At(a, "scroll") /\ Running
      /\ cursor \in 0 .. con_size /\ crtc_start \in Int
  BY DEF Return, At, TypeOK
<1>2. cursor \in Nat /\ cursor < con_size
  BY <1>1, CursorInside
<1>3. /\ pc' = [pc EXCEPT ![a] = "idle"] /\ ch' = [ch EXCEPT ![a] = "char"]
      /\ pos' = [pos EXCEPT ![a] = 0]
      /\ UNCHANGED <<mem, cursor, crtc_start, is_full, current, typed, paper, back, overtaken>>
      /\ crtc' = IF current' THEN <<cursor', crtc_start'>> ELSE crtc
  BY DEF Return, Goto, conVars, Flush
<1>4. pc'[a] = "idle" /\ \A b \in Actors : b # a => pc'[b] = pc[b] /\ pos'[b] = pos[b]
  BY <1>3 DEF TypeOK
<1>5. TypeOK'
  BY <1>1, <1>3, Sizes DEF TypeOK, Chars
<1>6. Placed'
  <2>1. AtEnd'
    BY <1>2, <1>3, Sizes DEF AtEnd
  <2>2. ~overtaken => Turns'
    BY <1>1, <1>4, OthersIdle DEF Turns
  <2>3. \A b \in Actors : pc'[b] = "put" => pos'[b] \in Words
    BY <1>4 DEF Placed
  <2> QED  BY <1>3, <2>1, <2>2, <2>3 DEF Placed
<1>7. Synced'
  BY <1>3 DEF Synced
<1>8. OnlyOvertakingFailsAsserts'
  BY <1>1, <1>3, NobodyFails
<1> QED  BY <1>5, <1>6, <1>7, <1>8

----------------------------------------------------------------------------
(* Who prints *)

\* TASK_TTY finds nobody in out_char when it is not there itself.
LEMMA AllIdle ==
    ASSUME At("TTY", "idle")
    PROVE  \A b \in Actors : pc[b] = "idle"
BY DEF At, Actors

\* Nothing that places the cursor is changed when TASK_TTY takes up a key or is
\* done with it.
LEMMA KeySteps ==
    ASSUME IInv, Running, NEW place \in {"idle", "key"}, pc["printx"] = "idle",
           pc' = [pc EXCEPT !["TTY"] = place],
           UNCHANGED <<cursor, pos, paper, overtaken>>, cursor < con_size,
           \E s \in Starts : crtc_start' = s * SCR_WIDTH
    PROVE  Placed' /\ OnlyOvertakingFailsAsserts'
<1>1. pc'["TTY"] = place /\ \A b \in Actors : b # "TTY" => pc'[b] = pc[b] /\ pc[b] = "idle"
  BY DEF IInv, TypeOK, Actors
<1>2. AtEnd'
  BY Sizes DEF AtEnd, IInv, TypeOK
<1>3. Turns'
  BY <1>1 DEF Turns, Actors
<1>4. \A b \in Actors : pc'[b] # "put"
  BY <1>1
<1>5. Placed'
  BY <1>2, <1>3, <1>4 DEF IInv, Placed
<1>6. OnlyOvertakingFailsAsserts'
  BY NobodyFails DEF Actors
<1> QED  BY <1>5, <1>6

LEMMA InProcessInv ==
    ASSUME IInv, InProcess
    PROVE  IInv'
<1>1. /\ pc' = [pc EXCEPT !["TTY"] = "key"] /\ At("TTY", "idle") /\ Running
      /\ pc["printx"] = "idle"
      /\ UNCHANGED <<mem, cursor, crtc_start, is_full, current, crtc, typed, ch, pos,
                     paper, back, overtaken>>
  BY DEF InProcess, Goto, conVars, At
<1>2. cursor < con_size
  BY <1>1, CursorInside DEF Actors
<1>3. Placed' /\ OnlyOvertakingFailsAsserts'
  BY <1>1, <1>2, KeySteps DEF IInv, Placed
<1>4. TypeOK'
  BY <1>1 DEF IInv, TypeOK
<1>5. Synced'
  <2>1. pc'["TTY"] = "key" /\ "TTY" \in Actors
    BY <1>1 DEF IInv, TypeOK, Actors
  <2> QED  BY <2>1 DEF Synced
<1> QED  BY <1>3, <1>4, <1>5 DEF IInv

LEMMA ScrollKeyInv ==
    ASSUME IInv, ScrollKey
    PROVE  IInv'
<1>1. PICK dir \in {"SCR_UP", "SCR_DN"} :
         crtc_start' = Scrolled(cursor, crtc_start, is_full, dir)
  BY Zenon DEF ScrollKey
<1>2. /\ At("TTY", "key") /\ Running /\ pc["printx"] = "idle"
      /\ back' = (back \/ (is_full /\ crtc_start' # crtc_start))
      /\ pc' = [pc EXCEPT !["TTY"] = "idle"]
      /\ UNCHANGED <<mem, cursor, is_full, current, typed, ch, pos, paper, overtaken>>
      /\ crtc' = IF current' THEN <<cursor', crtc_start'>> ELSE crtc
  BY DEF ScrollKey, Goto, Flush, At
<1>3. cursor \in Nat /\ cursor < con_size
  BY <1>2, CursorInside DEF Actors
<1>4. PICK s \in Starts : crtc_start = s * SCR_WIDTH
  BY DEF IInv, Placed
<1>5. PICK t \in Starts : crtc_start' = t * SCR_WIDTH
  <2>1. is_full \in BOOLEAN
    BY DEF IInv, TypeOK
  <2> QED  BY <1>1, <1>3, <1>4, <2>1, ScrollsInside
<1>6. crtc_start' \in Int
  BY <1>5, StartsInside DEF Words
<1>7. crtc' \in (0 .. con_size) \X Int
  BY <1>2, <1>6 DEF IInv, TypeOK
<1>8. TypeOK'
  BY <1>2, <1>6, <1>7 DEF IInv, TypeOK
<1>9. Placed' /\ OnlyOvertakingFailsAsserts'
  BY <1>2, <1>3, <1>5, KeySteps
<1>10. Synced'
  BY <1>2 DEF Synced
<1> QED  BY <1>8, <1>9, <1>10 DEF IInv

LEMMA SelectConsoleInv ==
    ASSUME IInv, SelectConsole
    PROVE  IInv'
<1>1. /\ At("TTY", "key") /\ Running /\ pc["printx"] = "idle"
      /\ current' = ~current /\ pc' = [pc EXCEPT !["TTY"] = "idle"]
      /\ UNCHANGED <<mem, cursor, crtc_start, is_full, typed, ch, pos, paper, back, overtaken>>
      /\ IF current' THEN crtc' = <<cursor', crtc_start'>> ELSE crtc' = <<0, 0>>
  BY DEF SelectConsole, conVars, Goto, Flush, At
<1>2. cursor < con_size
  BY <1>1, CursorInside DEF Actors
<1>3. crtc' \in (0 .. con_size) \X Int
  BY <1>1, Sizes DEF IInv, TypeOK
<1>4. TypeOK'
  BY <1>1, <1>3 DEF IInv, TypeOK
<1>5. Placed' /\ OnlyOvertakingFailsAsserts'
  BY <1>1, <1>2, KeySteps DEF IInv, Placed
<1>6. Synced'
  BY <1>1 DEF Synced
<1> QED  BY <1>4, <1>5, <1>6 DEF IInv

----------------------------------------------------------------------------
(* The invariant *)

LEMMA InitInv ==
    ASSUME Init
    PROVE  IInv
<1>1. PICK line \in 0 .. ScrLines - 1 :
         /\ cursor = line * SCR_WIDTH
         /\ paper = [i \in 1 .. line + 1 |-> {}]
  BY Zenon DEF Init
<1>2. line \in Nat /\ line < ConLines /\ line + 1 \in 1 .. Kept
  BY Sizes DEF Kept
<1>3. cursor \in Nat /\ cursor < con_size
  BY <1>1, <1>2, Lines, Sizes
<1>4. paper \in Seq(SUBSET Cols) /\ Len(paper) = line + 1
  <2>1. \A i \in 1 .. line + 1 : {} \in SUBSET Cols
    OBVIOUS
  <2> QED  BY <1>1, <1>2, <2>1
<1>5. \A i \in DOMAIN paper : paper[i] \subseteq Cols
  BY <1>4, ElementOfSeq, LenProperties
<1>6. /\ mem = [p \in Words |-> FALSE] /\ crtc_start = 0 /\ is_full = FALSE
      /\ current = TRUE /\ crtc = <<cursor, crtc_start>> /\ typed = 0
      /\ pc = [a \in Actors |-> "idle"] /\ ch = [a \in Actors |-> "char"]
      /\ pos = [a \in Actors |-> 0] /\ back = FALSE /\ overtaken = FALSE
  BY DEF Init
<1>7. 0 \in Starts /\ crtc_start = 0 * SCR_WIDTH
  BY <1>6, Sizes
<1>8. TypeOK
  <2>1. cursor \in 0 .. con_size /\ typed \in 0 .. ReadMax /\ 0 \in 0 .. con_size
    BY <1>3, <1>6, Sizes, ConsoleAssumption
  <2>2. crtc \in (0 .. con_size) \X Int
    BY <1>6, <2>1
  <2> QED  BY <1>2, <1>4, <1>5, <1>6, <2>1, <2>2 DEF TypeOK, Chars, Cols
<1>9. Placed
  <2>1. AtEnd
    BY <1>3, Sizes DEF AtEnd
  <2>2. Turns
    BY <1>6 DEF Turns, Actors
  <2> QED  BY <1>4, <1>6, <1>7, <2>1, <2>2 DEF Placed
<1>10. Synced /\ OnlyOvertakingFailsAsserts
  BY <1>6 DEF Synced, OnlyOvertakingFailsAsserts, Actors
<1> QED  BY <1>8, <1>9, <1>10 DEF IInv

LEMMA NextInv ==
    ASSUME IInv, [Next]_vars
    PROVE  IInv'
<1>1. ASSUME NEW a \in Actors, OutCharStep(a)
      PROVE  IInv'
  BY <1>1, PutInv, WrapInv, ScrollInv, ReturnInv DEF OutCharStep
<1>2. typed \in 0 .. ReadMax /\ ReadMax \in Nat /\ overtaken \in BOOLEAN
  BY ConsoleAssumption DEF IInv, TypeOK
<1>3. "TTY" \in Actors /\ "printx" \in Actors /\ {"char", "newline", "backspace"} = Chars
  BY DEF Actors, Chars
<1>4. CASE Echo
  <2>1. PICK c \in Chars : Call("TTY", c)
    BY <1>3, <1>4 DEF Echo
  <2>2. typed' \in 0 .. ReadMax /\ overtaken' = overtaken /\ At("TTY", "idle")
    BY <1>2, <1>4 DEF Echo
  <2> QED  BY <1>2, <1>3, <2>1, <2>2, AllIdle, CallInv
<1>5. CASE TtyDoWrite
  <2>1. PICK c \in Chars : Call("TTY", c)
    BY <1>3, <1>5 DEF TtyDoWrite
  <2>2. typed' \in 0 .. ReadMax /\ overtaken' = overtaken /\ At("TTY", "idle")
    BY <1>2, <1>5 DEF TtyDoWrite
  <2> QED  BY <1>2, <1>3, <2>1, <2>2, AllIdle, CallInv
<1>6. CASE SysPrintx
  <2>1. PICK c \in Chars : Call("printx", c)
    BY <1>3, <1>6 DEF SysPrintx
  <2>2. typed' \in 0 .. ReadMax /\ At("printx", "idle")
        /\ overtaken' = (overtaken \/ pc["TTY"] # "idle")
    BY <1>2, <1>6 DEF SysPrintx
  <2>3. overtaken' \in BOOLEAN
    BY <1>2, <2>2
  <2>4. ~overtaken' => ~overtaken /\ \A b \in Actors : pc[b] = "idle"
    BY <2>2 DEF At, Actors
  <2> QED  BY <1>3, <2>1, <2>2, <2>3, <2>4, CallInv
<1>7. CASE InProcess \/ ScrollKey \/ SelectConsole
  BY <1>7, InProcessInv, ScrollKeyInv, SelectConsoleInv
<1>8. CASE UNCHANGED vars
  <2>1. UNCHANGED <<mem, cursor, crtc_start, is_full, current, crtc, typed,
                    pc, ch, pos, paper, back, overtaken>>
    BY <1>8 DEF vars, conVars, callVars
  <2>2. TypeOK' /\ Placed'
    BY <2>1 DEF IInv, TypeOK, Placed, AtEnd, Turns
  <2>3. Synced' /\ OnlyOvertakingFailsAsserts'
    BY <2>1 DEF IInv, Synced, OnlyOvertakingFailsAsserts
  <2> QED  BY <2>2, <2>3 DEF IInv
<1> QED
  BY <1>1, <1>4, <1>5, <1>6, <1>7, <1>8 DEF Next

THEOREM Invariance == Spec => []IInv
<1>1. Init => IInv
  BY InitInv
<1>2. IInv /\ [Next]_vars => IInv'
  BY NextInv
<1> QED  BY <1>1, <1>2, PTL DEF Spec

\* Every position, register and row stays in its range, whoever prints at
\* whatever moment (kernel/console.c).
THEOREM TypeCorrect == Spec => []TypeOK
<1>1. IInv => TypeOK
  BY DEF IInv
<1> QED  BY <1>1, Invariance, PTL

\* The screen shows whole lines of the console and never the memory of the
\* next one, and while nobody prints the registers hold the current console's
\* cursor and start, until a process overtakes TASK_TTY
\* (console.c:scroll_screen, flush).
THEOREM ScreenStaysInside == Spec => []ScreenInside
<1>1. IInv => ScreenInside
  <2> SUFFICES ASSUME IInv PROVE ScreenInside
    OBVIOUS
  <2>1. PICK s \in Starts : crtc_start = s * SCR_WIDTH
    BY DEF IInv, Placed
  <2>2. crtc_start \in 0 .. con_size - SCR_SIZE /\ crtc_start % SCR_WIDTH = 0
    BY <2>1, StartsInside, Sizes DEF Words
  <2> QED  BY <2>2 DEF IInv, Synced, ScreenInside
<1> QED  BY <1>1, Invariance, PTL

\* TASK_TTY finds the cursor inside the console whenever it prints, and so does
\* a process, unless TASK_TTY has just moved the cursor behind the console and
\* was overtaken before it moved it back (console.c:89, 110-128).
THEOREM AssertionsHold == Spec => []OnlyOvertakingFailsAsserts
<1>1. IInv => OnlyOvertakingFailsAsserts
  BY DEF IInv
<1> QED  BY <1>1, Invariance, PTL

----------------------------------------------------------------------------
(* What the screen shows.                                                  *)

\* The longest line that is read can be erased again without leaving the screen.
ReadsFit == ReadMax <= SCR_SIZE - SCR_WIDTH + 1

Rows == Len(paper)
Row == cursor \div SCR_WIDTH
Column == cursor % SCR_WIDTH

\* line l of memory m shows the columns in row
Holds(m, l, row) == \A col \in Cols : m[l * SCR_WIDTH + col] <=> col \in row

\* Down to line l, memory m shows the last of rows; of line l itself only if
\* seen.
Matches(m, l, rows, seen) ==
    \A i \in 0 .. Len(rows) - 1 :
        i <= l /\ (i = 0 => seen) => Holds(m, l - i, rows[Len(rows) - i])

\* From cur on there is nothing: up to the end of the console, or in a console
\* that was full once, of the screen that starts at start.
Blank(m, cur, start, full) ==
    \A p \in Words : p >= cur /\ (full => p < start + SCR_SIZE) => ~m[p]

\* how many characters the user may erase
Erasable == IF typed < ReadMax THEN typed ELSE 0

\* how far the switch will move the cursor, if not to a new line
Moves(c) == IF c = "char" THEN 1 ELSE IF c = "backspace" THEN -1 ELSE 0
DueIn(at, args) ==
    IF \E a \in Actors : at[a] = "put" /\ args[a] = "char" THEN 1
    ELSE IF \E a \in Actors : at[a] = "put" /\ args[a] = "backspace" THEN -1 ELSE 0
Due == DueIn(pc, ch)

\* What may be erased is in the console, on the paper, and in a console that was
\* full once on the screen.
Behind ==
    /\ Erasable <= cursor + Due
    /\ Erasable <= (Rows - 1) * SCR_WIDTH + Column + Due
    /\ is_full /\ ~back => Erasable <= cursor - crtc_start + Due

\* In a console that was full once, the cursor leaves the screen by one line
\* only, until the loop has moved the screen.
OnScreen ==
    is_full /\ ~back =>
        \/ cursor < crtc_start + SCR_SIZE
        \/ cursor = crtc_start + SCR_SIZE /\ \E a \in Actors : pc[a] \in {"wrap", "scroll"}

\* The last row ends at the cursor.
LastRow == \A col \in paper[Rows] : col < Column

\* the cursor's line is one whose content counts
Seen == cursor < con_size /\ (is_full => cursor < crtc_start + SCR_SIZE)

Agree ==
    ~back => /\ Blank(mem, cursor, crtc_start, is_full)
             /\ Matches(mem, Row, paper, Seen)

Shows == Behind /\ OnScreen /\ LastRow /\ Agree

\* A position is one column of one line.
LEMMA Position ==
    ASSUME NEW l \in Nat, NEW c \in Cols
    PROVE  /\ l * SCR_WIDTH + c \in Nat
           /\ (l * SCR_WIDTH + c) \div SCR_WIDTH = l
           /\ (l * SCR_WIDTH + c) % SCR_WIDTH = c
<1> DEFINE x == l * SCR_WIDTH + c
           q == x \div SCR_WIDTH
           r == x % SCR_WIDTH
<1>1. x \in Nat /\ l * SCR_WIDTH \in Nat /\ c \in Nat /\ c < SCR_WIDTH
  BY Lines, Sizes DEF Cols
<1>2. q \in Nat /\ r \in Cols /\ x = q * SCR_WIDTH + r
  BY <1>1, DivMod
<1>3. r \in Nat /\ r < SCR_WIDTH
  BY <1>2, Sizes DEF Cols
<1>4. x = l * SCR_WIDTH + c
  OBVIOUS
<1> HIDE DEF x, q, r
<1>5. ~(q < l)
  <2> SUFFICES ASSUME q < l PROVE FALSE
    OBVIOUS
  <2>1. (q + 1) * SCR_WIDTH <= l * SCR_WIDTH
    BY <1>2, Lines
  <2>2. (q + 1) * SCR_WIDTH = q * SCR_WIDTH + SCR_WIDTH
    BY <1>2, Lines
  <2>3. q * SCR_WIDTH \in Nat
    BY <1>2, Lines
  <2> QED  BY <1>1, <1>2, <1>3, <1>4, <2>1, <2>2, <2>3, Sizes
<1>6. ~(l < q)
  <2> SUFFICES ASSUME l < q PROVE FALSE
    OBVIOUS
  <2>1. (l + 1) * SCR_WIDTH <= q * SCR_WIDTH
    BY <1>2, Lines
  <2>2. (l + 1) * SCR_WIDTH = l * SCR_WIDTH + SCR_WIDTH
    BY <1>2, Lines
  <2>3. q * SCR_WIDTH \in Nat
    BY <1>2, Lines
  <2> QED  BY <1>1, <1>2, <1>3, <1>4, <2>1, <2>2, <2>3, Sizes
<1>7. q = l
  BY <1>2, <1>5, <1>6
<1>8. r = c
  BY <1>1, <1>2, <1>3, <1>4, <1>7
<1> QED  BY <1>1, <1>7, <1>8 DEF x, q, r

\* The columns of a line are words of the console, before those of the lines
\* below.
LEMMA LineColumns ==
    ASSUME NEW l \in Nat, NEW c \in Cols
    PROVE  /\ l < ConLines => l * SCR_WIDTH + c \in Words
           /\ \A k \in Nat : l < k => l * SCR_WIDTH + c < k * SCR_WIDTH
<1>1. l * SCR_WIDTH \in Nat /\ (l + 1) * SCR_WIDTH = l * SCR_WIDTH + SCR_WIDTH
      /\ c \in Nat /\ c < SCR_WIDTH /\ SCR_WIDTH \in Nat
  BY Lines, Sizes DEF Cols
<1>2. ASSUME NEW k \in Nat, l < k
      PROVE  l * SCR_WIDTH + c < k * SCR_WIDTH
  <2>1. (l + 1) * SCR_WIDTH <= k * SCR_WIDTH
    BY <1>2, Lines
  <2>2. k * SCR_WIDTH \in Nat
    BY Lines
  <2> QED  BY <1>1, <2>1, <2>2
<1>3. l < ConLines => l * SCR_WIDTH + c < con_size
  BY <1>2, Sizes
<1> QED  BY <1>1, <1>2, <1>3, Sizes DEF Words

\* The line that is begun is empty on the paper, and in memory if it counts.
LEMMA NewLine ==
    ASSUME NEW m, NEW l \in Nat, NEW rows \in Seq(SUBSET Cols), Len(rows) \in 1 .. Kept,
           NEW seen \in BOOLEAN, Matches(m, l, rows, TRUE), seen => Holds(m, l + 1, {})
    PROVE  Matches(m, l + 1, NewRow(rows), seen)
<1> DEFINE new == NewRow(rows)
           n == Len(new)
<1>1. Kept \in Nat /\ Len(rows) \in Nat /\ Len(rows) >= 1 /\ {} \in SUBSET Cols
  BY Sizes DEF Kept
<1>2. /\ n \in Nat /\ n - 1 <= Len(rows) /\ new[n] = {}
      /\ \A i \in 1 .. n - 1 : new[n - i] = rows[Len(rows) - (i - 1)]
  <2>1. CASE Len(rows) < Kept
    <3>1. new = Append(rows, {})
      BY <2>1 DEF NewRow
    <3> QED  BY <1>1, <3>1, AppendProperties
  <2>2. CASE ~(Len(rows) < Kept)
    <3>1. new = Append(Tail(rows), {})
      BY <2>2 DEF NewRow
    <3>2. /\ Tail(rows) \in Seq(SUBSET Cols) /\ Len(Tail(rows)) = Len(rows) - 1
          /\ \A i \in 1 .. Len(rows) - 1 : Tail(rows)[i] = rows[i + 1]
      BY <1>1, HeadTailProperties
    <3>3. /\ n = Len(rows) /\ new[n] = {}
          /\ \A i \in 1 .. n - 1 : new[i] = Tail(rows)[i]
      BY <1>1, <3>1, <3>2, AppendProperties
    <3>4. ASSUME NEW i \in 1 .. n - 1
          PROVE  new[n - i] = rows[Len(rows) - (i - 1)]
      <4>1. n - i \in 1 .. n - 1 /\ n - i \in 1 .. Len(rows) - 1
        BY <1>1, <3>3
      <4>2. new[n - i] = rows[n - i + 1]
        BY <3>2, <3>3, <4>1
      <4>3. n - i + 1 = Len(rows) - (i - 1)
        BY <1>1, <3>3
      <4> QED  BY <4>2, <4>3
    <3> QED  BY <1>1, <3>3, <3>4
  <2> QED  BY <2>1, <2>2
<1> HIDE DEF new, n
<1>3. ASSUME NEW i \in 0 .. n - 1, i <= l + 1, i = 0 => seen
      PROVE  Holds(m, (l + 1) - i, new[n - i])
  <2>1. CASE i = 0
    <3>1. (l + 1) - i = l + 1 /\ n - i = n
      BY <1>2, <2>1
    <3> QED  BY <1>2, <1>3, <2>1, <3>1
  <2>2. CASE i # 0
    <3>1. i \in 1 .. n - 1 /\ i - 1 \in 0 .. Len(rows) - 1 /\ i - 1 <= l
      BY <1>1, <1>2, <1>3, <2>2
    <3>2. (l + 1) - i = l - (i - 1)
      BY <3>1
    <3>3. Holds(m, l - (i - 1), rows[Len(rows) - (i - 1)])
      BY <3>1 DEF Matches
    <3> QED  BY <1>2, <3>1, <3>2, <3>3
  <2> QED  BY <2>1, <2>2
<1> QED  BY <1>3 DEF Matches, new, n

\* A character comes or goes in the cursor's line.
LEMMA OneWord ==
    ASSUME NEW m, NEW n, NEW l \in Nat, NEW c \in Cols,
           NEW rows \in Seq(SUBSET Cols), Len(rows) >= 1, NEW S \in SUBSET Cols,
           l < ConLines, Matches(m, l, rows, TRUE),
           \A p \in Words : p # l * SCR_WIDTH + c => n[p] = m[p],
           \A k \in Cols : k # c => (k \in S <=> k \in rows[Len(rows)]),
           n[l * SCR_WIDTH + c] <=> c \in S
    PROVE  Matches(n, l, [rows EXCEPT ![Len(rows)] = S], TRUE)
<1> DEFINE new == [rows EXCEPT ![Len(rows)] = S]
<1>1. /\ Len(rows) \in Nat /\ Len(new) = Len(rows) /\ new[Len(rows)] = S
      /\ \A i \in 1 .. Len(rows) - 1 : new[i] = rows[i]
  <2>1. Len(rows) \in 1 .. Len(rows) /\ Len(rows) \in Nat
    OBVIOUS
  <2>2. /\ Len(new) = Len(rows)
        /\ \A i \in 1 .. Len(rows) : new[i] = IF i = Len(rows) THEN S ELSE rows[i]
    BY <2>1, ExceptSeq
  <2> HIDE DEF new
  <2> QED  BY <2>1, <2>2
<1> HIDE DEF new
<1>2. ASSUME NEW i \in 0 .. Len(rows) - 1, i <= l
      PROVE  Holds(n, l - i, new[Len(rows) - i])
  <2>1. Holds(m, l - i, rows[Len(rows) - i])
    BY <1>2 DEF Matches
  <2>2. l - i \in Nat /\ l - i < ConLines
    BY <1>2, Sizes
  <2>3. ASSUME NEW k \in Cols
        PROVE  n[(l - i) * SCR_WIDTH + k] <=> k \in new[Len(rows) - i]
    <3>1. m[(l - i) * SCR_WIDTH + k] <=> k \in rows[Len(rows) - i]
      BY <2>1 DEF Holds
    <3>2. (l - i) * SCR_WIDTH + k \in Words
      BY <2>2, LineColumns
    <3>3. (l - i) * SCR_WIDTH + k = l * SCR_WIDTH + c => i = 0 /\ k = c
      <4>1. (l - i) * SCR_WIDTH + k = l * SCR_WIDTH + c => l - i = l /\ k = c
        BY <2>2, Position
      <4> QED  BY <4>1
    <3>4. CASE i = 0 /\ k = c
      <4>1. l - i = l /\ Len(rows) - i = Len(rows)
        BY <1>1, <3>4
      <4> QED  BY <1>1, <3>4, <4>1
    <3>5. CASE i = 0 /\ k # c
      <4>1. l - i = l /\ Len(rows) - i = Len(rows)
        BY <1>1, <3>5
      <4> QED  BY <1>1, <3>1, <3>2, <3>3, <3>5, <4>1
    <3>6. CASE i # 0
      <4>1. Len(rows) - i \in 1 .. Len(rows) - 1
        BY <1>1, <1>2, <3>6
      <4> QED  BY <1>1, <3>1, <3>2, <3>3, <3>6, <4>1
    <3> QED  BY <3>4, <3>5, <3>6
  <2> QED  BY <2>3 DEF Holds
<1> QED  BY <1>1, <1>2 DEF Matches, new

\* A line that counts and has nothing from its beginning on is empty.
LEMMA BlankLine ==
    ASSUME NEW m, NEW l \in Nat, NEW s \in Starts, NEW full \in BOOLEAN,
           Blank(m, l * SCR_WIDTH, s * SCR_WIDTH, full), l * SCR_WIDTH < con_size,
           full => l * SCR_WIDTH < s * SCR_WIDTH + SCR_SIZE
    PROVE  Holds(m, l, {})
<1>1. s \in Nat /\ s + ScrLines \in Nat
      /\ (s + ScrLines) * SCR_WIDTH = s * SCR_WIDTH + SCR_SIZE
  BY Lines, Sizes DEF Starts
<1>2. l < ConLines
  BY Lines, Sizes
<1>3. full => l < s + ScrLines
  BY <1>1, Lines, Sizes
<1>4. ASSUME NEW col \in Cols
      PROVE  ~m[l * SCR_WIDTH + col]
  <2> DEFINE p == l * SCR_WIDTH + col
  <2>1. p \in Words
    BY <1>2, LineColumns
  <2>2. full => p < s * SCR_WIDTH + SCR_SIZE
    BY <1>1, <1>3, LineColumns
  <2>3. p >= l * SCR_WIDTH
    BY Lines, Sizes DEF Cols
  <2> HIDE DEF p
  <2>4. ~m[p]
    BY <2>1, <2>2, <2>3 DEF Blank
  <2> QED  BY <2>4 DEF p
<1> QED  BY <1>4 DEF Holds

\* Only the switch has something left to do.
LEMMA DueIs ==
    ASSUME NEW at, NEW args
    PROVE  /\ (\A b \in Actors : at[b] # "put") => DueIn(at, args) = 0
           /\ \A a \in Actors :
                 at[a] = "put" /\ args[a] \in Chars
                 /\ (\A b \in Actors : b # a => at[b] = "idle")
                 => DueIn(at, args) = Moves(args[a])
BY DEF DueIn, Moves, Chars

\* What holds of the cursor when out_char is called and up to the switch.
LEMMA BeforePut ==
    ASSUME IInv, ~overtaken, Shows, \A b \in Actors : pc[b] \notin {"wrap", "scroll"}
    PROVE  /\ cursor \in Nat /\ cursor < con_size
           /\ Row \in Nat /\ Row < ConLines /\ Column \in Cols
           /\ cursor = Row * SCR_WIDTH + Column
           /\ ~back => Seen
           /\ Rows \in 1 .. Kept /\ paper \in Seq(SUBSET Cols)
<1>1. cursor \in Nat /\ cursor < con_size
  <2>1. pc["TTY"] # "wrap" /\ pc["printx"] # "wrap"
    BY DEF Actors
  <2> QED  BY <2>1, Sizes DEF IInv, TypeOK, Placed, AtEnd
<1>2. Row \in Nat /\ Row < ConLines /\ Column \in Cols
      /\ cursor = Row * SCR_WIDTH + Column
  <2>1. Row \in 0 .. ConLines - 1
    BY <1>1, LineOf DEF Row
  <2>2. Column \in Cols /\ cursor = Row * SCR_WIDTH + Column
    BY <1>1, DivMod DEF Row, Column
  <2> QED  BY <2>1, <2>2, Sizes
<1>3. ~back => Seen
  BY <1>1 DEF Shows, OnScreen, Seen
<1> QED  BY <1>1, <1>2, <1>3 DEF IInv, TypeOK, Placed, Rows

\* The cursor goes to a new line.
LEMMA LineEnds ==
    ASSUME NEW m, NEW l \in Nat, NEW rows \in Seq(SUBSET Cols), Len(rows) \in 1 .. Kept,
           NEW s \in Starts, crtc_start' = s * SCR_WIDTH, is_full' \in BOOLEAN,
           mem' = m, cursor' = (l + 1) * SCR_WIDTH, paper' = NewRow(rows),
           ~back' => Matches(m, l, rows, TRUE) /\ Blank(m, cursor', crtc_start', is_full')
    PROVE  LastRow' /\ Agree' /\ Row' = l + 1 /\ Column' = 0
<1>1. Row' = l + 1 /\ Column' = 0
  <2>1. l + 1 \in Nat /\ 0 \in Cols /\ cursor' = (l + 1) * SCR_WIDTH + 0
    BY Lines, Sizes DEF Cols
  <2>2. ((l + 1) * SCR_WIDTH + 0) \div SCR_WIDTH = l + 1
        /\ ((l + 1) * SCR_WIDTH + 0) % SCR_WIDTH = 0
    BY <2>1, Position
  <2> QED  BY <2>1, <2>2 DEF Row, Column
<1>2. LastRow'
  <2>1. paper'[Len(paper')] = {}
    <3>1. {} \in SUBSET Cols /\ Kept \in Nat /\ rows # <<>>
      BY Sizes DEF Kept
    <3>2. CASE Len(rows) < Kept
      BY <3>1, <3>2, AppendProperties DEF NewRow
    <3>3. CASE ~(Len(rows) < Kept)
      <4>1. Tail(rows) \in Seq(SUBSET Cols)
        BY <3>1, HeadTailProperties
      <4> QED  BY <3>1, <3>3, <4>1, AppendProperties DEF NewRow
    <3> QED  BY <3>2, <3>3
  <2> QED  BY <2>1 DEF LastRow, Rows
<1>3. ASSUME ~back'
      PROVE  Matches(mem', Row', paper', Seen')
  <2>1. Seen' \in BOOLEAN
    BY DEF Seen
  <2>2. Seen' => Holds(m, l + 1, {})
    BY <1>3, l + 1 \in Nat, BlankLine DEF Seen
  <2>3. Matches(m, l, rows, TRUE)
    BY <1>3
  <2> HIDE DEF Seen
  <2>4. Matches(m, l + 1, NewRow(rows), Seen')
    BY <2>1, <2>2, <2>3, NewLine
  <2> QED  BY <1>1, <2>4
<1>4. Agree'
  BY <1>3 DEF Agree
<1> QED  BY <1>1, <1>2, <1>4

\* What may be erased is still on the paper when the row ends behind column c.
LEMMA RowEnds ==
    ASSUME NEW rows \in Seq(SUBSET Cols), Len(rows) \in 1 .. Kept, NEW e \in Nat,
           e <= SCR_SIZE, NEW c \in 0 .. SCR_WIDTH, e <= (Len(rows) - 1) * SCR_WIDTH + c
    PROVE  e <= (Len(NewRow(rows)) - 1) * SCR_WIDTH
<1>1. Kept = ScrLines + 1 /\ Kept \in Nat /\ rows # <<>> /\ {} \in SUBSET Cols
      /\ Len(rows) - 1 \in Nat
  BY Sizes DEF Kept
<1>2. CASE Len(rows) < Kept
  <2>1. Len(NewRow(rows)) = Len(rows) + 1
    BY <1>1, <1>2, AppendProperties DEF NewRow
  <2>2. ((Len(rows) - 1) + 1) * SCR_WIDTH = (Len(rows) - 1) * SCR_WIDTH + SCR_WIDTH
    BY <1>1, Lines
  <2>3. (Len(rows) - 1) * SCR_WIDTH \in Nat
    BY <1>1, Lines
  <2>4. Len(NewRow(rows)) - 1 = (Len(rows) - 1) + 1
    BY <2>1, <1>1
  <2> QED  BY <2>2, <2>3, <2>4, Sizes
<1>3. CASE ~(Len(rows) < Kept)
  <2>1. Tail(rows) \in Seq(SUBSET Cols) /\ Len(Tail(rows)) = Len(rows) - 1
    BY <1>1, HeadTailProperties
  <2>2. Len(NewRow(rows)) = Len(rows)
    BY <1>1, <1>3, <2>1, AppendProperties DEF NewRow
  <2>3. Len(NewRow(rows)) - 1 = ScrLines
    BY <2>2, <1>1, <1>3, Sizes
  <2> QED  BY <2>3, Sizes
<1> QED  BY <1>2, <1>3

\* What may be erased fits on the screen.
LEMMA ErasableFits ==
    ASSUME IInv, ReadsFit
    PROVE  /\ Erasable \in Nat /\ Erasable <= SCR_SIZE - SCR_WIDTH /\ Erasable <= SCR_SIZE
BY ConsoleAssumption, Sizes DEF IInv, TypeOK, ReadsFit, Erasable

\* The switch: what is called for.
LEMMA PutIs ==
    ASSUME IInv, ~overtaken, Shows, NEW a \in Actors, Put(a)
    PROVE  /\ pc[a] = "put" /\ pos[a] = cursor /\ ch[a] \in Chars
           /\ \A b \in Actors : b # a => pc[b] = "idle"
           /\ \A b \in Actors : pc[b] \notin {"wrap", "scroll"}
           /\ Due = Moves(ch[a])
           /\ pc'[a] = "wrap" /\ (\A b \in Actors : b # a => pc'[b] = "idle") /\ Due' = 0
           /\ paper' = Printed(paper, ch[a], Column)
           /\ UNCHANGED <<crtc_start, is_full, typed, back, Erasable>>
<1>1. /\ pc[a] = "put" /\ ch[a] \in Chars
      /\ pc \in [Actors -> {"idle", "put", "wrap", "scroll", "key", "assert"}]
  BY DEF Put, At, IInv, TypeOK
<1>2. \A b \in Actors : b # a => pc[b] = "idle"
  BY <1>1, OthersIdle
<1>3. pos[a] = cursor
  BY <1>1 DEF IInv, Placed, Turns
<1>4. pc' = [pc EXCEPT ![a] = "wrap"]
      /\ paper' = Printed(paper, ch[a], pos[a] % SCR_WIDTH)
      /\ UNCHANGED <<crtc_start, is_full, typed, back>>
  BY DEF Put, Goto
<1>5. pc'[a] = "wrap" /\ \A b \in Actors : b # a => pc'[b] = "idle"
  BY <1>1, <1>2, <1>4
<1>6. Due = Moves(ch[a])
  BY <1>1, <1>2, DueIs DEF Due
<1>7. Due' = 0
  <2>1. \A b \in Actors : pc'[b] # "put"
    BY <1>5
  <2> QED  BY <2>1, DueIs DEF Due
<1>8. UNCHANGED Erasable
  BY <1>4 DEF Erasable
<1>9. \A b \in Actors : pc[b] \notin {"wrap", "scroll"}
  BY <1>1, <1>2
<1> QED  BY <1>1, <1>2, <1>3, <1>4, <1>5, <1>6, <1>7, <1>8, <1>9 DEF Column

LEMMA NewlineShows ==
    ASSUME IInv, ~overtaken, Shows, ReadsFit, NEW a \in Actors, Put(a), ch[a] = "newline"
    PROVE  Shows'
<1> DEFINE l == Row
           c == Column
           next == (l + 1) * SCR_WIDTH
<1>1. /\ cursor \in Nat /\ cursor < con_size /\ l \in Nat /\ l < ConLines /\ c \in Cols
      /\ cursor = l * SCR_WIDTH + c /\ (~back => Seen)
      /\ Rows \in 1 .. Kept /\ paper \in Seq(SUBSET Cols)
  BY PutIs, BeforePut
<1>2. /\ Due = 0 /\ Due' = 0 /\ pc'[a] = "wrap"
      /\ UNCHANGED <<crtc_start, is_full, typed, back, Erasable>>
  BY PutIs DEF Moves
<1>3. paper' = NewRow(paper)
  BY PutIs DEF Printed
<1>4. mem' = mem /\ cursor' = next
  <2>1. mem' = mem /\ cursor' = SCR_WIDTH * (cursor \div SCR_WIDTH + 1)
    BY PutIs DEF Put
  <2>2. SCR_WIDTH * (Row + 1) = (Row + 1) * SCR_WIDTH
    BY <1>1, Sizes
  <2> QED  BY <2>1, <2>2 DEF Row
<1>5. PICK s \in Starts : crtc_start = s * SCR_WIDTH
  BY DEF IInv, Placed
<1>6. is_full \in BOOLEAN
  BY DEF IInv, TypeOK
<1>7. next \in Nat /\ next = l * SCR_WIDTH + SCR_WIDTH /\ cursor < next
      /\ c \in 0 .. SCR_WIDTH
  BY <1>1, Lines, Sizes DEF Cols
<1> HIDE DEF l, c, next
<1>8. ~back => Matches(mem, l, paper, TRUE) /\ Blank(mem, next, crtc_start, is_full)
  <2> SUFFICES ASSUME ~back
               PROVE  Matches(mem, l, paper, TRUE) /\ Blank(mem, next, crtc_start, is_full)
    OBVIOUS
  <2>1. Blank(mem, cursor, crtc_start, is_full) /\ Matches(mem, Row, paper, Seen) /\ Seen
    BY <1>1 DEF Shows, Agree
  <2>2. Matches(mem, Row, paper, TRUE)
    BY <2>1 DEF Matches
  <2>3. Blank(mem, next, crtc_start, is_full)
    BY <2>1, <1>7, <1>1 DEF Blank, Words
  <2> QED  BY <2>2, <2>3 DEF l
<1>9. LastRow' /\ Agree' /\ Row' = l + 1 /\ Column' = 0
  <2>1. crtc_start' = s * SCR_WIDTH /\ is_full' \in BOOLEAN
    BY <1>2, <1>5, <1>6
  <2>2. cursor' = (l + 1) * SCR_WIDTH /\ l \in Nat
    BY <1>1, <1>4 DEF next
  <2>3. ~back' => Matches(mem, l, paper, TRUE) /\ Blank(mem, cursor', crtc_start', is_full')
    BY <1>2, <1>4, <1>8
  <2>4. Len(paper) \in 1 .. Kept
    BY <1>1 DEF Rows
  <2> QED  BY <1>1, <1>3, <1>4, <2>1, <2>2, <2>3, <2>4, LineEnds
<1>10. Behind'
  <2>1. Erasable \in Nat /\ Erasable <= SCR_SIZE
    BY ErasableFits
  <2>2. Erasable <= cursor /\ Erasable <= (Rows - 1) * SCR_WIDTH + Column
        /\ (is_full /\ ~back => Erasable <= cursor - crtc_start)
    <3>1. (Rows - 1) * SCR_WIDTH \in Nat /\ crtc_start \in Nat
      <4>1. Rows - 1 \in Nat /\ s \in Nat
        BY <1>1, Sizes DEF Kept, Starts
      <4> QED  BY <1>5, <4>1, Lines
    <3>2. Column \in Nat
      BY <1>1, Sizes DEF c, Cols
    <3> QED  BY <1>1, <1>2, <2>1, <3>1, <3>2 DEF Shows, Behind
  <2>3. Erasable <= (Len(NewRow(paper)) - 1) * SCR_WIDTH
    BY <1>1, <1>7, <2>1, <2>2, RowEnds DEF Rows, c
  <2>4. (Rows' - 1) * SCR_WIDTH \in Nat /\ Rows' = Len(NewRow(paper))
    <3>1. Len(NewRow(paper)) \in 1 .. Kept /\ Kept \in Nat
      BY <1>1, <1>3, PutInv, Sizes DEF IInv, TypeOK, Kept
    <3>2. Len(NewRow(paper)) - 1 \in Nat
      BY <3>1
    <3> QED  BY <1>3, <3>2, Lines DEF Rows
  <2>5. crtc_start \in Nat
    BY <1>5, Lines DEF Starts
  <2> QED  BY <1>1, <1>2, <1>4, <1>7, <1>9, <2>1, <2>2, <2>3, <2>4, <2>5 DEF Behind
<1>11. OnScreen'
  <2> SUFFICES ASSUME is_full, ~back
               PROVE  cursor' <= crtc_start + SCR_SIZE
    <3>1. cursor' \in Nat /\ crtc_start + SCR_SIZE \in Nat
      BY <1>4, <1>5, <1>7, Lines, Sizes DEF Starts
    <3> QED  BY <1>2, <3>1 DEF OnScreen
  <2>1. s \in Nat /\ s + ScrLines \in Nat
        /\ (s + ScrLines) * SCR_WIDTH = s * SCR_WIDTH + SCR_SIZE
    BY Lines, Sizes DEF Starts
  <2>2. cursor < (s + ScrLines) * SCR_WIDTH
    BY <1>1, <1>5, <2>1 DEF Seen
  <2>3. l * SCR_WIDTH <= cursor
    BY <1>1, Lines, Sizes DEF Cols
  <2>4. s + ScrLines <= l => (s + ScrLines) * SCR_WIDTH <= l * SCR_WIDTH
    BY <1>1, <2>1, Lines
  <2>5. l + 1 <= s + ScrLines
    <3>1. l * SCR_WIDTH \in Nat /\ (s + ScrLines) * SCR_WIDTH \in Nat
      BY <1>1, <2>1, Lines
    <3> QED  BY <1>1, <2>1, <2>2, <2>3, <2>4, <3>1
  <2>6. (l + 1) * SCR_WIDTH <= (s + ScrLines) * SCR_WIDTH
    BY <1>1, <2>1, <2>5, Lines
  <2> QED  BY <1>4, <1>5, <2>1, <2>6 DEF next
<1> QED  BY <1>9, <1>10, <1>11 DEF Shows

LEMMA CharShows ==
    ASSUME IInv, ~overtaken, Shows, ReadsFit, NEW a \in Actors, Put(a), ch[a] = "char"
    PROVE  Shows'
<1> DEFINE l == Row
           c == Column
           S == paper[Rows] \cup {c}
           put == [paper EXCEPT ![Rows] = S]
<1>1. /\ cursor \in Nat /\ cursor < con_size /\ l \in Nat /\ l < ConLines /\ c \in Cols
      /\ cursor = l * SCR_WIDTH + c /\ (~back => Seen)
      /\ Rows \in 1 .. Kept /\ paper \in Seq(SUBSET Cols)
  BY PutIs, BeforePut
<1>2. /\ Due = 1 /\ Due' = 0 /\ pc'[a] = "wrap"
      /\ UNCHANGED <<crtc_start, is_full, typed, back, Erasable>>
  BY PutIs DEF Moves
<1>3. paper' = IF c = SCR_WIDTH - 1 THEN NewRow(put) ELSE put
  <2>1. paper' = Printed(paper, "char", Column)
    BY PutIs
  <2> QED  BY <2>1 DEF Printed, Rows
<1>4. mem' = [mem EXCEPT ![cursor] = TRUE] /\ cursor' = cursor + 1
  BY PutIs DEF Put, Followed
<1>5. PICK s \in Starts : crtc_start = s * SCR_WIDTH
  BY DEF IInv, Placed
<1>6. is_full \in BOOLEAN /\ mem \in [Words -> BOOLEAN]
  BY DEF IInv, TypeOK
<1>7. l * SCR_WIDTH \in Nat /\ (l + 1) * SCR_WIDTH = l * SCR_WIDTH + SCR_WIDTH
      /\ c \in Nat /\ c < SCR_WIDTH /\ crtc_start \in Nat /\ SCR_WIDTH \in Nat
      /\ Rows - 1 \in Nat /\ (Rows - 1) * SCR_WIDTH \in Nat
  <2>1. Rows - 1 \in Nat /\ s \in Nat /\ c \in Nat /\ c < SCR_WIDTH
    BY <1>1, Sizes DEF Kept, Starts, Cols
  <2> QED  BY <1>1, <1>5, <2>1, Lines, Sizes
<1>8. S \in SUBSET Cols /\ paper[Rows] \in SUBSET Cols
  BY <1>1, ElementOfSeq DEF Rows
<1>9. put \in Seq(SUBSET Cols) /\ Len(put) = Rows /\ put[Rows] = S
  <2>1. Rows \in 1 .. Len(paper)
    BY <1>1 DEF Rows
  <2> HIDE DEF S
  <2>2. put \in Seq(SUBSET Cols) /\ Len(put) = Len(paper) /\ put[Rows] = S
    BY <1>1, <1>8, <2>1, ExceptSeq
  <2> QED  BY <2>2 DEF Rows
<1>10. ~back => Matches(mem', l, put, TRUE) /\ Blank(mem', cursor', crtc_start, is_full)
  <2> SUFFICES ASSUME ~back
               PROVE  Matches(mem', l, put, TRUE) /\ Blank(mem', cursor', crtc_start, is_full)
    OBVIOUS
  <2>1. Blank(mem, cursor, crtc_start, is_full) /\ Matches(mem, Row, paper, Seen) /\ Seen
    BY <1>1 DEF Shows, Agree
  <2>2. Matches(mem, l, paper, TRUE)
    BY <2>1 DEF Matches
  <2>3. cursor \in Words /\ mem'[cursor] /\ \A p \in Words : p # cursor => mem'[p] = mem[p]
    BY <1>1, <1>4, <1>6, Sizes DEF Words
  <2>4. Matches(mem', l, put, TRUE)
    <3>1. \A k \in Cols : k # c => (k \in S <=> k \in paper[Len(paper)])
      BY DEF Rows
    <3>2. c \in S
      OBVIOUS
    <3>3. Len(paper) >= 1 /\ put = [paper EXCEPT ![Len(paper)] = S]
      BY <1>1 DEF Rows
    <3> HIDE DEF S, put, l, c
    <3>4. /\ \A p \in Words : p # l * SCR_WIDTH + c => mem'[p] = mem[p]
          /\ mem'[l * SCR_WIDTH + c] <=> c \in S
      BY <1>1, <2>3, <3>2
    <3>5. Matches(mem', l, [paper EXCEPT ![Len(paper)] = S], TRUE)
      BY <1>1, <1>8, <2>2, <3>1, <3>3, <3>4, OneWord
    <3> QED  BY <3>3, <3>5
  <2>5. Blank(mem', cursor', crtc_start, is_full)
    BY <1>1, <1>4, <2>1, <2>3 DEF Blank, Words
  <2> QED  BY <2>4, <2>5
<1>11. /\ Erasable \in Nat /\ Erasable <= SCR_SIZE
       /\ Erasable <= cursor + 1 /\ Erasable <= (Rows - 1) * SCR_WIDTH + (c + 1)
       /\ (is_full /\ ~back => Erasable <= cursor + 1 - crtc_start)
  <2>1. Erasable \in Nat /\ Erasable <= SCR_SIZE
    BY ErasableFits
  <2> QED  BY <1>1, <1>2, <1>7, <2>1 DEF Shows, Behind
<1>12. OnScreen'
  <2> SUFFICES ASSUME is_full, ~back
               PROVE  cursor' <= crtc_start + SCR_SIZE
    <3>1. cursor' \in Nat /\ crtc_start + SCR_SIZE \in Nat
      BY <1>1, <1>4, <1>7, Sizes
    <3> QED  BY <1>2, <3>1 DEF OnScreen
  <2> QED  BY <1>1, <1>4, <1>7, Sizes DEF Seen
<1> HIDE DEF S, put
<1>13. CASE c = SCR_WIDTH - 1
  <2> HIDE DEF c, l
  <2>1. cursor' = (l + 1) * SCR_WIDTH
    BY <1>1, <1>4, <1>7, <1>13
  <2>2. paper' = NewRow(put)
    BY <1>3, <1>13
  <2>3. crtc_start' = s * SCR_WIDTH /\ is_full' \in BOOLEAN
    BY <1>2, <1>5, <1>6
  <2>4. ~back' => Matches(mem', l, put, TRUE) /\ Blank(mem', cursor', crtc_start', is_full')
    BY <1>2, <1>10
  <2>5. Len(put) \in 1 .. Kept
    BY <1>1, <1>9
  <2>6. LastRow' /\ Agree' /\ Row' = l + 1 /\ Column' = 0
    BY <1>1, <1>9, <2>1, <2>2, <2>3, <2>4, <2>5, LineEnds
  <2>7. Behind'
    <3>1. Erasable <= (Len(NewRow(put)) - 1) * SCR_WIDTH
      <4>1. c + 1 \in 0 .. SCR_WIDTH
        BY <1>7
      <4> QED  BY <1>9, <1>11, <2>5, <4>1, RowEnds
    <3>2. (Rows' - 1) * SCR_WIDTH \in Nat /\ Rows' = Len(NewRow(put))
      <4>1. Len(paper') \in 1 .. Kept /\ Kept \in Nat
        <5>1. TypeOK'
          BY PutInv DEF IInv
        <5> QED  BY <5>1, Sizes DEF TypeOK, Kept
      <4>2. Len(paper') - 1 \in Nat
        BY <4>1
      <4> QED  BY <2>2, <4>2, Lines DEF Rows
    <3> QED  BY <1>1, <1>2, <1>4, <1>7, <1>11, <2>6, <3>1, <3>2 DEF Behind
  <2> QED  BY <1>12, <2>6, <2>7 DEF Shows
<1>14. CASE c # SCR_WIDTH - 1
  <2>1. Row' = l /\ Column' = c + 1 /\ c + 1 \in Cols
    <3> HIDE DEF c, l
    <3>1. c + 1 \in Cols /\ cursor' = l * SCR_WIDTH + (c + 1)
      BY <1>1, <1>4, <1>7, <1>14 DEF Cols
    <3>2. (l * SCR_WIDTH + (c + 1)) \div SCR_WIDTH = l
          /\ (l * SCR_WIDTH + (c + 1)) % SCR_WIDTH = c + 1
      BY <1>1, <3>1, Position
    <3> QED  BY <3>1, <3>2 DEF Row, Column
  <2>2. paper' = put /\ Rows' = Rows
    BY <1>3, <1>9, <1>14 DEF Rows
  <2>3. LastRow'
    <3>1. \A col \in paper[Rows] : col < c /\ col \in Nat
      BY <1>8, Sizes DEF Shows, LastRow, Cols
    <3>2. \A col \in S : col < c + 1
      BY <1>7, <3>1 DEF S
    <3> QED  BY <1>9, <2>1, <2>2, <3>2 DEF LastRow
  <2> HIDE DEF c, l
  <2>4. Agree'
    <3> SUFFICES ASSUME ~back
                 PROVE  Matches(mem', l, put, Seen') /\ Blank(mem', cursor', crtc_start, is_full)
      BY <1>2, <2>1, <2>2 DEF Agree
    <3>1. Matches(mem', l, put, TRUE)
      BY <1>10
    <3>2. Matches(mem', l, put, Seen')
      BY <3>1 DEF Matches
    <3> QED  BY <1>10, <3>2
  <2>5. Behind'
    BY <1>1, <1>2, <1>4, <1>7, <1>11, <2>1, <2>2 DEF Behind
  <2> QED  BY <1>12, <2>3, <2>4, <2>5 DEF Shows
<1> QED  BY <1>13, <1>14

LEMMA BackspaceShows ==
    ASSUME IInv, ~overtaken, Shows, ReadsFit, NEW a \in Actors, Put(a), ch[a] = "backspace"
    PROVE  Shows'
<1> DEFINE l == Row
           c == Column
<1>1. /\ cursor \in Nat /\ cursor < con_size /\ l \in Nat /\ l < ConLines /\ c \in Cols
      /\ cursor = l * SCR_WIDTH + c /\ (~back => Seen)
      /\ Rows \in 1 .. Kept /\ paper \in Seq(SUBSET Cols)
  BY PutIs, BeforePut
<1>2. /\ Due = -1 /\ Due' = 0 /\ pc'[a] = "wrap"
      /\ UNCHANGED <<crtc_start, is_full, typed, back, Erasable>>
  BY PutIs DEF Moves
<1>3. paper' = Printed(paper, "backspace", Column)
  BY PutIs
<1>4. PICK s \in Starts : crtc_start = s * SCR_WIDTH
  BY DEF IInv, Placed
<1>5. l * SCR_WIDTH \in Nat /\ c \in Nat /\ c < SCR_WIDTH /\ crtc_start \in Nat
      /\ SCR_WIDTH \in Nat \ {0} /\ Rows - 1 \in Nat /\ (Rows - 1) * SCR_WIDTH \in Nat
  <2>1. Rows - 1 \in Nat /\ s \in Nat /\ c \in Nat /\ c < SCR_WIDTH
    BY <1>1, Sizes DEF Kept, Starts, Cols
  <2> QED  BY <1>1, <1>4, <2>1, Lines, Sizes
<1>6. /\ Erasable \in Nat /\ Erasable <= cursor - 1
      /\ Erasable <= (Rows - 1) * SCR_WIDTH + c - 1
      /\ (is_full /\ ~back => Erasable <= cursor - 1 - crtc_start)
  <2>1. Erasable \in Nat
    BY ErasableFits
  <2> QED  BY <1>1, <1>2, <1>5, <2>1 DEF Shows, Behind
<1>7. mem' = Cleared(mem, cursor - 1, 1) /\ cursor' = cursor - 1 /\ cursor > 0
  <2>1. cursor > 0
    BY <1>1, <1>6
  <2> QED  BY <2>1, PutIs DEF Put, Followed
<1>8. cursor - 1 \in Words /\ ~mem'[cursor - 1]
      /\ \A p \in Words : p # cursor - 1 => mem'[p] = mem[p]
  <2>1. mem \in [Words -> BOOLEAN] /\ cursor - 1 \in Words
    <3>1. mem \in [Words -> BOOLEAN]
      BY DEF IInv, TypeOK
    <3> QED  BY <1>1, <1>7, <3>1, Sizes DEF Words
  <2>2. cursor - 1 \in (cursor - 1) .. (cursor - 1) + 1 - 1
        /\ \A p \in Words : p # cursor - 1 => p \notin (cursor - 1) .. (cursor - 1) + 1 - 1
    BY <1>1 DEF Words
  <2>3. mem' = [i \in Words |-> mem[i] /\ i \notin (cursor - 1) .. (cursor - 1) + 1 - 1]
    BY <1>7 DEF Cleared
  <2>4. ~mem'[cursor - 1]
    BY <2>1, <2>2, <2>3
  <2>5. ASSUME NEW p \in Words, p # cursor - 1
        PROVE  mem'[p] = mem[p]
    <3>1. mem'[p] = (mem[p] /\ p \notin (cursor - 1) .. (cursor - 1) + 1 - 1)
      BY <2>3, Zenon
    <3>2. mem[p] \in BOOLEAN /\ p \notin (cursor - 1) .. (cursor - 1) + 1 - 1
      BY <2>1, <2>2, <2>5
    <3> QED  BY <3>1, <3>2, Zenon
  <2> QED  BY <2>1, <2>4, <2>5
<1>9. ~back => /\ Blank(mem', cursor', crtc_start, is_full)
               /\ Matches(mem, l, paper, TRUE)
  <2> SUFFICES ASSUME ~back
               PROVE  Blank(mem', cursor', crtc_start, is_full) /\ Matches(mem, l, paper, TRUE)
    OBVIOUS
  <2>1. Blank(mem, cursor, crtc_start, is_full) /\ Matches(mem, Row, paper, Seen) /\ Seen
    BY <1>1 DEF Shows, Agree
  <2>2. Matches(mem, l, paper, TRUE)
    BY <2>1 DEF Matches
  <2>3. Blank(mem', cursor', crtc_start, is_full)
    BY <1>1, <1>7, <1>8, <2>1 DEF Blank, Words
  <2> QED  BY <2>2, <2>3
<1>10. OnScreen'
  <2> SUFFICES ASSUME is_full, ~back
               PROVE  cursor' < crtc_start + SCR_SIZE
    BY <1>2 DEF OnScreen
  <2> QED  BY <1>1, <1>5, <1>7, Sizes DEF Seen
\* behind a character of this row, or at its beginning
<1>11. ASSUME NEW k \in Nat, k < ConLines, NEW d \in Cols, cursor - 1 = k * SCR_WIDTH + d,
              NEW rows \in Seq(SUBSET Cols), Len(rows) \in 1 .. Kept,
              paper' = [rows EXCEPT ![Len(rows)] = rows[Len(rows)] \ {d}],
              \A col \in rows[Len(rows)] \ {d} : col < d,
              ~back => Matches(mem, k, rows, TRUE),
              (Len(rows) - 1) * SCR_WIDTH + d = (Rows - 1) * SCR_WIDTH + c - 1
       PROVE  Shows'
  <2> DEFINE S == rows[Len(rows)] \ {d}
  <2>1. S \in SUBSET Cols /\ Len(rows) \in 1 .. Len(rows) /\ Len(rows) >= 1
    BY <1>11, Sizes, ElementOfSeq DEF Kept
  <2>2. Rows' = Len(rows) /\ paper'[Rows'] = S
    <3> HIDE DEF S
    <3>1. paper' = [rows EXCEPT ![Len(rows)] = S]
      BY <1>11 DEF S
    <3> QED  BY <2>1, <3>1, ExceptSeq DEF Rows
  <2>3. Row' = k /\ Column' = d
    BY <1>7, <1>11, Position DEF Row, Column
  <2>4. LastRow'
    BY <1>11, <2>2, <2>3 DEF LastRow
  <2>5. Agree'
    <3> SUFFICES ASSUME ~back
                 PROVE  Matches(mem', k, paper', Seen') /\ Blank(mem', cursor', crtc_start, is_full)
      BY <1>2, <2>3 DEF Agree
    <3>1. \A j \in Cols : j # d => (j \in S <=> j \in rows[Len(rows)])
      OBVIOUS
    <3>2. d \notin S
      OBVIOUS
    <3>3. paper' = [rows EXCEPT ![Len(rows)] = S]
      BY <1>11
    <3> HIDE DEF S
    <3>4. /\ \A p \in Words : p # k * SCR_WIDTH + d => mem'[p] = mem[p]
          /\ mem'[k * SCR_WIDTH + d] <=> d \in S
      BY <1>8, <1>11, <3>2
    <3>5. Matches(mem', k, [rows EXCEPT ![Len(rows)] = S], TRUE)
      BY <1>11, <2>1, <3>1, <3>4, OneWord
    <3>6. Matches(mem', k, paper', Seen')
      BY <3>3, <3>5 DEF Matches
    <3> QED  BY <1>9, <3>6
  <2>6. Behind'
    <3> HIDE DEF c
    <3>1. Erasable <= (Rows' - 1) * SCR_WIDTH + Column'
      BY <1>6, <1>11, <2>2, <2>3
    <3>2. (Rows' - 1) * SCR_WIDTH + Column' \in Int
      BY <1>5, <1>11, <2>2, <2>3
    <3> QED  BY <1>1, <1>2, <1>5, <1>6, <1>7, <3>1, <3>2 DEF Behind
  <2> QED  BY <1>10, <2>4, <2>5, <2>6 DEF Shows
<1>12. paper[Rows] \in SUBSET Cols /\ Len(paper) = Rows
  BY <1>1, ElementOfSeq DEF Rows
<1>13. CASE c > 0
  <2>1. paper' = [paper EXCEPT ![Len(paper)] = paper[Len(paper)] \ {c - 1}]
    BY <1>3, <1>13 DEF Printed
  <2>2. c - 1 \in Cols /\ cursor - 1 = l * SCR_WIDTH + (c - 1)
    <3> HIDE DEF c, l
    <3> QED  BY <1>1, <1>5, <1>13 DEF Cols
  <2>3. \A col \in paper[Len(paper)] \ {c - 1} : col < c - 1
    <3>1. \A col \in paper[Rows] : col < c /\ col \in Nat
      BY <1>12, Sizes DEF Shows, LastRow, Cols
    <3> HIDE DEF c
    <3> QED  BY <1>5, <1>12, <3>1
  <2>4. (Len(paper) - 1) * SCR_WIDTH + (c - 1) = (Rows - 1) * SCR_WIDTH + c - 1
    <3> HIDE DEF c
    <3> QED  BY <1>5, <1>12
  <2> HIDE DEF c, l
  <2> QED  BY <1>1, <1>9, <1>11, <1>12, <2>1, <2>2, <2>3, <2>4
<1>14. CASE c = 0
  <2> DEFINE r == SubSeq(paper, 1, Rows - 1)
             d == SCR_WIDTH - 1
  <2>1. Rows > 1 /\ l > 0
    <3> HIDE DEF c, l
    <3>1. 0 * SCR_WIDTH = 0
      BY <1>5
    <3> QED  BY <1>1, <1>5, <1>6, <1>7, <1>14, <3>1
  <2>2. r \in Seq(SUBSET Cols) /\ Len(r) = Rows - 1
        /\ \A i \in 1 .. Rows - 1 : r[i] = paper[i]
    BY <1>1, <1>12, <2>1
  <2>3. paper' = [r EXCEPT ![Rows - 1] = r[Rows - 1] \ {d}]
    <3>1. ~(Column > 0) /\ Column = 0 /\ Len(paper) > 1
      BY <1>12, <1>14, <2>1
    <3>2. Printed(paper, "backspace", Column) =
            [SubSeq(paper, 1, Len(paper) - 1) EXCEPT ![Len(paper) - 1] = @ \ {SCR_WIDTH - 1}]
      BY <3>1, Zenon DEF Printed
    <3> QED  BY <1>3, <1>12, <3>2
  <2>4. l - 1 \in Nat /\ l - 1 < ConLines /\ d \in Cols /\ cursor - 1 = (l - 1) * SCR_WIDTH + d
    <3> HIDE DEF c, l
    <3>1. l - 1 \in Nat /\ l - 1 < ConLines /\ d \in Cols
      BY <1>1, <1>5, <2>1, Sizes DEF Cols
    <3>2. ((l - 1) + 1) * SCR_WIDTH = (l - 1) * SCR_WIDTH + SCR_WIDTH
      BY <3>1, Lines
    <3>3. (l - 1) + 1 = l /\ (l - 1) * SCR_WIDTH \in Nat
      BY <1>1, <3>1, Lines
    <3> QED  BY <1>1, <1>5, <1>14, <3>1, <3>2, <3>3
  <2>5. r[Rows - 1] \in SUBSET Cols
    BY <1>12, <2>1, <2>2, <1>1, ElementOfSeq
  <2>6. \A col \in r[Rows - 1] \ {d} : col < d
    <3> HIDE DEF r
    <3>1. \A col \in r[Rows - 1] : col \in Nat /\ col < SCR_WIDTH
      BY <2>5, Sizes DEF Cols
    <3> QED  BY <1>5, <3>1
  <2>7. ~back => Matches(mem, l - 1, r, TRUE)
    <3> SUFFICES ASSUME Matches(mem, l, paper, TRUE), NEW i \in 0 .. Len(r) - 1, i <= l - 1
                 PROVE  Holds(mem, (l - 1) - i, r[Len(r) - i])
      BY <1>9 DEF Matches
    <3> HIDE DEF r, l
    <3>1. i + 1 \in 0 .. Rows - 1 /\ i + 1 <= l /\ i + 1 # 0
      BY <1>1, <2>1, <2>2
    <3>2. Holds(mem, l - (i + 1), paper[Rows - (i + 1)])
      BY <1>12, <3>1 DEF Matches
    <3>3. l - (i + 1) = (l - 1) - i /\ Rows - (i + 1) = Len(r) - i /\ Len(r) - i \in 1 .. Rows - 1
      BY <1>1, <2>1, <2>2, Sizes DEF Kept
    <3> QED  BY <2>2, <3>2, <3>3
  <2>8. (Len(r) - 1) * SCR_WIDTH + d = (Rows - 1) * SCR_WIDTH + c - 1
    <3> HIDE DEF r, c
    <3>1. Rows - 2 \in Nat /\ (Rows - 2) + 1 = Rows - 1 /\ Len(r) - 1 = Rows - 2
      BY <1>1, <2>1, <2>2, Sizes DEF Kept
    <3>2. ((Rows - 2) + 1) * SCR_WIDTH = (Rows - 2) * SCR_WIDTH + SCR_WIDTH
      BY <3>1, Lines
    <3>3. (Rows - 2) * SCR_WIDTH \in Nat
      BY <3>1, Lines
    <3> QED  BY <1>5, <1>14, <3>1, <3>2, <3>3
  <2>9. Len(r) \in 1 .. Kept /\ Len(r) = Rows - 1
    <3> HIDE DEF r
    <3> QED  BY <1>1, <2>1, <2>2, Sizes DEF Kept
  <2> HIDE DEF r, d, l, c
  <2> QED  BY <1>11, <2>2, <2>3, <2>4, <2>6, <2>7, <2>8, <2>9
<1> QED  BY <1>5, <1>13, <1>14

LEMMA PutShows ==
    ASSUME IInv, ~overtaken, Shows, ReadsFit, NEW a \in Actors, Put(a)
    PROVE  Shows'
BY PutIs, NewlineShows, CharShows, BackspaceShows DEF Chars

\* What counts is unchanged.
LEMMA SameShows ==
    ASSUME Shows, UNCHANGED <<mem, cursor, crtc_start, is_full, typed, paper, back>>,
           Due' = Due,
           is_full /\ ~back /\ ~(cursor < crtc_start + SCR_SIZE) =>
               \E a \in Actors : pc'[a] \in {"wrap", "scroll"}
    PROVE  Shows'
<1>1. UNCHANGED <<Row, Column, Rows, Erasable, Seen>>
  BY DEF Row, Column, Rows, Erasable, Seen
<1>2. Behind'
  BY <1>1 DEF Shows, Behind
<1>3. OnScreen'
  BY DEF Shows, OnScreen
<1>4. LastRow' /\ Agree'
  BY <1>1 DEF Shows, LastRow, Agree
<1> QED  BY <1>2, <1>3, <1>4 DEF Shows

\* At the end of the console the lines above the cursor's and an empty one are
\* at its beginning.
LEMMA WrapShows ==
    ASSUME IInv, ~overtaken, Shows, ReadsFit, NEW a \in Actors, Wrap(a)
    PROVE  Shows'
<1>1. /\ pc[a] = "wrap" /\ cursor \in 0 .. con_size /\ mem \in [Words -> BOOLEAN]
      /\ \A b \in Actors : b # a => pc[b] = "idle"
  <2>1. pc[a] = "wrap" /\ cursor \in 0 .. con_size /\ mem \in [Words -> BOOLEAN]
    BY DEF IInv, Wrap, At, TypeOK
  <2> QED  BY <2>1, OthersIdle
<1>2. pc'[a] = "scroll" /\ (\A b \in Actors : b # a => pc'[b] = "idle")
      /\ UNCHANGED <<typed, paper, back>>
  BY <1>1 DEF Wrap, Goto, IInv, TypeOK
<1>3. Due = 0 /\ Due' = 0
  <2>1. \A b \in Actors : pc[b] # "put" /\ pc'[b] # "put"
    BY <1>1, <1>2
  <2> QED  BY <2>1, DueIs DEF Due
<1>4. CASE ~(cursor >= con_size)
  <2>1. UNCHANGED <<mem, cursor, crtc_start, is_full>>
    BY <1>4 DEF Wrap, conVars
  <2> QED  BY <1>2, <1>3, <2>1, SameShows
<1>5. CASE cursor >= con_size
  <2> DEFINE first == ConLines + 1 - ScrLines
             last == ScrLines - 1
             size == SCR_SIZE - SCR_WIDTH
  <2>1. /\ first \in Nat /\ last \in Nat /\ first + last = ConLines /\ last <= first
        /\ 0 < last /\ last < ConLines /\ ConLines + 1 \in Nat
    BY Sizes
  <2>2. /\ size = last * SCR_WIDTH /\ size \in Nat /\ SCR_WIDTH \in Nat \ {0}
        /\ SCR_SIZE = size + SCR_WIDTH
        /\ (ConLines + 1) * SCR_WIDTH - SCR_SIZE = first * SCR_WIDTH
    <3>1. (last + 1) * SCR_WIDTH = last * SCR_WIDTH + SCR_WIDTH /\ last * SCR_WIDTH \in Nat
      BY <2>1, Lines
    <3>2. last + 1 = ScrLines
      BY Sizes
    <3>3. (first + ScrLines) * SCR_WIDTH = first * SCR_WIDTH + ScrLines * SCR_WIDTH
          /\ first * SCR_WIDTH \in Nat
      BY <2>1, Lines, Sizes
    <3>4. first + ScrLines = ConLines + 1
      BY Sizes
    <3> HIDE DEF first, last
    <3> QED  BY <3>1, <3>2, <3>3, <3>4, Sizes
  <2> HIDE DEF first, last
  <2>3. cursor = ConLines * SCR_WIDTH + 0 /\ cursor = con_size
    BY <1>1, <1>5, Sizes
  <2>4. Row = ConLines /\ Column = 0
    <3>1. 0 \in Cols /\ ConLines \in Nat
      BY Sizes DEF Cols
    <3>2. (ConLines * SCR_WIDTH + 0) \div SCR_WIDTH = ConLines
          /\ (ConLines * SCR_WIDTH + 0) % SCR_WIDTH = 0
      BY <3>1, Position
    <3> QED  BY <2>3, <3>2 DEF Row, Column
  <2> HIDE DEF size
  <2>5. /\ mem' = Cleared(Copied(mem, 0, first * SCR_WIDTH, size), size, SCR_WIDTH)
        /\ crtc_start' = 0 /\ cursor' = size /\ is_full' = TRUE
    <3> DEFINE src == (cursor \div SCR_WIDTH + 1) * SCR_WIDTH - SCR_SIZE
               cur == SCR_SIZE - SCR_WIDTH + (cursor % SCR_WIDTH)
    <3>1. /\ mem' = Cleared(Copied(mem, 0, src, SCR_SIZE - SCR_WIDTH), cur, SCR_WIDTH)
          /\ crtc_start' = 0 /\ cursor' = cur /\ is_full' = TRUE
      BY <1>5 DEF Wrap, Followed
    <3>2. src = first * SCR_WIDTH
      BY <2>2, <2>4 DEF Row
    <3>3. cur = size /\ SCR_SIZE - SCR_WIDTH = size
      BY <2>2, <2>4, Sizes DEF Column
    <3> HIDE DEF src, cur
    <3> QED  BY <3>1, <3>2, <3>3
  <2>6. Row' = last /\ Column' = 0
    <3>1. 0 \in Cols /\ cursor' = last * SCR_WIDTH + 0
      BY <2>2, <2>5, Sizes DEF Cols
    <3>2. (last * SCR_WIDTH + 0) \div SCR_WIDTH = last
          /\ (last * SCR_WIDTH + 0) % SCR_WIDTH = 0
      BY <2>1, <3>1, Position
    <3> QED  BY <3>1, <3>2 DEF Row, Column
  <2>7. \A p \in Words : size <= p /\ p < size + SCR_WIDTH => ~mem'[p]
    <3>1. \A p \in Words : size <= p /\ p < size + SCR_WIDTH => p \in size .. size + SCR_WIDTH - 1
      BY <2>2, Sizes DEF Words
    <3> QED  BY <2>5, <3>1, Zenon DEF Cleared
  <2>8. ASSUME NEW p \in Words, p < size, first * SCR_WIDTH + p \in Words
        PROVE  mem'[p] <=> mem[first * SCR_WIDTH + p]
    <3> DEFINE q == first * SCR_WIDTH + p - 0
    <3>1. p \in 0 .. 0 + size - 1 /\ p \notin size .. size + SCR_WIDTH - 1
          /\ q = first * SCR_WIDTH + p
      BY <2>2, <2>8, Sizes DEF Words
    <3> HIDE DEF q
    <3>2. Copied(mem, 0, first * SCR_WIDTH, size)[p] <=> (q \in Words /\ mem[q])
      BY <3>1, Zenon DEF Copied, q
    <3>3. mem'[p] <=> /\ Copied(mem, 0, first * SCR_WIDTH, size)[p]
                      /\ p \notin size .. size + SCR_WIDTH - 1
      BY <2>5, Zenon DEF Cleared
    <3> QED  BY <2>8, <3>1, <3>2, <3>3, Zenon
  <2>9. paper' = paper /\ Rows' = Rows /\ paper[Rows] = {}
       /\ Rows - 1 \in Nat /\ Rows \in Nat
    <3>1. Rows \in 1 .. Len(paper) /\ Rows \in Nat /\ paper \in Seq(SUBSET Cols) /\ Rows - 1 \in Nat
      BY Sizes DEF IInv, TypeOK, Placed, Rows, Kept
    <3>2. paper[Rows] \in SUBSET Cols
      BY <3>1, ElementOfSeq
    <3>3. \A col \in paper[Rows] : col < 0 /\ col \in Nat
      BY <2>4, <3>2, Sizes DEF Shows, LastRow, Cols
    <3>4. paper[Rows] = {}
      BY <3>3
    <3> QED  BY <1>2, <3>1, <3>4 DEF Rows
  <2>10. LastRow'
    BY <2>9 DEF LastRow
  <2>11. OnScreen'
    BY <2>2, <2>5 DEF OnScreen
  <2>12. Behind'
    <3>1. Erasable \in Nat /\ Erasable <= size
      BY ErasableFits DEF size
    <3>2. Erasable' = Erasable
      BY <1>2 DEF Erasable
    <3>3. (Rows - 1) * SCR_WIDTH \in Nat
      BY <2>9, Lines
    <3>4. Erasable <= (Rows - 1) * SCR_WIDTH
      BY <1>3, <2>4, <3>1, <3>3 DEF Shows, Behind
    <3> QED  BY <1>3, <2>2, <2>5, <2>6, <2>9, <3>1, <3>2, <3>3, <3>4 DEF Behind
  <2>13. ASSUME ~back
         PROVE  Blank(mem', cursor', 0, TRUE)
    BY <2>2, <2>5, <2>7 DEF Blank
  <2>14. ASSUME ~back, NEW i \in 0 .. Rows - 1, i <= last
         PROVE  Holds(mem', last - i, paper[Rows - i])
    <3>1. CASE i = 0
      <4>1. last - i = last /\ Rows - i = Rows
        BY <2>1, <2>9, <3>1
      <4>2. ASSUME NEW col \in Cols
            PROVE  ~mem'[last * SCR_WIDTH + col]
        <5>1. last * SCR_WIDTH + col \in Words
          BY <2>1, LineColumns
        <5>2. size <= last * SCR_WIDTH + col /\ last * SCR_WIDTH + col < size + SCR_WIDTH
          BY <2>2, Sizes DEF Cols
        <5> QED  BY <2>7, <5>1, <5>2
      <4> QED  BY <2>9, <4>1, <4>2 DEF Holds
    <3>2. CASE i # 0
      <4> DEFINE j == last - i
      <4>1. j \in Nat /\ j < last /\ j < ConLines /\ first + j \in Nat /\ first + j < ConLines
            /\ Row - i = first + j /\ i <= Row
        BY <2>1, <2>4, <2>14, <3>2, Sizes
      <4>2. Holds(mem, first + j, paper[Rows - i])
        <5>1. Matches(mem, Row, paper, Seen) /\ i \in 0 .. Len(paper) - 1
          BY <2>14 DEF Shows, Agree, Rows
        <5> HIDE DEF j
        <5> QED  BY <3>2, <4>1, <5>1 DEF Matches, Rows
      <4> HIDE DEF j
      <4>3. ASSUME NEW col \in Cols
            PROVE  mem'[j * SCR_WIDTH + col] <=> col \in paper[Rows - i]
        <5> DEFINE p == j * SCR_WIDTH + col
        <5>1. p \in Words /\ p < size
          BY <2>1, <2>2, <4>1, LineColumns
        <5>2. (first + j) * SCR_WIDTH + col \in Words
          BY <4>1, LineColumns
        <5>3. first * SCR_WIDTH + p = (first + j) * SCR_WIDTH + col
          <6>1. (first + j) * SCR_WIDTH = first * SCR_WIDTH + j * SCR_WIDTH
                /\ first * SCR_WIDTH \in Nat /\ j * SCR_WIDTH \in Nat /\ col \in Nat
            BY <2>1, <4>1, Lines, Sizes DEF Cols
          <6> QED  BY <6>1
        <5> HIDE DEF p
        <5>4. mem'[p] <=> mem[first * SCR_WIDTH + p]
          BY <2>8, <5>1, <5>2, <5>3
        <5>5. mem[(first + j) * SCR_WIDTH + col] <=> col \in paper[Rows - i]
          BY <4>2 DEF Holds
        <5> QED  BY <5>3, <5>4, <5>5 DEF p
      <4> QED  BY <4>3 DEF Holds, j
    <3> QED  BY <3>1, <3>2
  <2>15. Agree'
    <3> SUFFICES ASSUME ~back
                 PROVE  Blank(mem', cursor', 0, TRUE) /\ Matches(mem', last, paper, Seen')
      BY <1>2, <2>5, <2>6, <2>9 DEF Agree
    <3>1. Matches(mem', last, paper, Seen')
      BY <2>14 DEF Matches, Rows
    <3> QED  BY <2>13, <3>1
  <2> QED  BY <2>10, <2>11, <2>12, <2>15 DEF Shows
<1> QED  BY <1>4, <1>5

\* A turn of the loop: the screen moves on by a line, which is cleared.
LEMMA ScrollShows ==
    ASSUME IInv, ~overtaken, Shows, ReadsFit, NEW a \in Actors, Scroll(a)
    PROVE  Shows'
<1>1. /\ pc[a] = "scroll" /\ cursor \in Nat /\ mem \in [Words -> BOOLEAN] /\ is_full \in BOOLEAN
      /\ \A b \in Actors : b # a => pc[b] = "idle"
  <2>1. /\ pc[a] = "scroll" /\ cursor \in Nat /\ mem \in [Words -> BOOLEAN]
        /\ is_full \in BOOLEAN
    BY Sizes DEF IInv, Scroll, At, TypeOK
  <2> QED  BY <2>1, OthersIdle
<1>2. cursor < con_size
  BY CursorInside DEF Scroll
<1>3. /\ crtc_start' = Scrolled(cursor, crtc_start, is_full, "SCR_UP")
      /\ mem' = Cleared(mem, cursor, SCR_WIDTH)
      /\ UNCHANGED <<cursor, is_full, typed, pc, ch, paper, back>> /\ ~CursorShown
  BY DEF Scroll, callVars, Followed
<1>4. \A b \in Actors : pc[b] # "put"
  BY <1>1
<1>5. Due = 0 /\ Due' = 0
  <2>1. Due = 0
    BY <1>4, DueIs DEF Due
  <2>2. Due' = Due
    BY <1>3 DEF Due
  <2> QED  BY <2>1, <2>2
<1>6. UNCHANGED <<Row, Column, Rows, Erasable>>
  BY <1>3 DEF Row, Column, Rows, Erasable
<1>7. LastRow'
  BY <1>3, <1>6 DEF Shows, LastRow
<1>8. \A p \in Words : mem'[p] <=> mem[p] /\ ~(cursor <= p /\ p < cursor + SCR_WIDTH)
  <2>1. \A p \in Words : p \in cursor .. cursor + SCR_WIDTH - 1 <=>
                            cursor <= p /\ p < cursor + SCR_WIDTH
    BY <1>1, Sizes DEF Words
  <2> QED  BY <1>3, <2>1, Zenon DEF Cleared
<1>9. Row \in Nat /\ Row < ConLines /\ Column \in Cols /\ cursor = Row * SCR_WIDTH + Column
  <2>1. Row \in 0 .. ConLines - 1
    BY <1>1, <1>2, LineOf DEF Row
  <2>2. Column \in Cols /\ cursor = Row * SCR_WIDTH + Column
    BY <1>1, DivMod DEF Row, Column
  <2> QED  BY <2>1, <2>2, Sizes
<1>10. Rows - 1 \in Nat /\ Rows \in Nat /\ Rows = Len(paper) /\ paper[Rows] \in SUBSET Cols
       /\ Erasable \in Nat
  <2>1. Rows \in 1 .. Len(paper) /\ paper \in Seq(SUBSET Cols) /\ Rows \in Nat /\ Rows - 1 \in Nat
    BY Sizes DEF IInv, TypeOK, Placed, Rows, Kept
  <2>2. paper[Rows] \in SUBSET Cols
    BY <2>1, ElementOfSeq
  <2>3. Erasable \in Nat
    BY ConsoleAssumption DEF IInv, TypeOK, Erasable
  <2> QED  BY <2>1, <2>2, <2>3 DEF Rows
<1>11. CASE ~is_full
  <2>1. Behind'
    BY <1>3, <1>5, <1>6, <1>11 DEF Shows, Behind
  <2>2. OnScreen'
    BY <1>3, <1>11 DEF OnScreen
  <2>3. Agree'
    <3> SUFFICES ASSUME ~back
                 PROVE  /\ Blank(mem', cursor, crtc_start', FALSE)
                        /\ Matches(mem', Row, paper, Seen')
      BY <1>1, <1>3, <1>6, <1>11 DEF Agree
    <3>1. Blank(mem, cursor, crtc_start, FALSE) /\ Matches(mem, Row, paper, TRUE)
      <4>1. is_full = FALSE /\ Seen
        BY <1>1, <1>2, <1>11 DEF Seen
      <4> QED  BY <4>1 DEF Shows, Agree, Matches
    <3>2. \A p \in Words : mem'[p] <=> mem[p]
      BY <1>8, <3>1 DEF Blank
    <3>3. Blank(mem', cursor, crtc_start', FALSE)
      BY <3>1, <3>2 DEF Blank
    <3>4. ASSUME NEW i \in 0 .. Len(paper) - 1, i <= Row
          PROVE  Holds(mem', Row - i, paper[Len(paper) - i])
      <4>1. Holds(mem, Row - i, paper[Len(paper) - i])
        BY <3>1, <3>4 DEF Matches
      <4>2. Row - i \in Nat /\ Row - i < ConLines
        BY <1>9, <3>4, Sizes
      <4>3. \A col \in Cols : (Row - i) * SCR_WIDTH + col \in Words
        BY <4>2, LineColumns
      <4> QED  BY <3>2, <4>1, <4>3 DEF Holds
    <3> QED  BY <3>3, <3>4 DEF Matches
  <2> QED  BY <1>7, <2>1, <2>2, <2>3 DEF Shows
<1>12. CASE is_full /\ back
  <2> QED  BY <1>3, <1>5, <1>6, <1>7, <1>12 DEF Shows, Behind, OnScreen, Agree
<1>13. CASE is_full /\ ~back
  <2>1. PICK s \in Starts : crtc_start = s * SCR_WIDTH
    BY DEF IInv, Placed
  <2>2. s \in Nat /\ s + ScrLines \in Nat /\ crtc_start \in Nat
        /\ (s + ScrLines) * SCR_WIDTH = crtc_start + SCR_SIZE
    BY <2>1, Lines, Sizes DEF Starts
  <2>3. cursor = crtc_start + SCR_SIZE
    <3>1. cursor >= crtc_start
      BY <1>1, <1>5, <1>10, <1>13, <2>2 DEF Shows, Behind
    <3> QED  BY <1>1, <1>3, <1>13, <2>2, <3>1, Sizes DEF Shows, OnScreen, CursorShown
  <2>4. Row = s + ScrLines /\ Column = 0
    <3>1. cursor = (s + ScrLines) * SCR_WIDTH + 0 /\ 0 \in Cols
      BY <1>1, <2>2, <2>3, Sizes DEF Cols
    <3>2. ((s + ScrLines) * SCR_WIDTH + 0) \div SCR_WIDTH = s + ScrLines
          /\ ((s + ScrLines) * SCR_WIDTH + 0) % SCR_WIDTH = 0
      BY <2>2, <3>1, Position
    <3> QED  BY <3>1, <3>2 DEF Row, Column
  <2>5. crtc_start' = crtc_start + SCR_WIDTH
    <3> DEFINE newest == (cursor \div SCR_WIDTH) * SCR_WIDTH
    <3>1. newest = crtc_start + SCR_SIZE
      BY <2>2, <2>4 DEF Row
    <3>2. crtc_start + SCR_SIZE - SCR_WIDTH # newest /\ crtc_start + SCR_SIZE # con_size
      <4> HIDE DEF newest
      <4> QED  BY <1>2, <2>2, <2>3, <3>1, Sizes
    <3>3. Scrolled(cursor, crtc_start, is_full, "SCR_UP") =
             IF crtc_start + SCR_SIZE = con_size THEN 0 ELSE crtc_start + SCR_WIDTH
      BY <1>13, <3>2, Zenon DEF Scrolled
    <3> QED  BY <1>3, <3>2, <3>3
  <2>6. cursor < crtc_start' + SCR_SIZE /\ crtc_start' + SCR_SIZE = cursor + SCR_WIDTH
        /\ cursor - crtc_start' = SCR_SIZE - SCR_WIDTH
    BY <1>1, <2>2, <2>3, <2>5, Sizes
  <2>7. OnScreen'
    BY <1>3, <2>6 DEF OnScreen
  <2>8. Behind'
    <3>1. Erasable <= SCR_SIZE - SCR_WIDTH
      BY ErasableFits
    <3> QED  BY <1>3, <1>5, <1>6, <2>6, <3>1, <1>1, <1>10, Sizes DEF Shows, Behind
  <2>9. Blank(mem', cursor, crtc_start', TRUE)
    BY <1>8, <2>6 DEF Blank
  <2>10. paper[Rows] = {}
    <3>1. \A col \in paper[Rows] : col < 0 /\ col \in Nat
      BY <1>10, <2>4, Sizes DEF Shows, LastRow, Cols
    <3> QED  BY <3>1
  <2>11. ASSUME NEW i \in 0 .. Rows - 1, i <= Row
         PROVE  Holds(mem', Row - i, paper[Rows - i])
    <3>1. Row - i \in Nat /\ Row - i < ConLines /\ (i # 0 => Row - i < Row)
      BY <1>9, <2>11, Sizes
    <3>2. \A col \in Cols : (Row - i) * SCR_WIDTH + col \in Words
      BY <3>1, LineColumns
    <3>3. CASE i = 0
      <4>1. Row - i = Row /\ Rows - i = Rows
        BY <1>9, <1>10, <3>3
      <4>2. \A col \in Cols : cursor <= Row * SCR_WIDTH + col
                              /\ Row * SCR_WIDTH + col < cursor + SCR_WIDTH
        BY <1>1, <1>9, <2>4, Sizes DEF Cols
      <4> QED  BY <1>8, <2>10, <3>2, <4>1, <4>2 DEF Holds
    <3>4. CASE i # 0
      <4>1. Holds(mem, Row - i, paper[Rows - i])
        BY <1>10, <1>13, <2>11, <3>4 DEF Shows, Agree, Matches
      <4>2. \A col \in Cols : (Row - i) * SCR_WIDTH + col < Row * SCR_WIDTH
        BY <1>9, <3>1, <3>4, LineColumns
      <4>3. cursor = Row * SCR_WIDTH
        BY <1>1, <2>2, <2>3, <2>4
      <4>4. \A col \in Cols : ~(cursor <= (Row - i) * SCR_WIDTH + col)
        BY <1>1, <3>2, <4>2, <4>3, Sizes DEF Words
      <4> QED  BY <1>8, <3>2, <4>1, <4>4 DEF Holds
    <3> QED  BY <3>3, <3>4
  <2>12. Agree'
    <3> SUFFICES Blank(mem', cursor, crtc_start', TRUE) /\ Matches(mem', Row, paper, Seen')
      <4>1. is_full' = TRUE
        BY <1>1, <1>3, <1>13
      <4> QED  BY <1>3, <1>6, <4>1 DEF Agree
    <3> QED  BY <1>10, <2>9, <2>11 DEF Matches
  <2> QED  BY <1>7, <2>7, <2>8, <2>12 DEF Shows
<1> QED  BY <1>1, <1>11, <1>12, <1>13

LEMMA ReturnShows ==
    ASSUME IInv, ~overtaken, Shows, NEW a \in Actors, Return(a)
    PROVE  Shows'
<1>1. /\ pc[a] = "scroll"
      /\ pc \in [Actors -> {"idle", "put", "wrap", "scroll", "key", "assert"}]
      /\ \A b \in Actors : b # a => pc[b] = "idle"
  <2>1. /\ pc[a] = "scroll"
        /\ pc \in [Actors -> {"idle", "put", "wrap", "scroll", "key", "assert"}]
    BY DEF IInv, Return, At, TypeOK
  <2> QED  BY <2>1, OthersIdle
<1>2. /\ pc' = [pc EXCEPT ![a] = "idle"] /\ cursor < crtc_start + SCR_SIZE
      /\ UNCHANGED <<mem, cursor, crtc_start, is_full, typed, paper, back>>
  BY DEF Return, Goto, conVars, CursorShown
<1>3. Due = 0 /\ Due' = 0
  <2>1. \A b \in Actors : pc[b] # "put" /\ pc'[b] # "put"
    BY <1>1, <1>2
  <2> QED  BY <2>1, DueIs DEF Due
<1> QED  BY <1>2, <1>3, SameShows

\* Whoever calls out_char counts what may be erased by what he prints.
LEMMA CallShows ==
    ASSUME IInv, ~overtaken, Shows, NEW a \in Actors, NEW c \in Chars,
           \A b \in Actors : pc[b] = "idle",
           Call(a, c), Erasable' \in Nat,
           Erasable' <= Erasable + Moves(c) \/ (Erasable' = 0 /\ c = "newline")
    PROVE  Shows'
<1>1. cursor < con_size
  <2>1. pc["TTY"] = "idle" /\ pc["printx"] = "idle"
    BY DEF Actors
  <2> QED  BY <2>1, Sizes DEF IInv, TypeOK, Placed, AtEnd
<1>2. /\ pc' = [pc EXCEPT ![a] = "put"] /\ ch' = [ch EXCEPT ![a] = c]
      /\ UNCHANGED <<mem, cursor, crtc_start, is_full, paper, back>>
  BY <1>1 DEF Call, Goto, conVars
<1>3. Due = 0 /\ Due' = Moves(c)
  <2>1. pc'[a] = "put" /\ ch'[a] = c /\ \A b \in Actors : b # a => pc'[b] = "idle"
    BY <1>2 DEF IInv, TypeOK
  <2>2. \A b \in Actors : pc[b] # "put"
    OBVIOUS
  <2> QED  BY <2>1, <2>2, DueIs DEF Due
<1>4. UNCHANGED <<Row, Column, Rows, Seen>>
  BY <1>2 DEF Row, Column, Rows, Seen
<1>5. LastRow' /\ Agree'
  BY <1>2, <1>4 DEF Shows, LastRow, Agree
<1>6. OnScreen'
  BY <1>2 DEF Shows, OnScreen
<1>7. Behind'
  <2>1. cursor \in Nat /\ crtc_start \in Nat /\ Erasable \in Nat
    <3>1. crtc_start \in Nat
      BY StartsInside DEF IInv, Placed, Words
    <3> QED  BY <3>1, Sizes, ConsoleAssumption DEF IInv, TypeOK, Erasable
  <2>2. (Rows - 1) * SCR_WIDTH + Column \in Nat
    <3>1. Rows - 1 \in Nat
      BY Sizes DEF IInv, TypeOK, Rows, Kept
    <3>2. Column \in Nat
      BY <2>1, DivMod, Sizes DEF Column, Cols
    <3>3. (Rows - 1) * SCR_WIDTH \in Nat
      BY <3>1, Lines
    <3> QED  BY <3>2, <3>3
  <2>3. Moves(c) \in {-1, 0, 1} /\ (c = "newline" => Moves(c) = 0)
    BY DEF Moves
  <2> QED  BY <1>2, <1>3, <1>4, <2>1, <2>2, <2>3 DEF Shows, Behind
<1> QED  BY <1>5, <1>6, <1>7 DEF Shows

\* While TASK_TTY takes up a key or has done so nobody is in out_char.
LEMMA KeyPlaces ==
    ASSUME IInv, NEW from \in {"idle", "key"}, NEW to \in {"idle", "key"},
           At("TTY", from), pc' = [pc EXCEPT !["TTY"] = to]
    PROVE  \A b \in Actors : pc[b] \in {"idle", "key"} /\ pc'[b] \in {"idle", "key"}
BY DEF IInv, TypeOK, At, Actors

\* Scrolling by hand does not change what counts: in a console that was full
\* once it ends it.
LEMMA ScrollKeyShows ==
    ASSUME IInv, ~overtaken, Shows, ScrollKey
    PROVE  Shows'
<1>1. /\ back' = (back \/ (is_full /\ crtc_start' # crtc_start))
      /\ UNCHANGED <<mem, cursor, is_full, typed, paper>>
      /\ is_full \in BOOLEAN /\ back \in BOOLEAN
      /\ \A b \in Actors : pc[b] \in {"idle", "key"} /\ pc'[b] \in {"idle", "key"}
  <2>1. /\ back' = (back \/ (is_full /\ crtc_start' # crtc_start))
        /\ UNCHANGED <<mem, cursor, is_full, typed, paper>>
        /\ is_full \in BOOLEAN /\ back \in BOOLEAN
    BY DEF ScrollKey, IInv, TypeOK
  <2>2. At("TTY", "key") /\ pc' = [pc EXCEPT !["TTY"] = "idle"]
    BY DEF ScrollKey, Goto
  <2> QED  BY <2>1, <2>2, KeyPlaces
<1>2. UNCHANGED <<Row, Column, Rows, Erasable, Due>>
  <2>1. Due = 0 /\ Due' = 0
    <3>1. \A b \in Actors : pc[b] # "put" /\ pc'[b] # "put"
      BY <1>1
    <3> QED  BY <3>1, DueIs DEF Due
  <2> QED  BY <1>1, <2>1 DEF Row, Column, Rows, Erasable
<1>3. LastRow'
  BY <1>1, <1>2 DEF Shows, LastRow
<1>4. CASE is_full /\ crtc_start' # crtc_start
  BY <1>1, <1>2, <1>3, <1>4 DEF Shows, Behind, OnScreen, Agree
<1>5. CASE crtc_start' = crtc_start
  <2>1. back' = back
    BY <1>1, <1>5
  <2> QED  BY <1>1, <1>2, <1>5, <2>1, SameShows DEF Shows, OnScreen
<1>6. CASE ~is_full
  <2>1. back' = back /\ is_full = FALSE
    BY <1>1, <1>6
  <2>2. Seen' = Seen
    BY <1>1, <1>6 DEF Seen
  <2>3. Agree'
    BY <1>1, <1>2, <2>1, <2>2 DEF Shows, Agree, Blank
  <2> QED  BY <1>1, <1>2, <1>3, <2>1, <2>3 DEF Shows, Behind, OnScreen
<1> QED  BY <1>4, <1>5, <1>6

LEMMA InitShows ==
    ASSUME Init
    PROVE  Shows
<1>1. PICK line \in 0 .. ScrLines - 1 :
         cursor = line * SCR_WIDTH /\ paper = [i \in 1 .. line + 1 |-> {}]
  BY Zenon DEF Init
<1>2. /\ mem = [p \in Words |-> FALSE] /\ is_full = FALSE /\ typed = 0
      /\ pc = [a \in Actors |-> "idle"]
  BY DEF Init
<1>3. line \in Nat /\ Rows = line + 1 /\ \A i \in 1 .. line + 1 : paper[i] = {}
  <2>1. line \in Nat
    BY Sizes
  <2>2. paper \in Seq(SUBSET Cols) /\ Len(paper) = line + 1
    BY <1>1, <2>1
  <2> QED  BY <1>1, <2>1, <2>2 DEF Rows
<1>4. Row = line /\ Column = 0
  <2>1. cursor = line * SCR_WIDTH + 0 /\ 0 \in Cols
    BY <1>1, <1>3, Lines, Sizes DEF Cols
  <2>2. (line * SCR_WIDTH + 0) \div SCR_WIDTH = line /\ (line * SCR_WIDTH + 0) % SCR_WIDTH = 0
    BY <1>3, <2>1, Position
  <2> QED  BY <2>1, <2>2 DEF Row, Column
<1>5. line < ConLines /\ line * SCR_WIDTH \in Nat
  BY <1>3, Lines, Sizes
<1>6. Due = 0
  BY <1>2, DueIs DEF Due
<1>7. Behind
  <2>1. Erasable = 0
    BY <1>2, ConsoleAssumption DEF Erasable
  <2>2. (Rows - 1) * SCR_WIDTH = line * SCR_WIDTH
    BY <1>3
  <2> QED  BY <1>1, <1>2, <1>4, <1>5, <1>6, <2>1, <2>2 DEF Behind
<1>8. OnScreen /\ LastRow
  BY <1>2, <1>3 DEF OnScreen, LastRow
<1>9. Blank(mem, cursor, crtc_start, is_full)
  BY <1>2 DEF Blank
<1>10. ASSUME NEW i \in 0 .. Rows - 1
       PROVE  Holds(mem, line - i, paper[Rows - i])
  <2>1. line - i \in Nat /\ line - i < ConLines /\ Rows - i \in 1 .. line + 1
    BY <1>3, <1>5, Sizes
  <2>2. \A col \in Cols : (line - i) * SCR_WIDTH + col \in Words
    BY <2>1, LineColumns
  <2> QED  BY <1>2, <1>3, <2>1, <2>2 DEF Holds
<1>11. Agree
  BY <1>4, <1>9, <1>10 DEF Agree, Matches, Rows
<1> QED  BY <1>7, <1>8, <1>11 DEF Shows

LEMMA NextShows ==
    ASSUME IInv, ~overtaken => Shows, ReadsFit, [Next]_vars, ~overtaken'
    PROVE  Shows'
<1>0. ~overtaken /\ Shows
  <2>1. overtaken' = overtaken \/ overtaken' = (overtaken \/ pc["TTY"] # "idle")
    BY DEF Next, OutCharStep, Put, Wrap, Scroll, Return, Echo, TtyDoWrite, SysPrintx,
           InProcess, ScrollKey, SelectConsole, vars
  <2>2. overtaken \in BOOLEAN
    BY DEF IInv, TypeOK
  <2>3. ~overtaken
    BY <2>1, <2>2
  <2> QED  BY <2>3
<1>1. ASSUME NEW a \in Actors, OutCharStep(a)
      PROVE  Shows'
  BY <1>0, <1>1, PutShows, WrapShows, ScrollShows, ReturnShows DEF OutCharStep
<1>2. typed \in 0 .. ReadMax /\ ReadMax \in Nat \ {0}
  BY ConsoleAssumption DEF IInv, TypeOK
<1>3. "TTY" \in Actors /\ "printx" \in Actors /\ {"char", "newline", "backspace"} = Chars
  BY DEF Actors, Chars
<1>4. Moves("char") = 1 /\ Moves("newline") = 0 /\ Moves("backspace") = -1
  BY DEF Moves
<1>5. CASE Echo
  <2>1. PICK c \in Chars : /\ Call("TTY", c)
                           /\ \/ c = "char" /\ typed < ReadMax /\ typed' = typed + 1
                              \/ c = "backspace" /\ typed \in 1 .. ReadMax - 1 /\ typed' = typed - 1
                              \/ c = "newline" /\ typed' = 0
    BY <1>3, <1>5 DEF Echo
  <2>2. \A b \in Actors : pc[b] = "idle"
    BY <1>5, AllIdle DEF Echo
  <2>3. /\ Erasable' \in Nat
        /\ Erasable' <= Erasable + Moves(c) \/ (Erasable' = 0 /\ c = "newline")
    BY <1>2, <2>1 DEF Erasable, Moves
  <2> QED  BY <1>0, <1>3, <2>1, <2>2, <2>3, CallShows
<1>6. ASSUME NEW a \in Actors, NEW c \in {"char", "newline"}, Call(a, c), typed' = typed,
             \A b \in Actors : pc[b] = "idle"
      PROVE  Shows'
  <2>1. Erasable' = Erasable /\ Erasable \in Nat
    BY <1>2, <1>6 DEF Erasable
  <2>2. Erasable' \in Nat /\ Erasable' <= Erasable + Moves(c)
    BY <1>4, <2>1
  <2>3. c \in Chars
    BY <1>3
  <2> QED  BY <1>0, <1>6, <2>2, <2>3, CallShows
<1>7. CASE TtyDoWrite
  BY <1>3, <1>6, <1>7, AllIdle DEF TtyDoWrite
<1>8. CASE SysPrintx
  <2>1. \A b \in Actors : pc[b] = "idle"
    BY <1>8 DEF SysPrintx, At, Actors
  <2> QED  BY <1>3, <1>6, <1>8, <2>1 DEF SysPrintx
<1>9. CASE ScrollKey
  BY <1>0, <1>9, ScrollKeyShows
<1>10. CASE InProcess \/ SelectConsole
  <2>1. UNCHANGED <<mem, cursor, crtc_start, is_full, typed, paper, back>>
    BY <1>10 DEF InProcess, SelectConsole, conVars
  <2>2. \A b \in Actors : pc[b] \in {"idle", "key"} /\ pc'[b] \in {"idle", "key"}
    <3>1. CASE InProcess
      BY <3>1, KeyPlaces DEF InProcess, Goto
    <3>2. CASE SelectConsole
      BY <3>2, KeyPlaces DEF SelectConsole, Goto
    <3> QED  BY <1>10, <3>1, <3>2
  <2>3. Due = 0 /\ Due' = 0
    <3>1. \A b \in Actors : pc[b] # "put" /\ pc'[b] # "put"
      BY <2>2
    <3> QED  BY <3>1, DueIs DEF Due
  <2>4. ~\E b \in Actors : pc[b] \in {"wrap", "scroll"}
    BY <2>2
  <2> QED  BY <1>0, <2>1, <2>3, <2>4, SameShows DEF Shows, OnScreen
<1>11. CASE UNCHANGED vars
  <2>1. UNCHANGED <<mem, cursor, crtc_start, is_full, typed, pc, ch, paper, back>>
    BY <1>11 DEF vars, conVars, callVars
  <2>2. Due' = Due
    BY <2>1 DEF Due
  <2> QED  BY <1>0, <2>1, <2>2, SameShows DEF Shows, OnScreen
<1> QED
  BY <1>1, <1>5, <1>7, <1>8, <1>9, <1>10, <1>11 DEF Next

\* When out_char has put the cursor on the screen, the screen shows the last
\* lines of what was printed and nothing below them, whatever was typed,
\* erased, written and copied at the console's end, until a process overtakes
\* TASK_TTY and as long as no one reads lines that fill the screen
\* (console.c:86-138).
THEOREM ScreenShowsOutput == ReadsFit => (Spec => []OutputShown)
<1> SUFFICES ASSUME ReadsFit PROVE Spec => []OutputShown
  OBVIOUS
<1>1. IInv /\ (~overtaken => Shows) => OutputShown
  <2> SUFFICES ASSUME IInv, ~overtaken, Shows,
                      NEW a \in Actors, pc[a] = "scroll", CursorShown, ~back,
                      NEW i \in crtc_start \div SCR_WIDTH
                                  .. crtc_start \div SCR_WIDTH + ScrLines - 1
               PROVE  /\ i > Row => Line(i) = {}
                      /\ i <= Row /\ Row - i < Len(paper) => Line(i) = paper[Len(paper) - (Row - i)]
    BY DEF OutputShown, Row
  <2>1. cursor \in Nat /\ cursor < con_size /\ Seen
    <3>1. \A b \in Actors : pc[b] # "wrap"
      BY OthersIdle
    <3> QED  BY <3>1, Sizes DEF IInv, TypeOK, Placed, AtEnd, Actors, CursorShown, Seen
  <2>2. Row \in Nat /\ Column \in Cols /\ cursor = Row * SCR_WIDTH + Column
    BY <2>1, DivMod DEF Row, Column
  <2>3. PICK s \in Starts : crtc_start = s * SCR_WIDTH
    BY DEF IInv, Placed
  <2>4. s \in Nat /\ s + ScrLines \in Nat /\ (s + ScrLines) * SCR_WIDTH = crtc_start + SCR_SIZE
        /\ s + ScrLines <= ConLines
    BY <2>3, Lines, Sizes DEF Starts
  <2>5. crtc_start \div SCR_WIDTH = s
    <3>1. crtc_start = s * SCR_WIDTH + 0 /\ 0 \in Cols
      BY <2>3, <2>4, Lines, Sizes DEF Cols
    <3>2. (s * SCR_WIDTH + 0) \div SCR_WIDTH = s
      BY <2>4, <3>1, Position
    <3> QED  BY <3>1, <3>2
  <2>6. i \in Nat /\ i < s + ScrLines /\ i < ConLines
    BY <2>4, <2>5, Sizes
  <2>7. \A col \in Cols : /\ i * SCR_WIDTH + col \in Words
                          /\ i * SCR_WIDTH + col < crtc_start + SCR_SIZE
    BY <2>4, <2>6, LineColumns
  <2>8. Line(i) = {col \in Cols : mem[i * SCR_WIDTH + col]}
    BY DEF Line, Cols
  <2>9. ASSUME i > Row
        PROVE  Line(i) = {}
    <3>1. cursor < i * SCR_WIDTH /\ i * SCR_WIDTH \in Nat
      BY <2>2, <2>6, <2>9, LineColumns, Lines
    <3>2. \A col \in Cols : i * SCR_WIDTH + col >= cursor
      BY <2>1, <3>1, Sizes DEF Cols
    <3>3. \A col \in Cols : ~mem[i * SCR_WIDTH + col]
      BY <2>7, <3>2 DEF Shows, Agree, Blank
    <3> QED  BY <2>8, <3>3
  <2>10. ASSUME i <= Row, Row - i < Len(paper)
         PROVE  Line(i) = paper[Len(paper) - (Row - i)]
    <3>1. Rows \in Nat /\ paper \in Seq(SUBSET Cols) /\ Len(paper) = Rows
      BY Sizes DEF IInv, TypeOK, Placed, Rows, Kept
    <3>2. Row - i \in 0 .. Len(paper) - 1 /\ Row - i <= Row /\ Row - (Row - i) = i
          /\ Len(paper) - (Row - i) \in 1 .. Len(paper)
      BY <2>2, <2>6, <2>10, <3>1
    <3>3. Holds(mem, Row - (Row - i), paper[Len(paper) - (Row - i)])
      BY <2>1, <3>2 DEF Shows, Agree, Matches
    <3>4. Holds(mem, i, paper[Len(paper) - (Row - i)])
      BY <3>2, <3>3
    <3>5. paper[Len(paper) - (Row - i)] \in SUBSET Cols
      BY <3>1, <3>2, ElementOfSeq
    <3> QED  BY <2>8, <3>4, <3>5 DEF Holds
  <2> QED  BY <2>9, <2>10
<1>2. Init => (~overtaken => Shows)
  BY InitShows
<1>3. IInv /\ (~overtaken => Shows) /\ [Next]_vars => (~overtaken => Shows)'
  BY NextShows
<1>4. Spec => []IInv
  BY Invariance
<1> QED  BY <1>1, <1>2, <1>3, <1>4, PTL DEF Spec

=============================================================================
