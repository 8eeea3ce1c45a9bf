---------------------------- MODULE FsDataProofs ----------------------------
(***************************************************************************)
(* Reads and writes within the file and its sectors keep the next file's   *)
(* bytes, for every size of sectors, files and fsbuf and for all texts,    *)
(* although whole chunks that reach beyond the file are written back.      *)
(***************************************************************************)
EXTENDS FsData, TLAPS

\* What the request in progress has still to do ends within the file's
\* sectors; while there is something, the position is where the next round
\* starts.
Going ==
    call # None =>
        LET pos == desc[call.desc].fd_pos
            rest == Len(call.buf) - call.bytes_rw
        IN /\ pos + rest <= Capacity
           /\ rest = 0 \/ pos = call.sect * SECTOR_SIZE + call.off
           /\ call.max * SECTOR_SIZE <= Capacity

IInv == TypeOK /\ Going /\ NeighbourKept

\* Sectors and bytes.
LEMMA DivMod ==
    ASSUME NEW a \in Nat, NEW s \in Nat \ {0}
    PROVE  /\ a \div s \in Nat /\ a % s \in Nat /\ a % s < s
           /\ a = (a \div s) * s + (a % s)
  OBVIOUS

LEMMA Times ==
    ASSUME NEW a \in Nat, NEW b \in Nat, NEW s \in Nat, a <= b
    PROVE  a * s \in Nat /\ b * s \in Nat /\ a * s <= b * s
  OBVIOUS

LEMMA Distributes ==
    ASSUME NEW a \in Nat, NEW b \in Nat, NEW s \in Nat
    PROVE  (a + b) * s = a * s + b * s
  OBVIOUS

LEMMA DivMonotone ==
    ASSUME NEW a \in Nat, NEW b \in Nat, NEW s \in Nat \ {0}, a <= b
    PROVE  a \div s <= b \div s
<1>1. SUFFICES ASSUME (b \div s) + 1 <= a \div s
               PROVE  FALSE
  BY DivMod
<1>2. ((b \div s) + 1) * s <= (a \div s) * s
  BY <1>1, DivMod, Times
<1>3. ((b \div s) + 1) * s = (b \div s) * s + s
  BY DivMod
<1> QED  BY <1>2, <1>3, DivMod

LEMMA MadeSeq ==
    ASSUME NEW S, NEW n \in Nat, NEW f, f = [i \in 1 .. n |-> f[i]],
           \A i \in 1 .. n : f[i] \in S
    PROVE  f \in Seq(S) /\ Len(f) = n
  OBVIOUS

LEMMA Sizes ==
    /\ SECTOR_SIZE \in Nat \ {0} /\ i_nr_sects \in Nat \ {0} /\ FsbufSects \in Nat \ {0}
    /\ Capacity \in Nat /\ DiskSize \in Nat
    /\ DiskSize = Capacity + (FsbufSects + 1) * SECTOR_SIZE
    /\ (FsbufSects + 1) * SECTOR_SIZE = FsbufSects * SECTOR_SIZE + SECTOR_SIZE
    /\ FsbufSects * SECTOR_SIZE \in Nat
  BY FsDataAssumption DEF Capacity, DiskSize

LEMMA Longest ==
    /\ MaxLen \in Nat
    /\ \A t \in Texts : t \in Seq(Byte) /\ Len(t) <= MaxLen
<1>1. \E n \in {Len(t) : t \in Texts} : \A t \in Texts : Len(t) <= n
  BY TextsAssumption
<1>2. MaxLen \in {Len(t) : t \in Texts} /\ \A t \in Texts : Len(t) <= MaxLen
  BY <1>1 DEF MaxLen
<1> QED  BY <1>2, TextsAssumption

\* A request that may be made starts in order.
LEMMA StartGoes ==
    ASSUME IInv, WithinFile, NEW d \in Descs, NEW type \in {"READ", "WRITE"},
           NEW buf \in Seq(Byte), Len(buf) <= MaxLen, Start(d, type, buf)
    PROVE  IInv'
<1> DEFINE pos == desc[d].fd_pos
           min == pos \div SECTOR_SIZE
           end == PosEnd(type, pos, Len(buf))
           max == end \div SECTOR_SIZE
           new == [desc |-> d, type |-> type, buf |-> buf, bytes_rw |-> 0,
                   off |-> pos % SECTOR_SIZE, sect |-> min, max |-> max,
                   chunk |-> Less(max - min + 1, FsbufSects)]
<1>1. /\ desc[d] # None /\ pos \in Nat /\ pos <= Capacity
      /\ i_size \in Nat /\ i_size <= Capacity /\ Len(buf) \in Nat
      /\ UNCHANGED <<disk, i_size, desc>> /\ call = None
  <2>1. desc[d] # None /\ call = None /\ UNCHANGED <<disk, i_size, desc>>
    BY DEF Start
  <2>2. desc[d] \in Descriptor /\ pos <= Capacity
    BY <2>1 DEF IInv, TypeOK
  <2>3. i_size \in 0 .. Capacity
    BY DEF IInv, TypeOK
  <2> QED  BY <2>1, <2>2, <2>3, Sizes DEF Descriptor
<1>2. CASE UNCHANGED <<call, i_lock>> /\ cnt' = 0
  BY <1>1, <1>2, Longest DEF IInv, TypeOK, Going, NeighbourKept
<1>3. CASE call' = new /\ i_lock' = TRUE /\ cnt' = cnt
  <2>1. pos + Len(buf) <= IF type = "READ" THEN i_size ELSE Capacity
    BY <1>3 DEF Start, Allowed
  <2>2. end = pos + Len(buf) /\ end \in Nat /\ end <= Capacity /\ pos <= end
    <3>1. end = Less(pos + Len(buf), IF type = "READ" THEN i_size ELSE Capacity)
      BY DEF PosEnd
    <3>2. Less(pos + Len(buf), IF type = "READ" THEN i_size ELSE Capacity) = pos + Len(buf)
      <4>1. Capacity \in Nat
        BY Sizes
      <4> HIDE DEF pos
      <4> QED  BY <1>1, <2>1, <4>1 DEF Less
    <3> HIDE DEF end
    <3> QED  BY <1>1, <2>1, <3>1, <3>2, Sizes
  <2> HIDE DEF end
  <2>3. min \in Nat /\ max \in Nat /\ min <= max
    BY <1>1, <2>2, Sizes, DivMod, DivMonotone
  <2>4. /\ pos % SECTOR_SIZE \in Nat /\ pos % SECTOR_SIZE < SECTOR_SIZE
        /\ pos = min * SECTOR_SIZE + (pos % SECTOR_SIZE)
    BY <1>1, Sizes, DivMod
  <2>5. max * SECTOR_SIZE <= Capacity
    <3>1. max * SECTOR_SIZE \in Nat /\ end % SECTOR_SIZE \in Nat
          /\ end = max * SECTOR_SIZE + (end % SECTOR_SIZE)
      BY <2>2, <2>3, Sizes, DivMod, Times
    <3> HIDE DEF max
    <3>2. max * SECTOR_SIZE <= end /\ Capacity \in Nat
      BY <2>2, <3>1, Sizes
    <3> QED  BY <2>2, <3>1, <3>2
  <2> HIDE DEF min, max
  <2>6. Less(max - min + 1, FsbufSects) \in 1 .. FsbufSects
    BY <2>3, Sizes DEF Less
  <2>7. new \in Call
    BY <2>3, <2>4, <2>6, Sizes DEF Call
  <2>8. call' # None
    BY <1>3, <2>7, TextsAssumption
  <2> HIDE DEF new
  <2>9. TypeOK'
    <3>1. /\ call'.desc = d /\ call'.buf = buf /\ call'.bytes_rw = 0
          /\ call'.off = pos % SECTOR_SIZE /\ call'.chunk \in 1 .. FsbufSects
      BY <1>3, <2>6 DEF new
    <3>2. UNCHANGED <<disk, i_size, desc, cnt>> /\ i_lock' = TRUE
      BY <1>1, <1>3
    <3>3. /\ disk' \in [0 .. DiskSize - 1 -> Byte] /\ i_size' \in 0 .. Capacity
          /\ desc' \in [Descs -> Descriptor \cup {None}] /\ cnt' \in 0 .. MaxLen
          /\ \A e \in Descs : desc'[e] # None => desc'[e].fd_pos <= Capacity
      BY <3>2 DEF IInv, TypeOK
    <3>4. call' \in Call \cup {None} /\ i_lock' = (call' # None)
      BY <1>3, <2>7, <2>8, <3>2
    <3>5. /\ desc'[call'.desc] # None
          /\ call'.bytes_rw <= Len(call'.buf) /\ Len(call'.buf) <= MaxLen
          /\ call'.off < SECTOR_SIZE /\ call'.chunk \in 1 .. FsbufSects
      <4> HIDE DEF pos
      <4> QED  BY <1>1, <2>4, <3>1, <3>2
    <3> QED  BY <3>3, <3>4, <3>5 DEF TypeOK, Capacity, DiskSize
  <2>10. Going'
    BY <1>1, <1>3, <2>2, <2>4, <2>5 DEF Going, Capacity, new
  <2> QED  BY <1>1, <2>9, <2>10 DEF IInv, NeighbourKept, Capacity, DiskSize
<1> QED  BY <1>2, <1>3 DEF Start

\* The request in progress: where its descriptor stands, what it has still to
\* do, and the chunk of the next round.
Pos == desc[call.desc].fd_pos
Rest == Len(call.buf) - call.bytes_rw
Base == call.sect * SECTOR_SIZE
Size == call.chunk * SECTOR_SIZE

\* What a round of the loop starts from, and the bytes it transfers.
LEMMA Round ==
    ASSUME IInv, Chunk
    PROVE  /\ call # None /\ call \in Call /\ call.desc \in Descs
           /\ desc[call.desc] \in Descriptor /\ desc[call.desc] # None
           /\ call.buf \in Seq(Byte)
           /\ call.sect \in Nat /\ call.max \in Nat /\ call.sect <= call.max
           /\ call.off \in Nat /\ call.off < SECTOR_SIZE
           /\ call.chunk \in Nat /\ 1 <= call.chunk /\ call.chunk <= FsbufSects
           /\ call.bytes_rw \in Nat /\ Len(call.buf) \in Nat
           /\ call.bytes_rw <= Len(call.buf) /\ Len(call.buf) <= MaxLen
           /\ Rest \in Nat /\ Pos \in Nat /\ Pos <= Capacity
           /\ Pos + Rest <= Capacity /\ (Rest = 0 \/ Pos = Base + call.off)
           /\ call.max * SECTOR_SIZE <= Capacity
           /\ Base \in Nat /\ Base <= Capacity
           /\ Size \in Nat /\ SECTOR_SIZE <= Size /\ Size <= FsbufSects * SECTOR_SIZE
           /\ (call.sect + call.chunk) * SECTOR_SIZE = Base + Size
           /\ Bytes \in Nat /\ Bytes <= Rest /\ call.off + Bytes <= Size
           /\ call.bytes_rw + Bytes \in Nat /\ call.bytes_rw + Bytes <= Len(call.buf)
           /\ Len(call.buf) - (call.bytes_rw + Bytes) = Rest - Bytes
           /\ Pos + Bytes \in Nat /\ Pos + Bytes <= Capacity
           /\ (Pos + Bytes) + (Rest - Bytes) <= Capacity
           /\ (Rest - Bytes = 0 \/ Pos + Bytes = Base + Size)
           /\ \A k \in call.off .. call.off + Bytes - 1 :
                 /\ Base + k < Capacity
                 /\ call.bytes_rw + 1 + k - call.off \in 1 .. Len(call.buf)
           /\ \A i \in 1 .. Len(call.buf) : i - call.bytes_rw \in 1 .. Bytes =>
                 call.off + i - call.bytes_rw - 1 \in 0 .. Size - 1
           /\ Fetched = [k \in 0 .. Size - 1 |-> disk[Base + k]]
           /\ DOMAIN Filled = 0 .. Size - 1
           /\ \A k \in 0 .. Size - 1 :
                 Filled[k] = IF k \in call.off .. call.off + Bytes - 1
                             THEN call.buf[call.bytes_rw + 1 + k - call.off]
                             ELSE disk[Base + k]
<1>0. /\ call # None /\ call \in Call /\ call.desc \in Descs /\ desc[call.desc] \in Descriptor
      /\ desc[call.desc] # None /\ call.buf \in Seq(Byte)
  BY DEF Chunk, IInv, TypeOK, Call
<1>1. /\ call.sect \in Nat /\ call.max \in Nat /\ call.sect <= call.max
      /\ call.off \in Nat /\ call.off < SECTOR_SIZE
      /\ call.chunk \in Nat /\ 1 <= call.chunk /\ call.chunk <= FsbufSects
      /\ call.bytes_rw \in Nat /\ Len(call.buf) \in Nat /\ call.bytes_rw <= Len(call.buf)
      /\ Len(call.buf) <= MaxLen /\ Rest \in Nat
      /\ Pos \in Nat /\ Pos <= Capacity
  <2>1. call.sect <= call.max
    BY DEF Chunk
  <2>2. /\ call.bytes_rw <= Len(call.buf) /\ Len(call.buf) <= MaxLen
        /\ call.off < SECTOR_SIZE /\ call.chunk \in 1 .. FsbufSects /\ Pos <= Capacity
    BY <1>0 DEF IInv, TypeOK, Pos
  <2>3. Len(call.buf) \in Nat /\ call.bytes_rw \in Nat
    BY <1>0 DEF Call
  <2>4. Rest \in Nat
    BY <2>2, <2>3 DEF Rest
  <2>5. call.sect \in Nat /\ call.max \in Nat /\ call.off \in Nat
    BY <1>0 DEF Call
  <2>6. Pos \in Nat
    BY <1>0 DEF Descriptor, Pos
  <2> QED  BY <2>1, <2>2, <2>3, <2>4, <2>5, <2>6, Sizes
<1>2. /\ Pos + Rest <= Capacity
      /\ Rest = 0 \/ Pos = Base + call.off
      /\ call.max * SECTOR_SIZE <= Capacity
  BY <1>0 DEF IInv, Going, Pos, Rest, Base
<1>3. /\ Base \in Nat /\ Base <= Capacity
      /\ Size \in Nat /\ SECTOR_SIZE <= Size /\ Size <= FsbufSects * SECTOR_SIZE
  <2>1. Base \in Nat /\ Base <= call.max * SECTOR_SIZE /\ call.max * SECTOR_SIZE \in Nat
    BY <1>1, Sizes, Times DEF Base
  <2>2. Size \in Nat /\ 1 * SECTOR_SIZE <= Size
    BY <1>1, Sizes, Times DEF Size
  <2>3. Size <= FsbufSects * SECTOR_SIZE
    BY <1>1, Sizes, Times DEF Size
  <2> QED  BY <1>2, <2>1, <2>2, <2>3, Sizes
<1>4. (call.sect + call.chunk) * SECTOR_SIZE = Base + Size
  BY <1>1, Sizes, Distributes DEF Base, Size
<1>5. /\ Bytes \in Nat /\ Bytes <= Rest /\ call.off + Bytes <= Size
      /\ call.bytes_rw + Bytes \in Nat /\ call.bytes_rw + Bytes <= Len(call.buf)
      /\ Len(call.buf) - (call.bytes_rw + Bytes) = Rest - Bytes
      /\ Pos + Bytes \in Nat /\ Pos + Bytes <= Capacity
      /\ (Pos + Bytes) + (Rest - Bytes) <= Capacity
      /\ Rest - Bytes = 0 \/ Pos + Bytes = Base + Size
      /\ \A k \in call.off .. call.off + Bytes - 1 :
            Base + k < Capacity /\ call.bytes_rw + 1 + k - call.off \in 1 .. Len(call.buf)
      /\ \A i \in 1 .. Len(call.buf) : i - call.bytes_rw \in 1 .. Bytes =>
            call.off + i - call.bytes_rw - 1 \in 0 .. Size - 1
  <2>1. Bytes = IF Rest < Size - call.off THEN Rest ELSE Size - call.off
    BY DEF Bytes, Less, Size, Rest
  <2>2. Rest = Len(call.buf) - call.bytes_rw
    BY DEF Rest
  <2>3. call.off < Size
    BY <1>1, <1>3, Sizes
  <2> DEFINE done == call.bytes_rw
             len == Len(call.buf)
             off == call.off
             n == Bytes
  <2>4. /\ Pos \in Nat /\ done \in Nat /\ len \in Nat /\ off \in Nat /\ Base \in Nat
        /\ Size \in Nat /\ Capacity \in Nat /\ Rest \in Nat
        /\ Rest = len - done /\ off < Size /\ Pos + Rest <= Capacity
        /\ Rest = 0 \/ Pos = Base + off
        /\ n = IF Rest < Size - off THEN Rest ELSE Size - off
    BY <2>1, <2>2, <2>3, <1>1, <1>2, <1>3, Sizes
  <2> HIDE DEF done, len, off, n
  <2>5. /\ n \in Nat /\ n <= Rest /\ off + n <= Size
        /\ done + n \in Nat /\ done + n <= len /\ len - (done + n) = Rest - n
        /\ Pos + n \in Nat /\ Pos + n <= Capacity /\ (Pos + n) + (Rest - n) <= Capacity
        /\ Rest - n = 0 \/ Pos + n = Base + Size
        /\ \A k \in off .. off + n - 1 :
              Base + k < Capacity /\ done + 1 + k - off \in 1 .. len
        /\ \A i \in 1 .. len : i - done \in 1 .. n => off + i - done - 1 \in 0 .. Size - 1
    BY <2>4
  <2> QED  BY <2>5 DEF done, len, off, n
<1>6. /\ Fetched = [k \in 0 .. Size - 1 |-> disk[Base + k]]
      /\ DOMAIN Filled = 0 .. Size - 1
      /\ \A k \in 0 .. Size - 1 :
            Filled[k] = IF k \in call.off .. call.off + Bytes - 1
                        THEN call.buf[call.bytes_rw + 1 + k - call.off] ELSE disk[Base + k]
  BY DEF Fetched, Filled, Base, Size
<1> QED  BY <1>0, <1>1, <1>2, <1>3, <1>4, <1>5, <1>6

\* One round stays within the file's sectors where it changes bytes.
LEMMA ChunkGoes ==
    ASSUME IInv, Chunk
    PROVE  IInv'
<1>1. /\ call \in Call /\ call.desc \in Descs /\ desc[call.desc] \in Descriptor
      /\ call.buf \in Seq(Byte) /\ Len(call.buf) \in Nat
  BY Round
<1>0. PICK d \in Descs : d = call.desc
  BY <1>1
<1>2. /\ Base \in Nat /\ Base <= Capacity /\ Size \in Nat
      /\ Size <= FsbufSects * SECTOR_SIZE
  BY Round
<1>3. /\ Fetched = [k \in 0 .. Size - 1 |-> disk[Base + k]]
      /\ \A k \in 0 .. Size - 1 :
            Filled[k] = IF k \in call.off .. call.off + Bytes - 1
                        THEN call.buf[call.bytes_rw + 1 + k - call.off] ELSE disk[Base + k]
  BY Round
<1>4. \A k \in 0 .. Size - 1 : Base + k \in DOMAIN disk /\ disk[Base + k] \in Byte
  <2>1. disk \in [0 .. DiskSize - 1 -> Byte]
    BY DEF IInv, TypeOK
  <2> QED  BY <1>2, <2>1, Sizes
<1>5. /\ disk' \in [0 .. DiskSize - 1 -> Byte]
      /\ NeighbourKept'
  <2>1. \A k \in 0 .. Size - 1 : Filled[k] \in Byte
    <3>1. \A k \in call.off .. call.off + Bytes - 1 :
             call.bytes_rw + 1 + k - call.off \in 1 .. Len(call.buf)
      BY Round
    <3>2. \A i \in 1 .. Len(call.buf) : call.buf[i] \in Byte
      BY Round
    <3> QED  BY <1>3, <1>4, <3>1, <3>2
  <2>2. \A k \in 0 .. Size - 1 : Base + k >= Capacity => Filled[k] = disk[Base + k]
    <3>1. \A k \in call.off .. call.off + Bytes - 1 : Base + k < Capacity
      BY Round
    <3>2. \A k \in 0 .. Size - 1 : k \in call.off .. call.off + Bytes - 1 => Base + k < Capacity
      BY <3>1
    <3>3. \A k \in 0 .. Size - 1 : Base + k >= Capacity => ~(Base + k < Capacity)
      BY <1>2, Sizes
    <3> QED  BY <1>3, <3>2, <3>3
  <2>3. \/ disk' = disk
        \/ disk' = [b \in DOMAIN disk |->
                       IF b - Base \in DOMAIN Filled THEN Filled[b - Base] ELSE disk[b]]
    BY DEF Chunk, Base
  <2>4. disk \in [0 .. DiskSize - 1 -> Byte]
        /\ \A b \in Capacity .. DiskSize - 1 : disk[b] = Foreign
    BY DEF IInv, TypeOK, NeighbourKept
  <2>5. CASE disk' = disk
    BY <2>4, <2>5 DEF NeighbourKept, Capacity, DiskSize
  <2>6. CASE disk' = [b \in DOMAIN disk |->
                       IF b - Base \in 0 .. Size - 1 THEN Filled[b - Base] ELSE disk[b]]
    <3>1. disk' \in [0 .. DiskSize - 1 -> Byte]
      BY <2>1, <2>4, <2>6
    <3>2. \A b \in Capacity .. DiskSize - 1 : disk'[b] = Foreign
      <4>1. TAKE b \in Capacity .. DiskSize - 1
      <4>2. b \in DOMAIN disk /\ b \in Nat /\ b >= Capacity /\ disk[b] = Foreign
        BY <2>4, Sizes
      <4>3. CASE b - Base \in 0 .. Size - 1
        <5>1. Base + (b - Base) = b
          BY <1>2, <4>2
        <5>2. Filled[b - Base] = disk[b]
          BY <4>2, <4>3, <5>1, <2>2
        <5> QED  BY <4>2, <4>3, <5>2, <2>6
      <4>4. CASE b - Base \notin 0 .. Size - 1
        BY <4>2, <4>4, <2>6
      <4> QED  BY <4>3, <4>4
    <3> QED  BY <3>1, <3>2 DEF NeighbourKept, Capacity, DiskSize
  <2> QED  BY <2>3, <2>5, <2>6, Round
<1>6. call' \in Call /\ call'.desc = d /\ call'.max = call.max /\ call'.chunk = call.chunk
      /\ call'.off = 0 /\ call'.sect = call.sect + call.chunk
      /\ call'.bytes_rw = call.bytes_rw + Bytes /\ Len(call'.buf) = Len(call.buf)
  <2> DEFINE read == [i \in DOMAIN call.buf |->
                           IF i - call.bytes_rw \in 1 .. Bytes
                           THEN Fetched[call.off + i - call.bytes_rw - 1] ELSE call.buf[i]]
  <2>1. read \in Seq(Byte) /\ Len(read) = Len(call.buf)
    <3>1. DOMAIN call.buf = 1 .. Len(call.buf)
          /\ \A i \in 1 .. Len(call.buf) : call.buf[i] \in Byte
      BY <1>1
    <3>2. \A i \in 1 .. Len(call.buf) : i - call.bytes_rw \in 1 .. Bytes =>
             call.off + i - call.bytes_rw - 1 \in 0 .. Size - 1
      BY Round
    <3>3. \A k \in 0 .. Size - 1 : Fetched[k] \in Byte
      BY <1>3, <1>4
    <3>4. \A i \in 1 .. Len(call.buf) : read[i] \in Byte
      BY <3>1, <3>2, <3>3
    <3>5. read = [i \in 1 .. Len(call.buf) |-> read[i]]
      BY <3>1
    <3> HIDE DEF read
    <3> QED  BY <1>1, <3>4, <3>5, Zenon, MadeSeq
  <2>2. call' = [call EXCEPT !.buf = IF call.type = "WRITE" THEN call.buf ELSE read,
                             !.bytes_rw = call.bytes_rw + Bytes, !.off = 0,
                             !.sect = call.sect + call.chunk]
    BY DEF Chunk
  <2> HIDE DEF read
  <2>3. call'.buf \in Seq(Byte) /\ Len(call'.buf) = Len(call.buf)
    BY <1>1, <2>1, <2>2 DEF Call
  <2>4. call.bytes_rw + Bytes \in Nat
    BY Round
  <2>5. call.sect + call.chunk \in Nat
    <3>1. call.sect \in Nat /\ call.chunk \in Nat
      BY Round
    <3> QED  BY <3>1
  <2> QED  BY <1>0, <1>1, <2>2, <2>3, <2>4, <2>5 DEF Call
<1>7. /\ desc' = [desc EXCEPT ![d] = [desc[d] EXCEPT !.fd_pos = Pos + Bytes]]
      /\ UNCHANGED <<i_size, i_lock, cnt>>
  BY <1>0 DEF Chunk, Pos
<1>8. /\ desc' \in [Descs -> Descriptor \cup {None}]
      /\ \A e \in Descs : e # d => desc'[e] = desc[e]
      /\ desc'[d] \in Descriptor /\ desc'[d].fd_pos = Pos + Bytes
  <2>1. desc \in [Descs -> Descriptor \cup {None}]
    BY DEF IInv, TypeOK
  <2>2. [desc[d] EXCEPT !.fd_pos = Pos + Bytes] \in Descriptor
        /\ [desc[d] EXCEPT !.fd_pos = Pos + Bytes].fd_pos = Pos + Bytes
    <3>1. Pos + Bytes \in Nat
      BY Round
    <3> QED  BY <1>0, <1>1, <3>1 DEF Descriptor
  <2> QED  BY <1>0, <1>1, <1>7, <2>1, <2>2
<1>9. call' # None /\ desc'[d] # None
  <2>1. None \notin Descriptor /\ None \notin Call
    BY TextsAssumption
  <2> QED  BY <1>6, <1>8, <2>1
<1>10. TypeOK'
  <2>1. \A e \in Descs : desc'[e] # None => desc'[e].fd_pos <= Capacity
    <3>1. Pos + Bytes <= Capacity
      BY Round
    <3>2. \A e \in Descs : desc[e] # None => desc[e].fd_pos <= Capacity
      BY DEF IInv, TypeOK
    <3>3. ASSUME NEW e \in Descs, desc'[e] # None
          PROVE  desc'[e].fd_pos <= Capacity
      BY <1>8, <3>1, <3>2, <3>3
    <3> QED  BY <3>3
  <2>2. i_size' \in 0 .. Capacity /\ cnt' \in 0 .. MaxLen /\ i_lock' = (call' # None)
    <3>1. call # None
      BY Round
    <3> QED  BY <1>7, <1>9, <3>1 DEF IInv, TypeOK
  <2>3. /\ call'.bytes_rw <= Len(call'.buf) /\ Len(call'.buf) <= MaxLen
        /\ call'.off < SECTOR_SIZE /\ call'.chunk \in 1 .. FsbufSects
    <3>1. /\ call.bytes_rw + Bytes <= Len(call.buf) /\ Len(call.buf) <= MaxLen
          /\ call.chunk \in 1 .. FsbufSects
      <4>1. call.chunk \in Nat /\ 1 <= call.chunk /\ call.chunk <= FsbufSects
        BY Round
      <4>2. call.bytes_rw + Bytes <= Len(call.buf) /\ Len(call.buf) <= MaxLen
        BY Round
      <4> QED  BY <4>1, <4>2, Sizes
    <3> QED  BY <1>6, <3>1, Sizes
  <2> QED  BY <1>5, <1>6, <1>8, <1>9, <2>1, <2>2, <2>3 DEF TypeOK, Capacity, DiskSize
<1>11. Going'
  <2>1. Len(call'.buf) - call'.bytes_rw = Rest - Bytes
    BY Round, <1>6
  <2>2. (Pos + Bytes) + (Rest - Bytes) <= Capacity
    BY Round
  <2>3. Rest - Bytes = 0 \/ Pos + Bytes = Base + Size
    BY Round
  <2>4. call'.sect * SECTOR_SIZE + call'.off = Base + Size
    <3>1. (call.sect + call.chunk) * SECTOR_SIZE = Base + Size
      BY Round
    <3> QED  BY <1>2, <1>6, <3>1
  <2>5. call'.max * SECTOR_SIZE <= Capacity
    BY Round, <1>6
  <2>6. desc'[call'.desc].fd_pos = Pos + Bytes
    BY <1>6, <1>8
  <2> QED  BY <2>1, <2>2, <2>3, <2>4, <2>5, <2>6 DEF Going, Capacity
<1> QED  BY <1>5, <1>10, <1>11 DEF IInv

LEMMA InitData == Init => IInv
<1> SUFFICES ASSUME Init
             PROVE  IInv
  OBVIOUS
<1>1. disk \in [0 .. DiskSize - 1 -> Byte]
  <2>1. Blank \in Byte /\ Foreign \in Byte
    BY Zenon DEF Byte
  <2> QED  BY <2>1 DEF Init
<1>2. \A b \in Capacity .. DiskSize - 1 : disk[b] = Foreign
  BY Sizes DEF Init
<1>3. desc \in [Descs -> Descriptor \cup {None}] /\ \A d \in Descs : desc[d] = None
  BY DEF Init
<1> QED
  <2>1. TypeOK
    <3>1. 0 \in 0 .. Capacity /\ 0 \in 0 .. MaxLen
      BY Sizes, Longest
    <3> QED  BY <1>1, <1>3, <3>1 DEF Init, TypeOK
  <2> QED  BY <1>2, <2>1 DEF Init, IInv, Going, NeighbourKept

\* Every step keeps the invariant, one action at a time.
LEMMA StepData == IInv /\ [Next]_vars /\ WithinFile => IInv'
<1> SUFFICES ASSUME IInv, [Next]_vars, WithinFile
             PROVE  IInv'
  OBVIOUS
<1>1. ASSUME NEW d \in Descs, NEW rdwr \in BOOLEAN, Open(d, rdwr)
      PROVE  IInv'
  <2>1. [rdwr |-> rdwr, fd_pos |-> 0] \in Descriptor
    BY DEF Descriptor
  <2>2. UNCHANGED <<disk, i_size, i_lock, call, cnt>> /\ call = None
        /\ desc' = [desc EXCEPT ![d] = [rdwr |-> rdwr, fd_pos |-> 0]]
    BY <1>1 DEF Open
  <2>3. desc' \in [Descs -> Descriptor \cup {None}]
        /\ \A e \in Descs : desc'[e] # None => desc'[e].fd_pos <= Capacity
    BY <2>1, <2>2, Sizes DEF IInv, TypeOK
  <2> QED  BY <2>2, <2>3 DEF IInv, TypeOK, Going, NeighbourKept, Capacity, DiskSize
<1>2. ASSUME NEW d \in Descs, Close(d)
      PROVE  IInv'
  <2>1. UNCHANGED <<disk, i_size, i_lock, call, cnt>> /\ call = None
        /\ desc' = [desc EXCEPT ![d] = None]
    BY <1>2 DEF Close
  <2>2. desc' \in [Descs -> Descriptor \cup {None}]
        /\ \A e \in Descs : desc'[e] # None => desc'[e].fd_pos <= Capacity
    BY <2>1 DEF IInv, TypeOK
  <2> QED  BY <2>1, <2>2 DEF IInv, TypeOK, Going, NeighbourKept, Capacity, DiskSize
<1>3. ASSUME NEW d \in Descs, ReadFile(d)
      PROVE  IInv'
  <2>1. PICK n \in 1 .. MaxLen : Start(d, "READ", Fresh(n))
    BY <1>3 DEF ReadFile
  <2>2. n \in Nat /\ n <= MaxLen
    BY <2>1, Longest
  <2>3. Fresh(n) \in Seq(Byte) /\ Len(Fresh(n)) <= MaxLen
    <3>1. Blank \in Byte
      BY Zenon DEF Byte
    <3> QED  BY <2>2, <3>1 DEF Fresh
  <2> QED  BY <2>1, <2>3, StartGoes
<1>4. ASSUME NEW d \in Descs, WriteFile(d)
      PROVE  IInv'
  BY <1>4, Longest, StartGoes DEF WriteFile
<1>5. CASE Chunk
  BY <1>5, ChunkGoes
<1>6. CASE Finish
  <2>1. /\ call # None /\ call' = None /\ i_lock' = FALSE /\ UNCHANGED <<disk, desc>>
        /\ cnt' = call.bytes_rw
        /\ i_size' \in {i_size, desc[call.desc].fd_pos}
    BY <1>6 DEF Finish
  <2>2. /\ call.desc \in Descs /\ desc[call.desc] \in Descriptor
        /\ desc[call.desc].fd_pos \in 0 .. Capacity
        /\ call.bytes_rw \in 0 .. MaxLen
    BY <2>1, Sizes, Longest DEF IInv, TypeOK, Call, Descriptor
  <2> QED  BY <2>1, <2>2 DEF IInv, TypeOK, Going, NeighbourKept, Capacity, DiskSize
<1>7. CASE UNCHANGED vars
  BY <1>7 DEF vars, IInv, TypeOK, Going, NeighbourKept, Capacity, DiskSize
<1> QED  BY <1>1, <1>2, <1>3, <1>4, <1>5, <1>6, <1>7 DEF Next

LEMMA Invariance == WithinFile => (Spec => []IInv)
<1> SUFFICES ASSUME WithinFile
             PROVE  Spec => []IInv
  OBVIOUS
<1>1. Init => IInv
  BY InitData
<1>2. IInv /\ [Next]_vars => IInv'
  BY StepData
<1> QED  BY <1>1, <1>2, PTL DEF Spec

\* Positions and size stay within the file's sectors, and no request does
\* more than it was asked for (read_write.c:88-148).
THEOREM FileTypes == WithinFile => (Spec => []TypeOK)
<1>1. IInv => TypeOK
  BY DEF IInv
<1> QED  BY <1>1, Invariance, PTL

\* Chunks that reach beyond the file's sectors write back there what was read
\* (read_write.c:94-131).
THEOREM NextFileKept == WithinFile => (Spec => []NeighbourKept)
<1>1. IInv => NeighbourKept
  BY DEF IInv
<1> QED  BY <1>1, Invariance, PTL

----------------------------------------------------------------------------
(* FsData implements FileSpec. *)

\* No position is behind the file's size but that of a write in progress, and
\* the last chunk of a request is the one in which it ends: once the loop has
\* passed it, nothing is left to do.
Sized ==
    /\ \A d \in Descs : desc[d] # None /\ (call = None \/ d # call.desc) =>
          desc[d].fd_pos <= i_size
    /\ call # None =>
          /\ call.type = "READ" => Pos + Rest <= i_size
          /\ call.max = (Pos + Rest) \div SECTOR_SIZE

\* The request that starts asks for no more than the file has or may have.
LEMMA StartSized ==
    ASSUME IInv, Sized, WithinFile, NEW d \in Descs, NEW type \in {"READ", "WRITE"},
           NEW buf \in Seq(Byte), Start(d, type, buf)
    PROVE  Sized'
<1>1. /\ call = None /\ desc[d] # None /\ UNCHANGED <<i_size, desc>>
      /\ desc[d].fd_pos \in Nat /\ i_size \in Nat /\ Len(buf) \in Nat
  <2>1. call = None /\ desc[d] # None /\ UNCHANGED <<i_size, desc>>
    BY DEF Start
  <2>2. desc[d] \in Descriptor /\ i_size \in 0 .. Capacity
    BY <2>1 DEF IInv, TypeOK
  <2> QED  BY <2>1, <2>2, Sizes DEF Descriptor
<1>2. CASE call' = None
  BY <1>1, <1>2 DEF Sized
<1>3. CASE call' # None
  <2> DEFINE pos == desc[d].fd_pos
             end == PosEnd(type, pos, Len(buf))
  <2>1. /\ call'.desc = d /\ call'.type = type /\ call'.buf = buf /\ call'.bytes_rw = 0
        /\ call'.max = end \div SECTOR_SIZE
    BY <1>1, <1>3 DEF Start
  <2>2. pos + Len(buf) <= IF type = "READ" THEN i_size ELSE Capacity
    BY DEF Start, Allowed
  <2>3. end = pos + Len(buf)
    <3>1. end = Less(pos + Len(buf), IF type = "READ" THEN i_size ELSE Capacity)
      BY DEF PosEnd
    <3>2. pos \in Nat
      BY <1>1
    <3> HIDE DEF pos, end
    <3> QED  BY <1>1, <2>2, <3>1, <3>2, Sizes DEF Less
  <2>4. Pos' = pos /\ Rest' = Len(buf)
    BY <1>1, <2>1 DEF Pos, Rest
  <2>5. type = "READ" => pos + Len(buf) <= i_size
    BY <2>2
  <2> HIDE DEF pos, end
  <2>6. \A e \in Descs : desc'[e] # None => desc'[e].fd_pos <= i_size'
    BY <1>1 DEF Sized
  <2> QED  BY <1>1, <2>1, <2>3, <2>4, <2>5, <2>6 DEF Sized
<1> QED  BY <1>2, <1>3

\* A round moves the position by what is done.
LEMMA ChunkSized ==
    ASSUME IInv, Sized, Chunk
    PROVE  /\ Sized'
           /\ call'.desc = call.desc /\ call'.type = call.type
           /\ call'.bytes_rw = call.bytes_rw + Bytes /\ call' # None
           /\ desc' = [desc EXCEPT ![call.desc].fd_pos = Pos + Bytes]
           /\ Pos' = Pos + Bytes /\ Rest' = Rest - Bytes /\ i_size' = i_size
<1>1. PICK d \in Descs : d = call.desc
  BY Round
<1>2. /\ call \in Call /\ call.buf \in Seq(Byte) /\ Len(call.buf) \in Nat
      /\ desc[d] # None /\ desc[d] \in Descriptor /\ call # None
      /\ Bytes \in Nat /\ Bytes <= Rest /\ Rest \in Nat /\ Pos \in Nat
      /\ call.bytes_rw \in Nat
  BY <1>1, Round
<1> DEFINE buf == IF call.type = "WRITE" THEN call.buf
                  ELSE [i \in DOMAIN call.buf |->
                           IF i - call.bytes_rw \in 1 .. Bytes
                           THEN Fetched[call.off + i - call.bytes_rw - 1] ELSE call.buf[i]]
<1>3. /\ call' = [call EXCEPT !.buf = buf, !.bytes_rw = call.bytes_rw + Bytes, !.off = 0,
                              !.sect = call.sect + call.chunk]
      /\ desc' = [desc EXCEPT ![d] = [desc[d] EXCEPT !.fd_pos = Pos + Bytes]]
      /\ i_size' = i_size
  BY <1>1 DEF Chunk, Pos
<1>4. DOMAIN buf = DOMAIN call.buf
  BY Zenon
<1> HIDE DEF buf
<1>5. /\ call'.desc = d /\ call'.type = call.type /\ call'.max = call.max
      /\ call'.bytes_rw = call.bytes_rw + Bytes /\ call'.buf = buf
  BY <1>1, <1>2, <1>3 DEF Call
<1>6. Len(buf) = Len(call.buf)
  <2>1. IInv'
    BY ChunkGoes
  <2>2. call' # None
    <3>1. None \notin Call
      BY TextsAssumption
    <3> QED  BY <1>2, <1>3, <1>5, <2>1, <3>1 DEF IInv, TypeOK, Chunk, Call
  <2>3. call' \in Call
    BY <2>1, <2>2 DEF IInv, TypeOK
  <2>4. buf \in Seq(Byte)
    BY <1>5, <2>3 DEF Call
  <2> QED  BY <1>2, <1>4, <2>4
<1>7. call' # None /\ Len(call.buf) - (call.bytes_rw + Bytes) = Rest - Bytes
  BY <1>2, <1>3, ChunkGoes DEF IInv, TypeOK, Chunk, Rest
<1>8. /\ desc'[d] = [desc[d] EXCEPT !.fd_pos = Pos + Bytes]
      /\ \A e \in Descs : e # d => desc'[e] = desc[e]
  BY <1>1, <1>3 DEF IInv, TypeOK
<1>9. desc'[d].fd_pos = Pos + Bytes
  BY <1>2, <1>8 DEF Descriptor
<1>10. Pos' = Pos + Bytes /\ Rest' = Rest - Bytes
  BY <1>5, <1>6, <1>7, <1>9 DEF Pos, Rest
<1>11. (Pos + Bytes) + (Rest - Bytes) = Pos + Rest
  BY <1>2
<1>12. Sized'
  <2>1. \A e \in Descs : desc[e] # None /\ e # d => desc[e].fd_pos <= i_size
    BY <1>1, <1>2 DEF Sized
  <2>2. \A e \in Descs : desc'[e] # None /\ e # d => desc'[e].fd_pos <= i_size'
    BY <1>3, <1>8, <2>1
  <2>3. /\ call.type = "READ" => Pos + Rest <= i_size
        /\ call.max = (Pos + Rest) \div SECTOR_SIZE
    BY <1>2 DEF Sized
  <2> QED  BY <1>3, <1>5, <1>7, <1>10, <1>11, <2>2, <2>3 DEF Sized
<1>13. desc' = [desc EXCEPT ![call.desc].fd_pos = Pos + Bytes]
  BY <1>1, <1>3
<1> QED  BY <1>1, <1>3, <1>5, <1>7, <1>10, <1>12, <1>13

\* When the loop has ended, the request is done as far as it asks.
LEMMA AllDone ==
    ASSUME IInv, Sized, call # None, call.sect > call.max
    PROVE  Rest = 0
<1>1. /\ call \in Call /\ desc[call.desc] \in Descriptor
      /\ call.bytes_rw <= Len(call.buf) /\ call.off < SECTOR_SIZE
  BY DEF IInv, TypeOK, Call
<1>2. /\ call.sect \in Nat /\ call.max \in Nat /\ call.off \in Nat /\ Pos \in Nat
      /\ Rest \in Nat
  <2>1. /\ call.sect \in Nat /\ call.max \in Nat /\ call.off \in Nat
        /\ call.bytes_rw \in Nat /\ Len(call.buf) \in Nat
    BY <1>1 DEF Call
  <2>2. Pos \in Nat
    BY <1>1 DEF Descriptor, Pos
  <2> QED  BY <1>1, <2>1, <2>2 DEF Rest
<1>3. Rest = 0 \/ Pos = call.sect * SECTOR_SIZE + call.off
  BY DEF IInv, Going, Pos, Rest
<1>4. (call.max + 1) * SECTOR_SIZE <= call.sect * SECTOR_SIZE
      /\ (call.max + 1) * SECTOR_SIZE = call.max * SECTOR_SIZE + SECTOR_SIZE
      /\ call.sect * SECTOR_SIZE \in Nat /\ call.max * SECTOR_SIZE \in Nat
  BY <1>2, Sizes, Times
<1>5. Pos + Rest < call.max * SECTOR_SIZE + SECTOR_SIZE
  <2> DEFINE end == Pos + Rest
             s == SECTOR_SIZE
  <2>1. end \in Nat /\ s \in Nat \ {0}
    BY <1>2, Sizes
  <2>2. call.max = end \div s
    BY DEF Sized
  <2> HIDE DEF end, s
  <2>3. end = (end \div s) * s + (end % s) /\ end % s < s /\ end % s \in Nat
        /\ (end \div s) * s \in Nat
    BY <2>1, DivMod, Times
  <2>4. end < call.max * s + s
    BY <2>1, <2>2, <2>3
  <2> QED  BY <2>4 DEF end, s
<1> QED  BY <1>2, <1>3, <1>4, <1>5, Sizes

\* Every step keeps the positions within the size.
LEMMA StepSized ==
    ASSUME IInv, Sized, WithinFile, [Next]_vars
    PROVE  Sized'
<1>1. ASSUME NEW d \in Descs, NEW rdwr \in BOOLEAN, Open(d, rdwr)
      PROVE  Sized'
  <2>1. UNCHANGED <<i_size, call>> /\ call = None
        /\ desc' = [desc EXCEPT ![d] = [rdwr |-> rdwr, fd_pos |-> 0]]
    BY <1>1 DEF Open
  <2>2. i_size \in Nat
    BY Sizes DEF IInv, TypeOK
  <2> QED  BY <2>1, <2>2 DEF Sized, IInv, TypeOK
<1>2. ASSUME NEW d \in Descs, Close(d)
      PROVE  Sized'
  <2>1. UNCHANGED <<i_size, call>> /\ call = None /\ desc' = [desc EXCEPT ![d] = None]
    BY <1>2 DEF Close
  <2> QED  BY <2>1 DEF Sized, IInv, TypeOK
<1>3. ASSUME NEW d \in Descs, ReadFile(d)
      PROVE  Sized'
  <2>1. PICK n \in 1 .. MaxLen : Start(d, "READ", Fresh(n))
    BY <1>3 DEF ReadFile
  <2>2. Fresh(n) \in Seq(Byte)
    <3>1. Blank \in Byte /\ n \in Nat
      BY Longest DEF Byte
    <3> QED  BY <3>1 DEF Fresh
  <2> QED  BY <2>1, <2>2, StartSized
<1>4. ASSUME NEW d \in Descs, WriteFile(d)
      PROVE  Sized'
  BY <1>4, Longest, StartSized DEF WriteFile
<1>5. CASE Chunk
  BY <1>5, ChunkSized
<1>6. CASE Finish
  <2>1. /\ call # None /\ call' = None /\ desc' = desc
        /\ i_size' = IF desc[call.desc].fd_pos > i_size
                     THEN desc[call.desc].fd_pos ELSE i_size
    BY <1>6 DEF Finish
  <2>2. /\ call.desc \in Descs /\ i_size \in Nat /\ desc[call.desc] # None
        /\ \A e \in Descs : desc[e] # None => desc[e].fd_pos \in Nat
    BY <2>1, Sizes DEF IInv, TypeOK, Call, Descriptor
  <2>3. \A e \in Descs : desc[e] # None /\ e # call.desc => desc[e].fd_pos <= i_size
    BY <2>1 DEF Sized
  <2>4. ASSUME NEW e \in Descs, desc[e] # None
        PROVE  desc[e].fd_pos <= i_size'
    <3>1. CASE e = call.desc
      BY <2>1, <2>2, <2>4, <3>1
    <3>2. CASE e # call.desc
      BY <2>1, <2>2, <2>3, <2>4, <3>2
    <3> QED  BY <3>1, <3>2
  <2> QED  BY <2>1, <2>4 DEF Sized
<1>7. CASE UNCHANGED vars
  BY <1>7 DEF vars, Sized, Pos, Rest
<1> QED  BY <1>1, <1>2, <1>3, <1>4, <1>5, <1>6, <1>7 DEF Next

\* FileSpec's variables: the bytes of the file are Content, FileSize many.
FileSize == IF call # None /\ Pos > i_size THEN Pos ELSE i_size
Positions == [d \in Descs |-> IF desc[d] = None THEN 0 ELSE desc[d].fd_pos]
Request == IF call = None THEN None
           ELSE [desc |-> call.desc, type |-> call.type, done |-> call.bytes_rw,
                 buf |-> call.buf]

LEMMA ContentIs ==
    ASSUME IInv
    PROVE  /\ Content = [i \in 1 .. FileSize |-> disk[i - 1]]
           /\ FileSize \in Nat /\ FileSize <= Capacity /\ i_size <= FileSize
           /\ Content \in Seq(Byte) /\ Len(Content) = FileSize
           /\ \A i \in 1 .. FileSize : Content[i] = disk[i - 1]
<1>1. Content = [i \in 1 .. FileSize |-> disk[i - 1]]
  BY DEF Content, FileSize, Pos
<1>2. FileSize \in Nat /\ FileSize <= Capacity /\ i_size <= FileSize
  <2>1. i_size \in 0 .. Capacity
    BY DEF IInv, TypeOK
  <2>2. call # None => Pos \in 0 .. Capacity
    <3>1. call # None => desc[call.desc] \in Descriptor /\ Pos <= Capacity
      BY DEF IInv, TypeOK, Call, Pos
    <3> QED  BY <3>1, Sizes DEF Descriptor, Pos
  <2> QED  BY <2>1, <2>2, Sizes DEF FileSize
<1>3. \A i \in 1 .. FileSize : disk[i - 1] \in Byte
  <2>1. disk \in [0 .. DiskSize - 1 -> Byte]
    BY DEF IInv, TypeOK
  <2> QED  BY <1>2, <2>1, Sizes
<1>4. \A i \in 1 .. FileSize : Content[i] = disk[i - 1]
  BY <1>1
<1> QED  BY <1>1, <1>2, <1>3, <1>4, MadeSeq

\* The file's bytes stay while the disk and their number do.
LEMMA ContentStays ==
    ASSUME IInv, IInv', disk' = disk, FileSize' = FileSize
    PROVE  Content' = Content
<1>1. Content = [i \in 1 .. FileSize |-> disk[i - 1]]
  BY ContentIs
<1>2. Content' = [i \in 1 .. FileSize' |-> disk'[i - 1]]
  BY DEF Content, FileSize, Pos
<1> QED  BY <1>1, <1>2

\* What the steps of FileSpec say of these variables.
LEMMA AskIs ==
    ASSUME NEW d \in Descs, NEW type, NEW buf
    PROVE  F!Ask(d, type, buf) <=>
              /\ Request = None
              /\ type = "READ" => Positions[d] + Len(buf) <= Len(Content)
              /\ Request' = [desc |-> d, type |-> type, done |-> 0, buf |-> buf]
              /\ UNCHANGED <<Content, Positions>>
  BY DEF F!Ask, Request, Positions

LEMMA PartIs ==
    ASSUME NEW n
    PROVE  F!Part(n) <=>
              /\ Positions' = [Positions EXCEPT ![Request.desc] = @ + n]
              /\ \/ /\ Request.type = "WRITE"
                    /\ Content' = F!Overwritten(Content, Positions[Request.desc],
                                     SubSeq(Request.buf, Request.done + 1, Request.done + n))
                    /\ Request' = [Request EXCEPT !.done = @ + n]
                 \/ /\ Request.type = "READ"
                    /\ Request' = [Request EXCEPT !.done = @ + n,
                                      !.buf = F!Overwritten(@, Request.done,
                                         SubSeq(Content, Positions[Request.desc] + 1,
                                                Positions[Request.desc] + n))]
                    /\ UNCHANGED Content
  BY DEF F!Part, Request, Positions

LEMMA AnswerIs ==
    F!Answer <=> /\ Request # None
                 /\ Request.done = Len(Request.buf)
                 /\ Request' = None
                 /\ UNCHANGED <<Content, Positions>>
  BY DEF F!Answer, Request, Positions

LEMMA RewindIs ==
    ASSUME NEW d \in Descs
    PROVE  F!Rewind(d) <=> /\ Request = None
                           /\ Positions' = [Positions EXCEPT ![d] = 0]
                           /\ UNCHANGED <<Content, Request>>
  BY DEF F!Rewind, Request, Positions

LEMMA FileStutters == UNCHANGED <<Content, Positions, Request>> <=> UNCHANGED F!vars
  BY DEF F!vars, Request, Positions

LEMMA InitFile == Init => F!Init
<1> SUFFICES ASSUME Init
             PROVE  F!Init
  OBVIOUS
<1>1. IInv
  BY InitData
<1>2. FileSize = 0 /\ call = None
  BY DEF Init, FileSize
<1>3. Content = <<>>
  BY <1>1, <1>2, ContentIs
<1>4. Positions = [d \in Descs |-> 0]
  BY DEF Positions, Init
<1>5. Request = None
  BY <1>2 DEF Request
<1>6. F!Init <=> Content = <<>> /\ Positions = [d \in Descs |-> 0] /\ Request = None
  BY DEF F!Init, Positions, Request
<1> QED  BY <1>3, <1>4, <1>5, <1>6

\* A request starts as FileSpec asks, or nothing happens.
LEMMA StartMaps ==
    ASSUME IInv, IInv', Sized, WithinFile, NEW d \in Descs, NEW type \in {"READ", "WRITE"},
           NEW buf \in Seq(Byte), Start(d, type, buf)
    PROVE  F!Ask(d, type, buf) \/ UNCHANGED F!vars
<1>1. /\ call = None /\ desc[d] # None /\ UNCHANGED <<disk, i_size, desc>>
      /\ type = "READ" => desc[d].fd_pos + Len(buf) <= i_size
  BY DEF Start, Allowed
<1>2. Positions' = Positions /\ Positions[d] = desc[d].fd_pos
  BY <1>1 DEF Positions
<1>3. Request = None /\ FileSize = i_size
  BY <1>1 DEF Request, FileSize
<1>4. CASE call' = call
  <2>1. FileSize' = i_size /\ Request' = None
    BY <1>1, <1>4 DEF FileSize, Request
  <2>2. Content' = Content
    BY <1>1, <1>3, <2>1, ContentStays
  <2> QED  BY <1>2, <1>3, <2>1, <2>2, FileStutters
<1>5. CASE call' # call
  <2>1. /\ call' # None /\ call'.desc = d /\ call'.type = type /\ call'.buf = buf
        /\ call'.bytes_rw = 0
    BY <1>1, <1>5 DEF Start
  <2>2. FileSize' = i_size
    <3>1. Pos' = desc[d].fd_pos
      BY <1>1, <2>1 DEF Pos
    <3>2. desc[d].fd_pos <= i_size /\ desc[d].fd_pos \in Nat /\ i_size \in Nat
      BY <1>1, Sizes DEF Sized, IInv, TypeOK, Descriptor
    <3> QED  BY <1>1, <3>1, <3>2 DEF FileSize
  <2>3. Content' = Content /\ Len(Content) = i_size
    BY <1>1, <1>3, <2>2, ContentStays, ContentIs
  <2>4. Request' = [desc |-> d, type |-> type, done |-> 0, buf |-> buf]
    BY <2>1 DEF Request
  <2> QED  BY <1>1, <1>2, <1>3, <2>3, <2>4, AskIs
<1> QED  BY <1>4, <1>5

\* What a round leaves on the disk: the bytes it transfers, where they belong.
LEMMA DiskAfter ==
    ASSUME IInv, Chunk, call.type = "WRITE"
    PROVE  \A b \in 0 .. DiskSize - 1 :
              disk'[b] = IF Bytes > 0 /\ b \in Pos .. Pos + Bytes - 1
                         THEN call.buf[call.bytes_rw + 1 + b - Pos] ELSE disk[b]
<1>1. disk' = [b \in 0 .. DiskSize - 1 |->
                  IF b - Base \in 0 .. Size - 1 THEN Filled[b - Base] ELSE disk[b]]
  <2>1. disk' = [b \in DOMAIN disk |->
                    IF b - Base \in DOMAIN Filled THEN Filled[b - Base] ELSE disk[b]]
    BY DEF Chunk, Base
  <2>2. DOMAIN Filled = 0 .. Size - 1 /\ DOMAIN disk = 0 .. DiskSize - 1
    BY Round DEF IInv, TypeOK
  <2> QED  BY <2>1, <2>2
<1>2. \A k \in 0 .. Size - 1 :
         Filled[k] = IF k \in call.off .. call.off + Bytes - 1
                     THEN call.buf[call.bytes_rw + 1 + k - call.off] ELSE disk[Base + k]
  BY Round
<1>3. /\ Base \in Nat /\ Size \in Nat /\ Bytes \in Nat /\ Pos \in Nat /\ Rest \in Nat
      /\ call.off \in Nat /\ call.off + Bytes <= Size
      /\ call.bytes_rw \in Nat
      /\ Bytes > 0 => Pos = Base + call.off
  BY Round
<1> DEFINE off == call.off
           done == call.bytes_rw
           n == Bytes
<1> HIDE DEF off, done, n
<1>4. ASSUME NEW b \in 0 .. DiskSize - 1
      PROVE  disk'[b] = IF n > 0 /\ b \in Pos .. Pos + n - 1
                        THEN call.buf[done + 1 + b - Pos] ELSE disk[b]
  <2>1. b \in Int
    BY Sizes
  <2>2. CASE b - Base \in 0 .. Size - 1
    <3>1. disk'[b] = Filled[b - Base] /\ Base + (b - Base) = b
      BY <1>1, <1>3, <2>1, <2>2
    <3>2. Filled[b - Base] = IF b - Base \in off .. off + n - 1
                             THEN call.buf[done + 1 + (b - Base) - off]
                             ELSE disk[Base + (b - Base)]
      BY <1>2, <2>2 DEF off, done, n
    <3>3. CASE n > 0
      <4>1. b - Base \in off .. off + n - 1 <=> b \in Pos .. Pos + n - 1
        BY <1>3, <2>1, <3>3 DEF off, n
      <4>2. done + 1 + (b - Base) - off = done + 1 + b - Pos
        BY <1>3, <2>1, <3>3 DEF off, n, done
      <4> QED  BY <3>1, <3>2, <3>3, <4>1, <4>2
    <3>4. CASE ~(n > 0)
      <4>1. b - Base \notin off .. off + n - 1
        BY <1>3, <2>1, <3>4 DEF off, n
      <4> QED  BY <3>1, <3>2, <3>4, <4>1
    <3> QED  BY <3>3, <3>4
  <2>3. CASE ~(b - Base \in 0 .. Size - 1)
    <3>1. disk'[b] = disk[b]
      BY <1>1, <2>3
    <3>2. n > 0 => b \notin Pos .. Pos + n - 1
      BY <1>3, <2>1, <2>3 DEF off, n
    <3> QED  BY <3>1, <3>2
  <2> QED  BY <2>2, <2>3
<1> QED  BY <1>4 DEF done, n

\* A round of a write replaces the bytes behind the position.
LEMMA WriteMaps ==
    ASSUME IInv, IInv', Sized, Chunk, call.type = "WRITE"
    PROVE  /\ Bytes > 0 =>
                 Content' = F!Overwritten(Content, Pos,
                                SubSeq(call.buf, call.bytes_rw + 1, call.bytes_rw + Bytes))
           /\ Bytes = 0 => Content' = Content
<1> DEFINE n == Bytes
           done == call.bytes_rw
           t == SubSeq(call.buf, done + 1, done + n)
<1>1. /\ n \in Nat /\ done \in Nat /\ Pos \in Nat /\ i_size \in Nat
      /\ call.buf \in Seq(Byte) /\ done + n \in Nat /\ done + n <= Len(call.buf)
      /\ call # None
  BY Round, Sizes DEF IInv, TypeOK
<1>2. Len(t) = n /\ \A i \in 1 .. n : t[i] = call.buf[done + i]
  <2> HIDE DEF n, done
  <2> QED  BY <1>1
<1>3. /\ call' # None /\ Pos' = Pos + n /\ i_size' = i_size
  BY ChunkSized
<1>4. FileSize' = IF Pos + n > FileSize THEN Pos + n ELSE FileSize
  <2> HIDE DEF n
  <2> QED  BY <1>1, <1>3 DEF FileSize
<1>5. \A b \in 0 .. DiskSize - 1 :
         disk'[b] = IF n > 0 /\ b \in Pos .. Pos + n - 1
                    THEN call.buf[done + 1 + b - Pos] ELSE disk[b]
  BY DiskAfter
<1>6. /\ Content = [i \in 1 .. FileSize |-> disk[i - 1]]
      /\ FileSize \in Nat /\ FileSize <= Capacity /\ Len(Content) = FileSize
      /\ \A i \in 1 .. FileSize : Content[i] = disk[i - 1]
  BY ContentIs
<1>7. /\ Content' = [i \in 1 .. FileSize' |-> disk'[i - 1]]
      /\ FileSize' \in Nat /\ FileSize' <= Capacity
  <2>1. Content' = [i \in 1 .. FileSize' |-> disk'[i - 1]]
    BY DEF Content, FileSize, Pos
  <2>2. Pos + n <= Capacity
    BY Round
  <2> HIDE DEF n
  <2> QED  BY <1>1, <1>4, <1>6, <2>1, <2>2, Sizes
<1> HIDE DEF n, done, t
<1>8. \A i \in 1 .. FileSize' : i - 1 \in 0 .. DiskSize - 1
  BY <1>7, Sizes
<1>9. CASE n > 0
  <2>1. F!Overwritten(Content, Pos, t) =
           [i \in 1 .. FileSize' |-> IF i \in Pos + 1 .. Pos + n THEN t[i - Pos] ELSE Content[i]]
    BY <1>2, <1>4, <1>6 DEF F!Overwritten
  <2>2. ASSUME NEW i \in 1 .. FileSize'
        PROVE  disk'[i - 1] = IF i \in Pos + 1 .. Pos + n THEN t[i - Pos] ELSE Content[i]
    <3>1. i \in Nat /\ i > 0
      BY <1>7
    <3>2. CASE i \in Pos + 1 .. Pos + n
      <4>1. i - 1 \in Pos .. Pos + n - 1 /\ i - Pos \in 1 .. n
            /\ done + 1 + (i - 1) - Pos = done + (i - Pos)
        BY <1>1, <3>1, <3>2 DEF n, done
      <4>2. disk'[i - 1] = call.buf[done + 1 + (i - 1) - Pos]
        BY <1>5, <1>8, <1>9, <4>1
      <4> QED  BY <1>2, <3>2, <4>1, <4>2
    <3>3. CASE i \notin Pos + 1 .. Pos + n
      <4>1. i - 1 \notin Pos .. Pos + n - 1 /\ i \in 1 .. FileSize
        <5>1. Pos <= FileSize
          BY <1>1 DEF FileSize
        <5>2. n \in Nat
          BY <1>1 DEF n
        <5> QED  BY <1>1, <1>4, <1>6, <3>1, <3>3, <5>1, <5>2
      <4>2. disk'[i - 1] = disk[i - 1]
        BY <1>5, <1>8, <4>1
      <4> QED  BY <1>6, <3>3, <4>1, <4>2
    <3> QED  BY <3>2, <3>3
  <2>3. Content' = F!Overwritten(Content, Pos, t)
    BY <1>7, <2>1, <2>2
  <2> QED  BY <1>9, <2>3 DEF n, done, t
<1>10. CASE n = 0
  <2>1. FileSize' = FileSize
    <3>1. Pos + n = Pos /\ ~(Pos > FileSize)
      BY <1>1, <1>10 DEF FileSize
    <3> QED  BY <1>4, <3>1
  <2>2. \A i \in 1 .. FileSize' : disk'[i - 1] = disk[i - 1]
    BY <1>5, <1>8, <1>10
  <2>3. Content' = Content
    BY <1>6, <1>7, <2>1, <2>2
  <2> QED  BY <1>10, <2>3 DEF n
<1> QED  BY <1>1, <1>9, <1>10 DEF n

\* A round of a read copies the file's bytes behind the position.
LEMMA ReadMaps ==
    ASSUME IInv, IInv', Sized, Chunk, call.type = "READ"
    PROVE  /\ Content' = Content
           /\ call'.buf = IF Bytes = 0 THEN call.buf
                          ELSE F!Overwritten(call.buf, call.bytes_rw,
                                   SubSeq(Content, Pos + 1, Pos + Bytes))
<1> DEFINE n == Bytes
           done == call.bytes_rw
           off == call.off
           t == SubSeq(Content, Pos + 1, Pos + n)
<1>1. /\ n \in Nat /\ done \in Nat /\ Pos \in Nat /\ off \in Nat /\ Base \in Nat
      /\ call.buf \in Seq(Byte) /\ done + n <= Len(call.buf) /\ Len(call.buf) \in Nat
      /\ call # None /\ call \in Call /\ n <= Rest /\ Rest \in Nat /\ Size \in Nat
      /\ n > 0 => Pos = Base + off
      /\ off + n <= Size
  BY Round
<1>2. i_size \in Nat /\ Pos + Rest <= i_size
  BY <1>1, Sizes DEF Sized, IInv, TypeOK
<1>3. call' # None /\ Pos' = Pos + n /\ i_size' = i_size /\ disk' = disk
  BY <1>1, ChunkSized DEF Chunk
<1>4. Content' = Content /\ FileSize = i_size
  <2>1. FileSize = i_size
    BY <1>1, <1>2 DEF FileSize
  <2>2. FileSize' = i_size
    <3> HIDE DEF n
    <3> QED  BY <1>1, <1>2, <1>3 DEF FileSize
  <2> QED  BY <1>3, <2>1, <2>2, ContentStays
<1>5. /\ Content \in Seq(Byte) /\ Len(Content) = i_size
      /\ \A i \in 1 .. i_size : Content[i] = disk[i - 1]
  BY <1>4, ContentIs
<1>6. Len(t) = n /\ \A i \in 1 .. n : t[i] = disk[Pos + i - 1]
  <2> HIDE DEF n
  <2>1. Len(t) = n /\ \A i \in 1 .. n : t[i] = Content[Pos + i]
    BY <1>1, <1>2, <1>5
  <2>2. \A i \in 1 .. n : Pos + i \in 1 .. i_size
    BY <1>1, <1>2
  <2> HIDE DEF t
  <2>3. ASSUME NEW i \in 1 .. n
        PROVE  t[i] = disk[Pos + i - 1]
    <3>1. Content[Pos + i] = disk[(Pos + i) - 1]
      BY <1>5, <2>2
    <3> QED  BY <1>1, <2>1, <3>1
  <2> QED  BY <2>1, <2>3
<1>7. Fetched = [k \in 0 .. Size - 1 |-> disk[Base + k]]
  BY Round
<1>8. call'.buf = [i \in 1 .. Len(call.buf) |->
                      IF i - done \in 1 .. n THEN Fetched[off + i - done - 1] ELSE call.buf[i]]
  <2>1. call' = [call EXCEPT
           !.buf = [i \in DOMAIN call.buf |->
                      IF i - done \in 1 .. n THEN Fetched[off + i - done - 1] ELSE call.buf[i]],
           !.bytes_rw = done + n, !.off = 0, !.sect = call.sect + call.chunk]
    BY DEF Chunk
  <2>2. DOMAIN call.buf = 1 .. Len(call.buf)
    BY <1>1
  <2> HIDE DEF n, done, off
  <2> QED  BY <1>1, <2>1, <2>2 DEF Call
<1> HIDE DEF n, done, off, t
<1>9. CASE n > 0
  <2>1. F!Overwritten(call.buf, done, t) =
           [i \in 1 .. Len(call.buf) |->
               IF i \in done + 1 .. done + n THEN t[i - done] ELSE call.buf[i]]
    <3>1. ~(done + Len(t) > Len(call.buf))
      BY <1>1, <1>6 DEF n, done
    <3> QED  BY <1>6, <3>1 DEF F!Overwritten
  <2>2. ASSUME NEW i \in 1 .. Len(call.buf)
        PROVE  (IF i - done \in 1 .. n THEN Fetched[off + i - done - 1] ELSE call.buf[i])
                  = IF i \in done + 1 .. done + n THEN t[i - done] ELSE call.buf[i]
    <3>1. i - done \in 1 .. n <=> i \in done + 1 .. done + n
      BY <1>1 DEF n, done
    <3>2. ASSUME i - done \in 1 .. n
          PROVE  Fetched[off + i - done - 1] = t[i - done]
      <4>1. off + i - done - 1 \in 0 .. Size - 1
            /\ Base + (off + i - done - 1) = Pos + (i - done) - 1
        <5>1. /\ n \in Nat /\ done \in Nat /\ off \in Nat /\ Base \in Nat
              /\ Size \in Nat /\ off + n <= Size /\ Pos = Base + off
              /\ Len(call.buf) \in Nat
          BY <1>1, <1>9 DEF n, done, off
        <5>2. i \in Int
          BY <5>1
        <5> QED  BY <3>2, <5>1, <5>2
      <4>2. Fetched[off + i - done - 1] = disk[Pos + (i - done) - 1]
        BY <1>7, <4>1
      <4> QED  BY <1>6, <3>2, <4>2
    <3> QED  BY <3>1, <3>2
  <2>3. call'.buf = F!Overwritten(call.buf, done, t)
    BY <1>8, <2>1, <2>2
  <2> QED  BY <1>4, <1>9, <2>3 DEF n, done, t
<1>10. CASE n = 0
  <2>1. \A i \in 1 .. Len(call.buf) : i - done \notin 1 .. n
    BY <1>10
  <2>2. call'.buf = [i \in 1 .. Len(call.buf) |-> call.buf[i]]
    BY <1>8, <2>1
  <2>3. call'.buf = call.buf
    BY <1>1, <2>2
  <2> QED  BY <1>4, <1>10, <2>3 DEF n
<1>11. n > 0 \/ n = 0
  BY <1>1 DEF n
<1> QED  BY <1>9, <1>10, <1>11

\* A round is a part of the request, or, when it moves nothing, no step.
LEMMA ChunkMaps ==
    ASSUME IInv, IInv', Sized, Chunk
    PROVE  F!Next \/ UNCHANGED F!vars
<1>1. PICK d \in Descs : d = call.desc
  BY Round
<1>2. /\ call # None /\ call \in Call /\ desc[d] # None /\ desc[d] \in Descriptor
      /\ Bytes \in Nat /\ Bytes <= Rest /\ Rest \in Nat /\ Pos \in Nat
      /\ call.bytes_rw \in Nat
  BY <1>1, Round
<1>3. /\ call'.desc = d /\ call'.type = call.type /\ call'.bytes_rw = call.bytes_rw + Bytes
      /\ call' # None
      /\ desc' = [desc EXCEPT ![d] = [desc[d] EXCEPT !.fd_pos = Pos + Bytes]]
  BY <1>1, ChunkSized
<1>4. /\ Request = [desc |-> d, type |-> call.type, done |-> call.bytes_rw, buf |-> call.buf]
      /\ Request' = [desc |-> d, type |-> call.type, done |-> call.bytes_rw + Bytes,
                     buf |-> call'.buf]
  BY <1>1, <1>2, <1>3 DEF Request
<1>5. Positions' = [Positions EXCEPT ![d] = Positions[d] + Bytes] /\ Positions[d] = Pos
  <2>1. Positions[d] = Pos
    BY <1>1, <1>2 DEF Positions, Pos
  <2>2. /\ [desc[d] EXCEPT !.fd_pos = Pos + Bytes] \in Descriptor
        /\ [desc[d] EXCEPT !.fd_pos = Pos + Bytes].fd_pos = Pos + Bytes
    <3>1. Pos + Bytes \in Nat
      BY <1>2
    <3> QED  BY <1>2, <3>1 DEF Descriptor
  <2>3. None \notin Descriptor
    BY TextsAssumption
  <2>4. \A e \in Descs : desc'[e] = IF e = d THEN [desc[d] EXCEPT !.fd_pos = Pos + Bytes]
                                    ELSE desc[e]
    BY <1>3 DEF IInv, TypeOK
  <2>5. \A e \in Descs : Positions'[e] = IF e = d THEN Pos + Bytes ELSE Positions[e]
    BY <2>2, <2>3, <2>4 DEF Positions
  <2>6. Positions' = [e \in Descs |-> Positions'[e]]
        /\ DOMAIN Positions = Descs
    BY DEF Positions
  <2> QED  BY <2>1, <2>5, <2>6
<1>6. CASE Bytes = 0
  <2>1. Content' = Content /\ call'.buf = call.buf
    <3>1. CASE call.type = "WRITE"
      <4>1. call'.buf = call.buf
        BY <1>2, <3>1 DEF Chunk, Call
      <4> QED  BY <1>6, <3>1, <4>1, WriteMaps
    <3>2. CASE call.type = "READ"
      BY <1>6, <3>2, ReadMaps
    <3> QED  BY <1>2, <3>1, <3>2 DEF Call
  <2>2. Request' = Request
    BY <1>2, <1>4, <1>6, <2>1
  <2>3. Positions' = Positions
    <3>1. Positions[d] + Bytes = Positions[d]
      BY <1>2, <1>5, <1>6
    <3>2. Positions = [e \in Descs |-> Positions[e]]
      BY DEF Positions
    <3> QED  BY <1>5, <3>1, <3>2
  <2> QED  BY <2>1, <2>2, <2>3, FileStutters
<1>7. CASE Bytes # 0
  <2> PICK n \in 1 .. Rest : n = Bytes
    BY <1>2, <1>7
  <2>1. F!Part(n)
    <3>1. CASE call.type = "WRITE"
      <4>1. call'.buf = call.buf
        BY <1>2, <3>1 DEF Chunk, Call
      <4>2. Content' = F!Overwritten(Content, Pos,
                           SubSeq(call.buf, call.bytes_rw + 1, call.bytes_rw + n))
        BY <1>2, <1>7, <3>1, WriteMaps
      <4>3. Request' = [Request EXCEPT !.done = @ + n]
        BY <1>4, <4>1
      <4> QED  BY <1>4, <1>5, <3>1, <4>2, <4>3, PartIs
    <3>2. CASE call.type = "READ"
      <4>1. Content' = Content
            /\ call'.buf = F!Overwritten(call.buf, call.bytes_rw,
                               SubSeq(Content, Pos + 1, Pos + n))
        BY <1>7, <3>2, ReadMaps
      <4> PICK got : got = F!Overwritten(call.buf, call.bytes_rw,
                                         SubSeq(Content, Pos + 1, Pos + n))
        OBVIOUS
      <4>2. Request' = [Request EXCEPT !.done = Request.done + n, !.buf = got]
        <5>1. PICK q : q = [Request EXCEPT !.done = Request.done + n]
          OBVIOUS
        <5>2. q = [desc |-> d, type |-> call.type, done |-> call.bytes_rw + n,
                   buf |-> call.buf]
          BY <1>4, <5>1
        <5>3. Request' = [q EXCEPT !.buf = got]
          BY <1>4, <4>1, <5>2
        <5>4. [q EXCEPT !.buf = got] = [Request EXCEPT !.done = Request.done + n, !.buf = got]
          BY <5>1
        <5> QED  BY <5>3, <5>4
      <4> QED  BY <1>4, <1>5, <3>2, <4>1, <4>2, PartIs
    <3> QED  BY <1>2, <3>1, <3>2 DEF Call
  <2>2. n \in 1 .. Len(Request.buf) - Request.done
    BY <1>2, <1>4, <1>7 DEF Rest
  <2>3. Request # None
    <3>1. Request \in Asked
      BY <1>1, <1>2, <1>4 DEF Asked, Call
    <3> QED  BY <3>1, TextsAssumption
  <2>4. (\E k \in 1 .. Len(Request.buf) - Request.done : F!Part(k)) /\ Request # None
           => F!Next
    BY DEF F!Next, Request
  <2> QED  BY <2>1, <2>2, <2>3, <2>4
<1> QED  BY <1>6, <1>7

\* The end of the loop is the answer: all that was asked for is done.
LEMMA FinishMaps ==
    ASSUME IInv, IInv', Sized, Finish
    PROVE  F!Answer
<1>1. /\ call # None /\ call.sect > call.max /\ call' = None
      /\ UNCHANGED <<disk, desc>>
      /\ i_size' = IF Pos > i_size THEN Pos ELSE i_size
  BY DEF Finish, Pos
<1>2. /\ Request = [desc |-> call.desc, type |-> call.type, done |-> call.bytes_rw,
                    buf |-> call.buf]
      /\ Request' = None
  BY <1>1 DEF Request
<1>3. call \in Call /\ Rest = 0
  BY <1>1, AllDone DEF IInv, TypeOK
<1>4. Request.done = Len(Request.buf)
  BY <1>2, <1>3 DEF Rest, Call
<1>5. Request # None
  <2>1. Request \in Asked
    BY <1>2, <1>3 DEF Asked, Call
  <2> QED  BY <2>1, TextsAssumption
<1>6. Content' = Content
  <2>1. FileSize' = FileSize
    BY <1>1 DEF FileSize
  <2> QED  BY <1>1, <2>1, ContentStays
<1>7. Positions' = Positions
  BY <1>1 DEF Positions
<1> QED  BY <1>2, <1>4, <1>5, <1>6, <1>7, AnswerIs

\* Every step is one of FileSpec's or leaves its variables alone.
LEMMA StepMapsFile ==
    ASSUME IInv, IInv', Sized, WithinFile, [Next]_vars
    PROVE  [F!Next]_F!vars
<1>1. ASSUME NEW d \in Descs, call = None, UNCHANGED <<disk, i_size, call>>,
             NEW new \in Descriptor \cup {None}, new # None => new.fd_pos = 0,
             desc' = [desc EXCEPT ![d] = new]
      PROVE  F!Rewind(d)
  <2>1. Request = None /\ Request' = Request
    BY <1>1 DEF Request
  <2>2. Content' = Content
    <3>1. FileSize' = FileSize
      BY <1>1 DEF FileSize
    <3> QED  BY <1>1, <3>1, ContentStays
  <2>3. Positions' = [Positions EXCEPT ![d] = 0]
    <3>1. \A e \in Descs : desc'[e] = IF e = d THEN new ELSE desc[e]
      BY <1>1 DEF IInv, TypeOK
    <3>2. \A e \in Descs : Positions'[e] = IF e = d THEN 0 ELSE Positions[e]
      BY <1>1, <3>1 DEF Positions
    <3>3. Positions' = [e \in Descs |-> Positions'[e]] /\ DOMAIN Positions = Descs
      BY DEF Positions
    <3> QED  BY <3>2, <3>3
  <2> QED  BY <2>1, <2>2, <2>3, RewindIs
<1>2. ASSUME NEW d \in Descs, NEW rdwr \in BOOLEAN, Open(d, rdwr)
      PROVE  F!Next
  <2>1. PICK new \in Descriptor : new = [rdwr |-> rdwr, fd_pos |-> 0]
    BY DEF Descriptor
  <2>2. new.fd_pos = 0
    BY <2>1
  <2>3. F!Rewind(d)
    BY <1>1, <1>2, <2>1, <2>2 DEF Open
  <2> QED  BY <2>3 DEF F!Next
<1>3. ASSUME NEW d \in Descs, Close(d)
      PROVE  F!Next
  <2>1. F!Rewind(d)
    BY <1>1, <1>3 DEF Close
  <2> QED  BY <2>1 DEF F!Next
<1>4. ASSUME NEW d \in Descs, ReadFile(d)
      PROVE  F!Next \/ UNCHANGED F!vars
  <2>1. PICK n \in 1 .. MaxLen : Start(d, "READ", Fresh(n))
    BY <1>4 DEF ReadFile
  <2>2. Fresh(n) \in Seq(Byte)
    <3>1. Blank \in Byte /\ n \in Nat
      BY Longest DEF Byte
    <3> QED  BY <3>1 DEF Fresh
  <2>3. F!Ask(d, "READ", Fresh(n)) \/ UNCHANGED F!vars
    BY <2>1, <2>2, StartMaps
  <2> QED  BY <2>3 DEF F!Next
<1>5. ASSUME NEW d \in Descs, WriteFile(d)
      PROVE  F!Next \/ UNCHANGED F!vars
  <2>1. PICK text \in Texts : Start(d, "WRITE", text)
    BY <1>5 DEF WriteFile
  <2>2. text \in Seq(Byte)
    BY Longest
  <2>3. F!Ask(d, "WRITE", text) \/ UNCHANGED F!vars
    BY <2>1, <2>2, StartMaps
  <2> QED  BY <2>3 DEF F!Next
<1>6. CASE Chunk
  BY <1>6, ChunkMaps
<1>7. CASE Finish
  <2>1. F!Answer
    BY <1>7, FinishMaps
  <2> QED  BY <2>1 DEF F!Next
<1>8. CASE UNCHANGED vars
  <2>1. UNCHANGED <<disk, i_size, desc, call>>
    BY <1>8 DEF vars
  <2>2. FileSize' = FileSize
    BY <2>1 DEF FileSize, Pos
  <2>3. Content' = Content
    BY <2>1, <2>2, ContentStays
  <2>4. Positions' = Positions /\ Request' = Request
    BY <2>1 DEF Positions, Request
  <2> QED  BY <2>3, <2>4, FileStutters
<1> QED  BY <1>2, <1>3, <1>4, <1>5, <1>6, <1>7, <1>8 DEF Next

\* Through sectors, chunks, offsets and the size kept in the inode, reading
\* and writing within the file are what FileSpec says
\* (fs/read_write.c:do_rdwt).
THEOREM DataImplementsFile == WithinFile => (Spec => ImplementsFile)
<1> SUFFICES ASSUME WithinFile
             PROVE  Spec => F!Spec
  BY DEF ImplementsFile
<1>1. Init => F!Init
  BY InitFile
<1>2. Init => Sized
  BY DEF Init, Sized
<1>3. IInv /\ Sized /\ [Next]_vars => Sized'
  BY StepSized
<1>4. IInv /\ IInv' /\ Sized /\ [Next]_vars => [F!Next]_F!vars
  BY StepMapsFile
<1> QED  BY <1>1, <1>2, <1>3, <1>4, Invariance, PTL DEF Spec, F!Spec
=============================================================================
