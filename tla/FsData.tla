------------------------------- MODULE FsData -------------------------------
(***************************************************************************)
(* Reading and writing a regular file of 211 OS (fs/read_write.c): the     *)
(* sectors of a file and of what lies behind it on the disk, its inode,    *)
(* the descriptors that processes have of it, and do_rdwt, which goes      *)
(* through the sectors in chunks of fsbuf's size, one chunk a step.        *)
(*                                                                         *)
(* TASK_FS serves one request at a time and waits for the disk, so nothing *)
(* falls between the chunks.  LSEEK is not served (fs/main.c:87): a        *)
(* position is set to 0 when the file is opened and moved by reads and     *)
(* writes.  Byte positions count from the file's first sector.             *)
(***************************************************************************)
EXTENDS Integers, Sequences

CONSTANTS
    SECTOR_SIZE,
    i_nr_sects,    \* sectors of the file (NR_DEFAULT_FILE_SECTS)
    FsbufSects,    \* FSBUF_SIZE >> SECTOR_SIZE_SHIFT
    Texts,         \* what processes write
    Blank,         \* the byte of a fresh sector, and of fresh memory
    Foreign,       \* the bytes of the file that follows on the disk
    Descs,         \* descriptors of the file
    None,
    WithinFile     \* whether processes read no further than the file's end,
                   \* and write no further than its last sector's

ASSUME FsDataAssumption ==
    /\ SECTOR_SIZE \in Nat \ {0} /\ i_nr_sects \in Nat \ {0}
    /\ FsbufSects \in Nat \ {0}
    /\ WithinFile \in BOOLEAN

Byte == (UNION {{t[i] : i \in DOMAIN t} : t \in Texts}) \cup {Blank, Foreign}
Capacity == i_nr_sects * SECTOR_SIZE
DiskSize == Capacity + (FsbufSects + 1) * SECTOR_SIZE
MaxLen == CHOOSE n \in {Len(t) : t \in Texts} : \A t \in Texts : Len(t) <= n

\* an entry of f_desc_table for the file, do_rdwt's variables, and what
\* FileSpec keeps of a request
Descriptor == [rdwr : BOOLEAN, fd_pos : Nat]
Call == [desc : Descs, type : {"READ", "WRITE"}, buf : Seq(Byte), bytes_rw : Nat,
         off : Nat, sect : Nat, max : Nat, chunk : Nat]
Asked == [desc : Descs, type : {"READ", "WRITE"}, done : Nat, buf : Seq(Byte)]

ASSUME TextsAssumption ==
    /\ Texts \subseteq Seq(Byte)
    /\ \E t \in Texts : \A u \in Texts : Len(u) <= Len(t)
    /\ None \notin Descriptor \cup Call \cup Asked

VARIABLES
    disk,              \* disk[b]: byte b, counted from the file's start
    i_size, i_lock,    \* of the file's inode
    desc,              \* desc[d]: fd_mode is O_RDWR, and fd_pos; or None
    call,              \* the READ or WRITE in progress, or None
    cnt                \* fs_msg.CNT of the last answer

vars == <<disk, i_size, i_lock, desc, call, cnt>>

Less(a, b) == IF a < b THEN a ELSE b

Init ==
    /\ disk = [b \in 0 .. DiskSize - 1 |-> IF b < Capacity THEN Blank ELSE Foreign]
    /\ i_size = 0 /\ i_lock = FALSE
    /\ desc = [d \in Descs |-> None]
    /\ call = None
    /\ cnt = 0

\* do_open; a file may be created without O_RDWR
Open(d, rdwr) ==
    /\ call = None
    /\ desc[d] = None
    /\ desc' = [desc EXCEPT ![d] = [rdwr |-> rdwr, fd_pos |-> 0]]
    /\ UNCHANGED <<disk, i_size, i_lock, call, cnt>>

\* do_close
Close(d) ==
    /\ call = None
    /\ desc[d] # None
    /\ desc' = [desc EXCEPT ![d] = None]
    /\ UNCHANGED <<disk, i_size, i_lock, call, cnt>>

\* where the transfer is to end
PosEnd(type, pos, len) ==
    IF type = "READ" THEN Less(pos + len, i_size) ELSE Less(pos + len, Capacity)

\* the requests processes make
Allowed(type, pos, len) ==
    WithinFile => pos + len <= IF type = "READ" THEN i_size ELSE Capacity

\* do_rdwt up to its loop: nothing is done for a descriptor without O_RDWR,
\* or while the inode is locked.  sect is the loop's i.
Start(d, type, buf) ==
    /\ call = None
    /\ desc[d] # None
    /\ LET pos == desc[d].fd_pos
           min == pos \div SECTOR_SIZE
           max == PosEnd(type, pos, Len(buf)) \div SECTOR_SIZE
       IN /\ Allowed(type, pos, Len(buf))
          /\ IF ~desc[d].rdwr \/ i_lock
             THEN cnt' = 0 /\ UNCHANGED <<call, i_lock>>
             ELSE /\ i_lock' = TRUE
                  /\ call' = [desc |-> d, type |-> type, buf |-> buf, bytes_rw |-> 0,
                              off |-> pos % SECTOR_SIZE, sect |-> min, max |-> max,
                              chunk |-> Less(max - min + 1, FsbufSects)]
                  /\ UNCHANGED cnt
    /\ UNCHANGED <<disk, i_size, desc>>

\* Mutant of Bytes: the offset in the first sector is forgotten.
BytesNoOff == Less(Len(call.buf) - call.bytes_rw, call.chunk * SECTOR_SIZE)

\* the bytes of this round
Bytes == Less(Len(call.buf) - call.bytes_rw, call.chunk * SECTOR_SIZE - call.off)

\* Mutant of Fetched: a buffer that is to be overwritten is not read first.
FetchedFresh == [k \in 0 .. call.chunk * SECTOR_SIZE - 1 |-> Blank]

\* fsbuf, with the chunk at sect
Fetched == [k \in 0 .. call.chunk * SECTOR_SIZE - 1 |-> disk[call.sect * SECTOR_SIZE + k]]

\* fsbuf with the bytes of this round copied from the process's buffer
Filled ==
    [k \in DOMAIN Fetched |->
        IF k \in call.off .. call.off + Bytes - 1
        THEN call.buf[call.bytes_rw + 1 + k - call.off] ELSE Fetched[k]]

\* One round of the loop: the chunk is read into fsbuf, and bytes are copied
\* from it, or into it and the whole chunk is written back.
Chunk ==
    /\ call # None
    /\ call.sect <= call.max
    /\ LET base == call.sect * SECTOR_SIZE
       IN disk' = IF call.type = "READ" THEN disk
                  ELSE [b \in DOMAIN disk |->
                           IF b - base \in DOMAIN Filled THEN Filled[b - base] ELSE disk[b]]
    /\ call' = [call EXCEPT
          !.buf = IF call.type = "WRITE" THEN @
                  ELSE [i \in DOMAIN @ |->
                           IF i - call.bytes_rw \in 1 .. Bytes
                           THEN Fetched[call.off + i - call.bytes_rw - 1] ELSE @[i]],
          !.bytes_rw = @ + Bytes, !.off = 0, !.sect = @ + call.chunk]
    /\ desc' = [desc EXCEPT ![call.desc].fd_pos = @ + Bytes]
    /\ UNCHANGED <<i_size, i_lock, cnt>>

\* Mutant of Finish: the lock is kept.
FinishLocked ==
    /\ call # None
    /\ call.sect > call.max
    /\ i_size' = IF desc[call.desc].fd_pos > i_size THEN desc[call.desc].fd_pos ELSE i_size
    /\ cnt' = call.bytes_rw
    /\ call' = None
    /\ UNCHANGED <<disk, desc, i_lock>>

\* the size, and the answer
Finish ==
    /\ call # None
    /\ call.sect > call.max
    /\ i_size' = IF desc[call.desc].fd_pos > i_size THEN desc[call.desc].fd_pos ELSE i_size
    /\ i_lock' = FALSE
    /\ cnt' = call.bytes_rw
    /\ call' = None
    /\ UNCHANGED <<disk, desc>>

\* a buffer to read into
Fresh(n) == [i \in 1 .. n |-> Blank]

\* read, write
ReadFile(d) == \E n \in 1 .. MaxLen : Start(d, "READ", Fresh(n))

WriteFile(d) == \E text \in Texts : Start(d, "WRITE", text)

Next ==
    \/ \E d \in Descs :
          \/ \E rdwr \in BOOLEAN : Open(d, rdwr)
          \/ Close(d) \/ ReadFile(d) \/ WriteFile(d)
    \/ Chunk \/ Finish

Spec == Init /\ [][Next]_vars

----------------------------------------------------------------------------
(* Properties *)

\* The types of the variables.
TypeOK ==
    /\ disk \in [0 .. DiskSize - 1 -> Byte]
    /\ i_size \in 0 .. Capacity /\ i_lock = (call # None)
    /\ desc \in [Descs -> Descriptor \cup {None}]
    /\ \A d \in Descs : desc[d] # None => desc[d].fd_pos <= Capacity
    /\ call \in Call \cup {None}
    /\ call # None =>
          /\ desc[call.desc] # None
          /\ call.bytes_rw <= Len(call.buf) /\ Len(call.buf) <= MaxLen
          /\ call.off < SECTOR_SIZE /\ call.chunk \in 1 .. FsbufSects
    /\ cnt \in 0 .. MaxLen

\* Chunks reach beyond the file's sectors, into those of the next file, when
\* a transfer ends at their end: what is written back there is what was read
\* (read_write.c:94-131).
NeighbourKept == \A b \in Capacity .. DiskSize - 1 : disk[b] = Foreign

\* The bytes of the file: those before its size, and those a write in
\* progress has put behind them.
Content ==
    LET size == IF call # None /\ desc[call.desc].fd_pos > i_size
                THEN desc[call.desc].fd_pos ELSE i_size
    IN [i \in 1 .. size |-> disk[i - 1]]

F == INSTANCE FileSpec WITH
        Free <- None,
        Buffers <- Texts \cup {Fresh(n) : n \in 1 .. MaxLen},
        content <- Content,
        at <- [d \in Descs |-> IF desc[d] = None THEN 0 ELSE desc[d].fd_pos],
        req <- IF call = None THEN None
               ELSE [desc |-> call.desc, type |-> call.type, done |-> call.bytes_rw,
                     buf |-> call.buf]

\* Through sectors, chunks, offsets and the size kept in the inode, reading
\* and writing are what FileSpec says: the bytes written are where the
\* position was, all others stay, a read returns the file's bytes, and every
\* request is done as far as it asks (fs/read_write.c:do_rdwt).
ImplementsFile == F!Spec
=============================================================================
