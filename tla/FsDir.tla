------------------------------- MODULE FsDir -------------------------------
(***************************************************************************)
(* The name space of the file system of 211 OS: the root directory, the    *)
(* parent-child relation kept inside its entries, the inode and sector     *)
(* maps, the inode cache with its reference counts and the descriptors of  *)
(* the processes (fs/open.c, fs/link.c, fs/misc.c, fs/entry.c,             *)
(* fs/path.c:do_rename, fs/main.c).                                        *)
(*                                                                         *)
(* TASK_FS serves one request at a time, so each request is one step; what *)
(* interleaves are the requests of different processes.  mkfs runs at      *)
(* every boot, so the initial state is a freshly made file system.         *)
(*                                                                         *)
(* All files sit in one flat directory; a "folder" is an entry whose child *)
(* array names other entries, and of a path only the last two components   *)
(* matter.  (The walk over an uninitialised array at the end of strip_path *)
(* computes nothing that is used and is left out, as are the times and     *)
(* file contents.)                                                         *)
(*                                                                         *)
(* The directory is modelled within its first sector: slots 0..DirRoom-1,  *)
(* and the bytes behind the last of them as one slot more, which nothing   *)
(* finds but a loop that runs to the end of a full sector stops at.        *)
(* Every inode_table[] slot is written back in the handler that changed    *)
(* it, so cache and disk hold the same fields and one copy stands for      *)
(* both; only i_cnt lives in memory alone.                                 *)
(*                                                                         *)
(* A request through a descriptor opened without O_RDWR (that is, with     *)
(* O_CREAT alone) is refused before it changes anything, and the same file *)
(* may always be opened with O_RDWR: the modes add no state, and the       *)
(* actions below are the requests that are not refused.  (The modes matter *)
(* to the answers of FsQuery.)                                             *)
(***************************************************************************)
EXTENDS Integers, FiniteSets, FiniteSetsExt

CONSTANTS
  Procs,            \* user processes
  Names,            \* names a user gives to files when creating them (strings)
  NewNames,         \* names a user renames files to
  Folders,          \* names used for the parent in a path, besides "."
  NameLen,          \* [Names \cup NewNames -> Nat \ {0}]: their lengths
  NR_FILES,         \* slots of PROCESS::filp[]
  NR_FILE_DESC,     \* slots of f_desc_table[]
  NR_INODE,         \* slots of inode_table[]
  MAX_FILE_AMOUNT,  \* child slots of a directory entry
  NR_DEFAULT_FILE_SECTS,  \* sectors given to every file
  n_1st_sect,       \* number of the first data sector
  NInodes,          \* bound: inode numbers the inode map has room for
  DirRoom,          \* directory entries in one sector (8 in the code)
  MaxChanges        \* bound: requests that change names or references for good

ASSUME FsDirAssumption ==
  /\ IsFiniteSet(Procs)
  /\ NameLen \in [Names \cup NewNames -> Nat \ {0}] /\ "." \notin Names \cup NewNames
  /\ NR_FILES \in Nat \ {0} /\ NR_FILE_DESC \in Nat \ {0}
  /\ NR_INODE \in Nat \ {0, 1} /\ MAX_FILE_AMOUNT \in Nat \ {0}
  /\ NR_DEFAULT_FILE_SECTS \in Nat \ {0} /\ n_1st_sect \in Nat \ {0}
  /\ NInodes \in Nat \ {0, 1} /\ DirRoom \in Nat \ {0, 1, 2} /\ MaxChanges \in Nat

VARIABLES
  dir,     \* the entries of the root directory's first sector
  nent,    \* root_inode->i_size / DIR_ENTRY_SIZE
  imap,    \* inode numbers whose bit is set in the inode map
  smap,    \* bits set in the sector map
  inode,   \* [inode number -> i_mode, i_start_sect, p_num]
  cnt,     \* [inode number -> i_cnt of its slot in inode_table[], 0 if none]
  filp,    \* [process -> [fd -> inode number of the descriptor, 0 if none]]
  fs,      \* "run", or how TASK_FS stopped: "panic" or "assert"
  changes  \* requests so far that MaxChanges bounds

disk == <<dir, nent, imap, smap, inode>>
vars == <<disk, cnt, filp, fs, changes>>

INVALID_INODE == 0
ROOT_INODE == 1
TTY_INODE == 2

Inodes == 1..NInodes
Fds == 0..NR_FILES - 1
Entries == 0..DirRoom - 1
Behind == DirRoom
Children == 0..MAX_FILE_AMOUNT - 1
Bits == 0..NR_DEFAULT_FILE_SECTS * NInodes

\* The bytes of dir_entry::name: the text up to the terminator and the
\* position after the last byte that is not zero.  strcpy leaves what lies
\* behind the terminator it writes.
Len12(name) == IF name \in Names \cup NewNames THEN NameLen[name] ELSE 1
strcpy(old, name) ==
  [text |-> name,
   extent |-> IF old.extent > Len12(name) + 1 THEN old.extent ELSE Len12(name)]

NoName == [text |-> "", extent |-> 0]
NoChild == [l \in Children |-> INVALID_INODE]
FreeEntry == [inode_nr |-> INVALID_INODE, name |-> NoName, child_inode |-> NoChild,
              isfolder |-> FALSE]

\* A path is what strip_path makes of it: the last component and the one
\* before it, "." when there is none; "/" has an empty last component.
RootPath == [parent |-> ".", name |-> ""]
Paths == {RootPath} \cup
         [parent : Folders \cup {"."}, name : Names \cup NewNames \cup {"dev_tty0"}]

-----------------------------------------------------------------------------
(* Searching the directory *)

\* The scan loops of the file system compare the slot before they count it,
\* and so look at one slot more than the directory has entries.
Scanned(n) == 0..Min({n, DirRoom - 1})

\* memcmp over MAX_FILENAME_LEN bytes against a name padded with zeros.
Named(d, n, name) ==
  {k \in Scanned(n) : d[k].name = [text |-> name, extent |-> Len12(name)]}

Numbered(d, n, nr) == {k \in Scanned(n) : d[k].inode_nr = nr}

search_inode(name) ==
  LET H == Named(dir, nent, name)
  IN  IF H = {} THEN INVALID_INODE ELSE dir[Min(H)].inode_nr

\* The first file of that name anywhere, if the first entry with the
\* parent's name lists it.
search_file(path) ==
  LET child == search_inode(path.name)
      P     == Named(dir, nent, path.parent)
  IN  IF path = RootPath THEN ROOT_INODE
      ELSE IF P # {} /\ \E l \in Children : dir[Min(P)].child_inode[l] = child
           THEN child ELSE INVALID_INODE

(* The parent-child relation, on a directory d of n entries *)

\* The slot pde points to after the search for an entry; None if the search
\* has returned, which it does not behind a full sector.
None == -1
Pde(d, n, nr) ==
  LET H == Numbered(d, n, nr)
  IN  IF H # {} THEN Min(H) ELSE IF n = DirRoom THEN Behind ELSE None

make_relat(d, n, pinode_nr, cinode_nr) ==
  LET k == Pde(d, n, pinode_nr)
      F == {l \in Children : d[k].child_inode[l] = 0}
  IN  IF k = None \/ F = {} THEN [rc |-> 1, d |-> d]
      ELSE [rc |-> 0, d |-> [d EXCEPT ![k].child_inode[Min(F)] = cinode_nr]]

delete_relat(d, n, pinode_nr, cinode_nr) ==
  LET k == Pde(d, n, pinode_nr)
      F == {l \in Children : d[k].child_inode[l] = cinode_nr}
  IN  IF k = None \/ F = {} THEN [rc |-> 1, d |-> d]
      ELSE [rc |-> 0, d |-> [d EXCEPT ![k].child_inode[Min(F)] = 0]]

\* Mutant of move_relat: the new relation is not taken back when the old one
\* cannot be deleted.
move_relatNoUndo(d, n, pinode_nr, cinode_nr, tinode_nr) ==
  LET made == make_relat(d, n, tinode_nr, cinode_nr)
  IN  IF made.rc # 0 THEN made ELSE delete_relat(made.d, n, pinode_nr, cinode_nr)

\* Mutant of move_relat: the old relation is deleted before the new one is
\* known to find room.
move_relatSwapped(d, n, pinode_nr, cinode_nr, tinode_nr) ==
  LET gone == delete_relat(d, n, pinode_nr, cinode_nr)
  IN  IF gone.rc # 0 THEN gone ELSE make_relat(gone.d, n, tinode_nr, cinode_nr)

move_relat(d, n, pinode_nr, cinode_nr, tinode_nr) ==
  LET made == make_relat(d, n, tinode_nr, cinode_nr)
      gone == delete_relat(made.d, n, pinode_nr, cinode_nr)
  IN  IF made.rc # 0 THEN made
      ELSE IF gone.rc # 0
           THEN [rc |-> 1, d |-> delete_relat(gone.d, n, tinode_nr, cinode_nr).d]
           ELSE gone

\* The slot a new entry goes to: the first free one, else behind the last.
NewSlot(d, n) == Min({k \in 0..n - 1 : d[k].inode_nr = 0} \cup {n})

new_dir_entry(d, n, inode_nr, filename) ==
  LET k == NewSlot(d, n)
  IN  [n |-> IF k = n THEN n + 1 ELSE n,
       d |-> [d EXCEPT ![k] = [inode_nr |-> inode_nr, child_inode |-> NoChild,
                               isfolder |-> FALSE, name |-> strcpy(@.name, filename)]]]

(* The maps and the inode cache *)

Extent(bit) == bit..bit + NR_DEFAULT_FILE_SECTS - 1
alloc_imap_bit == Min(Inodes \ imap)
alloc_smap_bit == Min(Bits \ smap)

\* get_inode finds the inode in inode_table[] or needs a free slot there.
GetInodePanics(nr) ==
  cnt[nr] = 0 /\ Cardinality({i \in Inodes : cnt[i] > 0}) = NR_INODE

Halt(how) == fs' = how /\ UNCHANGED <<disk, cnt, filp>>

Running == fs = "run" /\ UNCHANGED changes
Changing == fs = "run" /\ changes < MaxChanges
Counted == changes' = IF dir' = dir /\ cnt' = cnt THEN changes ELSE changes + 1

-----------------------------------------------------------------------------
\* mkfs and init_fs: `.' lists the terminal, the root inode is referenced.
Init ==
  /\ dir = [k \in Entries \cup {Behind} |->
             CASE k = 0 -> [FreeEntry EXCEPT
                              !.inode_nr = ROOT_INODE, !.name = strcpy(@, "."),
                              !.child_inode[0] = TTY_INODE]
               [] k = 1 -> [FreeEntry EXCEPT
                              !.inode_nr = TTY_INODE, !.name = strcpy(@, "dev_tty0")]
               [] OTHER -> FreeEntry]
  /\ nent = 2
  /\ imap = {ROOT_INODE, TTY_INODE}
  /\ smap = 0..NR_DEFAULT_FILE_SECTS
  /\ inode = [i \in Inodes |->
               [i_mode |-> CASE i = ROOT_INODE -> "I_DIRECTORY"
                             [] i = TTY_INODE -> "I_CHAR_SPECIAL"
                             [] OTHER -> "0",
                i_start_sect |-> IF i = ROOT_INODE THEN n_1st_sect ELSE 0,
                p_num |-> 0]]
  /\ cnt = [i \in Inodes |-> IF i = ROOT_INODE THEN 1 ELSE 0]
  /\ filp = [p \in Procs |-> [f \in Fds |-> 0]]
  /\ fs = "run"
  /\ changes = 0

FreeFds(p) == {f \in Fds : filp[p][f] = 0}
Descriptors == {d \in Procs \X Fds : filp[d[1]][d[2]] # 0}
OnInode(nr) == {d \in Procs \X Fds : filp[d[1]][d[2]] = nr}

\* The descriptor tables are looked at first, full ones stop the system.
DescriptorsFull(p) == FreeFds(p) = {} \/ Cardinality(Descriptors) = NR_FILE_DESC

\* create_file: maps, inode and entry are written before make_relat is tried
\* and stay when it fails; do_open then answers -1.
CreateFile(p, path) ==
  LET nr   == alloc_imap_bit
      bit  == alloc_smap_bit
      pnr  == search_inode(path.parent)
      new  == new_dir_entry(dir, nent, nr, path.name)
      rel  == make_relat(new.d, new.n, pnr, nr)
  IN  IF GetInodePanics(nr) THEN Halt("panic")
      ELSE IF Extent(bit) \cap smap # {} THEN Halt("assert")
      ELSE /\ imap' = imap \cup {nr}
           /\ smap' = smap \cup Extent(bit)
           /\ inode' = [inode EXCEPT ![nr] =
                         [i_mode |-> "I_REGULAR", p_num |-> pnr,
                          i_start_sect |-> bit - 1 + n_1st_sect]]
           /\ cnt' = [cnt EXCEPT ![nr] = 1]
           /\ dir' = rel.d
           /\ nent' = new.n
           /\ filp' = IF rel.rc # 0 THEN filp
                      ELSE [filp EXCEPT ![p][Min(FreeFds(p))] = nr]
           /\ UNCHANGED fs

\* do_open with O_CREAT; an existing file is refused.
OpenCreate(p, path) ==
  /\ Changing /\ path.name \in Names
  /\ Inodes \ imap # {}                       \* bound NInodes
  /\ NewSlot(dir, nent) < DirRoom             \* bound DirRoom
  /\ IF DescriptorsFull(p) THEN Halt("panic")
     ELSE search_file(path) = INVALID_INODE /\ CreateFile(p, path)
  /\ Counted

\* do_open without O_CREAT.
OpenExisting(p, path) ==
  LET nr == search_file(path)
  IN  /\ Running
      /\ IF DescriptorsFull(p) THEN Halt("panic")
         ELSE /\ nr # INVALID_INODE
              /\ IF GetInodePanics(nr) THEN Halt("panic")
                 ELSE /\ cnt' = [cnt EXCEPT ![nr] = @ + 1]
                      /\ filp' = [filp EXCEPT ![p][Min(FreeFds(p))] = nr]
                      /\ UNCHANGED <<disk, fs>>

\* Mutant of DoClose: the inode is put once by do_close and once more.
DoCloseTwice(p, fd) ==
  LET nr == filp[p][fd]
  IN  /\ Running /\ nr # 0
      /\ cnt' = [cnt EXCEPT ![nr] = @ - 2]
      /\ filp' = [filp EXCEPT ![p][fd] = 0]
      /\ UNCHANGED <<disk, fs>>

\* do_close: p_num becomes the last entry that lists the file.
DoClose(p, fd) ==
  LET nr == filp[p][fd]
      L  == {k \in Scanned(nent) : \E l \in Children : dir[k].child_inode[l] = nr}
  IN  /\ Running /\ nr # 0
      /\ inode' = IF L = {} THEN inode
                  ELSE [inode EXCEPT ![nr].p_num = dir[Max(L)].inode_nr]
      /\ cnt' = [cnt EXCEPT ![nr] = @ - 1]
      /\ filp' = [filp EXCEPT ![p][fd] = 0]
      /\ UNCHANGED <<dir, nent, imap, smap, fs>>

\* Mutant of RemoveFile: the first sector's bit is taken one too low.
RemoveFileBit(nr, pnr) ==
  LET bit  == inode[nr].i_start_sect - n_1st_sect
      rel  == delete_relat(dir, nent, pnr, nr)
      H    == {k \in 0..nent - 1 : rel.d[k].inode_nr = nr}
  IN  /\ rel.rc = 0 /\ H # {}
      /\ imap' = imap \ {nr} /\ smap' = smap \ Extent(bit)
      /\ inode' = [inode EXCEPT ![nr].i_mode = "0", ![nr].i_start_sect = 0]
      /\ dir' = [rel.d EXCEPT ![Min(H)] = FreeEntry]
      /\ UNCHANGED <<nent, cnt, filp, fs>>

\* do_unlink once the file may go.  The directory is only searched up to its
\* size, and shrinks to the number of entries in use when its last one goes.
RemoveFile(nr, pnr) ==
  LET bit  == inode[nr].i_start_sect - n_1st_sect + 1
      rel  == delete_relat(dir, nent, pnr, nr)
      H    == {k \in 0..nent - 1 : rel.d[k].inode_nr = nr}
      used == {k \in 0..Min(H) - 1 : rel.d[k].inode_nr # 0}
  IN  IF rel.rc # 0                                    \* the reference stays
      THEN cnt' = [cnt EXCEPT ![nr] = @ + 1]
           /\ UNCHANGED <<disk, filp, fs>>
      ELSE IF nr \notin imap \/ ~(Extent(bit) \subseteq smap) \/ H = {}
      THEN Halt("assert")
      ELSE /\ imap' = imap \ {nr}
           /\ smap' = smap \ Extent(bit)
           /\ inode' = [inode EXCEPT ![nr].i_mode = "0", ![nr].i_start_sect = 0]
           /\ dir' = [rel.d EXCEPT ![Min(H)] = FreeEntry]
           /\ nent' = IF Min(H) = nent - 1 THEN Cardinality(used) ELSE nent
           /\ UNCHANGED <<cnt, filp, fs>>              \* get_inode, put_inode

\* Mutant of DoUnlink: a file in use is not refused.
DoUnlinkInUse(path) ==
  LET nr == search_file(path)
  IN  /\ Changing /\ path # RootPath /\ nr # INVALID_INODE /\ ~GetInodePanics(nr)
      /\ inode[nr].i_mode = "I_REGULAR"
      /\ RemoveFile(nr, search_inode(path.parent))
      /\ Counted

\* do_unlink: a special file or one in use is refused, and the reference
\* get_inode took is kept.
DoUnlink(path) ==
  LET nr == search_file(path)
  IN  /\ Changing /\ path # RootPath /\ nr # INVALID_INODE
      /\ IF GetInodePanics(nr) THEN Halt("panic")
         ELSE IF inode[nr].i_mode # "I_REGULAR" \/ cnt[nr] > 0
              THEN /\ cnt' = [cnt EXCEPT ![nr] = @ + 1]
                   /\ UNCHANGED <<disk, filp, fs>>
              ELSE RemoveFile(nr, search_inode(path.parent))
      /\ Counted

\* do_move: p_num is not touched; only do_close refreshes it.
DoMove(p, fd, target_fd) ==
  LET nr == filp[p][fd]
      t  == filp[p][target_fd]
  IN  /\ Changing /\ nr # 0 /\ t # 0
      /\ dir' = move_relat(dir, nent, inode[nr].p_num, nr, t).d
      /\ UNCHANGED <<nent, imap, smap, inode, cnt, filp, fs>>
      /\ Counted

\* do_rename: the first entry with the inode's number, if there is one.
DoRename(p, fd, name) ==
  LET H == Numbered(dir, nent, filp[p][fd])
  IN  /\ Changing /\ filp[p][fd] # 0 /\ H # {}
      /\ dir' = [dir EXCEPT ![Min(H)].name = strcpy(@, name)]
      /\ UNCHANGED <<nent, imap, smap, inode, cnt, filp, fs>>
      /\ Counted

\* A query's scan of the directory, which does not stop where it finds
\* something, returns from the query unless the entries end with the sector.
QueryGoesOn == nent = DirRoom

\* check_child
check_child(nr) ==
  LET H == Numbered(dir, nent, nr)
  IN  QueryGoesOn /\ (H = {} \/ \E l \in Children : dir[Max(H)].child_inode[l] # 0)

\* do_changeType
DoChangeType(p, fd, type) ==
  LET k == Pde(dir, nent, filp[p][fd])
  IN  /\ Changing /\ filp[p][fd] # 0
      /\ k # None /\ ~check_child(dir[k].inode_nr)
      /\ dir' = [dir EXCEPT ![k].isfolder = type]
      /\ UNCHANGED <<nent, imap, smap, inode, cnt, filp, fs>>
      /\ Counted

Next ==
  \/ \E p \in Procs, path \in Paths : OpenCreate(p, path) \/ OpenExisting(p, path)
  \/ \E p \in Procs, fd \in Fds : DoClose(p, fd)
  \/ \E path \in Paths : DoUnlink(path)
  \/ \E p \in Procs, fd, target_fd \in Fds : DoMove(p, fd, target_fd)
  \/ \E p \in Procs, fd \in Fds :
        \/ \E name \in NewNames : DoRename(p, fd, name)
        \/ \E type \in BOOLEAN : DoChangeType(p, fd, type)

Spec == Init /\ [][Next]_vars

-----------------------------------------------------------------------------
(* Properties *)

EntryType == [inode_nr : 0..NInodes, child_inode : [Children -> 0..NInodes],
              isfolder : BOOLEAN,
              name : [text : Names \cup NewNames \cup {"", ".", "dev_tty0"}, extent : Nat]]

\* Every variable has its type; the directory never outgrows its sector.
TypeOK ==
  /\ dir \in [Entries \cup {Behind} -> EntryType] /\ nent \in 1..DirRoom
  /\ imap \subseteq Inodes /\ smap \subseteq Bits
  /\ inode \in [Inodes -> [i_mode : {"0", "I_REGULAR", "I_DIRECTORY", "I_CHAR_SPECIAL"},
                           i_start_sect : Nat, p_num : 0..NInodes]]
  /\ cnt \in [Inodes -> Nat]
  /\ filp \in [Procs -> [Fds -> 0..NInodes]]
  /\ fs \in {"run", "panic", "assert"} /\ changes \in 0..MaxChanges

\* An inode_table[] slot is never given away under a descriptor: i_cnt counts
\* at least the descriptors that point to the inode (main.c:get_inode,
\* put_inode, open.c:new_inode, link.c:do_unlink), and a file that some process
\* has open is not removed under it: no descriptor refers to an inode whose
\* number was freed (link.c:75).
OpenIsPinned ==
  \A i \in Inodes :
    /\ Cardinality(OnInode(i)) <= cnt[i]
    /\ OnInode(i) # {} => i \in imap

\* The two maps and the inodes tell the same story: the regular inodes own
\* disjoint runs of sectors and together with the reserved bit and the root
\* directory they make up the sector map (open.c:alloc_smap_bit, link.c); no
\* entry names an inode that was freed, and no two entries share one.
Regular == {i \in Inodes : inode[i].i_mode = "I_REGULAR"}
BitsOf(i) == Extent(inode[i].i_start_sect - n_1st_sect + 1)
MapsAgree ==
  /\ imap = Regular \cup {ROOT_INODE, TTY_INODE}
  /\ smap = {0} \cup BitsOf(ROOT_INODE) \cup UNION {BitsOf(i) : i \in Regular}
  /\ \A i, j \in Regular \cup {ROOT_INODE} :
       i # j => BitsOf(i) \cap BitsOf(j) = {}
  /\ \A k \in Entries : dir[k].inode_nr # 0 =>
       /\ dir[k].inode_nr \in imap
       /\ \A j \in Entries \ {k} : dir[j].inode_nr # dir[k].inode_nr

\* A file has at most one parent: whatever is created, moved, rolled back and
\* removed, its number stands in at most one child slot of the directory.
Listings(i) == {s \in (DOMAIN dir) \X Children : dir[s[1]].child_inode[s[2]] = i}
OneParent == \A i \in Inodes : Cardinality(Listings(i)) <= 1

\* A step that creates no file and removes none lists every file as often as
\* before: moving a file, with or without success, never drops it from the
\* tree or puts it there twice (entry.c:move_relat).
MoveKeeps ==
  [][imap' = imap /\ dir' # dir =>
       \A i \in Inodes : Cardinality(Listings(i)) = Cardinality(Listings(i)')]_vars

\* The assertions of do_unlink and alloc_smap_bit hold (link.c:100,213, open.c:344).
NoAssertFails == fs # "assert"

=============================================================================
