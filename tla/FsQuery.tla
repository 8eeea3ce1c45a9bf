------------------------------- MODULE FsQuery -------------------------------
(***************************************************************************)
(* The questions 211 OS answers about its name space: fs_check             *)
(* (fs/check.c), showPro (fs/time.c) and the path of a file (fs/path.c),   *)
(* as operators over the state of FsDir.  They change nothing, so they may *)
(* be asked in every state.                                                *)
(*                                                                         *)
(* Three sources keep the tree: the child arrays of the entries, p_num in  *)
(* the inodes and the inodes that are in inode_table[].  A pointer that is *)
(* used without having been set, or is null, gives any answer.  Of a path  *)
(* its entries are kept for their names; every file counts one to a size.  *)
(* (do_getPath has get_path write through a pointer it never sets, and     *)
(* search() never sets NAME_LEN: only get_path itself is modelled.)        *)
(*                                                                         *)
(* What calls itself, or goes round a loop until the tree ends, is a       *)
(* function of the number of rounds, with the bound a tree needs.          *)
(***************************************************************************)
EXTENDS FsDir, Sequences

\* the flags a descriptor is opened with; without O_CREAT, O_RDWR is asserted
O_CREAT == "O_CREAT"
O_RDWR == "O_RDWR"
FdModes == (SUBSET {O_CREAT, O_RDWR}) \ {{}}

HasChild(k, nr) == \E l \in Children : dir[k].child_inode[l] = nr
InTable(nr) == nr \in Inodes /\ cnt[nr] > 0

\* The entry a scan that does not stop ends with: the last of that number.
Entry(nr) == Max(Numbered(dir, nent, nr))
HasEntry(nr) == Numbered(dir, nent, nr) # {}

\* 0 if the folder that the inode names lists the file
check_relat(nr) ==
  LET pnr == inode[nr].p_num
  IN  IF ~InTable(nr) \/ ~QueryGoesOn THEN {1}
      ELSE IF HasEntry(pnr) THEN {IF HasChild(Entry(pnr), nr) THEN 0 ELSE 1} ELSE {0, 1}

\* Where check_path goes: p_num followed d times, up to the root or to an
\* inode that is not in inode_table[].
Parent(nr) == IF InTable(nr) /\ nr # ROOT_INODE THEN inode[nr].p_num ELSE nr
Way(nr) == LET up[d \in 0..NInodes] == IF d = 0 THEN nr ELSE Parent(up[d - 1]) IN up

\* 1 if p_num leads to the root; behind a folder that is not in inode_table[]
\* is a null pointer.  The depth passed on is never less than before, so that
\* a circle of parents is followed until the stack is gone: no answer.
check_path(nr) ==
  LET end == Way(nr)[NInodes]
  IN  IF ~InTable(end) THEN {0, 1} ELSE IF end = ROOT_INODE THEN {1} ELSE {}

\* The answers there can be through a descriptor of that mode: 4 if the folder
\* lists the file, 2 more if it has no children, 1 more if it does not lead to
\* the root; 1 through a descriptor that cannot be read.
do_check(nr, fd_mode) ==
  IF O_RDWR \notin fd_mode \/ ~QueryGoesOn THEN {1}
  ELSE {4 * (1 - r[1]) + (IF check_child(nr) THEN 0 ELSE 2) + 1 - r[2] :
           r \in check_relat(nr) \X check_path(nr)}
       \cup (IF HasEntry(nr) THEN {} ELSE {1})

\* The folders put in front of a path.  The directory is searched again and
\* again; m counts the slots seen in all the searches together, and grows.
Listing(s) ==
  {k \in Entries : k + s.m <= nent /\ dir[k].inode_nr # ROOT_INODE /\ HasChild(k, s.nr)}
Climbed(s) ==
  LET k == Min(Listing(s))
  IN  IF s.m > nent \/ s.nr = 0 \/ Listing(s) = {} THEN s
      ELSE [nr |-> dir[k].inode_nr, path |-> <<dir[k].inode_nr>> \o s.path, m |-> s.m + k + 1]
Climb(s) == LET at[d \in 0..DirRoom + 1] == IF d = 0 THEN s ELSE Climbed(at[d - 1]) IN at
PathFrom(s) == Climb(s)[DirRoom + 1].path
OwnName(nr) == IF HasEntry(nr) THEN <<nr>> ELSE <<>>

\* Mutant of get_path: m keeps the slots seen when the file was looked for.
get_pathCounting(nr) ==
  IF QueryGoesOn THEN PathFrom([nr |-> nr, path |-> OwnName(nr), m |-> nent]) ELSE <<>>

\* the path of a file: the numbers of its folders and its own
get_path(nr) ==
  IF QueryGoesOn THEN PathFrom([nr |-> nr, path |-> OwnName(nr), m |-> 0]) ELSE <<>>

\* The child slots of a file that are in use, and the child in one.
Used(nr) == {l \in Children : HasEntry(nr) /\ dir[Entry(nr)].child_inode[l] # 0}
ChildIn(nr, l) == dir[Entry(nr)].child_inode[l]

\* What the children in the first slots add to a size, with below[i] for what
\* calcu_size says of i; where a child has no entry the pointer is not set.
Unknown == -1
Plus(a, b) == IF Unknown \in {a, b} THEN Unknown ELSE a + b
Added(nr, l, below) ==
  LET c == ChildIn(nr, l)
  IN  IF l \notin Used(nr) THEN 0 ELSE IF ~HasEntry(c) THEN Unknown
      ELSE IF dir[Entry(c)].isfolder THEN Plus(1, below[c]) ELSE 1
Sum(nr, below) ==
  LET sum[l \in 0..MAX_FILE_AMOUNT] ==
        IF l = 0 THEN 0 ELSE Plus(sum[l - 1], Added(nr, l - 1, below))
  IN  sum
Total(nr, below) ==
  IF \E l \in Used(nr) : ~InTable(ChildIn(nr, l)) THEN 0 ELSE Sum(nr, below)[MAX_FILE_AMOUNT]

\* The files in every folder, and in the folders in it, h levels deep.
SizesTo ==
  LET size[h \in 0..NInodes] ==
        IF h = 0 THEN [i \in Inodes |-> 0] ELSE [i \in Inodes |-> Total(i, size[h - 1])]
  IN  size
calcu_size(nr) == IF QueryGoesOn THEN SizesTo[NInodes][nr] ELSE 0

\* showPro: the answers there can be, and the size it shows, if it does
do_showPro(nr, fd_mode) ==
  [rc |-> IF O_RDWR \notin fd_mode \/ ~QueryGoesOn \/ ~InTable(nr) THEN {1}
          ELSE IF HasEntry(nr) /\ (dir[Entry(nr)].isfolder =>
                                     \A l \in Used(nr) : HasEntry(ChildIn(nr, l)))
          THEN {0} ELSE {0, 1},
   size |-> IF O_RDWR \in fd_mode /\ HasEntry(nr) THEN calcu_size(nr) ELSE Unknown]

-----------------------------------------------------------------------------
(* Properties *)

\* The path that p_num and the inodes know, for a file whose check_path is 1.
Depth(nr) == Min({d \in 0..NInodes : Way(nr)[d] = ROOT_INODE})
FoldersOf(nr) == [d \in 1..Depth(nr) |-> Way(nr)[Depth(nr) - d]]

\* The files listed by the entry of nr, and the least set with those and the
\* files listed by the entries of its members.
Kids(nr) == {i \in Inodes : HasEntry(nr) /\ HasChild(Entry(nr), i)}
Beneath(nr) ==
  {i \in Inodes : \A S \in SUBSET Inodes :
                     Kids(nr) \subseteq S /\ (\A j \in S : Kids(j) \subseteq S) => i \in S}

\* A file that is open and has its entry (a creation may have written over
\* it), and was not moved since its last opening, nor any folder it is in;
\* the folders are all open.
Settled(nr) ==
  /\ OnInode(nr) # {} /\ inode[nr].i_mode = "I_REGULAR" /\ HasEntry(nr)
  /\ Way(nr)[NInodes] = ROOT_INODE /\ InTable(ROOT_INODE)
  /\ \A d \in 1..Depth(nr) :
       LET i == FoldersOf(nr)[d]
       IN  HasEntry(inode[i].p_num) /\ HasChild(Entry(inode[i].p_num), i)

\* With a directory that fills its sector, as the demo's does, the answers
\* about a settled file agree with the tree: fs_check says that its folder
\* lists it, whether it has children, and that it leads to the root (in numbers
\* its header does not promise, see CheckReturns); its path is the end of its
\* inodes' path, and all of it for a file in a folder of the root; showPro does
\* not fail if the children have entries, and if moreover those with children
\* are marked as folders and all are open, its size counts the files beneath
\* it.  Through a descriptor without O_RDWR both answer 1 and nothing is shown.
\* So p_num, the child arrays and inode_table[] tell the same after whatever
\* was created, moved, renamed, closed and removed.
AnswersTell ==
  QueryGoesOn => \A nr \in Inodes : Settled(nr) =>
    LET path == get_path(nr)
        folders == FoldersOf(nr)
        below == Beneath(nr)
    IN  /\ \E d \in 0..Depth(nr) - 1 : path = SubSeq(folders, d + 1, Depth(nr))
        /\ Depth(nr) <= 2 => path = folders
        /\ \A fd_mode \in FdModes :
             LET shown == do_showPro(nr, fd_mode)
                 check == do_check(nr, fd_mode)
             IN  IF O_RDWR \in fd_mode
                 THEN /\ check = {IF below # {} THEN 4 ELSE 6}
                      /\ (\A i \in Kids(nr) : HasEntry(i)) => shown.rc = {0}
                      /\ (\A i \in below : /\ HasEntry(i) /\ InTable(i)
                                           /\ Kids(i) # {} => dir[Entry(i)].isfolder) =>
                           shown.size = Cardinality(below)
                 ELSE check = {1} /\ shown = [rc |-> {1}, size |-> Unknown]

\* What the headers of do_check (check.c:29) and of fs_check (fs_check.c:26) say:
\* "Zero if successful, otherwise 1."  The answers tell something else.
CheckReturns ==
  \A nr \in Inodes, fd_mode \in FdModes : Settled(nr) => do_check(nr, fd_mode) \subseteq {0, 1}
=============================================================================
