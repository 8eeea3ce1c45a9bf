----------------------------- MODULE FsDirProofs -----------------------------
(***************************************************************************)
(* Proofs about FsDir and FsQuery.  The invariant says, besides the        *)
(* properties, that entry 0 stays the root directory's, that the runs of   *)
(* sectors are blocks of NR_DEFAULT_FILE_SECTS laid end to end (so that    *)
(* the first free bit begins a whole free block), and that only numbers in *)
(* use stand in a child slot, each in one (so that removing a file can     *)
(* take the one listing it has), and never the root's (so that the way     *)
(* down from a file does not come back to it).                             *)
(***************************************************************************)
EXTENDS FsQuery, FiniteSetTheorems, SequenceTheorems, WellFoundedInduction, TLAPS

----------------------------------------------------------------------------
(* The least and the greatest element of a set of slots or bits. *)

LEMMA MinIn ==
    ASSUME NEW S, S \subseteq Nat, S # {}
    PROVE  Min(S) \in S /\ \A y \in S : Min(S) <= y
<1>1. PICK x \in S : \A y \in S : ~ (<<y, x>> \in OpToRel(<, Nat))
  BY NatLessThanWellFounded, WFMin
<1>a. \A y \in S : ~ (y < x)
  BY <1>1, Zenon DEF OpToRel
<1>2. \E z \in S : \A y \in S : z <= y
  BY <1>a
<1> QED  BY <1>2 DEF Min

LEMMA MaxIn ==
    ASSUME NEW n \in Nat, NEW S, S \subseteq 0 .. n, S # {}
    PROVE  Max(S) \in S
<1> DEFINE T == {m \in Nat : \A y \in S : m >= y}
<1>1. T \subseteq Nat /\ n \in T
  OBVIOUS
<1>2. PICK m \in T : \A y \in T : m <= y
  BY <1>1, MinIn
<1>3. m \in S
  <2> SUFFICES ASSUME m \notin S PROVE FALSE
    OBVIOUS
  <2>1. \A y \in S : y < m /\ y \in Nat
    BY <1>2
  <2>a. PICK z \in S : TRUE
    OBVIOUS
  <2>b. m \in Nat /\ z < m /\ z \in Nat
    BY <2>1, <1>2
  <2>2. m - 1 \in Nat /\ \A y \in S : m - 1 >= y
    BY <2>1, <2>b
  <2> QED  BY <2>2, <2>b, <1>2
<1> QED  BY <1>2, <1>3 DEF Max

LEMMA Sizes ==
    /\ NR_FILES \in Nat /\ 1 <= NR_FILES /\ MAX_FILE_AMOUNT \in Nat /\ 1 <= MAX_FILE_AMOUNT
    /\ NInodes \in Nat /\ 2 <= NInodes /\ DirRoom \in Nat /\ 3 <= DirRoom
    /\ NR_DEFAULT_FILE_SECTS \in Nat /\ 1 <= NR_DEFAULT_FILE_SECTS
    /\ n_1st_sect \in Nat /\ 1 <= n_1st_sect /\ MaxChanges \in Nat
BY FsDirAssumption

----------------------------------------------------------------------------
(* Directories.                                                            *)

Slots == Entries \cup {Behind}
DirType == [Slots -> EntryType]

\* The child slots of directory d that name inode i.
Lists(d, i) == {s \in Slots \X Children : d[s[1]].child_inode[s[2]] = i}

\* d and e differ in their child slots only.
SameEntries(d, e) ==
    \A k \in Slots : e[k].inode_nr = d[k].inode_nr

LEMMA SlotNumbers ==
    /\ Slots \subseteq Nat /\ Entries \subseteq Slots /\ Behind \in Slots
    /\ Children \subseteq Nat /\ None \notin Slots
    /\ IsFiniteSet(Slots) /\ IsFiniteSet(Children) /\ IsFiniteSet(Slots \X Children)
<1>1. Slots = 0 .. DirRoom
  BY Sizes DEF Slots, Entries, Behind
<1>2. IsFiniteSet(0 .. DirRoom) /\ IsFiniteSet(0 .. MAX_FILE_AMOUNT - 1)
  BY Sizes, FS_Interval
<1>3. IsFiniteSet(Slots) /\ IsFiniteSet(Children)
  BY <1>1, <1>2 DEF Children
<1>4. IsFiniteSet(Slots \X Children)
  BY <1>3, FS_Product
<1>5. Entries \subseteq Slots /\ Behind \in Slots
  BY DEF Slots
<1> QED  BY <1>1, <1>3, <1>4, <1>5, Sizes DEF Children, None

LEMMA ScannedIn ==
    ASSUME NEW n \in 1 .. DirRoom
    PROVE  Scanned(n) \subseteq Entries /\ 0 \in Scanned(n)
<1>1. Min({n, DirRoom - 1}) \in {n, DirRoom - 1} /\ Min({n, DirRoom - 1}) <= DirRoom - 1
  BY Sizes, MinIn
<1> QED  BY <1>1, Sizes DEF Scanned, Entries

LEMMA PdeIn ==
    ASSUME NEW d, NEW n \in 1 .. DirRoom, NEW nr
    PROVE  Pde(d, n, nr) \in Slots \cup {None}
<1> DEFINE H == Numbered(d, n, nr)
<1>1. H \subseteq Entries
  BY ScannedIn DEF Numbered
<1>2. H # {} => Min(H) \in Entries
  BY <1>1, MinIn, SlotNumbers
<1> QED  BY <1>2, SlotNumbers DEF Pde

LEMMA PdeKept ==
    ASSUME NEW d, NEW e, SameEntries(d, e), NEW n \in 1 .. DirRoom, NEW nr
    PROVE  Pde(e, n, nr) = Pde(d, n, nr)
<1>1. Numbered(e, n, nr) = Numbered(d, n, nr)
  BY ScannedIn, SlotNumbers DEF Numbered, SameEntries
<1> QED  BY <1>1 DEF Pde

\* A number is put into one child slot.
Sets(e, d, k, l, c) == e = [d EXCEPT ![k].child_inode[l] = c]

LEMMA ChildSet ==
    ASSUME NEW d \in DirType, NEW k \in Slots, NEW l \in Children, NEW c \in 0 .. NInodes,
           NEW e, Sets(e, d, k, l, c)
    PROVE  /\ e \in DirType /\ SameEntries(d, e)
           /\ \A q \in Slots, m \in Children :
                  e[q].child_inode[m] = IF q = k /\ m = l THEN c ELSE d[q].child_inode[m]
<1> DEFINE ch == [d[k].child_inode EXCEPT ![l] = c]
           en == [d[k] EXCEPT !.child_inode = ch]
<1>1. d[k] \in EntryType
  BY DEF DirType
<1>2. ch \in [Children -> 0 .. NInodes]
  BY <1>1 DEF EntryType
<1>3. \A m \in Children : ch[m] = IF m = l THEN c ELSE d[k].child_inode[m]
  BY <1>1 DEF EntryType
<1>6. e = [d EXCEPT ![k] = en]
  BY DEF Sets
<1> HIDE DEF ch
<1>4. en \in EntryType /\ en.child_inode = ch /\ en.inode_nr = d[k].inode_nr
  BY <1>1, <1>2 DEF EntryType
<1> HIDE DEF en
<1>5. e \in DirType /\ \A q \in Slots : e[q] = IF q = k THEN en ELSE d[q]
  BY <1>4, <1>6 DEF DirType
<1>7. SameEntries(d, e)
  BY <1>4, <1>5 DEF SameEntries
<1>8. \A q \in Slots, m \in Children :
          e[q].child_inode[m] = IF q = k /\ m = l THEN c ELSE d[q].child_inode[m]
  BY <1>3, <1>4, <1>5
<1> QED  BY <1>5, <1>7, <1>8

\* make_relat lists the child once more, in a free child slot, or fails.
LEMMA Made ==
    ASSUME NEW d \in DirType, NEW n \in 1 .. DirRoom, NEW p, NEW c \in Inodes
    PROVE  LET made == make_relat(d, n, p, c)
               k == Pde(d, n, p)
           IN  /\ made.d \in DirType /\ SameEntries(d, made.d)
               /\ made.rc # 0 => made.d = d
               /\ made.rc = 0 =>
                     \E s \in Slots \X Children :
                         /\ k # None /\ s[1] = k /\ s \notin Lists(d, c)
                         /\ Lists(made.d, c) = Lists(d, c) \cup {s}
               /\ \A i \in Inodes \ {c} : Lists(made.d, i) = Lists(d, i)
<1> DEFINE k == Pde(d, n, p)
           F == {l \in Children : d[k].child_inode[l] = 0}
           made == make_relat(d, n, p, c)
           e == [d EXCEPT ![k].child_inode[Min(F)] = c]
<1>1. made = IF k = None \/ F = {} THEN [rc |-> 1, d |-> d] ELSE [rc |-> 0, d |-> e]
  BY DEF make_relat
<1>2. CASE k = None \/ F = {}
  <2>1. made.rc = 1 /\ made.d = d
    BY <1>1, <1>2
  <2> QED  BY <2>1 DEF SameEntries
<1>3. CASE k # None /\ F # {}
  <2>1. k \in Slots
    BY <1>3, PdeIn
  <2>2. Min(F) \in Children /\ d[k].child_inode[Min(F)] = 0
    BY <1>3, MinIn, SlotNumbers
  <2>3. made.rc = 0 /\ made.d = e
    BY <1>1, <1>3
  <2>4. c \in 0 .. NInodes /\ c # 0
    BY Sizes DEF Inodes
  <2> DEFINE l == Min(F)
             s == <<k, l>>
  <2>5. l \in Children /\ d[k].child_inode[l] = 0
    BY <2>2
  <2>e. Sets(e, d, k, l, c)
    BY DEF Sets
  <2> HIDE DEF k, l, e, F, made
  <2>6. /\ e \in DirType /\ SameEntries(d, e)
        /\ \A q \in Slots, m \in Children :
               e[q].child_inode[m] = IF q = k /\ m = l THEN c ELSE d[q].child_inode[m]
    BY <2>1, <2>4, <2>5, <2>e, ChildSet
  <2>7. s \in Slots \X Children /\ s[1] = k /\ s[2] = l /\ s \notin Lists(d, c)
    BY <2>1, <2>4, <2>5 DEF Lists
  <2>8. Lists(e, c) = Lists(d, c) \cup {s}
    BY <2>6, <2>7 DEF Lists
  <2>9. ASSUME NEW i \in Inodes \ {c} PROVE Lists(e, i) = Lists(d, i)
    <3>1. i # 0
      BY Sizes DEF Inodes
    <3> QED  BY <2>5, <2>6, <3>1 DEF Lists
  <2> QED  BY <1>3, <2>3, <2>6, <2>7, <2>8, <2>9 DEF k, made
<1> QED  BY <1>2, <1>3

\* delete_relat lists it once less, or fails where the parent does not list it.
LEMMA Deleted ==
    ASSUME NEW d \in DirType, NEW n \in 1 .. DirRoom, NEW p, NEW c \in Inodes
    PROVE  LET gone == delete_relat(d, n, p, c)
               k == Pde(d, n, p)
           IN  /\ gone.d \in DirType /\ SameEntries(d, gone.d)
               /\ gone.rc # 0 =>
                     gone.d = d /\ (k = None \/ \A s \in Lists(d, c) : s[1] # k)
               /\ gone.rc = 0 =>
                     \E s \in Lists(d, c) : Lists(gone.d, c) = Lists(d, c) \ {s}
               /\ \A i \in Inodes \ {c} : Lists(gone.d, i) = Lists(d, i)
<1> DEFINE k == Pde(d, n, p)
           F == {l \in Children : d[k].child_inode[l] = c}
           gone == delete_relat(d, n, p, c)
           e == [d EXCEPT ![k].child_inode[Min(F)] = 0]
<1>1. gone = IF k = None \/ F = {} THEN [rc |-> 1, d |-> d] ELSE [rc |-> 0, d |-> e]
  BY DEF delete_relat
<1>2. CASE k = None \/ F = {}
  <2>1. gone.rc = 1 /\ gone.d = d
    BY <1>1, <1>2
  <2>2. k = None \/ \A s \in Lists(d, c) : s[1] # k
    BY <1>2 DEF Lists
  <2> QED  BY <2>1, <2>2 DEF SameEntries
<1>3. CASE k # None /\ F # {}
  <2>1. k \in Slots
    BY <1>3, PdeIn
  <2>2. Min(F) \in Children /\ d[k].child_inode[Min(F)] = c
    BY <1>3, MinIn, SlotNumbers
  <2>3. gone.rc = 0 /\ gone.d = e
    BY <1>1, <1>3
  <2>4. c # 0 /\ 0 \in 0 .. NInodes
    BY Sizes DEF Inodes
  <2> DEFINE l == Min(F)
             s == <<k, l>>
  <2>5. l \in Children /\ d[k].child_inode[l] = c
    BY <2>2
  <2>e. Sets(e, d, k, l, 0)
    BY DEF Sets
  <2> HIDE DEF k, l, e, F, gone
  <2>6. /\ e \in DirType /\ SameEntries(d, e)
        /\ \A q \in Slots, m \in Children :
               e[q].child_inode[m] = IF q = k /\ m = l THEN 0 ELSE d[q].child_inode[m]
    BY <2>1, <2>4, <2>5, <2>e, ChildSet
  <2>7. s \in Slots \X Children /\ s[1] = k /\ s[2] = l /\ s \in Lists(d, c)
    BY <2>1, <2>5 DEF Lists
  <2>8. Lists(e, c) = Lists(d, c) \ {s}
    BY <2>4, <2>6, <2>7 DEF Lists
  <2>9. ASSUME NEW i \in Inodes \ {c} PROVE Lists(e, i) = Lists(d, i)
    <3>1. i # 0
      BY Sizes DEF Inodes
    <3> QED  BY <2>5, <2>6, <3>1 DEF Lists
  <2> QED  BY <2>3, <2>6, <2>7, <2>8, <2>9 DEF k, gone
<1> QED  BY <1>2, <1>3

LEMMA ListsFinite == \A d, i : IsFiniteSet(Lists(d, i)) /\ Cardinality(Lists(d, i)) \in Nat
BY SlotNumbers, FS_Subset, FS_CardinalityType DEF Lists

LEMMA SameTransitive ==
    ASSUME NEW d, NEW e, NEW f, SameEntries(d, e), SameEntries(e, f)
    PROVE  SameEntries(d, f)
BY DEF SameEntries

\* A file that is moved, or not, is listed as often as before.
LEMMA Moved ==
    ASSUME NEW d \in DirType, NEW n \in 1 .. DirRoom, NEW p, NEW c \in Inodes, NEW t
    PROVE  LET moved == move_relat(d, n, p, c, t)
           IN  /\ moved.d \in DirType /\ SameEntries(d, moved.d)
               /\ \A i \in Inodes : Cardinality(Lists(moved.d, i)) = Cardinality(Lists(d, i))
<1> DEFINE made == make_relat(d, n, t, c)
           gone == delete_relat(made.d, n, p, c)
           undone == delete_relat(gone.d, n, t, c)
           moved == move_relat(d, n, p, c, t)
           k == Pde(d, n, t)
<1>1. moved = IF made.rc # 0 THEN made
              ELSE IF gone.rc # 0 THEN [rc |-> 1, d |-> undone.d] ELSE gone
  BY DEF move_relat
<1>2. /\ made.d \in DirType /\ SameEntries(d, made.d)
      /\ made.rc # 0 => made.d = d
      /\ made.rc = 0 =>
            \E s \in Slots \X Children :
                /\ k # None /\ s[1] = k /\ s \notin Lists(d, c)
                /\ Lists(made.d, c) = Lists(d, c) \cup {s}
      /\ \A i \in Inodes \ {c} : Lists(made.d, i) = Lists(d, i)
  BY Made
<1>3. /\ gone.d \in DirType /\ SameEntries(made.d, gone.d)
      /\ gone.rc # 0 => gone.d = made.d
      /\ gone.rc = 0 =>
            \E s \in Lists(made.d, c) : Lists(gone.d, c) = Lists(made.d, c) \ {s}
      /\ \A i \in Inodes \ {c} : Lists(gone.d, i) = Lists(made.d, i)
  BY <1>2, Deleted
<1>4. /\ undone.d \in DirType /\ SameEntries(gone.d, undone.d)
      /\ undone.rc # 0 => Pde(gone.d, n, t) = None
                          \/ \A s \in Lists(gone.d, c) : s[1] # Pde(gone.d, n, t)
      /\ undone.rc = 0 =>
            \E s \in Lists(gone.d, c) : Lists(undone.d, c) = Lists(gone.d, c) \ {s}
      /\ \A i \in Inodes \ {c} : Lists(undone.d, i) = Lists(gone.d, i)
  BY <1>3, Deleted
<1>5. SameEntries(d, gone.d) /\ SameEntries(d, undone.d)
  BY <1>2, <1>3, <1>4, SameTransitive
<1>6. Pde(gone.d, n, t) = k
  BY <1>5, PdeKept
<1> HIDE DEF made, gone, undone, moved, k
\* the cardinalities of a set with an element more, and with one less
<1>7. ASSUME NEW S, IsFiniteSet(S), Cardinality(S) \in Nat, NEW s, s \notin S,
             NEW r \in S \cup {s}
      PROVE  Cardinality((S \cup {s}) \ {r}) = Cardinality(S)
  <2>1. IsFiniteSet(S \cup {s}) /\ Cardinality(S \cup {s}) = Cardinality(S) + 1
    BY <1>7, FS_AddElement
  <2>2. Cardinality((S \cup {s}) \ {r}) = Cardinality(S \cup {s}) - 1
    BY <1>7, <2>1, FS_RemoveElement
  <2> QED  BY <1>7, <2>1, <2>2
<1>8. CASE made.rc # 0
  BY <1>1, <1>2, <1>8 DEF moved
<1>9. CASE made.rc = 0 /\ gone.rc = 0
  <2>1. moved = gone
    BY <1>1, <1>9
  <2>2. Cardinality(Lists(gone.d, c)) = Cardinality(Lists(d, c))
    BY <1>2, <1>3, <1>7, <1>9, ListsFinite
  <2>3. \A i \in Inodes \ {c} : Lists(gone.d, i) = Lists(d, i)
    BY <1>2, <1>3
  <2> QED  BY <1>3, <1>5, <2>1, <2>2, <2>3 DEF moved
<1>10. CASE made.rc = 0 /\ gone.rc # 0
  <2>1. moved.d = undone.d /\ gone.d = made.d
    BY <1>1, <1>3, <1>10
  <2>2. PICK s \in Slots \X Children :
            /\ k # None /\ s[1] = k /\ s \notin Lists(d, c)
            /\ Lists(made.d, c) = Lists(d, c) \cup {s}
    BY <1>2, <1>10
  <2>3. s \in Lists(gone.d, c) /\ s[1] = k /\ k # None
    BY <2>1, <2>2
  <2>4. undone.rc = 0
    BY <1>4, <1>6, <2>3
  <2>5. Cardinality(Lists(undone.d, c)) = Cardinality(Lists(d, c))
    BY <1>4, <1>7, <2>1, <2>2, <2>4, ListsFinite
  <2>6. \A i \in Inodes \ {c} : Lists(undone.d, i) = Lists(d, i)
    BY <1>2, <1>3, <1>4
  <2> QED  BY <1>4, <1>5, <2>1, <2>5, <2>6 DEF moved
<1> QED  BY <1>8, <1>9, <1>10

\* A new entry is put in a free slot and lists nothing.
LEMMA NewEntry ==
    ASSUME NEW d \in DirType, d[0].inode_nr = ROOT_INODE, NEW n \in 1 .. DirRoom,
           NewSlot(d, n) < DirRoom, NEW nr \in Inodes, NEW filename \in Names
    PROVE  LET new == new_dir_entry(d, n, nr, filename)
               k == NewSlot(d, n)
           IN  /\ new.d \in DirType /\ new.n \in 1 .. DirRoom /\ k \in Entries /\ k # 0
               /\ \A q \in Slots : new.d[q].inode_nr = IF q = k THEN nr ELSE d[q].inode_nr
               /\ \A i \in Inodes : Lists(new.d, i) \subseteq Lists(d, i)
<1> DEFINE k == NewSlot(d, n)
           S == {j \in 0 .. n - 1 : d[j].inode_nr = 0} \cup {n}
           name == strcpy(d[k].name, filename)
           en == [inode_nr |-> nr, child_inode |-> NoChild, isfolder |-> FALSE, name |-> name]
           m == IF k = n THEN n + 1 ELSE n
           e == [d EXCEPT ![k] = en]
<1>1. new_dir_entry(d, n, nr, filename) = [n |-> m, d |-> e]
  BY DEF new_dir_entry
<1>2. k \in S
  BY MinIn DEF NewSlot
<1>3. k \in Entries /\ k # 0 /\ m \in 1 .. DirRoom
  BY <1>2, Sizes DEF Entries, ROOT_INODE
<1>4. d[k] \in EntryType
  BY <1>3, SlotNumbers DEF DirType
<1>5. name \in [text : Names \cup NewNames \cup {"", ".", "dev_tty0"}, extent : Nat]
  <2>1. Len12(filename) \in Nat
    BY FsDirAssumption DEF Len12
  <2>2. d[k].name.extent \in Nat
    BY <1>4 DEF EntryType
  <2> QED  BY <2>1, <2>2 DEF strcpy
<1>6. NoChild \in [Children -> 0 .. NInodes]
  BY Sizes DEF NoChild, INVALID_INODE
<1>7. nr \in 0 .. NInodes
  BY Sizes DEF Inodes
<1> HIDE DEF name, k, S
<1>8. en \in EntryType /\ en.inode_nr = nr /\ en.child_inode = NoChild
  BY <1>5, <1>6, <1>7 DEF EntryType
<1> HIDE DEF en
<1>9. e \in DirType /\ \A q \in Slots : e[q] = IF q = k THEN en ELSE d[q]
  BY <1>3, <1>8, SlotNumbers DEF DirType
<1> HIDE DEF e
<1>10. \A q \in Slots : e[q].inode_nr = IF q = k THEN nr ELSE d[q].inode_nr
  BY <1>8, <1>9
<1>11. ASSUME NEW i \in Inodes PROVE Lists(e, i) \subseteq Lists(d, i)
  <2>1. i # 0
    BY Sizes DEF Inodes
  <2> QED  BY <1>8, <1>9, <2>1 DEF Lists, NoChild, INVALID_INODE
<1>12. NewSlot(d, n) = k
  BY DEF k
<1> HIDE DEF m
<1> QED  BY <1>1, <1>3, <1>9, <1>10, <1>11, <1>12

----------------------------------------------------------------------------
(* Descriptors.                                                            *)

On(g, i) == {d \in Procs \X Fds : g[d[1]][d[2]] = i}

\* Table h is g with the descriptor f of p set to n.
Points(h, g, p, f, n) == h = [g EXCEPT ![p][f] = n]

LEMMA OnFinite == \A g, i : IsFiniteSet(On(g, i)) /\ Cardinality(On(g, i)) \in Nat
<1>1. IsFiniteSet(Fds)
  BY Sizes, FS_Interval DEF Fds
<1>2. IsFiniteSet(Procs \X Fds)
  BY <1>1, FsDirAssumption, FS_Product
<1> QED  BY <1>2, FS_Subset, FS_CardinalityType DEF On

\* A free descriptor is made to point to an inode.
LEMMA Pointed ==
    ASSUME NEW g \in [Procs -> [Fds -> 0 .. NInodes]], NEW p \in Procs, NEW f \in Fds,
           g[p][f] = 0, NEW nr \in Inodes, NEW h, Points(h, g, p, f, nr)
    PROVE  /\ h \in [Procs -> [Fds -> 0 .. NInodes]]
           /\ Cardinality(On(h, nr)) = Cardinality(On(g, nr)) + 1
           /\ \A i \in Inodes \ {nr} : On(h, i) = On(g, i)
<1>1. nr # 0 /\ nr \in 0 .. NInodes /\ \A i \in Inodes : i # 0
  BY Sizes DEF Inodes
<1>2. h \in [Procs -> [Fds -> 0 .. NInodes]]
  BY <1>1 DEF Points
<1>3. \A q \in Procs, k \in Fds : h[q][k] = IF q = p /\ k = f THEN nr ELSE g[q][k]
  BY DEF Points
<1>4. On(h, nr) = On(g, nr) \cup {<<p, f>>} /\ <<p, f>> \notin On(g, nr)
  BY <1>1, <1>3 DEF On
<1>5. \A i \in Inodes \ {nr} : On(h, i) = On(g, i)
  BY <1>1, <1>3 DEF On
<1>6. Cardinality(On(h, nr)) = Cardinality(On(g, nr)) + 1
  <2>1. IsFiniteSet(On(g, nr))
    BY OnFinite
  <2>2. Cardinality(On(g, nr) \cup {<<p, f>>}) =
            IF <<p, f>> \in On(g, nr) THEN Cardinality(On(g, nr))
                                      ELSE Cardinality(On(g, nr)) + 1
    BY <2>1, FS_AddElement, Zenon
  <2> QED  BY <1>4, <2>2
<1> QED  BY <1>2, <1>5, <1>6

\* A descriptor is given back.
LEMMA Released ==
    ASSUME NEW g \in [Procs -> [Fds -> 0 .. NInodes]], NEW p \in Procs, NEW f \in Fds,
           NEW nr \in Inodes, g[p][f] = nr, NEW h, Points(h, g, p, f, 0)
    PROVE  /\ h \in [Procs -> [Fds -> 0 .. NInodes]]
           /\ On(g, nr) # {}
           /\ Cardinality(On(h, nr)) = Cardinality(On(g, nr)) - 1
           /\ \A i \in Inodes \ {nr} : On(h, i) = On(g, i)
<1>1. nr # 0 /\ 0 \in 0 .. NInodes /\ \A i \in Inodes : i # 0
  BY Sizes DEF Inodes
<1>2. h \in [Procs -> [Fds -> 0 .. NInodes]]
  BY <1>1 DEF Points
<1>3. \A q \in Procs, k \in Fds : h[q][k] = IF q = p /\ k = f THEN 0 ELSE g[q][k]
  BY DEF Points
<1>4. On(h, nr) = On(g, nr) \ {<<p, f>>} /\ <<p, f>> \in On(g, nr)
  BY <1>1, <1>3 DEF On
<1>5. \A i \in Inodes \ {nr} : On(h, i) = On(g, i)
  BY <1>1, <1>3 DEF On
<1>6. Cardinality(On(h, nr)) = Cardinality(On(g, nr)) - 1
  BY <1>4, OnFinite, FS_RemoveElement
<1> QED  BY <1>2, <1>4, <1>5, <1>6

----------------------------------------------------------------------------
(* The invariant.                                                          *)

Owners == Regular \cup {ROOT_INODE}

Fixed ==
    /\ dir[0].inode_nr = ROOT_INODE
    /\ inode[ROOT_INODE].i_mode = "I_DIRECTORY"
    /\ inode[TTY_INODE].i_mode = "I_CHAR_SPECIAL"

\* Sectors are given away in blocks that start at multiples of their size.
Blocks ==
    \A i \in Owners : \E j \in Nat :
        inode[i].i_start_sect = n_1st_sect + NR_DEFAULT_FILE_SECTS * j

Listed ==
    \A i \in Inodes :
        /\ Cardinality(Lists(dir, i)) <= 1
        /\ Lists(dir, i) # {} => i \in imap \ {ROOT_INODE}

IInv == TypeOK /\ Fixed /\ Blocks /\ MapsAgree /\ OpenIsPinned /\ Listed

LEMMA OnIs == \A i : OnInode(i) = On(filp, i)
BY DEF OnInode, On

LEMMA ListingsAre ==
    ASSUME TypeOK
    PROVE  \A i : Listings(i) = Lists(dir, i)
<1>1. DOMAIN dir = Slots
  BY DEF TypeOK, Slots
<1> QED  BY <1>1 DEF Listings, Lists

\* What a search finds is in use.
LEMMA FoundInUse ==
    ASSUME TypeOK, MapsAgree
    PROVE  /\ \A name : search_inode(name) \in {0} \cup imap
           /\ \A path : search_file(path) \in {0} \cup imap
<1>1. ASSUME NEW name PROVE search_inode(name) \in {0} \cup imap
  <2> DEFINE H == Named(dir, nent, name)
  <2>1. CASE H = {}
    BY <2>1 DEF search_inode, INVALID_INODE
  <2>2. CASE H # {}
    <3>1. H \subseteq Entries
      BY ScannedIn DEF Named, TypeOK
    <3>2. Min(H) \in Entries
      BY <2>2, <3>1, MinIn, SlotNumbers
    <3>3. search_inode(name) = dir[Min(H)].inode_nr
      BY <2>2 DEF search_inode
    <3> HIDE DEF H
    <3> QED  BY <3>2, <3>3 DEF MapsAgree
  <2> QED  BY <2>1, <2>2
<1>2. ASSUME NEW path PROVE search_file(path) \in {0} \cup imap
  <2>1. search_file(path) \in {ROOT_INODE, search_inode(path.name), INVALID_INODE}
    BY DEF search_file
  <2>2. ROOT_INODE \in imap
    BY DEF MapsAgree
  <2> QED  BY <1>1, <2>1, <2>2 DEF INVALID_INODE
<1> QED  BY <1>1, <1>2

LEMMA CountedIn ==
    ASSUME TypeOK, Changing, Counted
    PROVE  changes' \in 0 .. MaxChanges
BY Sizes DEF TypeOK, Changing, Counted

\* Steps that change neither the disk nor a reference.
LEMMA Stays ==
    ASSUME IInv, UNCHANGED <<disk, cnt, filp>>, fs' \in {"run", "panic", "assert"},
           changes' \in 0 .. MaxChanges
    PROVE  IInv'
<1>1. UNCHANGED <<dir, nent, imap, smap, inode, cnt, filp>>
  BY DEF disk
<1>2. TypeOK'
  BY <1>1 DEF IInv, TypeOK
<1>3. Fixed' /\ Listed'
  BY <1>1 DEF IInv, Fixed, Listed
<1>4. Blocks' /\ MapsAgree'
  <2>1. Regular' = Regular /\ \A i : BitsOf(i)' = BitsOf(i)
    BY <1>1 DEF Regular, BitsOf
  <2>2. Blocks'
    BY <1>1, <2>1 DEF IInv, Blocks, Owners
  <2>3. MapsAgree'
    BY <1>1, <2>1 DEF IInv, MapsAgree
  <2> QED  BY <2>2, <2>3
<1>5. OpenIsPinned'
  BY <1>1 DEF IInv, OpenIsPinned, OnInode
<1> QED  BY <1>2, <1>3, <1>4, <1>5 DEF IInv

\* Steps that change only what entries say about others.
LEMMA DirKept ==
    ASSUME IInv, dir' \in DirType, SameEntries(dir, dir'),
           \A i \in Inodes : Cardinality(Lists(dir', i)) = Cardinality(Lists(dir, i)),
           UNCHANGED <<nent, imap, smap, inode, cnt, filp, fs>>,
           changes' \in 0 .. MaxChanges
    PROVE  IInv'
<1>1. TypeOK'
  BY DEF IInv, TypeOK, DirType, Slots
<1>2. dir'[0].inode_nr = dir[0].inode_nr
  BY Sizes DEF SameEntries, Slots, Entries
<1>3. Fixed'
  BY <1>2 DEF IInv, Fixed
<1>4. Listed'
  <2> SUFFICES ASSUME NEW i \in Inodes
               PROVE  /\ Cardinality(Lists(dir', i)) <= 1
                      /\ Lists(dir', i) # {} => i \in imap' \ {ROOT_INODE}
    BY DEF Listed
  <2>1. Cardinality(Lists(dir', i)) <= 1
    BY DEF IInv, Listed
  <2>2. Lists(dir', i) # {} => Lists(dir, i) # {}
    BY ListsFinite, FS_EmptySet
  <2> QED  BY <2>1, <2>2 DEF IInv, Listed
<1>5. Blocks'
  BY DEF IInv, Blocks, Owners, Regular
<1>6. MapsAgree'
  <2>1. Regular' = Regular /\ \A i : BitsOf(i)' = BitsOf(i)
    BY DEF Regular, BitsOf
  <2>2. \A k \in Entries : dir'[k].inode_nr = dir[k].inode_nr
    BY SlotNumbers DEF SameEntries
  <2> QED  BY <2>1, <2>2 DEF IInv, MapsAgree
<1>7. OpenIsPinned'
  BY DEF IInv, OpenIsPinned, OnInode
<1> QED  BY <1>1, <1>3, <1>4, <1>5, <1>6, <1>7 DEF IInv

----------------------------------------------------------------------------
(* One lemma per request.                                                  *)

\* The step of MoveKeeps.
NoneLost ==
    imap' = imap /\ dir' # dir =>
        \A i \in Inodes : Cardinality(Lists(dir', i)) = Cardinality(Lists(dir, i))

LEMMA DoMoveStep ==
    ASSUME IInv, NEW p \in Procs, NEW fd \in Fds, NEW target_fd \in Fds,
           DoMove(p, fd, target_fd)
    PROVE  IInv' /\ NoneLost
<1> DEFINE nr == filp[p][fd]
           t == filp[p][target_fd]
           moved == move_relat(dir, nent, inode[nr].p_num, nr, t)
<1>1. dir \in DirType /\ nent \in 1 .. DirRoom /\ nr \in Inodes
  BY DEF IInv, TypeOK, DirType, Slots, DoMove, Inodes
<1>2. dir' = moved.d /\ UNCHANGED <<nent, imap, smap, inode, cnt, filp, fs>>
  BY DEF DoMove
<1>3. /\ moved.d \in DirType /\ SameEntries(dir, moved.d)
      /\ \A i \in Inodes : Cardinality(Lists(moved.d, i)) = Cardinality(Lists(dir, i))
  BY <1>1, Moved
<1>4. changes' \in 0 .. MaxChanges
  BY CountedIn DEF IInv, DoMove
<1> HIDE DEF moved
<1>5. IInv'
  BY <1>2, <1>3, <1>4, DirKept
<1> QED  BY <1>2, <1>3, <1>5 DEF NoneLost

\* Steps that give one entry another name or type.
LEMMA EntryKept ==
    ASSUME IInv, NEW k \in Slots, NEW en \in EntryType,
           en.inode_nr = dir[k].inode_nr, en.child_inode = dir[k].child_inode,
           dir' = [dir EXCEPT ![k] = en],
           UNCHANGED <<nent, imap, smap, inode, cnt, filp, fs>>,
           changes' \in 0 .. MaxChanges
    PROVE  IInv' /\ NoneLost
<1>1. dir \in DirType
  BY DEF IInv, TypeOK, DirType, Slots
<1>2. dir' \in DirType /\ \A q \in Slots : dir'[q] = IF q = k THEN en ELSE dir[q]
  BY <1>1 DEF DirType
<1>3. SameEntries(dir, dir')
  BY <1>2 DEF SameEntries
<1>4. \A i \in Inodes : Lists(dir', i) = Lists(dir, i)
  BY <1>2 DEF Lists
<1>5. IInv'
  BY <1>2, <1>3, <1>4, DirKept
<1> QED  BY <1>4, <1>5 DEF NoneLost

LEMMA DoRenameStep ==
    ASSUME IInv, NEW p \in Procs, NEW fd \in Fds, NEW name \in NewNames,
           DoRename(p, fd, name)
    PROVE  IInv' /\ NoneLost
<1> DEFINE H == Numbered(dir, nent, filp[p][fd])
           k == Min(H)
           en == [dir[k] EXCEPT !.name = strcpy(@, name)]
<1>1. H # {} /\ H \subseteq Entries
  BY ScannedIn DEF DoRename, Numbered, IInv, TypeOK
<1>2. k \in Slots
  BY <1>1, MinIn, SlotNumbers
<1>3. dir[k] \in EntryType
  BY <1>2 DEF IInv, TypeOK, Slots
<1>4. strcpy(dir[k].name, name) \in
          [text : Names \cup NewNames \cup {"", ".", "dev_tty0"}, extent : Nat]
  <2>1. Len12(name) \in Nat
    BY FsDirAssumption DEF Len12
  <2>2. dir[k].name.extent \in Nat
    BY <1>3 DEF EntryType
  <2> QED  BY <2>1, <2>2 DEF strcpy
<1>5. en \in EntryType /\ en.inode_nr = dir[k].inode_nr
      /\ en.child_inode = dir[k].child_inode
  BY <1>3, <1>4 DEF EntryType
<1>6. dir' = [dir EXCEPT ![k] = en]
  BY DEF DoRename
<1>7. UNCHANGED <<nent, imap, smap, inode, cnt, filp, fs>>
  BY DEF DoRename
<1>8. changes' \in 0 .. MaxChanges
  BY CountedIn DEF IInv, DoRename
<1> HIDE DEF k, en
<1> QED  BY <1>2, <1>5, <1>6, <1>7, <1>8, EntryKept

LEMMA DoChangeTypeStep ==
    ASSUME IInv, NEW p \in Procs, NEW fd \in Fds, NEW type \in BOOLEAN,
           DoChangeType(p, fd, type)
    PROVE  IInv' /\ NoneLost
<1> DEFINE k == Pde(dir, nent, filp[p][fd])
           en == [dir[k] EXCEPT !.isfolder = type]
<1>1. k # None
  BY DEF DoChangeType
<1>2. k \in Slots
  BY <1>1, PdeIn DEF IInv, TypeOK
<1>3. dir[k] \in EntryType
  BY <1>2 DEF IInv, TypeOK, Slots
<1>5. en \in EntryType /\ en.inode_nr = dir[k].inode_nr
      /\ en.child_inode = dir[k].child_inode
  BY <1>3 DEF EntryType
<1>6. dir' = [dir EXCEPT ![k] = en]
  BY DEF DoChangeType
<1>7. UNCHANGED <<nent, imap, smap, inode, cnt, filp, fs>>
  BY DEF DoChangeType
<1>8. changes' \in 0 .. MaxChanges
  BY CountedIn DEF IInv, DoChangeType
<1> HIDE DEF k, en
<1> QED  BY <1>2, <1>5, <1>6, <1>7, <1>8, EntryKept

LEMMA OpenExistingStep ==
    ASSUME IInv, NEW p \in Procs, NEW path, OpenExisting(p, path)
    PROVE  IInv' /\ NoneLost
<1> DEFINE nr == search_file(path)
           f == Min(FreeFds(p))
<1>1. UNCHANGED <<dir, nent, imap, smap, inode>> /\ NoneLost
  BY DEF OpenExisting, Halt, disk, NoneLost
<1>2. changes' = changes /\ changes \in 0 .. MaxChanges
  BY DEF OpenExisting, Running, IInv, TypeOK
<1>3. CASE fs' = "panic"
  <2>1. UNCHANGED <<disk, cnt, filp>>
    BY <1>3 DEF OpenExisting, Halt, Running
  <2> QED  BY <1>1, <1>2, <1>3, <2>1, Stays
<1>4. CASE fs' # "panic"
  <2>1. /\ ~DescriptorsFull(p) /\ nr # INVALID_INODE
        /\ cnt' = [cnt EXCEPT ![nr] = @ + 1]
        /\ filp' = [filp EXCEPT ![p][f] = nr]
        /\ fs' = fs
    BY <1>4 DEF OpenExisting, Halt
  <2>2. nr \in imap /\ nr \in Inodes
    BY <2>1, FoundInUse DEF IInv, TypeOK, INVALID_INODE
  <2>3. f \in Fds /\ filp[p][f] = 0
    <3>1. FreeFds(p) # {} /\ FreeFds(p) \subseteq Fds /\ Fds \subseteq Nat
      BY <2>1 DEF DescriptorsFull, FreeFds, Fds
    <3>2. f \in FreeFds(p)
      BY <3>1, MinIn
    <3> QED  BY <3>2 DEF FreeFds
  <2> HIDE DEF f, nr
  <2>4. /\ filp' \in [Procs -> [Fds -> 0 .. NInodes]]
        /\ Cardinality(On(filp', nr)) = Cardinality(On(filp, nr)) + 1
        /\ \A i \in Inodes \ {nr} : On(filp', i) = On(filp, i)
    <3>1. filp \in [Procs -> [Fds -> 0 .. NInodes]]
      BY DEF IInv, TypeOK
    <3>2. Points(filp', filp, p, f, nr)
      BY <2>1 DEF Points
    <3> QED  BY <2>2, <2>3, <3>1, <3>2, Pointed
  <2>5. /\ cnt' \in [Inodes -> Nat]
        /\ \A i \in Inodes : cnt'[i] = IF i = nr THEN cnt[i] + 1 ELSE cnt[i]
    BY <2>1, <2>2 DEF IInv, TypeOK
  <2>6. TypeOK'
    BY <1>1, <1>2, <2>1, <2>4, <2>5 DEF IInv, TypeOK
  <2>7. Fixed' /\ Listed'
    BY <1>1 DEF IInv, Fixed, Listed
  <2>8. Blocks' /\ MapsAgree'
    <3>1. Regular' = Regular /\ \A i : BitsOf(i)' = BitsOf(i)
      BY <1>1 DEF Regular, BitsOf
    <3>2. Blocks'
      BY <1>1, <3>1 DEF IInv, Blocks, Owners
    <3>3. MapsAgree'
      BY <1>1, <3>1 DEF IInv, MapsAgree
    <3> QED  BY <3>2, <3>3
  <2>9. OpenIsPinned'
    <3> SUFFICES ASSUME NEW i \in Inodes
                 PROVE  /\ Cardinality(On(filp', i)) <= cnt'[i]
                        /\ On(filp', i) # {} => i \in imap'
      BY DEF OpenIsPinned, OnInode, On
    <3>1. Cardinality(On(filp, i)) <= cnt[i] /\ (On(filp, i) # {} => i \in imap)
      BY OnIs DEF IInv, OpenIsPinned
    <3>2. Cardinality(On(filp, i)) \in Nat /\ cnt[i] \in Nat
      BY OnFinite DEF IInv, TypeOK
    <3>3. CASE i = nr
      BY <1>1, <2>2, <2>4, <2>5, <3>1, <3>2, <3>3
    <3>4. CASE i # nr
      BY <1>1, <2>4, <2>5, <3>1, <3>4
    <3> QED  BY <3>3, <3>4
  <2> QED  BY <1>1, <2>6, <2>7, <2>8, <2>9 DEF IInv
<1> QED  BY <1>3, <1>4

LEMMA DoCloseStep ==
    ASSUME IInv, NEW p \in Procs, NEW fd \in Fds, DoClose(p, fd)
    PROVE  IInv' /\ NoneLost
<1> DEFINE nr == filp[p][fd]
           L == {k \in Scanned(nent) : \E l \in Children : dir[k].child_inode[l] = nr}
           pnum == dir[Max(L)].inode_nr
<1>1. UNCHANGED <<dir, nent, imap, smap, fs, changes>> /\ NoneLost
  BY DEF DoClose, Running, NoneLost
<1>2. nr \in Inodes
  BY DEF DoClose, IInv, TypeOK, Inodes
<1>3. /\ inode' = IF L = {} THEN inode ELSE [inode EXCEPT ![nr].p_num = pnum]
      /\ cnt' = [cnt EXCEPT ![nr] = @ - 1]
      /\ filp' = [filp EXCEPT ![p][fd] = 0]
  BY DEF DoClose
<1>4. L # {} => pnum \in 0 .. NInodes
  <2> SUFFICES ASSUME L # {} PROVE pnum \in 0 .. NInodes
    OBVIOUS
  <2>1. L \subseteq Entries
    BY ScannedIn DEF IInv, TypeOK
  <2>2. Max(L) \in Entries
    BY <2>1, MaxIn, Sizes DEF Entries
  <2>3. dir[Max(L)] \in EntryType
    BY <2>2 DEF IInv, TypeOK
  <2> QED  BY <2>3 DEF EntryType
<1> HIDE DEF L, pnum
<1>5. /\ inode' \in [Inodes -> [i_mode : {"0", "I_REGULAR", "I_DIRECTORY", "I_CHAR_SPECIAL"},
                                i_start_sect : Nat, p_num : 0 .. NInodes]]
      /\ \A i \in Inodes : /\ inode'[i].i_mode = inode[i].i_mode
                           /\ inode'[i].i_start_sect = inode[i].i_start_sect
  <2>1. CASE L = {}
    BY <1>3, <2>1 DEF IInv, TypeOK
  <2>2. CASE L # {}
    BY <1>2, <1>3, <1>4, <2>2 DEF IInv, TypeOK
  <2> QED  BY <2>1, <2>2
<1> HIDE DEF nr
<1>6. /\ filp' \in [Procs -> [Fds -> 0 .. NInodes]]
      /\ On(filp, nr) # {}
      /\ Cardinality(On(filp', nr)) = Cardinality(On(filp, nr)) - 1
      /\ \A i \in Inodes \ {nr} : On(filp', i) = On(filp, i)
  <2>1. filp \in [Procs -> [Fds -> 0 .. NInodes]] /\ filp[p][fd] = nr
    BY DEF IInv, TypeOK, nr
  <2>2. Points(filp', filp, p, fd, 0)
    BY <1>3 DEF Points
  <2> QED  BY <1>2, <2>1, <2>2, Released
<1>7. 1 <= Cardinality(On(filp, nr))
  BY <1>6, OnFinite, FS_EmptySet
<1>8. Cardinality(On(filp, nr)) <= cnt[nr] /\ cnt[nr] \in Nat
  BY <1>2, OnIs DEF IInv, OpenIsPinned, TypeOK
<1>9. Cardinality(On(filp, nr)) \in Nat
  BY OnFinite
<1>10. cnt[nr] - 1 \in Nat
  BY <1>7, <1>8, <1>9
<1>11. /\ cnt' \in [Inodes -> Nat]
       /\ \A i \in Inodes : cnt'[i] = IF i = nr THEN cnt[i] - 1 ELSE cnt[i]
  BY <1>2, <1>3, <1>10 DEF IInv, TypeOK
<1>12. TypeOK'
  BY <1>1, <1>5, <1>6, <1>11 DEF IInv, TypeOK
<1>13. Fixed'
  BY <1>1, <1>5, Sizes DEF IInv, Fixed, Inodes, ROOT_INODE, TTY_INODE
<1>14. Listed'
  BY <1>1 DEF IInv, Listed
<1>15. Regular' = Regular /\ \A i \in Owners : BitsOf(i)' = BitsOf(i)
  <2>1. Regular' = Regular
    BY <1>5 DEF Regular
  <2>2. Owners \subseteq Inodes
    BY Sizes DEF Owners, Regular, Inodes, ROOT_INODE
  <2>3. \A i \in Owners : inode'[i].i_start_sect = inode[i].i_start_sect
    BY <1>5, <2>2
  <2> QED  BY <2>1, <2>3 DEF BitsOf
<1>16. Blocks'
  <2>1. Owners \subseteq Inodes /\ Owners' = Owners
    BY <1>15, Sizes DEF Owners, Regular, Inodes, ROOT_INODE
  <2> QED  BY <1>5, <2>1 DEF IInv, Blocks
<1>17. MapsAgree'
  BY <1>1, <1>15 DEF IInv, MapsAgree, Owners
<1>18. OpenIsPinned'
  <2> SUFFICES ASSUME NEW i \in Inodes
               PROVE  /\ Cardinality(On(filp', i)) <= cnt'[i]
                      /\ On(filp', i) # {} => i \in imap'
    BY DEF OpenIsPinned, OnInode, On
  <2>1. Cardinality(On(filp, i)) <= cnt[i] /\ (On(filp, i) # {} => i \in imap)
    BY OnIs DEF IInv, OpenIsPinned
  <2>2. CASE i = nr
    BY <1>1, <1>6, <1>8, <1>9, <1>11, <2>1, <2>2
  <2>3. CASE i # nr
    BY <1>1, <1>6, <1>11, <2>1, <2>3
  <2> QED  BY <2>2, <2>3
<1> QED  BY <1>1, <1>12, <1>13, <1>14, <1>16, <1>17, <1>18 DEF IInv

\* The bits of a block.
LEMMA BlockBits ==
    ASSUME Blocks, NEW i \in Owners
    PROVE  \E j, b \in Nat :
               /\ b = NR_DEFAULT_FILE_SECTS * j
               /\ BitsOf(i) = b + 1 .. b + NR_DEFAULT_FILE_SECTS
<1>1. PICK j \in Nat : inode[i].i_start_sect = n_1st_sect + NR_DEFAULT_FILE_SECTS * j
  BY DEF Blocks
<1> DEFINE b == NR_DEFAULT_FILE_SECTS * j
<1>2. b \in Nat
  BY Sizes
<1>3. inode[i].i_start_sect = n_1st_sect + b /\ b = NR_DEFAULT_FILE_SECTS * j
  BY <1>1
<1> HIDE DEF b
<1>4. BitsOf(i) = b + 1 .. b + NR_DEFAULT_FILE_SECTS
  BY <1>2, <1>3, Sizes DEF BitsOf, Extent
<1> QED  BY <1>2, <1>3, <1>4

LEMMA OwnersIn ==
    ASSUME Fixed
    PROVE  /\ Owners \subseteq Inodes /\ ROOT_INODE \in Inodes /\ TTY_INODE \in Inodes
           /\ ROOT_INODE \notin Regular /\ TTY_INODE \notin Owners /\ ROOT_INODE \in Owners
<1>1. ROOT_INODE \in Inodes /\ TTY_INODE \in Inodes /\ ROOT_INODE # TTY_INODE
  BY Sizes DEF Inodes, ROOT_INODE, TTY_INODE
<1>2. ROOT_INODE \notin Regular /\ TTY_INODE \notin Regular /\ Regular \subseteq Inodes
  BY DEF Fixed, Regular
<1> QED  BY <1>1, <1>2 DEF Owners

\* Steps that only take a reference to an inode.
LEMMA RefKept ==
    ASSUME IInv, NEW nr \in Inodes, cnt' = [cnt EXCEPT ![nr] = @ + 1],
           UNCHANGED <<disk, filp, fs>>, changes' \in 0 .. MaxChanges
    PROVE  IInv' /\ NoneLost
<1>1. UNCHANGED <<dir, nent, imap, smap, inode, filp, fs>>
  BY DEF disk
<1>2. /\ cnt' \in [Inodes -> Nat]
      /\ \A i \in Inodes : cnt'[i] = IF i = nr THEN cnt[i] + 1 ELSE cnt[i]
  BY DEF IInv, TypeOK
<1>3. TypeOK'
  BY <1>1, <1>2 DEF IInv, TypeOK
<1>4. Fixed' /\ Listed'
  BY <1>1 DEF IInv, Fixed, Listed
<1>5. Blocks' /\ MapsAgree'
  <2>1. Regular' = Regular /\ \A i : BitsOf(i)' = BitsOf(i)
    BY <1>1 DEF Regular, BitsOf
  <2>2. Blocks'
    BY <1>1, <2>1 DEF IInv, Blocks, Owners
  <2>3. MapsAgree'
    BY <1>1, <2>1 DEF IInv, MapsAgree
  <2> QED  BY <2>2, <2>3
<1>6. OpenIsPinned'
  <2> SUFFICES ASSUME NEW i \in Inodes
               PROVE  /\ Cardinality(On(filp', i)) <= cnt'[i]
                      /\ On(filp', i) # {} => i \in imap'
    BY DEF OpenIsPinned, OnInode, On
  <2>1. Cardinality(On(filp, i)) <= cnt[i] /\ (On(filp, i) # {} => i \in imap)
    BY OnIs DEF IInv, OpenIsPinned
  <2>2. Cardinality(On(filp, i)) \in Nat /\ cnt[i] \in Nat
    BY OnFinite DEF IInv, TypeOK
  <2> QED  BY <1>1, <1>2, <2>1, <2>2
<1> QED  BY <1>1, <1>3, <1>4, <1>5, <1>6 DEF IInv, NoneLost

LEMMA RemoveFileStep ==
    ASSUME IInv, Changing, Counted, NEW nr \in Regular, NEW pnr, cnt[nr] = 0,
           RemoveFile(nr, pnr)
    PROVE  IInv' /\ NoneLost
<1> DEFINE bit == inode[nr].i_start_sect - n_1st_sect + 1
           rel == delete_relat(dir, nent, pnr, nr)
           H == {k \in 0 .. nent - 1 : rel.d[k].inode_nr = nr}
           m == Min(H)
           used == {k \in 0 .. m - 1 : rel.d[k].inode_nr # 0}
<1>1. changes' \in 0 .. MaxChanges
  BY CountedIn DEF IInv
<1>2. nr \in Inodes
  BY DEF Regular
<1>3. CASE rel.rc # 0
  <2>1. cnt' = [cnt EXCEPT ![nr] = @ + 1] /\ UNCHANGED <<disk, filp, fs>>
    BY <1>3 DEF RemoveFile
  <2> QED  BY <1>1, <1>2, <2>1, RefKept
<1>4. CASE rel.rc = 0 /\ (nr \notin imap \/ ~(Extent(bit) \subseteq smap) \/ H = {})
  <2>1. fs' = "assert" /\ UNCHANGED <<disk, cnt, filp>>
    BY <1>4 DEF RemoveFile, Halt
  <2>2. NoneLost
    BY <2>1 DEF disk, NoneLost
  <2> QED  BY <1>1, <2>1, <2>2, Stays
<1>5. CASE rel.rc = 0 /\ ~(nr \notin imap \/ ~(Extent(bit) \subseteq smap) \/ H = {})
  <2>1. /\ H # {}
        /\ imap' = imap \ {nr} /\ nr \in imap
        /\ smap' = smap \ Extent(bit)
        /\ inode' = [inode EXCEPT ![nr].i_mode = "0", ![nr].i_start_sect = 0]
        /\ dir' = [rel.d EXCEPT ![m] = FreeEntry]
        /\ nent' = IF m = nent - 1 THEN Cardinality(used) ELSE nent
        /\ UNCHANGED <<cnt, filp, fs>>
    BY <1>5 DEF RemoveFile
  <2>2. dir \in DirType /\ nent \in 1 .. DirRoom
    BY DEF IInv, TypeOK, DirType, Slots
  <2>3. /\ rel.d \in DirType /\ SameEntries(dir, rel.d)
        /\ \E s \in Lists(dir, nr) : Lists(rel.d, nr) = Lists(dir, nr) \ {s}
        /\ \A i \in Inodes \ {nr} : Lists(rel.d, i) = Lists(dir, i)
    BY <1>2, <1>5, <2>2, Deleted
  <2>4. Lists(rel.d, nr) = {}
    <3>1. PICK s \in Lists(dir, nr) : Lists(rel.d, nr) = Lists(dir, nr) \ {s}
      BY <2>3
    <3>2. Cardinality(Lists(dir, nr)) <= 1
      BY <1>2 DEF IInv, Listed
    <3>3. Cardinality(Lists(rel.d, nr)) = Cardinality(Lists(dir, nr)) - 1
      BY <3>1, ListsFinite, FS_RemoveElement
    <3>4. Cardinality(Lists(rel.d, nr)) = 0
      BY <3>2, <3>3, ListsFinite
    <3> QED  BY <3>4, ListsFinite, FS_EmptySet
  <2>5. m \in H
    <3>1. H \subseteq Nat
      OBVIOUS
    <3> QED  BY <2>1, <3>1, MinIn
  <2>6. m \in 0 .. nent - 1 /\ m \in Entries /\ m \in Slots
    BY <2>2, <2>5, Sizes, SlotNumbers DEF Entries
  <2>7. dir[m].inode_nr = nr
    BY <2>3, <2>5, <2>6 DEF SameEntries
  <2>8. m # 0
    BY <2>7, OwnersIn DEF IInv, Fixed
  <2> DEFINE d == rel.d
  <2> HIDE DEF H, m, d, rel
  <2>9. FreeEntry \in EntryType /\ FreeEntry.inode_nr = 0 /\ FreeEntry.child_inode = NoChild
    BY Sizes DEF FreeEntry, EntryType, NoChild, NoName, INVALID_INODE
  <2>10. dir' \in DirType /\ \A q \in Slots : dir'[q] = IF q = m THEN FreeEntry ELSE d[q]
    BY <2>1, <2>3, <2>6, <2>9 DEF DirType, d
  <2>11. \A q \in Slots : dir'[q].inode_nr = IF q = m THEN 0 ELSE dir[q].inode_nr
    BY <2>3, <2>9, <2>10 DEF SameEntries, d
  <2>12. \A i \in Inodes : Lists(dir', i) \subseteq Lists(d, i)
    <3>1. \A i \in Inodes : i # 0
      BY Sizes DEF Inodes
    <3> QED  BY <2>9, <2>10, <3>1 DEF Lists, NoChild, INVALID_INODE
  <2>13. nent' \in 1 .. DirRoom
    <3>1. CASE m = nent - 1
      <4>1. 0 \in used
        <5>1. rel.d[0].inode_nr = ROOT_INODE
          BY <2>3, Sizes DEF SameEntries, IInv, Fixed, Slots, Entries
        <5> QED  BY <2>6, <2>8, <5>1 DEF ROOT_INODE
      <4>2. m \in Nat /\ m - 1 \in Nat
        BY <2>2, <2>6, <2>8
      <4>a. IsFiniteSet(0 .. m - 1) /\ Cardinality(0 .. m - 1) = m
        BY <4>2, FS_Interval
      <4> HIDE DEF used
      <4>3. used \subseteq 0 .. m - 1
        BY DEF used
      <4>4. IsFiniteSet(used) /\ Cardinality(used) <= m
        <5>1. used \in SUBSET (0 .. m - 1)
          BY <4>3
        <5>2. IsFiniteSet(used) /\ Cardinality(used) <= Cardinality(0 .. m - 1)
          BY <4>a, <5>1, FS_Subset, Zenon
        <5> QED  BY <4>a, <5>2
      <4>5. Cardinality(used) \in Nat /\ Cardinality(used) # 0
        BY <4>1, <4>4, FS_CardinalityType, FS_EmptySet
      <4>6. nent' = Cardinality(used)
        BY <2>1, <3>1
      <4>b. m <= DirRoom
        BY <2>2, <2>6, Sizes
      <4> QED  BY <4>2, <4>4, <4>5, <4>6, <4>b, Sizes
    <3>2. CASE m # nent - 1
      BY <2>1, <2>2, <3>2
    <3> QED  BY <3>1, <3>2
  <2>14. /\ inode' \in [Inodes -> [i_mode : {"0", "I_REGULAR", "I_DIRECTORY", "I_CHAR_SPECIAL"},
                                   i_start_sect : Nat, p_num : 0 .. NInodes]]
         /\ inode'[nr].i_mode = "0"
         /\ \A i \in Inodes \ {nr} : inode'[i] = inode[i]
    <3> DEFINE new == [inode[nr] EXCEPT !.i_mode = "0", !.i_start_sect = 0]
    <3>1. inode' = [inode EXCEPT ![nr] = new]
      BY <2>1
    <3>2. inode[nr] \in [i_mode : {"0", "I_REGULAR", "I_DIRECTORY", "I_CHAR_SPECIAL"},
                         i_start_sect : Nat, p_num : 0 .. NInodes]
      BY <1>2 DEF IInv, TypeOK
    <3>3. /\ new \in [i_mode : {"0", "I_REGULAR", "I_DIRECTORY", "I_CHAR_SPECIAL"},
                      i_start_sect : Nat, p_num : 0 .. NInodes]
          /\ new.i_mode = "0"
      BY <3>2
    <3> HIDE DEF new
    <3> QED  BY <1>2, <3>1, <3>3 DEF IInv, TypeOK
  <2>15. /\ Regular' = Regular \ {nr} /\ Owners' = Owners \ {nr}
         /\ \A i \in Owners' : BitsOf(i)' = BitsOf(i) /\ inode'[i] = inode[i]
    <3>1. Regular' = Regular \ {nr}
      BY <2>14 DEF Regular
    <3>2. Owners' = Owners \ {nr}
      BY <3>1, OwnersIn DEF Owners, IInv
    <3>3. \A i \in Owners' : inode'[i] = inode[i]
      BY <2>14, <3>2, OwnersIn DEF IInv
    <3>4. \A i \in Owners' : BitsOf(i)' = BitsOf(i)
      BY <3>3 DEF BitsOf
    <3> QED  BY <3>1, <3>2, <3>3, <3>4
  <2>16. TypeOK'
    <3>1. dir' \in [Entries \cup {Behind} -> EntryType]
      BY <2>10 DEF DirType, Slots
    <3> QED  BY <1>1, <2>1, <2>13, <2>14, <3>1 DEF IInv, TypeOK
  <2>17. Fixed'
    <3>1. dir'[0].inode_nr = ROOT_INODE
      BY <2>8, <2>11, Sizes DEF IInv, Fixed, Slots, Entries
    <3>2. nr # ROOT_INODE /\ nr # TTY_INODE
      BY OwnersIn DEF IInv, Owners
    <3> QED  BY <2>14, <3>1, <3>2, OwnersIn DEF IInv, Fixed
  <2>18. Blocks'
    BY <2>15 DEF IInv, Blocks
  <2>19. MapsAgree'
    <3>1. imap' = Regular' \cup {ROOT_INODE, TTY_INODE}
      BY <2>1, <2>15, OwnersIn DEF IInv, MapsAgree, Owners
    <3>2. Extent(bit) = BitsOf(nr)
      BY DEF BitsOf
    <3>3. 0 \notin BitsOf(nr)
      <4>1. nr \in Owners /\ Blocks
        BY DEF Owners, IInv
      <4>2. PICK j, b \in Nat : BitsOf(nr) = b + 1 .. b + NR_DEFAULT_FILE_SECTS
        BY <4>1, BlockBits
      <4> QED  BY <4>2
    <3>4. \A i, j \in Owners : i # j => BitsOf(i) \cap BitsOf(j) = {}
      BY DEF IInv, MapsAgree, Owners
    <3>5. smap' = smap \ BitsOf(nr)
      BY <2>1, <3>2
    <3>6. smap = {0} \cup UNION {BitsOf(i) : i \in Owners}
      BY DEF IInv, MapsAgree, Owners
    <3>7. smap' = {0} \cup UNION {BitsOf(i) : i \in Owners \ {nr}}
      <4>1. nr \in Owners
        BY DEF Owners
      <4> QED  BY <3>3, <3>4, <3>5, <3>6, <4>1
    <3>8. smap' = {0} \cup BitsOf(ROOT_INODE)' \cup UNION {BitsOf(i)' : i \in Regular'}
      <4>1. Owners \ {nr} = Regular' \cup {ROOT_INODE}
        BY <2>15 DEF Owners
      <4>2. \A i \in Owners \ {nr} : BitsOf(i)' = BitsOf(i)
        BY <2>15
      <4> QED  BY <3>7, <4>1, <4>2
    <3>9. \A i, j \in Owners' : i # j => BitsOf(i)' \cap BitsOf(j)' = {}
      BY <2>15, <3>4
    <3>10. ASSUME NEW k \in Entries, dir'[k].inode_nr # 0
           PROVE  /\ dir'[k].inode_nr \in imap'
                  /\ \A j \in Entries \ {k} : dir'[j].inode_nr # dir'[k].inode_nr
      <4>1. k # m /\ dir'[k].inode_nr = dir[k].inode_nr
        BY <2>11, <3>10, SlotNumbers
      <4>2. dir[k].inode_nr \in imap
            /\ \A j \in Entries \ {k} : dir[j].inode_nr # dir[k].inode_nr
        BY <3>10, <4>1 DEF IInv, MapsAgree
      <4>3. dir[k].inode_nr # nr
        BY <2>6, <2>7, <4>1, <4>2
      <4> QED  BY <2>1, <2>11, <3>10, <4>1, <4>2, <4>3, SlotNumbers
    <3> QED  BY <3>1, <3>8, <3>9, <3>10 DEF MapsAgree, Owners
  <2>20. OpenIsPinned'
    <3> SUFFICES ASSUME NEW i \in Inodes
                 PROVE  /\ Cardinality(On(filp', i)) <= cnt'[i]
                        /\ On(filp', i) # {} => i \in imap'
      BY DEF OpenIsPinned, OnInode, On
    <3>1. Cardinality(On(filp, i)) <= cnt[i] /\ (On(filp, i) # {} => i \in imap)
      BY OnIs DEF IInv, OpenIsPinned
    <3>2. i = nr => On(filp, i) = {}
      BY <3>1, OnFinite, FS_EmptySet
    <3> QED  BY <2>1, <3>1, <3>2
  <2>21. Listed'
    <3> SUFFICES ASSUME NEW i \in Inodes
                 PROVE  /\ Cardinality(Lists(dir', i)) <= 1
                        /\ Lists(dir', i) # {} => i \in imap' \ {ROOT_INODE}
      BY DEF Listed
    <3>1. Lists(dir', i) \subseteq Lists(dir, i) /\ (i = nr => Lists(dir', i) = {})
      BY <2>3, <2>4, <2>12 DEF d
    <3>2. Cardinality(Lists(dir', i)) <= Cardinality(Lists(dir, i))
      BY <3>1, ListsFinite, FS_Subset
    <3>3. Cardinality(Lists(dir, i)) <= 1 /\ (Lists(dir, i) # {} => i \in imap \ {ROOT_INODE})
      BY DEF IInv, Listed
    <3> QED  BY <2>1, <3>1, <3>2, <3>3, ListsFinite
  <2>22. NoneLost
    BY <2>1 DEF NoneLost
  <2> QED  BY <2>16, <2>17, <2>18, <2>19, <2>20, <2>21, <2>22 DEF IInv
<1> QED  BY <1>3, <1>4, <1>5

LEMMA DoUnlinkStep ==
    ASSUME IInv, NEW path, DoUnlink(path)
    PROVE  IInv' /\ NoneLost
<1> DEFINE nr == search_file(path)
<1>1. Changing /\ Counted /\ nr # INVALID_INODE
  BY DEF DoUnlink
<1>2. nr \in Inodes
  BY <1>1, FoundInUse DEF IInv, TypeOK, INVALID_INODE
<1>3. changes' \in 0 .. MaxChanges
  BY <1>1, CountedIn DEF IInv
<1>4. CASE GetInodePanics(nr)
  <2>1. fs' = "panic" /\ UNCHANGED <<disk, cnt, filp>>
    BY <1>4 DEF DoUnlink, Halt
  <2>2. NoneLost
    BY <2>1 DEF disk, NoneLost
  <2> QED  BY <1>3, <2>1, <2>2, Stays
<1>5. CASE ~GetInodePanics(nr) /\ (inode[nr].i_mode # "I_REGULAR" \/ cnt[nr] > 0)
  <2>1. cnt' = [cnt EXCEPT ![nr] = @ + 1] /\ UNCHANGED <<disk, filp, fs>>
    BY <1>5 DEF DoUnlink
  <2> QED  BY <1>2, <1>3, <2>1, RefKept
<1>6. CASE ~GetInodePanics(nr) /\ ~(inode[nr].i_mode # "I_REGULAR" \/ cnt[nr] > 0)
  <2>1. RemoveFile(nr, search_inode(path.parent))
    BY <1>6 DEF DoUnlink
  <2>2. nr \in Regular
    BY <1>2, <1>6 DEF Regular
  <2>3. cnt[nr] \in Nat
    BY <1>2 DEF IInv, TypeOK
  <2>4. cnt[nr] = 0
    BY <1>6, <2>3
  <2> HIDE DEF nr
  <2> QED  BY <1>1, <2>1, <2>2, <2>4, RemoveFileStep
<1> QED  BY <1>4, <1>5, <1>6

----------------------------------------------------------------------------
(* A free block: the first free bit begins one that lies in the map.       *)

LEMMA SmallerFactor ==
    ASSUME NEW n \in Nat, NEW a \in Nat, NEW b \in Nat, n * a < n * b
    PROVE  a + 1 <= b
<1> SUFFICES ASSUME b <= a PROVE FALSE
  OBVIOUS
<1>1. PICK c \in Nat : a = b + c
  <2>1. a - b \in Nat /\ a = b + (a - b)
    OBVIOUS
  <2> QED  BY <2>1
<1>2. n * a = n * b + n * c
  BY <1>1
<1>3. n * c \in Nat /\ n * b \in Nat /\ n * a \in Nat
  OBVIOUS
<1> QED  BY <1>2, <1>3

LEMMA NextFactor ==
    ASSUME NEW n \in Nat, NEW a \in Nat, NEW b \in Nat, a + 1 <= b
    PROVE  n * a + n <= n * b /\ n * a \in Nat /\ n * b \in Nat
<1>1. PICK c \in Nat : b = (a + 1) + c
  <2>1. b - (a + 1) \in Nat /\ b = (a + 1) + (b - (a + 1))
    OBVIOUS
  <2> QED  BY <2>1
<1>2. n * b = n * a + n + n * c
  BY <1>1
<1>3. n * c \in Nat /\ n * b \in Nat /\ n * a \in Nat
  OBVIOUS
<1> QED  BY <1>2, <1>3

\* The map is never full: every block of it has at most one owner, and the
\* terminal's inode owns none.
LEMMA BitsLeft ==
    ASSUME TypeOK, Fixed, Blocks, MapsAgree
    PROVE  Bits \ smap # {}
<1> SUFFICES ASSUME Bits \subseteq smap PROVE FALSE
  OBVIOUS
<1> DEFINE N == NR_DEFAULT_FILE_SECTS
           start(j) == n_1st_sect + N * j
           J == 0 .. NInodes - 1
<1>0. N \in Nat /\ 1 <= N /\ NInodes \in Nat /\ 2 <= NInodes /\ n_1st_sect \in Nat
  BY Sizes
<1>1. smap = {0} \cup UNION {BitsOf(i) : i \in Owners}
  BY DEF MapsAgree, Owners
<1>2. ASSUME NEW j \in J
      PROVE  \E i \in Owners : inode[i].i_start_sect = start(j)
  <2>1. j \in Nat /\ j + 1 <= NInodes
    BY <1>0
  <2>2. N * j + N <= N * NInodes /\ N * j \in Nat /\ N * NInodes \in Nat
    BY <1>0, <2>1, NextFactor
  <2> DEFINE a == N * j
  <2>3. a + 1 \in Bits /\ a + 1 # 0
    BY <1>0, <2>2 DEF Bits
  <2>4. PICK i \in Owners : a + 1 \in BitsOf(i)
    BY <1>1, <2>3
  <2>5. PICK k \in Nat : inode[i].i_start_sect = n_1st_sect + NR_DEFAULT_FILE_SECTS * k
    BY DEF Blocks
  <2> DEFINE b == N * k
  <2>6. b \in Nat /\ a \in Nat
    BY <1>0, <2>2
  <2>7. inode[i].i_start_sect = n_1st_sect + b
    BY <2>5
  <2> HIDE DEF a, b
  <2>8. BitsOf(i) = b + 1 .. b + N
    BY <1>0, <2>6, <2>7 DEF BitsOf, Extent
  <2>9. b <= a /\ a < b + N
    BY <1>0, <2>4, <2>6, <2>8
  <2> USE DEF a, b
  <2>10. N * (k + 1) = N * k + N /\ N * (j + 1) = N * j + N
    BY <1>0, <2>1
  <2>11. N * k < N * (j + 1) /\ N * j < N * (k + 1)
    BY <1>0, <2>6, <2>9, <2>10
  <2>12. k + 1 <= j + 1 /\ j + 1 <= k + 1
    BY <1>0, <2>1, <2>11, SmallerFactor
  <2>13. k = j
    BY <2>1, <2>12
  <2> QED  BY <2>5, <2>13
<1> DEFINE g == [j \in J |-> CHOOSE i \in Owners : inode[i].i_start_sect = start(j)]
<1>3. \A j \in J : g[j] \in Owners /\ inode[g[j]].i_start_sect = start(j)
  BY <1>2
<1>4. ASSUME NEW j \in J, NEW k \in J, start(j) = start(k) PROVE j = k
  <2>1. j \in Nat /\ k \in Nat
    BY <1>0
  <2>a. N * j \in Nat /\ N * k \in Nat
    BY <1>0, <2>1
  <2>2. N * j = N * k
    BY <1>0, <1>4, <2>a
  <2>3. N * (k + 1) = N * k + N /\ N * (j + 1) = N * j + N
    BY <1>0, <2>1
  <2>4. N * k < N * (j + 1) /\ N * j < N * (k + 1)
    BY <1>0, <2>a, <2>2, <2>3
  <2>5. k + 1 <= j + 1 /\ j + 1 <= k + 1
    BY <1>0, <2>1, <2>4, SmallerFactor
  <2> QED  BY <2>1, <2>5
<1> DEFINE T == Inodes \ {TTY_INODE}
<1>5. Owners \subseteq T
  BY OwnersIn DEF T
<1> HIDE DEF start
<1>6. g \in Injection(J, T)
  <2>1. g \in [J -> T]
    BY <1>3, <1>5
  <2>2. \A j, k \in J : g[j] = g[k] => j = k
    BY <1>3, <1>4
  <2> QED  BY <2>1, <2>2 DEF Injection, IsInjective
<1>7. IsFiniteSet(T) /\ Cardinality(T) = NInodes - 1
  <2>1. IsFiniteSet(Inodes) /\ Cardinality(Inodes) = NInodes
    BY <1>0, FS_Interval DEF Inodes
  <2>2. TTY_INODE \in Inodes
    BY OwnersIn
  <2> QED  BY <2>1, <2>2, FS_RemoveElement
<1>8. Cardinality(J) = NInodes
  BY <1>0, FS_Interval
<1> HIDE DEF g, J, T
<1>9. Cardinality(J) <= Cardinality(T)
  BY <1>6, <1>7, FS_Injection
<1> QED  BY <1>0, <1>7, <1>8, <1>9

LEMMA FreeBlock ==
    ASSUME TypeOK, Fixed, Blocks, MapsAgree
    PROVE  \E j, b \in Nat :
               /\ b = NR_DEFAULT_FILE_SECTS * j /\ alloc_smap_bit = b + 1
               /\ Extent(b + 1) \subseteq Bits /\ 0 \notin Extent(b + 1)
<1> DEFINE N == NR_DEFAULT_FILE_SECTS
           M == N * NInodes
           bit == alloc_smap_bit
<1>0. N \in Nat /\ 1 <= N /\ NInodes \in Nat /\ 2 <= NInodes /\ M \in Nat
  BY Sizes
<1>1. smap = {0} \cup UNION {BitsOf(i) : i \in Owners}
  BY DEF MapsAgree, Owners
<1>2. Bits = 0 .. M
  BY DEF Bits
<1>3. bit \in Bits \ smap /\ \A y \in Bits \ smap : bit <= y
  <2>1. Bits \ smap \subseteq Nat /\ Bits \ smap # {}
    BY <1>2, BitsLeft
  <2> QED  BY <2>1, MinIn DEF alloc_smap_bit
<1> HIDE DEF bit
<1>4. \E j \in Nat : bit = N * j + 1
  <2> HIDE DEF M
  <2>1. bit \in Nat /\ bit # 0 /\ bit <= M
    BY <1>0, <1>1, <1>2, <1>3
  <2>2. bit - 1 \in Bits
    BY <1>0, <1>2, <2>1
  <2>3. bit - 1 \in smap
    BY <1>3, <2>1, <2>2
  <2>4. CASE bit - 1 = 0
    <3>1. N * 0 = 0
      BY <1>0
    <3> QED  BY <2>1, <2>4, <3>1
  <2>5. CASE bit - 1 # 0
    <3>1. PICK i \in Owners : bit - 1 \in BitsOf(i)
      BY <1>1, <2>3, <2>5
    <3>2. bit \notin BitsOf(i)
      BY <1>1, <1>3
    <3>3. PICK j, b \in Nat : b = N * j /\ BitsOf(i) = b + 1 .. b + N
      BY BlockBits
    <3>4. bit = b + N + 1
      BY <1>0, <2>1, <3>1, <3>2, <3>3
    <3>5. N * (j + 1) = N * j + N
      BY <1>0
    <3>6. bit = N * (j + 1) + 1 /\ j + 1 \in Nat
      BY <3>3, <3>4, <3>5
    <3> QED  BY <3>6
  <2> QED  BY <2>4, <2>5
<1>5. PICK j \in Nat : bit = N * j + 1
  BY <1>4
<1> DEFINE b == N * j
<1>6. b \in Nat /\ b < M
  BY <1>0, <1>2, <1>3, <1>5
<1>7. b + N <= M
  <2>1. j + 1 <= NInodes
    BY <1>0, <1>6, SmallerFactor
  <2> QED  BY <1>0, <2>1, NextFactor
<1>8. bit = b + 1 /\ b = NR_DEFAULT_FILE_SECTS * j
  BY <1>5
<1> HIDE DEF b, M
<1>9. Extent(b + 1) \subseteq Bits /\ 0 \notin Extent(b + 1)
  BY <1>0, <1>2, <1>6, <1>7 DEF Extent
<1> QED  BY <1>6, <1>8, <1>9 DEF bit

----------------------------------------------------------------------------
(* Creating a file.                                                        *)

LEMMA CreateFileStep ==
    ASSUME IInv, Changing, Counted, NEW p \in Procs, NEW path, path.name \in Names,
           Inodes \ imap # {}, NewSlot(dir, nent) < DirRoom, ~DescriptorsFull(p),
           CreateFile(p, path)
    PROVE  IInv' /\ NoneLost
<1>0. PICK nr : nr = alloc_imap_bit
  OBVIOUS
<1> DEFINE bit == alloc_smap_bit
           pnr == search_inode(path.parent)
           new == new_dir_entry(dir, nent, nr, path.name)
           rel == make_relat(new.d, new.n, pnr, nr)
           slot == NewSlot(dir, nent)
           f == Min(FreeFds(p))
<1>1. changes' \in 0 .. MaxChanges
  BY CountedIn DEF IInv
<1>2. CASE fs' \in {"panic", "assert"} /\ UNCHANGED <<disk, cnt, filp>>
  <2>1. NoneLost
    BY <1>2 DEF disk, NoneLost
  <2> QED  BY <1>1, <1>2, <2>1, Stays
<1>3. CASE ~GetInodePanics(nr) /\ Extent(bit) \cap smap = {}
  <2>1. /\ imap' = imap \cup {nr}
        /\ smap' = smap \cup Extent(bit)
        /\ inode' = [inode EXCEPT ![nr] = [i_mode |-> "I_REGULAR", p_num |-> pnr,
                                           i_start_sect |-> bit - 1 + n_1st_sect]]
        /\ cnt' = [cnt EXCEPT ![nr] = 1]
        /\ dir' = rel.d
        /\ nent' = new.n
        /\ filp' = IF rel.rc # 0 THEN filp ELSE [filp EXCEPT ![p][f] = nr]
        /\ UNCHANGED fs
    BY <1>0, <1>3 DEF CreateFile
  <2>2. nr \in Inodes \ imap
    <3>1. Inodes \ imap \subseteq Nat
      BY DEF Inodes
    <3> QED  BY <1>0, <3>1, MinIn DEF alloc_imap_bit
  <2>3. f \in Fds /\ filp[p][f] = 0
    <3>1. FreeFds(p) # {} /\ FreeFds(p) \subseteq Fds /\ Fds \subseteq Nat
      BY DEF DescriptorsFull, FreeFds, Fds
    <3>2. f \in FreeFds(p)
      BY <3>1, MinIn
    <3> QED  BY <3>2 DEF FreeFds
  <2>4. pnr \in 0 .. NInodes
    <3>1. pnr \in {0} \cup imap
      BY FoundInUse DEF IInv
    <3>2. imap \subseteq 1 .. NInodes
      BY DEF IInv, TypeOK, Inodes
    <3> HIDE DEF pnr
    <3> QED  BY <3>1, <3>2, Sizes
  <2>5. dir \in DirType /\ nent \in 1 .. DirRoom /\ dir[0].inode_nr = ROOT_INODE
    BY DEF IInv, TypeOK, Fixed, DirType, Slots
  <2>6. PICK j, b \in Nat :
              /\ b = NR_DEFAULT_FILE_SECTS * j /\ bit = b + 1
              /\ Extent(b + 1) \subseteq Bits /\ 0 \notin Extent(b + 1)
    BY FreeBlock DEF IInv
  <2> HIDE DEF pnr, bit, f
  <2>7. /\ new.d \in DirType /\ new.n \in 1 .. DirRoom /\ slot \in Entries /\ slot # 0
        /\ \A q \in Slots : new.d[q].inode_nr = IF q = slot THEN nr ELSE dir[q].inode_nr
        /\ \A i \in Inodes : Lists(new.d, i) \subseteq Lists(dir, i)
    BY <2>2, <2>5, NewEntry
  <2> HIDE DEF new, slot
  <2>8. /\ rel.d \in DirType /\ SameEntries(new.d, rel.d)
        /\ rel.rc # 0 => rel.d = new.d
        /\ rel.rc = 0 => \E s \in Slots \X Children :
                             Lists(rel.d, nr) = Lists(new.d, nr) \cup {s}
        /\ \A i \in Inodes \ {nr} : Lists(rel.d, i) = Lists(new.d, i)
    BY <2>2, <2>7, Made
  <2> HIDE DEF rel
  <2>9. \A q \in Slots : dir'[q].inode_nr = IF q = slot THEN nr ELSE dir[q].inode_nr
    BY <2>1, <2>7, <2>8 DEF SameEntries
  <2>10. nr \notin Regular /\ nr # ROOT_INODE /\ nr # TTY_INODE /\ nr # 0
    BY <2>2, Sizes DEF IInv, MapsAgree, Inodes
  <2> DEFINE rec == [i_mode |-> "I_REGULAR", p_num |-> pnr,
                     i_start_sect |-> bit - 1 + n_1st_sect]
  <2>11. /\ rec \in [i_mode : {"0", "I_REGULAR", "I_DIRECTORY", "I_CHAR_SPECIAL"},
                     i_start_sect : Nat, p_num : 0 .. NInodes]
         /\ rec.i_mode = "I_REGULAR" /\ rec.i_start_sect = n_1st_sect + b
    <3>1. bit - 1 + n_1st_sect = n_1st_sect + b /\ n_1st_sect + b \in Nat
      BY <2>6, Sizes
    <3> QED  BY <2>4, <3>1
  <2>12. inode' = [inode EXCEPT ![nr] = rec]
    BY <2>1
  <2> HIDE DEF rec
  <2>13. /\ inode' \in [Inodes -> [i_mode : {"0", "I_REGULAR", "I_DIRECTORY", "I_CHAR_SPECIAL"},
                                   i_start_sect : Nat, p_num : 0 .. NInodes]]
         /\ inode'[nr] = rec
         /\ \A i \in Inodes \ {nr} : inode'[i] = inode[i]
    BY <2>2, <2>11, <2>12 DEF IInv, TypeOK
  <2>14. /\ Regular' = Regular \cup {nr} /\ Owners' = Owners \cup {nr}
         /\ \A i \in Owners : BitsOf(i)' = BitsOf(i) /\ inode'[i] = inode[i]
         /\ nr \notin Owners
    <3>1. Regular' = Regular \cup {nr}
      BY <2>2, <2>11, <2>13 DEF Regular
    <3>2. Owners' = Owners \cup {nr} /\ nr \notin Owners
      BY <2>10, <3>1 DEF Owners
    <3>3. \A i \in Owners : inode'[i] = inode[i]
      BY <2>13, <3>2, OwnersIn DEF IInv
    <3>4. \A i \in Owners : BitsOf(i)' = BitsOf(i)
      BY <3>3 DEF BitsOf
    <3> QED  BY <3>1, <3>2, <3>3, <3>4
  <2>15. BitsOf(nr)' = Extent(bit)
    <3>1. inode'[nr].i_start_sect - n_1st_sect + 1 = bit
      BY <2>6, <2>11, <2>13, Sizes
    <3>2. BitsOf(nr)' = Extent(inode'[nr].i_start_sect - n_1st_sect + 1)
      BY DEF BitsOf
    <3> QED  BY <3>1, <3>2
  <2>16. smap' \subseteq Bits
    BY <2>1, <2>6 DEF IInv, TypeOK
  <2>17. /\ cnt' \in [Inodes -> Nat]
         /\ \A i \in Inodes : cnt'[i] = IF i = nr THEN 1 ELSE cnt[i]
    BY <2>1, <2>2 DEF IInv, TypeOK
  <2>18. On(filp, nr) = {} /\ Cardinality(On(filp, nr)) = 0
    <3>1. On(filp, nr) = {}
      BY <2>2, OnIs DEF IInv, OpenIsPinned
    <3> QED  BY <3>1, FS_EmptySet
  <2>19. /\ filp' \in [Procs -> [Fds -> 0 .. NInodes]]
         /\ Cardinality(On(filp', nr)) <= 1
         /\ \A i \in Inodes \ {nr} : On(filp', i) = On(filp, i)
    <3>1. filp \in [Procs -> [Fds -> 0 .. NInodes]]
      BY DEF IInv, TypeOK
    <3>2. CASE rel.rc # 0
      <4>1. filp' = filp
        BY <2>1, <3>2
      <4>2. On(filp', nr) = On(filp, nr) /\ \A i \in Inodes : On(filp', i) = On(filp, i)
        BY <4>1
      <4>3. Cardinality(On(filp', nr)) = 0
        BY <2>18, <4>2
      <4> QED  BY <3>1, <4>1, <4>2, <4>3
    <3>3. CASE rel.rc = 0
      <4>1. Points(filp', filp, p, f, nr)
        BY <2>1, <3>3 DEF Points
      <4>2. /\ filp' \in [Procs -> [Fds -> 0 .. NInodes]]
            /\ Cardinality(On(filp', nr)) = Cardinality(On(filp, nr)) + 1
            /\ \A i \in Inodes \ {nr} : On(filp', i) = On(filp, i)
        BY <2>2, <2>3, <3>1, <4>1, Pointed
      <4> QED  BY <2>18, <4>2
    <3> QED  BY <3>2, <3>3
  <2>20. TypeOK'
    <3>1. dir' \in [Entries \cup {Behind} -> EntryType]
      BY <2>1, <2>8 DEF DirType, Slots
    <3>2. nent' \in 1 .. DirRoom /\ imap' \subseteq Inodes
      BY <2>1, <2>2, <2>7 DEF IInv, TypeOK
    <3> QED  BY <1>1, <2>1, <2>13, <2>16, <2>17, <2>19, <3>1, <3>2 DEF IInv, TypeOK
  <2>21. Fixed'
    <3>1. dir'[0].inode_nr = ROOT_INODE
      BY <2>5, <2>7, <2>9, Sizes DEF Slots, Entries
    <3> QED  BY <2>10, <2>13, <3>1, OwnersIn DEF IInv, Fixed
  <2>22. Blocks'
    BY <2>6, <2>11, <2>13, <2>14 DEF IInv, Blocks
  <2>23. MapsAgree'
    <3>1. imap' = Regular' \cup {ROOT_INODE, TTY_INODE}
      BY <2>1, <2>14 DEF IInv, MapsAgree
    <3>2. smap = {0} \cup UNION {BitsOf(i) : i \in Owners}
      BY DEF IInv, MapsAgree, Owners
    <3>3. smap' = {0} \cup UNION {BitsOf(i)' : i \in Owners'}
      BY <2>1, <2>14, <2>15, <3>2
    <3>4. smap' = {0} \cup BitsOf(ROOT_INODE)' \cup UNION {BitsOf(i)' : i \in Regular'}
      BY <3>3 DEF Owners
    <3>5. \A i \in Owners : BitsOf(i) \cap Extent(bit) = {}
      BY <1>3, <3>2 DEF bit
    <3>6. \A i, j_1 \in Owners : i # j_1 => BitsOf(i) \cap BitsOf(j_1) = {}
      BY DEF IInv, MapsAgree, Owners
    <3>7. \A i, j_1 \in Owners' : i # j_1 => BitsOf(i)' \cap BitsOf(j_1)' = {}
      BY <2>14, <2>15, <3>5, <3>6
    <3>8. ASSUME NEW k \in Entries, dir'[k].inode_nr # 0
          PROVE  /\ dir'[k].inode_nr \in imap'
                 /\ \A q \in Entries \ {k} : dir'[q].inode_nr # dir'[k].inode_nr
      <4>1. \A q \in Entries : dir[q].inode_nr # nr
        BY <2>2, <2>10 DEF IInv, MapsAgree
      <4>2. CASE k = slot
        BY <2>1, <2>9, <4>1, <4>2, SlotNumbers
      <4>3. CASE k # slot
        <5>1. dir'[k].inode_nr = dir[k].inode_nr
          BY <2>9, <4>3, SlotNumbers
        <5>2. dir[k].inode_nr \in imap
              /\ \A q \in Entries \ {k} : dir[q].inode_nr # dir[k].inode_nr
          BY <3>8, <5>1 DEF IInv, MapsAgree
        <5> QED  BY <2>1, <2>9, <4>1, <5>1, <5>2, SlotNumbers
      <4> QED  BY <4>2, <4>3
    <3> QED  BY <3>1, <3>4, <3>7, <3>8 DEF MapsAgree, Owners
  <2>24. OpenIsPinned'
    <3> SUFFICES ASSUME NEW i \in Inodes
                 PROVE  /\ Cardinality(On(filp', i)) <= cnt'[i]
                        /\ On(filp', i) # {} => i \in imap'
      BY DEF OpenIsPinned, OnInode, On
    <3>1. Cardinality(On(filp, i)) <= cnt[i] /\ (On(filp, i) # {} => i \in imap)
      BY OnIs DEF IInv, OpenIsPinned
    <3>2. CASE i = nr
      BY <2>1, <2>17, <2>19, <3>2
    <3>3. CASE i # nr
      BY <2>1, <2>17, <2>19, <3>1, <3>3
    <3> QED  BY <3>2, <3>3
  <2>25. Listed'
    <3> SUFFICES ASSUME NEW i \in Inodes
                 PROVE  /\ Cardinality(Lists(dir', i)) <= 1
                        /\ Lists(dir', i) # {} => i \in imap' \ {ROOT_INODE}
      BY DEF Listed
    <3>1. Cardinality(Lists(dir, i)) <= 1 /\ (Lists(dir, i) # {} => i \in imap \ {ROOT_INODE})
      BY DEF IInv, Listed
    <3>2. Lists(new.d, i) \subseteq Lists(dir, i)
      BY <2>7
    <3>3. CASE i # nr
      <4>1. Lists(dir', i) \subseteq Lists(dir, i)
        BY <2>1, <2>8, <3>2, <3>3
      <4>2. Cardinality(Lists(dir', i)) <= Cardinality(Lists(dir, i))
        BY <4>1, ListsFinite, FS_Subset
      <4> QED  BY <2>1, <3>1, <4>1, <4>2, ListsFinite
    <3>4. CASE i = nr
      <4>1. Lists(new.d, nr) = {}
        BY <2>2, <3>1, <3>2, <3>4
      <4>2. Lists(dir', nr) = {} \/ \E s : Lists(dir', nr) = {s}
        BY <2>1, <2>8, <4>1
      <4>3. Cardinality(Lists(dir', nr)) <= 1
        <5>1. \A s : Cardinality({s}) = 1
          BY FS_Singleton
        <5>2. Cardinality({}) = 0
          BY FS_EmptySet
        <5>3. CASE Lists(dir', nr) = {}
          BY <5>2, <5>3
        <5>4. ASSUME NEW s, Lists(dir', nr) = {s} PROVE Cardinality(Lists(dir', nr)) = 1
          BY <5>1, <5>4, Zenon
        <5> QED  BY <4>2, <5>3, <5>4
      <4>4. nr # ROOT_INODE
        BY <2>2 DEF IInv, MapsAgree
      <4> QED  BY <2>1, <3>4, <4>3, <4>4
    <3> QED  BY <3>3, <3>4
  <2>26. NoneLost
    BY <2>1, <2>2 DEF NoneLost
  <2> QED  BY <2>20, <2>21, <2>22, <2>23, <2>24, <2>25, <2>26 DEF IInv
<1> QED  BY <1>0, <1>2, <1>3 DEF CreateFile, Halt

LEMMA OpenCreateStep ==
    ASSUME IInv, NEW p \in Procs, NEW path, OpenCreate(p, path)
    PROVE  IInv' /\ NoneLost
<1>1. Changing /\ Counted
  BY DEF OpenCreate
<1>2. CASE DescriptorsFull(p)
  <2>1. fs' = "panic" /\ UNCHANGED <<disk, cnt, filp>>
    BY <1>2 DEF OpenCreate, Halt
  <2>2. NoneLost
    BY <2>1 DEF disk, NoneLost
  <2>3. changes' \in 0 .. MaxChanges
    BY <1>1, CountedIn DEF IInv
  <2> QED  BY <2>1, <2>2, <2>3, Stays
<1>3. CASE ~DescriptorsFull(p)
  BY <1>1, <1>3, CreateFileStep DEF OpenCreate
<1> QED  BY <1>2, <1>3

----------------------------------------------------------------------------
(* The theorems.                                                           *)

LEMMA IInvInit == Init => IInv
<1> SUFFICES ASSUME Init PROVE IInv
  OBVIOUS
<1> DEFINE root == [FreeEntry EXCEPT !.inode_nr = ROOT_INODE, !.name = strcpy(@, "."),
                                     !.child_inode[0] = TTY_INODE]
           tty == [FreeEntry EXCEPT !.inode_nr = TTY_INODE, !.name = strcpy(@, "dev_tty0")]
           N == NR_DEFAULT_FILE_SECTS
<1>1. \A k \in Slots : dir[k] = IF k = 0 THEN root ELSE IF k = 1 THEN tty ELSE FreeEntry
  BY DEF Init, Slots
<1>2. /\ strcpy(NoName, ".") \in
             [text : Names \cup NewNames \cup {"", ".", "dev_tty0"}, extent : Nat]
      /\ strcpy(NoName, "dev_tty0") \in
             [text : Names \cup NewNames \cup {"", ".", "dev_tty0"}, extent : Nat]
      /\ NoName \in [text : Names \cup NewNames \cup {"", ".", "dev_tty0"}, extent : Nat]
  <2>1. Len12(".") \in Nat /\ Len12("dev_tty0") \in Nat
    BY FsDirAssumption DEF Len12
  <2> QED  BY <2>1 DEF strcpy, NoName
<1>3. NoChild \in [Children -> 0 .. NInodes] /\ 0 \in Children /\ 0 \in 0 .. NInodes
      /\ ROOT_INODE \in 0 .. NInodes /\ TTY_INODE \in 0 .. NInodes
  BY Sizes DEF NoChild, INVALID_INODE, Children, ROOT_INODE, TTY_INODE
<1>4. FreeEntry \in EntryType /\ FreeEntry.inode_nr = 0 /\ FreeEntry.child_inode = NoChild
      /\ FreeEntry.name = NoName
  BY <1>2, <1>3 DEF FreeEntry, EntryType, INVALID_INODE
<1>5. tty \in EntryType /\ tty.inode_nr = TTY_INODE /\ tty.child_inode = NoChild
  BY <1>2, <1>3, <1>4 DEF EntryType
<1>6. root \in EntryType /\ root.inode_nr = ROOT_INODE
      /\ root.child_inode = [NoChild EXCEPT ![0] = TTY_INODE]
  <2> DEFINE ch == [NoChild EXCEPT ![0] = TTY_INODE]
             nm == strcpy(NoName, ".")
  <2>1. ch \in [Children -> 0 .. NInodes]
    BY <1>3
  <2>2. root = [FreeEntry EXCEPT !.inode_nr = ROOT_INODE, !.name = nm, !.child_inode = ch]
    BY <1>4
  <2> HIDE DEF root
  <2>3. root = [FreeEntry EXCEPT !.inode_nr = ROOT_INODE, !.name = nm, !.child_inode = ch]
    BY <2>2
  <2> HIDE DEF ch, nm
  <2>4. nm \in [text : Names \cup NewNames \cup {"", ".", "dev_tty0"}, extent : Nat]
    BY <1>2 DEF nm
  <2>5. root \in EntryType /\ root.inode_nr = ROOT_INODE /\ root.child_inode = ch
    BY <1>3, <1>4, <2>1, <2>3, <2>4 DEF EntryType
  <2> QED  BY <2>5 DEF ch
<1> HIDE DEF root, tty
<1>7. dir \in [Entries \cup {Behind} -> EntryType]
  <2>1. dir = [k \in Slots |-> dir[k]]
    BY DEF Init, Slots
  <2> QED  BY <1>1, <1>4, <1>5, <1>6, <2>1 DEF Slots
<1>8. ROOT_INODE \in Inodes /\ TTY_INODE \in Inodes /\ ROOT_INODE # TTY_INODE
  BY Sizes DEF Inodes, ROOT_INODE, TTY_INODE
<1>9. /\ inode \in [Inodes -> [i_mode : {"0", "I_REGULAR", "I_DIRECTORY", "I_CHAR_SPECIAL"},
                               i_start_sect : Nat, p_num : 0 .. NInodes]]
      /\ inode[ROOT_INODE].i_mode = "I_DIRECTORY" /\ inode[TTY_INODE].i_mode = "I_CHAR_SPECIAL"
      /\ inode[ROOT_INODE].i_start_sect = n_1st_sect
      /\ \A i \in Inodes : inode[i].i_mode # "I_REGULAR"
  BY <1>3, <1>8, Sizes DEF Init
<1>10. Regular = {} /\ Owners = {ROOT_INODE}
  BY <1>9 DEF Regular, Owners
<1>11. N \in Nat /\ 1 <= N /\ NInodes \in Nat /\ 2 <= NInodes /\ n_1st_sect \in Nat
  BY Sizes
<1>12. smap = 0 .. N /\ smap \subseteq Bits
  <2>1. N * 1 + N <= N * NInodes /\ N * 1 = N /\ N * NInodes \in Nat
    BY <1>11, NextFactor
  <2> QED  BY <1>11, <2>1 DEF Init, Bits
<1>13. BitsOf(ROOT_INODE) = 1 .. N
  BY <1>9, <1>11 DEF BitsOf, Extent
<1>14. TypeOK
  <2>1. nent \in 1 .. DirRoom /\ imap \subseteq Inodes
    BY <1>8, Sizes DEF Init
  <2>2. cnt \in [Inodes -> Nat] /\ filp \in [Procs -> [Fds -> 0 .. NInodes]]
    BY <1>3 DEF Init
  <2>3. fs \in {"run", "panic", "assert"} /\ changes \in 0 .. MaxChanges
    BY Sizes DEF Init
  <2> QED  BY <1>7, <1>9, <1>12, <2>1, <2>2, <2>3 DEF TypeOK
<1>15. Fixed
  BY <1>1, <1>6, <1>9, Sizes DEF Fixed, Slots, Entries
<1>16. Blocks
  <2>1. N * 0 = 0
    BY <1>11
  <2>2. inode[ROOT_INODE].i_start_sect = n_1st_sect + N * 0
    BY <1>9, <1>11, <2>1
  <2> QED  BY <1>10, <2>2 DEF Blocks
<1>17. MapsAgree
  <2>1. imap = Regular \cup {ROOT_INODE, TTY_INODE}
    BY <1>10 DEF Init
  <2>2. smap = {0} \cup BitsOf(ROOT_INODE) \cup UNION {BitsOf(i) : i \in Regular}
    BY <1>10, <1>11, <1>12, <1>13
  <2>3. \A i, j \in Regular \cup {ROOT_INODE} : i # j => BitsOf(i) \cap BitsOf(j) = {}
    BY <1>10
  <2>4. \A k \in Entries : dir[k].inode_nr =
            IF k = 0 THEN ROOT_INODE ELSE IF k = 1 THEN TTY_INODE ELSE 0
    BY <1>1, <1>4, <1>5, <1>6, SlotNumbers
  <2>5. ROOT_INODE \in imap /\ TTY_INODE \in imap
    BY DEF Init
  <2>6. \A k \in Entries : dir[k].inode_nr # 0 =>
            /\ dir[k].inode_nr \in imap
            /\ \A j \in Entries \ {k} : dir[j].inode_nr # dir[k].inode_nr
    BY <1>8, <2>4, <2>5
  <2> QED  BY <2>1, <2>2, <2>3, <2>6 DEF MapsAgree
<1>18. OpenIsPinned
  <2>1. ASSUME NEW i \in Inodes PROVE OnInode(i) = {} /\ Cardinality(OnInode(i)) = 0
    <3>1. i # 0
      BY Sizes DEF Inodes
    <3>2. OnInode(i) = {}
      BY <3>1 DEF OnInode, Init
    <3> QED  BY <3>2, FS_EmptySet
  <2>2. \A i \in Inodes : cnt[i] >= 0
    BY DEF Init
  <2> QED  BY <2>1, <2>2 DEF OpenIsPinned
<1>19. Listed
  <2> SUFFICES ASSUME NEW i \in Inodes
               PROVE  /\ Cardinality(Lists(dir, i)) <= 1
                      /\ Lists(dir, i) # {} => i \in imap \ {ROOT_INODE}
    BY DEF Listed
  <2>1. i # 0 /\ 0 \in Slots /\ 0 \in Children
    BY <1>3, Sizes DEF Inodes, Slots, Entries
  <2>2. \A k \in Slots, l \in Children :
            dir[k].child_inode[l] = IF k = 0 /\ l = 0 THEN TTY_INODE ELSE 0
    <3>1. \A l \in Children : NoChild[l] = 0
      BY DEF NoChild, INVALID_INODE
    <3>2. \A l \in Children : [NoChild EXCEPT ![0] = TTY_INODE][l] = IF l = 0 THEN TTY_INODE ELSE 0
      BY <1>3, <3>1
    <3>3. \A k \in Slots : dir[k].child_inode =
              IF k = 0 THEN [NoChild EXCEPT ![0] = TTY_INODE] ELSE NoChild
      BY <1>1, <1>4, <1>5, <1>6
    <3>4. ASSUME NEW k \in Slots, NEW l \in Children
          PROVE  dir[k].child_inode[l] = IF k = 0 /\ l = 0 THEN TTY_INODE ELSE 0
      <4>1. CASE k = 0
        BY <3>2, <3>3, <4>1
      <4>2. CASE k # 0
        BY <3>1, <3>3, <4>2
      <4> QED  BY <4>1, <4>2
    <3> QED  BY <3>4
  <2>3. CASE i = TTY_INODE
    <3>1. Lists(dir, i) = {<<0, 0>>}
      BY <2>1, <2>2, <2>3 DEF Lists
    <3>2. Cardinality({<<0, 0>>}) = 1
      BY FS_Singleton
    <3>3. TTY_INODE \in imap \ {ROOT_INODE}
      BY <1>8 DEF Init
    <3> QED  BY <2>3, <3>1, <3>2, <3>3
  <2>4. CASE i # TTY_INODE
    <3>1. Lists(dir, i) = {}
      BY <2>1, <2>2, <2>4 DEF Lists
    <3> QED  BY <3>1, FS_EmptySet
  <2> QED  BY <2>3, <2>4
<1> QED  BY <1>14, <1>15, <1>16, <1>17, <1>18, <1>19 DEF IInv

LEMMA IInvStep ==
    ASSUME IInv, [Next]_vars
    PROVE  IInv' /\ (NoneLost \/ UNCHANGED vars)
<1>1. CASE UNCHANGED vars
  <2>1. fs' \in {"run", "panic", "assert"} /\ changes' \in 0 .. MaxChanges
    BY <1>1 DEF vars, IInv, TypeOK
  <2>2. UNCHANGED <<disk, cnt, filp>>
    BY <1>1 DEF vars
  <2> QED  BY <1>1, <2>1, <2>2, Stays
<1>2. ASSUME NEW p \in Procs, NEW path \in Paths, OpenCreate(p, path)
      PROVE  IInv' /\ NoneLost
  BY <1>2, OpenCreateStep
<1>3. ASSUME NEW p \in Procs, NEW path \in Paths, OpenExisting(p, path)
      PROVE  IInv' /\ NoneLost
  BY <1>3, OpenExistingStep
<1>4. ASSUME NEW p \in Procs, NEW fd \in Fds, DoClose(p, fd)
      PROVE  IInv' /\ NoneLost
  BY <1>4, DoCloseStep
<1>5. ASSUME NEW path \in Paths, DoUnlink(path)
      PROVE  IInv' /\ NoneLost
  BY <1>5, DoUnlinkStep
<1>6. ASSUME NEW p \in Procs, NEW fd \in Fds, NEW target_fd \in Fds, DoMove(p, fd, target_fd)
      PROVE  IInv' /\ NoneLost
  BY <1>6, DoMoveStep
<1>7. ASSUME NEW p \in Procs, NEW fd \in Fds, NEW name \in NewNames, DoRename(p, fd, name)
      PROVE  IInv' /\ NoneLost
  BY <1>7, DoRenameStep
<1>8. ASSUME NEW p \in Procs, NEW fd \in Fds, NEW type \in BOOLEAN, DoChangeType(p, fd, type)
      PROVE  IInv' /\ NoneLost
  BY <1>8, DoChangeTypeStep
<1> QED  BY <1>1, <1>2, <1>3, <1>4, <1>5, <1>6, <1>7, <1>8 DEF Next

\* The invariant holds of every reachable state.
LEMMA Invariant == Spec => []IInv
<1>1. Init => IInv
  BY IInvInit
<1>2. IInv /\ [Next]_vars => IInv'
  BY IInvStep
<1> QED  BY <1>1, <1>2, PTL DEF Spec

\* Every variable keeps its type: the directory stays in its sector and never
\* loses its first entry, no reference count goes below zero and no sector
\* behind the map is given away (open.c:create_file, link.c:do_unlink).
THEOREM TypeCorrect == Spec => []TypeOK
<1>1. IInv => TypeOK
  BY DEF IInv
<1> QED  BY <1>1, Invariant, PTL

\* No slot of inode_table[] is given away under a descriptor and no file is
\* removed while a process has it open (main.c:put_inode, link.c:do_unlink).
THEOREM OpenStaysPinned == Spec => []OpenIsPinned
<1>1. IInv => OpenIsPinned
  BY DEF IInv
<1> QED  BY <1>1, Invariant, PTL

\* The inode map, the sector map, the inodes and the entries tell the same
\* story after any sequence of requests (open.c:alloc_imap_bit,
\* alloc_smap_bit, new_dir_entry, link.c:do_unlink).
THEOREM MapsStayAgreed == Spec => []MapsAgree
<1>1. IInv => MapsAgree
  BY DEF IInv
<1> QED  BY <1>1, Invariant, PTL

\* No file ever has two parents (entry.c:make_relat, delete_relat, move_relat).
THEOREM AtMostOneParent == Spec => []OneParent
<1>1. IInv => OneParent
  <2> SUFFICES ASSUME IInv, NEW i \in Inodes PROVE Cardinality(Listings(i)) <= 1
    BY DEF OneParent
  <2>1. Listings(i) = Lists(dir, i)
    BY ListingsAre DEF IInv
  <2> QED  BY <2>1 DEF IInv, Listed
<1> QED  BY <1>1, Invariant, PTL

\* No move, roll-back, rename or close drops a file from the tree or puts it
\* there twice (entry.c:move_relat).
THEOREM MoveNeverLoses == Spec => MoveKeeps
<1>1. IInv /\ IInv' /\ [Next]_vars =>
          [imap' = imap /\ dir' # dir =>
             \A i \in Inodes : Cardinality(Listings(i)) = Cardinality(Listings(i)')]_vars
  <2> SUFFICES ASSUME IInv, IInv', [Next]_vars, ~ UNCHANGED vars,
                      imap' = imap, dir' # dir, NEW i \in Inodes
               PROVE  Cardinality(Listings(i)) = Cardinality(Listings(i)')
    OBVIOUS
  <2>1. NoneLost
    BY IInvStep
  <2>2. Cardinality(Lists(dir', i)) = Cardinality(Lists(dir, i))
    BY <2>1 DEF NoneLost
  <2>3. Listings(i) = Lists(dir, i)
    BY ListingsAre DEF IInv
  <2>4. Listings(i)' = Lists(dir', i)
    <3>1. DOMAIN dir' = Slots
      BY DEF IInv, TypeOK, Slots
    <3> QED  BY <3>1 DEF Listings, Lists
  <2> QED  BY <2>2, <2>3, <2>4
<1> QED  BY <1>1, Invariant, PTL DEF Spec, MoveKeeps

----------------------------------------------------------------------------
(* The answers of FsQuery.  What it computes in rounds is a function that  *)
(* exists by induction on the rounds, and what it holds of is shown by     *)
(* induction again.                                                        *)

\* Induction over 0 .. n, for a set of numbers.
LEMMA Upwards ==
    ASSUME NEW n \in Nat, NEW T, 0 \in T, \A d \in 1 .. n : d - 1 \in T => d \in T
    PROVE  \A d \in 0 .. n : d \in T
<1> DEFINE R == {d \in 0 .. n : d \notin T}
<1> SUFFICES ASSUME R # {} PROVE FALSE
  OBVIOUS
<1>1. R \subseteq Nat
  OBVIOUS
<1>2. PICK r \in R : \A d \in R : r <= d
  <2>1. Min(R) \in R /\ \A d \in R : Min(R) <= d
    BY <1>1, MinIn
  <2> QED  BY <2>1
<1>3. r \in 1 .. n /\ r - 1 \in 0 .. n /\ r \notin T
  BY <1>2
<1>4. r - 1 \notin R
  <2> HIDE DEF R
  <2> QED  BY <1>2, <1>3
<1> QED  BY <1>3, <1>4

\* A function computed in n rounds: the first value, and each from the one before.
Steps(n, S, G) == \A d \in 1 .. n : G[d] \in [S -> S]
IsRun(f, n, S, a, G) ==
    f \in [0 .. n -> S] /\ f[0] = a /\ \A d \in 1 .. n : f[d] = G[d][f[d - 1]]

LEMMA Rounds ==
    ASSUME NEW n \in Nat, NEW S, NEW a \in S, NEW G, Steps(n, S, G)
    PROVE  \E f : IsRun(f, n, S, a, G)
<1>0. \A d \in 1 .. n : G[d] \in [S -> S]
  BY DEF Steps
<1> DEFINE Upto(k) == \E f \in [0 .. k -> S] : f[0] = a /\ \A d \in 1 .. k : f[d] = G[d][f[d - 1]]
           T == {k \in 0 .. n : Upto(k)}
<1>1. Upto(0)
  <2> DEFINE f == [d \in 0 .. 0 |-> a]
  <2>1. f \in [0 .. 0 -> S] /\ f[0] = a
    OBVIOUS
  <2>2. 1 .. 0 = {}
    OBVIOUS
  <2> HIDE DEF f
  <2> QED  BY <2>1, <2>2
<1>2. ASSUME NEW k \in 1 .. n, Upto(k - 1) PROVE Upto(k)
  <2>1. PICK f \in [0 .. k - 1 -> S] : f[0] = a /\ \A d \in 1 .. k - 1 : f[d] = G[d][f[d - 1]]
    BY <1>2
  <2> DEFINE g == [d \in 0 .. k |-> IF d = k THEN G[k][f[k - 1]] ELSE f[d]]
  <2>2. G[k][f[k - 1]] \in S
    BY <1>0, <2>1
  <2>3. g \in [0 .. k -> S] /\ g[0] = a
    BY <2>1, <2>2
  <2>4. ASSUME NEW d \in 1 .. k PROVE g[d] = G[d][g[d - 1]]
    BY <2>1
  <2> HIDE DEF g
  <2> QED  BY <2>3, <2>4
<1> HIDE DEF Upto
<1>3. 0 \in T /\ \A d \in 1 .. n : d - 1 \in T => d \in T
  BY <1>1, <1>2
<1> HIDE DEF T
<1>4. \A d \in 0 .. n : d \in T
  BY <1>3, Upwards
<1>5. Upto(n)
  BY <1>4 DEF T
<1> QED  BY <1>5 DEF Upto, IsRun

LEMMA WayIs ==
    ASSUME TypeOK, NEW nr \in Inodes
    PROVE  /\ Way(nr)[0] = nr
           /\ \A d \in 1 .. NInodes : Way(nr)[d] = Parent(Way(nr)[d - 1])
<1> DEFINE S == 0 .. NInodes
           G == [d \in 1 .. NInodes |-> [i \in S |-> Parent(i)]]
<1>0. NInodes \in Nat /\ nr \in S
  BY FsDirAssumption DEF Inodes
<1>1. \A i \in S : Parent(i) \in S
  BY DEF Parent, InTable, TypeOK
<1>2. Steps(NInodes, S, G)
  BY <1>1 DEF Steps
<1> HIDE DEF G, S
<1>a. PICK f : IsRun(f, NInodes, S, nr, G)
  BY <1>0, <1>2, Rounds
<1>3. f \in [0 .. NInodes -> S] /\ f[0] = nr /\ \A d \in 1 .. NInodes : f[d] = G[d][f[d - 1]]
  BY <1>a DEF IsRun
<1>4. ASSUME NEW d \in 1 .. NInodes PROVE d - 1 \in 0 .. NInodes /\ f[d] = Parent(f[d - 1])
  <2>1. d - 1 \in 0 .. NInodes /\ f[d - 1] \in S /\ f[d] = G[d][f[d - 1]]
    BY <1>0, <1>3
  <2>2. \A i \in S : G[d][i] = Parent(i)
    BY DEF G
  <2> QED  BY <2>1, <2>2
<1>5. f = [d \in 0 .. NInodes |-> IF d = 0 THEN nr ELSE Parent(f[d - 1])]
  <2>2. \A d \in 0 .. NInodes : f[d] = IF d = 0 THEN nr ELSE Parent(f[d - 1])
    BY <1>0, <1>3, <1>4
  <2> QED  BY <2>2, <1>3
<1>6. Way(nr) = [d \in 0 .. NInodes |-> IF d = 0 THEN nr ELSE Parent(Way(nr)[d - 1])]
  BY <1>5 DEF Way
<1> DEFINE w == Way(nr)
<1>7. w = [d \in 0 .. NInodes |-> IF d = 0 THEN nr ELSE Parent(w[d - 1])]
  BY <1>6
<1>8. w[0] = nr /\ \A d \in 1 .. NInodes : w[d] = Parent(w[d - 1])
  <2> HIDE DEF w
  <2> QED  BY <1>0, <1>7
<1> QED  BY <1>8

----------------------------------------------------------------------------
(* Entries, children and the way up.                                       *)

LEMMA EntryIs ==
    ASSUME IInv, QueryGoesOn, NEW i \in Inodes
    PROVE  /\ HasEntry(i) => Entry(i) \in Entries /\ dir[Entry(i)].inode_nr = i
           /\ \A k \in Entries : dir[k].inode_nr = i => HasEntry(i) /\ k = Entry(i)
<1> DEFINE H == Numbered(dir, nent, i)
<1>1. Scanned(nent) = Entries
  <2>1. Min({nent, DirRoom - 1}) \in {nent, DirRoom - 1} /\ Min({nent, DirRoom - 1}) <= DirRoom - 1
    BY Sizes, MinIn DEF QueryGoesOn
  <2>2. Min({nent, DirRoom - 1}) = DirRoom - 1
    BY <2>1, Sizes DEF QueryGoesOn
  <2> QED  BY <2>2 DEF Scanned, Entries
<1>2. H = {k \in Entries : dir[k].inode_nr = i}
  BY <1>1 DEF Numbered
<1>3. H # {} => Max(H) \in H
  <2>1. DirRoom - 1 \in Nat /\ H \subseteq 0 .. DirRoom - 1
    BY <1>2, Sizes DEF Entries
  <2> QED  BY <2>1, MaxIn
<1>4. i # 0
  BY Sizes DEF Inodes
<1>5. \A k, j \in H : j = k
  BY <1>2, <1>4 DEF IInv, MapsAgree
<1> QED  BY <1>2, <1>3, <1>5 DEF HasEntry, Entry

\* A file is listed in one child slot at most, and the root in none.
LEMMA OneSlot ==
    ASSUME IInv, NEW i \in Inodes, NEW k \in Entries, NEW j \in Entries,
           NEW l \in Children, NEW m \in Children,
           dir[k].child_inode[l] = i, dir[j].child_inode[m] = i
    PROVE  k = j /\ l = m /\ i # ROOT_INODE
<1>1. <<k, l>> \in Lists(dir, i) /\ <<j, m>> \in Lists(dir, i)
  BY SlotNumbers DEF Lists
<1>2. Cardinality(Lists(dir, i)) <= 1 /\ i # ROOT_INODE
  BY <1>1 DEF IInv, Listed
<1>3. <<k, l>> = <<j, m>>
  <2>1. Cardinality(Lists(dir, i)) = 1
    BY <1>1, <1>2, ListsFinite, FS_EmptySet
  <2> QED  BY <1>1, <2>1, ListsFinite, FS_Singleton
<1> QED  BY <1>2, <1>3

LEMMA KidsAre ==
    ASSUME IInv, QueryGoesOn, NEW j \in Inodes, NEW i \in Kids(j)
    PROVE  /\ i \in Inodes \ {ROOT_INODE} /\ HasEntry(j) /\ Entry(j) \in Entries
           /\ HasChild(Entry(j), i) /\ dir[Entry(j)].inode_nr = j
           /\ \A k \in Entries : HasChild(k, i) => k = Entry(j)
           /\ \A m \in Inodes : i \in Kids(m) => m = j
<1>1. i \in Inodes /\ HasEntry(j) /\ HasChild(Entry(j), i)
  BY DEF Kids
<1>2. Entry(j) \in Entries /\ dir[Entry(j)].inode_nr = j
  BY <1>1, EntryIs
<1>3. \A k \in Entries : HasChild(k, i) => k = Entry(j) /\ i # ROOT_INODE
  BY <1>1, <1>2, OneSlot DEF HasChild
<1>4. ASSUME NEW m \in Inodes, i \in Kids(m) PROVE m = j
  <2>1. HasEntry(m) /\ HasChild(Entry(m), i)
    BY <1>4 DEF Kids
  <2>2. Entry(m) \in Entries /\ dir[Entry(m)].inode_nr = m
    BY <2>1, EntryIs
  <2> QED  BY <1>2, <1>3, <2>1, <2>2
<1> QED  BY <1>1, <1>2, <1>3, <1>4

\* The way of a settled file leads to the root, each time to the file that
\* lists the one before.
LEMMA WayUp ==
    ASSUME IInv, QueryGoesOn, NEW nr \in Inodes, Settled(nr)
    PROVE  /\ Depth(nr) \in 1 .. NInodes /\ Way(nr)[0] = nr /\ Way(nr)[Depth(nr)] = ROOT_INODE
           /\ \A d \in 0 .. Depth(nr) : Way(nr)[d] \in Inodes
           /\ \A d \in 0 .. Depth(nr) - 1 :
                  /\ Way(nr)[d] # ROOT_INODE /\ Way(nr)[d + 1] = inode[Way(nr)[d]].p_num
                  /\ Way(nr)[d] \in Kids(Way(nr)[d + 1])
<1> DEFINE w == Way(nr)
           D == Depth(nr)
           R == {d \in 0 .. NInodes : w[d] = ROOT_INODE}
<1>1. w[0] = nr /\ \A d \in 1 .. NInodes : w[d] = Parent(w[d - 1])
  BY WayIs DEF IInv
<1>2. D \in R /\ \A d \in R : D <= d
  <2>1. NInodes \in R /\ R \subseteq Nat
    BY Sizes DEF Settled
  <2> QED  BY <2>1, MinIn DEF Depth
<1>3. nr # ROOT_INODE
  BY DEF Settled, IInv, Fixed
<1>4. D \in 1 .. NInodes /\ w[D] = ROOT_INODE
  <2> HIDE DEF w, D
  <2> QED  BY <1>1, <1>2, <1>3, Sizes
<1>5. ASSUME NEW d \in 0 .. D - 1 PROVE w[d] # ROOT_INODE
  <2> HIDE DEF w, D
  <2> QED  BY <1>2, <1>4, Sizes
<1>6. ASSUME NEW d \in 0 .. D - 1 PROVE InTable(w[d])
  <2> SUFFICES ASSUME ~InTable(w[d]) PROVE FALSE
    OBVIOUS
  <2> DEFINE T == {e \in 0 .. D : e >= d /\ w[e] # w[d]}
  <2>1. D \in T
    <3> HIDE DEF w, D
    <3> QED  BY <1>4, <1>5
  <2>2. Min(T) \in T /\ \A e \in T : Min(T) <= e
    <3>1. T \subseteq Nat
      OBVIOUS
    <3> QED  BY <2>1, <3>1, MinIn
  <2>3. PICK t \in T : \A e \in T : t <= e
    BY <2>2
  <2>4. t \in 1 .. D /\ t - 1 \in 0 .. D /\ t - 1 >= d /\ t - 1 \notin T
    <3>1. t \in 0 .. D /\ t >= d /\ t # d /\ D \in Nat /\ d \in Nat
      <4> HIDE DEF w, D
      <4> QED  BY <1>4
    <3>2. t - 1 \notin T
      <4> HIDE DEF T, w, D
      <4> QED  BY <2>3, <3>1
    <3> HIDE DEF T, w, D
    <3> QED  BY <3>1, <3>2
  <2>5. w[t - 1] = w[d]
    BY <2>4
  <2>6. w[t] = Parent(w[t - 1])
    <3> HIDE DEF T, w, D
    <3> QED  BY <1>1, <1>4, <2>4, Sizes
  <2>7. w[t] = w[d]
    BY <2>5, <2>6 DEF Parent
  <2> QED  BY <2>3, <2>7
<1>7. ASSUME NEW d \in 0 .. D - 1 PROVE w[d] \in Inodes /\ w[d + 1] = inode[w[d]].p_num
  <2>1. InTable(w[d]) /\ w[d] # ROOT_INODE
    BY <1>5, <1>6
  <2>2. w[d + 1] = Parent(w[d])
    <3> HIDE DEF w, D
    <3>1. d + 1 \in 1 .. NInodes /\ (d + 1) - 1 = d
      BY <1>4, Sizes
    <3> QED  BY <1>1, <3>1
  <2> QED  BY <2>1, <2>2 DEF Parent, InTable
<1>8. \A d \in 0 .. D : w[d] \in Inodes
  <2>1. ROOT_INODE \in Inodes
    BY Sizes DEF Inodes, ROOT_INODE
  <2> HIDE DEF w, D
  <2> QED  BY <1>4, <1>7, <2>1
<1>9. ASSUME NEW d \in 0 .. D - 1 PROVE w[d] \in Kids(w[d + 1])
  <2> DEFINE x == D - d
  <2>1. x \in 1 .. D /\ D - x = d
    <3> HIDE DEF w, D
    <3> QED  BY <1>4
  <2>2. FoldersOf(nr)[x] = w[d]
    <3>1. FoldersOf(nr) = [e \in 1 .. D |-> w[D - e]]
      BY DEF FoldersOf
    <3> HIDE DEF x, w, D
    <3> QED  BY <2>1, <3>1
  <2>3. \A e \in 1 .. D :
            LET i == FoldersOf(nr)[e]
            IN  HasEntry(inode[i].p_num) /\ HasChild(Entry(inode[i].p_num), i)
    BY DEF Settled
  <2>4. HasEntry(w[d + 1]) /\ HasChild(Entry(w[d + 1]), w[d])
    <3> HIDE DEF x, w, D
    <3> QED  BY <1>7, <2>1, <2>2, <2>3
  <2> QED  BY <1>7, <2>4 DEF Kids
<1> QED  BY <1>1, <1>4, <1>5, <1>7, <1>8, <1>9
----------------------------------------------------------------------------
(* The path: every round puts the next folder of the way in front.         *)

\* get_path after the first j folders and names: j - 1 folders are in front.
Stage(nr, j, m) == [nr |-> Way(nr)[j - 1], path |-> [x \in 1 .. j |-> Way(nr)[j - x]], m |-> m]
Stages(nr, J) == {Stage(nr, j, m) : j \in J, m \in Nat}

LEMMA OneFolderMore ==
    ASSUME IInv, QueryGoesOn, NEW nr \in Inodes, Settled(nr),
           NEW j \in 1 .. Depth(nr), NEW m \in Nat
    PROVE  LET s == Stage(nr, j, m)
           IN  /\ \/ Climbed(s) = s
                  \/ j < Depth(nr) /\ \E x \in Nat : Climbed(s) = Stage(nr, j + 1, x)
               /\ (j < Depth(nr) /\ m = 0) => Climbed(s) # s
<1> DEFINE s == Stage(nr, j, m)
           w == Way(nr)
           D == Depth(nr)
           k == Min(Listing(s))
           i == w[j - 1]
           p == w[j]
<1>1. /\ D \in 1 .. NInodes /\ w[D] = ROOT_INODE /\ D \in Nat
      /\ \A d \in 0 .. D : w[d] \in Inodes
      /\ \A d \in 0 .. D - 1 : w[d] # ROOT_INODE /\ w[d] \in Kids(w[d + 1])
  <2>1. D \in 1 .. NInodes /\ NInodes \in Nat
    BY WayUp, Sizes
  <2> QED  BY <2>1, WayUp
<1>2. /\ s.nr = i /\ s.m = m /\ s.path = [x \in 1 .. j |-> w[j - x]]
  BY DEF Stage
<1>3. i \in Inodes /\ p \in Inodes /\ i \in Kids(p)
      /\ (p = ROOT_INODE <=> j = D)
  <2>1. j - 1 \in 0 .. D - 1 /\ j - 1 \in 0 .. D /\ j \in 0 .. D /\ (j - 1) + 1 = j
    BY <1>1
  <2>2. j # D => j \in 0 .. D - 1
    BY <1>1
  <2> HIDE DEF w, D
  <2> QED  BY <1>1, <2>1, <2>2
<1> HIDE DEF w, D, s
<1>4. /\ Entry(p) \in Entries /\ dir[Entry(p)].inode_nr = p /\ HasChild(Entry(p), i)
      /\ \A x \in Entries : HasChild(x, i) => x = Entry(p)
  BY <1>3, KidsAre
<1>5. Listing(s) = {x \in Entries : x + m <= nent /\ dir[x].inode_nr # ROOT_INODE /\ HasChild(x, i)}
  BY <1>2 DEF Listing
<1>6. Listing(s) # {} => k = Entry(p) /\ k \in Nat /\ j < D
  <2>1. Listing(s) \subseteq {Entry(p)} /\ (Listing(s) # {} => p # ROOT_INODE)
    BY <1>4, <1>5
  <2>2. Listing(s) \subseteq Nat /\ Entry(p) \in Nat
    BY <1>4, <1>5, SlotNumbers
  <2>3. Listing(s) # {} => k \in Listing(s)
    BY <2>2, MinIn
  <2>4. j < D \/ j = D
    BY <1>1 DEF D
  <2> QED  BY <1>3, <2>1, <2>2, <2>3, <2>4
<1>7. i # 0
  BY <1>3, Sizes DEF Inodes
<1> DEFINE stays == s.m > nent \/ s.nr = 0 \/ Listing(s) = {}
           next == [nr |-> dir[k].inode_nr, path |-> <<dir[k].inode_nr>> \o s.path,
                    m |-> s.m + k + 1]
<1>8. Climbed(s) = IF stays THEN s ELSE next
  BY DEF Climbed
<1>9. CASE stays
  <2>1. ASSUME j < D, m = 0 PROVE FALSE
    <3>1. ~ (s.m > nent) /\ nent = DirRoom
      BY <1>2, <2>1, Sizes DEF QueryGoesOn
    <3>2. Entry(p) + m <= nent
      BY <1>4, <2>1, <3>1, Sizes DEF Entries
    <3>3. p # ROOT_INODE
      BY <1>1, <1>3, <2>1
    <3>4. Entry(p) \in Listing(s)
      BY <1>4, <1>5, <3>2, <3>3
    <3> QED  BY <1>2, <1>7, <1>9, <3>1, <3>4
  <2> QED  BY <1>8, <1>9, <2>1 DEF D, s
<1>10. CASE ~ stays
  <2>1. k = Entry(p) /\ k \in Nat /\ j < D
    BY <1>6, <1>10
  <2>2. next.nr = p /\ next.m = m + k + 1 /\ m + k + 1 \in Nat
    BY <1>2, <1>4, <2>1
  <2>3. next.path = [x \in 1 .. j + 1 |-> w[(j + 1) - x]]
    <3> DEFINE f == [x \in 1 .. j |-> w[j - x]]
    <3>1. next.path = <<p>> \o f
      BY <1>2, <1>4, <2>1
    <3>2. j \in Nat /\ j >= 1
      OBVIOUS
    <3>a. \A x \in 1 .. j : w[j - x] \in Inodes
      <4>1. \A x \in 1 .. j : j - x \in 0 .. D
        BY <1>1, <3>2 DEF D
      <4> QED  BY <1>1, <4>1
    <3>4. f \in [1 .. j -> Inodes] /\ \A x \in 1 .. j : f[x] = w[j - x]
      BY <3>a
    <3> HIDE DEF f
    <3>3. f \in Seq(Inodes) /\ Len(f) = j
      BY <3>2, <3>4
    <3>5. <<p>> \o f = [x \in 1 .. 1 + j |-> IF x <= 1 THEN p ELSE f[x - 1]]
      BY <3>2, <3>3
    <3>6. ASSUME NEW x \in 1 .. j + 1
          PROVE  (IF x <= 1 THEN p ELSE f[x - 1]) = w[(j + 1) - x]
      <4>1. CASE x = 1
        BY <3>2, <4>1
      <4>2. CASE x # 1
        <5>1. x - 1 \in 1 .. j /\ j - (x - 1) = (j + 1) - x /\ ~ (x <= 1)
          BY <3>2, <4>2
        <5> QED  BY <3>4, <5>1
      <4> QED  BY <4>1, <4>2
    <3>7. 1 + j = j + 1
      BY <3>2
    <3> QED  BY <3>1, <3>5, <3>6, <3>7
  <2>4. next = Stage(nr, j + 1, m + k + 1)
    <3>1. (j + 1) - 1 = j
      OBVIOUS
    <3>2. Stage(nr, j + 1, m + k + 1) =
              [nr |-> w[j], path |-> [x \in 1 .. j + 1 |-> w[(j + 1) - x]], m |-> m + k + 1]
      BY <3>1 DEF Stage, w
    <3>3. next = [nr |-> next.nr, path |-> next.path, m |-> next.m]
      OBVIOUS
    <3> HIDE DEF next
    <3> QED  BY <2>2, <2>3, <3>2, <3>3
  <2>5. Climbed(s) # s
    <3>1. s.m # m + k + 1
      BY <1>2, <2>1
    <3> QED  BY <1>8, <1>10, <2>2, <3>1
  <2> HIDE DEF next, stays
  <2> QED  BY <1>8, <1>10, <2>1, <2>2, <2>4, <2>5 DEF D, s
<1> QED  BY <1>9, <1>10
\* What get_path answers about a settled file.
LEMMA PathIs ==
    ASSUME IInv, QueryGoesOn, NEW nr \in Inodes, Settled(nr)
    PROVE  /\ \E d \in 0 .. Depth(nr) - 1 : get_path(nr) = SubSeq(FoldersOf(nr), d + 1, Depth(nr))
           /\ Depth(nr) <= 2 => get_path(nr) = FoldersOf(nr)
<1> DEFINE w == Way(nr)
           D == Depth(nr)
           n == DirRoom + 1
           S == Stages(nr, 1 .. D)
           G == [d \in 1 .. n |-> [s \in S |-> Climbed(s)]]
           first == [nr |-> nr, path |-> OwnName(nr), m |-> 0]
           at == Climb(first)
           folders == [x \in 1 .. D |-> w[D - x]]
<1>1. /\ D \in 1 .. NInodes /\ D \in Nat /\ D >= 1 /\ n \in Nat /\ n >= 1
      /\ w[0] = nr /\ \A d \in 0 .. D : w[d] \in Inodes
  <2>1. D \in 1 .. NInodes /\ NInodes \in Nat
    BY WayUp, Sizes
  <2> HIDE DEF D, w
  <2>2. D \in Nat /\ D >= 1 /\ n \in Nat /\ n >= 1
    BY <2>1, Sizes
  <2> QED  BY <2>1, <2>2, WayUp DEF D, w
<1>2. first = Stage(nr, 1, 0)
  <2>1. OwnName(nr) = <<nr>>
    BY DEF OwnName, Settled
  <2>2. [x \in 1 .. 1 |-> w[1 - x]] = <<nr>>
    <3>1. w[1 - 1] = nr
      BY <1>1
    <3> HIDE DEF w
    <3>2. \A x \in 1 .. 1 : w[1 - x] = nr
      BY <3>1
    <3> QED  BY <3>2
  <2>3. w[1 - 1] = nr
    BY <1>1
  <2> QED  BY <2>1, <2>2, <2>3 DEF Stage
<1> HIDE DEF D
<1>3. first \in S
  BY <1>1, <1>2 DEF Stages
<1>4. ASSUME NEW s \in S PROVE Climbed(s) \in S
  <2>1. PICK j \in 1 .. D, m \in Nat : s = Stage(nr, j, m)
    BY DEF Stages
  <2>2. Climbed(s) = s \/ (j < D /\ \E x \in Nat : Climbed(s) = Stage(nr, j + 1, x))
    BY <2>1, OneFolderMore DEF D
  <2>3. j < D => j + 1 \in 1 .. D
    BY <1>1
  <2> QED  BY <2>2, <2>3 DEF Stages
<1> HIDE DEF S, first
<1>5. Steps(n, S, G)
  BY <1>4 DEF Steps
<1> HIDE DEF n, G
<1>6. PICK f : IsRun(f, n, S, first, G)
  BY <1>1, <1>3, <1>5, Rounds
<1>7. f \in [0 .. n -> S] /\ f[0] = first /\ \A d \in 1 .. n : f[d] = Climbed(f[d - 1])
  <2>1. f \in [0 .. n -> S] /\ f[0] = first /\ \A d \in 1 .. n : f[d] = G[d][f[d - 1]]
    BY <1>6 DEF IsRun
  <2>2. \A d \in 1 .. n : d - 1 \in 0 .. n /\ f[d - 1] \in S
    BY <1>1, <2>1
  <2>3. \A d \in 1 .. n : \A s \in S : G[d][s] = Climbed(s)
    BY DEF G
  <2> QED  BY <2>1, <2>2, <2>3
<1>8. f = [d \in 0 .. n |-> IF d = 0 THEN first ELSE Climbed(f[d - 1])]
  <2>1. \A d \in 0 .. n : f[d] = IF d = 0 THEN first ELSE Climbed(f[d - 1])
    BY <1>1, <1>7
  <2> QED  BY <1>7, <2>1
<1>9. at = [d \in 0 .. n |-> IF d = 0 THEN first ELSE Climbed(at[d - 1])]
  BY <1>8 DEF Climb, n
<1> HIDE DEF at
<1>10. at[0] = first /\ \A d \in 1 .. n : at[d] = Climbed(at[d - 1])
  BY <1>1, <1>9
<1>11. \A d \in 0 .. n : at[d] \in S
  <2> DEFINE T == {d \in 0 .. n : at[d] \in S}
  <2>1. 0 \in T /\ \A d \in 1 .. n : d - 1 \in T => d \in T
    BY <1>1, <1>3, <1>4, <1>10
  <2> HIDE DEF T
  <2>2. \A d \in 0 .. n : d \in T
    BY <1>1, <2>1, Upwards
  <2> QED  BY <2>2 DEF T
<1>12. get_path(nr) = at[n].path
  BY DEF get_path, PathFrom, n, at, first
<1>13. FoldersOf(nr) = folders
  BY DEF FoldersOf, D
<1>14. ASSUME NEW j \in 1 .. D, NEW m \in Nat
       PROVE  Stage(nr, j, m).path = SubSeq(folders, D - j + 1, D)
  <2>1. Stage(nr, j, m).path = [x \in 1 .. j |-> w[j - x]]
    BY DEF Stage
  <2>2. \A x \in 1 .. D : folders[x] = w[D - x]
    OBVIOUS
  <2>b. \A x \in 1 .. D : D - x \in 0 .. D
    BY <1>1
  <2>a. folders \in [1 .. D -> Inodes]
    BY <1>1, <2>b
  <2> HIDE DEF folders, w
  <2> DEFINE sub == SubSeq(folders, D - j + 1, D)
  <2>3. folders \in Seq(Inodes) /\ Len(folders) = D
    BY <1>1, <2>a
  <2>4. D - j + 1 \in 1 .. Len(folders) + 1 /\ D \in (D - j + 1) - 1 .. Len(folders)
        /\ D - j + 1 <= D /\ D - (D - j + 1) + 1 = j
    BY <1>1, <2>3
  <2>5. /\ sub \in Seq(Inodes) /\ Len(sub) = j
        /\ \A x \in 1 .. j : sub[x] = folders[(D - j + 1) + x - 1]
    BY <2>3, <2>4, SubSeqProperties
  <2> HIDE DEF sub
  <2>6. ASSUME NEW x \in 1 .. j PROVE sub[x] = w[j - x]
    <3>1. (D - j + 1) + x - 1 \in 1 .. D /\ D - ((D - j + 1) + x - 1) = j - x
      BY <1>1
    <3> QED  BY <2>2, <2>5, <3>1
  <2>7. sub = [x \in 1 .. j |-> w[j - x]]
    BY <2>5, <2>6
  <2> QED  BY <2>1, <2>7 DEF sub
<1>15. PICK j \in 1 .. D, m \in Nat : at[n] = Stage(nr, j, m)
  BY <1>1, <1>11 DEF S, Stages
<1>16. D - j \in 0 .. D - 1 /\ get_path(nr) = SubSeq(folders, (D - j) + 1, D)
  <2>1. D - j \in 0 .. D - 1 /\ (D - j) + 1 = D - j + 1
    BY <1>1
  <2>2. get_path(nr) = SubSeq(folders, D - j + 1, D)
    <3> HIDE DEF folders
    <3>1. Stage(nr, j, m).path = SubSeq(folders, D - j + 1, D)
      BY <1>14
    <3> QED  BY <1>12, <1>15, <3>1, Zenon
  <2> QED  BY <2>1, <2>2
<1>17. ASSUME D <= 2 PROVE get_path(nr) = folders
  <2>1. j = D
    <3>1. CASE D = 1
      BY <3>1
    <3>2. CASE D = 2
      <4> DEFINE T == {d \in 0 .. n : d = 0 \/ at[d] \in Stages(nr, {2})}
      <4>1. at[1] \in Stages(nr, {2})
        <5>1. at[1] = Climbed(Stage(nr, 1, 0)) /\ 1 \in 1 .. D
          BY <1>1, <1>2, <1>10
        <5>2. PICK x \in Nat : at[1] = Stage(nr, 1 + 1, x)
          BY <3>2, <5>1, OneFolderMore DEF D
        <5> QED  BY <5>2 DEF Stages
      <4>2. ASSUME NEW s \in Stages(nr, {2}) PROVE Climbed(s) = s
        <5>1. PICK x \in Nat : s = Stage(nr, 2, x)
          BY DEF Stages
        <5> QED  BY <3>2, <5>1, OneFolderMore DEF D
      <4>3. ASSUME NEW d \in 1 .. n, d - 1 \in T PROVE d \in T
        <5>1. CASE d = 1
          BY <4>1, <5>1
        <5>2. CASE d # 1
          BY <1>1, <1>10, <4>2, <4>3, <5>2
        <5> QED  BY <5>1, <5>2
      <4>4. 0 \in T
        BY <1>1
      <4> HIDE DEF T
      <4>5. \A d \in 0 .. n : d \in T
        BY <1>1, <4>3, <4>4, Upwards
      <4>6. at[n] \in Stages(nr, {2})
        BY <1>1, <4>5 DEF T
      <4>7. PICK x \in Nat : Stage(nr, j, m) = Stage(nr, 2, x)
        BY <1>15, <4>6 DEF Stages
      <4>8. Stage(nr, j, m).path = [y \in 1 .. j |-> w[j - y]]
            /\ Stage(nr, 2, x).path = [y \in 1 .. 2 |-> w[2 - y]]
        BY DEF Stage
      <4>9. 1 .. j = 1 .. 2
        <5> HIDE DEF w
        <5> QED  BY <4>7, <4>8
      <4> QED  BY <3>2, <4>9
    <3> QED  BY <1>1, <1>17, <3>1, <3>2
  <2>2. Stage(nr, j, m).path = folders
    BY <2>1 DEF Stage
  <2> QED  BY <1>12, <1>15, <2>2
<1> QED  BY <1>13, <1>16, <1>17 DEF D

----------------------------------------------------------------------------
(* The files beneath a file.                                               *)

LEMMA KidsBeneath ==
    ASSUME NEW nr
    PROVE  /\ Beneath(nr) \subseteq Inodes /\ Kids(nr) \subseteq Beneath(nr)
           /\ \A j \in Beneath(nr) : Kids(j) \subseteq Beneath(nr)
BY DEF Beneath, Kids

\* What holds the children of a file and of its members holds what is beneath.
LEMMA BeneathLeast ==
    ASSUME NEW nr, NEW S, S \subseteq Inodes, Kids(nr) \subseteq S,
           \A j \in S : Kids(j) \subseteq S
    PROVE  Beneath(nr) \subseteq S
BY DEF Beneath

LEMMA BeneathListed ==
    ASSUME NEW nr \in Inodes, NEW i \in Beneath(nr)
    PROVE  \E j \in Beneath(nr) \cup {nr} : i \in Kids(j)
<1> DEFINE S == {x \in Inodes : \E j \in Beneath(nr) \cup {nr} : x \in Kids(j)}
<1>1. S \subseteq Inodes /\ Kids(nr) \subseteq S
  BY DEF Kids
<1>2. S \subseteq Beneath(nr)
  BY KidsBeneath
<1>3. \A j \in S : Kids(j) \subseteq S
  BY <1>2 DEF Kids
<1> HIDE DEF S
<1>4. Beneath(nr) \subseteq S
  BY <1>1, <1>3, BeneathLeast
<1> QED  BY <1>4 DEF S

LEMMA BeneathDeeper ==
    ASSUME NEW nr, NEW i \in Beneath(nr)
    PROVE  Beneath(i) \subseteq Beneath(nr)
BY KidsBeneath, BeneathLeast

LEMMA BeneathFinite ==
    \A i : IsFiniteSet(Beneath(i)) /\ Cardinality(Beneath(i)) \in 0 .. NInodes
<1>1. IsFiniteSet(Inodes) /\ Cardinality(Inodes) = NInodes
  <2>1. Cardinality(1 .. NInodes) = NInodes /\ IsFiniteSet(1 .. NInodes)
    BY Sizes, FS_Interval
  <2> QED  BY <2>1 DEF Inodes
<1> SUFFICES ASSUME NEW i
             PROVE  IsFiniteSet(Beneath(i)) /\ Cardinality(Beneath(i)) \in 0 .. NInodes
  OBVIOUS
<1>2. Beneath(i) \subseteq Inodes
  BY KidsBeneath
<1>3. IsFiniteSet(Beneath(i)) /\ Cardinality(Beneath(i)) <= NInodes
  BY <1>1, <1>2, FS_Subset
<1> QED  BY <1>3, FS_CardinalityType, Sizes

\* A settled file is not beneath itself: its folders would be, and the root.
LEMMA NotBeneathSettled ==
    ASSUME IInv, QueryGoesOn, NEW nr \in Inodes, Settled(nr)
    PROVE  nr \notin Beneath(nr)
<1> SUFFICES ASSUME nr \in Beneath(nr) PROVE FALSE
  OBVIOUS
<1> DEFINE w == Way(nr)
           D == Depth(nr)
           T == {d \in 0 .. D : w[d] \in Beneath(nr)}
<1>1. /\ D \in Nat /\ w[0] = nr /\ w[D] = ROOT_INODE /\ \A d \in 0 .. D : w[d] \in Inodes
      /\ \A d \in 0 .. D - 1 : w[d] \in Kids(w[d + 1])
  <2>1. D \in 1 .. NInodes /\ NInodes \in Nat
    BY WayUp, Sizes
  <2>2. D \in Nat
    <3> HIDE DEF D
    <3> QED  BY <2>1
  <2> QED  BY <2>2, WayUp
<1> HIDE DEF w, D
<1>2. 0 \in T
  BY <1>1
<1>3. ASSUME NEW d \in 1 .. D, d - 1 \in T PROVE d \in T
  <2>1. w[d - 1] \in Beneath(nr)
    BY <1>3
  <2>2. PICK j \in Beneath(nr) : w[d - 1] \in Kids(j)
    BY <2>1, BeneathListed
  <2>3. d - 1 \in 0 .. D - 1 /\ (d - 1) + 1 = d /\ d \in 0 .. D
    BY <1>1
  <2>4. w[d - 1] \in Kids(w[d]) /\ w[d] \in Inodes /\ j \in Inodes
    BY <1>1, <2>2, <2>3, KidsBeneath
  <2>5. j = w[d]
    BY <2>2, <2>4, KidsAre
  <2> QED  BY <2>2, <2>3, <2>5
<1> HIDE DEF T
<1>4. \A d \in 0 .. D : d \in T
  BY <1>1, <1>2, <1>3, Upwards
<1>5. ROOT_INODE \in Beneath(nr)
  BY <1>1, <1>4 DEF T
<1>6. PICK j \in Beneath(nr) \cup {nr} : ROOT_INODE \in Kids(j)
  BY <1>5, BeneathListed
<1> QED  BY <1>6, KidsAre, KidsBeneath

\* Nor is any file beneath it.
LEMMA NoneBeneathItself ==
    ASSUME IInv, QueryGoesOn, NEW nr \in Inodes, Settled(nr)
    PROVE  \A i \in Beneath(nr) \cup {nr} : i \in Inodes /\ i \notin Beneath(i)
<1> DEFINE S == {i \in Inodes : i \notin Beneath(i)}
<1>1. ASSUME NEW j \in S, NEW i \in Kids(j) PROVE i \in S
  <2>1. i \in Inodes /\ j \in Inodes
    BY KidsAre
  <2>2. ASSUME i \in Beneath(i) PROVE FALSE
    <3>1. PICK m \in Beneath(i) \cup {i} : i \in Kids(m)
      BY <2>1, <2>2, BeneathListed
    <3>2. m \in Beneath(i) /\ m \in Inodes
      BY <2>2, KidsBeneath
    <3>3. m = j
      BY <3>1, <3>2, KidsAre
    <3>4. Beneath(i) \subseteq Beneath(j)
      BY KidsBeneath, BeneathDeeper
    <3> QED  BY <3>2, <3>3, <3>4
  <2> QED  BY <2>1, <2>2
<1>2. nr \in S
  BY NotBeneathSettled
<1>3. S \subseteq Inodes
  OBVIOUS
<1> HIDE DEF S
<1>4. Beneath(nr) \subseteq S
  BY <1>1, <1>2, <1>3, BeneathLeast
<1> QED  BY <1>2, <1>4 DEF S

\* Two children of one file have nothing beneath them in common.
LEMMA KidsApart ==
    ASSUME IInv, QueryGoesOn, NEW nr \in Inodes, Settled(nr), NEW i \in Beneath(nr) \cup {nr},
           NEW a \in Kids(i), NEW b \in Kids(i), a # b
    PROVE  (Beneath(a) \cup {a}) \cap (Beneath(b) \cup {b}) = {}
<1>1. i \in Inodes /\ i \notin Beneath(i) /\ a \in Inodes /\ b \in Inodes
  BY NoneBeneathItself, KidsAre
<1>2. /\ a \in Beneath(i) /\ b \in Beneath(i)
      /\ Beneath(a) \subseteq Beneath(i) /\ Beneath(b) \subseteq Beneath(i)
  BY KidsBeneath, BeneathDeeper
<1> DEFINE S == Inodes \ (Beneath(b) \cup {b})
<1>3. ASSUME NEW x \in Beneath(i) \cup {i}, x \in Beneath(i) => x \in S, NEW y \in Kids(x),
             y # b \/ x # i
      PROVE  y \in S
  <2>1. x \in Inodes /\ y \in Inodes
    BY <1>1, KidsBeneath, KidsAre
  <2>2. ASSUME y = b PROVE FALSE
    BY <1>1, <1>3, <2>1, <2>2, KidsAre
  <2>3. ASSUME y \in Beneath(b) PROVE FALSE
    <3>1. PICK m \in Beneath(b) \cup {b} : y \in Kids(m)
      BY <1>1, <2>3, BeneathListed
    <3>2. m = x
      BY <2>1, <3>1, <1>1, KidsAre, KidsBeneath
    <3>3. m \in Beneath(i)
      BY <1>2, <3>1
    <3> QED  BY <1>3, <3>1, <3>2, <3>3
  <2> QED  BY <2>1, <2>2, <2>3
<1> DEFINE R == S \cap Beneath(i)
<1>4. a \in R
  <2>1. a \in S
    <3> HIDE DEF S
    <3> QED  BY <1>1, <1>3
  <2> QED  BY <1>2, <2>1
<1>5. ASSUME NEW x \in R PROVE Kids(x) \subseteq R
  <2>1. x # i
    BY <1>1
  <2> QED  BY <1>3, <2>1, KidsBeneath
<1>6. R \subseteq Inodes
  OBVIOUS
<1>7. R \cap (Beneath(b) \cup {b}) = {}
  OBVIOUS
<1> HIDE DEF R
<1>8. Beneath(a) \subseteq R
  BY <1>4, <1>5, <1>6, BeneathLeast
<1> QED  BY <1>4, <1>7, <1>8

----------------------------------------------------------------------------
(* The size: what the child slots add up to.                               *)

Amount == Nat \cup {Unknown}

LEMMA ChildIs ==
    ASSUME IInv, QueryGoesOn, NEW i \in Inodes
    PROVE  /\ \A l \in Used(i) : /\ l \in Children /\ ChildIn(i, l) \in Kids(i)
                                 /\ ChildIn(i, l) \in Inodes
           /\ \A c \in Kids(i) : \E l \in Used(i) : ChildIn(i, l) = c
           /\ \A l, m \in Used(i) : ChildIn(i, l) = ChildIn(i, m) => l = m
<1>1. CASE HasEntry(i)
  <2>1. Entry(i) \in Entries /\ dir[Entry(i)] \in EntryType
    BY <1>1, EntryIs DEF IInv, TypeOK
  <2>2. ASSUME NEW l \in Used(i)
        PROVE  /\ l \in Children /\ ChildIn(i, l) \in Inodes
               /\ dir[Entry(i)].child_inode[l] = ChildIn(i, l)
    <3>1. l \in Children /\ dir[Entry(i)].child_inode[l] # 0
      BY DEF Used
    <3>2. dir[Entry(i)].child_inode[l] \in 0 .. NInodes
      BY <2>1, <3>1 DEF EntryType
    <3> QED  BY <3>1, <3>2, Sizes DEF ChildIn, Inodes
  <2>3. \A l \in Used(i) : ChildIn(i, l) \in Kids(i)
    BY <1>1, <2>2 DEF Kids, HasChild
  <2>4. ASSUME NEW c \in Kids(i) PROVE \E l \in Used(i) : ChildIn(i, l) = c
    <3>1. c \in Inodes /\ \E l \in Children : dir[Entry(i)].child_inode[l] = c
      BY DEF Kids, HasChild
    <3>2. c # 0
      BY <3>1, Sizes DEF Inodes
    <3> QED  BY <1>1, <3>1, <3>2 DEF Used, ChildIn
  <2>5. ASSUME NEW l \in Used(i), NEW m \in Used(i), ChildIn(i, l) = ChildIn(i, m) PROVE l = m
    BY <2>1, <2>2, <2>5, OneSlot
  <2> QED  BY <2>2, <2>3, <2>4, <2>5
<1>2. CASE ~ HasEntry(i)
  BY <1>2 DEF Used, Kids
<1> QED  BY <1>1, <1>2

LEMMA SumIs ==
    ASSUME IInv, QueryGoesOn, NEW i \in Inodes, NEW below \in [Inodes -> Amount]
    PROVE  /\ Sum(i, below)[0] = 0
           /\ \A l \in 1 .. MAX_FILE_AMOUNT :
                  Sum(i, below)[l] = Plus(Sum(i, below)[l - 1], Added(i, l - 1, below))
           /\ \A l \in 0 .. MAX_FILE_AMOUNT : Sum(i, below)[l] \in Amount
           /\ Total(i, below) \in Amount
<1> DEFINE n == MAX_FILE_AMOUNT
           add(l) == Added(i, l - 1, below)
           G == [l \in 1 .. n |-> [x \in Amount |-> Plus(x, add(l))]]
           sum == Sum(i, below)
<1>1. n \in Nat /\ 0 \in Amount /\ 1 \in Amount
  BY Sizes DEF Amount
<1>2. ASSUME NEW x \in Amount, NEW y \in Amount PROVE Plus(x, y) \in Amount
  BY DEF Plus, Amount, Unknown
<1>3. ASSUME NEW l PROVE Added(i, l, below) \in Amount
  <2>1. CASE l \in Used(i)
    <3>1. below[ChildIn(i, l)] \in Amount
      BY <2>1, ChildIs
    <3>2. Plus(1, below[ChildIn(i, l)]) \in Amount /\ Unknown \in Amount
      BY <1>1, <1>2, <3>1 DEF Amount
    <3> QED  BY <1>1, <2>1, <3>2 DEF Added
  <2>2. CASE l \notin Used(i)
    BY <1>1, <2>2 DEF Added
  <2> QED  BY <2>1, <2>2
<1>4. Steps(n, Amount, G)
  <2> HIDE DEF n
  <2> QED  BY <1>2, <1>3 DEF Steps
<1> HIDE DEF n, G, add
<1>5. PICK f : IsRun(f, n, Amount, 0, G)
  BY <1>1, <1>4, Rounds
<1>6. f \in [0 .. n -> Amount] /\ f[0] = 0 /\ \A l \in 1 .. n : f[l] = Plus(f[l - 1], add(l))
  <2>1. f \in [0 .. n -> Amount] /\ f[0] = 0 /\ \A l \in 1 .. n : f[l] = G[l][f[l - 1]]
    BY <1>5 DEF IsRun
  <2>2. \A l \in 1 .. n : l - 1 \in 0 .. n /\ f[l - 1] \in Amount
    BY <1>1, <2>1
  <2>3. \A l \in 1 .. n : \A x \in Amount : G[l][x] = Plus(x, add(l))
    BY DEF G
  <2> QED  BY <2>1, <2>2, <2>3
<1>7. f = [l \in 0 .. n |-> IF l = 0 THEN 0 ELSE Plus(f[l - 1], add(l))]
  <2>1. \A l \in 0 .. n : f[l] = IF l = 0 THEN 0 ELSE Plus(f[l - 1], add(l))
    BY <1>1, <1>6
  <2> QED  BY <1>6, <2>1
<1>8. sum = [l \in 0 .. n |-> IF l = 0 THEN 0 ELSE Plus(sum[l - 1], add(l))]
  BY <1>7 DEF Sum, n, add
<1> HIDE DEF sum
<1>9. sum[0] = 0 /\ \A l \in 1 .. n : sum[l] = Plus(sum[l - 1], add(l))
  BY <1>1, <1>8
<1>10. \A l \in 0 .. n : sum[l] \in Amount
  <2> DEFINE T == {l \in 0 .. n : sum[l] \in Amount}
  <2>1. add(0) \in Amount /\ \A l \in 1 .. n : add(l) \in Amount
    BY <1>3 DEF add
  <2>2. 0 \in T /\ \A l \in 1 .. n : l - 1 \in T => l \in T
    BY <1>1, <1>2, <1>9, <2>1
  <2> HIDE DEF T
  <2>3. \A l \in 0 .. n : l \in T
    BY <1>1, <2>2, Upwards
  <2> QED  BY <2>3 DEF T
<1>11. Total(i, below) \in Amount
  <2>1. sum[n] \in Amount
    BY <1>1, <1>10
  <2> QED  BY <1>1, <2>1 DEF Total, sum, n
<1> QED  BY <1>9, <1>10, <1>11 DEF sum, n, add

\* The sizes of files, level by level.
LEMMA SizesAre ==
    ASSUME IInv, QueryGoesOn
    PROVE  /\ SizesTo[0] = [i \in Inodes |-> 0]
           /\ \A h \in 1 .. NInodes : SizesTo[h] = [i \in Inodes |-> Total(i, SizesTo[h - 1])]
           /\ \A h \in 0 .. NInodes : SizesTo[h] \in [Inodes -> Amount]
<1> DEFINE S == [Inodes -> Amount]
           none == [i \in Inodes |-> 0]
           level(b) == [i \in Inodes |-> Total(i, b)]
           G == [h \in 1 .. NInodes |-> [b \in S |-> level(b)]]
           size == SizesTo
<1>1. NInodes \in Nat /\ none \in S
  BY Sizes DEF Amount
<1>2. ASSUME NEW b \in S PROVE level(b) \in S
  BY SumIs
<1> HIDE DEF S, none, level
<1>3. Steps(NInodes, S, G)
  BY <1>2 DEF Steps
<1> HIDE DEF G
<1>4. PICK f : IsRun(f, NInodes, S, none, G)
  BY <1>1, <1>3, Rounds
<1>5. /\ f \in [0 .. NInodes -> S] /\ f[0] = none
      /\ \A h \in 1 .. NInodes : f[h] = level(f[h - 1])
  <2>1. /\ f \in [0 .. NInodes -> S] /\ f[0] = none
        /\ \A h \in 1 .. NInodes : f[h] = G[h][f[h - 1]]
    BY <1>4 DEF IsRun
  <2>2. \A h \in 1 .. NInodes : h - 1 \in 0 .. NInodes /\ f[h - 1] \in S
    BY <1>1, <2>1
  <2>3. \A h \in 1 .. NInodes : \A b \in S : G[h][b] = level(b)
    BY DEF G
  <2> QED  BY <2>1, <2>2, <2>3
<1>6. f = [h \in 0 .. NInodes |-> IF h = 0 THEN none ELSE level(f[h - 1])]
  <2>1. \A h \in 0 .. NInodes : f[h] = IF h = 0 THEN none ELSE level(f[h - 1])
    BY <1>1, <1>5
  <2> QED  BY <1>5, <2>1
<1>7. size = [h \in 0 .. NInodes |-> IF h = 0 THEN none ELSE level(size[h - 1])]
  BY <1>6 DEF SizesTo, none, level
<1> HIDE DEF size
<1>8. size[0] = none /\ \A h \in 1 .. NInodes : size[h] = level(size[h - 1])
  BY <1>1, <1>7
<1>9. \A h \in 0 .. NInodes : size[h] \in S
  <2> DEFINE T == {h \in 0 .. NInodes : size[h] \in S}
  <2>1. 0 \in T /\ \A h \in 1 .. NInodes : h - 1 \in T => h \in T
    BY <1>1, <1>2, <1>8
  <2> HIDE DEF T
  <2>2. \A h \in 0 .. NInodes : h \in T
    BY <1>1, <2>1, Upwards
  <2> QED  BY <2>2 DEF T
<1> QED  BY <1>8, <1>9 DEF size, none, level, S

\* The files beneath a file are all open, have entries and are marked as
\* folders if they have children.
Countable(nr) ==
    \A i \in Beneath(nr) : /\ HasEntry(i) /\ InTable(i)
                           /\ Kids(i) # {} => dir[Entry(i)].isfolder

\* With the right sizes of the children, the sum is the size.
LEMMA TotalIs ==
    ASSUME IInv, QueryGoesOn, NEW nr \in Inodes, Settled(nr), Countable(nr),
           NEW i \in Beneath(nr) \cup {nr}, NEW below \in [Inodes -> Amount],
           \A c \in Kids(i) : below[c] = Cardinality(Beneath(c))
    PROVE  Total(i, below) = Cardinality(Beneath(i))
<1> DEFINE n == MAX_FILE_AMOUNT
           sum == Sum(i, below)
           B(l) == {c \in Inodes : /\ l \in Used(i)
                                   /\ c = ChildIn(i, l) \/ c \in Beneath(ChildIn(i, l))}
           U(l) == UNION {B(m) : m \in 0 .. l - 1}
<1>1. n \in Nat /\ i \in Inodes /\ Kids(i) \subseteq Beneath(nr)
  BY Sizes, KidsBeneath
<1>2. ASSUME NEW l \in Used(i)
      PROVE  /\ ChildIn(i, l) \in Kids(i) /\ ChildIn(i, l) \in Beneath(nr)
             /\ ChildIn(i, l) \in Inodes /\ ChildIn(i, l) \notin Beneath(ChildIn(i, l))
             /\ B(l) = Beneath(ChildIn(i, l)) \cup {ChildIn(i, l)}
  <2>1. ChildIn(i, l) \in Kids(i) /\ ChildIn(i, l) \in Beneath(nr) /\ ChildIn(i, l) \in Inodes
    BY <1>1, ChildIs
  <2>2. ChildIn(i, l) \notin Beneath(ChildIn(i, l))
    BY <2>1, NoneBeneathItself
  <2>3. Beneath(ChildIn(i, l)) \subseteq Inodes
    BY KidsBeneath
  <2> QED  BY <2>1, <2>2, <2>3
<1>3. ASSUME NEW l PROVE IsFiniteSet(B(l)) /\ Added(i, l, below) = Cardinality(B(l))
  <2>1. CASE l \notin Used(i)
    <3>1. B(l) = {}
      BY <2>1
    <3> QED  BY <2>1, <3>1, FS_EmptySet DEF Added
  <2>2. CASE l \in Used(i)
    <3> DEFINE c == ChildIn(i, l)
    <3>1. /\ c \in Kids(i) /\ c \in Inodes /\ c \notin Beneath(c) /\ B(l) = Beneath(c) \cup {c}
          /\ HasEntry(c) /\ (Kids(c) # {} => dir[Entry(c)].isfolder)
      BY <1>2, <2>2 DEF Countable
    <3> HIDE DEF c, B
    <3>2. IsFiniteSet(Beneath(c)) /\ Cardinality(Beneath(c)) \in Nat
      BY BeneathFinite
    <3>3. IsFiniteSet(B(l)) /\ Cardinality(B(l)) = Cardinality(Beneath(c)) + 1
      BY <3>1, <3>2, FS_AddElement
    <3>4. below[c] = Cardinality(Beneath(c))
      BY <3>1
    <3>5. Plus(1, below[c]) = Cardinality(Beneath(c)) + 1
      BY <3>2, <3>4 DEF Plus, Unknown
    <3>6. Added(i, l, below) = IF dir[Entry(c)].isfolder THEN Plus(1, below[c]) ELSE 1
      BY <2>2, <3>1 DEF Added, c
    <3>7. CASE dir[Entry(c)].isfolder
      BY <3>3, <3>5, <3>6, <3>7
    <3>8. CASE ~ dir[Entry(c)].isfolder
      <4>1. Kids(c) = {}
        BY <3>1, <3>8
      <4>2. Beneath(c) \subseteq {}
        BY <4>1, BeneathLeast
      <4>3. Cardinality(Beneath(c)) = 0
        BY <4>2, FS_EmptySet
      <4> QED  BY <3>3, <3>6, <3>8, <4>3
    <3> QED  BY <3>7, <3>8
  <2> QED  BY <2>1, <2>2
<1>4. ASSUME NEW l, NEW m, l # m PROVE B(l) \cap B(m) = {}
  <2>1. CASE l \in Used(i) /\ m \in Used(i)
    <3>1. ChildIn(i, l) # ChildIn(i, m)
      BY <1>1, <1>4, <2>1, ChildIs
    <3> HIDE DEF B
    <3> QED  BY <1>2, <2>1, <3>1, KidsApart
  <2> QED  BY <2>1
<1>5. Beneath(i) = U(n)
  <2>1. ASSUME NEW c \in Kids(i) PROVE \E m \in 0 .. n - 1 : c \in B(m)
    <3>1. PICK m \in Used(i) : ChildIn(i, m) = c
      BY <1>1, ChildIs
    <3>2. m \in 0 .. n - 1
      BY <3>1 DEF Used, Children
    <3> QED  BY <1>2, <3>1, <3>2
  <2>2. Kids(i) \subseteq U(n)
    BY <2>1
  <2>3. ASSUME NEW j \in U(n) PROVE Kids(j) \subseteq U(n)
    <3>1. PICK m \in 0 .. n - 1 : j \in B(m)
      OBVIOUS
    <3>2. m \in Used(i) /\ Kids(j) \subseteq Beneath(ChildIn(i, m))
      BY <3>1, KidsBeneath
    <3>3. Kids(j) \subseteq B(m)
      BY <1>2, <3>2
    <3> QED  BY <3>1, <3>3
  <2>4. U(n) \subseteq Inodes
    OBVIOUS
  <2>5. U(n) \subseteq Beneath(i)
    <3>1. ASSUME NEW m PROVE B(m) \subseteq Beneath(i)
      <4>1. CASE m \in Used(i)
        <5>1. ChildIn(i, m) \in Beneath(i)
          BY <1>2, <4>1, KidsBeneath
        <5> QED  BY <1>2, <4>1, <5>1, BeneathDeeper
      <4> QED  BY <4>1
    <3> QED  BY <3>1
  <2> HIDE DEF U
  <2>6. Beneath(i) \subseteq U(n)
    BY <2>2, <2>3, <2>4, BeneathLeast
  <2> QED  BY <2>5, <2>6
<1>6. /\ sum[0] = 0
      /\ \A l \in 1 .. n : sum[l] = Plus(sum[l - 1], Added(i, l - 1, below))
  BY <1>1, SumIs
<1> DEFINE T == {l \in 0 .. n : IsFiniteSet(U(l)) /\ sum[l] = Cardinality(U(l))}
<1>7. 0 \in T
  <2>1. U(0) = {}
    <3>1. 0 .. 0 - 1 = {}
      OBVIOUS
    <3> QED  BY <3>1
  <2> HIDE DEF U, sum
  <2>2. IsFiniteSet(U(0)) /\ Cardinality(U(0)) = 0
    <3>1. IsFiniteSet({}) /\ Cardinality({}) = 0
      BY FS_EmptySet
    <3> QED  BY <2>1, <3>1
  <2> QED  BY <1>1, <1>6, <2>2
<1>8. ASSUME NEW l \in 1 .. n, l - 1 \in T PROVE l \in T
  <2>1. U(l) = U(l - 1) \cup B(l - 1)
    <3> HIDE DEF B
    <3>1. 0 .. l - 1 = (0 .. (l - 1) - 1) \cup {l - 1}
      BY <1>1
    <3> QED  BY <3>1
  <2>2. U(l - 1) \cap B(l - 1) = {}
    <3>1. \A m \in 0 .. (l - 1) - 1 : m # l - 1
      BY <1>1
    <3>2. \A m \in 0 .. (l - 1) - 1 : B(m) \cap B(l - 1) = {}
      <4> HIDE DEF B
      <4> QED  BY <1>4, <3>1
    <3> HIDE DEF B
    <3> QED  BY <3>2
  <2>3. IsFiniteSet(U(l - 1)) /\ sum[l - 1] = Cardinality(U(l - 1))
    BY <1>8
  <2> HIDE DEF U, B, sum, T
  <2>4. IsFiniteSet(B(l - 1))
    BY <1>3
  <2>5. Cardinality(U(l - 1)) \in Nat /\ Cardinality(B(l - 1)) \in Nat
        /\ Cardinality(U(l - 1) \cap B(l - 1)) = 0
    BY <2>2, <2>3, <2>4, FS_CardinalityType, FS_EmptySet
  <2>6. IsFiniteSet(U(l)) /\ Cardinality(U(l)) = Cardinality(U(l - 1)) + Cardinality(B(l - 1))
    <3>1. /\ IsFiniteSet(U(l - 1) \cup B(l - 1))
          /\ Cardinality(U(l - 1) \cup B(l - 1)) =
                 Cardinality(U(l - 1)) + Cardinality(B(l - 1)) - Cardinality(U(l - 1) \cap B(l - 1))
      BY <2>3, <2>4, FS_Union, Zenon
    <3>2. \A x, y \in Nat : x + y - 0 = x + y
      OBVIOUS
    <3> QED  BY <2>1, <2>5, <3>1, <3>2
  <2>7. Added(i, l - 1, below) = Cardinality(B(l - 1))
    BY <1>3
  <2>8. sum[l] = Plus(Cardinality(U(l - 1)), Cardinality(B(l - 1)))
    BY <1>6, <2>3, <2>7
  <2>9. sum[l] = Cardinality(U(l))
    BY <2>5, <2>8, <2>6 DEF Plus, Unknown
  <2> QED  BY <1>1, <2>6, <2>9 DEF T
<1> HIDE DEF T, U, B, sum
<1>9. \A l \in 0 .. n : l \in T
  BY <1>1, <1>7, <1>8, Upwards
<1>10. sum[n] = Cardinality(U(n))
  BY <1>1, <1>9 DEF T
<1>11. \A l \in Used(i) : InTable(ChildIn(i, l))
  BY <1>2 DEF Countable
<1> QED  BY <1>5, <1>10, <1>11 DEF Total, sum

\* Every call of calcu_size that has levels enough left counts what is beneath.
LEMMA SizeIs ==
    ASSUME IInv, QueryGoesOn, NEW nr \in Inodes, Settled(nr), Countable(nr)
    PROVE  calcu_size(nr) = Cardinality(Beneath(nr))
<1> DEFINE size == SizesTo
           Tree == Beneath(nr) \cup {nr}
           T == {h \in 0 .. NInodes : \A i \in Tree :
                     Cardinality(Beneath(i)) <= h => size[h][i] = Cardinality(Beneath(i))}
<1>1. NInodes \in Nat /\ Tree \subseteq Inodes
  BY Sizes, KidsBeneath
<1>2. \A i : Cardinality(Beneath(i)) \in 0 .. NInodes
  BY BeneathFinite
<1>3. /\ size[0] = [i \in Inodes |-> 0]
      /\ \A h \in 1 .. NInodes : size[h] = [i \in Inodes |-> Total(i, size[h - 1])]
      /\ \A h \in 0 .. NInodes : size[h] \in [Inodes -> Amount]
  BY SizesAre
<1> HIDE DEF size, Tree
<1>4. 0 \in T
  <2>1. \A i \in Tree : Cardinality(Beneath(i)) <= 0 => size[0][i] = Cardinality(Beneath(i))
    BY <1>1, <1>2, <1>3
  <2> QED  BY <1>1, <2>1
<1>5. ASSUME NEW h \in 1 .. NInodes, h - 1 \in T PROVE h \in T
  <2> SUFFICES ASSUME NEW i \in Tree, Cardinality(Beneath(i)) <= h
               PROVE  size[h][i] = Cardinality(Beneath(i))
    BY <1>1
  <2>1. h - 1 \in 0 .. NInodes /\ h - 1 \in Nat /\ i \in Inodes
    BY <1>1
  <2>2. ASSUME NEW c \in Kids(i)
        PROVE  size[h - 1][c] = Cardinality(Beneath(c))
    <3>1. c \in Inodes /\ c \in Beneath(i) /\ Beneath(c) \subseteq Beneath(i) /\ c \in Tree
      <4>1. c \in Beneath(i)
        BY KidsBeneath
      <4>2. Beneath(i) \subseteq Beneath(nr)
        BY BeneathDeeper DEF Tree
      <4> QED  BY <4>1, <4>2, KidsBeneath, BeneathDeeper DEF Tree
    <3>2. c \notin Beneath(c)
      BY <3>1, NoneBeneathItself DEF Tree
    <3>3. Cardinality(Beneath(c)) < Cardinality(Beneath(i))
      <4>1. IsFiniteSet(Beneath(i)) /\ Beneath(c) # Beneath(i)
        BY <3>1, <3>2, BeneathFinite
      <4>2. Cardinality(Beneath(c)) <= Cardinality(Beneath(i))
            /\ (Cardinality(Beneath(c)) = Cardinality(Beneath(i)) => Beneath(c) = Beneath(i))
        BY <3>1, <4>1, FS_Subset
      <4> QED  BY <1>2, <4>1, <4>2
    <3>4. Cardinality(Beneath(c)) <= h - 1
      BY <1>1, <1>2, <2>1, <3>3
    <3> QED  BY <1>5, <3>1, <3>4
  <2>3. size[h - 1] \in [Inodes -> Amount]
    BY <1>3, <2>1
  <2>4. Total(i, size[h - 1]) = Cardinality(Beneath(i))
    BY <2>2, <2>3, TotalIs DEF Tree
  <2> QED  BY <1>3, <2>1, <2>4
<1> HIDE DEF T
<1>6. \A h \in 0 .. NInodes : h \in T
  BY <1>1, <1>4, <1>5, Upwards
<1>7. NInodes \in T /\ nr \in Tree /\ Cardinality(Beneath(nr)) <= NInodes
  BY <1>1, <1>2, <1>6 DEF Tree
<1>8. size[NInodes][nr] = Cardinality(Beneath(nr))
  BY <1>7 DEF T
<1> QED  BY <1>8 DEF calcu_size, size

\* What fs_check answers.
LEMMA CheckIs ==
    ASSUME IInv, QueryGoesOn, NEW nr \in Inodes, Settled(nr)
    PROVE  /\ InTable(nr)
           /\ \A fd_mode \in FdModes : O_RDWR \in fd_mode =>
                 do_check(nr, fd_mode) = {IF Beneath(nr) # {} THEN 4 ELSE 6}
<1>1. InTable(nr)
  <2>1. Cardinality(OnInode(nr)) <= cnt[nr] /\ OnInode(nr) # {}
    BY DEF IInv, OpenIsPinned, Settled
  <2>2. IsFiniteSet(OnInode(nr)) /\ Cardinality(OnInode(nr)) \in Nat
    BY OnFinite, OnIs
  <2>3. Cardinality(OnInode(nr)) # 0
    BY <2>1, <2>2, FS_EmptySet
  <2>4. cnt[nr] \in Nat
    BY DEF IInv, TypeOK
  <2> QED  BY <2>1, <2>2, <2>3, <2>4 DEF InTable
<1>2. check_relat(nr) = {0}
  <2> DEFINE p == inode[nr].p_num
  <2>1. p \in Inodes /\ nr \in Kids(p)
    <3>1. 0 \in 0 .. Depth(nr) - 1 /\ 0 + 1 \in 0 .. Depth(nr)
      <4>1. Depth(nr) \in 1 .. NInodes /\ NInodes \in Nat
        BY WayUp, Sizes
      <4> QED  BY <4>1
    <3>2. Way(nr)[0] = nr /\ Way(nr)[0 + 1] = inode[nr].p_num
      BY <3>1, WayUp
    <3>3. Way(nr)[0 + 1] \in Inodes /\ nr \in Kids(Way(nr)[0 + 1])
      BY <3>1, <3>2, WayUp
    <3> QED  BY <3>2, <3>3
  <2>2. HasEntry(p) /\ HasChild(Entry(p), nr)
    BY <2>1 DEF Kids
  <2> QED  BY <1>1, <2>2 DEF check_relat
<1>3. check_path(nr) = {1}
  BY DEF check_path, Settled
<1>4. check_child(nr) <=> Beneath(nr) # {}
  <2>1. HasEntry(nr)
    BY DEF Settled
  <2>2. check_child(nr) <=> \E l \in Children : dir[Entry(nr)].child_inode[l] # 0
    BY <2>1 DEF check_child, HasEntry, Entry
  <2>3. check_child(nr) <=> Used(nr) # {}
    BY <2>1, <2>2 DEF Used
  <2>4. Used(nr) # {} <=> Kids(nr) # {}
    BY ChildIs
  <2>5. Kids(nr) # {} <=> Beneath(nr) # {}
    <3>1. Kids(nr) = {} => Beneath(nr) \subseteq {}
      BY BeneathLeast
    <3> QED  BY <3>1, KidsBeneath
  <2> QED  BY <2>3, <2>4, <2>5
<1>5. HasEntry(nr)
  BY DEF Settled
<1>6. ASSUME NEW fd_mode \in FdModes, O_RDWR \in fd_mode
      PROVE  do_check(nr, fd_mode) = {IF Beneath(nr) # {} THEN 4 ELSE 6}
  <2>1. do_check(nr, fd_mode) =
          {4 * (1 - r[1]) + (IF check_child(nr) THEN 0 ELSE 2) + 1 - r[2] : r \in {0} \X {1}}
    BY <1>2, <1>3, <1>5, <1>6 DEF do_check
  <2>2. {0} \X {1} = {<<0, 1>>}
    OBVIOUS
  <2>3. do_check(nr, fd_mode) = {4 * (1 - 0) + (IF check_child(nr) THEN 0 ELSE 2) + 1 - 1}
    BY <2>1, <2>2
  <2> QED  BY <1>4, <2>3
<1> QED  BY <1>1, <1>6

\* Whatever was created, moved, renamed, closed and removed, fs_check, get_path
\* and showPro tell of a file that is open, has its entry and was not moved
\* since its last opening what the tree of the directory says (check.c:do_check,
\* path.c:get_path, time.c:do_showPro); through a descriptor without O_RDWR the
\* first and the last of them refuse.
THEOREM AnswersAgree == Spec => []AnswersTell
<1>1. IInv => AnswersTell
  <2> SUFFICES ASSUME IInv, QueryGoesOn, NEW nr \in Inodes, Settled(nr)
               PROVE  /\ \E d \in 0 .. Depth(nr) - 1 :
                             get_path(nr) = SubSeq(FoldersOf(nr), d + 1, Depth(nr))
                      /\ Depth(nr) <= 2 => get_path(nr) = FoldersOf(nr)
                      /\ \A fd_mode \in FdModes :
                           IF O_RDWR \in fd_mode
                           THEN /\ do_check(nr, fd_mode) =
                                      {IF Beneath(nr) # {} THEN 4 ELSE 6}
                                /\ (\A i \in Kids(nr) : HasEntry(i)) =>
                                      do_showPro(nr, fd_mode).rc = {0}
                                /\ Countable(nr) =>
                                      do_showPro(nr, fd_mode).size = Cardinality(Beneath(nr))
                           ELSE /\ do_check(nr, fd_mode) = {1}
                                /\ do_showPro(nr, fd_mode) = [rc |-> {1}, size |-> Unknown]
    BY DEF AnswersTell, Countable
  <2>1. HasEntry(nr) /\ InTable(nr)
    BY CheckIs DEF Settled
  <2>2. ASSUME NEW fd_mode \in FdModes, O_RDWR \in fd_mode
        PROVE  /\ do_check(nr, fd_mode) = {IF Beneath(nr) # {} THEN 4 ELSE 6}
               /\ (\A i \in Kids(nr) : HasEntry(i)) => do_showPro(nr, fd_mode).rc = {0}
               /\ Countable(nr) =>
                     do_showPro(nr, fd_mode).size = Cardinality(Beneath(nr))
    <3>1. do_check(nr, fd_mode) = {IF Beneath(nr) # {} THEN 4 ELSE 6}
      BY <2>2, CheckIs
    <3>2. ASSUME \A i \in Kids(nr) : HasEntry(i) PROVE do_showPro(nr, fd_mode).rc = {0}
      <4>1. \A l \in Used(nr) : HasEntry(ChildIn(nr, l))
        BY <3>2, ChildIs
      <4> QED  BY <2>1, <2>2, <4>1 DEF do_showPro
    <3>3. Countable(nr) => do_showPro(nr, fd_mode).size = Cardinality(Beneath(nr))
      BY <2>1, <2>2, SizeIs DEF do_showPro
    <3> QED  BY <3>1, <3>2, <3>3
  <2>3. ASSUME NEW fd_mode \in FdModes, O_RDWR \notin fd_mode
        PROVE  /\ do_check(nr, fd_mode) = {1}
               /\ do_showPro(nr, fd_mode) = [rc |-> {1}, size |-> Unknown]
    BY <2>3 DEF do_check, do_showPro
  <2> QED  BY <2>2, <2>3, PathIs
<1> QED  BY <1>1, Invariant, PTL

=============================================================================
