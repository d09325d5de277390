---------------------------- MODULE FileSysProofs ----------------------------
(***************************************************************************)
(* That the file system is sound for all sizes of the disk, the sectors,   *)
(* the directory and the calls: whatever is on the disk when the machine   *)
(* stops, and what memory records between the calls.                       *)
(*                                                                         *)
(* The inductive invariant IInv is about the disk D that there will be     *)
(* when the log is written.  Good relates memory to D: the inodes that are *)
(* open are those of the handles and of the free map (Opens), and the map  *)
(* has their sectors, those of the names and those that are lost, all of   *)
(* them apart (Space).  Trail relates the log to the disk: each of the     *)
(* disks on the way to D is sound by itself (DiskOK), and each write is    *)
(* one of data, of a new entry or of an entry that is erased (Moved).  A   *)
(* call preserves it because each of its steps does: a write adds a disk   *)
(* to the end of the trail, and the steps in memory leave it as it is.     *)
(*                                                                         *)
(* StoreInv adds that the files that exist, named or open, are apart on    *)
(* the disk as it is.  With it each step of the file system is one of      *)
(* FileStore: a sector that reaches the disk is the moment of a creation   *)
(* or of a removal, a part of a write, or shows nothing.                   *)
(***************************************************************************)
EXTENDS FileSys, FiniteSetTheorems, WellFoundedInduction, TLAPS

\* The first sector of the directory: do_format() places it behind the free map.
RootStart == 2 + BytesToSectors(SECTORS)

\* The sectors of the free map's file.
MapSectors == Run(2, BytesToSectors(SECTORS))

\* The sectors of the root directory.
RootSectors == Run(RootStart, BytesToSectors(ENTRY_CNT))

\* The sectors that belong to no file: the two system inodes and what they hold.
Base == {FREE_MAP_SECTOR, ROOT_DIR_SECTOR} \cup MapSectors \cup RootSectors

\* The entries of the directory.
Slots == 0..(ENTRY_CNT - 1)

\* Entry a of the directory on disk d.
Slot(d, a) == d[RootStart + (a \div CELLS)][(a % CELLS) + 1]

\* The entries in use.
Used(d) == {a \in Slots : InUse(Slot(d, a))}

\* The sectors of the inodes that have a name.
Named(d) == {Slot(d, a)[1] : a \in Used(d)}

\* The cell of bit i of the free map on disk d.
Bit(d, i) == d[2 + (i \div CELLS)][(i % CELLS) + 1]

\* The sectors that the map on the disk has as used.
Marked(d) == {i \in Sectors : Bit(d, i) # Zero}

\* The sectors of the contents of the file whose inode is at x.
Data(d, x) == Run(Header(d, x).start, BytesToSectors(Header(d, x).length))

\* The sectors of the files of L, their inodes and contents.
OwnedBy(d, L) == UNION {Owned(d, x) : x \in L}

\* There is a file at x: it lies on the disk, apart from its inode and from the sectors of
\* the system.
FileAt(d, x) ==
    /\ x \in Sectors /\ Header(d, x).start \in Nat /\ Header(d, x).length \in Nat
    /\ Header(d, x).start + BytesToSectors(Header(d, x).length) <= SECTORS
    /\ x \notin Data(d, x) /\ Owned(d, x) \cap Base = {}

\* The sectors of L have files that share no sector.
Apart(d, L) == \A x \in L : FileAt(d, x) /\ \A y \in L : x # y => Owned(d, x) \cap Owned(d, y) = {}

\* A disk is a function on the sectors.
IsDisk(d) == d = [i \in Sectors |-> d[i]]

\* The disk has the two system inodes and a directory of entries.
Layout(d) ==
    /\ IsDisk(d)
    /\ d[FREE_MAP_SECTOR][1] = <<2, SECTORS>> /\ d[ROOT_DIR_SECTOR][1] = <<RootStart, ENTRY_CNT>>
    /\ \A a \in Slots : Slot(d, a) \in {Zero} \cup (Sectors \X Names \X BOOLEAN)

\* No two entries in use have the same name or the same inode.
Directory(d) == \A a, b \in Used(d) : a # b => Slot(d, a)[1] # Slot(d, b)[1] /\ Slot(d, a)[2] # Slot(d, b)[2]

\* A disk that is sound: its files lie apart, and every sector of a file that has a name is
\* marked as used.
DiskOK(d) ==
    /\ Layout(d) /\ Directory(d) /\ Apart(d, Named(d))
    /\ Base \cup OwnedBy(d, Named(d)) \subseteq Marked(d)

\* The sizes are natural numbers.
LEMMA Consts ==
  /\ SECTORS \in Nat /\ CELLS \in Nat /\ CELLS > 1 /\ ENTRY_CNT \in Nat /\ SECTORS > 1
  /\ BytesToSectors(SECTORS) \in Nat /\ BytesToSectors(ENTRY_CNT) \in Nat /\ RootStart \in Nat
  /\ RootStart + BytesToSectors(ENTRY_CNT) <= SECTORS
<1>1. SECTORS \in Nat /\ CELLS \in Nat /\ CELLS > 1 /\ ENTRY_CNT \in Nat /\ SECTORS > 1
  BY FileSysAssumption
<1>2. BytesToSectors(SECTORS) \in Nat /\ BytesToSectors(ENTRY_CNT) \in Nat
  BY <1>1 DEF BytesToSectors
<1>. QED  BY <1>1, <1>2, FormatAssumption DEF RootStart

\* The sector and the cell of a position in a file.
LEMMA Cells ==
  ASSUME NEW n \in Nat
  PROVE  /\ n \div CELLS \in Nat /\ n % CELLS \in 0..(CELLS - 1) /\ (n % CELLS) + 1 \in 1..CELLS
         /\ n = CELLS * (n \div CELLS) + (n % CELLS)
         /\ BytesToSectors(n) \in Nat
         /\ \A k \in Nat : k < n => k \div CELLS < BytesToSectors(n)
<1>1. /\ n \div CELLS \in Nat /\ n % CELLS \in 0..(CELLS - 1) /\ (n % CELLS) + 1 \in 1..CELLS
      /\ n = CELLS * (n \div CELLS) + (n % CELLS)
  BY Consts
<1>2. BytesToSectors(n) \in Nat
  BY Consts DEF BytesToSectors
<1>3. ASSUME NEW k \in Nat, k < n PROVE k \div CELLS < BytesToSectors(n)
  BY <1>3, Consts DEF BytesToSectors
<1>. QED  BY <1>1, <1>2, <1>3

\* A position from its sector and cell.
LEMMA CellOf ==
  ASSUME NEW q \in Nat, NEW r \in 0..(CELLS - 1)
  PROVE  (q * CELLS + r) \in Nat /\ (q * CELLS + r) \div CELLS = q /\ (q * CELLS + r) % CELLS = r
BY Consts

\* The position where a sector begins.
LEMMA WholeCells ==
  ASSUME NEW n \in Nat
  PROVE  (n \div CELLS) * CELLS \in Nat /\ (n \div CELLS) * CELLS <= n /\ ((n \div CELLS) * CELLS = n <=> n % CELLS = 0)
<1>1. ASSUME NEW q \in Nat, NEW r \in 0..(CELLS - 1), n = CELLS * q + r
      PROVE  q * CELLS \in Nat /\ q * CELLS <= n /\ (q * CELLS = n <=> r = 0)
  BY <1>1, Consts
<1>. QED  BY <1>1, Cells

\* The sectors of a run.
LEMMA RunIs ==
  ASSUME NEW start, NEW cnt
  PROVE  /\ Run(start, cnt) \subseteq Sectors
         /\ \A i : i \in Run(start, cnt) <=> i \in Sectors /\ start <= i /\ i < start + cnt
BY DEF Run

\* The sectors of the system are the first ones, the map before the directory.
LEMMA BaseIs ==
  /\ Base = 0..(RootStart + BytesToSectors(ENTRY_CNT) - 1)
  /\ MapSectors = 2..(RootStart - 1) /\ RootSectors = RootStart..(RootStart + BytesToSectors(ENTRY_CNT) - 1)
  /\ Base \subseteq Sectors /\ 0 \in Sectors /\ 1 \in Sectors
  /\ \A a \in Slots : RootStart + (a \div CELLS) \in RootSectors /\ a \in Nat
  /\ \A i \in Sectors : 2 + (i \div CELLS) \in MapSectors /\ i \in Nat
  /\ {FREE_MAP_SECTOR, ROOT_DIR_SECTOR} \cup MapSectors \subseteq Sectors \ RootSectors
  /\ FREE_MAP_SECTOR \notin MapSectors /\ ROOT_DIR_SECTOR \notin MapSectors
<1>1. /\ MapSectors = 2..(RootStart - 1) /\ RootSectors = RootStart..(RootStart + BytesToSectors(ENTRY_CNT) - 1)
  BY Consts DEF MapSectors, RootSectors, Run, Sectors, RootStart
<1>2. Base = 0..(RootStart + BytesToSectors(ENTRY_CNT) - 1) /\ Base \subseteq Sectors /\ 0 \in Sectors /\ 1 \in Sectors
  <2>1. Base = {0, 1} \cup (2..(RootStart - 1)) \cup (RootStart..(RootStart + BytesToSectors(ENTRY_CNT) - 1))
    BY <1>1 DEF Base, FREE_MAP_SECTOR, ROOT_DIR_SECTOR
  <2>2. RootStart >= 2
    BY Consts DEF RootStart
  <2>. QED  BY <2>1, <2>2, Consts DEF Sectors
<1>3. ASSUME NEW a \in Slots PROVE RootStart + (a \div CELLS) \in RootSectors /\ a \in Nat
  <2>1. a \in Nat /\ a < ENTRY_CNT
    BY Consts DEF Slots
  <2>2. a \div CELLS < BytesToSectors(ENTRY_CNT) /\ a \div CELLS \in Nat
    BY <2>1, Consts, Cells
  <2>. QED  BY <2>1, <2>2, <1>1, Consts
<1>4. ASSUME NEW i \in Sectors PROVE 2 + (i \div CELLS) \in MapSectors /\ i \in Nat
  <2>1. i \in Nat /\ i < SECTORS
    BY Consts DEF Sectors
  <2>2. i \div CELLS < BytesToSectors(SECTORS) /\ i \div CELLS \in Nat
    BY <2>1, Consts, Cells
  <2>. QED  BY <2>1, <2>2, <1>1, Consts DEF RootStart
<1>5. /\ {FREE_MAP_SECTOR, ROOT_DIR_SECTOR} \cup MapSectors \subseteq Sectors \ RootSectors
      /\ FREE_MAP_SECTOR \notin MapSectors /\ ROOT_DIR_SECTOR \notin MapSectors
  <2>1. RootStart >= 2
    BY Consts DEF RootStart
  <2>. QED  BY <2>1, <1>1, Consts DEF Sectors, FREE_MAP_SECTOR, ROOT_DIR_SECTOR
<1>. QED  BY <1>1, <1>2, <1>3, <1>4, <1>5

\* What the disk says of the two system inodes.
LEMMA LayoutMeans ==
  ASSUME NEW d, Layout(d)
  PROVE  /\ Header(d, FREE_MAP_SECTOR) = [start |-> 2, length |-> SECTORS]
         /\ Header(d, ROOT_DIR_SECTOR) = [start |-> RootStart, length |-> ENTRY_CNT]
         /\ System(d) = Base /\ MapOn(d) = Marked(d)
         /\ Entries(d) = {Slot(d, a) : a \in Used(d)}
         /\ OwnedByNames(d) = OwnedBy(d, Named(d))
         /\ \A k \in Nat : CellAt(d, Header(d, ROOT_DIR_SECTOR), k) = Slot(d, k) /\ CellAt(d, Header(d, FREE_MAP_SECTOR), k) = Bit(d, k)
<1>1. /\ Header(d, FREE_MAP_SECTOR) = [start |-> 2, length |-> SECTORS]
      /\ Header(d, ROOT_DIR_SECTOR) = [start |-> RootStart, length |-> ENTRY_CNT]
  BY DEF Layout, Header
<1>2. System(d) = Base
  BY <1>1 DEF System, Owned, Base, MapSectors, RootSectors
<1>3. \A k \in Nat : CellAt(d, Header(d, ROOT_DIR_SECTOR), k) = Slot(d, k) /\ CellAt(d, Header(d, FREE_MAP_SECTOR), k) = Bit(d, k)
  BY <1>1 DEF CellAt, Slot, Bit
<1>4. MapOn(d) = Marked(d)
  <2>1. \A i \in Sectors : CellAt(d, Header(d, FREE_MAP_SECTOR), i) = Bit(d, i)
    BY <1>3, BaseIs
  <2>. QED  BY <2>1 DEF MapOn, Marked
<1>5. Entries(d) = {Slot(d, a) : a \in Used(d)}
  <2>1. \A a \in Slots : CellAt(d, Header(d, ROOT_DIR_SECTOR), a) = Slot(d, a)
    BY <1>3, BaseIs
  <2>2. 0..(Header(d, ROOT_DIR_SECTOR).length - 1) = Slots
    BY <1>1 DEF Slots
  <2>. QED  BY <2>1, <2>2 DEF Entries, Used
<1>6. OwnedByNames(d) = OwnedBy(d, Named(d))
  BY <1>5 DEF OwnedByNames, OwnedBy, Named
<1>. QED  BY <1>1, <1>2, <1>3, <1>4, <1>5, <1>6

\* A step that leaves the inodes alone leaves the files where they are.
LEMMA ApartKept ==
  ASSUME NEW d, NEW d2, NEW L, \A x \in L : d2[x] = d[x]
  PROVE  /\ \A x \in L : Header(d2, x) = Header(d, x) /\ Owned(d2, x) = Owned(d, x) /\ Data(d2, x) = Data(d, x)
         /\ \A x \in L : FileAt(d, x) => FileAt(d2, x)
         /\ OwnedBy(d2, L) = OwnedBy(d, L)
         /\ Apart(d, L) => Apart(d2, L)
<1>1. \A x \in L : Header(d2, x) = Header(d, x)
  BY DEF Header
<1>2. \A x \in L : Owned(d2, x) = Owned(d, x) /\ Data(d2, x) = Data(d, x)
  BY <1>1 DEF Owned, Data
<1>3. \A x \in L : FileAt(d, x) => FileAt(d2, x)
  BY <1>1, <1>2 DEF FileAt
<1>4. OwnedBy(d2, L) = OwnedBy(d, L)
  BY <1>2 DEF OwnedBy
<1>5. Apart(d, L) => Apart(d2, L)
  BY <1>2, <1>3 DEF Apart
<1>. QED  BY <1>1, <1>2, <1>3, <1>4, <1>5

\* A file's inode is outside of what belongs to the system.
LEMMA FilesPlace ==
  ASSUME NEW d, NEW x, FileAt(d, x)
  PROVE  x \in Sectors \ Base /\ x \in Owned(d, x) /\ x \in Sectors \ RootSectors
<1>1. x \in Owned(d, x)
  BY DEF Owned
<1>2. x \notin Base /\ x \in Sectors
  BY <1>1 DEF FileAt
<1>. QED  BY <1>1, <1>2 DEF Base

\* A step that leaves the sectors of the directory alone leaves the entries alone.
LEMMA DirectoryKept ==
  ASSUME NEW d, NEW d2, \A i \in RootSectors : d2[i] = d[i]
  PROVE  /\ \A a \in Slots : Slot(d2, a) = Slot(d, a)
         /\ Used(d2) = Used(d) /\ Named(d2) = Named(d)
         /\ Directory(d) => Directory(d2)
<1>1. \A a \in Slots : Slot(d2, a) = Slot(d, a)
  BY BaseIs DEF Slot
<1>2. Used(d2) = Used(d) /\ Used(d) \subseteq Slots
  BY <1>1 DEF Used
<1>3. Named(d2) = Named(d)
  BY <1>1, <1>2 DEF Named
<1>4. Directory(d) => Directory(d2)
  <2>1. \A a \in Used(d) : Slot(d2, a) = Slot(d, a)
    BY <1>1, <1>2
  <2>. QED  BY <2>1, <1>2 DEF Directory
<1>. QED  BY <1>1, <1>2, <1>3, <1>4

\* A step that leaves the sectors of the map alone leaves the marked sectors alone.
LEMMA MarkedKept ==
  ASSUME NEW d, NEW d2, \A i \in MapSectors : d2[i] = d[i]
  PROVE  Marked(d2) = Marked(d)
<1>1. \A i \in Sectors : Bit(d2, i) = Bit(d, i)
  BY BaseIs DEF Bit
<1>. QED  BY <1>1 DEF Marked

\* A sound disk stays sound when a write leaves the inodes and the directory alone, and the
\* map marks what is in use.
LEMMA DiskKept ==
  ASSUME NEW d, DiskOK(d), NEW d2, IsDisk(d2),
         \A i \in {FREE_MAP_SECTOR, ROOT_DIR_SECTOR} \cup RootSectors \cup Named(d) : d2[i] = d[i],
         Base \cup OwnedBy(d, Named(d)) \subseteq Marked(d2)
  PROVE  DiskOK(d2)
<1>1. /\ \A a \in Slots : Slot(d2, a) = Slot(d, a)
      /\ Named(d2) = Named(d) /\ Directory(d2)
  BY DirectoryKept DEF DiskOK
<1>2. Apart(d2, Named(d)) /\ OwnedBy(d2, Named(d)) = OwnedBy(d, Named(d))
  BY ApartKept DEF DiskOK
<1>3. Layout(d2)
  BY <1>1 DEF Layout, DiskOK
<1>. QED  BY <1>1, <1>2, <1>3 DEF DiskOK

\* Disk d2 has a new cell j in one sector, and is otherwise d.
OneCell(d, d2, sector, j) ==
    /\ \A i \in Sectors \ {sector} : d2[i] = d[i]
    /\ \A k \in (1..CELLS) \ {j} : d2[sector][k] = d[sector][k]

\* A write of one cell of the directory changes one entry.
LEMMA SlotWritten ==
  ASSUME NEW d, NEW d2, NEW a \in Slots, OneCell(d, d2, RootStart + (a \div CELLS), (a % CELLS) + 1)
  PROVE  /\ \A b \in Slots \ {a} : Slot(d2, b) = Slot(d, b)
         /\ \A i \in Sectors \ RootSectors : d2[i] = d[i]
<1>3. /\ \A i \in Sectors \ {RootStart + (a \div CELLS)} : d2[i] = d[i]
      /\ \A j \in (1..CELLS) \ {(a % CELLS) + 1} :
             d2[RootStart + (a \div CELLS)][j] = d[RootStart + (a \div CELLS)][j]
  BY DEF OneCell
<1>1. ASSUME NEW b \in Slots \ {a} PROVE Slot(d2, b) = Slot(d, b)
  <2>1. /\ b \in Nat /\ a \in Nat /\ RootStart + (b \div CELLS) \in Sectors
        /\ a \div CELLS \in Nat /\ b \div CELLS \in Nat
        /\ a % CELLS \in 0..(CELLS - 1) /\ b % CELLS \in 0..(CELLS - 1) /\ (b % CELLS) + 1 \in 1..CELLS
        /\ a = CELLS * (a \div CELLS) + (a % CELLS) /\ b = CELLS * (b \div CELLS) + (b % CELLS)
    <3>1. b \in Nat /\ a \in Nat /\ RootStart + (b \div CELLS) \in RootSectors
      BY BaseIs
    <3>. QED  BY <3>1, Cells DEF RootSectors, Run
  <2>2. CASE a \div CELLS # b \div CELLS
    <3>1. RootStart + (b \div CELLS) # RootStart + (a \div CELLS)
      BY <2>1, <2>2, Consts
    <3>. QED  BY <3>1, <2>1, <1>3 DEF Slot
  <2>3. CASE a \div CELLS = b \div CELLS
    <3>1. a % CELLS # b % CELLS
      BY <2>1, <2>3
    <3>. DEFINE p == a % CELLS
                q == b % CELLS
    <3>2. q + 1 # p + 1
      <4>1. p \in Nat /\ q \in Nat /\ p # q
        BY <3>1, <2>1, Consts
      <4>. HIDE DEF p, q
      <4>. QED  BY <4>1
    <3>3. (b % CELLS) + 1 \in (1..CELLS) \ {(a % CELLS) + 1}
      BY <3>2, <2>1
    <3>4. d2[RootStart + (a \div CELLS)][(b % CELLS) + 1] = d[RootStart + (a \div CELLS)][(b % CELLS) + 1]
      BY <3>3, <1>3
    <3>. QED  BY <3>4, <2>3 DEF Slot
  <2>. QED  BY <2>2, <2>3
<1>2. \A i \in Sectors \ RootSectors : d2[i] = d[i]
  BY <1>3, BaseIs
<1>. QED  BY <1>1, <1>2

\* Which entries are in use.
LEMMA EntriesAre ==
  ASSUME NEW x, NEW n
  PROVE  /\ InUse(<<x, n, TRUE>>) /\ ~InUse(<<x, n, FALSE>>) /\ ~InUse(Zero)
         /\ <<x, n, TRUE>>[1] = x /\ <<x, n, TRUE>>[2] = n
         /\ x \in Sectors /\ n \in Names => <<x, n, TRUE>> \in Sectors \X Names \X BOOLEAN
         /\ x \in Sectors /\ n \in Names => <<x, n, FALSE>> \in Sectors \X Names \X BOOLEAN
<1>1. InUse(<<x, n, TRUE>>) /\ ~InUse(<<x, n, FALSE>>) /\ ~InUse(Zero)
  BY DEF InUse, Zero
<1>2. x \in Sectors /\ n \in Names => <<x, n, TRUE>> \in Sectors \X Names \X BOOLEAN
  OBVIOUS
<1>3. x \in Sectors /\ n \in Names => <<x, n, FALSE>> \in Sectors \X Names \X BOOLEAN
  OBVIOUS
<1>. QED  BY <1>1, <1>2, <1>3

\* Disk d2 has entry e in slot a, and is otherwise d outside of the directory.
SlotSet(d, d2, a, e) ==
    /\ Slot(d2, a) = e
    /\ \A b \in Slots \ {a} : Slot(d2, b) = Slot(d, b)
    /\ \A i \in Sectors \ RootSectors : d2[i] = d[i]

\* The entry of a name that dir_remove() erased.
Erased(x, n) == <<x, n, FALSE>>

\* No entry in use has name n.
Unnamed(d, n) == \A a \in Used(d) : Slot(d, a)[2] # n

\* The contents of the file at x are zeros.
Blank(d, x) == \A y \in Data(d, x), j \in 1..CELLS : d[y][j] = Zero

\* A disk stays sound when an entry is erased.
LEMMA DiskRemoved ==
  ASSUME NEW d, DiskOK(d), NEW d2, IsDisk(d2), NEW a \in Used(d), NEW n \in Names,
         NEW e, e = Erased(Slot(d, a)[1], n), SlotSet(d, d2, a, e)
  PROVE  /\ DiskOK(d2) /\ Used(d2) = Used(d) \ {a} /\ Named(d2) = Named(d) \ {Slot(d, a)[1]}
         /\ Slot(d, a)[1] \in Named(d)
<1>. DEFINE x == Slot(d, a)[1]
<1>12. /\ \A b \in Slots \ {a} : Slot(d2, b) = Slot(d, b)
       /\ \A i \in Sectors \ RootSectors : d2[i] = d[i]
       /\ Slot(d2, a) = <<Slot(d, a)[1], n, FALSE>>
  BY DEF SlotSet, Erased
<1>1. a \in Slots /\ x \in Sectors /\ x \in Named(d)
  <2>1. a \in Slots /\ x \in Named(d) /\ InUse(Slot(d, a))
    BY <1>12 DEF Used, Named
  <2>2. Slot(d, a) \in {Zero} \cup (Sectors \X Names \X BOOLEAN) /\ Slot(d, a) # Zero
    BY <1>12, <2>1, EntriesAre DEF DiskOK, Layout
  <2>. QED  BY <1>12, <2>1, <2>2
<1>2. ~InUse(Slot(d2, a))
  <2>1. ~InUse(<<x, n, FALSE>>)
    BY <1>12, EntriesAre
  <2>. QED  BY <1>12, <2>1
<1>3. Used(d2) = Used(d) \ {a}
  BY <1>12, <1>1, <1>2 DEF Used
<1>4. \A b \in Used(d) \ {a} : Slot(d2, b) = Slot(d, b) /\ Slot(d, b)[1] # x
  BY <1>12, <1>1 DEF Used, DiskOK, Directory
<1>5. Named(d2) = Named(d) \ {x}
  BY <1>12, <1>3, <1>4 DEF Named
<1>6. Directory(d2)
  BY <1>12, <1>3, <1>4 DEF Directory, DiskOK
<1>7. \A y \in Named(d) : y \in Sectors \ RootSectors
  BY <1>12, FilesPlace DEF DiskOK, Apart
<1>8. Apart(d2, Named(d2)) /\ OwnedBy(d2, Named(d2)) \subseteq OwnedBy(d, Named(d))
  <2>1. \A y \in Named(d2) : d2[y] = d[y]
    BY <1>12, <1>5, <1>7
  <2>2. Apart(d, Named(d2)) /\ OwnedBy(d, Named(d2)) \subseteq OwnedBy(d, Named(d))
    BY <1>12, <1>5 DEF Apart, DiskOK, OwnedBy
  <2>. QED  BY <1>12, <2>1, <2>2, ApartKept
<1>9. {FREE_MAP_SECTOR, ROOT_DIR_SECTOR} \cup MapSectors \subseteq Sectors \ RootSectors
  BY <1>12, BaseIs
<1>10. Layout(d2)
  <2>1. <<x, n, FALSE>> \in Sectors \X Names \X BOOLEAN
    BY <1>12, <1>1, EntriesAre
  <2>. QED  BY <1>12, <2>1, <1>9 DEF Layout, DiskOK
<1>11. Marked(d2) = Marked(d)
  BY <1>12, <1>9, MarkedKept
<1>. QED  BY <1>12, <1>1, <1>3, <1>5, <1>6, <1>8, <1>10, <1>11 DEF DiskOK

\* A disk stays sound when an entry is added for a file that lies apart from the others.
LEMMA DiskAdded ==
  ASSUME NEW d, DiskOK(d), NEW d2, IsDisk(d2), NEW a \in Slots \ Used(d), NEW n \in Names, NEW x,
         NEW e, e = <<x, n, TRUE>>, SlotSet(d, d2, a, e), Unnamed(d, n),
         FileAt(d, x), Owned(d, x) \cap OwnedBy(d, Named(d)) = {}, Owned(d, x) \subseteq Marked(d)
  PROVE  DiskOK(d2) /\ Used(d2) = Used(d) \cup {a} /\ Named(d2) = Named(d) \cup {x} /\ x \notin Named(d)
<1>14. /\ \A b \in Slots \ {a} : Slot(d2, b) = Slot(d, b)
       /\ \A i \in Sectors \ RootSectors : d2[i] = d[i]
       /\ Slot(d2, a) = <<x, n, TRUE>> /\ \A b \in Used(d) : Slot(d, b)[2] # n
  BY DEF SlotSet, Unnamed
<1>1. x \notin Named(d) /\ x \in Sectors
  BY <1>14 DEF Owned, OwnedBy, FileAt
<1>2. InUse(Slot(d2, a))
  <2>1. InUse(<<x, n, TRUE>>)
    BY <1>14, EntriesAre
  <2>. QED  BY <1>14, <2>1
<1>3. Used(d2) = Used(d) \cup {a} /\ Used(d) \subseteq Slots
  BY <1>14, <1>2 DEF Used
<1>4. \A b \in Used(d) : b # a /\ Slot(d2, b) = Slot(d, b) /\ Slot(d, b)[1] # x
  BY <1>14, <1>1, <1>3 DEF Named
<1>5. Slot(d2, a)[1] = x /\ Slot(d2, a)[2] = n
  BY <1>14, EntriesAre
<1>6. Named(d2) = Named(d) \cup {x}
  BY <1>14, <1>3, <1>4, <1>5 DEF Named
<1>7. Directory(d2)
  <2>1. \A b \in Used(d) : Slot(d2, b)[1] # Slot(d2, a)[1] /\ Slot(d2, b)[2] # Slot(d2, a)[2]
    BY <1>14, <1>4, <1>5
  <2>. QED  BY <1>14, <2>1, <1>3, <1>4 DEF Directory, DiskOK
<1>8. \A y \in Named(d) \cup {x} : y \in Sectors \ RootSectors
  BY <1>14, FilesPlace DEF DiskOK, Apart
<1>9. Apart(d, Named(d) \cup {x})
  BY <1>14 DEF Apart, DiskOK, OwnedBy
<1>10. Apart(d2, Named(d2)) /\ OwnedBy(d2, Named(d2)) = OwnedBy(d, Named(d)) \cup Owned(d, x)
  <2>1. \A y \in Named(d2) : d2[y] = d[y]
    BY <1>14, <1>6, <1>8
  <2>2. OwnedBy(d, Named(d2)) = OwnedBy(d, Named(d)) \cup Owned(d, x)
    BY <1>14, <1>6 DEF OwnedBy
  <2>3. Apart(d, Named(d2))
    BY <1>14, <1>6, <1>9
  <2>. QED  BY <1>14, <2>1, <2>2, <2>3, ApartKept
<1>11. {FREE_MAP_SECTOR, ROOT_DIR_SECTOR} \cup MapSectors \subseteq Sectors \ RootSectors
  BY <1>14, BaseIs
<1>12. Layout(d2)
  <2>1. <<x, n, TRUE>> \in Sectors \X Names \X BOOLEAN
    BY <1>14, <1>1, EntriesAre
  <2>. QED  BY <1>14, <2>1, <1>11 DEF Layout, DiskOK
<1>13. Marked(d2) = Marked(d)
  BY <1>14, <1>11, MarkedKept
<1>. QED  BY <1>14, <1>1, <1>3, <1>6, <1>7, <1>10, <1>12, <1>13 DEF DiskOK

\* The fields of the record that a call changes.
Fields == {"disk", "log", "free_map", "map_open", "inodes", "files", "fail", "ok", "done", "sector", "cells", "panic", "lost"}

\* The record of a call has these fields.
Rec(s) == s = [f \in Fields |-> s[f]]

\* Write of a sector that keeps the directory, and what the files have but for the contents
\* of those that may be written.
Rewritten(d, d2, O, W) ==
    /\ \A a \in Slots : Slot(d2, a) = Slot(d, a)
    /\ \A y \in OwnedBy(d, Named(d) \cup O) : d2[y] = d[y] \/ \E x \in W : y \in Data(d, x)

\* Write of a sector that gives a name to a file of zeros, apart from the files that are
\* open.
Added(d, d2, O) ==
    \E a \in Slots \ Used(d), x \in Sectors, n \in Names :
        /\ SlotSet(d, d2, a, <<x, n, TRUE>>) /\ Unnamed(d, n)
        /\ Owned(d, x) \cap OwnedBy(d, O) = {} /\ Blank(d, x)

\* Write of a sector that erases a name.
Removed(d, d2) ==
    \E a \in Used(d), n \in Names : SlotSet(d, d2, a, Erased(Slot(d, a)[1], n))

\* What one write of a sector does: contents of files that are open, a new name, or a name
\* less.
Moved(d, d2, O, W) == Rewritten(d, d2, O, W) \/ Added(d, d2, O) \/ Removed(d, d2)

\* The disks that the writes of the log lead through, from d0 to d: each of them is sound,
\* each write does what one write may do.
Trail(d0, lg, d, O, W) ==
    /\ \E S : lg \in Seq(S)
    /\ \E tr :
        /\ tr[0] = d0 /\ tr[Len(lg)] = d
        /\ \A k \in 0..Len(lg) : DiskOK(tr[k])
        /\ \A k \in 1..Len(lg) :
              tr[k] = [tr[k - 1] EXCEPT ![lg[k].sector] = lg[k].cells] /\ Moved(tr[k - 1], tr[k], O, W)

\* The cells of N sectors.
IsRun(blocks, N) == blocks = [j \in 1..N |-> blocks[j]]

\* The disk after the first n of the sectors of a run are written.
Wrote(d, first, blocks, n) == [i \in Sectors |-> IF i - first + 1 \in 1..n THEN blocks[i - first + 1] ELSE d[i]]

\* The empty log leads nowhere.
LEMMA TrailStarts ==
  ASSUME NEW d, DiskOK(d), NEW O, NEW W
  PROVE  Trail(d, <<>>, d, O, W)
<1>. DEFINE tr == [k \in {0} |-> d]
<1>1. <<>> \in Seq({}) /\ Len(<<>>) = 0
  OBVIOUS
<1>2. tr[0] = d /\ 0..0 = {0} /\ 1..0 = {}
  OBVIOUS
<1>. QED  BY <1>1, <1>2 DEF Trail

\* The disks at both ends of a log are sound.
LEMMA TrailEnds ==
  ASSUME NEW d0, NEW lg, NEW d, NEW O, NEW W, Trail(d0, lg, d, O, W)
  PROVE  /\ DiskOK(d0) /\ DiskOK(d) /\ Len(lg) \in Nat
         /\ lg = <<>> => d = d0
<1>1. PICK S : lg \in Seq(S)
  BY DEF Trail
<1>2. Len(lg) \in Nat
  BY <1>1
<1>3. lg = <<>> => Len(lg) = 0
  OBVIOUS
<1>. QED  BY <1>2, <1>3 DEF Trail

\* The first write of the log done, the rest leads from the next disk to the same end.
LEMMA TrailShifts ==
  ASSUME NEW d0, NEW lg, NEW d, NEW O, NEW W, Trail(d0, lg, d, O, W), lg # <<>>,
         NEW d1, d1 = [d0 EXCEPT ![Head(lg).sector] = Head(lg).cells]
  PROVE  Trail(d1, Tail(lg), d, O, W) /\ Moved(d0, d1, O, W) /\ DiskOK(d1)
<1>1. PICK S : lg \in Seq(S)
  BY DEF Trail
<1>2. PICK tr :
        /\ tr[0] = d0 /\ tr[Len(lg)] = d
        /\ \A k \in 0..Len(lg) : DiskOK(tr[k])
        /\ \A k \in 1..Len(lg) :
              tr[k] = [tr[k - 1] EXCEPT ![lg[k].sector] = lg[k].cells] /\ Moved(tr[k - 1], tr[k], O, W)
  BY DEF Trail
<1>3. /\ Len(lg) \in Nat \ {0} /\ Head(lg) = lg[1] /\ Tail(lg) \in Seq(S) /\ Len(Tail(lg)) = Len(lg) - 1
      /\ \A k \in 1..(Len(lg) - 1) : Tail(lg)[k] = lg[k + 1]
  BY <1>1
<1>4. tr[1] = d1 /\ Moved(d0, d1, O, W) /\ DiskOK(d1)
  <2>1. 1 \in 1..Len(lg) /\ 1 \in 0..Len(lg) /\ 1 - 1 = 0
    BY <1>3
  <2>2. tr[1] = [tr[1 - 1] EXCEPT ![lg[1].sector] = lg[1].cells] /\ Moved(tr[1 - 1], tr[1], O, W)
    BY <1>2, <2>1
  <2>3. tr[1] = [d0 EXCEPT ![lg[1].sector] = lg[1].cells] /\ Moved(d0, tr[1], O, W)
    BY <2>1, <2>2, <1>2
  <2>4. tr[1] = d1
    BY <2>3, <1>3
  <2>. QED  BY <1>2, <2>1, <2>3, <2>4
<1>. DEFINE tq == [k \in 0..(Len(lg) - 1) |-> tr[k + 1]]
<1>5. tq[0] = d1 /\ tq[Len(lg) - 1] = d
  BY <1>2, <1>3, <1>4
<1>6. ASSUME NEW k \in 0..(Len(lg) - 1) PROVE DiskOK(tq[k])
  BY <1>2, <1>3
<1>7. ASSUME NEW k \in 1..(Len(lg) - 1)
      PROVE  tq[k] = [tq[k - 1] EXCEPT ![Tail(lg)[k].sector] = Tail(lg)[k].cells] /\ Moved(tq[k - 1], tq[k], O, W)
  <2>1. k + 1 \in 1..Len(lg) /\ k - 1 \in 0..(Len(lg) - 1) /\ k \in 0..(Len(lg) - 1) /\ (k + 1) - 1 = k /\ (k - 1) + 1 = k
    BY <1>3
  <2>2. tr[k + 1] = [tr[(k + 1) - 1] EXCEPT ![lg[k + 1].sector] = lg[k + 1].cells] /\ Moved(tr[(k + 1) - 1], tr[k + 1], O, W)
    BY <1>2, <2>1
  <2>3. tq[k] = tr[k + 1] /\ tq[k - 1] = tr[k] /\ Tail(lg)[k] = lg[k + 1]
    BY <1>3, <2>1
  <2>. QED  BY <2>1, <2>2, <2>3
<1>8. Trail(d1, Tail(lg), d, O, W)
  <2>. HIDE DEF tq
  <2>. QED  BY <1>3, <1>5, <1>6, <1>7 DEF Trail
<1>. QED  BY <1>4, <1>8

\* One sector more of a run is written.
LEMMA WroteOne ==
  ASSUME NEW d, IsDisk(d), NEW first \in Nat, NEW blocks, NEW n \in Nat \ {0}, first + n - 1 \in Sectors
  PROVE  /\ Wrote(d, first, blocks, n) = [Wrote(d, first, blocks, n - 1) EXCEPT ![first + n - 1] = blocks[n]]
         /\ Wrote(d, first, blocks, 0) = d
<1>1. Sectors \subseteq Int
  BY Consts DEF Sectors
<1>2. ASSUME NEW i \in Sectors
      PROVE  Wrote(d, first, blocks, n)[i] = [Wrote(d, first, blocks, n - 1) EXCEPT ![first + n - 1] = blocks[n]][i]
  <2>1. CASE i = first + n - 1
    BY <2>1, <1>1 DEF Wrote
  <2>2. CASE i # first + n - 1
    BY <2>2, <1>1 DEF Wrote
  <2>. QED  BY <2>1, <2>2
<1>3. Wrote(d, first, blocks, n) = [Wrote(d, first, blocks, n - 1) EXCEPT ![first + n - 1] = blocks[n]]
  BY <1>2 DEF Wrote
<1>4. Wrote(d, first, blocks, 0) = d
  BY <1>1 DEF Wrote, IsDisk
<1>. QED  BY <1>3, <1>4

\* t is s after a run of writes: the disk, and the log.
DiskWritten(s, first, blocks, N, t) ==
    /\ Rec(t) /\ t.disk = Wrote(s.disk, first, blocks, N)
    /\ t.log = s.log \o [j \in 1..N |-> [sector |-> first + j - 1, cells |-> blocks[j]]]
    /\ \A f \in Fields \ {"disk", "log"} : t[f] = s[f]

\* What disk_write() of a run of sectors does.
LEMMA WritesAre ==
  ASSUME NEW s, Rec(s), IsDisk(s.disk), NEW first \in Nat, NEW N \in Nat, NEW blocks,
         IsRun(blocks, N)
  PROVE  DiskWritten(s, first, blocks, N, DiskWrites(s, first, blocks))
<1>1. DOMAIN blocks = 1..N /\ DOMAIN s.disk = Sectors
  BY DEF IsRun, IsDisk
<1>. DEFINE dd == [i \in DOMAIN s.disk |-> IF i - first + 1 \in DOMAIN blocks THEN blocks[i - first + 1] ELSE s.disk[i]]
            t == DiskWrites(s, first, blocks)
            ll == s.log \o [j \in DOMAIN blocks |-> [sector |-> first + j - 1, cells |-> blocks[j]]]
<1>2. t = [s EXCEPT !.disk = dd, !.log = ll]
  BY DEF DiskWrites
<1>3. dd = Wrote(s.disk, first, blocks, N) /\ ll = s.log \o [j \in 1..N |-> [sector |-> first + j - 1, cells |-> blocks[j]]]
  BY <1>1 DEF Wrote
<1>. HIDE DEF dd, ll
<1>4. Rec(t) /\ t.disk = dd /\ t.log = ll /\ \A f \in Fields \ {"disk", "log"} : t[f] = s[f]
  BY <1>2 DEF Rec, Fields
<1>. HIDE DEF t
<1>. QED  BY <1>3, <1>4 DEF DiskWritten, t

\* A run of writes goes to the end of the log, when each of them is sound.
LEMMA TrailMore ==
  ASSUME NEW d0, NEW O, NEW W, NEW lg, NEW d, Trail(d0, lg, d, O, W),
         NEW first \in Nat, NEW N \in Nat, NEW blocks, \A j \in 1..N : first + j - 1 \in Sectors,
         \A n \in 0..N : DiskOK(Wrote(d, first, blocks, n)),
         \A n \in 1..N : Moved(Wrote(d, first, blocks, n - 1), Wrote(d, first, blocks, n), O, W)
  PROVE  Trail(d0, lg \o [j \in 1..N |-> [sector |-> first + j - 1, cells |-> blocks[j]]], Wrote(d, first, blocks, N), O, W)
<1>. DEFINE new == [j \in 1..N |-> [sector |-> first + j - 1, cells |-> blocks[j]]]
            T == {new[j] : j \in 1..N}
            M == Len(lg)
<1>1. PICK S : lg \in Seq(S)
  BY DEF Trail
<1>2. PICK tr :
        /\ tr[0] = d0 /\ tr[Len(lg)] = d
        /\ \A k \in 0..Len(lg) : DiskOK(tr[k])
        /\ \A k \in 1..Len(lg) :
              tr[k] = [tr[k - 1] EXCEPT ![lg[k].sector] = lg[k].cells] /\ Moved(tr[k - 1], tr[k], O, W)
  BY DEF Trail
<1>3. new \in Seq(T) /\ Len(new) = N /\ \A j \in 1..N : new[j].sector = first + j - 1 /\ new[j].cells = blocks[j]
  <2>1. \A j \in 1..N : new[j] \in T
    OBVIOUS
  <2>2. new = [j \in 1..N |-> new[j]]
    OBVIOUS
  <2>3. \A j \in 1..N : new[j].sector = first + j - 1 /\ new[j].cells = blocks[j]
    OBVIOUS
  <2>. HIDE DEF new, T
  <2>4. new \in [1..N -> T]
    BY <2>1, <2>2
  <2>. QED  BY <2>3, <2>4
<1>. HIDE DEF new, T
<1>. DEFINE more == lg \o new
<1>4. /\ more \in Seq(S \cup T) /\ M \in Nat /\ Len(more) = M + N
      /\ \A k \in 1..M : more[k] = lg[k]
      /\ \A n \in 1..N : more[M + n] = new[n]
  <2>1. lg \in Seq(S \cup T) /\ new \in Seq(S \cup T)
    BY <1>1, <1>3
  <2>2. more \in Seq(S \cup T) /\ M \in Nat /\ Len(more) = M + N
    <3>1. more \in Seq(S \cup T)
      BY <2>1
    <3>2. M \in Nat
      BY <2>1
    <3>3. Len(more) = M + N
      <4>1. Len(lg \o new) = Len(lg) + Len(new)
        BY <2>1
      <4>. QED  BY <4>1, <1>3
    <3>. QED  BY <3>1, <3>2, <3>3
  <2>3. ASSUME NEW k \in 1..M PROVE more[k] = lg[k]
    BY <2>1, <1>3
  <2>4. ASSUME NEW n \in 1..N PROVE more[M + n] = new[n]
    BY <2>1, <1>3
  <2>. QED  BY <2>2, <2>3, <2>4
<1>. HIDE DEF more
<1>5. IsDisk(d)
  BY TrailEnds DEF DiskOK, Layout
<1>11. ASSUME NEW n \in 1..N
       PROVE  Wrote(d, first, blocks, n) = [Wrote(d, first, blocks, n - 1) EXCEPT ![first + n - 1] = blocks[n]]
  <2>1. n \in Nat \ {0} /\ first + n - 1 \in Sectors
    OBVIOUS
  <2>. QED  BY <2>1, <1>5, WroteOne
<1>. DEFINE tq == [k \in 0..(M + N) |-> IF k <= M THEN tr[k] ELSE Wrote(d, first, blocks, k - M)]
<1>6. /\ \A k \in 0..M : tq[k] = tr[k]
      /\ \A n \in 0..N : tq[M + n] = Wrote(d, first, blocks, n)
  <2>1. Wrote(d, first, blocks, 0) = d
    <3>1. Sectors \subseteq Int
      BY Consts DEF Sectors
    <3>. QED  BY <3>1, <1>5 DEF Wrote, IsDisk
  <2>2. \A k \in 0..M : tq[k] = tr[k]
    BY <1>4
  <2>3. ASSUME NEW n \in 0..N PROVE tq[M + n] = Wrote(d, first, blocks, n)
    <3>1. CASE n = 0
      BY <3>1, <2>1, <2>2, <1>2, <1>4
    <3>2. CASE n # 0
      <4>1. M + n \in 0..(M + N) /\ ~(M + n <= M) /\ (M + n) - M = n
        BY <3>2, <1>4
      <4>. QED  BY <4>1
    <3>. QED  BY <3>1, <3>2
  <2>. QED  BY <2>2, <2>3
<1>. HIDE DEF tq
<1>7. tq[0] = d0 /\ tq[Len(more)] = Wrote(d, first, blocks, N)
  BY <1>2, <1>4, <1>6
<1>8. ASSUME NEW k \in 0..Len(more) PROVE DiskOK(tq[k])
  <2>1. CASE k <= M
    BY <2>1, <1>2, <1>4, <1>6
  <2>2. CASE k > M
    <3>1. k - M \in 0..N /\ M + (k - M) = k
      BY <2>2, <1>4
    <3>. QED  BY <3>1, <1>6
  <2>. QED  BY <2>1, <2>2, <1>4
<1>9. ASSUME NEW k \in 1..Len(more)
      PROVE  tq[k] = [tq[k - 1] EXCEPT ![more[k].sector] = more[k].cells] /\ Moved(tq[k - 1], tq[k], O, W)
  <2>1. CASE k <= M
    <3>1. k \in 1..M /\ k - 1 \in 0..M /\ k \in 0..M
      BY <2>1, <1>4
    <3>. QED  BY <3>1, <1>2, <1>4, <1>6
  <2>2. CASE k > M
    <3>. DEFINE n == k - M
    <3>1. n \in 1..N /\ n - 1 \in 0..N /\ n \in 0..N /\ k = M + n /\ k - 1 = M + (n - 1) /\ n \in Nat \ {0}
      BY <2>2, <1>4
    <3>. HIDE DEF n
    <3>3. Wrote(d, first, blocks, n) = [Wrote(d, first, blocks, n - 1) EXCEPT ![first + n - 1] = blocks[n]]
      BY <3>1, <1>11
    <3>4. more[k].sector = first + n - 1 /\ more[k].cells = blocks[n]
      BY <3>1, <1>3, <1>4
    <3>5. tq[k] = Wrote(d, first, blocks, n) /\ tq[k - 1] = Wrote(d, first, blocks, n - 1)
      BY <3>1, <1>6
    <3>. QED  BY <3>1, <3>3, <3>4, <3>5
  <2>. QED  BY <2>1, <2>2, <1>4
<1>10. Trail(d0, more, Wrote(d, first, blocks, N), O, W)
  BY <1>4, <1>7, <1>8, <1>9 DEF Trail
<1>. QED  BY <1>10 DEF more, new

\* Records s and t differ in the fields F at most.
Like(s, t, F) == Rec(t) /\ \A f \in Fields \ F : t[f] = s[f]

\* The fields that the invariant says nothing of.
Scratch == {"ok", "fail", "done", "sector", "cells", "lost", "files"}

\* The sectors of the two system inodes.
Special == {FREE_MAP_SECTOR, ROOT_DIR_SECTOR}

\* An open inode is removed when no name and no system inode is left for it.
Gone(d, x) == IF x \in Named(d) \cup Special THEN FALSE ELSE TRUE

\* The inode in memory, from the disk and the numbers of openers and deniers.
Inode(d, x, cnt, dn) ==
    [open_cnt |-> cnt[x], removed |-> Gone(d, x), deny_write_cnt |-> dn[x],
     start |-> Header(d, x).start, length |-> Header(d, x).length]

\* The list of open inodes is a function.
IsNodes(nodes) == nodes = [i \in DOMAIN nodes |-> nodes[i]]

\* The list of open inodes has an inode for each sector with an opener, as the disk has it,
\* and no more deniers than openers.
Opens(d, nodes, cnt, dn) ==
    /\ cnt \in [Sectors -> Nat] /\ dn \in [Sectors -> Nat]
    /\ DOMAIN nodes = {i \in Sectors : cnt[i] > 0} /\ IsNodes(nodes)
    /\ \A i \in DOMAIN nodes : nodes[i] = Inode(d, i, cnt, dn)
    /\ \A i \in Sectors : dn[i] <= cnt[i]
    /\ cnt[FREE_MAP_SECTOR] > 0 /\ dn[FREE_MAP_SECTOR] = 0 /\ dn[ROOT_DIR_SECTOR] = 0

\* The sectors of the files that exist: they have a name, or are open.
Live(s) == Named(s.disk) \cup (DOMAIN s.inodes \ Special)

\* The map in memory has the sectors of the system, of the files that live, and of P.
Space(d, fm, live, P) ==
    /\ Apart(d, live) /\ P \subseteq Sectors
    /\ fm = [i \in Sectors |-> fm[i]]
    /\ \A i \in Sectors : fm[i] \in BOOLEAN /\ (fm[i] <=> i \in Base \cup OwnedBy(d, live) \cup P)
    /\ P \cap (Base \cup OwnedBy(d, live)) = {}

\* The state inside of a call: the log leads to the disk of the call, the open inodes are
\* counted by cnt and dn, and the map has those in use and those of P, which the call or
\* nobody owns.
Good(s, c, cnt, dn, P) ==
    /\ Rec(s) /\ s.map_open /\ ~s.panic /\ s.fail \in Nat
    /\ Trail(c.from, s.log, s.disk, c.open, c.write)
    /\ Opens(s.disk, s.inodes, cnt, dn)
    /\ Space(s.disk, s.free_map, Live(s), P)
    /\ c.open \cup c.write \subseteq DOMAIN s.inodes \ Special

\* What two such records have in common.
LEMMA LikeMeans ==
  ASSUME NEW s, NEW t, NEW F, Like(s, t, F)
  PROVE  /\ Rec(t)
         /\ "disk" \notin F => t.disk = s.disk
         /\ "log" \notin F => t.log = s.log
         /\ "free_map" \notin F => t.free_map = s.free_map
         /\ "map_open" \notin F => t.map_open = s.map_open
         /\ "inodes" \notin F => t.inodes = s.inodes
         /\ "files" \notin F => t.files = s.files
         /\ "fail" \notin F => t.fail = s.fail
         /\ "ok" \notin F => t.ok = s.ok
         /\ "done" \notin F => t.done = s.done
         /\ "sector" \notin F => t.sector = s.sector
         /\ "cells" \notin F => t.cells = s.cells
         /\ "panic" \notin F => t.panic = s.panic
         /\ "lost" \notin F => t.lost = s.lost
BY DEF Like, Fields

\* With more fields.
LEMMA LikeWider ==
  ASSUME NEW s, NEW t, NEW F, NEW G, Like(s, t, F), F \subseteq G
  PROVE  Like(s, t, G)
BY DEF Like

\* One after the other.
LEMMA LikeChains ==
  ASSUME NEW s, NEW t, NEW u, NEW F, NEW G, NEW H, Like(s, t, F), Like(t, u, G), F \cup G \subseteq H
  PROVE  Like(s, u, H)
BY DEF Like

\* A step that changes only scratch fields.
LEMMA GoodLike ==
  ASSUME NEW s, NEW c, NEW cnt, NEW dn, NEW P, Good(s, c, cnt, dn, P),
         NEW t, Like(s, t, Scratch), t.fail \in Nat
  PROVE  Good(t, c, cnt, dn, P) /\ Live(t) = Live(s)
<1>1. /\ Rec(t) /\ t.disk = s.disk /\ t.log = s.log /\ t.free_map = s.free_map /\ t.map_open = s.map_open
      /\ t.inodes = s.inodes /\ t.panic = s.panic
  BY DEF Like, Fields, Scratch
<1>2. Live(t) = Live(s)
  BY <1>1 DEF Live
<1>. QED  BY <1>1, <1>2 DEF Good

\* What an allocation does to the record.
LEMMA AllocIs ==
  ASSUME NEW s, Rec(s), s.fail \in Nat
  PROVE  LET t == Alloc(s) IN
         /\ Like(s, t, {"ok", "fail"}) /\ t.ok \in BOOLEAN /\ (t.ok <=> s.fail # 1)
         /\ t.fail \in Nat /\ t.fail <= s.fail /\ (s.fail = 0 => t.ok) /\ (s.fail # 0 => t.fail = s.fail - 1)
<1>. DEFINE t == Alloc(s)
<1>1. Rec(t) /\ t.fail = (IF s.fail = 0 THEN 0 ELSE s.fail - 1) /\ \A f \in Fields \ {"ok", "fail"} : t[f] = s[f]
  BY DEF Alloc, Rec, Fields
<1>2. t.ok <=> s.fail # 1
  BY DEF Alloc, Rec, Fields
<1>3. t.ok \in BOOLEAN
  BY DEF Alloc, Rec, Fields
<1>4. Like(s, t, {"ok", "fail"})
  BY <1>1 DEF Like
<1>. QED  BY <1>1, <1>2, <1>3, <1>4

\* What the loop of a read or write does, and how far it gets.
LEMMA TransferIs ==
  ASSUME NEW s, Rec(s), s.fail \in Nat, NEW inode, inode.length \in Nat, NEW size \in Nat, NEW offset \in Nat
  PROVE  LET r == Transfer(s, inode, size, offset) IN
         /\ Like(s, r.s, {"ok", "fail"}) /\ r.s.fail \in Nat /\ r.s.fail <= s.fail
         /\ r.done \in Nat /\ r.done <= size /\ (r.done > 0 => offset + r.done <= inode.length)
         /\ s.fail = 0 /\ offset + size <= inode.length => r.done = size
         /\ size = 1 /\ offset < inode.length => r.s = Alloc(s) /\ r.done = (IF s.fail # 1 THEN 1 ELSE 0)
         /\ offset >= inode.length => r.s = s /\ r.done = 0
         /\ offset = 0 /\ size = inode.length => /\ r.s = (IF Divides(size) THEN s ELSE Alloc(s))
                                                 /\ r.done = size \/ ~r.s.ok
<1>. DEFINE left == inode.length - offset
            n == IF left < 0 THEN 0 ELSE IF size < left THEN size ELSE left
            whole == IF offset % CELLS # 0 THEN 0 ELSE (n \div CELLS) * CELLS
            a == Alloc(s)
            r == Transfer(s, inode, size, offset)
<1>1. r = IF whole = n THEN [s |-> s, done |-> n] ELSE [s |-> a, done |-> IF a.ok THEN n ELSE whole]
  BY DEF Transfer, With
<1>2. /\ n \in Nat /\ n <= size /\ (n > 0 => offset + n <= inode.length)
      /\ (offset + size <= inode.length => n = size) /\ (offset >= inode.length => n = 0)
      /\ (size = 1 /\ offset < inode.length => n = 1)
  OBVIOUS
<1>3. /\ whole \in Nat /\ whole <= n
      /\ n = 1 => whole = 0
      /\ offset = 0 => (whole = n <=> Divides(n))
  <2>. HIDE DEF n
  <2>1. (n \div CELLS) * CELLS \in Nat /\ (n \div CELLS) * CELLS <= n /\ ((n \div CELLS) * CELLS = n <=> n % CELLS = 0)
    BY <1>2, WholeCells
  <2>3. n = 1 => n % CELLS = 1
    BY Consts
  <2>4. 0 % CELLS = 0
    BY Consts
  <2>. QED  BY <2>1, <2>3, <2>4, <1>2 DEF Divides
<1>4. Like(s, s, {"ok", "fail"})
  BY DEF Like
<1>5. /\ Like(s, a, {"ok", "fail"}) /\ a.ok \in BOOLEAN /\ (a.ok <=> s.fail # 1) /\ a.fail \in Nat /\ a.fail <= s.fail
      /\ (s.fail = 0 => a.ok)
  BY AllocIs
<1>. HIDE DEF n, whole, a, left, r
<1>6. ASSUME whole = n
      PROVE  /\ Like(s, r.s, {"ok", "fail"}) /\ r.s.fail \in Nat /\ r.s.fail <= s.fail
             /\ r.done \in Nat /\ r.done <= size /\ (r.done > 0 => offset + r.done <= inode.length)
             /\ s.fail = 0 /\ offset + size <= inode.length => r.done = size
             /\ size = 1 /\ offset < inode.length => r.s = Alloc(s) /\ r.done = (IF s.fail # 1 THEN 1 ELSE 0)
             /\ offset >= inode.length => r.s = s /\ r.done = 0
             /\ offset = 0 /\ size = inode.length => /\ r.s = (IF Divides(size) THEN s ELSE Alloc(s))
                                                     /\ r.done = size \/ ~r.s.ok
  <2>1. r.s = s /\ r.done = n
    BY <1>1, <1>6
  <2>2. size = 1 /\ offset < inode.length => FALSE
    BY <1>6, <1>3, <1>2
  <2>3. offset = 0 /\ size = inode.length => n = size /\ Divides(size)
    BY <1>2, <1>3, <1>6
  <2>. QED  BY <2>1, <2>2, <2>3, <1>2, <1>4
<1>7. ASSUME whole # n
      PROVE  /\ Like(s, r.s, {"ok", "fail"}) /\ r.s.fail \in Nat /\ r.s.fail <= s.fail
             /\ r.done \in Nat /\ r.done <= size /\ (r.done > 0 => offset + r.done <= inode.length)
             /\ s.fail = 0 /\ offset + size <= inode.length => r.done = size
             /\ size = 1 /\ offset < inode.length => r.s = Alloc(s) /\ r.done = (IF s.fail # 1 THEN 1 ELSE 0)
             /\ offset >= inode.length => r.s = s /\ r.done = 0
             /\ offset = 0 /\ size = inode.length => /\ r.s = (IF Divides(size) THEN s ELSE Alloc(s))
                                                     /\ r.done = size \/ ~r.s.ok
  <2>1. r.s = a /\ r.done = (IF a.ok THEN n ELSE whole)
    BY <1>1, <1>7
  <2>2. size = 1 /\ offset < inode.length => n = 1 /\ whole = 0
    BY <1>2, <1>3
  <2>3. offset >= inode.length => FALSE
    BY <1>2, <1>3, <1>7
  <2>4. offset = 0 /\ size = inode.length => n = size /\ ~Divides(size)
    BY <1>2, <1>3, <1>7
  <2>5. CASE a.ok
    BY <2>1, <2>2, <2>3, <2>4, <2>5, <1>2, <1>5 DEF a
  <2>6. CASE ~a.ok
    BY <2>1, <2>2, <2>3, <2>4, <2>6, <1>2, <1>3, <1>5 DEF a
  <2>. QED  BY <2>5, <2>6
<1>8. /\ Like(s, r.s, {"ok", "fail"}) /\ r.s.fail \in Nat /\ r.s.fail <= s.fail
      /\ r.done \in Nat /\ r.done <= size /\ (r.done > 0 => offset + r.done <= inode.length)
      /\ s.fail = 0 /\ offset + size <= inode.length => r.done = size
      /\ size = 1 /\ offset < inode.length => r.s = Alloc(s) /\ r.done = (IF s.fail # 1 THEN 1 ELSE 0)
      /\ offset >= inode.length => r.s = s /\ r.done = 0
      /\ offset = 0 /\ size = inode.length => /\ r.s = (IF Divides(size) THEN s ELSE Alloc(s))
                                              /\ r.done = size \/ ~r.s.ok
  BY <1>6, <1>7
<1>. QED  BY <1>8 DEF r

\* The parts of Good that its users need.
LEMMA GoodMeans ==
  ASSUME NEW s, NEW c, NEW cnt, NEW dn, NEW P, Good(s, c, cnt, dn, P)
  PROVE  /\ Rec(s) /\ DiskOK(s.disk) /\ Layout(s.disk) /\ IsDisk(s.disk) /\ s.fail \in Nat
         /\ Apart(s.disk, Live(s)) /\ Apart(s.disk, Named(s.disk))
         /\ Named(s.disk) \subseteq Live(s) /\ Live(s) \subseteq Sectors \ Base
         /\ DOMAIN s.inodes = {i \in Sectors : cnt[i] > 0}
         /\ Base \cup OwnedBy(s.disk, Named(s.disk)) \subseteq Marked(s.disk)
         /\ OwnedBy(s.disk, Named(s.disk)) \subseteq OwnedBy(s.disk, Live(s))
         /\ \A x \in Live(s) : Owned(s.disk, x) \subseteq OwnedBy(s.disk, Live(s)) /\ FileAt(s.disk, x)
<1>1. DiskOK(s.disk) /\ Rec(s) /\ s.fail \in Nat
  BY TrailEnds DEF Good
<1>2. Apart(s.disk, Live(s)) /\ Named(s.disk) \subseteq Live(s)
  BY DEF Good, Space, Live
<1>3. Live(s) \subseteq Sectors \ Base
  BY <1>2, FilesPlace DEF Apart
<1>4. DOMAIN s.inodes = {i \in Sectors : cnt[i] > 0}
  BY DEF Good, Opens
<1>5. \A x \in Live(s) : Owned(s.disk, x) \subseteq OwnedBy(s.disk, Live(s)) /\ FileAt(s.disk, x)
  BY <1>2 DEF OwnedBy, Apart
<1>6. OwnedBy(s.disk, Named(s.disk)) \subseteq OwnedBy(s.disk, Live(s))
  BY <1>2 DEF OwnedBy
<1>. QED  BY <1>1, <1>2, <1>3, <1>4, <1>5, <1>6 DEF DiskOK, Layout

\* The entries, the files that live and their inodes are the same.
Stable(s, t) ==
    /\ Named(t.disk) = Named(s.disk) /\ Live(t) = Live(s)
    /\ \A a \in Slots : Slot(t.disk, a) = Slot(s.disk, a)
    /\ \A x \in Live(s) : Header(t.disk, x) = Header(s.disk, x)
    /\ OwnedBy(t.disk, Live(s)) = OwnedBy(s.disk, Live(s))

\* One after the other.
LEMMA StableChains ==
  ASSUME NEW s, NEW t, NEW u, Stable(s, t), Stable(t, u)
  PROVE  Stable(s, u)
BY DEF Stable

\* A step that leaves the disk and the open inodes alone.
LEMMA StableLike ==
  ASSUME NEW s, NEW t, NEW F, Like(s, t, F), "disk" \notin F, "inodes" \notin F
  PROVE  Stable(s, t)
<1>1. t.disk = s.disk /\ t.inodes = s.inodes
  BY LikeMeans
<1>. QED  BY <1>1 DEF Stable, Live

\* A run of writes to sectors of the map, of contents that may be written, or of nobody.
LEMMA GoodWrites ==
  ASSUME NEW s, NEW c, NEW cnt, NEW dn, NEW P, Good(s, c, cnt, dn, P),
         NEW first \in Nat, NEW N \in Nat, NEW blocks, IsRun(blocks, N),
         \A j \in 1..N : first + j - 1 \in Sectors \ (Special \cup RootSectors \cup Live(s)),
         \A j \in 1..N : first + j - 1 \in OwnedBy(s.disk, Live(s)) =>
             \E x \in c.write : first + j - 1 \in Data(s.disk, x),
         \A n \in 0..N : Base \cup OwnedBy(s.disk, Named(s.disk)) \subseteq Marked(Wrote(s.disk, first, blocks, n))
  PROVE  LET t == DiskWrites(s, first, blocks) IN
         /\ Good(t, c, cnt, dn, P) /\ Like(s, t, {"disk", "log"}) /\ t.disk = Wrote(s.disk, first, blocks, N)
         /\ Stable(s, t)
<1>. DEFINE d == s.disk
            D(n) == Wrote(s.disk, first, blocks, n)
            L == Live(s)
            t == DiskWrites(s, first, blocks)
<1>1. /\ Rec(s) /\ DiskOK(d) /\ IsDisk(d) /\ Apart(d, L) /\ Named(d) \subseteq L
      /\ L \subseteq Sectors \ Base /\ DOMAIN s.inodes = {i \in Sectors : cnt[i] > 0}
  BY GoodMeans
<1>2. ASSUME NEW n \in 0..N
      PROVE  /\ IsDisk(D(n))
             /\ \A i \in Special \cup RootSectors \cup L : D(n)[i] = d[i]
  <2>1. \A i \in Sectors : D(n)[i] = IF i - first + 1 \in 1..n THEN blocks[i - first + 1] ELSE d[i]
    BY DEF Wrote
  <2>2. ASSUME NEW i \in Special \cup RootSectors \cup L PROVE i \in Sectors /\ i - first + 1 \notin 1..n
    <3>1. i \in Sectors
      BY <1>1, BaseIs DEF Special, RootSectors, Run
    <3>2. i \in Nat
      BY <3>1, BaseIs
    <3>3. i - first + 1 \in 1..n => i - first + 1 \in 1..N /\ first + (i - first + 1) - 1 = i
      BY <3>2
    <3>. QED  BY <3>1, <3>3
  <2>3. IsDisk(D(n))
    BY DEF Wrote, IsDisk
  <2>. QED  BY <2>1, <2>2, <2>3
<1>3. ASSUME NEW n \in 0..N
      PROVE  /\ DiskOK(D(n)) /\ Named(D(n)) = Named(d) /\ Apart(D(n), L)
             /\ OwnedBy(D(n), L) = OwnedBy(d, L) /\ OwnedBy(D(n), Named(D(n)) \cup c.open) = OwnedBy(d, Named(d) \cup c.open)
             /\ \A a \in Slots : Slot(D(n), a) = Slot(d, a)
             /\ \A x \in L : Header(D(n), x) = Header(d, x) /\ Data(D(n), x) = Data(d, x)
             /\ \A x \in Special : Header(D(n), x) = Header(d, x)
  <2>. HIDE DEF D, d, L
  <2>1. DiskOK(D(n))
    <3>1. Base \cup OwnedBy(d, Named(d)) \subseteq Marked(D(n))
      BY DEF d, D
    <3>2. \A i \in {FREE_MAP_SECTOR, ROOT_DIR_SECTOR} \cup RootSectors \cup Named(d) : D(n)[i] = d[i]
      BY <1>1, <1>2 DEF Special
    <3>. QED  BY <3>1, <3>2, <1>1, <1>2, DiskKept
  <2>2. Named(D(n)) = Named(d) /\ \A a \in Slots : Slot(D(n), a) = Slot(d, a)
    BY <1>2, DirectoryKept
  <2>3. /\ Apart(D(n), L) /\ OwnedBy(D(n), L) = OwnedBy(d, L)
        /\ \A x \in L : Header(D(n), x) = Header(d, x) /\ Data(D(n), x) = Data(d, x)
    <3>1. \A x \in L : D(n)[x] = d[x]
      BY <1>2
    <3>2. Apart(d, L)
      BY <1>1
    <3>3. OwnedBy(D(n), L) = OwnedBy(d, L) /\ (Apart(d, L) => Apart(D(n), L))
      BY <3>1, ApartKept
    <3>4. \A x \in L : Header(D(n), x) = Header(d, x)
      BY <3>1 DEF Header
    <3>5. \A x \in L : Data(D(n), x) = Data(d, x)
      BY <3>4 DEF Data
    <3>. QED  BY <3>2, <3>3, <3>4, <3>5
  <2>4. OwnedBy(D(n), Named(d) \cup c.open) = OwnedBy(d, Named(d) \cup c.open)
    <3>1. Named(d) \cup c.open \subseteq L
      BY <1>1 DEF Good, Live, L, d
    <3>. QED  BY <3>1, <1>2, ApartKept
  <2>5. \A x \in Special : Header(D(n), x) = Header(d, x)
    BY <1>2, ApartKept
  <2>. QED  BY <2>1, <2>2, <2>3, <2>4, <2>5
<1>4. c.open \subseteq L /\ c.write \subseteq L
  BY DEF Good, Live
<1>5. ASSUME NEW n \in 1..N PROVE Moved(D(n - 1), D(n), c.open, c.write)
  <2>1. n \in 0..N /\ n - 1 \in 0..N /\ n \in Nat \ {0} /\ first + n - 1 \in Sectors
    OBVIOUS
  <2>2. D(n) = [D(n - 1) EXCEPT ![first + n - 1] = blocks[n]]
    <3>1. IsDisk(d) /\ n \in Nat \ {0} /\ first + n - 1 \in Sectors
      BY <1>1, <2>1
    <3>2. Wrote(d, first, blocks, n) = [Wrote(d, first, blocks, n - 1) EXCEPT ![first + n - 1] = blocks[n]]
      BY <3>1, WroteOne
    <3>. QED  BY <3>2
  <2>. HIDE DEF D, d, L
  <2>3. \A a \in Slots : Slot(D(n), a) = Slot(D(n - 1), a)
    BY <1>3, <2>1
  <2>4. ASSUME NEW y \in OwnedBy(D(n - 1), Named(D(n - 1)) \cup c.open), D(n)[y] # D(n - 1)[y]
        PROVE  \E x \in c.write : y \in Data(D(n - 1), x)
    <3>1. y = first + n - 1
      BY <2>1, <2>2, <2>4, <1>2
    <3>2. y \in OwnedBy(d, L)
      <4>1. y \in OwnedBy(d, Named(d) \cup c.open)
        BY <1>3, <2>1
      <4>. QED  BY <4>1, <1>1, <1>4 DEF OwnedBy
    <3>3. PICK x \in c.write : y \in Data(d, x)
      BY <3>1, <3>2 DEF d, L
    <3>4. Data(D(n - 1), x) = Data(d, x)
      BY <1>3, <1>4, <2>1
    <3>. QED  BY <3>3, <3>4
  <2>. QED  BY <2>3, <2>4 DEF Moved, Rewritten
<1>6. /\ Rec(t) /\ t.disk = D(N) /\ t.log = s.log \o [j \in 1..N |-> [sector |-> first + j - 1, cells |-> blocks[j]]]
      /\ \A f \in Fields \ {"disk", "log"} : t[f] = s[f]
  <2>1. Rec(s) /\ IsDisk(s.disk)
    BY <1>1
  <2>2. first \in Nat /\ N \in Nat /\ IsRun(blocks, N)
    OBVIOUS
  <2>3. /\ Rec(t) /\ t.disk = Wrote(s.disk, first, blocks, N)
        /\ t.log = s.log \o [j \in 1..N |-> [sector |-> first + j - 1, cells |-> blocks[j]]]
        /\ \A f \in Fields \ {"disk", "log"} : t[f] = s[f]
    <3>1. DiskWritten(s, first, blocks, N, t)
      BY <2>1, <2>2, WritesAre
    <3>. QED  BY <3>1 DEF DiskWritten
  <2>. QED  BY <2>3
<1>7. Trail(c.from, t.log, t.disk, c.open, c.write)
  <2>1. Trail(c.from, s.log, d, c.open, c.write)
    BY DEF Good
  <2>2. \A j \in 1..N : first + j - 1 \in Sectors
    OBVIOUS
  <2>3. \A n \in 0..N : DiskOK(Wrote(d, first, blocks, n))
    BY <1>3
  <2>4. \A n \in 1..N : Moved(Wrote(d, first, blocks, n - 1), Wrote(d, first, blocks, n), c.open, c.write)
    BY <1>5
  <2>. HIDE DEF D, d
  <2>5. Trail(c.from, s.log \o [j \in 1..N |-> [sector |-> first + j - 1, cells |-> blocks[j]]],
              Wrote(d, first, blocks, N), c.open, c.write)
    BY <2>1, <2>2, <2>3, <2>4, TrailMore
  <2>. QED  BY <2>5, <1>6 DEF D, d
<1>8. /\ N \in 0..N
      /\ t.free_map = s.free_map /\ t.map_open = s.map_open /\ t.inodes = s.inodes /\ t.panic = s.panic /\ t.fail = s.fail
  <2>1. \A f \in Fields \ {"disk", "log"} : t[f] = s[f]
    BY <1>6
  <2>2. N \in 0..N
    OBVIOUS
  <2>. QED  BY ONLY <2>1, <2>2 DEF Fields
<1>. HIDE DEF D, d, L, t
<1>9. Named(t.disk) = Named(d) /\ Live(t) = L
  BY <1>3, <1>6, <1>8 DEF Live, L, d
<1>10. Opens(t.disk, t.inodes, cnt, dn)
  <2>1. Opens(d, s.inodes, cnt, dn)
    BY DEF Good, d
  <2>2. \A i \in DOMAIN s.inodes : i \in L \cup Special
    BY DEF Live, L, d
  <2>3. \A i \in DOMAIN s.inodes : Header(t.disk, i) = Header(d, i)
    BY <2>2, <1>3, <1>6, <1>8
  <2>4. \A i \in DOMAIN s.inodes : Inode(t.disk, i, cnt, dn) = Inode(d, i, cnt, dn)
    <3>1. \A i : Gone(t.disk, i) = Gone(d, i)
      BY <1>9 DEF Gone
    <3>. QED  BY <3>1, <2>3 DEF Inode
  <2>. QED  BY ONLY <2>1, <2>4, <1>8 DEF Opens
<1>11. Space(t.disk, t.free_map, Live(t), P)
  <2>1. Space(d, s.free_map, L, P)
    BY DEF Good, d, L
  <2>2. Apart(t.disk, L) /\ OwnedBy(t.disk, L) = OwnedBy(d, L)
    BY <1>3, <1>6, <1>8
  <2>. QED  BY <2>1, <2>2, <1>8, <1>9 DEF Space
<1>12. Good(t, c, cnt, dn, P)
  BY <1>6, <1>7, <1>8, <1>10, <1>11 DEF Good
<1>13. Like(s, t, {"disk", "log"})
  BY <1>6 DEF Like
<1>14. Stable(s, t)
  BY <1>3, <1>6, <1>8, <1>9 DEF Stable, d, L
<1>. QED  BY <1>6, <1>12, <1>13, <1>14 DEF D, d, t

\* The number of sectors that a write of done cells touches.
Touched(offset, done) == IF done = 0 THEN 0 ELSE ((offset + done - 1) \div CELLS) - (offset \div CELLS) + 1

\* The sectors of a write, as they are after it.
Blocks(s, inode, cells, offset, done) ==
    [j \in 1..Touched(offset, done) |-> Merged(s, inode, (offset \div CELLS) + j - 1, cells, offset, done)]

\* What inode_write_at() does, in these terms.
WriteOf(s, inode, cells, offset, r, N, blocks, t) ==
    /\ N \in Nat /\ IsRun(blocks, N)
    /\ Like(DiskWrites(r.s, inode.start + (offset \div CELLS), blocks), t, {"ok", "done"})
    /\ t.ok \in BOOLEAN /\ (t.ok <=> r.done = Len(cells)) /\ t.done = r.done
    /\ r.done = 0 => N = 0
    /\ r.done > 0 => /\ N = ((offset + r.done - 1) \div CELLS) - (offset \div CELLS) + 1
                     /\ (offset \div CELLS) + N <= BytesToSectors(inode.length)
    /\ \A j \in 1..N, k \in 1..CELLS :
          LET ofs == ((offset \div CELLS) + j - 1) * CELLS + k - 1 IN
          blocks[j][k] = IF offset <= ofs /\ ofs < offset + r.done THEN cells[ofs - offset + 1]
                         ELSE s.disk[inode.start + ((offset \div CELLS) + j - 1)][k]

\* inode_write_at() is a transfer that got as far as r, and a run of writes.
LEMMA WriteParts ==
  ASSUME NEW s, Rec(s), IsDisk(s.disk), s.fail \in Nat, NEW x, NEW inode, inode = s.inodes[x],
         inode.start \in Nat, inode.length \in Nat,
         NEW cells, Len(cells) \in Nat, NEW offset \in Nat, inode.deny_write_cnt = 0
  PROVE  LET r == Transfer(s, inode, Len(cells), offset)
             N == Touched(offset, r.done)
             blocks == Blocks(s, inode, cells, offset, r.done)
         IN  WriteOf(s, inode, cells, offset, r, N, blocks, InodeWriteAt(s, x, cells, offset))
<1>. DEFINE first == offset \div CELLS
            r == Transfer(s, inode, Len(cells), offset)
            N == Touched(offset, r.done)
            blocks == Blocks(s, inode, cells, offset, r.done)
            w == DiskWrites(r.s, inode.start + first, blocks)
            t == InodeWriteAt(s, x, cells, offset)
<1>1. t = [w EXCEPT !.ok = (r.done = Len(cells)), !.done = r.done]
  <2>1. ~(inode.deny_write_cnt > 0)
    OBVIOUS
  <2>. QED  BY <2>1 DEF InodeWriteAt, With, Blocks, Touched
<1>2. r.done \in Nat /\ (r.done > 0 => offset + r.done <= inode.length) /\ Like(s, r.s, {"ok", "fail"})
  BY TransferIs
<1>3. IsRun(blocks, N)
  BY DEF IsRun, Blocks
<1>4. first \in Nat
  BY Cells
<1>. HIDE DEF first, r, w, t
<1>5. /\ N \in Nat /\ (r.done = 0 => N = 0)
      /\ r.done > 0 => N = ((offset + r.done - 1) \div CELLS) - first + 1 /\ first + N <= BytesToSectors(inode.length)
  <2>1. CASE r.done = 0
    BY <2>1 DEF Touched
  <2>2. CASE r.done > 0
    <3>. DEFINE e == offset + r.done - 1
    <3>1. e \in Nat /\ offset <= e /\ e < inode.length
      BY <1>2, <2>2
    <3>2. first <= e \div CELLS
      <4>1. \A a, b \in Nat : a <= b => a \div CELLS <= b \div CELLS
        BY Consts
      <4>. QED  BY <4>1, <3>1 DEF first
    <3>3. e \div CELLS \in Nat /\ e \div CELLS < BytesToSectors(inode.length) /\ BytesToSectors(inode.length) \in Nat
      BY <3>1, Cells
    <3>4. N = (e \div CELLS) - first + 1
      BY <2>2, <1>2 DEF Touched, first
    <3>. HIDE DEF e, N
    <3>5. N \in Nat /\ first + N <= BytesToSectors(inode.length)
      BY <3>2, <3>3, <3>4, <1>4
    <3>. QED  BY <2>2, <3>4, <3>5 DEF e
  <2>. QED  BY <2>1, <2>2, <1>2
<1>6. ASSUME NEW j \in 1..N, NEW k \in 1..CELLS
      PROVE  LET ofs == (first + j - 1) * CELLS + k - 1 IN
             blocks[j][k] = IF offset <= ofs /\ ofs < offset + r.done THEN cells[ofs - offset + 1]
                            ELSE s.disk[inode.start + (first + j - 1)][k]
  <2>1. blocks[j] = Merged(s, inode, first + j - 1, cells, offset, r.done)
    BY DEF Blocks, first
  <2>. QED  BY <2>1 DEF Merged
<1>7. Like(w, t, {"ok", "done"}) /\ t.ok \in BOOLEAN /\ (t.ok <=> r.done = Len(cells)) /\ t.done = r.done
  <2>1. Rec(r.s) /\ IsDisk(r.s.disk) /\ inode.start + first \in Nat
    BY <1>2, <1>4, LikeMeans
  <2>2. Rec(w)
    <3>. HIDE DEF N, blocks
    <3>1. DiskWritten(r.s, inode.start + first, blocks, N, DiskWrites(r.s, inode.start + first, blocks))
      BY <2>1, <1>3, <1>5, WritesAre
    <3>. QED  BY <3>1 DEF w, DiskWritten
  <2>. HIDE DEF N, blocks
  <2>. QED  BY <2>2, <1>1 DEF Like, Rec, Fields
<1>. HIDE DEF N, blocks
<1>8. WriteOf(s, inode, cells, offset, r, N, blocks, t)
  BY <1>3, <1>5, <1>6, <1>7 DEF first, w, WriteOf
<1>. QED  BY <1>8 DEF r, N, blocks, t

\* The cells of the map in memory.
MapCells(s) == [i \in 1..SECTORS |-> BitCell(s.free_map[i - 1])]

\* Allocations of memory that writing the map takes.
Cost == IF Divides(SECTORS) THEN 0 ELSE 1

\* What bitmap_write() does, in these terms: each sector it writes has the bits in memory.
MapOf(s, r, N, blocks, t) ==
    /\ Like(s, r.s, {"ok", "fail"}) /\ r.s.fail \in Nat /\ r.s.fail <= s.fail
    /\ r.s.fail = 0 \/ r.s.fail + Cost <= s.fail
    /\ N \in Nat /\ IsRun(blocks, N) /\ r.done \in Nat
    /\ Like(DiskWrites(r.s, 2, blocks), t, {"ok", "done"}) /\ t.ok \in BOOLEAN /\ (t.ok <=> r.done = SECTORS)
    /\ \A j \in 1..N : 2 + j - 1 \in MapSectors
    /\ \A n \in 0..N, i \in Sectors :
          Bit(Wrote(s.disk, 2, blocks, n), i) = Bit(s.disk, i) \/ Bit(Wrote(s.disk, 2, blocks, n), i) = BitCell(s.free_map[i])
    /\ r.done = SECTORS => \A i \in Sectors : Bit(Wrote(s.disk, 2, blocks, N), i) = BitCell(s.free_map[i])
    /\ s.fail = 0 => r.done = SECTORS

\* bitmap_write() is a run of writes to the sectors of the map.
LEMMA MapParts ==
  ASSUME NEW s, Rec(s), IsDisk(s.disk), s.fail \in Nat, NEW inode, inode = s.inodes[FREE_MAP_SECTOR],
         inode.start = 2, inode.length = SECTORS, inode.deny_write_cnt = 0
  PROVE  LET r == Transfer(s, inode, SECTORS, 0)
             N == Touched(0, r.done)
             blocks == Blocks(s, inode, MapCells(s), 0, r.done)
         IN  MapOf(s, r, N, blocks, BitmapWrite(s))
<1>. DEFINE cells == MapCells(s)
            r == Transfer(s, inode, SECTORS, 0)
            N == Touched(0, r.done)
            blocks == Blocks(s, inode, MapCells(s), 0, r.done)
            w == DiskWrites(r.s, 2, blocks)
            t == BitmapWrite(s)
<1>1. t = InodeWriteAt(s, FREE_MAP_SECTOR, cells, 0)
  BY DEF BitmapWrite, MapCells
<1>2. Len(cells) = SECTORS /\ SECTORS \in Nat /\ 0 \in Nat /\ \A i \in Sectors : cells[i + 1] = BitCell(s.free_map[i])
  BY Consts DEF Sectors, MapCells
<1>. HIDE DEF cells, r, N, blocks, t, w
<1>3. /\ N \in Nat /\ IsRun(blocks, N)
      /\ Like(DiskWrites(r.s, inode.start + (0 \div CELLS), blocks), t, {"ok", "done"})
      /\ t.ok \in BOOLEAN /\ (t.ok <=> r.done = Len(cells))
      /\ r.done = 0 => N = 0
      /\ r.done > 0 => /\ N = ((0 + r.done - 1) \div CELLS) - (0 \div CELLS) + 1
                       /\ (0 \div CELLS) + N <= BytesToSectors(inode.length)
      /\ \A j \in 1..N, k \in 1..CELLS :
            LET ofs == ((0 \div CELLS) + j - 1) * CELLS + k - 1 IN
            blocks[j][k] = IF 0 <= ofs /\ ofs < 0 + r.done THEN cells[ofs - 0 + 1]
                           ELSE s.disk[inode.start + ((0 \div CELLS) + j - 1)][k]
  <2>1. inode.start \in Nat /\ inode.length \in Nat /\ inode.deny_write_cnt = 0
    BY <1>2
  <2>2. r = Transfer(s, inode, Len(cells), 0) /\ blocks = Blocks(s, inode, cells, 0, r.done)
    BY <1>2 DEF cells, r, blocks
  <2>3. Len(cells) \in Nat /\ N = Touched(0, r.done)
    BY <1>2 DEF N
  <2>4. WriteOf(s, inode, cells, 0, r, N, blocks, t)
    BY <1>1, <1>2, <2>1, <2>2, <2>3, WriteParts
  <2>. QED  BY <2>4 DEF WriteOf
<1>4. 0 \div CELLS = 0
  BY Consts
<1>5. /\ Like(s, r.s, {"ok", "fail"}) /\ r.s.fail \in Nat /\ r.s.fail <= s.fail
      /\ r.done \in Nat /\ r.done <= SECTORS
      /\ s.fail = 0 => r.done = SECTORS
      /\ r.s = (IF Divides(SECTORS) THEN s ELSE Alloc(s))
  <2>1. r = Transfer(s, inode, SECTORS, 0) /\ inode.length = SECTORS /\ inode.length \in Nat
    BY <1>2 DEF r
  <2>. QED  BY <2>1, <1>2, TransferIs
<1>6. r.s.fail = 0 \/ r.s.fail + Cost <= s.fail
  <2>1. s.fail # 0 => Alloc(s).fail = s.fail - 1
    BY AllocIs
  <2>2. Divides(SECTORS) \in BOOLEAN
    BY DEF Divides
  <2>. QED  BY <2>1, <2>2, <1>5 DEF Cost
<1>7. Like(w, t, {"ok", "done"}) /\ t.ok \in BOOLEAN /\ (t.ok <=> r.done = SECTORS)
  <2>1. inode.start + (0 \div CELLS) = 2
    BY <1>4
  <2>. QED  BY <2>1, <1>2, <1>3 DEF w
<1>8. N <= BytesToSectors(SECTORS) /\ (r.done > 0 => N = ((r.done - 1) \div CELLS) + 1)
  <2>1. CASE r.done = 0
    BY <2>1, <1>3, Consts
  <2>2. CASE r.done > 0
    <3>1. N = ((0 + r.done - 1) \div CELLS) - (0 \div CELLS) + 1 /\ (0 \div CELLS) + N <= BytesToSectors(inode.length)
      BY <2>2, <1>3
    <3>2. 0 + r.done - 1 = r.done - 1 /\ r.done - 1 \in Nat
      BY <2>2, <1>5
    <3>3. (r.done - 1) \div CELLS \in Nat
      BY <3>2, Cells
    <3>. QED  BY <2>2, <3>1, <3>2, <3>3, <1>3, <1>4
  <2>. QED  BY <2>1, <2>2, <1>5
<1>9. \A j \in 1..N : 2 + j - 1 \in MapSectors
  <2>1. MapSectors = 2..(RootStart - 1) /\ RootStart = 2 + BytesToSectors(SECTORS) /\ BytesToSectors(SECTORS) \in Nat
    BY BaseIs, Consts DEF RootStart
  <2>2. N \in Nat /\ N <= BytesToSectors(SECTORS)
    BY <1>3, <1>8
  <2>. QED  BY <2>1, <2>2
<1>10. ASSUME NEW i \in Sectors, NEW n \in 0..N
       PROVE  Bit(Wrote(s.disk, 2, blocks, n), i) =
                 IF (i \div CELLS) + 1 <= n /\ i < r.done THEN BitCell(s.free_map[i]) ELSE Bit(s.disk, i)
  <2>. DEFINE j == (i \div CELLS) + 1
              k == (i % CELLS) + 1
  <2>1. i \in Nat /\ i \div CELLS \in Nat /\ j \in Nat /\ k \in 1..CELLS /\ i = CELLS * (i \div CELLS) + (i % CELLS) /\ 2 + (i \div CELLS) \in Sectors
    <3>1. i \in Nat /\ 2 + (i \div CELLS) \in Sectors
      BY BaseIs
    <3>. QED  BY <3>1, Cells
  <2>2. 2 + (i \div CELLS) - 2 + 1 = j
    BY <2>1
  <2>3. Wrote(s.disk, 2, blocks, n)[2 + (i \div CELLS)] = IF j \in 1..n THEN blocks[j] ELSE s.disk[2 + (i \div CELLS)]
    BY <2>1, <2>2 DEF Wrote
  <2>4. CASE j \in 1..n
    <3>1. j \in 1..N /\ j - 1 = i \div CELLS
      <4>1. n \in Nat /\ n <= N
        BY <1>3
      <4>. HIDE DEF j
      <4>2. j \in 1..N
        BY <4>1, <2>4, <1>3, <2>1
      <4>. QED  BY <4>2, <2>1 DEF j
    <3>2. (0 + j - 1) * CELLS + k - 1 = i
      <4>1. ASSUME NEW q \in Nat, NEW m \in 0..(CELLS - 1), i = CELLS * q + m PROVE (0 + (q + 1) - 1) * CELLS + (m + 1) - 1 = i
        BY <4>1, Consts
      <4>2. i \div CELLS \in Nat /\ i % CELLS \in 0..(CELLS - 1) /\ i = CELLS * (i \div CELLS) + (i % CELLS)
        BY <2>1, Cells
      <4>. QED  BY <4>1, <4>2
    <3>. HIDE DEF j, k
    <3>3. blocks[j][k] = IF 0 <= i /\ i < 0 + r.done THEN cells[i - 0 + 1] ELSE s.disk[inode.start + (0 + j - 1)][k]
      BY <1>3, <1>4, <2>1, <3>1, <3>2
    <3>4. blocks[j][k] = IF i < r.done THEN BitCell(s.free_map[i]) ELSE s.disk[2 + (i \div CELLS)][k]
      BY <3>1, <3>3, <1>2, <1>5, <2>1
    <3>. QED  BY <2>3, <2>4, <3>4, <2>1 DEF Bit, j, k
  <2>5. CASE j \notin 1..n
    <3>1. ~((i \div CELLS) + 1 <= n)
      BY <2>1, <2>5
    <3>. QED  BY <2>3, <2>5, <3>1 DEF Bit
  <2>. QED  BY <2>4, <2>5
<1>11. ASSUME r.done = SECTORS, NEW i \in Sectors PROVE Bit(Wrote(s.disk, 2, blocks, N), i) = BitCell(s.free_map[i])
  <2>1. i < SECTORS /\ N \in 0..N /\ i \in Nat /\ N = ((SECTORS - 1) \div CELLS) + 1
    BY <1>3, <1>8, <1>11, Consts DEF Sectors
  <2>2. i \div CELLS <= (SECTORS - 1) \div CELLS
    <3>1. \A a, b \in Nat : a <= b => a \div CELLS <= b \div CELLS
      BY Consts
    <3>. QED  BY <3>1, <2>1, Consts
  <2>3. (i \div CELLS) + 1 <= N
    BY <2>1, <2>2, Cells, Consts
  <2>. QED  BY <2>1, <2>3, <1>10, <1>11
<1>12. MapOf(s, r, N, blocks, t)
  BY <1>3, <1>5, <1>6, <1>7, <1>9, <1>10, <1>11 DEF w, MapOf
<1>. QED  BY <1>12 DEF r, N, blocks, t

\* The state after bitmap_write(): the map on the disk is that in memory if it succeeded.
MapSaved(s, c, cnt, dn, P, t) ==
    /\ Good(t, c, cnt, dn, P) /\ Like(s, t, {"disk", "log", "ok", "fail", "done"}) /\ Stable(s, t)
    /\ \A i \in Sectors \ MapSectors : t.disk[i] = s.disk[i]
    /\ t.ok \in BOOLEAN /\ (t.ok => Marked(t.disk) = {i \in Sectors : s.free_map[i]}) /\ (s.fail = 0 => t.ok)
    /\ t.fail <= s.fail /\ (t.fail = 0 \/ t.fail + Cost <= s.fail)

\* The inode of the free map.
LEMMA MapInode ==
  ASSUME NEW s, NEW c, NEW cnt, NEW dn, NEW P, Good(s, c, cnt, dn, P)
  PROVE  LET inode == s.inodes[FREE_MAP_SECTOR] IN
         inode.start = 2 /\ inode.length = SECTORS /\ inode.deny_write_cnt = 0
<1>1. FREE_MAP_SECTOR \in DOMAIN s.inodes /\ s.inodes[FREE_MAP_SECTOR] = Inode(s.disk, FREE_MAP_SECTOR, cnt, dn) /\ dn[FREE_MAP_SECTOR] = 0
  BY BaseIs DEF Good, Opens, FREE_MAP_SECTOR
<1>2. Header(s.disk, FREE_MAP_SECTOR) = [start |-> 2, length |-> SECTORS]
  BY GoodMeans, LayoutMeans
<1>. QED  BY <1>1, <1>2 DEF Inode

\* A bit and its cell.
LEMMA BitIs ==
  ASSUME NEW b
  PROVE  (b => BitCell(b) # Zero) /\ (~b => BitCell(b) = Zero)
BY DEF BitCell, Zero

\* bitmap_write() keeps the state good, wherever it stops.
LEMMA BitmapWrites ==
  ASSUME NEW s, NEW c, NEW cnt, NEW dn, NEW P, Good(s, c, cnt, dn, P)
  PROVE  MapSaved(s, c, cnt, dn, P, BitmapWrite(s))
<1>. DEFINE inode == s.inodes[FREE_MAP_SECTOR]
            r == Transfer(s, inode, SECTORS, 0)
            N == Touched(0, r.done)
            blocks == Blocks(s, inode, MapCells(s), 0, r.done)
            t == BitmapWrite(s)
            u == r.s
            w == DiskWrites(u, 2, blocks)
            D(n) == Wrote(s.disk, 2, blocks, n)
<1>1. /\ Rec(s) /\ IsDisk(s.disk) /\ s.fail \in Nat /\ Apart(s.disk, Live(s)) /\ Live(s) \subseteq Sectors \ Base
      /\ Base \cup OwnedBy(s.disk, Named(s.disk)) \subseteq Marked(s.disk) /\ Named(s.disk) \subseteq Live(s)
      /\ OwnedBy(s.disk, Named(s.disk)) \subseteq OwnedBy(s.disk, Live(s))
  BY GoodMeans
<1>2. MapOf(s, r, N, blocks, t)
  <2>1. inode.start = 2 /\ inode.length = SECTORS /\ inode.deny_write_cnt = 0
    BY MapInode
  <2>. HIDE DEF inode
  <2>2. inode = s.inodes[FREE_MAP_SECTOR]
    BY DEF inode
  <2>. QED  BY <1>1, <2>1, <2>2, MapParts
<1>. HIDE DEF r, N, blocks, t, inode
<1>3. Like(s, u, {"ok", "fail"}) /\ u.fail \in Nat /\ u.fail <= s.fail /\ (u.fail = 0 \/ u.fail + Cost <= s.fail)
  BY <1>2 DEF MapOf
<1>4. Good(u, c, cnt, dn, P) /\ Live(u) = Live(s) /\ u.disk = s.disk /\ u.free_map = s.free_map /\ u.inodes = s.inodes /\ Stable(s, u)
  <2>1. Like(s, u, Scratch)
    BY <1>3, LikeWider DEF Scratch
  <2>2. u.disk = s.disk /\ u.free_map = s.free_map /\ u.inodes = s.inodes
    BY <1>3, LikeMeans
  <2>3. Stable(s, u)
    BY <1>3, StableLike
  <2>. QED  BY <2>1, <2>2, <2>3, <1>3, GoodLike
<1>5. /\ N \in Nat /\ IsRun(blocks, N) /\ \A j \in 1..N : 2 + j - 1 \in MapSectors
      /\ \A n \in 0..N, i \in Sectors : Bit(D(n), i) = Bit(s.disk, i) \/ Bit(D(n), i) = BitCell(s.free_map[i])
      /\ r.done = SECTORS => \A i \in Sectors : Bit(D(N), i) = BitCell(s.free_map[i])
  BY <1>2 DEF MapOf
<1>. HIDE DEF u, D
<1>6. MapSectors \subseteq Base /\ MapSectors \subseteq Sectors \ (Special \cup RootSectors) /\ Base \subseteq Sectors
  <2>1. MapSectors \subseteq Sectors \ RootSectors /\ FREE_MAP_SECTOR \notin MapSectors /\ ROOT_DIR_SECTOR \notin MapSectors /\ Base \subseteq Sectors
    BY BaseIs
  <2>. QED  BY <2>1 DEF Base, Special
<1>7. Base \cap OwnedBy(s.disk, Live(s)) = {}
  BY <1>1 DEF Apart, FileAt, OwnedBy
<1>8. ASSUME NEW n \in 0..N PROVE Base \cup OwnedBy(s.disk, Named(s.disk)) \subseteq Marked(D(n))
  <2>1. ASSUME NEW i \in Base \cup OwnedBy(s.disk, Named(s.disk)) PROVE Bit(D(n), i) # Zero /\ i \in Sectors
    <3>1. i \in Sectors /\ Bit(s.disk, i) # Zero
      BY <1>1 DEF Marked
    <3>2. i \in Base \cup OwnedBy(s.disk, Live(s)) \cup P
      BY <1>1
    <3>3. s.free_map[i]
      BY <3>1, <3>2 DEF Good, Space
    <3>4. BitCell(s.free_map[i]) # Zero
      BY <3>3, BitIs
    <3>. QED  BY <3>1, <3>4, <1>5
  <2>. QED  BY <2>1 DEF Marked
<1>9. /\ Good(w, c, cnt, dn, P) /\ Like(u, w, {"disk", "log"}) /\ w.disk = D(N) /\ Stable(u, w)
  <2>1. \A j \in 1..N : 2 + j - 1 \in Sectors \ (Special \cup RootSectors \cup Live(u))
    BY <1>1, <1>4, <1>5, <1>6
  <2>2. \A j \in 1..N : 2 + j - 1 \notin OwnedBy(u.disk, Live(u))
    BY <1>4, <1>5, <1>6, <1>7
  <2>3. \A n \in 0..N : Base \cup OwnedBy(u.disk, Named(u.disk)) \subseteq Marked(Wrote(u.disk, 2, blocks, n))
    BY <1>4, <1>8 DEF D
  <2>4. w.disk = Wrote(u.disk, 2, blocks, N) /\ Good(w, c, cnt, dn, P) /\ Like(u, w, {"disk", "log"}) /\ Stable(u, w)
    BY <2>1, <2>2, <2>3, <1>4, <1>5, GoodWrites
  <2>. QED  BY <2>4, <1>4 DEF D
<1>10. Like(w, t, {"ok", "done"}) /\ t.ok \in BOOLEAN /\ (t.ok <=> r.done = SECTORS) /\ (s.fail = 0 => r.done = SECTORS)
  BY <1>2 DEF MapOf, u
<1>. HIDE DEF w
<1>11. t.disk = D(N) /\ t.fail = u.fail
  <2>1. t.disk = w.disk /\ t.fail = w.fail
    BY <1>10, LikeMeans
  <2>2. w.fail = u.fail
    BY <1>9, LikeMeans
  <2>. QED  BY <2>1, <2>2, <1>9
<1>12. Good(t, c, cnt, dn, P) /\ Stable(w, t)
  <2>1. Like(w, t, Scratch)
    BY <1>10, LikeWider DEF Scratch
  <2>2. Stable(w, t)
    BY <1>10, StableLike
  <2>. QED  BY <2>1, <2>2, <1>3, <1>9, <1>11, GoodLike
<1>13. Stable(s, t)
  BY <1>4, <1>9, <1>12, StableChains
<1>14. Like(s, t, {"disk", "log", "ok", "fail", "done"})
  <2>1. Like(s, w, {"disk", "log", "ok", "fail"})
    BY <1>3, <1>9, LikeChains
  <2>. QED  BY <2>1, <1>10, LikeChains
<1>15. \A i \in Sectors \ MapSectors : t.disk[i] = s.disk[i]
  <2>1. ASSUME NEW i \in Sectors \ MapSectors PROVE D(N)[i] = s.disk[i]
    <3>1. i \in Nat
      BY BaseIs
    <3>2. i - 2 + 1 \in 1..N => 2 + (i - 2 + 1) - 1 = i
      BY <3>1
    <3>3. i - 2 + 1 \notin 1..N
      BY <3>2, <1>5
    <3>. QED  BY <3>3 DEF D, Wrote
  <2>. QED  BY <2>1, <1>11
<1>16. t.ok => Marked(t.disk) = {i \in Sectors : s.free_map[i]}
  <2>1. ASSUME t.ok, NEW i \in Sectors PROVE Bit(t.disk, i) # Zero <=> s.free_map[i]
    <3>1. Bit(t.disk, i) = BitCell(s.free_map[i])
      BY <2>1, <1>5, <1>10, <1>11
    <3>. QED  BY <3>1, BitIs
  <2>. QED  BY <2>1 DEF Marked
<1>. QED  BY <1>3, <1>10, <1>11, <1>12, <1>13, <1>14, <1>15, <1>16 DEF MapSaved, t

\* The least number of a set.
LEMMA LeastOf ==
  ASSUME NEW S, S \subseteq Nat, S # {}
  PROVE  \E x \in S : (CHOOSE d \in S : \A e \in S : d <= e) = x /\ \A y \in S : x <= y
<1>. DEFINE R == {a \in Nat \X Nat : a[1] < a[2]}
<1>1. IsWellFoundedOn(R, Nat)
  BY NatLessThanWellFounded DEF OpToRel
<1>2. PICK x \in S : \A y \in S : <<y, x>> \notin R
  <2>. HIDE DEF R
  <2>. QED  BY <1>1, WFMin
<1>3. \A y \in S : y \in Nat /\ x \in Nat
  OBVIOUS
<1>4. \A y \in S : ~(y < x)
  BY <1>2, <1>3
<1>5. \A y \in S : x <= y
  BY <1>3, <1>4
<1>. QED  BY <1>2, <1>5

\* The map has a bit for each sector.
IsMap(fm) == fm = [i \in Sectors |-> fm[i]] /\ \A i \in Sectors : fm[i] \in BOOLEAN

\* cnt sectors from i on are free.
Fits(fm, i, cnt) == i \in Nat /\ i + cnt <= SECTORS /\ \A j \in Run(i, cnt) : ~fm[j]

\* The bits after bitmap_scan_and_flip() found cnt free ones, or that there are none.
Flipped(fm, cnt, f) ==
    IF f.idx = BITMAP_ERROR THEN \A i \in Nat : ~Fits(fm, i, cnt)
    ELSE /\ Fits(fm, f.idx, cnt) /\ \A i \in Nat : Fits(fm, i, cnt) => f.idx <= i
         /\ IsMap(f.bits) /\ \A i \in Sectors : f.bits[i] <=> fm[i] \/ i \in Run(f.idx, cnt)

\* bitmap_scan_and_flip() finds the first run of free bits and sets them.
LEMMA FlipIs ==
  ASSUME NEW fm, IsMap(fm), NEW cnt \in Nat
  PROVE  Flipped(fm, cnt, BitmapScanAndFlip(fm, 0, cnt, FALSE))
<1>. DEFINE f == BitmapScanAndFlip(fm, 0, cnt, FALSE)
            fits == {i \in 0..BitCnt(fm) : i + cnt <= BitCnt(fm) /\ ~BitmapContains(fm, i, cnt, ~FALSE)}
            least == CHOOSE i \in fits : \A j \in fits : i <= j
            idx == IF fits = {} THEN BITMAP_ERROR ELSE least
            bits == IF idx = BITMAP_ERROR THEN fm ELSE BitmapSetMultiple(fm, idx, cnt, ~FALSE)
<1>1. DOMAIN fm = Sectors /\ BitCnt(fm) = SECTORS
  <2>1. DOMAIN fm = Sectors
    BY DEF IsMap
  <2>2. Cardinality(0..(SECTORS - 1)) = SECTORS
    BY Consts, FS_Interval
  <2>. QED  BY <2>1, <2>2 DEF BitCnt, Sectors
<1>2. ASSUME NEW i \in Nat PROVE i \in fits <=> Fits(fm, i, cnt)
  <2>1. BitmapContains(fm, i, cnt, ~FALSE) <=> \E j \in Run(i, cnt) : fm[j]
    BY <1>1 DEF BitmapContains, Run, IsMap
  <2>. QED  BY <2>1, <1>1, Consts DEF Fits
<1>3. fits \subseteq Nat
  BY <1>1, Consts
<1>4. f = [idx |-> idx, bits |-> bits]
  BY DEF BitmapScanAndFlip, BitmapScan
<1>. HIDE DEF fits, f, idx, bits, least
<1>5. ASSUME fits = {} PROVE Flipped(fm, cnt, f)
  <2>1. f.idx = BITMAP_ERROR
    BY <1>4, <1>5 DEF idx
  <2>. QED  BY <2>1, <1>2, <1>5 DEF Flipped
<1>6. ASSUME fits # {} PROVE Flipped(fm, cnt, f)
  <2>1. idx = least /\ least \in fits /\ \A y \in fits : least <= y
    BY <1>3, <1>6, LeastOf DEF idx, least
  <2>2. idx \in Nat /\ idx # BITMAP_ERROR
    <3>1. idx \in Nat
      BY <2>1, <1>3
    <3>. QED  BY <3>1 DEF BITMAP_ERROR
  <2>3. f.idx = idx /\ f.bits = BitmapSetMultiple(fm, idx, cnt, ~FALSE)
    BY <1>4, <2>2 DEF bits
  <2>4. BitmapSetMultiple(fm, idx, cnt, ~FALSE) = [i \in Sectors |-> IF idx <= i /\ i < idx + cnt THEN ~FALSE ELSE fm[i]]
    BY <1>1 DEF BitmapSetMultiple
  <2>. DEFINE b == BitmapSetMultiple(fm, idx, cnt, ~FALSE)
  <2>5. /\ b = [i \in Sectors |-> b[i]]
        /\ \A i \in Sectors : b[i] \in BOOLEAN
        /\ \A i \in Sectors : b[i] <=> fm[i] \/ i \in Run(idx, cnt)
    BY <2>4 DEF IsMap, Run
  <2>6. Fits(fm, idx, cnt) /\ \A i \in Nat : Fits(fm, i, cnt) => idx <= i
    BY <2>1, <2>2, <1>2
  <2>. HIDE DEF b
  <2>7. f.bits = b
    BY <2>3 DEF b
  <2>. QED  BY <2>2, <2>3, <2>5, <2>6, <2>7 DEF Flipped, IsMap
<1>. QED  BY <1>5, <1>6 DEF f

\* A step that changes the map in memory, to one that has the sectors of Q.
LEMMA GoodMap ==
  ASSUME NEW s, NEW c, NEW cnt, NEW dn, NEW P, Good(s, c, cnt, dn, P),
         NEW t, Like(s, t, Scratch \cup {"free_map", "panic"}), ~t.panic, t.fail \in Nat, IsMap(t.free_map),
         NEW Q, Q \subseteq Sectors, Q \cap (Base \cup OwnedBy(s.disk, Live(s))) = {},
         \A i \in Sectors : t.free_map[i] <=> i \in Base \cup OwnedBy(s.disk, Live(s)) \cup Q
  PROVE  Good(t, c, cnt, dn, Q) /\ Stable(s, t) /\ t.disk = s.disk
<1>1. /\ Rec(t) /\ t.disk = s.disk /\ t.log = s.log /\ t.map_open = s.map_open
      /\ t.inodes = s.inodes
  BY DEF Like, Fields, Scratch
<1>2. Live(t) = Live(s) /\ Stable(s, t)
  BY <1>1 DEF Live, Stable
<1>3. Space(t.disk, t.free_map, Live(t), Q)
  BY <1>1, <1>2 DEF Good, Space, IsMap
<1>. QED  BY <1>1, <1>2, <1>3 DEF Good

\* What the map in memory has.
LEMMA MapMeans ==
  ASSUME NEW s, NEW c, NEW cnt, NEW dn, NEW P, Good(s, c, cnt, dn, P)
  PROVE  /\ IsMap(s.free_map) /\ P \subseteq Sectors
         /\ \A i \in Sectors : s.free_map[i] <=> i \in Base \cup OwnedBy(s.disk, Live(s)) \cup P
         /\ P \cap (Base \cup OwnedBy(s.disk, Live(s))) = {}
         /\ Base \cup OwnedBy(s.disk, Live(s)) \subseteq Sectors
         /\ Base \cap OwnedBy(s.disk, Live(s)) = {}
<1>1. \A x \in Live(s) : Owned(s.disk, x) \subseteq Sectors /\ Owned(s.disk, x) \cap Base = {}
  <2>1. \A x \in Live(s) : FileAt(s.disk, x)
    BY GoodMeans
  <2>2. \A x \in Live(s) : Owned(s.disk, x) \cap Base = {} /\ x \in Sectors
    BY <2>1 DEF FileAt
  <2>3. ASSUME NEW x \in Live(s) PROVE Owned(s.disk, x) \subseteq Sectors
    <3>. DEFINE R == Run(Header(s.disk, x).start, BytesToSectors(Header(s.disk, x).length))
    <3>1. R \subseteq Sectors /\ Owned(s.disk, x) = {x} \cup R
      BY RunIs DEF Owned
    <3>. HIDE DEF R
    <3>. QED  BY <3>1, <2>2
  <2>. QED  BY <2>2, <2>3
<1>2. OwnedBy(s.disk, Live(s)) \subseteq Sectors /\ OwnedBy(s.disk, Live(s)) \cap Base = {}
  BY <1>1 DEF OwnedBy
<1>3. Base \subseteq Sectors
  BY BaseIs
<1>4. Space(s.disk, s.free_map, Live(s), P)
  BY DEF Good
<1>. QED  BY <1>2, <1>3, <1>4 DEF Space, IsMap

\* The state after free_map_allocate(): if it succeeded, the sectors are those of the call.
Reserved(s, c, cnt, dn, P, n, t) ==
    /\ t.ok \in BOOLEAN /\ Stable(s, t) /\ t.fail \in Nat /\ t.fail <= s.fail
    /\ Like(s, t, {"disk", "log", "free_map", "ok", "fail", "done", "sector"})
    /\ \A i \in Sectors \ MapSectors : t.disk[i] = s.disk[i]
    /\ ~t.ok => Good(t, c, cnt, dn, P)
    /\ t.ok => /\ Good(t, c, cnt, dn, P \cup Run(t.sector, n))
               /\ t.sector \in Nat /\ t.sector + n <= SECTORS
               /\ Run(t.sector, n) \cap (Base \cup OwnedBy(s.disk, Live(s)) \cup P) = {}
               /\ Base \cup OwnedBy(s.disk, Live(s)) \cup P \cup Run(t.sector, n) \subseteq Marked(t.disk)
               /\ t.fail = 0 \/ t.fail + Cost <= s.fail

\* free_map_allocate() takes sectors that nobody has, or leaves everything as it was.
LEMMA FreeMapAllocates ==
  ASSUME NEW s, NEW c, NEW cnt, NEW dn, NEW P, Good(s, c, cnt, dn, P), NEW n \in Nat
  PROVE  Reserved(s, c, cnt, dn, P, n, FreeMapAllocate(s, n))
<1>. DEFINE f == BitmapScanAndFlip(s.free_map, 0, n, FALSE)
            none == [s EXCEPT !.ok = FALSE]
            marked == [s EXCEPT !.free_map = f.bits, !.ok = TRUE, !.sector = f.idx]
            w == BitmapWrite(marked)
            undone == [w EXCEPT !.free_map = BitmapSetMultiple(@, f.idx, n, FALSE), !.sector = s.sector]
            t == FreeMapAllocate(s, n)
            B == Base \cup OwnedBy(s.disk, Live(s))
            Q == P \cup Run(f.idx, n)
<1>1. Rec(s) /\ s.fail \in Nat /\ s.map_open
  BY GoodMeans DEF Good
<1>2. t = IF f.idx = BITMAP_ERROR THEN none
          ELSE IF (IF s.map_open THEN w ELSE marked).ok THEN (IF s.map_open THEN w ELSE marked)
               ELSE [(IF s.map_open THEN w ELSE marked) EXCEPT !.free_map = BitmapSetMultiple(@, f.idx, n, FALSE), !.sector = s.sector]
  <2>1. marked.map_open = s.map_open
    BY <1>1 DEF Rec, Fields
  <2>. QED  BY DEF FreeMapAllocate, With
<1>3. t = IF f.idx = BITMAP_ERROR THEN none ELSE IF w.ok THEN w ELSE undone
  <2>. HIDE DEF w, f, none, marked
  <2>. QED  BY <1>1, <1>2
<1>4. /\ IsMap(s.free_map) /\ P \subseteq Sectors /\ B \subseteq Sectors
      /\ \A i \in Sectors : s.free_map[i] <=> i \in B \cup P
      /\ P \cap B = {}
  BY MapMeans
<1>5. Flipped(s.free_map, n, f)
  BY <1>4, FlipIs
<1>6. ASSUME f.idx = BITMAP_ERROR PROVE Reserved(s, c, cnt, dn, P, n, t)
  <2>1. t = none
    BY <1>3, <1>6
  <2>2. Like(s, none, {"ok"}) /\ ~none.ok /\ none.ok \in BOOLEAN
    BY <1>1 DEF Like, Rec, Fields
  <2>. HIDE DEF none, t, f
  <2>3. Like(s, none, Scratch) /\ none.disk = s.disk /\ none.fail = s.fail /\ Stable(s, none)
    BY <2>2, LikeWider, LikeMeans, StableLike DEF Scratch
  <2>4. Good(none, c, cnt, dn, P)
    BY <2>3, <1>1, GoodLike
  <2>5. Like(s, none, {"disk", "log", "free_map", "ok", "fail", "done", "sector"})
    BY <2>2, LikeWider
  <2>. QED  BY <2>1, <2>2, <2>3, <2>4, <2>5, <1>1 DEF Reserved
<1>7. ASSUME f.idx # BITMAP_ERROR PROVE Reserved(s, c, cnt, dn, P, n, t)
  <2>1. /\ f.idx \in Nat /\ f.idx + n <= SECTORS /\ IsMap(f.bits)
        /\ \A i \in Sectors : f.bits[i] <=> s.free_map[i] \/ i \in Run(f.idx, n)
        /\ Run(f.idx, n) \subseteq Sectors /\ Run(f.idx, n) \cap (B \cup P) = {}
    <3>1. Fits(s.free_map, f.idx, n) /\ IsMap(f.bits)
          /\ \A i \in Sectors : f.bits[i] <=> s.free_map[i] \/ i \in Run(f.idx, n)
      BY <1>5, <1>7 DEF Flipped
    <3>2. Run(f.idx, n) \subseteq Sectors
      BY DEF Run
    <3>. HIDE DEF f
    <3>. QED  BY <3>1, <3>2, <1>4 DEF Fits
  <2>2. Like(s, marked, {"free_map", "ok", "sector"}) /\ marked.free_map = f.bits /\ marked.sector = f.idx
    <3>. HIDE DEF f
    <3>. QED  BY <1>1 DEF Like, Rec, Fields
  <2>. HIDE DEF f, marked, w, t, B, Q
  <2>3. marked.fail = s.fail /\ marked.disk = s.disk
    BY <2>2, LikeMeans
  <2>4. Good(marked, c, cnt, dn, Q) /\ Stable(s, marked)
    <3>1. Like(s, marked, Scratch \cup {"free_map", "panic"}) /\ ~marked.panic
      BY <2>2, LikeWider, LikeMeans DEF Scratch, Good
    <3>2. Q \subseteq Sectors /\ Q \cap B = {} /\ \A i \in Sectors : marked.free_map[i] <=> i \in B \cup Q
      BY <2>1, <2>2, <1>4 DEF Q
    <3>3. marked.fail \in Nat /\ IsMap(marked.free_map)
      BY <2>1, <2>2, <2>3, <1>1
    <3>. QED  BY <3>1, <3>2, <3>3, GoodMap DEF B
  <2>5. MapSaved(marked, c, cnt, dn, Q, w)
    BY <2>4, BitmapWrites DEF w
  <2>6. /\ Good(w, c, cnt, dn, Q) /\ Like(marked, w, {"disk", "log", "ok", "fail", "done"}) /\ Stable(marked, w)
        /\ \A i \in Sectors \ MapSectors : w.disk[i] = s.disk[i]
        /\ w.ok \in BOOLEAN /\ (w.ok => Marked(w.disk) = {i \in Sectors : f.bits[i]})
        /\ w.fail <= s.fail /\ (w.fail = 0 \/ w.fail + Cost <= s.fail)
    BY <2>5, <2>2, <2>3 DEF MapSaved
  <2>7. Rec(w) /\ w.fail \in Nat
    BY <2>6, GoodMeans
  <2>8. Stable(s, w)
    BY <2>4, <2>6, StableChains
  <2>9. Like(s, w, {"disk", "log", "free_map", "ok", "fail", "done", "sector"}) /\ w.sector = f.idx /\ w.free_map = f.bits
    <3>1. w.sector = marked.sector /\ w.free_map = marked.free_map
      BY <2>6, LikeMeans
    <3>. QED  BY <3>1, <2>2, <2>6, LikeChains
  <2>10. CASE w.ok
    <3>1. t = w
      BY <1>3, <1>7, <2>10
    <3>2. B \cup P \cup Run(f.idx, n) \subseteq Marked(w.disk)
      BY <2>1, <2>6, <2>10, <1>4
    <3>. QED  BY <3>1, <3>2, <2>1, <2>6, <2>7, <2>8, <2>9, <2>10 DEF Reserved, B, Q
  <2>11. CASE ~w.ok
    <3>1. t = undone
      BY <1>3, <1>7, <2>11
    <3>. DEFINE bits == BitmapSetMultiple(f.bits, f.idx, n, FALSE)
    <3>2. Like(w, undone, {"free_map", "sector"}) /\ undone.free_map = bits /\ undone.ok = w.ok /\ undone.fail = w.fail
      BY <2>7, <2>9 DEF Like, Rec, Fields
    <3>3. IsMap(bits) /\ \A i \in Sectors : bits[i] <=> f.bits[i] /\ i \notin Run(f.idx, n)
      <4>1. bits = [i \in Sectors |-> IF f.idx <= i /\ i < f.idx + n THEN FALSE ELSE f.bits[i]]
        <5>1. DOMAIN f.bits = Sectors
          BY <2>1 DEF IsMap
        <5>. QED  BY <5>1 DEF BitmapSetMultiple
      <4>. HIDE DEF bits
      <4>2. bits = [i \in Sectors |-> bits[i]]
        BY <4>1
      <4>3. \A i \in Sectors : bits[i] \in BOOLEAN
        BY <4>1, <2>1 DEF IsMap
      <4>4. \A i \in Sectors : bits[i] <=> f.bits[i] /\ i \notin Run(f.idx, n)
        BY <4>1 DEF Run
      <4>. QED  BY <4>2, <4>3, <4>4 DEF IsMap
    <3>. HIDE DEF bits, undone
    <3>4. \A i \in Sectors : bits[i] <=> i \in B \cup P
      BY <3>3, <2>1, <1>4
    <3>5. Good(undone, c, cnt, dn, P) /\ Stable(w, undone) /\ undone.disk = w.disk
      <4>1. Like(w, undone, Scratch \cup {"free_map", "panic"}) /\ ~undone.panic
        BY <2>6, <3>2, LikeWider, LikeMeans DEF Scratch, Good
      <4>2. B = Base \cup OwnedBy(w.disk, Live(w))
        BY <2>8 DEF Stable, B
      <4>3. undone.free_map = bits /\ undone.fail \in Nat /\ IsMap(undone.free_map)
        BY <3>2, <3>3, <2>7
      <4>4. P \subseteq Sectors /\ P \cap (Base \cup OwnedBy(w.disk, Live(w))) = {}
        BY <4>2, <1>4
      <4>5. \A i \in Sectors : undone.free_map[i] <=> i \in Base \cup OwnedBy(w.disk, Live(w)) \cup P
        BY <4>2, <4>3, <3>4
      <4>. QED  BY <4>1, <4>3, <4>4, <4>5, <2>6, GoodMap
    <3>6. Stable(s, undone) /\ Like(s, undone, {"disk", "log", "free_map", "ok", "fail", "done", "sector"})
      BY <3>2, <3>5, <2>8, <2>9, StableChains, LikeChains
    <3>. QED  BY <3>1, <3>2, <3>5, <3>6, <2>6, <2>7, <2>11 DEF Reserved
  <2>. QED  BY <2>10, <2>11, <2>6
<1>. QED  BY <1>6, <1>7 DEF t

\* bitmap_set_multiple() clears a run of bits.
LEMMA MapCleared ==
  ASSUME NEW fm, IsMap(fm), NEW x \in Nat, NEW n \in Nat
  PROVE  LET b == BitmapSetMultiple(fm, x, n, FALSE) IN
         /\ IsMap(b) /\ \A i \in Sectors : b[i] <=> fm[i] /\ i \notin Run(x, n)
         /\ BitmapAll(fm, x, n) <=> \A i \in Run(x, n) : fm[i]
<1>. DEFINE b == BitmapSetMultiple(fm, x, n, FALSE)
<1>1. DOMAIN fm = Sectors
  BY DEF IsMap
<1>2. b = [i \in Sectors |-> IF x <= i /\ i < x + n THEN FALSE ELSE fm[i]]
  BY <1>1 DEF BitmapSetMultiple
<1>3. BitmapAll(fm, x, n) <=> \A i \in Run(x, n) : fm[i]
  <2>1. BitmapAll(fm, x, n) <=> ~\E i \in Run(x, n) : fm[i] = FALSE
    BY <1>1 DEF BitmapAll, BitmapContains, Run
  <2>2. \A i \in Run(x, n) : fm[i] \in BOOLEAN
    BY DEF IsMap, Run
  <2>. QED  BY <2>1, <2>2
<1>. HIDE DEF b
<1>4. b = [i \in Sectors |-> b[i]]
  BY <1>2
<1>5. \A i \in Sectors : b[i] \in BOOLEAN
  BY <1>2 DEF IsMap
<1>6. \A i \in Sectors : b[i] <=> fm[i] /\ i \notin Run(x, n)
  BY <1>2 DEF Run
<1>. QED  BY <1>3, <1>4, <1>5, <1>6 DEF IsMap, b

\* The state after free_map_release(): the sectors are free.
Released(s, c, cnt, dn, P, x, n, t) ==
    /\ Good(t, c, cnt, dn, P \ Run(x, n)) /\ Stable(s, t) /\ t.fail <= s.fail
    /\ Like(s, t, {"disk", "log", "free_map", "ok", "fail", "done", "panic"})
    /\ \A i \in Sectors \ MapSectors : t.disk[i] = s.disk[i]

\* free_map_release() finds its assertion true when the call has the sectors.
LEMMA FreeMapReleases ==
  ASSUME NEW s, NEW c, NEW cnt, NEW dn, NEW P, Good(s, c, cnt, dn, P), NEW x \in Nat, NEW n \in Nat, Run(x, n) \subseteq P
  PROVE  Released(s, c, cnt, dn, P, x, n, FreeMapRelease(s, x, n))
<1>. DEFINE b == BitmapSetMultiple(s.free_map, x, n, FALSE)
            m == [s EXCEPT !.panic = @ \/ ~BitmapAll(s.free_map, x, n), !.free_map = BitmapSetMultiple(@, x, n, FALSE)]
            t == FreeMapRelease(s, x, n)
<1>1. Rec(s) /\ s.fail \in Nat /\ ~s.panic
  BY GoodMeans DEF Good
<1>2. /\ IsMap(s.free_map) /\ P \subseteq Sectors
      /\ \A i \in Sectors : s.free_map[i] <=> i \in Base \cup OwnedBy(s.disk, Live(s)) \cup P
      /\ P \cap (Base \cup OwnedBy(s.disk, Live(s))) = {}
  BY MapMeans
<1>3. IsMap(b) /\ (\A i \in Sectors : b[i] <=> s.free_map[i] /\ i \notin Run(x, n)) /\ BitmapAll(s.free_map, x, n)
  BY <1>2, MapCleared
<1>4. Like(s, m, {"free_map", "panic"}) /\ m.free_map = b /\ ~m.panic
  <2>. HIDE DEF b
  <2>1. m = [s EXCEPT !.panic = @ \/ ~BitmapAll(s.free_map, x, n), !.free_map = b]
    BY <1>1 DEF b, Rec, Fields
  <2>. HIDE DEF m
  <2>. QED  BY <1>1, <1>3, <2>1 DEF Like, Rec, Fields
<1>5. t = BitmapWrite(m)
  BY DEF FreeMapRelease
<1>. HIDE DEF m, t, b
<1>6. m.fail = s.fail /\ m.disk = s.disk
  BY <1>4, LikeMeans
<1>7. Good(m, c, cnt, dn, P \ Run(x, n)) /\ Stable(s, m)
  <2>1. Like(s, m, Scratch \cup {"free_map", "panic"})
    BY <1>4, LikeWider
  <2>2. \A i \in Sectors : m.free_map[i] <=> i \in Base \cup OwnedBy(s.disk, Live(s)) \cup (P \ Run(x, n))
    BY <1>2, <1>3, <1>4
  <2>3. P \ Run(x, n) \subseteq Sectors /\ (P \ Run(x, n)) \cap (Base \cup OwnedBy(s.disk, Live(s))) = {}
    BY <1>2
  <2>. QED  BY <2>1, <2>2, <2>3, <1>1, <1>3, <1>4, <1>6, GoodMap
<1>8. MapSaved(m, c, cnt, dn, P \ Run(x, n), t)
  BY <1>5, <1>7, BitmapWrites
<1>9. /\ Good(t, c, cnt, dn, P \ Run(x, n)) /\ Like(m, t, {"disk", "log", "ok", "fail", "done"}) /\ Stable(m, t)
      /\ t.fail <= s.fail /\ \A i \in Sectors \ MapSectors : t.disk[i] = s.disk[i]
  BY <1>6, <1>8 DEF MapSaved
<1>10. Like(s, t, {"disk", "log", "free_map", "ok", "fail", "done", "panic"}) /\ Stable(s, t)
  BY <1>4, <1>7, <1>9, LikeChains, StableChains
<1>. QED  BY <1>9, <1>10 DEF Released, t

\* The state after a run of writes to sectors of the call.
Filled(s, c, cnt, dn, P, first, N, blocks, t) ==
    /\ Good(t, c, cnt, dn, P) /\ Like(s, t, {"disk", "log"}) /\ t.disk = Wrote(s.disk, first, blocks, N)
    /\ Stable(s, t) /\ Marked(t.disk) = Marked(s.disk)

\* Writes to sectors of the call disturb nobody.
LEMMA GoodFills ==
  ASSUME NEW s, NEW c, NEW cnt, NEW dn, NEW P, Good(s, c, cnt, dn, P),
         NEW first \in Nat, NEW N \in Nat, NEW blocks, IsRun(blocks, N),
         \A j \in 1..N : first + j - 1 \in P
  PROVE  Filled(s, c, cnt, dn, P, first, N, blocks, DiskWrites(s, first, blocks))
<1>1. /\ P \subseteq Sectors /\ P \cap (Base \cup OwnedBy(s.disk, Live(s))) = {} /\ Base \subseteq Sectors
      /\ Live(s) \subseteq OwnedBy(s.disk, Live(s)) /\ Special \cup RootSectors \cup MapSectors \subseteq Base
      /\ Base \cup OwnedBy(s.disk, Named(s.disk)) \subseteq Marked(s.disk)
  <2>1. Live(s) \subseteq OwnedBy(s.disk, Live(s))
    BY DEF OwnedBy, Owned
  <2>2. P \subseteq Sectors /\ P \cap (Base \cup OwnedBy(s.disk, Live(s))) = {} /\ Base \subseteq Sectors
    BY MapMeans, BaseIs
  <2>3. Special \cup RootSectors \cup MapSectors \subseteq Base
    BY DEF Special, Base
  <2>. QED  BY <2>1, <2>2, <2>3, GoodMeans
<1>2. ASSUME NEW n \in 0..N PROVE Marked(Wrote(s.disk, first, blocks, n)) = Marked(s.disk)
  <2>1. ASSUME NEW i \in MapSectors PROVE Wrote(s.disk, first, blocks, n)[i] = s.disk[i]
    <3>1. i \in Sectors /\ i \notin P
      BY <1>1
    <3>2. i \in Nat
      BY <3>1, BaseIs
    <3>3. i - first + 1 \in 1..n => first + (i - first + 1) - 1 = i /\ i - first + 1 \in 1..N
      BY <3>2
    <3>4. i - first + 1 \notin 1..n
      BY <3>1, <3>3
    <3>. QED  BY <3>1, <3>4 DEF Wrote
  <2>. QED  BY <2>1, MarkedKept
<1>3. \A j \in 1..N : first + j - 1 \in Sectors \ (Special \cup RootSectors \cup Live(s)) /\ first + j - 1 \notin OwnedBy(s.disk, Live(s))
  BY <1>1
<1>4. N \in 0..N
  OBVIOUS
<1>. DEFINE t == DiskWrites(s, first, blocks)
<1>5. /\ Good(t, c, cnt, dn, P) /\ Like(s, t, {"disk", "log"}) /\ t.disk = Wrote(s.disk, first, blocks, N)
      /\ Stable(s, t)
  BY <1>1, <1>2, <1>3, GoodWrites
<1>6. Marked(t.disk) = Marked(s.disk)
  BY <1>2, <1>4, <1>5
<1>. QED  BY <1>5, <1>6 DEF Filled

\* The state after inode_create(): if it succeeded the call has a file of zeros at x.
Created(s, c, cnt, dn, P, x, length, t) ==
    /\ t.ok \in BOOLEAN /\ Stable(s, t) /\ t.fail \in Nat /\ t.fail <= s.fail
    /\ Like(s, t, {"disk", "log", "free_map", "ok", "fail", "done", "sector"})
    /\ ~t.ok => Good(t, c, cnt, dn, P)
    /\ t.ok => LET R == Run(t.sector, BytesToSectors(length)) IN
               /\ Good(t, c, cnt, dn, P \cup R)
               /\ R \cap (Base \cup OwnedBy(s.disk, Live(s)) \cup P) = {}
               /\ FileAt(t.disk, x) /\ Owned(t.disk, x) = {x} \cup R /\ Data(t.disk, x) = R
               /\ Owned(t.disk, x) \subseteq Marked(t.disk)
               /\ \A y \in R, j \in 1..CELLS : t.disk[y][j] = Zero
               /\ t.fail = 0 \/ t.fail + 1 + Cost <= s.fail

\* inode_create() makes a file of zeros, or leaves everything as it was.
LEMMA InodeCreates ==
  ASSUME NEW s, NEW c, NEW cnt, NEW dn, NEW P, Good(s, c, cnt, dn, P), NEW x \in P, NEW length \in Nat
  PROVE  Created(s, c, cnt, dn, P, x, length, InodeCreate(s, x, length))
<1>. DEFINE a == Alloc(s)
            n == BytesToSectors(length)
            f == FreeMapAllocate(a, n)
            header == [Zeros EXCEPT ![1] = <<f.sector, length>>]
            h == DiskWrites(f, x, <<header>>)
            zeros == [i \in 1..n |-> Zeros]
            z == DiskWrites(h, f.sector, zeros)
            t == InodeCreate(s, x, length)
            R == Run(f.sector, n)
            B == Base \cup OwnedBy(s.disk, Live(s))
            Free == {"disk", "log", "free_map", "ok", "fail", "done", "sector"}
<1>1. t = IF ~a.ok THEN a ELSE IF ~f.ok THEN f ELSE z
  BY DEF InodeCreate, With, DiskWrite
<1>2. n \in Nat
  BY Cells
<1>3. /\ Rec(s) /\ s.fail \in Nat /\ P \subseteq Sectors /\ B \subseteq Sectors /\ P \cap B = {} /\ x \in Nat /\ x \in Sectors
  BY GoodMeans, MapMeans, BaseIs
<1>4. /\ Like(s, a, {"ok", "fail"}) /\ a.ok \in BOOLEAN /\ a.fail \in Nat /\ a.fail <= s.fail
      /\ a.fail = 0 \/ a.fail + 1 <= s.fail
  BY <1>3, AllocIs
<1>5. Good(a, c, cnt, dn, P) /\ Stable(s, a) /\ a.disk = s.disk /\ Live(a) = Live(s) /\ Like(s, a, Free)
  <2>1. Like(s, a, Scratch) /\ Stable(s, a) /\ a.disk = s.disk /\ Like(s, a, Free)
    BY <1>4, LikeWider, StableLike, LikeMeans DEF Scratch
  <2>. QED  BY <2>1, <1>4, GoodLike
<1>6. Reserved(a, c, cnt, dn, P, n, f)
  BY <1>2, <1>5, FreeMapAllocates
<1>. HIDE DEF a, f, t, h, z, header, zeros, R, B, n
<1>7. /\ f.ok \in BOOLEAN /\ Stable(a, f) /\ f.fail \in Nat /\ f.fail <= a.fail /\ Like(a, f, Free)
      /\ ~f.ok => Good(f, c, cnt, dn, P)
      /\ f.ok => /\ Good(f, c, cnt, dn, P \cup R) /\ f.sector \in Nat /\ f.sector + n <= SECTORS
                 /\ R \cap (B \cup P) = {} /\ B \cup P \cup R \subseteq Marked(f.disk)
                 /\ f.fail = 0 \/ f.fail + Cost <= a.fail
  BY <1>5, <1>6 DEF Reserved, R, B
<1>8. Stable(s, f) /\ Like(s, f, Free)
  BY <1>5, <1>7, StableChains, LikeChains
<1>9. ASSUME ~a.ok PROVE Created(s, c, cnt, dn, P, x, length, t)
  BY <1>1, <1>4, <1>5, <1>9 DEF Created
<1>10. ASSUME a.ok, ~f.ok PROVE Created(s, c, cnt, dn, P, x, length, t)
  <2>1. t = f /\ f.fail <= s.fail
    BY <1>1, <1>3, <1>4, <1>7, <1>10
  <2>. HIDE DEF Free
  <2>. QED  BY <2>1, <1>7, <1>8, <1>10 DEF Created, Free
<1>11. ASSUME a.ok, f.ok PROVE Created(s, c, cnt, dn, P, x, length, t)
  <2>1. t = z
    BY <1>1, <1>11
  <2>2. /\ Good(h, c, cnt, dn, P \cup R) /\ Like(f, h, {"disk", "log"}) /\ h.disk = Wrote(f.disk, x, <<header>>, 1)
        /\ Stable(f, h) /\ Marked(h.disk) = Marked(f.disk)
    <3>1. IsRun(<<header>>, 1)
      BY DEF IsRun
    <3>2. \A j \in 1..1 : x + j - 1 \in P \cup R
      BY <1>3
    <3>3. Good(f, c, cnt, dn, P \cup R) /\ 1 \in Nat
      BY <1>7, <1>11
    <3>. DEFINE one == <<header>>
    <3>4. h = DiskWrites(f, x, one)
      BY DEF h
    <3>5. IsRun(one, 1)
      BY <3>1
    <3>. HIDE DEF one
    <3>6. Filled(f, c, cnt, dn, P \cup R, x, 1, one, h)
      BY <3>2, <3>3, <3>4, <3>5, <1>3, GoodFills
    <3>. QED  BY <3>6 DEF Filled, one
  <2>3. h.sector = f.sector /\ h.ok = f.ok /\ h.fail = f.fail
    BY <2>2, LikeMeans
  <2>4. /\ Good(z, c, cnt, dn, P \cup R) /\ Like(h, z, {"disk", "log"}) /\ z.disk = Wrote(h.disk, f.sector, zeros, n)
        /\ Stable(h, z) /\ Marked(z.disk) = Marked(h.disk)
    <3>1. IsRun(zeros, n)
      BY DEF IsRun, zeros
    <3>2. f.sector \in Nat /\ f.sector + n <= SECTORS
      BY <1>7, <1>11
    <3>3. \A j \in 1..n : f.sector + j - 1 \in P \cup R
      <4>1. ASSUME NEW j \in 1..n PROVE f.sector + j - 1 \in R
        <5>1. f.sector + j - 1 \in Sectors
          BY <3>2, <1>2, Consts DEF Sectors
        <5>. QED  BY <5>1, <3>2, <1>2 DEF R, Run
      <4>. QED  BY <4>1
    <3>4. Filled(h, c, cnt, dn, P \cup R, f.sector, n, zeros, z)
      BY <3>1, <3>2, <3>3, <2>2, <1>2, GoodFills DEF z
    <3>. QED  BY <3>4 DEF Filled
  <2>5. z.sector = f.sector /\ z.ok = f.ok /\ z.fail = f.fail
    BY <2>3, <2>4, LikeMeans
  <2>6. Stable(s, z) /\ Like(s, z, Free)
    <3>1. Stable(s, h) /\ Like(s, h, Free)
      BY <1>8, <2>2, StableChains, LikeChains
    <3>. QED  BY <3>1, <2>4, StableChains, LikeChains
  <2>7. /\ f.sector \in Nat /\ f.sector + n <= SECTORS /\ R \cap (B \cup P) = {}
        /\ B \cup P \cup R \subseteq Marked(z.disk) /\ (f.fail = 0 \/ f.fail + Cost <= a.fail)
    BY <1>7, <1>11, <2>2, <2>4
  <2>8. z.disk[x][1] = <<f.sector, length>>
    <3>1. h.disk[x] = header
      BY <2>2, <1>3 DEF Wrote
    <3>2. x \notin R
      BY <2>7
    <3>3. x - f.sector + 1 \notin 1..n
      BY <3>2, <2>7, <1>2, <1>3 DEF R, Run
    <3>4. z.disk[x] = h.disk[x]
      BY <2>4, <1>3, <3>3 DEF Wrote
    <3>5. header[1] = <<f.sector, length>>
      <4>1. 1 \in 1..CELLS
        BY Consts
      <4>. QED  BY <4>1 DEF header, Zeros
    <3>. QED  BY <3>1, <3>4, <3>5
  <2>9. Header(z.disk, x) = [start |-> f.sector, length |-> length]
    BY <2>8 DEF Header
  <2>10. Owned(z.disk, x) = {x} \cup R /\ Data(z.disk, x) = R
    BY <2>9 DEF Owned, Data, R, n
  <2>11. FileAt(z.disk, x)
    <3>1. ({x} \cup R) \cap Base = {} /\ x \notin R
      BY <2>7, <1>3 DEF B
    <3>2. BytesToSectors(length) = n
      BY DEF n
    <3>. QED  BY <3>1, <3>2, <2>7, <2>9, <2>10, <1>3 DEF FileAt
  <2>12. ASSUME NEW y \in R, NEW j \in 1..CELLS PROVE z.disk[y][j] = Zero
    <3>1. y \in Sectors /\ f.sector <= y /\ y < f.sector + n /\ y \in Nat
      BY BaseIs DEF R, Run
    <3>2. y - f.sector + 1 \in 1..n
      BY <3>1, <2>7, <1>2
    <3>3. z.disk[y] = Zeros
      BY <3>1, <3>2, <2>4 DEF Wrote, zeros
    <3>. QED  BY <3>3 DEF Zeros
  <2>13. Run(z.sector, BytesToSectors(length)) = R
    BY <2>5 DEF R, n
  <2>14. z.fail \in Nat /\ z.fail <= s.fail /\ (z.fail = 0 \/ z.fail + 1 + Cost <= s.fail)
    <3>1. Cost \in {0, 1}
      BY DEF Cost
    <3>. QED  BY <3>1, <2>5, <2>7, <1>3, <1>4, <1>7
  <2>15. z.ok \in BOOLEAN /\ z.ok
    BY <2>5, <1>7, <1>11
  <2>16. /\ Good(z, c, cnt, dn, P \cup R) /\ R \cap (B \cup P) = {}
         /\ FileAt(z.disk, x) /\ Owned(z.disk, x) = {x} \cup R /\ Data(z.disk, x) = R
         /\ Owned(z.disk, x) \subseteq Marked(z.disk)
         /\ \A y \in R, j \in 1..CELLS : z.disk[y][j] = Zero
    BY <2>4, <2>7, <2>10, <2>11, <2>12
  <2>. HIDE DEF Free
  <2>17. Created(s, c, cnt, dn, P, x, length, z)
    BY <2>6, <2>13, <2>14, <2>15, <2>16 DEF Created, B, Free
  <2>. QED  BY <2>1, <2>17
<1>. QED  BY <1>4, <1>7, <1>9, <1>10, <1>11 DEF t

\* The number of x is v, the others are as in f.
Turned(f, g, x, v) == g \in [Sectors -> Nat] /\ g[x] = v /\ \A i \in Sectors \ {x} : g[i] = f[i]

\* The list of open inodes after that of x came, went or changed.
LEMMA OpensMore ==
  ASSUME NEW d, NEW nodes, NEW cnt, NEW dn, Opens(d, nodes, cnt, dn), NEW x \in Sectors, NEW k \in Nat, NEW m \in Nat, m <= k,
         x = FREE_MAP_SECTOR => k > 0, x \in Special => m = 0,
         NEW cnt2, Turned(cnt, cnt2, x, k), NEW dn2, Turned(dn, dn2, x, m),
         NEW more, IsNodes(more),
         DOMAIN more = (DOMAIN nodes \ {x}) \cup (IF k > 0 THEN {x} ELSE {}),
         \A i \in DOMAIN nodes \ {x} : more[i] = nodes[i],
         k > 0 => more[x] = Inode(d, x, cnt2, dn2)
  PROVE  Opens(d, more, cnt2, dn2)
<1>1. /\ cnt \in [Sectors -> Nat] /\ dn \in [Sectors -> Nat] /\ DOMAIN nodes = {i \in Sectors : cnt[i] > 0}
      /\ \A i \in DOMAIN nodes : nodes[i] = Inode(d, i, cnt, dn)
      /\ \A i \in Sectors : dn[i] <= cnt[i]
      /\ cnt[FREE_MAP_SECTOR] > 0 /\ dn[FREE_MAP_SECTOR] = 0 /\ dn[ROOT_DIR_SECTOR] = 0
  BY DEF Opens
<1>2. /\ cnt2 \in [Sectors -> Nat] /\ dn2 \in [Sectors -> Nat] /\ cnt2[x] = k /\ dn2[x] = m
      /\ \A i \in Sectors \ {x} : cnt2[i] = cnt[i] /\ dn2[i] = dn[i]
  BY DEF Turned
<1>3. DOMAIN more = {i \in Sectors : cnt2[i] > 0}
  BY <1>1, <1>2
<1>4. ASSUME NEW i \in DOMAIN more PROVE more[i] = Inode(d, i, cnt2, dn2)
  <2>1. CASE i = x
    BY <2>1, <1>2, <1>3
  <2>2. CASE i # x
    <3>1. i \in DOMAIN nodes \ {x} /\ i \in Sectors \ {x}
      BY <2>2, <1>1
    <3>2. Inode(d, i, cnt2, dn2) = Inode(d, i, cnt, dn)
      BY <3>1, <1>2 DEF Inode
    <3>. QED  BY <3>1, <3>2, <1>1
  <2>. QED  BY <2>1, <2>2
<1>5. \A i \in Sectors : dn2[i] <= cnt2[i]
  BY <1>1, <1>2
<1>6. cnt2[FREE_MAP_SECTOR] > 0 /\ dn2[FREE_MAP_SECTOR] = 0 /\ dn2[ROOT_DIR_SECTOR] = 0
  <2>1. FREE_MAP_SECTOR \in Sectors /\ ROOT_DIR_SECTOR \in Sectors
    BY BaseIs DEF FREE_MAP_SECTOR, ROOT_DIR_SECTOR
  <2>. QED  BY <2>1, <1>1, <1>2 DEF Special
<1>. QED  BY <1>2, <1>3, <1>4, <1>5, <1>6 DEF Opens

\* A step that changes the list of open inodes: what is no longer live goes to P.
LEMMA GoodNodes ==
  ASSUME NEW s, NEW c, NEW cnt, NEW dn, NEW P, Good(s, c, cnt, dn, P),
         NEW t, Like(s, t, Scratch \cup {"inodes", "panic"}), ~t.panic, t.fail \in Nat,
         NEW cnt2, NEW dn2, Opens(s.disk, t.inodes, cnt2, dn2),
         Live(t) \subseteq Live(s), c.open \cup c.write \subseteq DOMAIN t.inodes \ Special
  PROVE  /\ t.disk = s.disk /\ t.free_map = s.free_map
         /\ Good(t, c, cnt2, dn2, P \cup (OwnedBy(s.disk, Live(s)) \ OwnedBy(s.disk, Live(t))))
         /\ Live(t) = Live(s) => Stable(s, t) /\ Good(t, c, cnt2, dn2, P)
<1>1. /\ Rec(t) /\ t.disk = s.disk /\ t.log = s.log /\ t.map_open = s.map_open /\ t.free_map = s.free_map
  BY DEF Like, Fields, Scratch
<1>. DEFINE Q == P \cup (OwnedBy(s.disk, Live(s)) \ OwnedBy(s.disk, Live(t)))
<1>2. OwnedBy(s.disk, Live(t)) \subseteq OwnedBy(s.disk, Live(s))
  BY DEF OwnedBy
<1>3. /\ IsMap(s.free_map) /\ P \subseteq Sectors
      /\ \A i \in Sectors : s.free_map[i] <=> i \in Base \cup OwnedBy(s.disk, Live(s)) \cup P
      /\ P \cap (Base \cup OwnedBy(s.disk, Live(s))) = {}
      /\ Base \cup OwnedBy(s.disk, Live(s)) \subseteq Sectors
      /\ Base \cap OwnedBy(s.disk, Live(s)) = {}
  BY MapMeans
<1>4. Apart(s.disk, Live(t))
  BY GoodMeans DEF Apart
<1>5. Space(t.disk, t.free_map, Live(t), Q)
  <2>1. /\ Q \subseteq Sectors /\ Q \cap (Base \cup OwnedBy(s.disk, Live(t))) = {}
        /\ Base \cup OwnedBy(s.disk, Live(s)) \cup P = Base \cup OwnedBy(s.disk, Live(t)) \cup Q
    BY <1>2, <1>3
  <2>. HIDE DEF Q
  <2>. QED  BY <2>1, <1>1, <1>3, <1>4 DEF Space, IsMap
<1>. HIDE DEF Q
<1>6. Good(t, c, cnt2, dn2, Q)
  BY <1>1, <1>5 DEF Good
<1>7. Live(t) = Live(s) => Q = P /\ Stable(s, t)
  BY <1>1 DEF Q, Stable
<1>. QED  BY <1>1, <1>6, <1>7 DEF Q

\* The state after inode_open(): one opener more if it succeeded.
NodesOpened(s, c, cnt, dn, P, x, t) ==
    /\ t.ok \in BOOLEAN /\ Stable(s, t) /\ t.fail \in Nat /\ t.fail <= s.fail
    /\ Like(s, t, {"inodes", "ok", "fail"})
    /\ ~t.ok => Good(t, c, cnt, dn, P) /\ Like(s, t, {"ok", "fail"}) /\ cnt[x] = 0
    /\ t.ok => Good(t, c, [cnt EXCEPT ![x] = @ + 1], dn, P)
    /\ t.fail = 0 \/ t.fail + (IF cnt[x] = 0 THEN 1 ELSE 0) <= s.fail

\* inode_open() finds the inode in the list, or reads it into a new one.
LEMMA InodeOpens ==
  ASSUME NEW s, NEW c, NEW cnt, NEW dn, NEW P, Good(s, c, cnt, dn, P), NEW x \in Sectors,
         x \in Named(s.disk) \cup Special \cup DOMAIN s.inodes
  PROVE  NodesOpened(s, c, cnt, dn, P, x, InodeOpen(s, x))
<1>. DEFINE d == s.disk
            nodes == s.inodes
            no == FALSE
            fresh == [open_cnt |-> 1, removed |-> no, deny_write_cnt |-> 0, start |-> d[x][1][1], length |-> d[x][1][2]]
            a == Alloc(s)
            shared == [s EXCEPT !.inodes[x].open_cnt = @ + 1, !.ok = TRUE]
            added == [a EXCEPT !.inodes = [i \in DOMAIN @ \union {x} |-> IF i = x THEN fresh ELSE @[i]]]
            t == InodeOpen(s, x)
            cnt2 == [cnt EXCEPT ![x] = @ + 1]
            k == cnt[x] + 1
            m == dn[x]
<1>1. t = IF x \in DOMAIN nodes THEN shared ELSE IF ~a.ok THEN a ELSE added
  BY DEF InodeOpen, With
<1>2. /\ Rec(s) /\ s.fail \in Nat /\ ~s.panic /\ Opens(d, nodes, cnt, dn) /\ Live(s) \subseteq Sectors
      /\ c.open \cup c.write \subseteq DOMAIN nodes \ Special
  BY GoodMeans DEF Good
<1>3. /\ cnt \in [Sectors -> Nat] /\ dn \in [Sectors -> Nat] /\ DOMAIN nodes = {i \in Sectors : cnt[i] > 0}
      /\ IsNodes(nodes)
      /\ \A i \in DOMAIN nodes : nodes[i] = Inode(d, i, cnt, dn)
      /\ \A i \in Sectors : dn[i] <= cnt[i]
      /\ dn[FREE_MAP_SECTOR] = 0 /\ dn[ROOT_DIR_SECTOR] = 0 /\ cnt[FREE_MAP_SECTOR] > 0
  BY <1>2 DEF Opens
<1>4. /\ Turned(cnt, cnt2, x, k) /\ k \in Nat /\ k > 0 /\ Turned(dn, dn, x, m) /\ m \in Nat
      /\ m <= k /\ (x \in Special => m = 0) /\ cnt2[x] = k /\ k = cnt[x] + 1 /\ {x} = IF k > 0 THEN {x} ELSE {}
  BY <1>3 DEF Special, Turned
<1>5. /\ Like(s, a, {"ok", "fail"}) /\ a.ok \in BOOLEAN /\ a.fail \in Nat /\ a.fail <= s.fail
      /\ a.fail = 0 \/ a.fail + 1 <= s.fail
  BY <1>2, AllocIs
<1>. HIDE DEF d, nodes, a, t, fresh, shared, added, cnt2, k, m, no
<1>6. ASSUME x \in DOMAIN nodes PROVE NodesOpened(s, c, cnt, dn, P, x, t)
  <2>. DEFINE node == nodes[x]
              more == [nodes EXCEPT ![x] = [node EXCEPT !.open_cnt = @ + 1]]
  <2>1. t = shared
    BY <1>1, <1>6
  <2>2. node = Inode(d, x, cnt, dn)
    BY <1>3, <1>6
  <2>3. [node EXCEPT !.open_cnt = @ + 1] = Inode(d, x, cnt2, dn)
    BY <2>2, <1>4 DEF Inode
  <2>4. shared = [s EXCEPT !.inodes = more, !.ok = TRUE]
    BY <1>2 DEF shared, Rec, Fields, nodes
  <2>. HIDE DEF node
  <2>5. DOMAIN more = DOMAIN nodes /\ IsNodes(more) /\ more[x] = Inode(d, x, cnt2, dn)
        /\ \A i \in DOMAIN nodes \ {x} : more[i] = nodes[i]
    BY <2>3, <1>3, <1>6 DEF IsNodes
  <2>. HIDE DEF more
  <2>6. Opens(d, more, cnt2, dn)
    <3>1. DOMAIN more = (DOMAIN nodes \ {x}) \cup (IF k > 0 THEN {x} ELSE {})
      BY <2>5, <1>4, <1>6
    <3>. QED  BY <3>1, <2>5, <1>2, <1>4, OpensMore
  <2>7. Like(s, shared, {"inodes", "ok"}) /\ shared.inodes = more /\ shared.ok /\ shared.ok \in BOOLEAN
    BY <2>4, <1>2 DEF Like, Rec, Fields
  <2>. HIDE DEF shared
  <2>8. shared.fail = s.fail /\ shared.panic = s.panic /\ shared.disk = d /\ Like(s, shared, {"inodes", "ok", "fail"})
    BY <2>7, LikeMeans, LikeWider DEF d
  <2>9. Live(shared) = Live(s)
    BY <2>5, <2>7, <2>8 DEF Live, nodes, d
  <2>10. Good(shared, c, cnt2, dn, P) /\ Stable(s, shared)
    <3>1. Like(s, shared, Scratch \cup {"inodes", "panic"})
      BY <2>7, LikeWider DEF Scratch
    <3>2. c.open \cup c.write \subseteq DOMAIN shared.inodes \ Special
      BY <1>2, <2>5, <2>7
    <3>3. Opens(s.disk, shared.inodes, cnt2, dn)
      BY <2>6, <2>7 DEF d
    <3>. QED  BY <3>1, <3>2, <3>3, <2>8, <2>9, <1>2, GoodNodes
  <2>11. cnt[x] # 0
    BY <1>3, <1>6
  <2>. QED  BY <2>1, <2>7, <2>8, <2>10, <2>11, <1>2 DEF NodesOpened, cnt2
<1>7. ASSUME x \notin DOMAIN nodes, ~a.ok PROVE NodesOpened(s, c, cnt, dn, P, x, t)
  <2>1. t = a
    BY <1>1, <1>7
  <2>2. Like(s, a, Scratch) /\ Stable(s, a) /\ Like(s, a, {"inodes", "ok", "fail"})
    BY <1>5, LikeWider, StableLike DEF Scratch
  <2>3. Good(a, c, cnt, dn, P)
    BY <2>2, <1>5, GoodLike
  <2>4. cnt[x] = 0
    BY <1>3, <1>7
  <2>. QED  BY <2>1, <2>2, <2>3, <2>4, <1>5, <1>7 DEF NodesOpened
<1>8. ASSUME x \notin DOMAIN nodes, a.ok PROVE NodesOpened(s, c, cnt, dn, P, x, t)
  <2>. DEFINE more == [i \in DOMAIN nodes \union {x} |-> IF i = x THEN fresh ELSE nodes[i]]
  <2>1. t = added
    BY <1>1, <1>8
  <2>2. cnt[x] = 0 /\ dn[x] = 0
    BY <1>3, <1>8
  <2>3. x \in Named(d) \cup Special
    BY <1>8 DEF d, nodes
  <2>4. fresh = Inode(d, x, cnt2, dn)
    <3>1. Gone(d, x) = no
      BY <2>3 DEF Gone, no
    <3>. QED  BY <3>1, <2>2, <1>4 DEF fresh, Inode, Header
  <2>5. a.inodes = nodes /\ a.disk = d /\ a.panic = s.panic /\ Rec(a)
    BY <1>5, LikeMeans DEF nodes, d
  <2>6. added = [a EXCEPT !.inodes = more]
    BY <2>5 DEF added, Rec, Fields
  <2>7. DOMAIN more = DOMAIN nodes \cup {x} /\ IsNodes(more) /\ more[x] = Inode(d, x, cnt2, dn)
        /\ \A i \in DOMAIN nodes \ {x} : more[i] = nodes[i]
    BY <2>4 DEF IsNodes
  <2>. HIDE DEF more
  <2>8. Opens(d, more, cnt2, dn)
    <3>1. DOMAIN more = (DOMAIN nodes \ {x}) \cup (IF k > 0 THEN {x} ELSE {})
      BY <2>7, <1>4
    <3>. QED  BY <3>1, <2>7, <1>2, <1>4, OpensMore
  <2>9. Like(a, added, {"inodes"}) /\ added.inodes = more
    BY <2>5, <2>6 DEF Like, Rec, Fields
  <2>. HIDE DEF added
  <2>10. added.fail = a.fail /\ added.ok = a.ok /\ added.panic = s.panic /\ added.disk = d
    BY <2>5, <2>9, LikeMeans
  <2>11. Like(s, added, {"inodes", "ok", "fail"})
    BY <2>9, <1>5, LikeChains
  <2>12. Live(added) = Live(s)
    BY <2>3, <2>7, <2>9, <2>10 DEF Live, nodes, d
  <2>13. Good(added, c, cnt2, dn, P) /\ Stable(s, added)
    <3>1. Like(s, added, Scratch \cup {"inodes", "panic"})
      BY <2>11, LikeWider DEF Scratch
    <3>2. c.open \cup c.write \subseteq DOMAIN added.inodes \ Special
      BY <1>2, <2>7, <2>9
    <3>3. Opens(s.disk, added.inodes, cnt2, dn)
      BY <2>8, <2>9 DEF d
    <3>. QED  BY <3>1, <3>2, <3>3, <2>10, <2>12, <1>2, <1>5, GoodNodes
  <2>. QED  BY <2>1, <2>10, <2>11, <2>13, <1>5, <1>8 DEF NodesOpened, cnt2
<1>. QED  BY <1>5, <1>6, <1>7, <1>8 DEF t

\* The list of open inodes with another inode at x.
Edited(d, nodes, more, cnt2, dn2, x) ==
    /\ IsNodes(more) /\ DOMAIN more = DOMAIN nodes /\ more[x] = Inode(d, x, cnt2, dn2)
    /\ \A i \in DOMAIN nodes \ {x} : more[i] = nodes[i]

\* A step that changes the numbers of one inode.
LEMMA GoodEdited ==
  ASSUME NEW s, NEW c, NEW cnt, NEW dn, NEW P, Good(s, c, cnt, dn, P), NEW x \in DOMAIN s.inodes,
         NEW k \in Nat \ {0}, NEW m \in Nat, m <= k, x \in Special => m = 0,
         NEW cnt2, Turned(cnt, cnt2, x, k), NEW dn2, Turned(dn, dn2, x, m),
         NEW t, Like(s, t, Scratch \cup {"inodes", "panic"}), ~t.panic, t.fail \in Nat,
         Edited(s.disk, s.inodes, t.inodes, cnt2, dn2, x)
  PROVE  Good(t, c, cnt2, dn2, P) /\ Stable(s, t)
<1>1. /\ Opens(s.disk, s.inodes, cnt, dn) /\ c.open \cup c.write \subseteq DOMAIN s.inodes \ Special
      /\ DOMAIN s.inodes \subseteq Sectors
  BY DEF Good, Opens
<1>2. Opens(s.disk, t.inodes, cnt2, dn2)
  <2>1. DOMAIN t.inodes = (DOMAIN s.inodes \ {x}) \cup (IF k > 0 THEN {x} ELSE {})
    BY DEF Edited
  <2>2. /\ IsNodes(t.inodes) /\ t.inodes[x] = Inode(s.disk, x, cnt2, dn2)
        /\ \A i \in DOMAIN s.inodes \ {x} : t.inodes[i] = s.inodes[i]
    BY DEF Edited
  <2>3. k > 0 /\ k \in Nat
    OBVIOUS
  <2>. QED  BY <2>1, <2>2, <2>3, <1>1, OpensMore
<1>3. t.disk = s.disk
  BY DEF Like, Fields, Scratch
<1>4. DOMAIN t.inodes = DOMAIN s.inodes
  BY DEF Edited
<1>5. Live(t) = Live(s)
  BY <1>3, <1>4 DEF Live
<1>. QED  BY <1>1, <1>2, <1>4, <1>5, GoodNodes

\* The open inode at x.
LEMMA NodeOf ==
  ASSUME NEW s, NEW c, NEW cnt, NEW dn, NEW P, Good(s, c, cnt, dn, P), NEW x \in Sectors, cnt[x] > 0
  PROVE  /\ x \in DOMAIN s.inodes /\ s.inodes[x] = Inode(s.disk, x, cnt, dn) /\ IsNodes(s.inodes)
         /\ cnt \in [Sectors -> Nat] /\ dn \in [Sectors -> Nat] /\ dn[x] <= cnt[x] /\ (x \in Special => dn[x] = 0)
         /\ Rec(s) /\ s.fail \in Nat /\ ~s.panic
BY DEF Good, Opens, Special

\* inode_reopen() counts one opener more.
LEMMA InodeReopens ==
  ASSUME NEW s, NEW c, NEW cnt, NEW dn, NEW P, Good(s, c, cnt, dn, P), NEW x \in Sectors, cnt[x] > 0
  PROVE  LET t == InodeReopen(s, x) IN
         Good(t, c, [cnt EXCEPT ![x] = @ + 1], dn, P) /\ Stable(s, t) /\ Like(s, t, {"inodes"})
<1>. DEFINE d == s.disk
            nodes == s.inodes
            node == nodes[x]
            more == [nodes EXCEPT ![x] = [node EXCEPT !.open_cnt = @ + 1]]
            t == InodeReopen(s, x)
            cnt2 == [cnt EXCEPT ![x] = @ + 1]
            k == cnt[x] + 1
            m == dn[x]
<1>1. /\ x \in DOMAIN nodes /\ node = Inode(d, x, cnt, dn) /\ IsNodes(nodes)
      /\ cnt \in [Sectors -> Nat] /\ dn \in [Sectors -> Nat] /\ dn[x] <= cnt[x] /\ (x \in Special => dn[x] = 0)
      /\ Rec(s) /\ s.fail \in Nat /\ ~s.panic
  BY NodeOf
<1>2. Turned(cnt, cnt2, x, k) /\ k \in Nat \ {0} /\ Turned(dn, dn, x, m) /\ m \in Nat /\ m <= k /\ (x \in Special => m = 0)
  BY <1>1 DEF Turned
<1>. HIDE DEF node
<1>3. t = [s EXCEPT !.inodes = more]
  BY <1>1 DEF InodeReopen, Rec, Fields, node
<1>4. [node EXCEPT !.open_cnt = @ + 1] = Inode(d, x, cnt2, dn)
  BY <1>1, <1>2 DEF Inode, Turned
<1>5. Edited(d, nodes, more, cnt2, dn, x)
  BY <1>1, <1>4 DEF IsNodes, Edited
<1>. HIDE DEF more, cnt2, k, m, t
<1>6. Like(s, t, {"inodes"}) /\ t.inodes = more
  BY <1>1, <1>3 DEF Like, Rec, Fields
<1>7. Like(s, t, Scratch \cup {"inodes", "panic"}) /\ t.fail = s.fail /\ t.panic = s.panic
  BY <1>6, LikeWider, LikeMeans
<1>8. Good(t, c, cnt2, dn, P) /\ Stable(s, t)
  BY <1>1, <1>2, <1>5, <1>6, <1>7, GoodEdited
<1>. QED  BY <1>6, <1>8 DEF cnt2, t

\* inode_deny_write() finds its assertion true.
LEMMA InodeDenies ==
  ASSUME NEW s, NEW c, NEW cnt, NEW dn, NEW P, Good(s, c, cnt, dn, P), NEW x \in Sectors \ Special, dn[x] < cnt[x]
  PROVE  LET t == InodeDenyWrite(s, x) IN
         Good(t, c, cnt, [dn EXCEPT ![x] = @ + 1], P) /\ Stable(s, t) /\ Like(s, t, {"inodes", "panic"})
<1>. DEFINE d == s.disk
            nodes == s.inodes
            node == nodes[x]
            more == [nodes EXCEPT ![x] = [node EXCEPT !.deny_write_cnt = @ + 1]]
            t == InodeDenyWrite(s, x)
            dn2 == [dn EXCEPT ![x] = @ + 1]
            k == cnt[x]
            m == dn[x] + 1
<1>11. cnt[x] > 0
  <2>1. cnt[x] \in Nat /\ dn[x] \in Nat
    BY DEF Good, Opens
  <2>. QED  BY <2>1
<1>1. /\ x \in DOMAIN nodes /\ node = Inode(d, x, cnt, dn) /\ IsNodes(nodes)
      /\ cnt \in [Sectors -> Nat] /\ dn \in [Sectors -> Nat] /\ dn[x] <= cnt[x]
      /\ Rec(s) /\ s.fail \in Nat /\ ~s.panic
  BY <1>11, NodeOf
<1>2. Turned(cnt, cnt, x, k) /\ k \in Nat \ {0} /\ Turned(dn, dn2, x, m) /\ m \in Nat /\ m <= k
  BY <1>11, <1>1 DEF Turned
<1>3. node.deny_write_cnt = dn[x] /\ node.open_cnt = cnt[x]
  BY <1>1 DEF Inode
<1>. HIDE DEF node
<1>4. t = [s EXCEPT !.inodes = more, !.panic = @ \/ node.deny_write_cnt >= node.open_cnt]
  BY <1>1 DEF InodeDenyWrite, Rec, Fields, node
<1>5. [node EXCEPT !.deny_write_cnt = @ + 1] = Inode(d, x, cnt, dn2)
  BY <1>1, <1>2 DEF Inode, Turned
<1>6. Edited(d, nodes, more, cnt, dn2, x)
  BY <1>1, <1>5 DEF IsNodes, Edited
<1>. HIDE DEF more, dn2, k, m, t
<1>7. Like(s, t, {"inodes", "panic"}) /\ t.inodes = more
  BY <1>1, <1>4 DEF Like, Rec, Fields
<1>8. ~t.panic
  <2>1. ~(node.deny_write_cnt >= node.open_cnt)
    BY <1>1, <1>3
  <2>. QED  BY <2>1, <1>1, <1>4 DEF Rec, Fields
<1>9. Like(s, t, Scratch \cup {"inodes", "panic"}) /\ t.fail = s.fail
  BY <1>7, LikeWider, LikeMeans
<1>10. Good(t, c, cnt, dn2, P) /\ Stable(s, t)
  BY <1>1, <1>2, <1>6, <1>7, <1>8, <1>9, GoodEdited
<1>. QED  BY <1>7, <1>10 DEF dn2, t

\* inode_allow_write() finds its assertions true.
LEMMA InodeAllows ==
  ASSUME NEW s, NEW c, NEW cnt, NEW dn, NEW P, Good(s, c, cnt, dn, P), NEW x \in Sectors \ Special, dn[x] > 0
  PROVE  LET t == InodeAllowWrite(s, x) IN
         Good(t, c, cnt, [dn EXCEPT ![x] = @ - 1], P) /\ Stable(s, t) /\ Like(s, t, {"inodes", "panic"})
<1>. DEFINE d == s.disk
            nodes == s.inodes
            node == nodes[x]
            more == [nodes EXCEPT ![x] = [node EXCEPT !.deny_write_cnt = @ - 1]]
            t == InodeAllowWrite(s, x)
            dn2 == [dn EXCEPT ![x] = @ - 1]
            k == cnt[x]
            m == dn[x] - 1
<1>11. cnt[x] > 0
  <2>1. cnt[x] \in Nat /\ dn[x] \in Nat /\ dn[x] <= cnt[x]
    BY DEF Good, Opens
  <2>. QED  BY <2>1
<1>1. /\ x \in DOMAIN nodes /\ node = Inode(d, x, cnt, dn) /\ IsNodes(nodes)
      /\ cnt \in [Sectors -> Nat] /\ dn \in [Sectors -> Nat] /\ dn[x] <= cnt[x]
      /\ Rec(s) /\ s.fail \in Nat /\ ~s.panic
  BY <1>11, NodeOf
<1>2. Turned(cnt, cnt, x, k) /\ k \in Nat \ {0} /\ Turned(dn, dn2, x, m) /\ m \in Nat /\ m <= k
  BY <1>11, <1>1 DEF Turned
<1>3. node.deny_write_cnt = dn[x] /\ node.open_cnt = cnt[x]
  BY <1>1 DEF Inode
<1>. HIDE DEF node
<1>4. t = [s EXCEPT !.inodes = more, !.panic = @ \/ node.deny_write_cnt \notin 1..node.open_cnt]
  BY <1>1 DEF InodeAllowWrite, Rec, Fields, node
<1>5. [node EXCEPT !.deny_write_cnt = @ - 1] = Inode(d, x, cnt, dn2)
  BY <1>1, <1>2 DEF Inode, Turned
<1>6. Edited(d, nodes, more, cnt, dn2, x)
  BY <1>1, <1>5 DEF IsNodes, Edited
<1>. HIDE DEF more, dn2, k, m, t
<1>7. Like(s, t, {"inodes", "panic"}) /\ t.inodes = more
  BY <1>1, <1>4 DEF Like, Rec, Fields
<1>8. ~t.panic
  <2>1. node.deny_write_cnt \in 1..node.open_cnt
    BY <1>1, <1>3
  <2>. QED  BY <2>1, <1>1, <1>4 DEF Rec, Fields
<1>9. Like(s, t, Scratch \cup {"inodes", "panic"}) /\ t.fail = s.fail
  BY <1>7, LikeWider, LikeMeans
<1>10. Good(t, c, cnt, dn2, P) /\ Stable(s, t)
  BY <1>1, <1>2, <1>6, <1>7, <1>8, <1>9, GoodEdited
<1>. QED  BY <1>7, <1>10 DEF dn2, t

\* The state after inode_close().
NodesClosed(s, c, cnt, dn, P, x, t) ==
    /\ Good(t, c, [cnt EXCEPT ![x] = @ - 1], dn, P) /\ t.fail \in Nat /\ t.fail <= s.fail
    /\ x \in Named(s.disk) \cup Special \/ cnt[x] > 1 => Like(s, t, {"inodes"}) /\ Stable(s, t)
    /\ Like(s, t, {"disk", "log", "free_map", "inodes", "ok", "fail", "done", "panic"})
    /\ Named(t.disk) = Named(s.disk) /\ \A a \in Slots : Slot(t.disk, a) = Slot(s.disk, a)
    /\ \A i \in Sectors \ MapSectors : t.disk[i] = s.disk[i]

\* inode_close() frees the sectors of a removed file that its last opener closes.
LEMMA InodeCloses ==
  ASSUME NEW s, NEW c, NEW cnt, NEW dn, NEW P, Good(s, c, cnt, dn, P), NEW x \in Sectors, dn[x] < cnt[x],
         x = FREE_MAP_SECTOR => cnt[x] > 1, cnt[x] = 1 => x \notin c.open \cup c.write
  PROVE  NodesClosed(s, c, cnt, dn, P, x, InodeClose(s, x))
<1>. DEFINE d == s.disk
            nodes == s.inodes
            node == nodes[x]
            more == [nodes EXCEPT ![x] = [node EXCEPT !.open_cnt = @ - 1]]
            rest == [i \in DOMAIN nodes \ {x} |-> nodes[i]]
            lower == [s EXCEPT !.inodes[x].open_cnt = @ - 1]
            closed == [s EXCEPT !.inodes = [i \in DOMAIN @ \ {x} |-> @[i]]]
            one == FreeMapRelease(closed, x, 1)
            n == BytesToSectors(node.length)
            both == FreeMapRelease(one, node.start, n)
            t == InodeClose(s, x)
            cnt2 == [cnt EXCEPT ![x] = @ - 1]
            k == cnt[x] - 1
            m == dn[x]
            Free == {"disk", "log", "free_map", "inodes", "ok", "fail", "done", "panic"}
<1>10. cnt[x] > 0
  <2>1. cnt[x] \in Nat /\ dn[x] \in Nat
    BY DEF Good, Opens
  <2>. QED  BY <2>1
<1>1. /\ x \in DOMAIN nodes /\ node = Inode(d, x, cnt, dn) /\ IsNodes(nodes)
      /\ cnt \in [Sectors -> Nat] /\ dn \in [Sectors -> Nat] /\ dn[x] <= cnt[x] /\ (x \in Special => dn[x] = 0)
      /\ Rec(s) /\ s.fail \in Nat /\ ~s.panic
  BY <1>10, NodeOf
<1>2. Turned(cnt, cnt2, x, k) /\ k \in Nat /\ Turned(dn, dn, x, m) /\ m \in Nat /\ m <= k /\ (x \in Special => m = 0) /\ k = cnt[x] - 1
  BY <1>10, <1>1 DEF Turned
<1>3. node.open_cnt = cnt[x] /\ node.start = Header(d, x).start /\ node.length = Header(d, x).length
      /\ (x \in Named(d) \cup Special => ~node.removed) /\ (x \notin Named(d) \cup Special => node.removed)
  <2>1. node.open_cnt = cnt[x] /\ node.start = Header(d, x).start /\ node.length = Header(d, x).length
        /\ node.removed = Gone(d, x)
    BY <1>1 DEF Inode
  <2>2. (x \in Named(d) \cup Special => ~Gone(d, x)) /\ (x \notin Named(d) \cup Special => Gone(d, x))
    BY DEF Gone
  <2>. HIDE DEF node
  <2>. QED  BY <2>1, <2>2
<1>4. t = IF node.open_cnt > 1 THEN lower ELSE IF ~node.removed THEN closed ELSE both
  BY DEF InodeClose
<1>. HIDE DEF node, t, lower, closed, one, both
<1>5. /\ Opens(d, nodes, cnt, dn) /\ c.open \cup c.write \subseteq DOMAIN nodes \ Special
      /\ Apart(d, Live(s)) /\ Named(d) \subseteq Live(s) /\ DOMAIN nodes \subseteq Sectors
  BY GoodMeans DEF Good, Opens
<1>6. ASSUME node.open_cnt > 1 PROVE NodesClosed(s, c, cnt, dn, P, x, t)
  <2>1. t = lower /\ k \in Nat \ {0} /\ cnt[x] > 1
    BY <1>1, <1>3, <1>4, <1>6
  <2>2. lower = [s EXCEPT !.inodes = more]
    BY <1>1 DEF lower, Rec, Fields, node
  <2>3. [node EXCEPT !.open_cnt = @ - 1] = Inode(d, x, cnt2, dn)
    BY <1>1, <1>2 DEF Inode, Turned
  <2>4. Edited(d, nodes, more, cnt2, dn, x)
    BY <1>1, <2>3 DEF IsNodes, Edited
  <2>. HIDE DEF more, cnt2, k, m
  <2>5. Like(s, lower, {"inodes"}) /\ lower.inodes = more
    BY <1>1, <2>2 DEF Like, Rec, Fields
  <2>6. Like(s, lower, Scratch \cup {"inodes", "panic"}) /\ lower.fail = s.fail /\ lower.panic = s.panic /\ lower.disk = d
    BY <2>5, LikeWider, LikeMeans
  <2>7. Good(lower, c, cnt2, dn, P) /\ Stable(s, lower)
    <3>1. Turned(cnt, cnt2, x, k) /\ Turned(dn, dn, x, m) /\ m \in Nat /\ m <= k /\ (x \in Special => m = 0)
      BY <1>2
    <3>2. x \in DOMAIN s.inodes /\ ~lower.panic /\ lower.fail \in Nat
      BY <1>1, <2>6
    <3>3. Edited(s.disk, s.inodes, lower.inodes, cnt2, dn, x)
      BY <2>4, <2>5
    <3>4. Like(s, lower, Scratch \cup {"inodes", "panic"}) /\ k \in Nat \ {0}
      BY <2>1, <2>6
    <3>. QED  BY <3>1, <3>2, <3>3, <3>4, GoodEdited
  <2>8. Like(s, lower, Free)
    BY <2>5, LikeWider
  <2>. QED  BY <2>1, <2>5, <2>6, <2>7, <2>8, <1>1 DEF NodesClosed, cnt2
<1>7. ASSUME ~(node.open_cnt > 1)
      PROVE  /\ Good(closed, c, cnt2, dn, P \cup (OwnedBy(d, Live(s)) \ OwnedBy(d, Live(closed))))
             /\ Live(closed) = Live(s) => Stable(s, closed) /\ Good(closed, c, cnt2, dn, P)
             /\ Like(s, closed, {"inodes"}) /\ closed.inodes = rest /\ DOMAIN rest = DOMAIN nodes \ {x}
             /\ closed.disk = d /\ closed.fail = s.fail
             /\ Live(closed) = Named(d) \cup (Live(s) \ {x})
  <2>1. cnt[x] = 1 /\ k = 0 /\ x # FREE_MAP_SECTOR
    BY <1>10, <1>1, <1>2, <1>3, <1>7
  <2>2. closed = [s EXCEPT !.inodes = rest]
    BY <1>1 DEF closed, Rec, Fields
  <2>3. IsNodes(rest) /\ DOMAIN rest = DOMAIN nodes \ {x} /\ \A i \in DOMAIN nodes \ {x} : rest[i] = nodes[i]
    BY DEF IsNodes
  <2>. HIDE DEF rest, cnt2, k, m
  <2>4. Like(s, closed, {"inodes"}) /\ closed.inodes = rest
    BY <1>1, <2>2 DEF Like, Rec, Fields
  <2>5. Like(s, closed, Scratch \cup {"inodes", "panic"}) /\ closed.fail = s.fail /\ closed.panic = s.panic /\ closed.disk = d
    BY <2>4, LikeWider, LikeMeans
  <2>6. Opens(d, rest, cnt2, dn)
    <3>1. DOMAIN rest = (DOMAIN nodes \ {x}) \cup (IF k > 0 THEN {x} ELSE {})
      BY <2>1, <2>3
    <3>2. k > 0 => rest[x] = Inode(d, x, cnt2, dn)
      BY <2>1
    <3>3. x = FREE_MAP_SECTOR => k > 0
      BY <2>1
    <3>4. Turned(cnt, cnt2, x, k) /\ Turned(dn, dn, x, m) /\ k \in Nat /\ m \in Nat /\ m <= k /\ (x \in Special => m = 0)
      BY <1>2
    <3>5. Opens(d, nodes, cnt, dn)
      BY <1>5
    <3>. QED  BY <3>1, <3>2, <3>3, <3>4, <3>5, <2>3, OpensMore
  <2>7. Live(closed) = Named(d) \cup (Live(s) \ {x})
    BY <2>3, <2>4, <2>5 DEF Live
  <2>8. Live(closed) \subseteq Live(s)
    BY <2>7, <1>5
  <2>9. c.open \cup c.write \subseteq DOMAIN closed.inodes \ Special
    BY <2>1, <2>3, <2>4, <1>5
  <2>10. /\ Good(closed, c, cnt2, dn, P \cup (OwnedBy(s.disk, Live(s)) \ OwnedBy(s.disk, Live(closed))))
         /\ Live(closed) = Live(s) => Stable(s, closed) /\ Good(closed, c, cnt2, dn, P)
    BY <2>4, <2>5, <2>6, <2>8, <2>9, <1>1, GoodNodes
  <2>. QED  BY <2>3, <2>4, <2>5, <2>7, <2>10
<1>8. ASSUME ~(node.open_cnt > 1), x \in Named(d) \cup Special PROVE NodesClosed(s, c, cnt, dn, P, x, t)
  <2>1. t = closed
    BY <1>3, <1>4, <1>8
  <2>2. Live(closed) = Live(s)
    BY <1>5, <1>7, <1>8 DEF Live
  <2>3. Like(s, closed, Free)
    BY <1>7, <1>8, LikeWider
  <2>. QED  BY <2>1, <2>2, <2>3, <1>1, <1>7, <1>8 DEF NodesClosed, Stable
<1>9. ASSUME ~(node.open_cnt > 1), x \notin Named(d) \cup Special PROVE NodesClosed(s, c, cnt, dn, P, x, t)
  <2>1. t = both
    BY <1>3, <1>4, <1>9
  <2>. DEFINE L2 == Live(closed)
              Q == P \cup (OwnedBy(d, Live(s)) \ OwnedBy(d, L2))
  <2>2. x \in Live(s) /\ L2 = Live(s) \ {x}
    BY <1>1, <1>5, <1>7, <1>9 DEF Live
  <2>3. FileAt(d, x) /\ \A y \in L2 : Owned(d, x) \cap Owned(d, y) = {}
    BY <2>2, <1>5 DEF Apart
  <2>4. P \cap OwnedBy(d, Live(s)) = {}
    BY MapMeans
  <2>5. Owned(d, x) \subseteq OwnedBy(d, Live(s)) /\ Owned(d, x) \cap OwnedBy(d, L2) = {} /\ OwnedBy(d, Live(s)) \subseteq Owned(d, x) \cup OwnedBy(d, L2)
    BY <2>2, <2>3 DEF OwnedBy
  <2>6. Owned(d, x) = {x} \cup Data(d, x) /\ x \notin Data(d, x) /\ Header(d, x).start \in Nat /\ Header(d, x).length \in Nat
    <3>1. Owned(d, x) = {x} \cup Data(d, x)
      BY DEF Owned, Data
    <3>2. x \notin Data(d, x) /\ Header(d, x).start \in Nat /\ Header(d, x).length \in Nat
      BY <2>3 DEF FileAt
    <3>. QED  BY <3>1, <3>2
  <2>7. Run(x, 1) = {x} /\ x \in Nat /\ 1 \in Nat
    <3>1. \A i \in Sectors : i \in Int
      BY Consts DEF Sectors
    <3>2. x \in Nat
      BY BaseIs
    <3>3. \A i \in Sectors : x <= i /\ i < x + 1 <=> i = x
      BY <3>1, <3>2
    <3>. QED  BY <3>2, <3>3 DEF Run
  <2>8. Run(node.start, n) = Data(d, x) /\ node.start \in Nat /\ n \in Nat
    BY <2>6, <1>3, Cells DEF Data
  <2>9. Q = P \cup Owned(d, x) /\ P \cap Owned(d, x) = {}
    BY <2>4, <2>5
  <2>10. Run(x, 1) \subseteq Q /\ Run(node.start, n) \subseteq Q \ Run(x, 1) /\ (Q \ Run(x, 1)) \ Run(node.start, n) = P
    BY <2>6, <2>7, <2>8, <2>9
  <2>11. Good(closed, c, cnt2, dn, Q) /\ closed.fail = s.fail
    BY <1>7, <1>9
  <2>. HIDE DEF Q, n, cnt2, L2
  <2>12. Released(closed, c, cnt2, dn, Q, x, 1, one)
    BY <2>7, <2>10, <2>11, FreeMapReleases DEF one
  <2>13. /\ Good(one, c, cnt2, dn, Q \ Run(x, 1)) /\ one.fail <= s.fail /\ Stable(closed, one)
         /\ Like(closed, one, Free) /\ \A i \in Sectors \ MapSectors : one.disk[i] = d[i]
    <3>1. Like(closed, one, {"disk", "log", "free_map", "ok", "fail", "done", "panic"})
      BY <2>12 DEF Released
    <3>2. Like(closed, one, Free)
      BY <3>1, LikeWider
    <3>. QED  BY <3>2, <2>11, <2>12, <1>7, <1>9 DEF Released
  <2>14. Released(one, c, cnt2, dn, Q \ Run(x, 1), node.start, n, both)
    BY <2>8, <2>10, <2>13, FreeMapReleases DEF both
  <2>15. /\ Good(both, c, cnt2, dn, P) /\ both.fail <= s.fail /\ Stable(one, both) /\ both.fail \in Nat
         /\ Like(one, both, Free) /\ \A i \in Sectors \ MapSectors : both.disk[i] = d[i]
    <3>1. Like(one, both, {"disk", "log", "free_map", "ok", "fail", "done", "panic"})
      BY <2>14 DEF Released
    <3>2. Like(one, both, Free)
      BY <3>1, LikeWider
    <3>3. Good(both, c, cnt2, dn, P) /\ both.fail <= one.fail /\ Stable(one, both) /\ \A i \in Sectors \ MapSectors : both.disk[i] = one.disk[i]
      BY <2>10, <2>14 DEF Released
    <3>4. both.fail \in Nat /\ one.fail \in Nat
      BY <3>3, <2>13, GoodMeans
    <3>. QED  BY <3>2, <3>3, <3>4, <2>13, <1>1
  <2>16. Like(s, both, Free)
    <3>1. Like(s, one, Free)
      BY <2>13, <1>7, <1>9, LikeChains
    <3>. QED  BY <3>1, <2>15, LikeChains
  <2>17. Named(both.disk) = Named(d) /\ \A a \in Slots : Slot(both.disk, a) = Slot(d, a)
    BY <2>13, <2>15, <1>7, <1>9 DEF Stable
  <2>18. ~(x \in Named(s.disk) \cup Special \/ cnt[x] > 1)
    BY <1>3, <1>9
  <2>. QED  BY <2>1, <2>15, <2>16, <2>17, <2>18 DEF NodesClosed, cnt2
<1>. QED  BY <1>6, <1>8, <1>9 DEF t

\* One more and one less.
LEMMA UpDown ==
  ASSUME NEW cnt \in [Sectors -> Nat], NEW x \in Sectors
  PROVE  /\ [[cnt EXCEPT ![x] = @ + 1] EXCEPT ![x] = @ - 1] = cnt
         /\ [cnt EXCEPT ![x] = @ + 1][x] = cnt[x] + 1
         /\ \A y \in Sectors \ {x} : [cnt EXCEPT ![x] = @ + 1][y] = cnt[y]
<1>. DEFINE up == [cnt EXCEPT ![x] = @ + 1]
            down == [up EXCEPT ![x] = @ - 1]
<1>1. up \in [Sectors -> Nat] /\ up[x] = cnt[x] + 1 /\ \A y \in Sectors \ {x} : up[y] = cnt[y]
  OBVIOUS
<1>. HIDE DEF up
<1>2. down \in [Sectors -> Int] /\ \A y \in Sectors : down[y] = cnt[y]
  BY <1>1
<1>. HIDE DEF down
<1>3. down = cnt
  BY <1>2
<1>. QED  BY <1>1, <1>3 DEF up, down

\* The state after file_open() or dir_open(), which close the inode when there is no memory.
ObjectOpened(s, c, cnt, dn, P, x, t) ==
    /\ t.ok \in BOOLEAN /\ Stable(s, t) /\ t.fail \in Nat /\ t.fail <= s.fail
    /\ Like(s, t, {"inodes", "ok", "fail"})
    /\ t.ok => s.ok /\ Good(t, c, cnt, dn, P) /\ (t.fail = 0 \/ t.fail + 1 <= s.fail)
    /\ ~t.ok /\ s.ok => Good(t, c, [cnt EXCEPT ![x] = @ - 1], dn, P)
    /\ ~t.ok /\ ~s.ok => Good(t, c, cnt, dn, P)

\* file_open() and dir_open() keep the inode, or close it.
LEMMA OpenObjects ==
  ASSUME NEW s, NEW c, NEW cnt, NEW dn, NEW P, Good(s, c, cnt, dn, P), s.ok \in BOOLEAN, NEW x \in Sectors,
         s.ok => /\ dn[x] < cnt[x] /\ (x = FREE_MAP_SECTOR => cnt[x] > 1) /\ (cnt[x] = 1 => x \notin c.open \cup c.write)
                 /\ x \in Named(s.disk) \cup Special \/ cnt[x] > 1
  PROVE  ObjectOpened(s, c, cnt, dn, P, x, OpenObject(s, x))
<1>. DEFINE a == Alloc(s)
            closed == InodeClose(a, x)
            base == IF s.ok THEN closed ELSE a
            failed == [base EXCEPT !.ok = FALSE]
            t == OpenObject(s, x)
<1>1. t = IF s.ok /\ a.ok THEN a ELSE failed
  BY DEF OpenObject, With
<1>2. Rec(s) /\ s.fail \in Nat
  BY GoodMeans
<1>3. /\ Like(s, a, {"ok", "fail"}) /\ a.ok \in BOOLEAN /\ a.fail \in Nat /\ a.fail <= s.fail
      /\ a.fail = 0 \/ a.fail + 1 <= s.fail
  BY <1>2, AllocIs
<1>. HIDE DEF a, closed, t
<1>4. Good(a, c, cnt, dn, P) /\ Stable(s, a) /\ a.disk = s.disk /\ Like(s, a, {"inodes", "ok", "fail"})
  <2>1. Like(s, a, Scratch) /\ Stable(s, a) /\ a.disk = s.disk /\ Like(s, a, {"inodes", "ok", "fail"})
    BY <1>3, LikeWider, StableLike, LikeMeans DEF Scratch
  <2>. QED  BY <2>1, <1>3, GoodLike
<1>5. ASSUME s.ok, a.ok PROVE ObjectOpened(s, c, cnt, dn, P, x, t)
  BY <1>1, <1>3, <1>4, <1>5 DEF ObjectOpened
<1>6. ASSUME ~(s.ok /\ a.ok) PROVE ObjectOpened(s, c, cnt, dn, P, x, t)
  <2>1. t = failed
    BY <1>1, <1>6
  <2>2. s.ok => /\ Good(closed, c, [cnt EXCEPT ![x] = @ - 1], dn, P) /\ Like(a, closed, {"inodes"}) /\ Stable(a, closed)
                /\ closed.fail \in Nat /\ closed.fail <= a.fail
    <3>1. s.ok => NodesClosed(a, c, cnt, dn, P, x, closed)
      BY <1>4, InodeCloses DEF closed
    <3>. QED  BY <3>1, <1>4 DEF NodesClosed
  <2>3. /\ Like(s, base, {"inodes", "ok", "fail"}) /\ Stable(s, base) /\ base.fail \in Nat /\ base.fail <= s.fail
        /\ s.ok => Good(base, c, [cnt EXCEPT ![x] = @ - 1], dn, P)
        /\ ~s.ok => Good(base, c, cnt, dn, P)
    <3>1. CASE s.ok
      <4>1. Like(s, closed, {"inodes", "ok", "fail"}) /\ Stable(s, closed) /\ closed.fail <= s.fail
        BY <2>2, <3>1, <1>2, <1>3, <1>4, LikeChains, StableChains
      <4>. QED  BY <4>1, <2>2, <3>1
    <3>2. CASE ~s.ok
      BY <3>2, <1>3, <1>4
    <3>. QED  BY <3>1, <3>2
  <2>. HIDE DEF base
  <2>4. Like(base, failed, {"ok"}) /\ ~failed.ok /\ failed.ok \in BOOLEAN /\ failed.fail = base.fail
    <3>1. Rec(base)
      BY <2>3 DEF Like
    <3>. QED  BY <3>1 DEF Like, Rec, Fields
  <2>. HIDE DEF failed
  <2>5. Like(base, failed, Scratch) /\ Stable(base, failed)
    BY <2>4, LikeWider, StableLike DEF Scratch
  <2>6. Like(s, failed, {"inodes", "ok", "fail"}) /\ Stable(s, failed)
    BY <2>3, <2>4, <2>5, LikeChains, StableChains
  <2>7. /\ s.ok => Good(failed, c, [cnt EXCEPT ![x] = @ - 1], dn, P)
        /\ ~s.ok => Good(failed, c, cnt, dn, P)
    BY <2>3, <2>4, <2>5, GoodLike
  <2>. QED  BY <2>1, <2>3, <2>4, <2>6, <2>7 DEF ObjectOpened
<1>. QED  BY <1>3, <1>5, <1>6 DEF t

\* The state after dir_open_root().
RootOpened(s, c, cnt, dn, P, t) ==
    /\ t.ok \in BOOLEAN /\ Stable(s, t) /\ t.fail \in Nat /\ t.fail <= s.fail
    /\ Like(s, t, {"inodes", "ok", "fail"})
    /\ t.ok => Good(t, c, [cnt EXCEPT ![ROOT_DIR_SECTOR] = @ + 1], dn, P) /\ (t.fail = 0 \/ t.fail + 2 <= s.fail)
    /\ ~t.ok => Good(t, c, cnt, dn, P)

\* dir_open_root() opens the root's inode, or leaves everything as it was.
LEMMA DirOpensRoot ==
  ASSUME NEW s, NEW c, NEW cnt, NEW dn, NEW P, Good(s, c, cnt, dn, P), cnt[ROOT_DIR_SECTOR] = 0
  PROVE  RootOpened(s, c, cnt, dn, P, DirOpenRoot(s))
<1>. DEFINE x == ROOT_DIR_SECTOR
            o == InodeOpen(s, x)
            t == OpenObject(o, x)
            cnt2 == [cnt EXCEPT ![x] = @ + 1]
<1>1. /\ x \in Sectors /\ x \in Special /\ x # FREE_MAP_SECTOR /\ cnt \in [Sectors -> Nat] /\ dn[x] = 0 /\ s.fail \in Nat
      /\ c.open \cup c.write \subseteq DOMAIN s.inodes \ Special
  <2>1. x \in Sectors /\ x \in Special /\ x # FREE_MAP_SECTOR
    BY BaseIs DEF Special, ROOT_DIR_SECTOR, FREE_MAP_SECTOR
  <2>. QED  BY <2>1 DEF Good, Opens
<1>. HIDE DEF x, o, t
<1>2. NodesOpened(s, c, cnt, dn, P, x, o)
  BY <1>1, InodeOpens DEF o
<1>3. /\ o.ok \in BOOLEAN /\ Stable(s, o) /\ o.fail \in Nat /\ o.fail <= s.fail /\ Like(s, o, {"inodes", "ok", "fail"})
      /\ (~o.ok => Good(o, c, cnt, dn, P)) /\ (o.ok => Good(o, c, cnt2, dn, P))
      /\ o.fail = 0 \/ o.fail + 1 <= s.fail
  BY <1>2 DEF NodesOpened, x
<1>4. [cnt2 EXCEPT ![x] = @ - 1] = cnt /\ cnt2[x] = 1
  <2>1. [[cnt EXCEPT ![x] = @ + 1] EXCEPT ![x] = @ - 1] = cnt /\ [cnt EXCEPT ![x] = @ + 1][x] = cnt[x] + 1
    BY <1>1, UpDown
  <2>. QED  BY <2>1 DEF x
<1>5. ASSUME o.ok PROVE RootOpened(s, c, cnt, dn, P, t)
  <2>4. Good(o, c, cnt2, dn, P)
    BY <1>3, <1>5
  <2>. HIDE DEF cnt2
  <2>1. ObjectOpened(o, c, cnt2, dn, P, x, t)
    <3>1. dn[x] < cnt2[x] /\ (x = FREE_MAP_SECTOR => cnt2[x] > 1)
      BY <1>1, <1>4
    <3>2. cnt2[x] = 1 => x \notin c.open \cup c.write
      BY <1>1
    <3>3. x \in Named(o.disk) \cup Special \/ cnt2[x] > 1
      BY <1>1
    <3>. QED  BY <3>1, <3>2, <3>3, <2>4, <1>1, <1>3, OpenObjects DEF t
  <2>2. /\ t.ok \in BOOLEAN /\ Stable(o, t) /\ t.fail \in Nat /\ t.fail <= o.fail
        /\ Like(o, t, {"inodes", "ok", "fail"})
        /\ t.ok => Good(t, c, cnt2, dn, P) /\ (t.fail = 0 \/ t.fail + 1 <= o.fail)
        /\ ~t.ok => Good(t, c, cnt, dn, P)
    BY <2>1, <1>4, <1>5 DEF ObjectOpened
  <2>3. Stable(s, t) /\ Like(s, t, {"inodes", "ok", "fail"})
    BY <2>2, <1>3, StableChains, LikeChains
  <2>. QED  BY <2>2, <2>3, <1>1, <1>3 DEF RootOpened, cnt2, x
<1>6. ASSUME ~o.ok PROVE RootOpened(s, c, cnt, dn, P, t)
  <2>1. ObjectOpened(o, c, cnt, dn, P, x, t)
    BY <1>1, <1>3, <1>6, OpenObjects DEF t
  <2>2. /\ t.ok \in BOOLEAN /\ Stable(o, t) /\ t.fail \in Nat /\ t.fail <= o.fail
        /\ Like(o, t, {"inodes", "ok", "fail"})
        /\ ~t.ok /\ Good(t, c, cnt, dn, P)
    BY <2>1, <1>6 DEF ObjectOpened
  <2>3. Stable(s, t) /\ Like(s, t, {"inodes", "ok", "fail"})
    BY <2>2, <1>3, StableChains, LikeChains
  <2>. QED  BY <2>2, <2>3, <1>1, <1>3 DEF RootOpened
<1>. QED  BY <1>3, <1>5, <1>6 DEF DirOpenRoot, t, o, x

\* dir_close() closes the root's inode.
LEMMA DirCloses ==
  ASSUME NEW s, NEW c, NEW cnt, NEW dn, NEW P, cnt \in [Sectors -> Nat],
         Good(s, c, [cnt EXCEPT ![ROOT_DIR_SECTOR] = @ + 1], dn, P)
  PROVE  LET t == DirClose(s) IN
         Good(t, c, cnt, dn, P) /\ Stable(s, t) /\ Like(s, t, {"inodes"}) /\ t.fail \in Nat
<1>. DEFINE x == ROOT_DIR_SECTOR
            t == DirClose(s)
            cnt2 == [cnt EXCEPT ![x] = @ + 1]
<1>1. /\ x \in Sectors /\ x \in Special /\ x # FREE_MAP_SECTOR /\ dn[x] = 0
      /\ c.open \cup c.write \subseteq DOMAIN s.inodes \ Special
  <2>1. x \in Sectors /\ x \in Special /\ x # FREE_MAP_SECTOR
    BY BaseIs DEF Special, ROOT_DIR_SECTOR, FREE_MAP_SECTOR
  <2>. QED  BY <2>1 DEF Good, Opens
<1>. HIDE DEF x
<1>2. [cnt2 EXCEPT ![x] = @ - 1] = cnt /\ cnt2[x] = cnt[x] + 1 /\ cnt[x] \in Nat
  BY <1>1, UpDown
<1>3. Good(s, c, cnt2, dn, P)
  BY DEF x
<1>. HIDE DEF t, cnt2
<1>4. NodesClosed(s, c, cnt2, dn, P, x, t)
  BY <1>1, <1>2, <1>3, InodeCloses DEF t, x, DirClose
<1>. QED  BY <1>1, <1>2, <1>4 DEF NodesClosed, t

\* The entry that lookup() or dir_add() looks for.
Wanted(e, name) == IF name = NONE THEN ~InUse(e) ELSE InUse(e) /\ e[2] = name

\* The record when k allocations more have been made.
Ahead(s, k) == [s EXCEPT !.fail = IF @ > k THEN @ - k ELSE 0]

\* What a read of one entry gives.
EntryRead(s, k, r) ==
    /\ Like(s, r.s, {"ok", "fail"}) /\ r.s.fail \in Nat /\ r.s.fail <= s.fail
    /\ r.cells # <<>> => k < ENTRY_CNT /\ r.cells[1] = Slot(s.disk, k)
    /\ s.fail = 0 /\ k < ENTRY_CNT => r.cells # <<>>

\* inode_read_at() of one entry gives the entry on the disk, or nothing.
LEMMA EntryReads ==
  ASSUME NEW s, Rec(s), s.fail \in Nat, NEW root, root.start = RootStart, root.length = ENTRY_CNT, NEW k \in 0..ENTRY_CNT
  PROVE  EntryRead(s, k, InodeReadAt(Ahead(s, k), root, 1, k))
<1>. DEFINE u == Ahead(s, k)
            t == Transfer(u, root, 1, k)
            r == InodeReadAt(u, root, 1, k)
<1>1. k \in Nat /\ ENTRY_CNT \in Nat /\ k <= ENTRY_CNT
  BY Consts
<1>2. /\ Like(s, u, {"fail"}) /\ u.fail \in Nat /\ u.fail <= s.fail
      /\ s.fail = 0 => u.fail = 0
  BY <1>1 DEF Ahead, Rec, Like, Fields
<1>3. Rec(u) /\ u.disk = s.disk
  BY <1>2, LikeMeans
<1>4. r = [s |-> t.s, cells |-> [i \in 1..t.done |-> CellAt(u.disk, root, k + i - 1)]]
  BY DEF InodeReadAt, With
<1>. HIDE DEF u
<1>5. /\ Like(u, t.s, {"ok", "fail"}) /\ t.s.fail \in Nat /\ t.s.fail <= u.fail
      /\ t.done \in Nat /\ t.done <= 1 /\ (k < ENTRY_CNT => t.done = IF u.fail # 1 THEN 1 ELSE 0)
      /\ k >= ENTRY_CNT => t.done = 0
  <2>1. Rec(u) /\ u.fail \in Nat /\ 1 \in Nat /\ root.length \in Nat /\ k \in Nat
    BY <1>1, <1>2, <1>3
  <2>2. Like(u, t.s, {"ok", "fail"}) /\ t.s.fail \in Nat /\ t.s.fail <= u.fail
    BY <2>1, TransferIs
  <2>3. t.done \in Nat /\ t.done <= 1
    BY <2>1, TransferIs
  <2>4. k < root.length => t.done = (IF u.fail # 1 THEN 1 ELSE 0)
    BY <2>1, TransferIs
  <2>5. k >= root.length => t.done = 0
    BY <2>1, TransferIs
  <2>. HIDE DEF t
  <2>. QED  BY <2>2, <2>3, <2>4, <2>5, <1>1
<1>. HIDE DEF t
<1>. DEFINE cells == [i \in 1..t.done |-> CellAt(u.disk, root, k + i - 1)]
<1>6. t.done = 0 => cells = <<>>
  BY <1>5
<1>7. t.done = 1 => cells # <<>> /\ cells[1] = Slot(s.disk, k)
  <2>1. t.done = 1 => cells[1] = CellAt(u.disk, root, k + 1 - 1) /\ Len(cells) = 1
    BY <1>5
  <2>2. k + 1 - 1 = k /\ CellAt(s.disk, root, k) = Slot(s.disk, k)
    BY <1>1 DEF CellAt, Slot
  <2>3. Len(<<>>) = 0
    OBVIOUS
  <2>. QED  BY <2>1, <2>2, <2>3, <1>3
<1>8. r = [s |-> t.s, cells |-> cells]
  BY <1>4
<1>. HIDE DEF cells
<1>9. Like(s, t.s, {"ok", "fail"})
  BY <1>2, <1>5, LikeChains
<1>14. r.s = t.s /\ r.cells = cells
  BY <1>8
<1>. HIDE DEF r
<1>10. t.done = 0 \/ t.done = 1
  BY <1>5
<1>11. r.cells # <<>> => k < ENTRY_CNT /\ r.cells[1] = Slot(s.disk, k)
  BY <1>14, <1>1, <1>5, <1>6, <1>7, <1>10
<1>12. s.fail = 0 /\ k < ENTRY_CNT => r.cells # <<>>
  BY <1>14, <1>2, <1>5, <1>7
<1>13. r.s.fail \in Nat /\ r.s.fail <= s.fail /\ Like(s, r.s, {"ok", "fail"})
  BY <1>14, <1>2, <1>5, <1>9
<1>. QED  BY <1>11, <1>12, <1>13 DEF EntryRead, r, u

\* Where the loop of lookup() or dir_add() ends.
Scanned(s, name, r) ==
    /\ Like(s, r.s, {"ok", "fail"}) /\ r.s.fail \in Nat /\ r.s.fail <= s.fail
    /\ r.found \in BOOLEAN /\ r.ofs \in 0..ENTRY_CNT
    /\ r.found => r.ofs \in Slots /\ r.entry = Slot(s.disk, r.ofs) /\ Wanted(r.entry, name)
    /\ s.fail = 0 => /\ \A a \in Slots : a < r.ofs => ~Wanted(Slot(s.disk, a), name)
                     /\ ~r.found => r.ofs = ENTRY_CNT

\* The loop ends at an entry that is wanted, the first one if no allocation fails.
LEMMA EntriesScanned ==
  ASSUME NEW s, Rec(s), s.fail \in Nat, NEW root, root = s.inodes[ROOT_DIR_SECTOR], root.start = RootStart,
         root.length = ENTRY_CNT, NEW name
  PROVE  Scanned(s, name, ScanEntries(s, name))
<1>. DEFINE read(k) == InodeReadAt(Ahead(s, k), root, 1, k)
            ends == {k \in 0..ENTRY_CNT : read(k).cells = <<>> \/ Wanted(read(k).cells[1], name)}
            ofs == CHOOSE k \in ends : \A i \in ends : k <= i
            found == read(ofs).cells # <<>>
            r == ScanEntries(s, name)
<1>1. r = [s |-> read(ofs).s, ofs |-> ofs, found |-> found, entry |-> IF found THEN read(ofs).cells[1] ELSE Zero]
  BY DEF ScanEntries, Ahead, Wanted
<1>2. \A k \in 0..ENTRY_CNT : EntryRead(s, k, read(k))
  BY EntryReads
<1>3. ENTRY_CNT \in Nat
  BY Consts
<1>. HIDE DEF r, read
<1>4. ends \subseteq Nat /\ ENTRY_CNT \in ends
  <2>1. ENTRY_CNT \in 0..ENTRY_CNT
    BY <1>3
  <2>2. read(ENTRY_CNT).cells = <<>>
    BY <2>1, <1>2, <1>3 DEF EntryRead
  <2>. QED  BY <2>1, <2>2
<1>5. ofs \in ends /\ \A k \in ends : ofs <= k
  <2>. HIDE DEF ends
  <2>1. ends # {}
    BY <1>4
  <2>. QED  BY <2>1, <1>4, LeastOf
<1>6. ofs \in 0..ENTRY_CNT /\ (found => Wanted(read(ofs).cells[1], name))
  BY <1>5
<1>7. ASSUME s.fail = 0, NEW a \in Slots, a < ofs PROVE ~Wanted(Slot(s.disk, a), name)
  <2>. HIDE DEF ofs
  <2>1. a \in 0..ENTRY_CNT /\ a < ENTRY_CNT
    BY <1>3 DEF Slots
  <2>2. read(a).cells # <<>> /\ read(a).cells[1] = Slot(s.disk, a)
    BY <2>1, <1>2, <1>7 DEF EntryRead
  <2>3. a \notin ends
    <3>. HIDE DEF ends
    <3>. QED  BY <2>1, <1>3, <1>5, <1>6, <1>7
  <2>. QED  BY <2>1, <2>2, <2>3
<1>. HIDE DEF ofs, ends
<1>8. EntryRead(s, ofs, read(ofs))
  BY <1>2, <1>6
<1>9. /\ r.s = read(ofs).s /\ r.ofs = ofs /\ r.found \in BOOLEAN /\ (r.found <=> read(ofs).cells # <<>>)
      /\ r.found => r.entry = read(ofs).cells[1]
  BY <1>1
<1>10. r.found => r.ofs \in Slots /\ r.entry = Slot(s.disk, r.ofs) /\ Wanted(r.entry, name)
  <2>1. r.found => ofs < ENTRY_CNT /\ r.entry = Slot(s.disk, ofs)
    BY <1>8, <1>9 DEF EntryRead
  <2>. QED  BY <2>1, <1>3, <1>6, <1>9 DEF Slots
<1>11. s.fail = 0 /\ ~r.found => ofs = ENTRY_CNT
  BY <1>3, <1>6, <1>8, <1>9 DEF EntryRead
<1>12. /\ Like(s, r.s, {"ok", "fail"}) /\ r.s.fail \in Nat /\ r.s.fail <= s.fail
  BY <1>8, <1>9 DEF EntryRead
<1>. HIDE DEF found
<1>. QED  BY <1>6, <1>7, <1>9, <1>10, <1>11, <1>12 DEF Scanned, r

\* The state after one entry was written, or not.
RootWritten(s, c, e, ofs, w) ==
    /\ w.ok \in BOOLEAN /\ w.fail \in Nat /\ w.fail <= s.fail
    /\ Like(s, w, {"disk", "log", "ok", "fail", "done"})
    /\ ~w.ok => w.disk = s.disk /\ w.log = s.log
    /\ s.fail = 0 /\ ofs < ENTRY_CNT => w.ok
    /\ w.ok => /\ ofs \in Slots /\ IsDisk(w.disk) /\ SlotSet(s.disk, w.disk, ofs, e)
               /\ DiskOK(w.disk) /\ Moved(s.disk, w.disk, c.open, c.write) =>
                      Trail(c.from, w.log, w.disk, c.open, c.write)

\* The inode of the root directory.
LEMMA RootInode ==
  ASSUME NEW s, NEW c, NEW cnt, NEW dn, NEW P, Good(s, c, cnt, dn, P), cnt[ROOT_DIR_SECTOR] > 0
  PROVE  LET inode == s.inodes[ROOT_DIR_SECTOR] IN
         inode.start = RootStart /\ inode.length = ENTRY_CNT /\ inode.deny_write_cnt = 0
<1>1. ROOT_DIR_SECTOR \in Sectors /\ Header(s.disk, ROOT_DIR_SECTOR) = [start |-> RootStart, length |-> ENTRY_CNT]
  BY GoodMeans, BaseIs, LayoutMeans DEF ROOT_DIR_SECTOR
<1>2. s.inodes[ROOT_DIR_SECTOR] = Inode(s.disk, ROOT_DIR_SECTOR, cnt, dn) /\ dn[ROOT_DIR_SECTOR] = 0
  BY <1>1 DEF Good, Opens
<1>. QED  BY <1>1, <1>2 DEF Inode

\* One write goes to the end of the log.
LEMMA TrailOne ==
  ASSUME NEW d0, NEW O, NEW W, NEW lg, NEW d, Trail(d0, lg, d, O, W),
         NEW first \in Nat, NEW N, N = 1, NEW blocks, first \in Sectors,
         DiskOK(Wrote(d, first, blocks, N)), Moved(d, Wrote(d, first, blocks, N), O, W)
  PROVE  Trail(d0, lg \o [j \in 1..N |-> [sector |-> first + j - 1, cells |-> blocks[j]]], Wrote(d, first, blocks, N), O, W)
<1>1. DiskOK(d) /\ IsDisk(d)
  BY TrailEnds DEF DiskOK, Layout
<1>2. first + 1 - 1 \in Sectors /\ 1 \in Nat \ {0} /\ N \in Nat
  BY Consts DEF Sectors
<1>3. Wrote(d, first, blocks, 0) = d
  BY <1>1, <1>2, WroteOne
<1>4. \A n \in 0..N : DiskOK(Wrote(d, first, blocks, n))
  <2>1. \A n \in 0..N : n = 0 \/ n = N
    OBVIOUS
  <2>. QED  BY <2>1, <1>1, <1>3
<1>5. \A n \in 1..N : Moved(Wrote(d, first, blocks, n - 1), Wrote(d, first, blocks, n), O, W)
  <2>1. \A n \in 1..N : n = N /\ n - 1 = 0
    OBVIOUS
  <2>. QED  BY <2>1, <1>3
<1>6. \A j \in 1..N : first + j - 1 \in Sectors
  BY <1>2
<1>. QED  BY <1>2, <1>4, <1>5, <1>6, TrailMore

\* inode_write_at() of one entry writes one sector, or none.
LEMMA RootWrites ==
  ASSUME NEW s, NEW c, NEW cnt, NEW dn, NEW P, Good(s, c, cnt, dn, P), cnt[ROOT_DIR_SECTOR] > 0,
         NEW e, NEW ofs \in 0..ENTRY_CNT
  PROVE  RootWritten(s, c, e, ofs, InodeWriteAt(s, ROOT_DIR_SECTOR, <<e>>, ofs))
<1>. DEFINE inode == s.inodes[ROOT_DIR_SECTOR]
            cells == <<e>>
            r == Transfer(s, inode, Len(cells), ofs)
            N == Touched(ofs, r.done)
            blocks == Blocks(s, inode, cells, ofs, r.done)
            at == RootStart + (ofs \div CELLS)
            v == DiskWrites(r.s, at, blocks)
            w == InodeWriteAt(s, ROOT_DIR_SECTOR, cells, ofs)
<1>1. /\ Rec(s) /\ IsDisk(s.disk) /\ s.fail \in Nat /\ Len(cells) = 1 /\ cells[1] = e /\ ofs \in Nat /\ ofs <= ENTRY_CNT
      /\ ENTRY_CNT \in Nat /\ RootStart \in Nat
  BY GoodMeans, Consts
<1>2. inode.start = RootStart /\ inode.length = ENTRY_CNT /\ inode.deny_write_cnt = 0
  BY RootInode
<1>3. /\ Like(s, r.s, {"ok", "fail"}) /\ r.s.fail \in Nat /\ r.s.fail <= s.fail
      /\ r.done \in Nat /\ r.done <= 1 /\ (r.done > 0 => ofs + r.done <= ENTRY_CNT)
      /\ s.fail = 0 /\ ofs < ENTRY_CNT => r.done = 1
  <2>. HIDE DEF inode, cells
  <2>1. inode.length \in Nat /\ 1 \in Nat
    BY <1>1, <1>2
  <2>. QED  BY <2>1, <1>1, <1>2, TransferIs DEF r
<1>4. WriteOf(s, inode, cells, ofs, r, N, blocks, w)
  <2>. HIDE DEF inode, cells
  <2>1. inode.start \in Nat /\ inode.length \in Nat /\ Len(cells) \in Nat
    BY <1>1, <1>2
  <2>. QED  BY <2>1, <1>1, <1>2, WriteParts DEF inode
<1>. HIDE DEF inode, cells, r, N, blocks, w
<1>5. /\ N \in Nat /\ IsRun(blocks, N)
      /\ Like(v, w, {"ok", "done"}) /\ w.ok \in BOOLEAN /\ (w.ok <=> r.done = 1)
      /\ r.done = 0 => N = 0
      /\ r.done > 0 => N = ((ofs + r.done - 1) \div CELLS) - (ofs \div CELLS) + 1
  BY <1>1, <1>2, <1>4 DEF WriteOf
<1>6. \A j \in 1..N, k \in 1..CELLS :
            LET i == ((ofs \div CELLS) + j - 1) * CELLS + k - 1 IN
            blocks[j][k] = IF ofs <= i /\ i < ofs + r.done THEN cells[i - ofs + 1]
                          ELSE s.disk[RootStart + ((ofs \div CELLS) + j - 1)][k]
  BY <1>2, <1>4 DEF WriteOf
<1>7. /\ at \in Nat /\ ofs \div CELLS \in Nat /\ ofs % CELLS \in 0..(CELLS - 1) /\ (ofs % CELLS) + 1 \in 1..CELLS
      /\ ofs = CELLS * (ofs \div CELLS) + (ofs % CELLS)
  <2>1. /\ ofs \div CELLS \in Nat /\ ofs % CELLS \in 0..(CELLS - 1) /\ (ofs % CELLS) + 1 \in 1..CELLS
        /\ ofs = CELLS * (ofs \div CELLS) + (ofs % CELLS)
    BY <1>1, Cells
  <2>2. at \in Nat
    BY <2>1, <1>1
  <2>. QED  BY <2>1, <2>2
<1>8. /\ Rec(v) /\ v.disk = Wrote(s.disk, at, blocks, N)
      /\ v.log = s.log \o [j \in 1..N |-> [sector |-> at + j - 1, cells |-> blocks[j]]]
      /\ \A f \in Fields \ {"disk", "log"} : v[f] = r.s[f]
  <2>1. Rec(r.s) /\ r.s.disk = s.disk /\ r.s.log = s.log /\ IsDisk(r.s.disk)
    BY <1>1, <1>3, LikeMeans
  <2>. DEFINE u == r.s
              x == DiskWrites(u, at, blocks)
  <2>3. Rec(u) /\ IsDisk(u.disk) /\ v = x
    BY <2>1
  <2>4. at \in Nat /\ N \in Nat /\ IsRun(blocks, N)
    BY <1>5, <1>7
  <2>. HIDE DEF at, v, u
  <2>5. /\ Rec(x) /\ x.disk = Wrote(u.disk, at, blocks, N)
        /\ x.log = u.log \o [j \in 1..N |-> [sector |-> at + j - 1, cells |-> blocks[j]]]
        /\ \A f \in Fields \ {"disk", "log"} : x[f] = u[f]
    <3>1. DiskWritten(u, at, blocks, N, x)
      BY <2>3, <2>4, WritesAre
    <3>. QED  BY <3>1 DEF DiskWritten
  <2>. QED  BY <2>1, <2>3, <2>5 DEF u
<1>. HIDE DEF v, at
<1>9. Like(s, w, {"disk", "log", "ok", "fail", "done"}) /\ w.disk = v.disk /\ w.log = v.log /\ w.fail = r.s.fail
  <2>1. Like(r.s, v, {"disk", "log"})
    BY <1>8 DEF Like
  <2>2. Like(s, v, {"disk", "log", "ok", "fail"}) /\ v.fail = r.s.fail
    BY <2>1, <1>3, LikeChains, LikeMeans
  <2>. QED  BY <2>2, <1>5, LikeChains, LikeMeans
<1>10. ASSUME ~w.ok PROVE w.disk = s.disk /\ w.log = s.log
  <2>1. N = 0
    BY <1>3, <1>5, <1>10
  <2>2. Wrote(s.disk, at, blocks, 0) = s.disk
    <3>1. \A i \in Sectors : i - at + 1 \notin 1..0
      OBVIOUS
    <3>. QED  BY <3>1, <1>1 DEF Wrote, IsDisk
  <2>3. s.log \o [j \in 1..0 |-> [sector |-> at + j - 1, cells |-> blocks[j]]] = s.log
    <3>1. PICK S : s.log \in Seq(S)
      BY DEF Good, Trail
    <3>2. [j \in 1..0 |-> [sector |-> at + j - 1, cells |-> blocks[j]]] = <<>>
      OBVIOUS
    <3>. QED  BY <3>1, <3>2
  <2>. QED  BY <2>1, <2>2, <2>3, <1>8, <1>9
<1>11. ASSUME w.ok
       PROVE  /\ ofs \in Slots /\ IsDisk(w.disk) /\ SlotSet(s.disk, w.disk, ofs, e)
              /\ DiskOK(w.disk) /\ Moved(s.disk, w.disk, c.open, c.write) =>
                      Trail(c.from, w.log, w.disk, c.open, c.write)
  <2>1. r.done = 1 /\ N = 1 /\ ofs < ENTRY_CNT /\ ofs \in Slots
    <3>1. r.done = 1 /\ ofs + 1 - 1 = ofs
      BY <1>1, <1>5, <1>11
    <3>2. N = (ofs \div CELLS) - (ofs \div CELLS) + 1
      BY <3>1, <1>5
    <3>. QED  BY <3>1, <3>2, <1>1, <1>3, <1>7 DEF Slots
  <2>2. at \in RootSectors /\ at \in Sectors
    BY <2>1, BaseIs DEF at, RootSectors, Run
  <2>3. w.disk = Wrote(s.disk, at, blocks, N)
    BY <1>8, <1>9
  <2>4. IsDisk(w.disk)
    BY <2>3 DEF IsDisk, Wrote
  <2>5. w.disk[at] = blocks[1] /\ \A i \in Sectors \ {at} : w.disk[i] = s.disk[i]
    <3>1. \A i \in Sectors : (i - at + 1 \in 1..N <=> i = at) /\ (i = at => i - at + 1 = 1)
      BY <2>1, <2>2, <1>7, Consts DEF Sectors
    <3>. QED  BY <3>1, <2>2, <2>3 DEF Wrote
  <2>6. ASSUME NEW k \in 1..CELLS PROVE blocks[1][k] = IF k = (ofs % CELLS) + 1 THEN e ELSE s.disk[at][k]
    <3>. DEFINE i == ((ofs \div CELLS) + 1 - 1) * CELLS + k - 1
    <3>1. blocks[1][k] = IF ofs <= i /\ i < ofs + r.done THEN cells[i - ofs + 1] ELSE s.disk[RootStart + ((ofs \div CELLS) + 1 - 1)][k]
      BY <2>1, <1>6
    <3>2. i \in Int /\ i - ofs = k - 1 - (ofs % CELLS)
      <4>. DEFINE q == ofs \div CELLS
                  m == ofs % CELLS
      <4>1. q \in Nat /\ m \in 0..(CELLS - 1) /\ ofs = CELLS * q + m /\ i = (q + 1 - 1) * CELLS + k - 1
        BY <1>7
      <4>. HIDE DEF q, i
      <4>2. i \in Int /\ i - ofs = k - 1 - m
        <5>. HIDE DEF m
        <5>. QED  BY <4>1, Consts
      <4>. QED  BY <4>2
    <3>3. RootStart + ((ofs \div CELLS) + 1 - 1) = at
      BY <1>1, <1>7 DEF at
    <3>. HIDE DEF i
    <3>4. (ofs <= i /\ i < ofs + 1 <=> k = (ofs % CELLS) + 1) /\ (k = (ofs % CELLS) + 1 => i - ofs + 1 = 1)
      BY <3>2, <1>1, <1>7
    <3>. QED  BY <3>1, <3>3, <3>4, <2>1, <1>1
  <2>7. Slot(w.disk, ofs) = e
    BY <2>5, <2>6, <1>7 DEF Slot, at
  <2>8. \A j \in (1..CELLS) \ {(ofs % CELLS) + 1} : w.disk[at][j] = s.disk[at][j]
    BY <2>5, <2>6
  <2>9. /\ \A b \in Slots \ {ofs} : Slot(w.disk, b) = Slot(s.disk, b)
        /\ \A i \in Sectors \ RootSectors : w.disk[i] = s.disk[i]
    <3>1. \A i \in Sectors \ {RootStart + (ofs \div CELLS)} : w.disk[i] = s.disk[i]
      BY <2>5 DEF at
    <3>2. \A j \in (1..CELLS) \ {(ofs % CELLS) + 1} : w.disk[RootStart + (ofs \div CELLS)][j] = s.disk[RootStart + (ofs \div CELLS)][j]
      BY <2>8 DEF at
    <3>. DEFINE d == s.disk
                d2 == w.disk
    <3>3. OneCell(d, d2, RootStart + (ofs \div CELLS), (ofs % CELLS) + 1)
      BY <3>1, <3>2 DEF OneCell
    <3>. HIDE DEF d, d2
    <3>4. /\ \A b \in Slots \ {ofs} : Slot(d2, b) = Slot(d, b)
          /\ \A i \in Sectors \ RootSectors : d2[i] = d[i]
      BY <3>3, <2>1, SlotWritten
    <3>. QED  BY <3>4 DEF d, d2
  <2>10. ASSUME DiskOK(w.disk), Moved(s.disk, w.disk, c.open, c.write) PROVE Trail(c.from, w.log, w.disk, c.open, c.write)
    <3>1. Trail(c.from, s.log, s.disk, c.open, c.write)
      BY DEF Good
    <3>2. w.log = s.log \o [j \in 1..N |-> [sector |-> at + j - 1, cells |-> blocks[j]]]
      BY <1>8, <1>9
    <3>3. Trail(c.from, s.log \o [j \in 1..N |-> [sector |-> at + j - 1, cells |-> blocks[j]]], Wrote(s.disk, at, blocks, N), c.open, c.write)
      BY <3>1, <2>1, <2>2, <2>3, <2>10, <1>7, TrailOne
    <3>. QED  BY <3>2, <3>3, <2>3
  <2>11. SlotSet(s.disk, w.disk, ofs, e)
    BY <2>7, <2>9 DEF SlotSet
  <2>. QED  BY <2>1, <2>4, <2>10, <2>11
<1>12. s.fail = 0 /\ ofs < ENTRY_CNT => w.ok
  BY <1>3, <1>5
<1>. QED  BY <1>3, <1>5, <1>9, <1>10, <1>11, <1>12 DEF RootWritten, w, cells

\* A file of the call gets a name, and becomes one of those that live.
LEMMA NameAdded ==
  ASSUME NEW s, NEW c, NEW cnt, NEW dn, NEW P, Good(s, c, cnt, dn, P),
         NEW x, FileAt(s.disk, x), Owned(s.disk, x) \subseteq P, Owned(s.disk, x) \subseteq Marked(s.disk),
         Blank(s.disk, x),
         NEW n \in Names, Unnamed(s.disk, n),
         NEW ofs, ofs \notin Used(s.disk), NEW e, e = <<x, n, TRUE>>,
         NEW w, RootWritten(s, c, e, ofs, w), w.ok
  PROVE  Good(w, c, cnt, dn, P \ Owned(s.disk, x)) /\ Named(w.disk) = Named(s.disk) \cup {x}
<1>. DEFINE d == s.disk
            d2 == w.disk
            L == Live(s)
<1>1. /\ Rec(s) /\ DiskOK(d) /\ Apart(d, L) /\ Named(d) \subseteq L /\ L \subseteq Sectors \ Base
      /\ OwnedBy(d, Named(d)) \subseteq OwnedBy(d, L)
  BY GoodMeans
<1>2. /\ IsMap(s.free_map) /\ P \subseteq Sectors
      /\ \A i \in Sectors : s.free_map[i] <=> i \in Base \cup OwnedBy(d, L) \cup P
      /\ P \cap (Base \cup OwnedBy(d, L)) = {}
  BY MapMeans
<1>3. /\ ofs \in Slots \ Used(d) /\ IsDisk(d2) /\ SlotSet(d, d2, ofs, e)
      /\ \A i \in Sectors \ RootSectors : d2[i] = d[i]
      /\ DiskOK(d2) /\ Moved(d, d2, c.open, c.write) => Trail(c.from, w.log, d2, c.open, c.write)
  BY DEF RootWritten, SlotSet
<1>4. /\ w.free_map = s.free_map /\ w.map_open = s.map_open /\ w.inodes = s.inodes /\ w.panic = s.panic /\ w.fail \in Nat
      /\ Rec(w)
  <2>1. Like(s, w, {"disk", "log", "ok", "fail", "done"})
    BY DEF RootWritten
  <2>. QED  BY <2>1, LikeMeans DEF RootWritten
<1>5. x \in Owned(d, x) /\ x \in Sectors \ Base /\ x \notin L /\ x \notin Special
  <2>1. x \in Owned(d, x) /\ x \in Sectors \ Base
    BY FilesPlace
  <2>2. x \notin L
    BY <2>1, <1>2 DEF OwnedBy
  <2>. QED  BY <2>1, <2>2 DEF Base, Special
<1>6. c.open \subseteq L /\ c.open \cup c.write \subseteq DOMAIN s.inodes \ Special
  BY DEF Good, Live
<1>7. Owned(d, x) \cap OwnedBy(d, L) = {} /\ Owned(d, x) \cap OwnedBy(d, Named(d)) = {} /\ Owned(d, x) \cap OwnedBy(d, c.open) = {}
  <2>1. Owned(d, x) \cap OwnedBy(d, L) = {}
    BY <1>2
  <2>2. OwnedBy(d, c.open) \subseteq OwnedBy(d, L)
    BY <1>6 DEF OwnedBy
  <2>. QED  BY <2>1, <2>2, <1>1
<1>8. Blank(d, x) /\ Unnamed(d, n)
  OBVIOUS
<1>9. FileAt(d, x) /\ Owned(d, x) \subseteq Marked(d) /\ Owned(d, x) \subseteq P
  OBVIOUS
<1>. HIDE DEF d, d2, L
<1>10. DiskOK(d2) /\ Used(d2) = Used(d) \cup {ofs} /\ Named(d2) = Named(d) \cup {x} /\ x \notin Named(d)
  <2>1. DiskOK(d) /\ IsDisk(d2) /\ ofs \in Slots \ Used(d) /\ SlotSet(d, d2, ofs, e) /\ Unnamed(d, n)
    BY <1>1, <1>3, <1>8
  <2>2. FileAt(d, x) /\ Owned(d, x) \subseteq Marked(d) /\ Owned(d, x) \cap OwnedBy(d, Named(d)) = {}
    BY <1>7, <1>9
  <2>. QED  BY <2>1, <2>2, DiskAdded
<1>11. Moved(d, d2, c.open, c.write)
  <2>1. /\ SlotSet(d, d2, ofs, <<x, n, TRUE>>) /\ Unnamed(d, n)
        /\ Owned(d, x) \cap OwnedBy(d, c.open) = {} /\ Blank(d, x)
    BY <1>3, <1>7, <1>8
  <2>2. ofs \in Slots \ Used(d) /\ x \in Sectors /\ n \in Names
    BY <1>3, <1>5
  <2>3. Added(d, d2, c.open)
    BY <2>1, <2>2, Zenon DEF Added
  <2>. QED  BY <2>3 DEF Moved
<1>12. Trail(c.from, w.log, d2, c.open, c.write)
  BY <1>3, <1>10, <1>11
<1>13. \A y \in L \cup {x} : y \in Sectors \ RootSectors
  BY <1>1, <1>5 DEF Base
<1>14. Opens(d2, w.inodes, cnt, dn)
  <2>1. Opens(d, s.inodes, cnt, dn)
    BY DEF Good, d
  <2>2. \A i \in DOMAIN s.inodes : i \in L \cup Special
    BY DEF Live, L
  <2>3. \A i \in Special : i \in Sectors \ RootSectors
    BY BaseIs DEF Special
  <2>4. \A i \in DOMAIN s.inodes : Header(d2, i) = Header(d, i)
    <3>1. \A i \in DOMAIN s.inodes : d2[i] = d[i]
      BY <2>2, <2>3, <1>3, <1>13
    <3>. QED  BY <3>1 DEF Header
  <2>5. \A i \in DOMAIN s.inodes : Gone(d2, i) = Gone(d, i)
    BY <2>2, <1>5, <1>10 DEF Gone
  <2>6. \A i \in DOMAIN s.inodes : Inode(d2, i, cnt, dn) = Inode(d, i, cnt, dn)
    BY <2>4, <2>5 DEF Inode
  <2>. QED  BY ONLY <2>1, <2>6, <1>4 DEF Opens
<1>15. Live(w) = L \cup {x}
  BY <1>4, <1>10 DEF Live, L, d, d2
<1>16. Apart(d2, L \cup {x}) /\ OwnedBy(d2, L \cup {x}) = OwnedBy(d, L) \cup Owned(d, x)
  <2>1. Apart(d, L \cup {x})
    BY <1>1, <1>5, <1>7, <1>9 DEF Apart, OwnedBy
  <2>2. \A y \in L \cup {x} : d2[y] = d[y]
    BY <1>3, <1>13
  <2>3. OwnedBy(d, L \cup {x}) = OwnedBy(d, L) \cup Owned(d, x)
    BY DEF OwnedBy
  <2>. QED  BY <2>1, <2>2, <2>3, ApartKept
<1>17. Space(d2, w.free_map, Live(w), P \ Owned(d, x))
  <2>1. P \ Owned(d, x) \subseteq Sectors /\ (P \ Owned(d, x)) \cap (Base \cup OwnedBy(d2, L \cup {x})) = {}
    BY <1>2, <1>16
  <2>2. \A i \in Sectors : s.free_map[i] <=> i \in Base \cup OwnedBy(d2, L \cup {x}) \cup (P \ Owned(d, x))
    BY <1>2, <1>9, <1>16
  <2>3. s.free_map = [i \in Sectors |-> s.free_map[i]] /\ \A i \in Sectors : s.free_map[i] \in BOOLEAN
    BY <1>2 DEF IsMap
  <2>. DEFINE fm == s.free_map
  <2>4. fm = [i \in Sectors |-> fm[i]] /\ \A i \in Sectors : fm[i] \in BOOLEAN
    BY <2>3
  <2>5. \A i \in Sectors : fm[i] <=> i \in Base \cup OwnedBy(d2, L \cup {x}) \cup (P \ Owned(d, x))
    BY <2>2
  <2>6. w.free_map = fm
    BY <1>4
  <2>. HIDE DEF fm
  <2>7. Space(d2, fm, L \cup {x}, P \ Owned(d, x))
    BY <2>1, <2>4, <2>5, <1>16 DEF Space
  <2>. QED  BY <2>6, <2>7, <1>15
<1>18. s.map_open /\ ~s.panic
  BY DEF Good
<1>19. Good(w, c, cnt, dn, P \ Owned(d, x))
  BY <1>4, <1>6, <1>12, <1>14, <1>17, <1>18 DEF Good, d2
<1>. QED  BY <1>10, <1>19 DEF d, d2

\* The state after dir_add().
DirAdded(s, c, cnt, dn, P, x, t) ==
    /\ t.ok \in BOOLEAN /\ t.fail \in Nat /\ t.fail <= s.fail
    /\ Like(s, t, {"disk", "log", "ok", "fail", "done"})
    /\ ~t.ok => Good(t, c, cnt, dn, P) /\ Stable(s, t) /\ t.disk = s.disk
    /\ t.ok => Good(t, c, cnt, dn, P \ Owned(s.disk, x))

\* dir_add() gives the name to the file, or leaves everything as it was.
LEMMA DirAdds ==
  ASSUME NEW s, NEW c, NEW cnt, NEW dn, NEW P, Good(s, c, cnt, dn, P), cnt[ROOT_DIR_SECTOR] > 0, s.fail = 0,
         NEW x, FileAt(s.disk, x), Owned(s.disk, x) \subseteq P, Owned(s.disk, x) \subseteq Marked(s.disk),
         Blank(s.disk, x), NEW n \in Names
  PROVE  DirAdded(s, c, cnt, dn, P, x, DirAdd(s, n, x))
<1>. DEFINE no == FALSE
            seen == Lookup(s, n)
            slot == ScanEntries(seen.s, NONE)
            e == <<x, n, TRUE>>
            w == InodeWriteAt(slot.s, ROOT_DIR_SECTOR, <<e>>, slot.ofs)
            t == DirAdd(s, n, x)
<1>1. t = IF n \in BadNames THEN [s EXCEPT !.ok = no] ELSE IF seen.found THEN [seen.s EXCEPT !.ok = no] ELSE w
  BY DEF DirAdd, With
<1>2. Rec(s) /\ s.fail \in Nat /\ ~no
  BY GoodMeans
<1>. HIDE DEF no, seen, slot, w, t
<1>3. ASSUME NEW u, Like(s, u, {"ok", "fail"}), u.fail = 0, t = [u EXCEPT !.ok = no]
      PROVE  DirAdded(s, c, cnt, dn, P, x, t)
  <2>1. Rec(u)
    BY <1>3 DEF Like
  <2>2. Like(u, t, {"ok"}) /\ t.ok = no /\ t.fail = 0
    BY <2>1, <1>3 DEF Like, Rec, Fields
  <2>3. Like(s, t, {"ok", "fail"}) /\ ~t.ok /\ t.ok \in BOOLEAN
    BY <2>2, <1>2, <1>3, LikeChains DEF no
  <2>4. Like(s, t, Scratch) /\ Stable(s, t) /\ Like(s, t, {"disk", "log", "ok", "fail", "done"}) /\ t.disk = s.disk
    BY <2>3, LikeWider, StableLike, LikeMeans DEF Scratch
  <2>5. Good(t, c, cnt, dn, P)
    BY <2>2, <2>4, GoodLike
  <2>. QED  BY <2>2, <2>3, <2>4, <2>5, <1>2 DEF DirAdded
<1>4. ASSUME n \in BadNames PROVE DirAdded(s, c, cnt, dn, P, x, t)
  <2>1. Like(s, s, {"ok", "fail"})
    BY <1>2 DEF Like
  <2>. QED  BY <2>1, <1>1, <1>3, <1>4
<1>5. Scanned(s, n, seen)
  BY <1>2, RootInode, EntriesScanned DEF seen, Lookup
<1>6. /\ Like(s, seen.s, {"ok", "fail"}) /\ seen.s.fail = 0 /\ seen.found \in BOOLEAN
      /\ \A a \in Slots : a < seen.ofs => ~Wanted(Slot(s.disk, a), n)
      /\ ~seen.found => seen.ofs = ENTRY_CNT
  BY <1>2, <1>5 DEF Scanned
<1>7. ASSUME n \notin BadNames, seen.found PROVE DirAdded(s, c, cnt, dn, P, x, t)
  BY <1>1, <1>3, <1>6, <1>7
<1>8. ASSUME n \notin BadNames, ~seen.found PROVE DirAdded(s, c, cnt, dn, P, x, t)
  <2>. DEFINE u == seen.s
              v == slot.s
  <2>1. t = w
    BY <1>1, <1>8
  <2>2. Good(u, c, cnt, dn, P) /\ u.disk = s.disk /\ u.fail = 0 /\ Rec(u)
    <3>1. Like(s, u, Scratch) /\ u.fail \in Nat /\ u.disk = s.disk
      BY <1>6, LikeWider, LikeMeans DEF Scratch
    <3>. QED  BY <3>1, <1>6, GoodLike DEF Like
  <2>3. Unnamed(s.disk, n)
    <3>1. n # NONE
      BY FileSysAssumption
    <3>2. \A a \in Slots : a < ENTRY_CNT
      BY Consts DEF Slots
    <3>. QED  BY <3>1, <3>2, <1>6, <1>8 DEF Used, Wanted, Unnamed
  <2>4. Scanned(u, NONE, slot)
    <3>. HIDE DEF u
    <3>1. u.inodes[ROOT_DIR_SECTOR].start = RootStart /\ u.inodes[ROOT_DIR_SECTOR].length = ENTRY_CNT
      BY <2>2, RootInode
    <3>. QED  BY <3>1, <2>2, EntriesScanned DEF slot, u
  <2>. HIDE DEF u
  <2>5. /\ Like(u, v, {"ok", "fail"}) /\ v.fail = 0 /\ slot.found \in BOOLEAN /\ slot.ofs \in 0..ENTRY_CNT
        /\ slot.found => slot.entry = Slot(u.disk, slot.ofs) /\ Wanted(slot.entry, NONE)
        /\ ~slot.found => slot.ofs = ENTRY_CNT
    BY <2>2, <2>4 DEF Scanned
  <2>6. slot.ofs \notin Used(s.disk)
    BY <2>2, <2>5, Consts DEF Used, Wanted, Slots
  <2>. HIDE DEF v
  <2>7. Good(v, c, cnt, dn, P) /\ v.disk = s.disk /\ Like(s, v, {"ok", "fail"})
    <3>1. Like(u, v, Scratch) /\ v.fail \in Nat /\ v.disk = u.disk
      BY <2>5, LikeWider, LikeMeans DEF Scratch
    <3>2. Like(s, v, {"ok", "fail"})
      BY <2>5, <1>6, LikeChains DEF u
    <3>. QED  BY <3>1, <3>2, <2>2, GoodLike
  <2>. HIDE DEF e
  <2>8. RootWritten(v, c, e, slot.ofs, w)
    BY <2>5, <2>7, RootWrites DEF w, v
  <2>9. w.ok \in BOOLEAN /\ w.fail \in Nat /\ w.fail <= 0 /\ Like(s, w, {"disk", "log", "ok", "fail", "done"})
    BY <2>5, <2>7, <2>8, LikeChains DEF RootWritten
  <2>10. ASSUME w.ok PROVE Good(w, c, cnt, dn, P \ Owned(s.disk, x))
    <3>1. e = <<x, n, TRUE>>
      BY DEF e
    <3>2. /\ FileAt(v.disk, x) /\ Owned(v.disk, x) \subseteq P /\ Owned(v.disk, x) \subseteq Marked(v.disk)
          /\ Blank(v.disk, x) /\ Unnamed(v.disk, n)
          /\ slot.ofs \notin Used(v.disk)
      BY <2>3, <2>6, <2>7
    <3>3. Good(w, c, cnt, dn, P \ Owned(v.disk, x))
      BY <3>1, <3>2, <2>7, <2>8, <2>10, NameAdded
    <3>. QED  BY <3>3, <2>7
  <2>11. ASSUME ~w.ok PROVE Good(w, c, cnt, dn, P) /\ Stable(s, w) /\ w.disk = s.disk
    <3>1. w.disk = s.disk /\ w.log = v.log /\ Like(v, w, {"disk", "log", "ok", "fail", "done"})
      BY <2>7, <2>8, <2>11 DEF RootWritten
    <3>2. Like(v, w, {"ok", "fail", "done"})
      BY <3>1, <2>7 DEF Like, Fields
    <3>3. Like(v, w, Scratch) /\ Like(s, w, {"ok", "fail", "done"})
      BY <3>2, <2>7, LikeWider, LikeChains DEF Scratch
    <3>4. Stable(s, w)
      BY <3>3, StableLike
    <3>. QED  BY <3>1, <3>3, <3>4, <2>7, <2>9, GoodLike
  <2>. QED  BY <2>1, <2>9, <2>10, <2>11, <1>2 DEF DirAdded
<1>. QED  BY <1>4, <1>6, <1>7, <1>8 DEF t

\* A name is erased and its inode marked as removed.
LEMMA NameRemoved ==
  ASSUME NEW s, NEW c, NEW cnt, NEW dn, NEW P, Good(s, c, cnt, dn, P),
         NEW a \in Used(s.disk), NEW x \in DOMAIN s.inodes, x = Slot(s.disk, a)[1],
         NEW n \in Names, NEW e, e = Erased(x, n),
         NEW w, RootWritten(s, c, e, a, w), w.ok
  PROVE  LET t == InodeRemove(w, x) IN
         Good(t, c, cnt, dn, P) /\ Like(w, t, {"inodes"}) /\ t.fail = w.fail
<1>. DEFINE d == s.disk
            d2 == w.disk
            L == Live(s)
            yes == TRUE
            nodes == s.inodes
            node == nodes[x]
            more == [nodes EXCEPT ![x] = [node EXCEPT !.removed = yes]]
            t == InodeRemove(w, x)
<1>1. /\ Rec(s) /\ DiskOK(d) /\ Apart(d, L) /\ Named(d) \subseteq L /\ L \subseteq Sectors \ Base
      /\ DOMAIN nodes = {i \in Sectors : cnt[i] > 0}
  BY GoodMeans
<1>2. /\ IsDisk(d2) /\ SlotSet(d, d2, a, e)
      /\ (\A i \in Sectors \ RootSectors : d2[i] = d[i])
      /\ DiskOK(d2) /\ Moved(d, d2, c.open, c.write) => Trail(c.from, w.log, d2, c.open, c.write)
  BY DEF RootWritten, SlotSet
<1>3. /\ w.free_map = s.free_map /\ w.map_open = s.map_open /\ w.inodes = nodes /\ w.panic = s.panic /\ w.fail \in Nat
      /\ Rec(w)
  <2>1. Like(s, w, {"disk", "log", "ok", "fail", "done"})
    BY DEF RootWritten
  <2>. QED  BY <2>1, LikeMeans DEF RootWritten
<1>4. e = Erased(Slot(d, a)[1], n) /\ a \in Used(d)
  OBVIOUS
<1>5. Opens(d, nodes, cnt, dn) /\ s.map_open /\ ~s.panic /\ Space(d, s.free_map, L, P)
      /\ c.open \cup c.write \subseteq DOMAIN nodes \ Special
  BY DEF Good
<1>6. node = Inode(d, x, cnt, dn) /\ IsNodes(nodes) /\ x \in Sectors
  BY <1>1, <1>5 DEF Opens
<1>7. x = Slot(d, a)[1]
  OBVIOUS
<1>. HIDE DEF d, d2, L
<1>8. DiskOK(d2) /\ Named(d2) = Named(d) \ {x} /\ x \in Named(d)
  BY <1>1, <1>2, <1>4, <1>7, DiskRemoved
<1>9. x \in L /\ x \notin Special
  BY <1>1, <1>8 DEF Base, Special
<1>10. Trail(c.from, w.log, d2, c.open, c.write)
  <2>1. Removed(d, d2)
    BY <1>2, <1>4, Zenon DEF Removed
  <2>2. Moved(d, d2, c.open, c.write)
    BY <2>1 DEF Moved
  <2>. QED  BY <2>2, <1>2, <1>8
<1>11. \A i \in DOMAIN nodes : d2[i] = d[i] /\ Header(d2, i) = Header(d, i)
  <2>1. \A i \in DOMAIN nodes : i \in L \cup Special
    BY DEF Live, L
  <2>2. \A i \in Special : i \in Sectors \ RootSectors
    BY BaseIs DEF Special
  <2>3. \A i \in L : i \in Sectors \ RootSectors
    BY <1>1 DEF Base
  <2>4. \A i \in DOMAIN nodes : d2[i] = d[i]
    BY <2>1, <2>2, <2>3, <1>2
  <2>. QED  BY <2>4 DEF Header
<1>12. Gone(d2, x) = yes /\ \A i \in DOMAIN nodes \ {x} : Gone(d2, i) = Gone(d, i)
  <2>1. x \notin Named(d2) \cup Special
    BY <1>8, <1>9
  <2>2. \A i : i # x => (i \in Named(d2) \cup Special <=> i \in Named(d) \cup Special)
    BY <1>8
  <2>. QED  BY <2>1, <2>2 DEF Gone
<1>. HIDE DEF yes, node
<1>13. t = [w EXCEPT !.inodes = more]
  BY <1>3, <1>6 DEF InodeRemove, Rec, Fields, node, yes, IsNodes
<1>14. [node EXCEPT !.removed = yes] = Inode(d2, x, cnt, dn)
  BY <1>6, <1>11, <1>12 DEF Inode
<1>. HIDE DEF nodes
<1>15. /\ DOMAIN more = DOMAIN nodes /\ IsNodes(more) /\ more[x] = Inode(d2, x, cnt, dn)
       /\ \A i \in DOMAIN nodes \ {x} : more[i] = nodes[i]
  <2>1. x \in DOMAIN nodes
    BY DEF nodes
  <2>. QED  BY <2>1, <1>6, <1>14 DEF IsNodes
<1>. HIDE DEF more, t
<1>16. Like(w, t, {"inodes"}) /\ t.inodes = more
  BY <1>3, <1>13 DEF Like, Rec, Fields
<1>17. /\ Rec(t) /\ t.disk = d2 /\ t.log = w.log /\ t.free_map = s.free_map /\ t.map_open = s.map_open
       /\ t.panic = s.panic /\ t.fail = w.fail
  BY <1>3, <1>16, LikeMeans DEF d2
<1>18. Opens(d2, more, cnt, dn)
  <2>1. \A i \in DOMAIN nodes \ {x} : Inode(d2, i, cnt, dn) = Inode(d, i, cnt, dn)
    BY <1>11, <1>12 DEF Inode
  <2>2. \A i \in DOMAIN more : more[i] = Inode(d2, i, cnt, dn)
    BY <2>1, <1>5, <1>15 DEF Opens
  <2>. QED  BY <2>2, <1>5, <1>15 DEF Opens
<1>19. Live(t) = L
  BY <1>8, <1>9, <1>15, <1>16, <1>17 DEF Live, L, d, nodes
<1>20. Space(d2, s.free_map, L, P)
  <2>1. \A i \in L : d2[i] = d[i]
    BY <1>1, <1>2 DEF Base
  <2>2. Apart(d2, L) /\ OwnedBy(d2, L) = OwnedBy(d, L)
    BY <2>1, <1>1, ApartKept
  <2>. QED  BY <2>2, <1>5 DEF Space
<1>21. c.open \cup c.write \subseteq DOMAIN t.inodes \ Special
  BY <1>5, <1>15, <1>16
<1>22. Good(t, c, cnt, dn, P)
  BY <1>3, <1>5, <1>10, <1>16, <1>17, <1>18, <1>19, <1>20, <1>21 DEF Good
<1>. QED  BY <1>16, <1>17, <1>22 DEF t

\* The state after dir_remove().
DirRemoved(s, c, cnt, dn, P, t) ==
    /\ t.ok \in BOOLEAN /\ t.fail \in Nat /\ t.fail <= s.fail /\ Good(t, c, cnt, dn, P)
    /\ Like(s, t, {"disk", "log", "free_map", "inodes", "ok", "fail", "done", "panic"})

\* dir_remove() erases the name, or leaves everything as it was.
LEMMA DirRemoves ==
  ASSUME NEW s, NEW c, NEW cnt, NEW dn, NEW P, Good(s, c, cnt, dn, P), cnt[ROOT_DIR_SECTOR] > 0, NEW n \in Names
  PROVE  DirRemoved(s, c, cnt, dn, P, DirRemove(s, n))
<1>. DEFINE no == FALSE
            seen == Lookup(s, n)
            u == seen.s
            x == seen.entry[1]
            a == seen.ofs
            o == InodeOpen(u, x)
            e == Erased(x, n)
            w == InodeWriteAt(o, ROOT_DIR_SECTOR, <<e>>, a)
            v == IF w.ok THEN InodeRemove(w, x) ELSE w
            z == InodeClose(v, x)
            t == DirRemove(s, n)
            cnt2 == [cnt EXCEPT ![x] = @ + 1]
            H == {"disk", "log", "free_map", "inodes", "ok", "fail", "done", "panic"}
<1>1. t = IF ~seen.found THEN [u EXCEPT !.ok = no] ELSE IF ~o.ok THEN o ELSE [z EXCEPT !.ok = w.ok]
  BY DEF DirRemove, With, Erased
<1>2. Rec(s) /\ s.fail \in Nat /\ ~no
  BY GoodMeans
<1>3. Scanned(s, n, seen)
  BY <1>2, RootInode, EntriesScanned DEF Lookup
<1>. HIDE DEF no, seen, o, w, v, z, t
<1>4. /\ Like(s, u, {"ok", "fail"}) /\ u.fail \in Nat /\ u.fail <= s.fail /\ seen.found \in BOOLEAN
      /\ seen.found => a \in Slots /\ seen.entry = Slot(s.disk, a) /\ Wanted(seen.entry, n)
  BY <1>3 DEF Scanned
<1>. HIDE DEF u
<1>5. Good(u, c, cnt, dn, P) /\ u.disk = s.disk /\ Rec(u)
  <2>1. Like(s, u, Scratch) /\ u.disk = s.disk
    BY <1>4, LikeWider, LikeMeans DEF Scratch
  <2>. QED  BY <2>1, <1>4, GoodLike DEF Like
<1>6. ASSUME ~seen.found PROVE DirRemoved(s, c, cnt, dn, P, t)
  <2>1. Like(u, t, {"ok"}) /\ t.ok = no /\ t.fail = u.fail
    BY <1>1, <1>5, <1>6 DEF Like, Rec, Fields
  <2>2. Like(s, t, H) /\ Like(u, t, Scratch)
    BY <2>1, <1>4, LikeChains, LikeWider DEF Scratch
  <2>3. Good(t, c, cnt, dn, P)
    BY <2>1, <2>2, <1>4, <1>5, GoodLike
  <2>. QED  BY <2>1, <2>2, <2>3, <1>4 DEF DirRemoved, no
<1>7. ASSUME seen.found PROVE DirRemoved(s, c, cnt, dn, P, t)
  <2>1. a \in Used(u.disk) /\ x = Slot(u.disk, a)[1] /\ x \in Named(u.disk)
    <3>1. n # NONE
      BY FileSysAssumption
    <3>2. InUse(seen.entry)
      BY <3>1, <1>4, <1>7 DEF Wanted
    <3>. QED  BY <3>2, <1>4, <1>5, <1>7 DEF Used, Named
  <2>2. x \in Sectors \ Base /\ x \notin Special /\ cnt \in [Sectors -> Nat] /\ dn[x] <= cnt[x] /\ DOMAIN u.inodes = {i \in Sectors : cnt[i] > 0}
        /\ c.open \cup c.write \subseteq DOMAIN u.inodes
    <3>1. x \in Sectors \ Base
      BY <2>1, <1>5, GoodMeans
    <3>. QED  BY <3>1, <1>5 DEF Base, Special, Good, Opens
  <2>. HIDE DEF x, a
  <2>3. NodesOpened(u, c, cnt, dn, P, x, o)
    BY <2>1, <2>2, <1>5, InodeOpens DEF o
  <2>4. /\ o.ok \in BOOLEAN /\ o.fail \in Nat /\ o.fail <= u.fail /\ Like(u, o, {"inodes", "ok", "fail"})
        /\ ~o.ok => Good(o, c, cnt, dn, P)
        /\ o.ok => Good(o, c, cnt2, dn, P)
    BY <2>3 DEF NodesOpened
  <2>5. Like(s, o, {"inodes", "ok", "fail"}) /\ o.fail <= s.fail /\ o.disk = u.disk
    BY <2>4, <1>2, <1>4, LikeChains, LikeMeans
  <2>6. ASSUME ~o.ok PROVE DirRemoved(s, c, cnt, dn, P, t)
    <3>1. Like(s, o, H) /\ t = o
      BY <2>5, <2>6, <1>1, <1>7, LikeWider
    <3>. QED  BY <3>1, <2>4, <2>5, <2>6 DEF DirRemoved
  <2>7. ASSUME o.ok PROVE DirRemoved(s, c, cnt, dn, P, t)
    <3>1. /\ Good(o, c, cnt2, dn, P) /\ [cnt2 EXCEPT ![x] = @ - 1] = cnt /\ cnt2[x] = cnt[x] + 1 /\ cnt[x] \in Nat
          /\ cnt2[ROOT_DIR_SECTOR] > 0
      <4>1. ROOT_DIR_SECTOR \in Sectors /\ x # ROOT_DIR_SECTOR /\ x # FREE_MAP_SECTOR
        BY <2>2, BaseIs DEF Special, ROOT_DIR_SECTOR
      <4>. QED  BY <4>1, <2>2, <2>4, <2>7, UpDown
    <3>. HIDE DEF cnt2
    <3>2. x \in DOMAIN o.inodes
      BY <3>1, <2>2, GoodMeans
    <3>. HIDE DEF e
    <3>3. RootWritten(o, c, e, a, w)
      <4>1. a \in 0..ENTRY_CNT
        BY <2>1, Consts DEF Used, Slots
      <4>. QED  BY <4>1, <3>1, RootWrites DEF w
    <3>4. Good(v, c, cnt2, dn, P) /\ v.fail \in Nat /\ v.fail <= o.fail /\ Like(o, v, H)
      <4>1. w.ok \in BOOLEAN /\ w.fail \in Nat /\ w.fail <= o.fail /\ Like(o, w, {"disk", "log", "ok", "fail", "done"})
        BY <3>3 DEF RootWritten
      <4>2. ASSUME w.ok PROVE Good(v, c, cnt2, dn, P) /\ v.fail \in Nat /\ v.fail <= o.fail /\ Like(o, v, H)
        <5>1. a \in Used(o.disk) /\ x = Slot(o.disk, a)[1]
          BY <2>1, <2>5
        <5>2. e = Erased(x, n)
          BY DEF e
        <5>3. v = InodeRemove(w, x)
          BY <4>2 DEF v
        <5>4. Good(v, c, cnt2, dn, P) /\ Like(w, v, {"inodes"}) /\ v.fail = w.fail
          BY <5>1, <5>2, <5>3, <3>1, <3>2, <3>3, <4>2, NameRemoved
        <5>. QED  BY <5>4, <4>1, LikeChains
      <4>3. ASSUME ~w.ok PROVE Good(v, c, cnt2, dn, P) /\ v.fail \in Nat /\ v.fail <= o.fail /\ Like(o, v, H)
        <5>1. v = w /\ w.disk = o.disk /\ w.log = o.log
          BY <3>3, <4>3 DEF v, RootWritten
        <5>2. Like(o, w, Scratch) /\ Like(o, w, H)
          BY <4>1, <5>1 DEF Like, Scratch, Fields
        <5>. QED  BY <5>1, <5>2, <4>1, <3>1, GoodLike
      <4>. QED  BY <4>1, <4>2, <4>3
    <3>5. NodesClosed(v, c, cnt2, dn, P, x, z)
      <4>1. dn[x] < cnt2[x] /\ x # FREE_MAP_SECTOR
        BY <2>2, <3>1 DEF Special, Opens, Good
      <4>2. cnt2[x] = 1 => x \notin c.open \cup c.write
        BY <2>2, <3>1
      <4>. QED  BY <4>1, <4>2, <3>4, <2>2, InodeCloses DEF z
    <3>6. /\ Good(z, c, cnt, dn, P) /\ z.fail \in Nat /\ z.fail <= v.fail
          /\ Like(v, z, H)
      BY <3>1, <3>5 DEF NodesClosed
    <3>7. t = [z EXCEPT !.ok = w.ok] /\ w.ok \in BOOLEAN
      BY <2>7, <1>1, <1>7, <3>3 DEF RootWritten
    <3>8. Like(z, t, {"ok"}) /\ t.ok = w.ok /\ t.fail = z.fail
      <4>1. Rec(z)
        BY <3>6 DEF Like
      <4>. QED  BY <4>1, <3>7 DEF Like, Rec, Fields
    <3>9. Like(s, t, H) /\ Like(z, t, Scratch)
      <4>1. Like(s, o, H)
        BY <2>5, LikeWider
      <4>2. Like(s, v, H)
        BY <4>1, <3>4, LikeChains
      <4>3. Like(s, z, H)
        BY <4>2, <3>6, LikeChains
      <4>. QED  BY <4>3, <3>8, LikeChains, LikeWider DEF Scratch
    <3>10. Good(t, c, cnt, dn, P)
      BY <3>6, <3>8, <3>9, GoodLike
    <3>11. t.fail <= s.fail /\ t.fail \in Nat
      BY <3>4, <3>6, <3>8, <2>4, <2>5, <1>2
    <3>. QED  BY <3>7, <3>8, <3>9, <3>10, <3>11 DEF DirRemoved
  <2>. QED  BY <2>4, <2>6, <2>7
<1>. QED  BY <1>4, <1>6, <1>7 DEF t

\* The state after inode_write_at().
Written(s, c, cnt, dn, P, t) ==
    /\ Good(t, c, cnt, dn, P) /\ t.done \in Nat /\ Stable(s, t) /\ t.fail <= s.fail
    /\ Like(s, t, {"disk", "log", "ok", "fail", "done"})

\* The contents of a file lie outside of all inodes and of the system.
LEMMA DataPlace ==
  ASSUME NEW s, NEW c, NEW cnt, NEW dn, NEW P, Good(s, c, cnt, dn, P), NEW x \in Live(s), NEW y \in Data(s.disk, x)
  PROVE  y \in Sectors \ (Base \cup Live(s))
<1>1. /\ Apart(s.disk, Live(s)) /\ FileAt(s.disk, x)
  BY GoodMeans
<1>2. y \in Owned(s.disk, x) /\ y \in Sectors /\ Data(s.disk, x) \subseteq Owned(s.disk, x)
  BY RunIs DEF Owned, Data
<1>3. y \notin Base /\ y # x
  BY <1>1, <1>2 DEF FileAt
<1>4. ASSUME y \in Live(s) PROVE FALSE
  <2>1. y \in Owned(s.disk, y)
    BY DEF Owned
  <2>. QED  BY <2>1, <1>1, <1>2, <1>3, <1>4 DEF Apart
<1>. QED  BY <1>2, <1>3, <1>4

\* inode_write_at() writes the contents of a file that is open and not denied.
LEMMA InodeWrites ==
  ASSUME NEW s, NEW c, NEW cnt, NEW dn, NEW P, Good(s, c, cnt, dn, P),
         NEW x \in Sectors \ Special, cnt[x] > 0, dn[x] = 0 => x \in c.write,
         NEW cells, Len(cells) \in Nat, NEW offset \in Nat
  PROVE  Written(s, c, cnt, dn, P, InodeWriteAt(s, x, cells, offset))
<1>. DEFINE d == s.disk
            inode == s.inodes[x]
            r == Transfer(s, inode, Len(cells), offset)
            N == Touched(offset, r.done)
            blocks == Blocks(s, inode, cells, offset, r.done)
            first == inode.start + (offset \div CELLS)
            v == DiskWrites(r.s, first, blocks)
            t == InodeWriteAt(s, x, cells, offset)
<1>1. /\ x \in DOMAIN s.inodes /\ inode = Inode(d, x, cnt, dn) /\ dn[x] \in Nat /\ Rec(s) /\ s.fail \in Nat
  BY NodeOf
<1>2. x \in Live(s) /\ FileAt(d, x) /\ IsDisk(d)
  <2>1. x \in Live(s)
    BY <1>1 DEF Live
  <2>. QED  BY <2>1, GoodMeans
<1>3. inode.start = Header(d, x).start /\ inode.length = Header(d, x).length /\ inode.deny_write_cnt = dn[x]
  BY <1>1 DEF Inode
<1>4. /\ inode.start \in Nat /\ inode.length \in Nat /\ inode.start + BytesToSectors(inode.length) <= SECTORS
      /\ BytesToSectors(inode.length) \in Nat
  BY <1>2, <1>3, Cells DEF FileAt
<1>. HIDE DEF inode
<1>5. ASSUME dn[x] > 0 PROVE Written(s, c, cnt, dn, P, t)
  <2>1. t = [s EXCEPT !.ok = (Len(cells) = 0), !.done = 0]
    BY <1>3, <1>5 DEF InodeWriteAt, inode
  <2>. HIDE DEF t
  <2>2. Like(s, t, {"ok", "done"}) /\ t.done = 0 /\ t.fail = s.fail
    BY <2>1, <1>1 DEF Like, Rec, Fields
  <2>3. Like(s, t, Scratch) /\ Stable(s, t) /\ Like(s, t, {"disk", "log", "ok", "fail", "done"})
    BY <2>2, LikeWider, StableLike DEF Scratch
  <2>4. Good(t, c, cnt, dn, P)
    BY <2>2, <2>3, <1>1, GoodLike
  <2>. QED  BY <2>2, <2>3, <2>4, <1>1 DEF Written
<1>6. ASSUME dn[x] = 0 PROVE Written(s, c, cnt, dn, P, t)
  <2>1. WriteOf(s, inode, cells, offset, r, N, blocks, t)
    <3>1. inode.deny_write_cnt = 0
      BY <1>3, <1>6
    <3>. QED  BY <3>1, <1>1, <1>2, <1>4, WriteParts DEF inode
  <2>2. Like(s, r.s, {"ok", "fail"}) /\ r.s.fail \in Nat /\ r.s.fail <= s.fail /\ r.done \in Nat
    BY <1>1, <1>4, TransferIs
  <2>. HIDE DEF r, N, blocks, t
  <2>3. /\ N \in Nat /\ IsRun(blocks, N) /\ Like(v, t, {"ok", "done"}) /\ t.done = r.done
        /\ r.done = 0 => N = 0
        /\ r.done > 0 => (offset \div CELLS) + N <= BytesToSectors(inode.length)
    BY <2>1 DEF WriteOf
  <2>. DEFINE u == r.s
  <2>4. Good(u, c, cnt, dn, P) /\ u.disk = d /\ Live(u) = Live(s) /\ Stable(s, u)
    <3>1. Like(s, u, Scratch) /\ u.disk = d /\ Stable(s, u)
      BY <2>2, LikeWider, LikeMeans, StableLike DEF Scratch
    <3>. QED  BY <3>1, <2>2, GoodLike
  <2>5. v = DiskWrites(u, first, blocks) /\ first \in Nat /\ offset \div CELLS \in Nat
    <3>1. offset \div CELLS \in Nat
      BY Cells
    <3>2. first \in Nat
      BY <3>1, <1>4
    <3>. QED  BY <3>1, <3>2
  <2>6. \A j \in 1..N : first + j - 1 \in Data(d, x)
    <3>1. ASSUME NEW j \in 1..N PROVE first + j - 1 \in Data(d, x)
      <4>1. r.done > 0
        BY <2>2, <2>3, <3>1
      <4>2. inode.start <= first + j - 1 /\ first + j - 1 < inode.start + BytesToSectors(inode.length) /\ first + j - 1 \in Sectors
        <5>. DEFINE q == offset \div CELLS
        <5>1. q \in Nat /\ q + N <= BytesToSectors(inode.length) /\ first = inode.start + q
          BY <4>1, <2>3, <2>5
        <5>. HIDE DEF q, first
        <5>2. j \in Nat /\ 1 <= j /\ j <= N
          BY <3>1, <2>3
        <5>3. inode.start <= first + j - 1 /\ first + j - 1 < inode.start + BytesToSectors(inode.length)
          BY <5>1, <5>2, <2>3, <1>4
        <5>4. first + j - 1 < SECTORS /\ first + j - 1 \in Nat
          <6>1. first \in Nat /\ SECTORS \in Nat
            BY <5>1, <1>4, Consts
          <6>2. \A b \in Nat, k \in Nat : k + b <= SECTORS /\ first + j - 1 < k + b => first + j - 1 < SECTORS
            BY <6>1, <5>2
          <6>. QED  BY <6>1, <6>2, <5>2, <5>3, <1>4
        <5>. QED  BY <5>3, <5>4, Consts DEF Sectors
      <4>. HIDE DEF first
      <4>. QED  BY <4>2, <1>3, RunIs DEF Data
    <3>. QED  BY <3>1
  <2>. HIDE DEF u, first, v, d
  <2>7. \A j \in 1..N : first + j - 1 \in Sectors \ (Base \cup Live(s))
    BY <2>6, <1>2, DataPlace DEF d
  <2>8. \A j \in 1..N : first + j - 1 \in Sectors \ (Special \cup RootSectors \cup Live(u))
    BY <2>4, <2>7 DEF Base, Special
  <2>9. \A j \in 1..N : first + j - 1 \in OwnedBy(u.disk, Live(u)) => \E y \in c.write : first + j - 1 \in Data(u.disk, y)
    <3>1. x \in c.write
      BY <1>6
    <3>. QED  BY <3>1, <2>4, <2>6
  <2>10. \A n \in 0..N : Base \cup OwnedBy(u.disk, Named(u.disk)) \subseteq Marked(Wrote(u.disk, first, blocks, n))
    <3>1. ASSUME NEW n \in 0..N PROVE Base \cup OwnedBy(u.disk, Named(u.disk)) \subseteq Marked(Wrote(u.disk, first, blocks, n))
      <4>. DEFINE d2 == Wrote(u.disk, first, blocks, n)
      <4>1. \A i \in MapSectors : d2[i] = u.disk[i]
        <5>1. ASSUME NEW i \in MapSectors PROVE d2[i] = u.disk[i]
          <6>1. i \in Sectors /\ i \in Base /\ i \in Nat
            BY BaseIs DEF Base
          <6>2. i - first + 1 \in 1..n => i - first + 1 \in 1..N /\ first + (i - first + 1) - 1 = i
            BY <6>1, <2>3, <2>5, <3>1
          <6>3. i - first + 1 \notin 1..n
            BY <6>1, <6>2, <2>7
          <6>. QED  BY <6>1, <6>3 DEF Wrote
        <5>. QED  BY <5>1
      <4>. HIDE DEF d2
      <4>2. Marked(d2) = Marked(u.disk)
        BY <4>1, MarkedKept
      <4>3. Base \cup OwnedBy(u.disk, Named(u.disk)) \subseteq Marked(u.disk)
        BY <2>4, GoodMeans
      <4>. QED  BY <4>2, <4>3 DEF d2
    <3>. QED  BY <3>1
  <2>11. Good(v, c, cnt, dn, P) /\ Like(u, v, {"disk", "log"}) /\ Stable(u, v)
    BY <2>3, <2>4, <2>5, <2>8, <2>9, <2>10, GoodWrites
  <2>12. Like(v, t, Scratch) /\ Stable(v, t) /\ t.fail = v.fail /\ v.fail = u.fail
    BY <2>3, <2>11, LikeWider, LikeMeans, StableLike DEF Scratch
  <2>13. Good(t, c, cnt, dn, P)
    BY <2>2, <2>11, <2>12, GoodLike DEF u
  <2>14. Like(s, t, {"disk", "log", "ok", "fail", "done"}) /\ Stable(s, t)
    <3>1. Like(s, v, {"disk", "log", "ok", "fail"})
      BY <2>2, <2>11, LikeChains DEF u
    <3>. QED  BY <3>1, <2>3, <2>4, <2>11, <2>12, LikeChains, StableChains
  <2>. QED  BY <2>2, <2>3, <2>12, <2>13, <2>14 DEF Written, u
<1>. QED  BY <1>1, <1>5, <1>6 DEF t

\* The state after the directory is closed.
RootClosed(s, c, cnt, dn, P, t) ==
    Good(t, c, cnt, dn, P) /\ Stable(s, t) /\ Like(s, t, {"inodes"}) /\ t.fail \in Nat

\* dir_close() takes back what dir_open_root() did.
LEMMA RootCloses ==
  ASSUME NEW s, NEW c, NEW cnt, NEW dn, NEW P, cnt \in [Sectors -> Nat],
         NEW cnt2, cnt2 = [cnt EXCEPT ![ROOT_DIR_SECTOR] = @ + 1], Good(s, c, cnt2, dn, P)
  PROVE  RootClosed(s, c, cnt, dn, P, DirClose(s))
<1>1. Good(s, c, [cnt EXCEPT ![ROOT_DIR_SECTOR] = @ + 1], dn, P)
  OBVIOUS
<1>. QED  BY <1>1, DirCloses DEF RootClosed

\* The root has one opener more.
RootUp(cnt, cnt2) == cnt2 = [cnt EXCEPT ![ROOT_DIR_SECTOR] = @ + 1]

\* The end of filesys_create() when it fails after it took a sector.
CreateFailed(s, sector, lost) == [DirClose(FreeMapRelease(s, sector, 1)) EXCEPT !.ok = FALSE, !.lost = lost]

\* filesys_create() gives the inode's sector back when it fails.
LEMMA CreateFails ==
  ASSUME NEW s, NEW c, NEW cnt, NEW dn, NEW P, cnt \in [Sectors -> Nat],
         NEW cnt2, RootUp(cnt, cnt2), Good(s, c, cnt2, dn, P),
         NEW x \in Nat, Run(x, 1) \subseteq P, NEW lost,
         NEW t, t = CreateFailed(s, x, lost)
  PROVE  Good(t, c, cnt, dn, P \ Run(x, 1)) /\ t.lost = lost /\ t.files = s.files
<1>. DEFINE no == FALSE
            r == FreeMapRelease(s, x, 1)
            z == DirClose(r)
            y == [z EXCEPT !.ok = no]
<1>1. t = [y EXCEPT !.lost = lost] /\ 1 \in Nat
  BY DEF CreateFailed
<1>. HIDE DEF no, r, z
<1>2. Released(s, c, cnt2, dn, P, x, 1, r)
  BY <1>1, FreeMapReleases DEF r
<1>3. Good(r, c, cnt2, dn, P \ Run(x, 1)) /\ r.files = s.files
  BY <1>2, LikeMeans DEF Released
<1>4. RootClosed(r, c, cnt, dn, P \ Run(x, 1), z)
  BY <1>3, RootCloses DEF z, RootUp
<1>5. Good(z, c, cnt, dn, P \ Run(x, 1)) /\ z.files = r.files /\ z.fail \in Nat /\ Rec(z)
  BY <1>4, LikeMeans DEF RootClosed
<1>6. Like(z, t, {"ok", "lost"}) /\ t.lost = lost
  <2>1. Like(z, y, {"ok"})
    BY <1>5 DEF Like, Rec, Fields
  <2>. HIDE DEF y
  <2>2. Like(y, t, {"lost"}) /\ t.lost = lost
    <3>1. Rec(y)
      BY <2>1 DEF Like
    <3>. QED  BY <3>1, <1>1 DEF Like, Rec, Fields
  <2>. QED  BY <2>1, <2>2, LikeChains
<1>7. Like(z, t, Scratch) /\ t.files = z.files /\ t.fail = z.fail
  BY <1>6, LikeWider, LikeMeans DEF Scratch
<1>8. Good(t, c, cnt, dn, P \ Run(x, 1))
  BY <1>5, <1>7, GoodLike
<1>. QED  BY <1>3, <1>5, <1>6, <1>7, <1>8

\* filesys_create() makes a file and its name, or loses at most the sectors of the contents
\* that the model records as lost.
LEMMA FileCreates ==
  ASSUME NEW s, NEW c, NEW cnt, NEW dn, NEW P, Good(s, c, cnt, dn, P), cnt[ROOT_DIR_SECTOR] = 0, s.lost = {},
         s.fail <= Budget, NEW n \in Names, NEW size \in Nat
  PROVE  LET t == FilesysCreate(s, n, size) IN Good(t, c, cnt, dn, P \cup t.lost) /\ t.files = s.files
<1>. DEFINE cnt2 == [cnt EXCEPT ![ROOT_DIR_SECTOR] = @ + 1]
            K == BytesToSectors(size)
            d == DirOpenRoot(s)
            a == FreeMapAllocate(d, 1)
            x == a.sector
            i == InodeCreate(a, x, size)
            R == Run(i.sector, K)
            r == DirAdd(i, n, x)
            t == FilesysCreate(s, n, size)
            noData == CreateFailed(i, x, {})
            noEntry == CreateFailed(r, x, R)
            G(u) == Good(u, c, cnt, dn, P \cup u.lost) /\ u.files = s.files
<1>1. t = IF ~d.ok THEN d ELSE IF ~a.ok THEN DirClose(a) ELSE IF ~i.ok THEN noData
          ELSE IF r.ok THEN DirClose(r) ELSE noEntry
  BY DEF FilesysCreate, With, CreateFailed
<1>2. Rec(s) /\ s.fail \in Nat /\ cnt \in [Sectors -> Nat] /\ ROOT_DIR_SECTOR \in Sectors
  BY GoodMeans, BaseIs DEF Good, Opens, ROOT_DIR_SECTOR
<1>3. cnt2[ROOT_DIR_SECTOR] > 0
  BY <1>2
<1>4. RootOpened(s, c, cnt, dn, P, d)
  BY DirOpensRoot
<1>5. /\ d.ok \in BOOLEAN /\ d.fail \in Nat /\ d.files = s.files /\ d.lost = {}
      /\ d.ok => Good(d, c, cnt2, dn, P) /\ (d.fail = 0 \/ d.fail + 2 <= s.fail)
      /\ ~d.ok => Good(d, c, cnt, dn, P)
  BY <1>4, LikeMeans DEF RootOpened
<1>. HIDE DEF cnt2, d, a, i, r, t, noData, noEntry
<1>6. ASSUME ~d.ok PROVE G(t)
  <2>1. t = d /\ P \cup {} = P
    BY <1>1, <1>6
  <2>. QED  BY <2>1, <1>5, <1>6
<1>7. ASSUME d.ok PROVE G(t)
  <2>1. Reserved(d, c, cnt2, dn, P, 1, a)
    BY <1>5, <1>7, FreeMapAllocates DEF a
  <2>2. /\ a.ok \in BOOLEAN /\ a.fail \in Nat /\ a.files = s.files /\ a.lost = {}
        /\ ~a.ok => Good(a, c, cnt2, dn, P)
        /\ a.ok => /\ Good(a, c, cnt2, dn, P \cup Run(x, 1)) /\ x \in Nat /\ x + 1 <= SECTORS
                   /\ Run(x, 1) \cap (Base \cup OwnedBy(d.disk, Live(d)) \cup P) = {}
                   /\ a.fail = 0 \/ a.fail + Cost <= d.fail
    BY <2>1, <1>5, LikeMeans DEF Reserved
  <2>. HIDE DEF x
  <2>3. \A u : Good(u, c, cnt2, dn, P) /\ u.lost = {} /\ u.files = s.files => G(DirClose(u))
    <3>1. ASSUME NEW u, Good(u, c, cnt2, dn, P), u.lost = {}, u.files = s.files PROVE G(DirClose(u))
      <4>. DEFINE v == DirClose(u)
      <4>. HIDE DEF v
      <4>1. RootClosed(u, c, cnt, dn, P, v)
        BY <3>1, <1>2, RootCloses DEF v, cnt2
      <4>2. Good(v, c, cnt, dn, P) /\ v.lost = {} /\ v.files = s.files /\ P \cup {} = P
        BY <4>1, <3>1, LikeMeans DEF RootClosed
      <4>. QED  BY <4>2 DEF v
    <3>. QED  BY <3>1
  <2>4. ASSUME ~a.ok PROVE G(t)
    BY <2>2, <2>3, <2>4, <1>1, <1>7
  <2>5. ASSUME a.ok PROVE G(t)
    <3>. DEFINE P1 == P \cup Run(x, 1)
    <3>1. Run(x, 1) = {x} /\ x \in P1 /\ x \notin P
      <4>1. Run(x, 1) = {x}
        BY <2>2, <2>5, Consts DEF Run, Sectors
      <4>. QED  BY <4>1, <2>2, <2>5
    <3>. HIDE DEF P1
    <3>2. Created(a, c, cnt2, dn, P1, x, size, i)
      BY <2>2, <2>5, <3>1, InodeCreates DEF i, P1
    <3>3. /\ i.ok \in BOOLEAN /\ i.fail \in Nat /\ i.files = s.files /\ i.lost = {}
          /\ ~i.ok => Good(i, c, cnt2, dn, P1)
      BY <3>2, <2>2, LikeMeans DEF Created
    <3>4. i.ok => /\ Good(i, c, cnt2, dn, P1 \cup R) /\ R \cap P1 = {}
                  /\ FileAt(i.disk, x) /\ Owned(i.disk, x) = {x} \cup R /\ Data(i.disk, x) = R
                  /\ Owned(i.disk, x) \subseteq Marked(i.disk) /\ Blank(i.disk, x)
                  /\ i.fail = 0 \/ i.fail + 1 + Cost <= a.fail
      BY <3>2 DEF Created, Blank
    <3>. HIDE DEF R
    <3>5. ASSUME ~i.ok PROVE G(t)
      <4>1. t = noData /\ Run(x, 1) \subseteq P1 /\ P1 \ Run(x, 1) = P
        BY <2>5, <3>1, <3>5, <1>1, <1>7 DEF P1
      <4>2. noData = CreateFailed(i, x, {})
        BY DEF noData
      <4>3. Good(t, c, cnt, dn, P1 \ Run(x, 1)) /\ t.lost = {} /\ t.files = i.files
        <5>1. Good(i, c, cnt2, dn, P1) /\ RootUp(cnt, cnt2) /\ x \in Nat
          BY <2>2, <2>5, <3>3, <3>5 DEF cnt2, RootUp
        <5>. DEFINE none == {}
        <5>2. t = CreateFailed(i, x, none)
          BY <4>1, <4>2
        <5>. HIDE DEF none
        <5>3. Good(t, c, cnt, dn, P1 \ Run(x, 1)) /\ t.lost = none /\ t.files = i.files
          BY <4>1, <5>1, <5>2, <1>2, CreateFails
        <5>. QED  BY <5>3 DEF none
      <4>. QED  BY <4>1, <4>3, <3>3
    <3>6. ASSUME i.ok PROVE G(t)
      <4>1. i.fail = 0
        <5>1. Cost \in Nat /\ Budget = 3 + Cost + Cost
          BY DEF Cost, Budget, Divides
        <5>. QED  BY <5>1, <3>3, <3>4, <3>6, <2>2, <2>5, <1>2, <1>5, <1>7
      <4>2. DirAdded(i, c, cnt2, dn, P1 \cup R, x, r)
        <5>1. Owned(i.disk, x) \subseteq P1 \cup R
          BY <3>1, <3>4, <3>6
        <5>. QED  BY <4>1, <5>1, <3>4, <3>6, <1>3, DirAdds DEF r
      <4>3. /\ r.ok \in BOOLEAN /\ r.files = s.files /\ r.lost = {}
            /\ ~r.ok => Good(r, c, cnt2, dn, P1 \cup R)
            /\ r.ok => Good(r, c, cnt2, dn, (P1 \cup R) \ Owned(i.disk, x))
        BY <4>2, <3>3, LikeMeans DEF DirAdded
      <4>4. (P1 \cup R) \ Owned(i.disk, x) = P /\ (P1 \cup R) \ Run(x, 1) = P \cup R /\ Run(x, 1) \subseteq P1 \cup R
        BY <3>1, <3>4, <3>6 DEF P1
      <4>5. ASSUME r.ok PROVE G(t)
        <5>1. t = DirClose(r)
          BY <2>5, <3>6, <4>5, <1>1, <1>7
        <5>. QED  BY <5>1, <4>3, <4>4, <4>5, <2>3
      <4>6. ASSUME ~r.ok PROVE G(t)
        <5>1. t = noEntry
          BY <2>5, <3>6, <4>6, <1>1, <1>7
        <5>2. noEntry = CreateFailed(r, x, R)
          BY DEF noEntry
        <5>3. Good(r, c, cnt2, dn, P1 \cup R) /\ RootUp(cnt, cnt2) /\ x \in Nat
          BY <2>2, <2>5, <4>3, <4>6 DEF cnt2, RootUp
        <5>4. Good(t, c, cnt, dn, (P1 \cup R) \ Run(x, 1)) /\ t.lost = R /\ t.files = r.files
          BY <4>4, <5>1, <5>2, <5>3, <1>2, CreateFails
        <5>. QED  BY <5>4, <4>3, <4>4
      <4>. QED  BY <4>3, <4>5, <4>6
    <3>. QED  BY <3>3, <3>5, <3>6
  <2>. QED  BY <2>2, <2>4, <2>5
<1>. QED  BY <1>5, <1>6, <1>7 DEF t

\* The open files of the handles: none is the map's or the root's.
FileTable == [Handles -> {NONE} \cup {r \in File : r.sector \notin Special}]

\* The handles whose file has its inode at x.
On(f, x) == {h \in Handles : f[h] # NONE /\ f[h].sector = x}

\* Those of them that deny writes.
Denying(f, x) == {h \in On(f, x) : f[h].deny_write}

\* The number of openers of each inode: the handles, and for the map the kernel.
Openers(f) == [x \in Sectors |-> Cardinality(On(f, x)) + (IF x = FREE_MAP_SECTOR THEN 1 ELSE 0)]

\* The number of deniers of each inode.
Deniers(f) == [x \in Sectors |-> Cardinality(Denying(f, x))]

\* What is known of an open file.
LEMMA FilesAre ==
  ASSUME NEW f \in FileTable, NEW h \in Handles, f[h] # NONE
  PROVE  /\ f[h] \in File /\ f[h].sector \in Sectors \ Special /\ f[h].pos \in Nat /\ f[h].deny_write \in BOOLEAN
BY DEF FileTable, File

\* The numbers are finite, and there are no more deniers than openers.
LEMMA CountsAre ==
  ASSUME NEW f, NEW x \in Sectors
  PROVE  /\ IsFiniteSet(On(f, x)) /\ IsFiniteSet(Denying(f, x)) /\ Deniers(f)[x] <= Cardinality(On(f, x))
         /\ Openers(f) \in [Sectors -> Nat] /\ Deniers(f) \in [Sectors -> Nat]
         /\ Openers(f)[x] = Cardinality(On(f, x)) + (IF x = FREE_MAP_SECTOR THEN 1 ELSE 0)
         /\ Deniers(f)[x] = Cardinality(Denying(f, x))
<1>1. \A y : IsFiniteSet(On(f, y)) /\ IsFiniteSet(Denying(f, y)) /\ Cardinality(On(f, y)) \in Nat /\ Cardinality(Denying(f, y)) \in Nat
  <2>1. ASSUME NEW y PROVE IsFiniteSet(On(f, y)) /\ IsFiniteSet(Denying(f, y))
    <3>1. On(f, y) \subseteq Handles /\ Denying(f, y) \subseteq Handles /\ IsFiniteSet(Handles)
      BY FileSysAssumption DEF On, Denying
    <3>. QED  BY <3>1, FS_Subset
  <2>2. \A y : Cardinality(On(f, y)) \in Nat /\ Cardinality(Denying(f, y)) \in Nat
    BY <2>1, FS_CardinalityType
  <2>. QED  BY <2>1, <2>2
<1>2. Denying(f, x) \subseteq On(f, x)
  BY DEF Denying
<1>3. Cardinality(Denying(f, x)) <= Cardinality(On(f, x))
  BY <1>1, <1>2, FS_Subset
<1>4. Openers(f) \in [Sectors -> Nat] /\ Deniers(f) \in [Sectors -> Nat]
  BY <1>1 DEF Openers, Deniers
<1>. QED  BY <1>1, <1>3, <1>4 DEF Openers, Deniers

\* What a change of handle h does to the sets of handles on each inode.
Joins(f, g, x, h) == On(g, x) = On(f, x) \cup {h} /\ h \notin On(f, x) /\ \A y \in Sectors \ {x} : On(g, y) = On(f, y)

\* Handle h denies writes to x in g and does not in f.
Denies(f, g, x, h) ==
    Denying(g, x) = Denying(f, x) \cup {h} /\ h \notin Denying(f, x) /\ \A y \in Sectors \ {x} : Denying(g, y) = Denying(f, y)

\* One handle more or less changes the numbers by one.
LEMMA Counted ==
  ASSUME NEW f, NEW g, NEW x \in Sectors, NEW h
  PROVE  /\ Joins(f, g, x, h) => /\ Openers(g) = [Openers(f) EXCEPT ![x] = @ + 1]
                                 /\ Openers(f) = [Openers(g) EXCEPT ![x] = @ - 1]
         /\ Denies(f, g, x, h) => /\ Deniers(g) = [Deniers(f) EXCEPT ![x] = @ + 1]
                                  /\ Deniers(f) = [Deniers(g) EXCEPT ![x] = @ - 1]
         /\ (\A y \in Sectors : On(g, y) = On(f, y)) => Openers(g) = Openers(f)
         /\ (\A y \in Sectors : Denying(g, y) = Denying(f, y)) => Deniers(g) = Deniers(f)
<1>1. \A y \in Sectors : IsFiniteSet(On(f, y)) /\ IsFiniteSet(Denying(f, y))
  BY CountsAre
<1>2. Openers(f) \in [Sectors -> Nat] /\ Deniers(f) \in [Sectors -> Nat] /\ Openers(g) \in [Sectors -> Nat] /\ Deniers(g) \in [Sectors -> Nat]
  BY CountsAre
<1>3. /\ \A y \in Sectors : /\ Openers(f)[y] = Cardinality(On(f, y)) + (IF y = FREE_MAP_SECTOR THEN 1 ELSE 0)
                            /\ Openers(g)[y] = Cardinality(On(g, y)) + (IF y = FREE_MAP_SECTOR THEN 1 ELSE 0)
                            /\ Deniers(f)[y] = Cardinality(Denying(f, y)) /\ Deniers(g)[y] = Cardinality(Denying(g, y))
                            /\ Cardinality(On(f, y)) \in Nat /\ Cardinality(Denying(f, y)) \in Nat
  <2>1. \A y \in Sectors : Cardinality(On(f, y)) \in Nat /\ Cardinality(Denying(f, y)) \in Nat
    BY <1>1, FS_CardinalityType
  <2>. QED  BY <2>1, CountsAre
<1>4. ASSUME Joins(f, g, x, h) PROVE Openers(g) = [Openers(f) EXCEPT ![x] = @ + 1]
  <2>1. Cardinality(On(g, x)) = Cardinality(On(f, x)) + 1
    BY <1>1, <1>4, FS_AddElement DEF Joins
  <2>2. \A y \in Sectors \ {x} : On(g, y) = On(f, y)
    BY <1>4 DEF Joins
  <2>3. \A y \in Sectors : Openers(g)[y] = IF y = x THEN Openers(f)[x] + 1 ELSE Openers(f)[y]
    BY <2>1, <2>2, <1>3
  <2>. QED  BY <2>3, <1>2
<1>5. ASSUME Denies(f, g, x, h) PROVE Deniers(g) = [Deniers(f) EXCEPT ![x] = @ + 1]
  <2>1. Cardinality(Denying(g, x)) = Cardinality(Denying(f, x)) + 1
    BY <1>1, <1>5, FS_AddElement DEF Denies
  <2>2. \A y \in Sectors \ {x} : Denying(g, y) = Denying(f, y)
    BY <1>5 DEF Denies
  <2>3. \A y \in Sectors : Deniers(g)[y] = IF y = x THEN Deniers(f)[x] + 1 ELSE Deniers(f)[y]
    BY <2>1, <2>2, <1>3
  <2>. QED  BY <2>3, <1>2
<1>6. (\A y \in Sectors : On(g, y) = On(f, y)) => Openers(g) = Openers(f)
  BY DEF Openers
<1>7. (\A y \in Sectors : Denying(g, y) = Denying(f, y)) => Deniers(g) = Deniers(f)
  BY DEF Deniers
<1>. QED  BY <1>2, <1>4, <1>5, <1>6, <1>7, UpDown

\* Handle h gets the file r.
Given(f, h, r) == [f EXCEPT ![h] = r]

\* A handle gets a new file.
LEMMA HandleOpens ==
  ASSUME NEW f \in FileTable, NEW h \in Handles, f[h] = NONE, NEW r \in File, r.sector \notin Special, ~r.deny_write,
         NEW g, g = Given(f, h, r)
  PROVE  /\ g \in FileTable /\ Joins(f, g, r.sector, h) /\ \A y \in Sectors : Denying(g, y) = Denying(f, y)
<1>1. r # NONE /\ r.sector \in Sectors
  BY FileAssumption DEF File
<1>2. g \in FileTable /\ g[h] = r /\ \A k \in Handles \ {h} : g[k] = f[k]
  BY DEF FileTable, Given
<1>3. \A y : On(g, y) = IF y = r.sector THEN On(f, y) \cup {h} ELSE On(f, y)
  BY <1>1, <1>2 DEF On
<1>4. \A y : h \notin On(f, y)
  BY DEF On
<1>5. \A y \in Sectors : Denying(g, y) = Denying(f, y)
  BY <1>2, <1>3, <1>4 DEF Denying, On
<1>. QED  BY <1>2, <1>3, <1>4, <1>5 DEF Joins

\* A handle's file changes and keeps its inode.
LEMMA HandleEdits ==
  ASSUME NEW f \in FileTable, NEW h \in Handles, f[h] # NONE, NEW r \in File, r.sector = f[h].sector,
         NEW g, g = Given(f, h, r)
  PROVE  /\ g \in FileTable /\ \A y \in Sectors : On(g, y) = On(f, y)
         /\ (r.deny_write <=> f[h].deny_write) => \A y \in Sectors : Denying(g, y) = Denying(f, y)
         /\ r.deny_write /\ ~f[h].deny_write => Denies(f, g, r.sector, h)
         /\ ~r.deny_write /\ f[h].deny_write => Denies(g, f, r.sector, h)
<1>1. r # NONE /\ r.sector \in Sectors \ Special
  BY FileAssumption, FilesAre
<1>2. g \in FileTable /\ g[h] = r /\ \A k \in Handles \ {h} : g[k] = f[k]
  BY <1>1 DEF FileTable, Given
<1>3. \A y : On(g, y) = On(f, y)
  BY <1>1, <1>2 DEF On
<1>4. \A y, k : k # h => (k \in Denying(g, y) <=> k \in Denying(f, y))
  BY <1>2, <1>3 DEF Denying, On
<1>5. \A y : /\ h \in Denying(g, y) <=> y = r.sector /\ r.deny_write
             /\ h \in Denying(f, y) <=> y = r.sector /\ f[h].deny_write
  BY <1>1, <1>2 DEF Denying, On
<1>6. (r.deny_write <=> f[h].deny_write) => \A y \in Sectors : Denying(g, y) = Denying(f, y)
  <2>1. (r.deny_write <=> f[h].deny_write) => \A y : h \in Denying(g, y) <=> h \in Denying(f, y)
    BY <1>5
  <2>2. ASSUME r.deny_write <=> f[h].deny_write, NEW y \in Sectors PROVE Denying(g, y) = Denying(f, y)
    <3>1. \A k : k \in Denying(g, y) <=> k \in Denying(f, y)
      BY <2>1, <2>2, <1>4
    <3>. QED  BY <3>1
  <2>. QED  BY <2>2
<1>7. r.deny_write /\ ~f[h].deny_write => Denies(f, g, r.sector, h)
  <2>1. r.deny_write /\ ~f[h].deny_write => \A y : h \notin Denying(f, y) /\ (h \in Denying(g, y) <=> y = r.sector)
    BY <1>5
  <2>2. \A y : (\A k : k \in Denying(g, y) <=> k \in Denying(f, y)) => Denying(g, y) = Denying(f, y)
    OBVIOUS
  <2>3. \A y : (\A k : k \in Denying(g, y) <=> k \in Denying(f, y) \cup {h}) => Denying(g, y) = Denying(f, y) \cup {h}
    OBVIOUS
  <2>. QED  BY <2>1, <2>2, <2>3, <1>1, <1>4 DEF Denies
<1>8. ~r.deny_write /\ f[h].deny_write => Denies(g, f, r.sector, h)
  <2>1. ~r.deny_write /\ f[h].deny_write => \A y : h \notin Denying(g, y) /\ (h \in Denying(f, y) <=> y = r.sector)
    BY <1>5
  <2>2. \A y : (\A k : k \in Denying(f, y) <=> k \in Denying(g, y)) => Denying(f, y) = Denying(g, y)
    OBVIOUS
  <2>3. \A y : (\A k : k \in Denying(f, y) <=> k \in Denying(g, y) \cup {h}) => Denying(f, y) = Denying(g, y) \cup {h}
    OBVIOUS
  <2>. QED  BY <2>1, <2>2, <2>3, <1>1, <1>4 DEF Denies
<1>. QED  BY <1>2, <1>3, <1>6, <1>7, <1>8

\* The inodes that handles have open.
OpenedBy(f) == {x \in Sectors : On(f, x) # {}}

\* Those that no handle denies writes to.
WritableBy(f) == {x \in OpenedBy(f) : Denying(f, x) = {}}

\* The inodes with an opener, in terms of the numbers.
LEMMA OpenedIs ==
  ASSUME NEW f \in FileTable
  PROVE  /\ OpenedBy(f) \subseteq Sectors \ Special /\ WritableBy(f) \subseteq OpenedBy(f)
         /\ \A x \in Sectors \ Special : x \in OpenedBy(f) <=> Openers(f)[x] > 0
         /\ \A x \in OpenedBy(f) : x \in WritableBy(f) <=> Deniers(f)[x] = 0
         /\ Openers(f)[ROOT_DIR_SECTOR] = 0
<1>1. \A x : x \in Special => On(f, x) = {}
  BY FilesAre DEF On
<1>2. \A x \in Sectors : (Cardinality(On(f, x)) = 0 <=> On(f, x) = {}) /\ (Cardinality(Denying(f, x)) = 0 <=> Denying(f, x) = {})
  BY CountsAre, FS_EmptySet
<1>3. \A x \in Sectors : Cardinality(On(f, x)) \in Nat
  BY CountsAre, FS_CardinalityType
<1>4. OpenedBy(f) \subseteq Sectors \ Special /\ WritableBy(f) \subseteq OpenedBy(f)
  BY <1>1 DEF OpenedBy, WritableBy
<1>5. \A x \in Sectors \ Special : Openers(f)[x] = Cardinality(On(f, x))
  BY <1>3, CountsAre DEF Special
<1>6. \A x \in Sectors \ Special : x \in OpenedBy(f) <=> Openers(f)[x] > 0
  BY <1>2, <1>3, <1>5 DEF OpenedBy
<1>7. \A x \in OpenedBy(f) : x \in WritableBy(f) <=> Deniers(f)[x] = 0
  BY <1>2, CountsAre DEF OpenedBy, WritableBy
<1>8. Openers(f)[ROOT_DIR_SECTOR] = 0
  <2>1. ROOT_DIR_SECTOR \in Sectors /\ ROOT_DIR_SECTOR # FREE_MAP_SECTOR /\ ROOT_DIR_SECTOR \in Special
    BY BaseIs DEF ROOT_DIR_SECTOR, FREE_MAP_SECTOR, Special
  <2>2. Cardinality(On(f, ROOT_DIR_SECTOR)) = 0
    BY <2>1, <1>1, <1>2
  <2>3. Openers(f)[ROOT_DIR_SECTOR] = Cardinality(On(f, ROOT_DIR_SECTOR)) + (IF ROOT_DIR_SECTOR = FREE_MAP_SECTOR THEN 1 ELSE 0)
    BY <2>1, CountsAre
  <2>. QED  BY <2>1, <2>2, <2>3
<1>. QED  BY <1>4, <1>6, <1>7, <1>8

\* The state between two parts of a call on a handle: the numbers are those of the handles.
Whole(s, c, P) == s.files \in FileTable /\ Good(s, c, Openers(s.files), Deniers(s.files), P)

\* A step that neither writes nor loses a sector.
Quiet(s, t) == t.disk = s.disk /\ t.log = s.log /\ t.lost = s.lost

\* Between two calls the log is empty, and the trail can start again for other files.
LEMMA Reframed ==
  ASSUME NEW s, NEW c, NEW cnt, NEW dn, NEW P, Good(s, c, cnt, dn, P), s.log = <<>>,
         NEW c2, c2.from = s.disk, c2.open \cup c2.write \subseteq DOMAIN s.inodes \ Special
  PROVE  Good(s, c2, cnt, dn, P)
<1>1. DiskOK(s.disk)
  BY GoodMeans
<1>2. Trail(c2.from, s.log, s.disk, c2.open, c2.write)
  BY <1>1, TrailStarts
<1>. QED  BY <1>2 DEF Good

\* The state after the files of the handles changed.
FilesSet(s, c, cnt, dn, P, g, t) == Good(t, c, cnt, dn, P) /\ Like(s, t, {"files"}) /\ t.files = g

\* A step that changes only the files of the handles.
LEMMA FilesChange ==
  ASSUME NEW s, NEW c, NEW cnt, NEW dn, NEW P, Good(s, c, cnt, dn, P), NEW g, NEW t, t = [s EXCEPT !.files = g]
  PROVE  FilesSet(s, c, cnt, dn, P, g, t)
<1>1. Rec(s) /\ s.fail \in Nat
  BY GoodMeans
<1>2. Like(s, t, {"files"}) /\ t.files = g
  BY <1>1 DEF Like, Rec, Fields
<1>3. Like(s, t, Scratch) /\ t.fail = s.fail
  BY <1>2, LikeWider, LikeMeans DEF Scratch
<1>4. Good(t, c, cnt, dn, P)
  BY <1>1, <1>3, GoodLike
<1>. QED  BY <1>2, <1>4 DEF FilesSet

\* The file that file_open() makes.
Fresh(x) == [sector |-> x, pos |-> 0, deny_write |-> FALSE]

\* What is known of it.
LEMMA FreshFile ==
  ASSUME NEW x \in Sectors
  PROVE  Fresh(x) \in File /\ Fresh(x).sector = x /\ Fresh(x).pos = 0 /\ ~Fresh(x).deny_write
BY DEF Fresh, File

\* The inode at x has one opener more than it has handles.
OneMore(cnt, f, x) == cnt = [Openers(f) EXCEPT ![x] = @ + 1]

\* The new file becomes that of handle h.
Started(s, h, x) == [s EXCEPT !.files[h] = Fresh(x)]

\* An object that was opened becomes the file of a handle.
LEMMA FileStarts ==
  ASSUME NEW s, NEW c, NEW P, NEW f \in FileTable, s.files = f, NEW h \in Handles, f[h] = NONE,
         NEW x \in Sectors \ Special, NEW cnt, OneMore(cnt, f, x),
         NEW dn, dn = Deniers(f), Good(s, c, cnt, dn, P),
         NEW t, t = Started(s, h, x)
  PROVE  Whole(t, c, P) /\ Like(s, t, {"files"}) /\ t.files = Given(f, h, Fresh(x))
<1>. DEFINE r == Fresh(x)
            g == Given(f, h, r)
<1>1. r \in File /\ r.sector = x /\ ~r.deny_write
  BY FreshFile
<1>2. t = [s EXCEPT !.files = g]
  <2>1. Rec(s)
    BY GoodMeans
  <2>. QED  BY <2>1 DEF Rec, Fields, Given, Started
<1>. HIDE DEF r
<1>3. g \in FileTable /\ Joins(f, g, r.sector, h) /\ \A y \in Sectors : Denying(g, y) = Denying(f, y)
  BY <1>1, HandleOpens
<1>. HIDE DEF g
<1>4. Openers(g) = [Openers(f) EXCEPT ![x] = @ + 1] /\ Deniers(g) = Deniers(f)
  <2>1. Joins(f, g, x, h)
    BY <1>1, <1>3
  <2>2. Openers(g) = [Openers(f) EXCEPT ![x] = @ + 1]
    BY <2>1, Counted
  <2>3. Deniers(g) = Deniers(f)
    BY <1>3 DEF Deniers
  <2>. QED  BY <2>2, <2>3
<1>5. FilesSet(s, c, cnt, dn, P, g, t)
  BY <1>2, FilesChange
<1>. QED  BY <1>3, <1>4, <1>5 DEF FilesSet, Whole, g, r, OneMore

\* The file of handle h is as before, or one whose inode is in S.
Gets(f, g, h, S) == g = f \/ \E r \in File : r.sector \in S /\ g = Given(f, h, r)

\* The two cases.
LEMMA GetsNone ==
  ASSUME NEW f, NEW g, NEW h, NEW S, g = f
  PROVE  Gets(f, g, h, S)
BY DEF Gets

\* A handle that is given a file of one of the sectors.
LEMMA GetsOne ==
  ASSUME NEW f, NEW h, NEW S, NEW r \in File, r.sector \in S, NEW g, g = Given(f, h, r)
  PROVE  Gets(f, g, h, S)
BY DEF Gets

\* A file that changes twice.
LEMMA GetsAgain ==
  ASSUME NEW f \in FileTable, NEW g, NEW k, NEW h \in Handles, NEW S, Gets(f, g, h, S), Gets(g, k, h, S)
  PROVE  Gets(f, k, h, S)
<1>1. CASE g = f
  BY <1>1
<1>2. CASE k = g
  BY <1>2
<1>3. ASSUME NEW r \in File, r.sector \in S, g = Given(f, h, r), NEW e \in File, e.sector \in S, k = Given(g, h, e)
      PROVE  Gets(f, k, h, S)
  <2>1. k = Given(f, h, e)
    BY <1>3 DEF Given, FileTable
  <2>. QED  BY <1>3, <2>1, GetsOne
<1>. QED  BY <1>1, <1>2, <1>3 DEF Gets

\* Two inodes get one opener more in either order.
LEMMA UpUp ==
  ASSUME NEW cnt \in [Sectors -> Nat], NEW x \in Sectors, NEW y \in Sectors
  PROVE  [[cnt EXCEPT ![x] = @ + 1] EXCEPT ![y] = @ + 1] = [[cnt EXCEPT ![y] = @ + 1] EXCEPT ![x] = @ + 1]
OBVIOUS

\* A step that leaves the files of the handles alone.
LEMMA WholeLike ==
  ASSUME NEW s, NEW c, NEW P, Whole(s, c, P),
         NEW t, Like(s, t, {"inodes", "ok", "fail"}), Good(t, c, Openers(s.files), Deniers(s.files), P)
  PROVE  Whole(t, c, P) /\ Quiet(s, t) /\ t.files = s.files
<1>1. t.files = s.files /\ t.disk = s.disk /\ t.log = s.log /\ t.lost = s.lost
  BY LikeMeans
<1>. QED  BY <1>1 DEF Whole, Quiet

\* file_open() of no inode.
LEMMA OpenFails ==
  ASSUME NEW s, NEW c, NEW P, Whole(s, c, P),
         NEW u, Like(s, u, {"inodes", "ok", "fail"}), Good(u, c, Openers(s.files), Deniers(s.files), P),
         u.ok \in BOOLEAN, ~u.ok, NEW x \in Sectors, NEW t, t = OpenObject(u, x)
  PROVE  ~t.ok /\ Whole(t, c, P) /\ Quiet(s, t) /\ t.files = s.files
<1>. DEFINE cnt == Openers(s.files)
            dn == Deniers(s.files)
<1>. HIDE DEF cnt, dn
<1>1. ObjectOpened(u, c, cnt, dn, P, x, t)
  BY OpenObjects DEF cnt, dn
<1>2. ~t.ok /\ Good(t, c, cnt, dn, P) /\ Like(u, t, {"inodes", "ok", "fail"})
  BY <1>1 DEF ObjectOpened
<1>3. Like(s, t, {"inodes", "ok", "fail"})
  BY <1>2, LikeChains
<1>. QED  BY <1>2, <1>3, WholeLike DEF cnt, dn

\* filesys_open() opens the file, or leaves everything as it was.
LEMMA FileOpens ==
  ASSUME NEW s, NEW c, NEW P, Whole(s, c, P), NEW h \in Handles, s.files[h] = NONE, NEW n \in Names
  PROVE  LET t == FilesysOpen(s, n, h) IN
         Whole(t, c, P) /\ Quiet(s, t) /\ Gets(s.files, t.files, h, Named(s.disk))
<1>. DEFINE no == FALSE
            f == s.files
            cnt == Openers(f)
            dn == Deniers(f)
            d == DirOpenRoot(s)
            seen == Lookup(d, n)
            u == seen.s
            x == seen.entry[1]
            i == InodeOpen(u, x)
            y == DirClose(i)
            z == [y EXCEPT !.ok = i.ok]
            o == OpenObject(z, x)
            v == [u EXCEPT !.ok = no]
            vy == DirClose(v)
            vz == [vy EXCEPT !.ok = v.ok]
            q == OpenObject(vz, ROOT_DIR_SECTOR)
            t == FilesysOpen(s, n, h)
            cnt1 == [cnt EXCEPT ![ROOT_DIR_SECTOR] = @ + 1]
            cnt2 == [cnt EXCEPT ![x] = @ + 1]
            H == {"inodes", "ok", "fail"}
            Goal(w) == Whole(w, c, P) /\ Quiet(s, w) /\ Gets(f, w.files, h, Named(s.disk))
<1>1. t = IF ~d.ok THEN OpenObject(d, ROOT_DIR_SECTOR)
          ELSE IF seen.found THEN IF o.ok THEN Started(o, h, x) ELSE o
          ELSE IF q.ok THEN Started(q, h, ROOT_DIR_SECTOR) ELSE q
  BY DEF FilesysOpen, With, Fresh, Started
<1>2. /\ Rec(s) /\ s.fail \in Nat /\ ROOT_DIR_SECTOR \in Sectors /\ ~no /\ no \in BOOLEAN /\ f \in FileTable
      /\ Good(s, c, cnt, dn, P) /\ cnt[ROOT_DIR_SECTOR] = 0 /\ cnt \in [Sectors -> Nat]
      /\ dn \in [Sectors -> Nat] /\ \A k \in Sectors : dn[k] <= cnt[k]
  BY GoodMeans, BaseIs, OpenedIs DEF Good, Opens, ROOT_DIR_SECTOR, Whole
<1>3. cnt1[ROOT_DIR_SECTOR] > 0
  BY <1>2
<1>. HIDE DEF no, f, cnt, dn, d, seen, i, o, v, q, t, cnt1, cnt2, y, z, vy, vz
<1>4. RootOpened(s, c, cnt, dn, P, d)
  BY <1>2, DirOpensRoot DEF d
<1>5. /\ d.ok \in BOOLEAN /\ d.fail \in Nat /\ Like(s, d, H)
      /\ d.ok => Good(d, c, cnt1, dn, P)
      /\ ~d.ok => Good(d, c, cnt, dn, P)
  BY <1>4 DEF RootOpened, cnt1
<1>6. ASSUME ~d.ok PROVE Goal(t)
  <2>1. t = OpenObject(d, ROOT_DIR_SECTOR)
    BY <1>1, <1>6
  <2>2. Whole(t, c, P) /\ Quiet(s, t) /\ t.files = f
    BY <2>1, <1>2, <1>5, <1>6, OpenFails DEF cnt, dn, f
  <2>. QED  BY <2>2, GetsNone
<1>7. ASSUME d.ok PROVE Goal(t)
  <2>1. Scanned(d, n, seen)
    <3>1. Rec(d)
      BY <1>5 DEF Like
    <3>2. d.inodes[ROOT_DIR_SECTOR].start = RootStart /\ d.inodes[ROOT_DIR_SECTOR].length = ENTRY_CNT
      BY <1>3, <1>5, <1>7, RootInode
    <3>. QED  BY <3>1, <3>2, <1>5, EntriesScanned DEF seen, Lookup
  <2>2. /\ Like(d, u, {"ok", "fail"}) /\ u.fail \in Nat /\ seen.found \in BOOLEAN
        /\ seen.found => seen.ofs \in Slots /\ seen.entry = Slot(d.disk, seen.ofs) /\ Wanted(seen.entry, n)
    BY <2>1 DEF Scanned
  <2>. HIDE DEF u
  <2>3. Good(u, c, cnt1, dn, P) /\ u.disk = d.disk /\ Rec(u) /\ Like(s, u, H)
    <3>1. Like(d, u, Scratch) /\ u.disk = d.disk
      BY <2>2, LikeWider, LikeMeans DEF Scratch
    <3>2. Like(s, u, H)
      BY <2>2, <1>5, LikeChains
    <3>. QED  BY <3>1, <3>2, <2>2, <1>5, <1>7, GoodLike DEF Like
  <2>4. ASSUME ~seen.found PROVE Goal(t)
    <3>1. Like(u, v, {"ok"}) /\ v.ok = no
      BY <2>3 DEF v, Like, Rec, Fields
    <3>2. Like(u, v, Scratch) /\ v.fail = u.fail /\ Like(s, v, H)
      BY <3>1, <2>3, LikeWider, LikeMeans, LikeChains DEF Scratch
    <3>3. Good(v, c, cnt1, dn, P)
      BY <3>2, <2>2, <2>3, GoodLike
    <3>4. RootClosed(v, c, cnt, dn, P, vy)
      BY <3>3, <1>2, RootCloses DEF vy, cnt1
    <3>5. Good(vy, c, cnt, dn, P) /\ Like(s, vy, H) /\ vy.fail \in Nat /\ Rec(vy)
      BY <3>4, <3>2, LikeChains DEF RootClosed, Like
    <3>6. Like(vy, vz, {"ok"}) /\ vz.ok = no
      BY <3>1, <3>5 DEF vz, Like, Rec, Fields
    <3>7. Like(vy, vz, Scratch) /\ vz.fail = vy.fail /\ Like(s, vz, H)
      BY <3>6, <3>5, LikeWider, LikeMeans, LikeChains DEF Scratch
    <3>8. Good(vz, c, cnt, dn, P)
      BY <3>7, <3>5, GoodLike
    <3>9. ~q.ok /\ Goal(q)
      <4>1. vz.ok \in BOOLEAN /\ ~vz.ok
        BY <3>6, <1>2
      <4>2. ~q.ok /\ Whole(q, c, P) /\ Quiet(s, q) /\ q.files = f
        BY <4>1, <3>7, <3>8, <1>2, OpenFails DEF cnt, dn, f, q
      <4>. QED  BY <4>2, GetsNone
    <3>. QED  BY <3>9, <2>4, <1>1, <1>7
  <2>5. ASSUME seen.found PROVE Goal(t)
    <3>1. x \in Named(u.disk)
      <4>1. n # NONE
        BY FileSysAssumption
      <4>2. InUse(seen.entry)
        BY <4>1, <2>2, <2>5 DEF Wanted
      <4>. QED  BY <4>2, <2>2, <2>3, <2>5 DEF Used, Named
    <3>2. x \in Sectors \ Special /\ x # FREE_MAP_SECTOR /\ x # ROOT_DIR_SECTOR
      <4>1. x \in Sectors \ Base
        BY <3>1, <2>3, GoodMeans
      <4>. QED  BY <4>1 DEF Base, Special
    <3>. HIDE DEF x
    <3>3. NodesOpened(u, c, cnt1, dn, P, x, i)
      BY <3>1, <3>2, <2>3, InodeOpens DEF i
    <3>4. /\ i.ok \in BOOLEAN /\ i.fail \in Nat /\ Like(s, i, H) /\ i.disk = u.disk
          /\ ~i.ok => Good(i, c, cnt1, dn, P)
          /\ i.ok => Good(i, c, [cnt1 EXCEPT ![x] = @ + 1], dn, P)
      BY <3>3, <2>3, LikeChains, LikeMeans DEF NodesOpened
    <3>5. /\ [cnt1 EXCEPT ![x] = @ + 1] = [cnt2 EXCEPT ![ROOT_DIR_SECTOR] = @ + 1]
          /\ cnt2 \in [Sectors -> Nat] /\ cnt2[x] = cnt[x] + 1 /\ [cnt2 EXCEPT ![x] = @ - 1] = cnt
      BY <3>2, <1>2, UpUp, UpDown DEF cnt1, cnt2
    <3>6. ASSUME ~i.ok PROVE Goal(t)
      <4>1. RootClosed(i, c, cnt, dn, P, y)
        BY <3>4, <3>6, <1>2, RootCloses DEF y, cnt1
      <4>2. Good(y, c, cnt, dn, P) /\ Like(s, y, H) /\ y.fail \in Nat /\ Rec(y)
        BY <4>1, <3>4, LikeChains DEF RootClosed, Like
      <4>3. Like(y, z, {"ok"}) /\ z.ok = i.ok
        BY <4>2 DEF z, Like, Rec, Fields
      <4>4. Like(y, z, Scratch) /\ z.fail = y.fail /\ Like(s, z, H)
        BY <4>3, <4>2, LikeWider, LikeMeans, LikeChains DEF Scratch
      <4>5. Good(z, c, cnt, dn, P)
        BY <4>4, <4>2, GoodLike
      <4>6. ~o.ok /\ Goal(o)
        <5>1. z.ok \in BOOLEAN /\ ~z.ok
          BY <4>3, <3>4, <3>6
        <5>2. ~o.ok /\ Whole(o, c, P) /\ Quiet(s, o) /\ o.files = f
          BY <5>1, <4>4, <4>5, <3>2, OpenFails DEF cnt, dn, f, o
        <5>. QED  BY <5>2, GetsNone
      <4>. QED  BY <4>6, <2>5, <1>1, <1>7
    <3>7. ASSUME i.ok PROVE Goal(t)
      <4>1. RootClosed(i, c, cnt2, dn, P, y)
        <5>1. Good(i, c, [cnt2 EXCEPT ![ROOT_DIR_SECTOR] = @ + 1], dn, P)
          BY <3>4, <3>5, <3>7
        <5>. QED  BY <5>1, <3>5, RootCloses DEF y
      <4>2. Good(y, c, cnt2, dn, P) /\ Like(s, y, H) /\ y.fail \in Nat /\ Rec(y) /\ y.disk = i.disk
        BY <4>1, <3>4, LikeChains, LikeMeans DEF RootClosed
      <4>3. Like(y, z, {"ok"}) /\ z.ok = i.ok
        BY <4>2 DEF z, Like, Rec, Fields
      <4>4. Like(y, z, Scratch) /\ z.fail = y.fail /\ Like(s, z, H) /\ z.disk = y.disk
        BY <4>3, <4>2, LikeWider, LikeMeans, LikeChains DEF Scratch
      <4>5. Good(z, c, cnt2, dn, P)
        BY <4>4, <4>2, GoodLike
      <4>6. ObjectOpened(z, c, cnt2, dn, P, x, o)
        <5>1. dn[x] < cnt2[x]
          BY <3>2, <3>5, <1>2
        <5>2. cnt2[x] = 1 => x \notin c.open \cup c.write
          <6>1. c.open \cup c.write \subseteq DOMAIN s.inodes
            BY <1>2 DEF Good
          <6>2. x \in DOMAIN s.inodes => cnt[x] > 0
            BY <1>2 DEF Good, Opens
          <6>3. cnt[x] \in Nat
            BY <1>2, <3>2
          <6>4. cnt2[x] = cnt[x] + 1
            BY <3>5
          <6>5. ASSUME cnt2[x] = 1 PROVE x \notin c.open \cup c.write
            <7>1. ~(cnt[x] > 0)
              BY <6>3, <6>4, <6>5
            <7>. QED  BY <6>1, <6>2, <7>1
          <6>. QED  BY <6>5
        <5>3. x \in Named(z.disk)
          BY <3>1, <3>4, <4>2, <4>4
        <5>4. z.ok \in BOOLEAN
          BY <4>3, <3>4
        <5>. QED  BY <5>1, <5>2, <5>3, <5>4, <4>5, <3>2, OpenObjects DEF o
      <4>7. /\ o.ok \in BOOLEAN /\ Like(s, o, H)
            /\ o.ok => Good(o, c, cnt2, dn, P)
            /\ ~o.ok => Good(o, c, cnt, dn, P)
        <5>1. /\ o.ok \in BOOLEAN /\ Like(z, o, H)
              /\ o.ok => Good(o, c, cnt2, dn, P)
              /\ ~o.ok /\ z.ok => Good(o, c, [cnt2 EXCEPT ![x] = @ - 1], dn, P)
          BY <4>6 DEF ObjectOpened
        <5>2. Like(s, o, H)
          BY <5>1, <4>4, LikeChains
        <5>. QED  BY <5>1, <5>2, <4>3, <3>5, <3>7
      <4>8. ASSUME ~o.ok PROVE Goal(t)
        <5>1. t = o
          BY <4>8, <2>5, <1>1, <1>7
        <5>2. Whole(o, c, P) /\ Quiet(s, o) /\ o.files = f
          BY <4>7, <4>8, WholeLike DEF cnt, dn, f
        <5>. QED  BY <5>1, <5>2, GetsNone
      <4>9. ASSUME o.ok PROVE Goal(t)
        <5>1. t = Started(o, h, x)
          BY <4>9, <2>5, <1>1, <1>7
        <5>2. o.files = f /\ Quiet(s, o)
          BY <4>7, LikeMeans DEF f, Quiet
        <5>3. Whole(t, c, P) /\ Like(o, t, {"files"}) /\ t.files = Given(f, h, Fresh(x))
          <6>1. f[h] = NONE /\ Good(o, c, cnt2, dn, P) /\ x \in Sectors \ Special
            BY <3>2, <4>7, <4>9 DEF f
          <6>2. OneMore(cnt2, f, x) /\ dn = Deniers(f)
            BY DEF cnt2, cnt, dn, OneMore
          <6>3. Whole(t, c, P)
            BY <6>1, <6>2, <5>1, <5>2, <1>2, FileStarts
          <6>4. Like(o, t, {"files"})
            BY <6>1, <6>2, <5>1, <5>2, <1>2, FileStarts
          <6>5. t.files = Given(f, h, Fresh(x))
            <7>1. Rec(o)
              BY <4>7 DEF Like
            <7>. QED  BY <5>1, <5>2, <7>1 DEF Started, Given, Rec, Fields
          <6>. QED  BY <6>3, <6>4, <6>5
        <5>4. Quiet(s, t)
          BY <5>2, <5>3, LikeMeans DEF Quiet
        <5>5. Gets(f, t.files, h, Named(s.disk))
          <6>1. x \in Named(s.disk)
            BY <3>1, <2>3, LikeMeans
          <6>2. Fresh(x) \in File /\ Fresh(x).sector = x
            BY <3>2, FreshFile
          <6>. QED  BY <6>1, <6>2, <5>3, GetsOne
        <5>. QED  BY <5>3, <5>4, <5>5
      <4>. QED  BY <4>7, <4>8, <4>9
    <3>. QED  BY <3>4, <3>6, <3>7
  <2>. QED  BY <2>2, <2>4, <2>5
<1>8. Goal(t)
  BY <1>5, <1>6, <1>7
<1>. QED  BY <1>8 DEF t, f

\* filesys_remove() erases the name.
LEMMA FileRemoves ==
  ASSUME NEW s, NEW c, NEW P, Whole(s, c, P), NEW n \in Names
  PROVE  LET t == FilesysRemove(s, n) IN Whole(t, c, P) /\ t.files = s.files /\ t.lost = s.lost
<1>. DEFINE f == s.files
            cnt == Openers(f)
            dn == Deniers(f)
            cnt1 == [cnt EXCEPT ![ROOT_DIR_SECTOR] = @ + 1]
            d == DirOpenRoot(s)
            r == DirRemove(d, n)
            y == DirClose(r)
            z == [y EXCEPT !.ok = r.ok]
            t == FilesysRemove(s, n)
            Goal(w) == Whole(w, c, P) /\ w.files = f /\ w.lost = s.lost
<1>1. t = IF ~d.ok THEN d ELSE z
  BY DEF FilesysRemove, With
<1>2. /\ ROOT_DIR_SECTOR \in Sectors /\ f \in FileTable
      /\ Good(s, c, cnt, dn, P) /\ cnt[ROOT_DIR_SECTOR] = 0 /\ cnt \in [Sectors -> Nat]
  BY BaseIs, OpenedIs DEF Good, Opens, ROOT_DIR_SECTOR, Whole
<1>3. cnt1[ROOT_DIR_SECTOR] > 0
  BY <1>2
<1>. HIDE DEF f, cnt, dn, cnt1, d, r, y, z, t
<1>4. RootOpened(s, c, cnt, dn, P, d)
  BY <1>2, DirOpensRoot DEF d
<1>5. /\ d.ok \in BOOLEAN /\ d.files = f /\ d.lost = s.lost
      /\ d.ok => Good(d, c, cnt1, dn, P)
      /\ ~d.ok => Good(d, c, cnt, dn, P)
  BY <1>4, LikeMeans DEF RootOpened, cnt1, f
<1>6. ASSUME ~d.ok PROVE Goal(t)
  BY <1>1, <1>2, <1>5, <1>6 DEF Whole, cnt, dn
<1>7. ASSUME d.ok PROVE Goal(t)
  <2>1. DirRemoved(d, c, cnt1, dn, P, r)
    BY <1>3, <1>5, <1>7, DirRemoves DEF r
  <2>2. Good(r, c, cnt1, dn, P) /\ r.files = f /\ r.lost = s.lost
    BY <2>1, <1>5, LikeMeans DEF DirRemoved
  <2>3. RootClosed(r, c, cnt, dn, P, y)
    BY <2>2, <1>2, RootCloses DEF y, cnt1
  <2>4. Good(y, c, cnt, dn, P) /\ y.files = f /\ y.lost = s.lost /\ y.fail \in Nat /\ Rec(y)
    BY <2>2, <2>3, LikeMeans DEF RootClosed
  <2>5. Like(y, z, {"ok"})
    BY <2>4 DEF z, Like, Rec, Fields
  <2>6. Like(y, z, Scratch) /\ z.fail = y.fail /\ z.files = f /\ z.lost = s.lost
    BY <2>4, <2>5, LikeWider, LikeMeans DEF Scratch
  <2>7. Good(z, c, cnt, dn, P)
    BY <2>4, <2>6, GoodLike
  <2>8. t = z
    BY <1>1, <1>7
  <2>. QED  BY <2>6, <2>7, <2>8, <1>2 DEF Whole, cnt, dn
<1>. QED  BY <1>5, <1>6, <1>7 DEF t, f

\* A file with another deny_write.
WithDeny(r, b) == [r EXCEPT !.deny_write = b]

\* A file with another pos.
WithPos(r, p) == [r EXCEPT !.pos = p]

\* What changes in them.
LEMMA FileEdited ==
  ASSUME NEW r \in File
  PROVE  /\ \A b \in BOOLEAN : /\ WithDeny(r, b) \in File /\ WithDeny(r, b).sector = r.sector
                               /\ WithDeny(r, b).pos = r.pos /\ (WithDeny(r, b).deny_write <=> b)
         /\ \A p \in Nat : /\ WithPos(r, p) \in File /\ WithPos(r, p).sector = r.sector
                           /\ WithPos(r, p).pos = p /\ (WithPos(r, p).deny_write <=> r.deny_write)
BY DEF WithDeny, WithPos, File

\* The same inodes are open and the same may be written.
Same(f, g) == OpenedBy(g) = OpenedBy(f) /\ WritableBy(g) = WritableBy(f)

\* The position of a handle's file is p.
AtPos(s, h, p) == [s EXCEPT !.files[h].pos = p]

\* A file's position says nothing of the disk.
LEMMA PosMoves ==
  ASSUME NEW s, NEW c, NEW P, Whole(s, c, P), NEW h \in Handles, s.files[h] # NONE, NEW p \in Nat,
         NEW t, t = AtPos(s, h, p)
  PROVE  /\ Whole(t, c, P) /\ Like(s, t, {"files"}) /\ t.files = Given(s.files, h, WithPos(s.files[h], p))
         /\ Same(s.files, t.files) /\ Gets(s.files, t.files, h, {s.files[h].sector})
<1>. DEFINE f == s.files
            r == WithPos(f[h], p)
            g == Given(f, h, r)
            cnt == Openers(f)
            dn == Deniers(f)
<1>1. Rec(s) /\ f \in FileTable /\ f[h] # NONE /\ Good(s, c, cnt, dn, P)
  BY GoodMeans DEF Whole
<1>2. t = [s EXCEPT !.files = g]
  BY <1>1 DEF Rec, Fields, Given, WithPos, FileTable, AtPos
<1>. HIDE DEF f, r
<1>3. f[h] \in File
  BY <1>1, FilesAre
<1>4. r \in File /\ r.sector = f[h].sector /\ (r.deny_write <=> f[h].deny_write)
  BY <1>3, FileEdited DEF r
<1>5. g \in FileTable /\ \A y \in Sectors : On(g, y) = On(f, y) /\ Denying(g, y) = Denying(f, y)
  BY <1>1, <1>4, HandleEdits
<1>. HIDE DEF g
<1>6. Openers(g) = cnt /\ Deniers(g) = dn /\ Same(f, g)
  BY <1>5 DEF Openers, Deniers, Same, OpenedBy, WritableBy
<1>7. FilesSet(s, c, cnt, dn, P, g, t)
  BY <1>1, <1>2, FilesChange
<1>8. Gets(f, g, h, {f[h].sector})
  BY <1>4, GetsOne DEF g
<1>. QED  BY <1>5, <1>6, <1>7, <1>8 DEF FilesSet, Whole, g, r, f

\* file_deny_write() denies once.
LEMMA FileDenies ==
  ASSUME NEW s, NEW c, NEW P, Whole(s, c, P), NEW h \in Handles, s.files[h] # NONE
  PROVE  LET t == FileDenyWrite(s, h) IN
         Whole(t, c, P) /\ Quiet(s, t) /\ Gets(s.files, t.files, h, {s.files[h].sector})
<1>. DEFINE yes == TRUE
            f == s.files
            r == WithDeny(f[h], yes)
            g == Given(f, h, r)
            x == f[h].sector
            cnt == Openers(f)
            dn == Deniers(f)
            w == [s EXCEPT !.files = g]
            t == FileDenyWrite(s, h)
<1>1. Rec(s) /\ f \in FileTable /\ f[h] # NONE /\ Good(s, c, cnt, dn, P) /\ yes /\ yes \in BOOLEAN
  BY GoodMeans DEF Whole
<1>2. t = IF f[h].deny_write THEN s ELSE InodeDenyWrite(w, x)
  BY <1>1 DEF Rec, Fields, Given, WithDeny, FileTable, FileDenyWrite
<1>. HIDE DEF yes, f, r, cnt, dn, t
<1>3. f[h] \in File /\ x \in Sectors \ Special /\ f[h].deny_write \in BOOLEAN
  BY <1>1, FilesAre
<1>4. r \in File /\ r.sector = f[h].sector /\ r.deny_write
  BY <1>1, <1>3, FileEdited DEF r
<1>. HIDE DEF x
<1>5. ASSUME f[h].deny_write PROVE Whole(t, c, P) /\ Quiet(s, t) /\ Gets(f, t.files, h, {x})
  <2>1. t = s
    BY <1>2, <1>5
  <2>. QED  BY <2>1, GetsNone DEF Quiet, f
<1>6. ASSUME ~f[h].deny_write PROVE Whole(t, c, P) /\ Quiet(s, t) /\ Gets(f, t.files, h, {x})
  <2>9. Gets(f, g, h, {x})
    BY <1>4, GetsOne DEF x
  <2>1. g \in FileTable /\ (\A y \in Sectors : On(g, y) = On(f, y)) /\ Denies(f, g, r.sector, h)
    BY <1>1, <1>4, <1>6, HandleEdits
  <2>. HIDE DEF g
  <2>2. Openers(g) = cnt /\ Deniers(g) = [dn EXCEPT ![x] = @ + 1]
    <3>1. Denies(f, g, x, h)
      BY <2>1, <1>4 DEF x
    <3>2. Openers(g) = Openers(f)
      BY <2>1 DEF Openers
    <3>. QED  BY <3>1, <3>2, <1>3, Counted DEF cnt, dn
  <2>3. FilesSet(s, c, cnt, dn, P, g, w)
    BY <1>1, FilesChange
  <2>. HIDE DEF w
  <2>4. Good(w, c, cnt, dn, P) /\ Like(s, w, {"files"}) /\ w.files = g
    BY <2>3 DEF FilesSet
  <2>5. dn[x] < cnt[x]
    <3>1. Deniers(g)[x] <= Cardinality(On(g, x)) /\ Openers(g)[x] = Cardinality(On(g, x)) + (IF x = FREE_MAP_SECTOR THEN 1 ELSE 0)
      BY <1>3, CountsAre
    <3>2. Openers(g)[x] = Cardinality(On(g, x))  /\ Cardinality(On(g, x)) \in Nat
      <4>1. Cardinality(On(g, x)) \in Nat
        BY <1>3, CountsAre, FS_CardinalityType
      <4>. QED  BY <4>1, <3>1, <1>3 DEF Special
    <3>3. dn \in [Sectors -> Nat]
      BY <1>1 DEF Good, Opens
    <3>4. Deniers(g)[x] = dn[x] + 1 /\ dn[x] \in Nat
      BY <2>2, <3>3, <1>3, UpDown
    <3>. QED  BY <3>1, <3>2, <3>4, <2>2
  <2>6. /\ Good(InodeDenyWrite(w, x), c, cnt, [dn EXCEPT ![x] = @ + 1], P)
        /\ Like(w, InodeDenyWrite(w, x), {"inodes", "panic"})
    BY <2>4, <2>5, <1>3, InodeDenies
  <2>7. t = InodeDenyWrite(w, x)
    BY <1>2, <1>6
  <2>. HIDE DEF t
  <2>8. t.files = g /\ Quiet(s, t)
    <3>1. t.files = w.files /\ t.disk = w.disk /\ t.log = w.log /\ t.lost = w.lost
      BY <2>6, <2>7, LikeMeans
    <3>. QED  BY <3>1, <2>4, LikeMeans DEF Quiet
  <2>. QED  BY <2>9, <2>1, <2>2, <2>6, <2>7, <2>8 DEF Whole
<1>7. Whole(t, c, P) /\ Quiet(s, t) /\ Gets(f, t.files, h, {x})
  BY <1>3, <1>5, <1>6
<1>. QED  BY <1>7 DEF t, f, x

\* The state after file_allow_write().
Allowed(s, c, P, h, t) ==
    /\ Whole(t, c, P) /\ Quiet(s, t) /\ t.files[h] \in File /\ ~t.files[h].deny_write
    /\ t.files[h].sector = s.files[h].sector /\ Gets(s.files, t.files, h, {s.files[h].sector})
    /\ \A e : Given(t.files, h, e) = Given(s.files, h, e)

\* file_allow_write() allows once.
LEMMA FileAllows ==
  ASSUME NEW s, NEW c, NEW P, Whole(s, c, P), NEW h \in Handles, s.files[h] # NONE
  PROVE  Allowed(s, c, P, h, FileAllowWrite(s, h))
<1>. DEFINE no == FALSE
            f == s.files
            r == WithDeny(f[h], no)
            g == Given(f, h, r)
            x == f[h].sector
            cnt == Openers(f)
            dn == Deniers(f)
            w == [s EXCEPT !.files = g]
            t == FileAllowWrite(s, h)
<1>1. Rec(s) /\ f \in FileTable /\ f[h] # NONE /\ Good(s, c, cnt, dn, P) /\ ~no /\ no \in BOOLEAN
  BY GoodMeans DEF Whole
<1>2. t = IF ~f[h].deny_write THEN s ELSE InodeAllowWrite(w, x)
  BY <1>1 DEF Rec, Fields, Given, WithDeny, FileTable, FileAllowWrite
<1>. HIDE DEF no, f, r, cnt, dn, t
<1>3. f[h] \in File /\ x \in Sectors \ Special /\ f[h].deny_write \in BOOLEAN
  BY <1>1, FilesAre
<1>4. r \in File /\ r.sector = f[h].sector /\ ~r.deny_write
  BY <1>1, <1>3, FileEdited DEF r
<1>. HIDE DEF x
<1>5. ASSUME ~f[h].deny_write PROVE Allowed(s, c, P, h, t)
  <2>1. t = s
    BY <1>2, <1>5
  <2>. QED  BY <2>1, <1>3, <1>5, GetsNone DEF Allowed, Quiet, f
<1>6. ASSUME f[h].deny_write PROVE Allowed(s, c, P, h, t)
  <2>1. g \in FileTable /\ (\A y \in Sectors : On(g, y) = On(f, y)) /\ Denies(g, f, r.sector, h)
    BY <1>1, <1>4, <1>6, HandleEdits
  <2>2. g[h] = r /\ \A e : Given(g, h, e) = Given(f, h, e)
    BY <1>1 DEF Given, FileTable
  <2>11. Gets(f, g, h, {f[h].sector})
    BY <1>4, GetsOne
  <2>. HIDE DEF g
  <2>3. Openers(g) = cnt /\ Deniers(g) = [dn EXCEPT ![x] = @ - 1] /\ dn = [Deniers(g) EXCEPT ![x] = @ + 1]
    <3>1. Denies(g, f, x, h)
      BY <2>1, <1>4 DEF x
    <3>2. Openers(g) = Openers(f)
      BY <2>1 DEF Openers
    <3>3. Deniers(f) = [Deniers(g) EXCEPT ![x] = @ + 1] /\ Deniers(g) = [Deniers(f) EXCEPT ![x] = @ - 1]
      <4>1. x \in Sectors
        BY <1>3
      <4>. QED  BY <3>1, <4>1, Counted
    <3>. QED  BY <3>2, <3>3 DEF cnt, dn
  <2>4. FilesSet(s, c, cnt, dn, P, g, w)
    BY <1>1, FilesChange
  <2>. HIDE DEF w
  <2>5. Good(w, c, cnt, dn, P) /\ Like(s, w, {"files"}) /\ w.files = g
    BY <2>4 DEF FilesSet
  <2>6. dn[x] > 0
    <3>1. Deniers(g) \in [Sectors -> Nat]
      BY <1>3, CountsAre
    <3>2. dn[x] = Deniers(g)[x] + 1 /\ Deniers(g)[x] \in Nat
      BY <2>3, <3>1, <1>3, UpDown
    <3>. QED  BY <3>2
  <2>7. /\ Good(InodeAllowWrite(w, x), c, cnt, [dn EXCEPT ![x] = @ - 1], P)
        /\ Like(w, InodeAllowWrite(w, x), {"inodes", "panic"})
    BY <2>5, <2>6, <1>3, InodeAllows
  <2>8. t = InodeAllowWrite(w, x)
    BY <1>2, <1>6
  <2>9. t.files = g /\ Quiet(s, t)
    <3>1. t.files = w.files /\ t.disk = w.disk /\ t.log = w.log /\ t.lost = w.lost
      BY <2>7, <2>8, LikeMeans
    <3>. QED  BY <3>1, <2>5, LikeMeans DEF Quiet
  <2>10. Whole(t, c, P)
    BY <2>1, <2>3, <2>7, <2>8, <2>9 DEF Whole
  <2>. QED  BY <2>11, <2>2, <2>9, <2>10, <1>4 DEF Allowed, f
<1>. QED  BY <1>3, <1>5, <1>6 DEF t

\* A handle that does not deny writes gives its file up.
LEMMA HandleCloses ==
  ASSUME NEW f \in FileTable, NEW h \in Handles, f[h] # NONE, ~f[h].deny_write, NEW g, g = Given(f, h, NONE)
  PROVE  /\ g \in FileTable /\ Joins(g, f, f[h].sector, h) /\ Deniers(g) = Deniers(f)
<1>1. g \in FileTable /\ g[h] = NONE /\ f = Given(g, h, f[h])
  BY DEF FileTable, Given
<1>2. f[h] \in File /\ f[h].sector \notin Special
  BY FilesAre
<1>3. Joins(g, f, f[h].sector, h) /\ \A y \in Sectors : Denying(f, y) = Denying(g, y)
  BY <1>1, <1>2, HandleOpens
<1>. QED  BY <1>1, <1>3 DEF Deniers

\* file_close() allows writes and closes the inode.
LEMMA FileCloses ==
  ASSUME NEW s, NEW c, NEW P, Whole(s, c, P), NEW h \in Handles, s.files[h] # NONE,
         c.open \cup c.write \subseteq OpenedBy(Given(s.files, h, NONE))
  PROVE  LET t == FileClose(s, h) IN
         Whole(t, c, P) /\ t.files = Given(s.files, h, NONE) /\ t.lost = s.lost
<1>. DEFINE a == FileAllowWrite(s, h)
            f == a.files
            x == s.files[h].sector
            g == Given(f, h, NONE)
            cnt == Openers(f)
            dn == Deniers(f)
            i == InodeClose(a, x)
            t == FileClose(s, h)
<1>1. Allowed(s, c, P, h, a)
  BY FileAllows
<1>2. /\ Whole(a, c, P) /\ Quiet(s, a) /\ f[h] \in File /\ ~f[h].deny_write /\ f[h].sector = x
      /\ g = Given(s.files, h, NONE)
  BY <1>1 DEF Allowed
<1>3. t = [i EXCEPT !.files[h] = NONE]
  BY DEF FileClose
<1>. HIDE DEF a, x, i, t
<1>4. f \in FileTable /\ f[h] # NONE /\ Good(a, c, cnt, dn, P)
  <2>1. f[h] # NONE
    BY <1>2, FileAssumption
  <2>. QED  BY <2>1, <1>2 DEF Whole
<1>. HIDE DEF f
<1>5. g \in FileTable /\ Joins(g, f, x, h) /\ Deniers(g) = dn /\ x \in Sectors \ Special
  <2>1. g \in FileTable /\ Joins(g, f, f[h].sector, h) /\ Deniers(g) = Deniers(f)
    BY <1>2, <1>4, HandleCloses
  <2>2. x \in Sectors \ Special
    BY <1>2, <1>4, FilesAre
  <2>. QED  BY <2>1, <2>2, <1>2
<1>. HIDE DEF g
<1>6. cnt = [Openers(g) EXCEPT ![x] = @ + 1] /\ Openers(g) = [cnt EXCEPT ![x] = @ - 1]
  <2>1. Joins(g, f, x, h) /\ x \in Sectors
    BY <1>5
  <2>2. Openers(f) = [Openers(g) EXCEPT ![x] = @ + 1] /\ Openers(g) = [Openers(f) EXCEPT ![x] = @ - 1]
    BY <2>1, Counted
  <2>. QED  BY <2>2
<1>7. /\ Openers(g) \in [Sectors -> Nat] /\ dn[x] <= Openers(g)[x] /\ cnt[x] = Openers(g)[x] + 1 /\ Openers(g)[x] \in Nat
      /\ dn[x] \in Nat
  <2>1. Openers(g) \in [Sectors -> Nat] /\ Deniers(g) \in [Sectors -> Nat]
    BY <1>5, CountsAre
  <2>2. Deniers(g)[x] <= Cardinality(On(g, x)) /\ Openers(g)[x] = Cardinality(On(g, x)) + (IF x = FREE_MAP_SECTOR THEN 1 ELSE 0)
    BY <1>5, CountsAre
  <2>3. Openers(g)[x] = Cardinality(On(g, x))
    <3>1. Cardinality(On(g, x)) \in Nat
      BY <1>5, CountsAre, FS_CardinalityType
    <3>. QED  BY <2>2, <3>1, <1>5 DEF Special
  <2>4. cnt[x] = Openers(g)[x] + 1
    BY <2>1, <1>5, <1>6, UpDown
  <2>5. dn[x] = Deniers(g)[x]
    BY <1>5
  <2>. QED  BY <2>1, <2>2, <2>3, <2>4, <2>5, <1>5
<1>. HIDE DEF cnt, dn
<1>8. dn[x] < cnt[x] /\ (x = FREE_MAP_SECTOR => cnt[x] > 1)
  BY <1>5, <1>7 DEF Special
<1>9. ASSUME cnt[x] = 1 PROVE x \notin c.open \cup c.write
  <2>1. ~(Openers(g)[x] > 0)
    BY <1>7, <1>9
  <2>2. x \notin OpenedBy(g)
    BY <2>1, <1>5, OpenedIs
  <2>. QED  BY <2>2, <1>2
<1>10. NodesClosed(a, c, cnt, dn, P, x, i)
  BY <1>4, <1>5, <1>8, <1>9, InodeCloses DEF i
<1>11. Good(i, c, Openers(g), Deniers(g), P) /\ i.files = f /\ i.lost = s.lost /\ Rec(i)
  <2>1. Good(i, c, [cnt EXCEPT ![x] = @ - 1], dn, P) /\ i.files = a.files /\ i.lost = a.lost /\ Rec(i)
    BY <1>10, LikeMeans DEF NodesClosed
  <2>. QED  BY <2>1, <1>2, <1>5, <1>6 DEF Quiet, f
<1>12. t = [i EXCEPT !.files = g]
  BY <1>3, <1>11 DEF Rec, Fields, Given, g
<1>13. FilesSet(i, c, Openers(g), Deniers(g), P, g, t)
  BY <1>11, <1>12, FilesChange
<1>14. t.lost = s.lost
  BY <1>11, <1>13, LikeMeans DEF FilesSet
<1>. QED  BY <1>2, <1>5, <1>13, <1>14 DEF FilesSet, Whole, t

\* The state after file_reopen().
Reopened(s, c, P, g, x, t) ==
    /\ t.ok \in BOOLEAN /\ Whole(t, c, P) /\ Quiet(s, t)
    /\ t.ok => t.files = Given(s.files, g, Fresh(x))
    /\ Gets(s.files, t.files, g, {x})

\* file_reopen() opens the inode once more, or leaves everything as it was.
LEMMA FileReopens ==
  ASSUME NEW s, NEW c, NEW P, Whole(s, c, P), NEW h \in Handles, s.files[h] # NONE, NEW g \in Handles, s.files[g] = NONE
  PROVE  Reopened(s, c, P, g, s.files[h].sector, FileReopen(s, h, g))
<1>. DEFINE yes == TRUE
            f == s.files
            x == f[h].sector
            cnt == Openers(f)
            dn == Deniers(f)
            cnt2 == [cnt EXCEPT ![x] = @ + 1]
            i == InodeReopen(s, x)
            w == [i EXCEPT !.ok = yes]
            o == OpenObject(w, x)
            t == FileReopen(s, h, g)
            H == {"inodes", "ok", "fail"}
<1>1. t = IF o.ok THEN Started(o, g, x) ELSE o
  BY DEF FileReopen, With, Fresh, Started
<1>2. /\ Rec(s) /\ f \in FileTable /\ f[h] # NONE /\ f[g] = NONE /\ Good(s, c, cnt, dn, P) /\ yes /\ yes \in BOOLEAN
      /\ cnt \in [Sectors -> Nat] /\ dn \in [Sectors -> Nat] /\ \A y \in Sectors : dn[y] <= cnt[y]
  BY GoodMeans DEF Whole, Good, Opens
<1>3. x \in Sectors \ Special
  BY <1>2, FilesAre
<1>4. cnt[x] > 0
  <2>1. x \in OpenedBy(f)
    BY <1>2, <1>3 DEF OpenedBy, On
  <2>. QED  BY <2>1, <1>2, <1>3, OpenedIs
<1>5. cnt2[x] = cnt[x] + 1 /\ [cnt2 EXCEPT ![x] = @ - 1] = cnt /\ cnt[x] \in Nat /\ dn[x] \in Nat /\ dn[x] <= cnt[x]
  BY <1>2, <1>3, UpDown
<1>. HIDE DEF yes, f, cnt, dn, cnt2, x, i, w, o, t
<1>6. Good(i, c, cnt2, dn, P) /\ Like(s, i, {"inodes"})
  BY <1>2, <1>3, <1>4, InodeReopens DEF i, cnt2
<1>7. Like(i, w, {"ok"}) /\ w.ok = yes
  <2>1. Rec(i)
    BY <1>6 DEF Like
  <2>. QED  BY <2>1 DEF w, Like, Rec, Fields
<1>8. Good(w, c, cnt2, dn, P) /\ Like(s, w, H)
  <2>1. Like(i, w, Scratch) /\ w.fail = i.fail /\ i.fail \in Nat
    BY <1>6, <1>7, LikeWider, LikeMeans, GoodMeans DEF Scratch
  <2>2. Like(s, w, H)
    BY <1>6, <1>7, LikeChains
  <2>. QED  BY <2>1, <2>2, <1>6, GoodLike
<1>9. ObjectOpened(w, c, cnt2, dn, P, x, o)
  <2>1. dn[x] < cnt2[x] /\ (x = FREE_MAP_SECTOR => cnt2[x] > 1) /\ cnt2[x] > 1 /\ (cnt2[x] = 1 => x \notin c.open \cup c.write)
    BY <1>3, <1>4, <1>5 DEF Special
  <2>2. w.ok \in BOOLEAN
    BY <1>2, <1>7
  <2>. QED  BY <2>1, <2>2, <1>3, <1>8, OpenObjects DEF o
<1>10. /\ o.ok \in BOOLEAN /\ Like(w, o, H)
       /\ o.ok => Good(o, c, cnt2, dn, P)
       /\ ~o.ok /\ w.ok => Good(o, c, [cnt2 EXCEPT ![x] = @ - 1], dn, P)
  BY <1>9 DEF ObjectOpened
<1>11. Like(s, o, H) /\ o.files = f /\ Quiet(s, o)
  <2>1. Like(s, o, H)
    BY <1>8, <1>10, LikeChains
  <2>. QED  BY <2>1, LikeMeans DEF Quiet, f
<1>12. ASSUME ~o.ok PROVE Reopened(s, c, P, g, x, t)
  <2>1. t = o
    BY <1>1, <1>12
  <2>2. Good(o, c, cnt, dn, P)
    BY <1>2, <1>5, <1>7, <1>10, <1>12
  <2>. QED  BY <2>1, <2>2, <1>2, <1>10, <1>11, <1>12, GetsNone DEF Reopened, Whole, cnt, dn, f
<1>13. ASSUME o.ok PROVE Reopened(s, c, P, g, x, t)
  <2>1. t = Started(o, g, x)
    BY <1>1, <1>13
  <2>2. Good(o, c, cnt2, dn, P)
    BY <1>10, <1>13
  <2>3. Whole(t, c, P) /\ Like(o, t, {"files"}) /\ t.files = Given(f, g, Fresh(x))
    <3>1. f[g] = NONE /\ f \in FileTable /\ x \in Sectors \ Special /\ o.files = f
      BY <1>2, <1>3, <1>11
    <3>2. OneMore(cnt2, f, x) /\ dn = Deniers(f)
      BY DEF cnt2, cnt, dn, OneMore
    <3>3. Whole(t, c, P)
      BY <3>1, <3>2, <2>1, <2>2, FileStarts
    <3>4. Like(o, t, {"files"})
      BY <3>1, <3>2, <2>1, <2>2, FileStarts
    <3>5. t.files = Given(f, g, Fresh(x))
      <4>1. Rec(o)
        BY <1>11 DEF Like
      <4>. QED  BY <3>1, <4>1, <2>1 DEF Started, Given, Rec, Fields
    <3>. QED  BY <3>3, <3>4, <3>5
  <2>4. t.ok = o.ok /\ Quiet(s, t)
    BY <2>3, <1>11, LikeMeans DEF Quiet
  <2>5. Gets(f, t.files, g, {x})
    <3>1. Fresh(x) \in File /\ Fresh(x).sector = x
      BY <1>3, FreshFile
    <3>. QED  BY <3>1, <2>3, GetsOne
  <2>. QED  BY <2>3, <2>4, <2>5, <1>10 DEF Reopened, f
<1>. QED  BY <1>10, <1>12, <1>13 DEF t, x, f

\* file_duplicate() opens the inode once more, and denies writes as the original does.
LEMMA FileDuplicates ==
  ASSUME NEW s, NEW c, NEW P, Whole(s, c, P), NEW h \in Handles, s.files[h] # NONE, NEW g \in Handles, s.files[g] = NONE
  PROVE  LET t == FileDuplicate(s, h, g) IN
         Whole(t, c, P) /\ Quiet(s, t) /\ Gets(s.files, t.files, g, {s.files[h].sector})
<1>. DEFINE p == s.files[h].pos
            x == s.files[h].sector
            o == FileReopen(s, h, g)
            at == AtPos(o, g, p)
            z == FileDenyWrite(at, g)
            t == FileDuplicate(s, h, g)
            Goal(w) == Whole(w, c, P) /\ Quiet(s, w) /\ Gets(s.files, w.files, g, {x})
<1>1. t = IF ~o.ok THEN o ELSE IF s.files[h].deny_write THEN z ELSE at
  BY DEF FileDuplicate, With, AtPos
<1>2. s.files \in FileTable /\ p \in Nat /\ x \in Sectors \ Special /\ s.files[h].deny_write \in BOOLEAN
  BY FilesAre DEF Whole
<1>3. Reopened(s, c, P, g, x, o)
  BY FileReopens
<1>4. o.ok \in BOOLEAN /\ Goal(o) /\ Gets(s.files, o.files, g, {x}) /\ (o.ok => o.files = Given(s.files, g, Fresh(x)))
  BY <1>3 DEF Reopened
<1>. HIDE DEF p, x, o, at, z, t
<1>5. ASSUME o.ok PROVE Goal(at) /\ Goal(z)
  <2>1. o.files[g] # NONE
    <3>1. Fresh(x) # NONE
      BY <1>2, FreshFile, FileAssumption
    <3>. QED  BY <3>1, <1>2, <1>4, <1>5 DEF Given, FileTable
  <2>2. /\ Whole(at, c, P) /\ Like(o, at, {"files"}) /\ at.files = Given(o.files, g, WithPos(o.files[g], p))
        /\ Gets(o.files, at.files, g, {o.files[g].sector})
    <3>1. Whole(o, c, P) /\ p \in Nat /\ at = AtPos(o, g, p)
      BY <1>2, <1>4 DEF at
    <3>2. Whole(at, c, P)
      BY <3>1, <2>1, PosMoves
    <3>3. Like(o, at, {"files"})
      BY <3>1, <2>1, PosMoves
    <3>4. at.files = Given(o.files, g, WithPos(o.files[g], p))
      <4>1. Rec(o) /\ o.files \in FileTable
        BY <3>1, GoodMeans DEF Whole
      <4>. QED  BY <4>1, <3>1 DEF Rec, Fields, Given, WithPos, FileTable, AtPos
    <3>5. Gets(o.files, at.files, g, {o.files[g].sector})
      BY <3>1, <2>1, PosMoves
    <3>. QED  BY <3>2, <3>3, <3>4, <3>5
  <2>3. Quiet(s, at)
    BY <2>2, <1>4, LikeMeans DEF Quiet
  <2>4. at.files[g] # NONE
    <3>1. o.files \in FileTable
      BY <1>4 DEF Whole
    <3>2. WithPos(o.files[g], p) \in File
      BY <2>1, <3>1, <1>2, FilesAre, FileEdited
    <3>. QED  BY <2>2, <3>1, <3>2, FileAssumption DEF Given, FileTable
  <2>5. Whole(z, c, P) /\ Quiet(at, z) /\ Gets(at.files, z.files, g, {at.files[g].sector})
    BY <2>2, <2>4, FileDenies DEF z
  <2>6. o.files[g].sector = x /\ at.files[g].sector = x /\ o.files \in FileTable /\ at.files \in FileTable
    <3>1. o.files \in FileTable /\ at.files \in FileTable
      BY <1>4, <2>2 DEF Whole
    <3>2. o.files[g] = Fresh(x) /\ Fresh(x).sector = x
      BY <1>2, <1>4, <1>5, FreshFile DEF Given, FileTable
    <3>3. o.files[g] \in File
      BY <2>1, <3>1, FilesAre
    <3>4. WithPos(o.files[g], p).sector = x
      BY <1>2, <3>2, <3>3, FileEdited
    <3>. QED  BY <2>2, <3>1, <3>2, <3>4 DEF Given, FileTable
  <2>7. Gets(s.files, at.files, g, {x})
    BY <1>2, <1>4, <2>2, <2>6, GetsAgain
  <2>8. Gets(s.files, z.files, g, {x})
    BY <1>2, <2>5, <2>6, <2>7, GetsAgain
  <2>. QED  BY <2>2, <2>3, <2>5, <2>7, <2>8 DEF Quiet
<1>6. Goal(t)
  BY <1>1, <1>2, <1>4, <1>5
<1>. QED  BY <1>6 DEF t, x

\* file_write() writes the contents of a file that may be written.
LEMMA FileWrites ==
  ASSUME NEW s, NEW c, NEW P, Whole(s, c, P), NEW h \in Handles, s.files[h] # NONE, WritableBy(s.files) \subseteq c.write,
         NEW cells, Len(cells) \in Nat
  PROVE  LET t == FileWrite(s, h, cells) IN
         /\ Whole(t, c, P) /\ Same(s.files, t.files) /\ t.lost = s.lost
         /\ Gets(s.files, t.files, h, {s.files[h].sector})
<1>. DEFINE f == s.files
            x == f[h].sector
            cnt == Openers(f)
            dn == Deniers(f)
            w == InodeWriteAt(s, x, cells, f[h].pos)
            p == w.files[h].pos + w.done
            t == FileWrite(s, h, cells)
<1>1. t = [w EXCEPT !.files[h].pos = @ + w.done]
  BY DEF FileWrite, With
<1>2. f \in FileTable /\ f[h] # NONE /\ Good(s, c, cnt, dn, P) /\ x \in Sectors \ Special /\ f[h].pos \in Nat
  BY FilesAre DEF Whole
<1>3. x \in OpenedBy(f)
  BY <1>2 DEF OpenedBy, On
<1>4. cnt[x] > 0 /\ (dn[x] = 0 => x \in c.write)
  BY <1>2, <1>3, OpenedIs
<1>. HIDE DEF f, x, cnt, dn, w, t
<1>5. Written(s, c, cnt, dn, P, w)
  BY <1>2, <1>4, InodeWrites DEF w
<1>6. Good(w, c, cnt, dn, P) /\ w.done \in Nat /\ w.files = f /\ w.lost = s.lost /\ Rec(w)
  BY <1>5, LikeMeans DEF Written, f
<1>7. Whole(w, c, P)
  BY <1>2, <1>6 DEF Whole, cnt, dn
<1>8. t = AtPos(w, h, p) /\ p \in Nat
  <2>1. t = AtPos(w, h, p)
    BY <1>1, <1>2, <1>6 DEF Rec, Fields, FileTable, AtPos
  <2>2. w.files[h].pos \in Nat
    BY <1>2, <1>6
  <2>. QED  BY <2>1, <2>2, <1>6
<1>. HIDE DEF p
<1>9. /\ Whole(t, c, P) /\ Like(w, t, {"files"}) /\ Same(w.files, t.files)
      /\ Gets(w.files, t.files, h, {w.files[h].sector})
  <2>1. w.files[h] # NONE
    BY <1>2, <1>6
  <2>. QED  BY <2>1, <1>7, <1>8, PosMoves
<1>. QED  BY <1>6, <1>9, LikeMeans DEF t, f

\* file_read() changes the position only.
LEMMA FileReads ==
  ASSUME NEW s, NEW c, NEW P, Whole(s, c, P), NEW h \in Handles, s.files[h] # NONE, NEW size \in Nat
  PROVE  LET t == FileRead(s, h, size) IN
         Whole(t, c, P) /\ Quiet(s, t) /\ Gets(s.files, t.files, h, {s.files[h].sector})
<1>. DEFINE f == s.files
            x == f[h].sector
            cnt == Openers(f)
            dn == Deniers(f)
            inode == s.inodes[x]
            tr == Transfer(s, inode, size, f[h].pos)
            r == InodeReadAt(s, inode, size, f[h].pos)
            u == r.s
            p == f[h].pos + Len(r.cells)
            w == AtPos(u, h, p)
            t == FileRead(s, h, size)
<1>1. t = [u EXCEPT !.files[h].pos = @ + Len(r.cells), !.cells = r.cells]
  BY DEF FileRead, With
<1>2. f \in FileTable /\ f[h] # NONE /\ Good(s, c, cnt, dn, P) /\ x \in Sectors \ Special /\ f[h].pos \in Nat /\ Rec(s) /\ s.fail \in Nat
  BY FilesAre, GoodMeans DEF Whole
<1>3. x \in OpenedBy(f)
  BY <1>2 DEF OpenedBy, On
<1>4. cnt[x] > 0
  BY <1>2, <1>3, OpenedIs
<1>5. inode.length \in Nat
  <2>1. x \in DOMAIN s.inodes /\ inode = Inode(s.disk, x, cnt, dn)
    BY <1>2, <1>4, NodeOf
  <2>2. x \in Live(s)
    BY <2>1, <1>2 DEF Live
  <2>3. FileAt(s.disk, x)
    BY <2>2, <1>2, GoodMeans
  <2>. QED  BY <2>1, <2>3 DEF FileAt, Inode
<1>6. Like(s, tr.s, {"ok", "fail"}) /\ tr.s.fail \in Nat /\ tr.done \in Nat
  BY <1>2, <1>5, TransferIs
<1>7. u = tr.s /\ Len(r.cells) = tr.done
  <2>1. r = [s |-> tr.s, cells |-> [i \in 1..tr.done |-> CellAt(s.disk, inode, f[h].pos + i - 1)]]
    BY DEF InodeReadAt, With
  <2>. HIDE DEF tr, inode, r
  <2>2. Len([i \in 1..tr.done |-> CellAt(s.disk, inode, f[h].pos + i - 1)]) = tr.done
    BY <1>6
  <2>. QED  BY <2>1, <2>2
<1>. HIDE DEF f, x, cnt, dn, inode, tr, r, u, t
<1>8. Good(u, c, cnt, dn, P) /\ u.files = f /\ Quiet(s, u) /\ Rec(u)
  <2>1. Like(s, u, Scratch) /\ u.fail \in Nat
    BY <1>6, <1>7, LikeWider DEF Scratch
  <2>. QED  BY <2>1, <1>2, <1>6, <1>7, GoodLike, LikeMeans DEF Quiet, f
<1>9. Whole(u, c, P) /\ p \in Nat
  BY <1>2, <1>6, <1>7, <1>8 DEF Whole, cnt, dn
<1>. HIDE DEF p
<1>10. Whole(w, c, P) /\ Like(u, w, {"files"}) /\ Gets(u.files, w.files, h, {u.files[h].sector})
  BY <1>2, <1>8, <1>9, PosMoves
<1>11. t = [w EXCEPT !.cells = r.cells]
  <2>1. u.files[h].pos + Len(r.cells) = p
    BY <1>8 DEF p
  <2>. QED  BY <2>1, <1>1, <1>2, <1>8 DEF Rec, Fields, FileTable, AtPos, w
<1>. HIDE DEF w
<1>12. Like(w, t, {"cells"})
  <2>1. Rec(w)
    BY <1>10 DEF Like
  <2>. QED  BY <2>1, <1>11 DEF Like, Rec, Fields
<1>13. Good(w, c, Openers(w.files), Deniers(w.files), P) /\ w.files \in FileTable
  BY <1>10 DEF Whole
<1>14. Like(w, t, Scratch) /\ t.fail = w.fail /\ w.fail \in Nat /\ t.files = w.files
  BY <1>12, <1>13, LikeWider, LikeMeans, GoodMeans DEF Scratch
<1>15. Whole(t, c, P)
  <2>1. Good(t, c, Openers(w.files), Deniers(w.files), P)
    BY <1>13, <1>14, GoodLike
  <2>. QED  BY <2>1, <1>13, <1>14 DEF Whole
<1>16. Quiet(s, t)
  BY <1>8, <1>10, <1>12, LikeMeans DEF Quiet
<1>17. Gets(f, t.files, h, {f[h].sector})
  BY <1>8, <1>10, <1>14
<1>. QED  BY <1>15, <1>16, <1>17 DEF t, f

\* The trail of the next call starts at disk d, with the files that the handles have open.
Frame(d, f) == [from |-> d, open |-> OpenedBy(f), write |-> WritableBy(f)]

\* The record of a call, made of the variables.
Record(D, lg, fm, mo, nodes, f, p) ==
    [disk |-> D, log |-> lg, free_map |-> fm, map_open |-> mo, inodes |-> nodes, files |-> f, fail |-> 0,
     ok |-> TRUE, done |-> 0, sector |-> 0, cells |-> <<>>, panic |-> p, lost |-> {}]

\* The sectors that the map on the disk has and nobody owns.
Stray(d) == MapOn(d) \ (System(d) \cup OwnedByNames(d))

\* The state between two calls: while the map is open the log leads from the disk to one
\* with which everything agrees, and otherwise the disk is sound.
StateOK(d, lg, fm, mo, nodes, f, p, lk) ==
    /\ ~p
    /\ mo => \E D : Whole(Record(D, lg, fm, mo, nodes, f, p), Frame(d, f), lk)
    /\ ~mo => DiskOK(d) /\ lg = <<>> /\ lk = Stray(d)

\* The inductive invariant.
IInv == StateOK(disk, log, free_map, map_open, inodes, files, panic, leaked)

\* The fields of the record.
LEMMA RecordIs ==
  ASSUME NEW D, NEW lg, NEW fm, NEW mo, NEW nodes, NEW f, NEW p
  PROVE  LET s == Record(D, lg, fm, mo, nodes, f, p) IN
         /\ Rec(s) /\ s.disk = D /\ s.log = lg /\ s.free_map = fm /\ s.map_open = mo /\ s.inodes = nodes
         /\ s.files = f /\ s.panic = p /\ s.fail = 0 /\ s.lost = {}
BY DEF Record, Rec, Fields

\* A step that changes only scratch fields.
LEMMA WholeKeeps ==
  ASSUME NEW s, NEW c, NEW P, Whole(s, c, P), NEW t, Like(s, t, Scratch), t.files = s.files, t.fail \in Nat
  PROVE  Whole(t, c, P)
<1>1. Good(s, c, Openers(s.files), Deniers(s.files), P) /\ s.files \in FileTable
  BY DEF Whole
<1>2. Good(t, c, Openers(s.files), Deniers(s.files), P)
  BY <1>1, GoodLike
<1>. QED  BY <1>1, <1>2 DEF Whole

\* The parts of Whole that its users need.
LEMMA WholeMeans ==
  ASSUME NEW s, NEW c, NEW P, Whole(s, c, P)
  PROVE  /\ Rec(s) /\ s.map_open /\ ~s.panic /\ s.fail \in Nat /\ s.files \in FileTable
         /\ Trail(c.from, s.log, s.disk, c.open, c.write) /\ DiskOK(c.from) /\ DiskOK(s.disk)
         /\ s.log = <<>> => s.disk = c.from
         /\ OpenedBy(s.files) \cup WritableBy(s.files) \subseteq DOMAIN s.inodes \ Special
<1>1. Good(s, c, Openers(s.files), Deniers(s.files), P) /\ s.files \in FileTable
  BY DEF Whole
<1>2. /\ Rec(s) /\ s.map_open /\ ~s.panic /\ s.fail \in Nat
      /\ Trail(c.from, s.log, s.disk, c.open, c.write)
  BY <1>1 DEF Good
<1>3. DiskOK(c.from) /\ DiskOK(s.disk) /\ (s.log = <<>> => s.disk = c.from)
  BY <1>2, TrailEnds
<1>4. OpenedBy(s.files) \cup WritableBy(s.files) \subseteq DOMAIN s.inodes \ Special
  <2>1. /\ OpenedBy(s.files) \subseteq Sectors \ Special /\ WritableBy(s.files) \subseteq OpenedBy(s.files)
        /\ \A x \in Sectors \ Special : x \in OpenedBy(s.files) <=> Openers(s.files)[x] > 0
    BY <1>1, OpenedIs
  <2>2. \A x \in Sectors : Openers(s.files)[x] > 0 => x \in DOMAIN s.inodes
    BY <1>1 DEF Good, Opens
  <2>. QED  BY <2>1, <2>2
<1>. QED  BY <1>1, <1>2, <1>3, <1>4

\* The state after a call, when the trail starts where the call did.
LEMMA Ends ==
  ASSUME NEW s, NEW d, NEW P, Whole(s, Frame(d, s.files), P)
  PROVE  StateOK(d, s.log, s.free_map, s.map_open, s.inodes, s.files, s.panic, P)
<1>. DEFINE t == Record(s.disk, s.log, s.free_map, s.map_open, s.inodes, s.files, s.panic)
<1>1. Rec(s) /\ s.map_open /\ ~s.panic
  BY WholeMeans
<1>2. /\ Rec(t) /\ t.disk = s.disk /\ t.log = s.log /\ t.free_map = s.free_map /\ t.map_open = s.map_open
      /\ t.inodes = s.inodes /\ t.files = s.files /\ t.panic = s.panic /\ t.fail = 0
  BY RecordIs
<1>. HIDE DEF t
<1>3. Like(s, t, Scratch) /\ t.fail \in Nat
  BY <1>2 DEF Like, Fields, Scratch
<1>4. Whole(t, Frame(d, s.files), P)
  BY <1>2, <1>3, WholeKeeps
<1>. QED  BY <1>1, <1>4 DEF StateOK, t

\* What changes neither the disk nor the log leaves any frame to choose.
LEMMA QuietEnds ==
  ASSUME NEW s, NEW c, NEW P, Whole(s, c, P), s.log = <<>>
  PROVE  Whole(s, Frame(s.disk, s.files), P)
<1>. DEFINE e == Frame(s.disk, s.files)
<1>1. Good(s, c, Openers(s.files), Deniers(s.files), P) /\ s.files \in FileTable
  BY DEF Whole
<1>2. e.from = s.disk /\ e.open = OpenedBy(s.files) /\ e.write = WritableBy(s.files)
  BY DEF Frame
<1>3. e.open \cup e.write \subseteq DOMAIN s.inodes \ Special
  BY <1>2, WholeMeans
<1>. HIDE DEF e
<1>4. Good(s, e, Openers(s.files), Deniers(s.files), P)
  BY <1>1, <1>2, <1>3, Reframed
<1>. QED  BY <1>1, <1>4 DEF Whole, e

\* The state when a call begins.
Begun(s, fail) ==
    /\ Whole(s, Frame(disk, files), leaked) /\ s.files = files /\ s.lost = {} /\ s.log = <<>>
    /\ s.disk = disk /\ s.fail = fail

\* The fields of the record a call starts with.
LEMMA StartIs ==
  ASSUME NEW fail
  PROVE  LET s == Start(fail) IN
         /\ Rec(s) /\ s.disk = disk /\ s.log = <<>> /\ s.free_map = free_map /\ s.map_open = map_open
         /\ s.inodes = inodes /\ s.files = files /\ s.panic = panic /\ s.fail = fail /\ s.lost = {}
BY DEF Start, Off, Rec, Fields

\* A call begins in a good state.
LEMMA Begins ==
  ASSUME IInv, Ready, NEW fail \in Nat
  PROVE  Begun(Start(fail), fail)
<1>. DEFINE s == Start(fail)
<1>1. map_open /\ log = <<>>
  BY DEF Ready
<1>2. PICK D : Whole(Record(D, log, free_map, map_open, inodes, files, panic), Frame(disk, files), leaked)
  BY <1>1 DEF IInv, StateOK
<1>. DEFINE r == Record(D, log, free_map, map_open, inodes, files, panic)
            e == Frame(disk, files)
<1>3. /\ r.disk = D /\ r.log = log /\ r.free_map = free_map /\ r.map_open = map_open /\ r.inodes = inodes
      /\ r.files = files /\ r.panic = panic
  BY RecordIs
<1>4. /\ Rec(s) /\ s.disk = disk /\ s.log = <<>> /\ s.free_map = free_map /\ s.map_open = map_open
      /\ s.inodes = inodes /\ s.files = files /\ s.panic = panic /\ s.fail = fail /\ s.lost = {}
  BY StartIs
<1>5. e.from = disk
  BY DEF Frame
<1>. HIDE DEF r, s, e
<1>6. Whole(r, e, leaked)
  BY <1>2 DEF r, e
<1>7. r.disk = disk
  BY <1>1, <1>3, <1>5, <1>6, WholeMeans
<1>8. Like(r, s, Scratch)
  BY <1>1, <1>3, <1>4, <1>7 DEF Like, Fields, Scratch
<1>9. Whole(s, e, leaked)
  BY <1>3, <1>4, <1>6, <1>8, WholeKeeps
<1>. QED  BY <1>4, <1>9 DEF Begun, s, e

\* What a call may make of the handles f on disk d: one is given a file that exists,
\* stays with its file, or is closed.
Handled(d, f, g) ==
    \/ g = f
    \/ \E h \in Handles : f[h] = NONE /\ Gets(f, g, h, Named(d) \cup OpenedBy(f))
    \/ \E h \in Handles : f[h] # NONE /\ Gets(f, g, h, {f[h].sector})
    \/ \E h \in Handles : f[h] # NONE /\ g = Given(f, h, NONE)

\* A call is served: it leaves what it writes in the log.
Serves == map_open' /\ disk' = disk /\ Handled(disk, files, files')

\* The end of a call or of the start of the system.
LEMMA ServedEnds ==
  ASSUME NEW s, Served(s), Whole(s, Frame(disk, s.files), leaked \cup s.lost)
  PROVE  IInv' /\ map_open' /\ disk' = disk /\ files' = s.files
<1>1. StateOK(disk, s.log, s.free_map, s.map_open, s.inodes, s.files, s.panic, leaked \cup s.lost)
  BY Ends
<1>2. /\ free_map' = s.free_map /\ map_open' = s.map_open /\ inodes' = s.inodes /\ files' = s.files
      /\ panic' = s.panic /\ log' = s.log /\ leaked' = leaked \cup s.lost /\ disk' = disk
  BY DEF Served
<1>3. s.map_open
  BY WholeMeans
<1>. QED  BY <1>1, <1>2, <1>3 DEF IInv

\* The end of a call.
LEMMA ServedKeeps ==
  ASSUME NEW s, Served(s), Whole(s, Frame(disk, s.files), leaked \cup s.lost), Handled(disk, files, s.files)
  PROVE  IInv' /\ Serves
<1>1. IInv' /\ map_open' /\ disk' = disk /\ files' = s.files
  BY ServedEnds
<1>. QED  BY <1>1 DEF Serves

\* A handle that is opened or stays with its file.
LEMMA HandleGets ==
  ASSUME NEW d, NEW f, NEW g, NEW h \in Handles, NEW S, Gets(f, g, h, S),
         f[h] = NONE => S \subseteq Named(d) \cup OpenedBy(f), f[h] # NONE => S = {f[h].sector}
  PROVE  Handled(d, f, g)
<1>1. CASE f[h] = NONE
  <2>1. Gets(f, g, h, Named(d) \cup OpenedBy(f))
    BY <1>1 DEF Gets
  <2>. QED  BY <1>1, <2>1 DEF Handled
<1>2. CASE f[h] # NONE
  BY <1>2 DEF Handled
<1>. QED  BY <1>1, <1>2

\* A call that writes nothing keeps the invariant.
LEMMA QuietKeeps ==
  ASSUME NEW s, NEW t, NEW c, s.disk = disk, s.log = <<>>, s.lost = {}, Served(t), Whole(t, c, leaked), Quiet(s, t),
         Handled(disk, files, t.files)
  PROVE  IInv' /\ Serves
<1>1. t.disk = disk /\ t.log = <<>> /\ leaked \cup t.lost = leaked
  BY DEF Quiet
<1>2. Whole(t, Frame(disk, t.files), leaked \cup t.lost)
  BY <1>1, QuietEnds
<1>. QED  BY <1>2, ServedKeeps

\* The inputs of the calls.
LEMMA Inputs ==
  /\ Fails \subseteq Nat /\ Lengths \subseteq Nat /\ Offsets \subseteq Nat /\ BadNames \subseteq Names
BY FileSysAssumption

\* filesys_create() keeps the invariant.
LEMMA CreateKeeps ==
  ASSUME IInv, NoShortRead, NEW n \in Names, NEW size \in Lengths, NEW fail \in Fails, Create(n, size, fail)
  PROVE  IInv' /\ Serves
<1>. DEFINE s == Start(fail)
            e == Frame(disk, files)
            t == FilesysCreate(s, n, size)
<1>1. Ready /\ Served(t) /\ fail \in Nat /\ size \in Nat /\ fail <= Budget
  BY Inputs DEF Create, NoShortRead
<1>2. Begun(s, fail)
  BY <1>1, Begins
<1>. HIDE DEF s, e, t
<1>3. Whole(s, e, leaked) /\ s.files = files /\ s.lost = {} /\ s.fail = fail
  BY <1>2 DEF Begun, e
<1>4. Good(s, e, Openers(files), Deniers(files), leaked) /\ files \in FileTable
  BY <1>3 DEF Whole
<1>5. Openers(files)[ROOT_DIR_SECTOR] = 0
  BY <1>4, OpenedIs
<1>6. Good(t, e, Openers(files), Deniers(files), leaked \cup t.lost) /\ t.files = files
  BY <1>1, <1>3, <1>4, <1>5, FileCreates DEF t
<1>7. Whole(t, Frame(disk, t.files), leaked \cup t.lost)
  BY <1>4, <1>6 DEF Whole, e
<1>8. Handled(disk, files, t.files)
  BY <1>6 DEF Handled
<1>. QED  BY <1>1, <1>7, <1>8, ServedKeeps

\* filesys_remove() keeps the invariant.
LEMMA RemoveKeeps ==
  ASSUME IInv, NEW n \in Names, NEW fail \in Fails, Remove(n, fail)
  PROVE  IInv' /\ Serves
<1>. DEFINE s == Start(fail)
            t == FilesysRemove(s, n)
<1>1. Ready /\ Served(t) /\ fail \in Nat
  BY Inputs DEF Remove
<1>2. Begun(s, fail)
  BY <1>1, Begins
<1>. HIDE DEF s, t
<1>3. Whole(s, Frame(disk, files), leaked) /\ s.files = files /\ s.lost = {}
  BY <1>2 DEF Begun
<1>4. Whole(t, Frame(disk, files), leaked) /\ t.files = files /\ t.lost = {}
  BY <1>3, FileRemoves DEF t
<1>5. Whole(t, Frame(disk, t.files), leaked \cup t.lost)
  BY <1>4
<1>6. Handled(disk, files, t.files)
  BY <1>4 DEF Handled
<1>. QED  BY <1>1, <1>5, <1>6, ServedKeeps

\* filesys_open() keeps the invariant.
LEMMA OpenKeeps ==
  ASSUME IInv, NEW n \in Names, NEW h \in Handles, NEW fail \in Fails, Open(n, h, fail)
  PROVE  IInv' /\ Serves
<1>. DEFINE s == Start(fail)
            e == Frame(disk, files)
            t == FilesysOpen(s, n, h)
<1>1. Ready /\ Served(t) /\ fail \in Nat /\ files[h] = NONE
  BY Inputs DEF Open, Opened
<1>2. Begun(s, fail)
  BY <1>1, Begins
<1>. HIDE DEF s, e, t
<1>3. Whole(s, e, leaked) /\ s.files = files /\ s.files[h] = NONE /\ s.lost = {} /\ s.log = <<>> /\ s.disk = disk
  BY <1>1, <1>2 DEF Begun, e
<1>4. Whole(t, e, leaked) /\ Quiet(s, t) /\ Gets(s.files, t.files, h, Named(s.disk))
  BY <1>3, FileOpens DEF t
<1>5. Handled(disk, files, t.files)
  BY <1>1, <1>3, <1>4, HandleGets
<1>. QED  BY <1>1, <1>3, <1>4, <1>5, QuietKeeps

\* file_close() keeps the invariant.
LEMMA CloseKeeps ==
  ASSUME IInv, NEW h \in Handles, Close(h)
  PROVE  IInv' /\ Serves
<1>. DEFINE s == Start(0)
            g == Given(files, h, NONE)
            e == Frame(disk, g)
            t == FileClose(s, h)
<1>1. Ready /\ Served(t) /\ files[h] # NONE
  BY DEF Close, Opened
<1>2. Begun(s, 0)
  BY <1>1, Begins
<1>. HIDE DEF s, g, e, t
<1>3. /\ Whole(s, Frame(disk, files), leaked) /\ s.files = files /\ s.files[h] # NONE /\ s.lost = {}
      /\ s.log = <<>> /\ s.disk = disk
  BY <1>1, <1>2 DEF Begun
<1>4. Good(s, Frame(disk, files), Openers(files), Deniers(files), leaked) /\ files \in FileTable
  BY <1>3 DEF Whole
<1>5. e.from = disk /\ e.open = OpenedBy(g) /\ e.write = WritableBy(g) /\ e.open \cup e.write \subseteq OpenedBy(g)
  BY DEF e, Frame, WritableBy
<1>6. OpenedBy(g) \subseteq OpenedBy(files)
  <2>1. g[h] = NONE /\ \A k \in Handles \ {h} : g[k] = files[k]
    BY <1>4 DEF g, Given, FileTable
  <2>. QED  BY <2>1 DEF OpenedBy, On
<1>7. e.open \cup e.write \subseteq DOMAIN s.inodes \ Special
  <2>1. OpenedBy(files) \subseteq DOMAIN s.inodes \ Special
    BY <1>3, WholeMeans
  <2>. QED  BY <2>1, <1>5, <1>6
<1>8. Good(s, e, Openers(files), Deniers(files), leaked)
  BY <1>3, <1>4, <1>5, <1>7, Reframed
<1>9. Whole(s, e, leaked)
  BY <1>3, <1>4, <1>8 DEF Whole
<1>10. Whole(t, e, leaked) /\ t.files = g /\ t.lost = {}
  <2>1. e.open \cup e.write \subseteq OpenedBy(Given(s.files, h, NONE)) /\ g = Given(s.files, h, NONE)
    BY <1>3, <1>5 DEF g
  <2>. QED  BY <2>1, <1>3, <1>9, FileCloses DEF t
<1>11. Whole(t, Frame(disk, t.files), leaked \cup t.lost)
  BY <1>10 DEF e
<1>12. Handled(disk, files, t.files)
  BY <1>1, <1>10 DEF Handled, g
<1>. QED  BY <1>1, <1>11, <1>12, ServedKeeps

\* file_reopen() and file_duplicate() keep the invariant.
LEMMA CopyKeeps ==
  ASSUME IInv, NEW h \in Handles, NEW g \in Handles, NEW fail \in 0..1, Reopen(h, g, fail) \/ Duplicate(h, g, fail)
  PROVE  IInv' /\ Serves
<1>. DEFINE s == Start(fail)
            e == Frame(disk, files)
            r == FileReopen(s, h, g)
            d == FileDuplicate(s, h, g)
<1>1. Ready /\ fail \in Nat /\ files[h] # NONE /\ files[g] = NONE /\ (Served(r) \/ Served(d))
  BY DEF Reopen, Duplicate, Opened
<1>2. Begun(s, fail)
  BY <1>1, Begins
<1>. HIDE DEF s, e, r, d
<1>3. /\ Whole(s, e, leaked) /\ s.files = files /\ s.files[h] # NONE /\ s.files[g] = NONE /\ s.lost = {}
      /\ s.log = <<>> /\ s.disk = disk
  BY <1>1, <1>2 DEF Begun, e
<1>. DEFINE S == {files[h].sector}
<1>4. Whole(r, e, leaked) /\ Quiet(s, r) /\ Gets(files, r.files, g, S)
  <2>1. Reopened(s, e, leaked, g, s.files[h].sector, r)
    BY <1>3, FileReopens DEF r
  <2>. QED  BY <2>1, <1>3 DEF Reopened
<1>5. Whole(d, e, leaked) /\ Quiet(s, d) /\ Gets(files, d.files, g, S)
  BY <1>3, FileDuplicates DEF d
<1>6. S \subseteq Named(disk) \cup OpenedBy(files)
  <2>1. files \in FileTable
    BY <1>3 DEF Whole
  <2>2. files[h].sector \in Sectors /\ h \in On(files, files[h].sector)
    BY <2>1, <1>1, FilesAre DEF On
  <2>. QED  BY <2>2 DEF OpenedBy
<1>. HIDE DEF S
<1>7. Handled(disk, files, r.files) /\ Handled(disk, files, d.files)
  BY <1>1, <1>4, <1>5, <1>6, HandleGets
<1>. QED  BY <1>1, <1>3, <1>4, <1>5, <1>7, QuietKeeps

\* file_write() keeps the invariant.
LEMMA WriteKeeps ==
  ASSUME IInv, NEW h \in Handles, NEW size \in Lengths, NEW v, NEW fail \in 0..1, Write(h, size, v, fail)
  PROVE  IInv' /\ Serves
<1>. DEFINE s == Start(fail)
            cells == [i \in 1..size |-> <<v>>]
            t == FileWrite(s, h, cells)
<1>1. Ready /\ Served(t) /\ fail \in Nat /\ files[h] # NONE /\ size \in Nat
  BY Inputs DEF Write, Opened
<1>2. Len(cells) \in Nat
  BY <1>1
<1>3. Begun(s, fail)
  BY <1>1, Begins
<1>. HIDE DEF s, cells, t
<1>4. Whole(s, Frame(disk, files), leaked) /\ s.files = files /\ s.files[h] # NONE /\ s.lost = {}
  BY <1>1, <1>3 DEF Begun
<1>5. WritableBy(s.files) \subseteq Frame(disk, files).write
  BY <1>4 DEF Frame
<1>6. /\ Whole(t, Frame(disk, files), leaked) /\ Same(files, t.files) /\ t.lost = {}
      /\ Gets(files, t.files, h, {files[h].sector})
  BY <1>2, <1>4, <1>5, FileWrites DEF t
<1>7. Whole(t, Frame(disk, t.files), leaked \cup t.lost)
  <2>1. Frame(disk, t.files) = Frame(disk, files) /\ leaked \cup t.lost = leaked
    BY <1>6 DEF Frame, Same
  <2>. QED  BY <2>1, <1>6
<1>8. Handled(disk, files, t.files)
  BY <1>1, <1>6, HandleGets
<1>. QED  BY <1>1, <1>7, <1>8, ServedKeeps

\* file_read() keeps the invariant.
LEMMA ReadKeeps ==
  ASSUME IInv, NEW h \in Handles, NEW size \in Lengths, NEW fail \in 0..1, Read(h, size, fail)
  PROVE  IInv' /\ Serves
<1>. DEFINE s == Start(fail)
            e == Frame(disk, files)
            t == FileRead(s, h, size)
<1>1. Ready /\ Served(t) /\ fail \in Nat /\ files[h] # NONE /\ size \in Nat
  BY Inputs DEF Read, Opened
<1>2. Begun(s, fail)
  BY <1>1, Begins
<1>. HIDE DEF s, e, t
<1>3. /\ Whole(s, e, leaked) /\ s.files = files /\ s.files[h] # NONE /\ s.lost = {} /\ s.log = <<>>
      /\ s.disk = disk
  BY <1>1, <1>2 DEF Begun, e
<1>4. Whole(t, e, leaked) /\ Quiet(s, t) /\ Gets(files, t.files, h, {files[h].sector})
  BY <1>1, <1>3, FileReads DEF t
<1>5. Handled(disk, files, t.files)
  BY <1>1, <1>4, HandleGets
<1>. QED  BY <1>1, <1>3, <1>4, <1>5, QuietKeeps

\* file_deny_write(), file_allow_write() and file_seek() keep the invariant.
LEMMA HandleKeeps ==
  ASSUME IInv, NEW h \in Handles, Deny(h) \/ Allow(h) \/ \E pos \in Offsets : Seek(h, pos)
  PROVE  IInv' /\ Serves
<1>. DEFINE s == Start(0)
            e == Frame(disk, files)
            d == FileDenyWrite(s, h)
            a == FileAllowWrite(s, h)
<1>1. Ready /\ files[h] # NONE /\ (Served(d) \/ Served(a) \/ \E pos \in Nat : Served(AtPos(s, h, pos)))
  BY Inputs DEF Deny, Allow, Seek, Opened, AtPos
<1>2. Begun(s, 0)
  BY <1>1, Begins
<1>. HIDE DEF s, e, d, a
<1>3. /\ Whole(s, e, leaked) /\ s.files = files /\ s.files[h] # NONE /\ s.lost = {} /\ s.log = <<>>
      /\ s.disk = disk
  BY <1>1, <1>2 DEF Begun, e
<1>4. Whole(d, e, leaked) /\ Quiet(s, d) /\ Gets(files, d.files, h, {files[h].sector})
  BY <1>3, FileDenies DEF d
<1>5. Whole(a, e, leaked) /\ Quiet(s, a) /\ Gets(files, a.files, h, {files[h].sector})
  <2>1. Allowed(s, e, leaked, h, a)
    BY <1>3, FileAllows DEF a
  <2>. QED  BY <2>1, <1>3 DEF Allowed
<1>6. ASSUME NEW pos \in Nat, NEW t, t = AtPos(s, h, pos)
      PROVE  Whole(t, e, leaked) /\ Quiet(s, t) /\ Gets(files, t.files, h, {files[h].sector})
  <2>1. Whole(t, e, leaked) /\ Like(s, t, {"files"}) /\ Gets(files, t.files, h, {files[h].sector})
    BY <1>3, <1>6, PosMoves
  <2>. QED  BY <2>1, LikeMeans DEF Quiet
<1>7. ASSUME NEW t, Gets(files, t.files, h, {files[h].sector}) PROVE Handled(disk, files, t.files)
  BY <1>1, <1>7, HandleGets
<1>. QED  BY <1>1, <1>3, <1>4, <1>5, <1>6, <1>7, QuietKeeps

\* One write reaching the disk keeps the invariant: the trail shifts.
LEMMA FlushKeeps ==
  ASSUME IInv, Flush
  PROVE  IInv'
<1>1. /\ log # <<>> /\ log' = Tail(log) /\ disk' = [disk EXCEPT ![Head(log).sector] = Head(log).cells]
      /\ free_map' = free_map /\ map_open' = map_open /\ inodes' = inodes /\ files' = files
      /\ panic' = panic /\ leaked' = leaked
  BY DEF Flush, memory
<1>2. map_open /\ ~panic
  BY <1>1 DEF IInv, StateOK
<1>3. PICK D : Whole(Record(D, log, free_map, map_open, inodes, files, panic), Frame(disk, files), leaked)
  BY <1>2 DEF IInv, StateOK
<1>. DEFINE r == Record(D, log, free_map, map_open, inodes, files, panic)
            rest == Tail(log)
            t == Record(D, rest, free_map, map_open, inodes, files, panic)
            cnt == Openers(files)
            dn == Deniers(files)
            e == Frame(disk, files)
            e2 == Frame(disk', files)
<1>4. /\ r.disk = D /\ r.log = log /\ r.free_map = free_map /\ r.map_open = map_open /\ r.inodes = inodes
      /\ r.files = files /\ r.panic = panic
      /\ Rec(t) /\ t.disk = D /\ t.log = rest /\ t.free_map = free_map /\ t.map_open = map_open /\ t.inodes = inodes
      /\ t.files = files /\ t.panic = panic /\ t.fail = 0
  <2>1. /\ r.disk = D /\ r.log = log /\ r.free_map = free_map /\ r.map_open = map_open /\ r.inodes = inodes
        /\ r.files = files /\ r.panic = panic
    BY RecordIs
  <2>. HIDE DEF rest
  <2>2. /\ Rec(t) /\ t.disk = D /\ t.log = rest /\ t.free_map = free_map /\ t.map_open = map_open
        /\ t.inodes = inodes /\ t.files = files /\ t.panic = panic /\ t.fail = 0
    BY RecordIs
  <2>. QED  BY <2>1, <2>2
<1>5. e.from = disk /\ e2.from = disk' /\ e2.open = e.open /\ e2.write = e.write
  BY DEF Frame
<1>. HIDE DEF r, rest, t, e, e2, cnt, dn
<1>6. files \in FileTable /\ Good(r, e, cnt, dn, leaked)
  BY <1>3, <1>4 DEF Whole, r, e, cnt, dn
<1>7. /\ Trail(disk, log, D, e.open, e.write) /\ Opens(D, inodes, cnt, dn) /\ Space(D, free_map, Live(r), leaked)
      /\ e.open \cup e.write \subseteq DOMAIN inodes \ Special
  BY <1>4, <1>5, <1>6 DEF Good
<1>8. Live(t) = Live(r)
  BY <1>4 DEF Live
<1>9. Trail(disk', rest, D, e.open, e.write)
  BY <1>1, <1>7, TrailShifts DEF rest
<1>10. Good(t, e2, cnt, dn, leaked)
  BY <1>2, <1>4, <1>5, <1>7, <1>8, <1>9 DEF Good
<1>11. Whole(t, e2, leaked)
  BY <1>4, <1>6, <1>10 DEF Whole, cnt, dn
<1>. QED  BY <1>1, <1>2, <1>11 DEF IInv, StateOK, t, e2, rest

\* The kernel stopping keeps the invariant: the disk of the trail is sound wherever it
\* stops.
LEMMA StopKeeps ==
  ASSUME IInv, Stop
  PROVE  IInv'
<1>1. map_open /\ ~panic /\ disk' = disk /\ leaked' = Stray(disk) /\ log' = Off(disk).log
      /\ map_open' = Off(disk).map_open /\ panic' = Off(disk).panic
  BY DEF Stop, Stray
<1>2. ~map_open' /\ ~panic' /\ log' = <<>>
  BY <1>1 DEF Off
<1>3. PICK D : Whole(Record(D, log, free_map, map_open, inodes, files, panic), Frame(disk, files), leaked)
  BY <1>1 DEF IInv, StateOK
<1>4. DiskOK(Frame(disk, files).from)
  BY <1>3, WholeMeans
<1>5. DiskOK(disk)
  BY <1>4 DEF Frame
<1>. QED  BY <1>1, <1>2, <1>5 DEF IInv, StateOK

\* The inode of the free map when the kernel has opened it.
MapNode == [open_cnt |-> 1, removed |-> FALSE, deny_write_cnt |-> 0, start |-> 2, length |-> SECTORS]

\* It is the only one that is open.
MapOnly(nodes) == IsNodes(nodes) /\ DOMAIN nodes = {FREE_MAP_SECTOR} /\ nodes[FREE_MAP_SECTOR] = MapNode

\* The disk has the inode of the free map.
Headed(d) == d[FREE_MAP_SECTOR][1] = <<2, SECTORS>>

\* The state after file_open() of the free map.
MapFileOpened(s, o) == Like(s, o, {"inodes", "ok", "fail"}) /\ o.fail = 0 /\ MapOnly(o.inodes)

\* free_map_open() opens the file of the map.
LEMMA MapFileOpens ==
  ASSUME NEW s, Rec(s), s.fail = 0, DOMAIN s.inodes = {}, Headed(s.disk)
  PROVE  MapFileOpened(s, InodeOpen(s, FREE_MAP_SECTOR))
<1>. DEFINE d == s.disk
            x == FREE_MAP_SECTOR
            no == FALSE
            fresh == [open_cnt |-> 1, removed |-> no, deny_write_cnt |-> 0, start |-> d[x][1][1], length |-> d[x][1][2]]
            a == Alloc(s)
            more == [i \in DOMAIN a.inodes \union {x} |-> IF i = x THEN fresh ELSE a.inodes[i]]
            o == InodeOpen(s, x)
<1>1. s.fail \in Nat
  OBVIOUS
<1>2. Like(s, a, {"ok", "fail"}) /\ a.ok /\ a.fail = 0 /\ a.inodes = s.inodes /\ Rec(a)
  <2>1. Like(s, a, {"ok", "fail"}) /\ a.ok \in BOOLEAN /\ (a.ok <=> s.fail # 1) /\ a.fail \in Nat /\ a.fail <= s.fail
    BY <1>1, AllocIs
  <2>. HIDE DEF a
  <2>. QED  BY <2>1, LikeMeans
<1>3. o = IF x \in DOMAIN s.inodes THEN [s EXCEPT !.inodes[x].open_cnt = @ + 1, !.ok = TRUE]
          ELSE IF ~a.ok THEN a ELSE [a EXCEPT !.inodes = [i \in DOMAIN @ \union {x} |-> IF i = x THEN fresh ELSE @[i]]]
  BY DEF InodeOpen, With
<1>. HIDE DEF a, o, fresh
<1>4. o = [a EXCEPT !.inodes = more]
  BY <1>2, <1>3 DEF Rec, Fields
<1>5. MapOnly(more)
  <2>1. fresh = MapNode
    BY DEF fresh, MapNode, Headed
  <2>2. DOMAIN more = {x} /\ IsNodes(more) /\ more[x] = fresh
    BY <1>2 DEF IsNodes
  <2>. HIDE DEF more
  <2>. QED  BY <2>1, <2>2 DEF MapOnly
<1>. HIDE DEF more
<1>6. Like(a, o, {"inodes"}) /\ o.inodes = more
  BY <1>2, <1>4 DEF Like, Rec, Fields
<1>7. o.fail = 0 /\ Like(s, o, {"inodes", "ok", "fail"})
  BY <1>2, <1>6, LikeMeans, LikeChains
<1>. QED  BY <1>5, <1>6, <1>7 DEF MapFileOpened, o

\* The state after free_map_open(): the map in memory is that on the disk.
MapOpened(s, t) ==
    /\ Like(s, t, {"free_map", "map_open", "inodes", "ok", "fail"}) /\ t.map_open /\ t.fail = 0
    /\ MapOnly(t.inodes) /\ IsMap(t.free_map) /\ \A i \in Sectors : t.free_map[i] <=> i \in Marked(s.disk)

\* free_map_open() reads the map.
LEMMA MapOpens ==
  ASSUME NEW s, Rec(s), s.fail = 0, DOMAIN s.inodes = {}, Headed(s.disk)
  PROVE  MapOpened(s, FreeMapOpen(s))
<1>. DEFINE yes == TRUE
            o == InodeOpen(s, FREE_MAP_SECTOR)
            inode == o.inodes[FREE_MAP_SECTOR]
            tr == Transfer(o, inode, SECTORS, 0)
            r == InodeReadAt(o, inode, SECTORS, 0)
            fm == [i \in Sectors |-> r.cells[i + 1] # Zero]
            u == [o EXCEPT !.map_open = yes]
            t == FreeMapOpen(s)
<1>1. t = [o EXCEPT !.map_open = yes, !.free_map = fm]
  BY DEF FreeMapOpen, With
<1>2. MapFileOpened(s, o)
  BY MapFileOpens
<1>. HIDE DEF o
<1>3. Like(s, o, {"inodes", "ok", "fail"}) /\ o.fail = 0 /\ MapOnly(o.inodes) /\ o.disk = s.disk /\ Rec(o)
  BY <1>2, LikeMeans DEF MapFileOpened
<1>4. inode.start = 2 /\ inode.length = SECTORS
  BY <1>3 DEF MapOnly, MapNode
<1>5. r = [s |-> tr.s, cells |-> [i \in 1..tr.done |-> CellAt(o.disk, inode, 0 + i - 1)]]
  BY DEF InodeReadAt, With
<1>. HIDE DEF inode
<1>6. tr.done = SECTORS
  <2>1. o.fail \in Nat /\ inode.length \in Nat /\ SECTORS \in Nat /\ 0 \in Nat /\ 0 + SECTORS <= inode.length
    BY <1>3, <1>4, Consts
  <2>. QED  BY <2>1, <1>3, TransferIs
<1>. HIDE DEF tr, r
<1>7. \A i \in Sectors : r.cells[i + 1] = Bit(s.disk, i)
  <2>1. ASSUME NEW i \in Sectors PROVE r.cells[i + 1] = Bit(s.disk, i)
    <3>1. i \in Nat /\ i + 1 \in 1..SECTORS /\ 0 + (i + 1) - 1 = i
      BY Consts DEF Sectors
    <3>2. r.cells[i + 1] = CellAt(o.disk, inode, 0 + (i + 1) - 1)
      BY <3>1, <1>5, <1>6
    <3>. QED  BY <3>1, <3>2, <1>3, <1>4 DEF CellAt, Bit
  <2>. QED  BY <2>1
<1>8. IsMap(fm) /\ \A i \in Sectors : fm[i] <=> i \in Marked(s.disk)
  BY <1>7 DEF IsMap, Marked
<1>. HIDE DEF fm, t
<1>9. Like(o, u, {"map_open"}) /\ u.map_open = yes
  BY <1>3 DEF Like, Rec, Fields
<1>10. t = [u EXCEPT !.free_map = fm]
  BY <1>1, <1>3 DEF Rec, Fields
<1>. HIDE DEF yes, u
<1>11. Like(u, t, {"free_map"}) /\ t.free_map = fm
  <2>1. Rec(u)
    BY <1>9 DEF Like
  <2>. QED  BY <2>1, <1>10 DEF Like, Rec, Fields
<1>12. t.map_open = yes /\ t.inodes = o.inodes /\ t.fail = o.fail
  BY <1>9, <1>11, LikeMeans
<1>13. Like(s, t, {"free_map", "map_open", "inodes", "ok", "fail"})
  <2>1. Like(s, u, {"map_open", "inodes", "ok", "fail"})
    BY <1>3, <1>9, LikeChains
  <2>. QED  BY <2>1, <1>11, LikeChains
<1>14. t.map_open
  BY <1>12 DEF yes
<1>. QED  BY <1>3, <1>8, <1>11, <1>12, <1>13, <1>14 DEF MapOpened, t

\* No handle has a file.
Unopened == [h \in Handles |-> NONE]

\* Then nothing is open, but the map.
LEMMA UnopenedIs ==
  /\ Unopened \in FileTable /\ OpenedBy(Unopened) = {} /\ WritableBy(Unopened) = {}
  /\ \A x \in Sectors : Openers(Unopened)[x] = (IF x = FREE_MAP_SECTOR THEN 1 ELSE 0) /\ Deniers(Unopened)[x] = 0
  /\ Openers(Unopened) \in [Sectors -> Nat] /\ Deniers(Unopened) \in [Sectors -> Nat]
<1>1. Unopened \in FileTable
  BY DEF Unopened, FileTable
<1>2. \A x : On(Unopened, x) = {} /\ Denying(Unopened, x) = {}
  BY DEF On, Denying, Unopened
<1>3. OpenedBy(Unopened) = {} /\ WritableBy(Unopened) = {}
  BY <1>2 DEF OpenedBy, WritableBy
<1>4. \A x \in Sectors : Cardinality(On(Unopened, x)) = 0 /\ Cardinality(Denying(Unopened, x)) = 0
  BY <1>2, FS_EmptySet
<1>5. \A x \in Sectors : Openers(Unopened)[x] = (IF x = FREE_MAP_SECTOR THEN 1 ELSE 0) /\ Deniers(Unopened)[x] = 0
  <2>1. \A x \in Sectors : /\ Openers(Unopened)[x] = 0 + (IF x = FREE_MAP_SECTOR THEN 1 ELSE 0)
                           /\ Deniers(Unopened)[x] = 0
    BY <1>4, CountsAre
  <2>. QED  BY <2>1
<1>6. Openers(Unopened) \in [Sectors -> Nat] /\ Deniers(Unopened) \in [Sectors -> Nat]
  BY BaseIs, CountsAre
<1>. QED  BY <1>1, <1>3, <1>5, <1>6

\* What free_map_open() leaves is whole: what the map on the disk has and
\* nothing on the disk owns is stray.
LEMMA Mounts ==
  ASSUME NEW s, Rec(s), s.fail = 0, DOMAIN s.inodes = {}, DiskOK(s.disk), ~s.panic, s.files = Unopened,
         NEW u, u = FreeMapOpen(s), NEW t, Like(u, t, {"log"} \cup Scratch), t.log = <<>>, t.files = u.files, t.fail = 0
  PROVE  Whole(t, Frame(s.disk, Unopened), Stray(s.disk))
<1>. DEFINE d == s.disk
            cnt == Openers(Unopened)
            dn == Deniers(Unopened)
            e == Frame(d, Unopened)
<1>1. Headed(d) /\ Layout(d)
  BY DEF DiskOK, Layout, Headed
<1>2. MapOpened(s, u)
  BY <1>1, MapOpens
<1>. HIDE DEF d, cnt, dn, e
<1>3. /\ Rec(t) /\ t.disk = d /\ t.log = <<>> /\ t.files = Unopened /\ ~t.panic /\ t.map_open /\ t.fail \in Nat
      /\ MapOnly(t.inodes) /\ IsMap(t.free_map) /\ \A i \in Sectors : t.free_map[i] <=> i \in Marked(d)
  <2>1. /\ u.disk = d /\ u.files = Unopened /\ ~u.panic /\ u.map_open
        /\ MapOnly(u.inodes) /\ IsMap(u.free_map) /\ \A i \in Sectors : u.free_map[i] <=> i \in Marked(d)
    BY <1>2, LikeMeans DEF MapOpened, d
  <2>2. /\ Rec(t) /\ t.disk = u.disk /\ t.panic = u.panic /\ t.map_open = u.map_open /\ t.inodes = u.inodes
        /\ t.free_map = u.free_map
    BY LikeMeans DEF Scratch
  <2>. QED  BY <2>1, <2>2
<1>4. e.from = d /\ e.open = {} /\ e.write = {}
  BY UnopenedIs DEF e, Frame
<1>5. Trail(e.from, t.log, t.disk, e.open, e.write)
  <2>1. Trail(d, <<>>, d, e.open, e.write)
    BY TrailStarts DEF d
  <2>. QED  BY <2>1, <1>3, <1>4
<1>6. FREE_MAP_SECTOR \in Sectors /\ ROOT_DIR_SECTOR \in Sectors /\ FREE_MAP_SECTOR # ROOT_DIR_SECTOR
  BY BaseIs DEF FREE_MAP_SECTOR, ROOT_DIR_SECTOR
<1>7. /\ \A x \in Sectors : cnt[x] = (IF x = FREE_MAP_SECTOR THEN 1 ELSE 0) /\ dn[x] = 0
      /\ cnt \in [Sectors -> Nat] /\ dn \in [Sectors -> Nat]
  BY UnopenedIs DEF cnt, dn
<1>8. Opens(d, t.inodes, cnt, dn)
  <2>1. DOMAIN t.inodes = {FREE_MAP_SECTOR} /\ t.inodes[FREE_MAP_SECTOR] = MapNode /\ IsNodes(t.inodes)
    BY <1>3 DEF MapOnly
  <2>2. {i \in Sectors : cnt[i] > 0} = {FREE_MAP_SECTOR}
    BY <1>6, <1>7
  <2>3. MapNode = Inode(d, FREE_MAP_SECTOR, cnt, dn)
    <3>1. Header(d, FREE_MAP_SECTOR) = [start |-> 2, length |-> SECTORS]
      BY <1>1, LayoutMeans
    <3>2. cnt[FREE_MAP_SECTOR] = 1 /\ dn[FREE_MAP_SECTOR] = 0
      BY <1>6, <1>7
    <3>. DEFINE no == FALSE
    <3>3. Gone(d, FREE_MAP_SECTOR) = no
      BY DEF Gone, Special
    <3>4. MapNode = [open_cnt |-> 1, removed |-> no, deny_write_cnt |-> 0, start |-> 2, length |-> SECTORS]
      BY DEF MapNode
    <3>. HIDE DEF no
    <3>. QED  BY <3>1, <3>2, <3>3, <3>4 DEF Inode
  <2>4. \A i \in DOMAIN t.inodes : t.inodes[i] = Inode(d, i, cnt, dn)
    BY <2>1, <2>3
  <2>5. \A i \in Sectors : dn[i] <= cnt[i]
    BY <1>7
  <2>6. cnt[FREE_MAP_SECTOR] > 0 /\ dn[FREE_MAP_SECTOR] = 0 /\ dn[ROOT_DIR_SECTOR] = 0
    BY <1>6, <1>7
  <2>. QED  BY <2>1, <2>2, <2>4, <2>5, <2>6, <1>7 DEF Opens
<1>9. Live(t) = Named(d)
  BY <1>3 DEF Live, MapOnly, Special
<1>10. Space(d, t.free_map, Named(d), Stray(d))
  <2>1. Apart(d, Named(d)) /\ Base \cup OwnedBy(d, Named(d)) \subseteq Marked(d)
    BY DEF DiskOK, d
  <2>2. Stray(d) = Marked(d) \ (Base \cup OwnedBy(d, Named(d)))
    BY <1>1, LayoutMeans DEF Stray
  <2>3. Marked(d) \subseteq Sectors
    BY DEF Marked
  <2>4. t.free_map = [i \in Sectors |-> t.free_map[i]] /\ \A i \in Sectors : t.free_map[i] \in BOOLEAN
    BY <1>3 DEF IsMap
  <2>5. \A i \in Sectors : t.free_map[i] <=> i \in Base \cup OwnedBy(d, Named(d)) \cup Stray(d)
    BY <2>1, <2>2, <1>3
  <2>6. Stray(d) \subseteq Sectors /\ Stray(d) \cap (Base \cup OwnedBy(d, Named(d))) = {}
    BY <2>2, <2>3
  <2>. QED  BY <2>1, <2>4, <2>5, <2>6 DEF Space
<1>11. Good(t, e, cnt, dn, Stray(d))
  BY <1>3, <1>4, <1>5, <1>8, <1>9, <1>10 DEF Good
<1>. QED  BY <1>3, <1>11, UnopenedIs DEF Whole, cnt, dn, d, e

\* The kernel starting again keeps the invariant.
LEMMA BootKeeps ==
  ASSUME IInv, Boot
  PROVE  IInv' /\ map_open' /\ disk' = disk /\ files' = Unopened
<1>. DEFINE yes == TRUE
            o == Off(disk)
            m == [o EXCEPT !.free_map[FREE_MAP_SECTOR] = yes]
            s == FreeMapInit(o)
            t == FilesysInit(disk, FALSE)
<1>1. ~map_open /\ Served(t) /\ t = FreeMapOpen(s)
  BY DEF Boot, FilesysInit
<1>2. DiskOK(disk) /\ leaked = Stray(disk)
  BY <1>1 DEF IInv, StateOK
<1>3. Rec(o) /\ o.disk = disk /\ o.log = <<>> /\ o.fail = 0 /\ DOMAIN o.inodes = {} /\ ~o.panic /\ o.files = Unopened
      /\ o.lost = {}
  BY DEF Off, Rec, Fields, Unopened
<1>4. s = [m EXCEPT !.free_map[ROOT_DIR_SECTOR] = yes]
  BY DEF FreeMapInit
<1>. HIDE DEF o, t, s, yes
<1>5. Like(o, m, {"free_map"})
  BY <1>3 DEF Like, Rec, Fields
<1>. HIDE DEF m
<1>6. Like(m, s, {"free_map"})
  <2>1. Rec(m)
    BY <1>5 DEF Like
  <2>. QED  BY <2>1, <1>4 DEF Like, Rec, Fields
<1>7. Like(o, s, {"free_map"})
  BY <1>5, <1>6, LikeChains
<1>8. /\ Rec(s) /\ s.disk = disk /\ s.log = <<>> /\ s.fail = 0 /\ DOMAIN s.inodes = {} /\ ~s.panic /\ s.files = Unopened
      /\ s.lost = {}
  BY <1>3, <1>7, LikeMeans
<1>9. t.files = Unopened /\ t.lost = {} /\ t.log = <<>> /\ t.fail = 0 /\ Rec(t)
  <2>1. Headed(s.disk)
    BY <1>2, <1>8 DEF DiskOK, Layout, Headed
  <2>2. MapOpened(s, t)
    BY <2>1, <1>1, <1>8, MapOpens
  <2>. QED  BY <2>2, <1>8, LikeMeans DEF MapOpened
<1>10. Whole(t, Frame(disk, Unopened), leaked)
  <2>1. Like(t, t, {"log"} \cup Scratch)
    BY <1>9 DEF Like
  <2>. QED  BY <2>1, <1>1, <1>2, <1>8, <1>9, Mounts
<1>11. Whole(t, Frame(disk, t.files), leaked \cup t.lost)
  BY <1>9, <1>10
<1>12. IInv' /\ map_open' /\ disk' = disk /\ files' = t.files
  BY <1>1, <1>11, ServedEnds
<1>. QED  BY <1>9, <1>12

\* The state after bitmap_write(): the disk has the map, and is otherwise as before.
MapStored(s, t) ==
    /\ Like(s, t, {"disk", "log", "ok", "fail", "done"}) /\ t.ok /\ t.fail = 0 /\ IsDisk(t.disk)
    /\ \A i \in Sectors \ MapSectors : t.disk[i] = s.disk[i]
    /\ \A i \in Sectors : Bit(t.disk, i) = BitCell(s.free_map[i])

\* bitmap_write() of a disk that is being formatted.
LEMMA MapWrites ==
  ASSUME NEW s, Rec(s), IsDisk(s.disk), s.fail = 0, MapOnly(s.inodes)
  PROVE  MapStored(s, BitmapWrite(s))
<1>. DEFINE inode == s.inodes[FREE_MAP_SECTOR]
            r == Transfer(s, inode, SECTORS, 0)
            N == Touched(0, r.done)
            blocks == Blocks(s, inode, MapCells(s), 0, r.done)
            t == BitmapWrite(s)
            u == r.s
            w == DiskWrites(u, 2, blocks)
            D(n) == Wrote(s.disk, 2, blocks, n)
<1>1. inode.start = 2 /\ inode.length = SECTORS /\ inode.deny_write_cnt = 0 /\ s.fail \in Nat
  BY DEF MapOnly, MapNode
<1>2. MapOf(s, r, N, blocks, t)
  <2>. HIDE DEF inode
  <2>2. inode = s.inodes[FREE_MAP_SECTOR]
    BY DEF inode
  <2>. QED  BY <1>1, <2>2, MapParts
<1>. HIDE DEF r, N, blocks, t, inode
<1>3. Like(s, u, {"ok", "fail"}) /\ u.fail = 0
  <2>1. u.fail \in Nat /\ u.fail <= s.fail
    BY <1>2 DEF MapOf
  <2>. QED  BY <2>1, <1>2 DEF MapOf
<1>4. /\ N \in Nat /\ IsRun(blocks, N) /\ \A j \in 1..N : 2 + j - 1 \in MapSectors
      /\ r.done = SECTORS
      /\ \A i \in Sectors : Bit(D(N), i) = BitCell(s.free_map[i])
  BY <1>2 DEF MapOf
<1>. HIDE DEF u
<1>5. Rec(u) /\ IsDisk(u.disk) /\ 2 \in Nat /\ u.disk = s.disk
  BY <1>3, LikeMeans
<1>6. Like(u, w, {"disk", "log"}) /\ w.disk = D(N)
  <2>1. DiskWritten(u, 2, blocks, N, w)
    BY <1>4, <1>5, WritesAre
  <2>. QED  BY <2>1, <1>5 DEF Like, DiskWritten
<1>7. Like(w, t, {"ok", "done"}) /\ t.ok
  BY <1>2, <1>4 DEF MapOf, u
<1>. HIDE DEF w, D
<1>8. t.disk = D(N) /\ t.fail = 0
  BY <1>3, <1>6, <1>7, LikeMeans
<1>9. Like(s, t, {"disk", "log", "ok", "fail", "done"})
  <2>1. Like(s, w, {"disk", "log", "ok", "fail"})
    BY <1>3, <1>6, LikeChains
  <2>. QED  BY <2>1, <1>7, LikeChains
<1>10. ASSUME NEW i \in Sectors \ MapSectors PROVE D(N)[i] = s.disk[i]
  <2>1. i \in Nat
    BY BaseIs
  <2>2. i - 2 + 1 \in 1..N => 2 + (i - 2 + 1) - 1 = i
    BY <2>1
  <2>3. i - 2 + 1 \notin 1..N
    BY <2>2, <1>4
  <2>. QED  BY <2>3 DEF D, Wrote
<1>11. IsDisk(D(N))
  BY DEF D, Wrote, IsDisk
<1>. QED  BY <1>4, <1>7, <1>8, <1>9, <1>10, <1>11 DEF MapStored, t

\* The map has the first k sectors as used.
Upto(fm, k) == IsMap(fm) /\ \A i \in Sectors : fm[i] <=> i < k

\* The first run of free bits begins where the used ones end.
LEMMA FirstFit ==
  ASSUME NEW fm, NEW start \in Nat, Upto(fm, start), NEW n \in Nat \ {0}, start + n <= SECTORS,
         NEW f, f = BitmapScanAndFlip(fm, 0, n, FALSE)
  PROVE  f.idx = start /\ f.idx # BITMAP_ERROR /\ Upto(f.bits, start + n)
<1>1. IsMap(fm) /\ \A i \in Sectors : fm[i] <=> i < start
  BY DEF Upto
<1>2. Flipped(fm, n, f)
  BY <1>1, FlipIs
<1>3. SECTORS \in Nat /\ Sectors = 0..(SECTORS - 1)
  BY Consts DEF Sectors
<1>4. Fits(fm, start, n)
  BY <1>1, <1>3, RunIs DEF Fits
<1>5. f.idx # BITMAP_ERROR
  BY <1>2, <1>4 DEF Flipped
<1>6. /\ Fits(fm, f.idx, n) /\ f.idx <= start
      /\ IsMap(f.bits) /\ \A i \in Sectors : f.bits[i] <=> fm[i] \/ i \in Run(f.idx, n)
  BY <1>2, <1>4, <1>5 DEF Flipped
<1>7. f.idx \in Nat /\ f.idx + n <= SECTORS /\ \A j \in Run(f.idx, n) : ~fm[j]
  BY <1>6 DEF Fits
<1>. DEFINE k == f.idx
            R == Run(k, n)
<1>11. k \in Sectors /\ k < k + n
  <2>. HIDE DEF k
  <2>1. k \in Nat /\ k + n <= SECTORS
    BY <1>7 DEF k
  <2>. QED  BY <2>1, <1>3
<1>12. \A i \in Sectors : i \in R <=> k <= i /\ i < k + n
  BY DEF Run
<1>. HIDE DEF k, R
<1>15. k \in Nat
  BY <1>7 DEF k
<1>8. k \in R
  BY <1>11, <1>12, <1>15
<1>13. ~fm[k]
  BY <1>7, <1>8 DEF k, R
<1>14. ~(k < start) /\ k <= start /\ k \in Nat
  BY <1>1, <1>6, <1>7, <1>11, <1>13 DEF k
<1>9. k = start
  BY <1>14
<1>10. ASSUME NEW i \in Sectors PROVE f.bits[i] <=> i < start + n
  <2>1. f.bits[i] <=> fm[i] \/ i \in R
    BY <1>6 DEF R, k
  <2>2. fm[i] <=> i < start
    BY <1>1
  <2>3. i \in R <=> start <= i /\ i < start + n
    BY <1>9, <1>12
  <2>4. i \in Nat /\ start \in Nat /\ n \in Nat
    BY <1>3
  <2>5. (i < start \/ (start <= i /\ i < start + n)) <=> i < start + n
    BY <2>4
  <2>. QED  BY <2>1, <2>2, <2>3, <2>5, Zenon
<1>. QED  BY <1>5, <1>6, <1>9, <1>10 DEF Upto, k

\* The sectors of the map are written only while its file is open.
Taken(s, start, n, t) ==
    /\ Like(s, t, {"disk", "log", "free_map", "ok", "fail", "done", "sector"}) /\ t.ok /\ t.fail = 0
    /\ t.sector = start /\ Upto(t.free_map, start + n) /\ IsDisk(t.disk)
    /\ \A i \in Sectors \ MapSectors : t.disk[i] = s.disk[i]
    /\ s.map_open => \A i \in Sectors : Bit(t.disk, i) = BitCell(t.free_map[i])

\* free_map_allocate() of a disk that is being formatted takes the next sectors.
LEMMA RunTaken ==
  ASSUME NEW s, Rec(s), s.fail = 0, IsDisk(s.disk), s.map_open => MapOnly(s.inodes),
         NEW start \in Nat, Upto(s.free_map, start), NEW n \in Nat \ {0}, start + n <= SECTORS
  PROVE  Taken(s, start, n, FreeMapAllocate(s, n))
<1>. DEFINE f == BitmapScanAndFlip(s.free_map, 0, n, FALSE)
            yes == TRUE
            x == [s EXCEPT !.free_map = f.bits]
            y == [x EXCEPT !.ok = yes]
            marked == [y EXCEPT !.sector = f.idx]
            w == BitmapWrite(marked)
            t == FreeMapAllocate(s, n)
            Free == {"disk", "log", "free_map", "ok", "fail", "done", "sector"}
<1>1. f.idx = start /\ f.idx # BITMAP_ERROR /\ Upto(f.bits, start + n)
  BY FirstFit
<1>2. marked = [s EXCEPT !.free_map = f.bits, !.ok = TRUE, !.sector = f.idx]
  BY DEF Rec, Fields
<1>. HIDE DEF f, yes
<1>3. Like(s, x, {"free_map"}) /\ x.free_map = f.bits
  BY DEF Like, Rec, Fields
<1>4. Like(x, y, {"ok"}) /\ y.ok = yes
  BY <1>3 DEF Like, Rec, Fields
<1>5. Like(y, marked, {"sector"}) /\ marked.sector = f.idx
  BY <1>4 DEF Like, Rec, Fields
<1>. HIDE DEF x, y, marked, w, t
<1>6. Like(s, marked, {"free_map", "ok", "sector"}) /\ marked.free_map = f.bits /\ marked.ok = yes
  BY <1>3, <1>4, <1>5, LikeMeans, LikeChains
<1>7. /\ Rec(marked) /\ IsDisk(marked.disk) /\ marked.fail = 0 /\ marked.inodes = s.inodes /\ marked.disk = s.disk
      /\ marked.map_open = s.map_open
  BY <1>6, LikeMeans
<1>8. t = With(IF s.map_open THEN w ELSE marked, LAMBDA v :
               IF v.ok THEN v ELSE [v EXCEPT !.free_map = BitmapSetMultiple(@, f.idx, n, FALSE), !.sector = s.sector])
  BY <1>1, <1>2, <1>7 DEF FreeMapAllocate, With, t, f, w
<1>9. ASSUME ~s.map_open PROVE Taken(s, start, n, t)
  <2>1. marked.ok
    BY <1>6 DEF yes
  <2>2. t = marked
    BY <1>8, <1>9, <2>1 DEF With
  <2>3. Like(s, t, Free) /\ t.sector = start /\ t.free_map = f.bits
    BY <2>2, <1>1, <1>5, <1>6, LikeWider
  <2>. QED  BY <2>1, <2>2, <2>3, <1>1, <1>7, <1>9 DEF Taken
<1>10. ASSUME s.map_open PROVE Taken(s, start, n, t)
  <2>1. MapStored(marked, w)
    BY <1>7, <1>10, MapWrites DEF w
  <2>2. /\ Like(marked, w, {"disk", "log", "ok", "fail", "done"}) /\ w.ok /\ w.fail = 0 /\ IsDisk(w.disk)
        /\ \A i \in Sectors \ MapSectors : w.disk[i] = marked.disk[i]
        /\ \A i \in Sectors : Bit(w.disk, i) = BitCell(marked.free_map[i])
    BY <2>1 DEF MapStored
  <2>3. t = w
    BY <1>8, <1>10, <2>2 DEF With
  <2>4. w.sector = start /\ w.free_map = f.bits /\ w.free_map = marked.free_map
    BY <2>2, <1>1, <1>5, <1>6, LikeMeans
  <2>5. Like(s, w, Free)
    BY <2>2, <1>6, LikeChains
  <2>. QED  BY <2>2, <2>3, <2>4, <2>5, <1>1, <1>7 DEF Taken
<1>. QED  BY <1>9, <1>10 DEF t

\* What inode_create() makes of an empty file system for an inode in x.
Formatted(s, x, start, length, n, t) ==
    /\ Like(s, t, {"disk", "log", "free_map", "ok", "fail", "done", "sector"}) /\ t.fail = 0
    /\ Upto(t.free_map, start + n) /\ IsDisk(t.disk) /\ t.disk[x][1] = <<start, length>>
    /\ \A y \in Run(start, n), j \in 1..CELLS : t.disk[y][j] = Zero
    /\ \A y \in Sectors \ ({x} \cup MapSectors \cup Run(start, n)) : t.disk[y] = s.disk[y]
    /\ s.map_open /\ MapSectors \cap ({x} \cup Run(start, n)) = {} =>
          \A i \in Sectors : Bit(t.disk, i) = BitCell(t.free_map[i])

\* inode_create() of a disk that is being formatted takes the next sectors.
LEMMA FormatCreates ==
  ASSUME NEW s, Rec(s), s.fail = 0, IsDisk(s.disk), s.map_open => MapOnly(s.inodes),
         NEW start \in Nat, Upto(s.free_map, start), NEW x \in Sectors, x < start,
         NEW length \in Nat, NEW n \in Nat \ {0}, n = BytesToSectors(length), start + n <= SECTORS
  PROVE  Formatted(s, x, start, length, n, InodeCreate(s, x, length))
<1>. DEFINE a == Alloc(s)
            f == FreeMapAllocate(a, n)
            header == [Zeros EXCEPT ![1] = <<f.sector, length>>]
            one == <<header>>
            h == DiskWrites(f, x, one)
            zeros == [i \in 1..n |-> Zeros]
            z == DiskWrites(h, f.sector, zeros)
            t == InodeCreate(s, x, length)
            R == Run(start, n)
            Free == {"disk", "log", "free_map", "ok", "fail", "done", "sector"}
<1>1. t = IF ~a.ok THEN a ELSE IF ~f.ok THEN f ELSE z
  BY DEF InodeCreate, With, DiskWrite
<1>2. x \in Nat /\ start # x /\ 1 \in Nat /\ n \in Nat
  BY BaseIs
<1>3. Like(s, a, {"ok", "fail"}) /\ a.ok /\ a.fail = 0
  <2>1. s.fail \in Nat
    OBVIOUS
  <2>2. Like(s, a, {"ok", "fail"}) /\ a.ok \in BOOLEAN /\ (a.ok <=> s.fail # 1) /\ a.fail \in Nat /\ a.fail <= s.fail
    BY <2>1, AllocIs
  <2>. HIDE DEF a
  <2>. QED  BY <2>2
<1>. HIDE DEF a, f, t, h, z, header, one, zeros, R
<1>4. /\ Rec(a) /\ IsDisk(a.disk) /\ a.map_open = s.map_open /\ a.inodes = s.inodes /\ a.free_map = s.free_map /\ a.disk = s.disk
  BY <1>3, LikeMeans
<1>5. Taken(a, start, n, f)
  <2>1. a.map_open => MapOnly(a.inodes)
    BY <1>4
  <2>2. Upto(a.free_map, start)
    BY <1>4
  <2>. QED  BY <2>1, <2>2, <1>3, <1>4, RunTaken DEF f
<1>6. /\ Like(a, f, Free) /\ f.ok /\ f.fail = 0 /\ f.sector = start /\ Upto(f.free_map, start + n) /\ IsDisk(f.disk)
      /\ \A i \in Sectors \ MapSectors : f.disk[i] = s.disk[i]
      /\ s.map_open => \A i \in Sectors : Bit(f.disk, i) = BitCell(f.free_map[i])
  BY <1>4, <1>5 DEF Taken
<1>7. t = z
  BY <1>1, <1>3, <1>6
<1>8. Like(f, h, {"disk", "log"}) /\ h.disk = Wrote(f.disk, x, one, 1)
  <2>1. Rec(f) /\ IsRun(one, 1)
    BY <1>6, LikeMeans DEF IsRun, one
  <2>2. DiskWritten(f, x, one, 1, h)
    BY <2>1, <1>2, <1>6, WritesAre DEF h
  <2>. QED  BY <2>2 DEF Like, DiskWritten
<1>9. IsDisk(h.disk) /\ Rec(h)
  BY <1>8, LikeMeans DEF Wrote, IsDisk
<1>10. Like(h, z, {"disk", "log"}) /\ z.disk = Wrote(h.disk, start, zeros, n)
  <2>1. IsRun(zeros, n)
    BY DEF IsRun, zeros
  <2>2. z = DiskWrites(h, start, zeros)
    BY <1>6 DEF z
  <2>3. DiskWritten(h, start, zeros, n, z)
    BY <2>1, <2>2, <1>2, <1>9, WritesAre
  <2>. QED  BY <2>3 DEF Like, DiskWritten
<1>11. ASSUME NEW y \in Sectors
       PROVE  z.disk[y] = IF y \in R THEN Zeros ELSE IF y = x THEN header ELSE f.disk[y]
  <2>1. y \in Nat /\ (y \in R <=> start <= y /\ y < start + n)
    BY BaseIs DEF R, Run
  <2>2. (y - start + 1 \in 1..n <=> start <= y /\ y < start + n) /\ (y - x + 1 \in 1..1 <=> y = x)
    BY <2>1, <1>2
  <2>3. z.disk[y] = IF y - start + 1 \in 1..n THEN zeros[y - start + 1] ELSE h.disk[y]
    BY <1>10 DEF Wrote
  <2>4. h.disk[y] = IF y - x + 1 \in 1..1 THEN one[y - x + 1] ELSE f.disk[y]
    BY <1>8 DEF Wrote
  <2>5. y = x => one[y - x + 1] = header
    BY <1>2 DEF one
  <2>6. y - start + 1 \in 1..n => zeros[y - start + 1] = Zeros
    BY DEF zeros
  <2>. HIDE DEF R
  <2>7. z.disk[y] = IF y \in R THEN Zeros ELSE h.disk[y]
    BY <2>1, <2>2, <2>3, <2>6
  <2>8. h.disk[y] = IF y = x THEN header ELSE f.disk[y]
    BY <2>2, <2>4, <2>5
  <2>. QED  BY <2>7, <2>8
<1>12. x \notin R
  <2>1. ~(start <= x)
    BY <1>2
  <2>. QED  BY <2>1 DEF R, Run
<1>13. header[1] = <<start, length>>
  <2>1. 1 \in 1..CELLS
    BY Consts
  <2>. QED  BY <2>1, <1>6 DEF header, Zeros
<1>14. z.disk[x][1] = <<start, length>>
  BY <1>11, <1>12, <1>13
<1>15. ASSUME NEW y \in R, NEW j \in 1..CELLS PROVE z.disk[y][j] = Zero
  <2>1. y \in Sectors
    BY DEF R, Run
  <2>. QED  BY <2>1, <1>11 DEF Zeros
<1>16. \A y \in Sectors \ ({x} \cup MapSectors \cup R) : z.disk[y] = s.disk[y]
  BY <1>6, <1>11
<1>17. Like(s, z, Free) /\ z.fail = 0 /\ z.free_map = f.free_map
  <2>1. Like(s, f, Free)
    BY <1>3, <1>6, LikeChains
  <2>2. Like(s, h, Free)
    BY <2>1, <1>8, LikeChains
  <2>3. Like(s, z, Free)
    BY <2>2, <1>10, LikeChains
  <2>4. h.fail = 0 /\ h.free_map = f.free_map
    BY <1>6, <1>8, LikeMeans
  <2>. QED  BY <2>3, <2>4, <1>10, LikeMeans
<1>18. ASSUME s.map_open, MapSectors \cap ({x} \cup R) = {}, NEW i \in Sectors PROVE Bit(z.disk, i) = BitCell(z.free_map[i])
  <2>1. 2 + (i \div CELLS) \in MapSectors /\ MapSectors \subseteq Sectors
    BY BaseIs DEF Base
  <2>2. z.disk[2 + (i \div CELLS)] = f.disk[2 + (i \div CELLS)]
    BY <2>1, <1>11, <1>18
  <2>3. Bit(f.disk, i) = BitCell(f.free_map[i])
    BY <1>6, <1>18
  <2>. QED  BY <2>2, <2>3, <1>17 DEF Bit
<1>19. IsDisk(z.disk)
  BY <1>10 DEF Wrote, IsDisk
<1>. HIDE DEF Free
<1>20. Formatted(s, x, start, length, n, z)
  BY <1>6, <1>14, <1>15, <1>16, <1>17, <1>18, <1>19 DEF Formatted, R, Free
<1>. QED  BY <1>7, <1>20 DEF t

\* A disk without files.
EmptyDisk(d) ==
    /\ IsDisk(d) /\ Headed(d) /\ d[ROOT_DIR_SECTOR][1] = <<RootStart, ENTRY_CNT>>
    /\ \A y \in RootSectors, j \in 1..CELLS : d[y][j] = Zero
    /\ \A i \in Sectors : Bit(d, i) # Zero <=> i \in Base

\* The disk that do_format() leaves is sound, without names, and nothing is lost on it.
LEMMA EmptyDiskIs ==
  ASSUME NEW d, EmptyDisk(d)
  PROVE  DiskOK(d) /\ Stray(d) = {} /\ Used(d) = {} /\ Named(d) = {}
<1>1. ASSUME NEW a \in Slots PROVE Slot(d, a) = Zero
  <2>1. RootStart + (a \div CELLS) \in RootSectors /\ (a % CELLS) + 1 \in 1..CELLS
    BY BaseIs, Cells
  <2>. QED  BY <2>1 DEF EmptyDisk, Slot
<1>2. Layout(d)
  BY <1>1 DEF Layout, EmptyDisk, Headed
<1>3. Used(d) = {} /\ Named(d) = {}
  BY <1>1, EntriesAre DEF Used, Named
<1>4. OwnedBy(d, Named(d)) = {} /\ Apart(d, Named(d)) /\ Directory(d)
  BY <1>3 DEF OwnedBy, Apart, Directory
<1>5. Marked(d) = Base
  BY BaseIs DEF Marked, EmptyDisk
<1>6. DiskOK(d)
  BY <1>2, <1>4, <1>5 DEF DiskOK
<1>7. MapOn(d) = Marked(d) /\ System(d) = Base
  BY <1>2, LayoutMeans
<1>. QED  BY <1>3, <1>5, <1>6, <1>7 DEF Stray

\* The state after free_map_close().
MapClosed(s, t) == Like(s, t, {"inodes", "map_open"}) /\ DOMAIN t.inodes = {} /\ ~t.map_open

\* free_map_close() closes the only inode that is open.
LEMMA MapCloses ==
  ASSUME NEW s, Rec(s), MapOnly(s.inodes)
  PROVE  MapClosed(s, FreeMapClose(s))
<1>. DEFINE x == FREE_MAP_SECTOR
            no == FALSE
            nodes == [i \in DOMAIN s.inodes \ {x} |-> s.inodes[i]]
            k == InodeClose(s, x)
            t == FreeMapClose(s)
<1>1. t = [k EXCEPT !.map_open = no]
  BY DEF FreeMapClose
<1>2. s.inodes[x].open_cnt = 1 /\ ~s.inodes[x].removed
  BY DEF MapOnly, MapNode
<1>3. k = [s EXCEPT !.inodes = nodes]
  <2>1. ~(s.inodes[x].open_cnt > 1)
    BY <1>2
  <2>2. k = [s EXCEPT !.inodes = [i \in DOMAIN @ \ {x} |-> @[i]]]
    BY <1>2, <2>1 DEF InodeClose
  <2>. QED  BY <2>2 DEF Rec, Fields
<1>4. DOMAIN nodes = {}
  BY DEF MapOnly
<1>. HIDE DEF no, nodes, k, t
<1>5. Like(s, k, {"inodes"}) /\ k.inodes = nodes
  BY <1>3 DEF Like, Rec, Fields
<1>6. Rec(k)
  BY <1>5, LikeMeans
<1>7. Like(k, t, {"map_open"}) /\ t.map_open = no
  BY <1>1, <1>6 DEF Like, Rec, Fields
<1>8. Like(s, t, {"inodes", "map_open"}) /\ t.inodes = nodes
  BY <1>5, <1>7, LikeChains, LikeMeans
<1>. QED  BY <1>4, <1>7, <1>8 DEF MapClosed, no, t

\* The state before do_format().
MapStarts(s) == /\ Rec(s) /\ s.log = <<>> /\ s.fail = 0 /\ DOMAIN s.inodes = {} /\ ~s.panic /\ s.files = Unopened /\ s.lost = {}
                /\ ~s.map_open

\* free_map_init() marks the sectors of the two system inodes.
LEMMA MapInits ==
  ASSUME NEW d
  PROVE  LET s == FreeMapInit(Off(d)) IN MapStarts(s) /\ s.disk = d /\ Upto(s.free_map, 2)
<1>. DEFINE yes == TRUE
            o == Off(d)
            m == [o EXCEPT !.free_map[FREE_MAP_SECTOR] = yes]
            s == FreeMapInit(o)
<1>1. MapStarts(o) /\ o.disk = d /\ o.free_map = [i \in Sectors |-> FALSE]
  BY DEF Off, Rec, Fields, Unopened, MapStarts, BitmapCreate, Sectors
<1>2. s = [m EXCEPT !.free_map[ROOT_DIR_SECTOR] = yes]
  BY DEF FreeMapInit
<1>3. Rec(o)
  BY <1>1 DEF MapStarts
<1>. HIDE DEF o, s, yes
<1>4. Like(o, m, {"free_map"}) /\ m.free_map = [o.free_map EXCEPT ![FREE_MAP_SECTOR] = yes]
  BY <1>3 DEF Like, Rec, Fields
<1>5. Rec(m)
  BY <1>4 DEF Like
<1>. HIDE DEF m
<1>6. Like(m, s, {"free_map"}) /\ s.free_map = [m.free_map EXCEPT ![ROOT_DIR_SECTOR] = yes]
  BY <1>2, <1>5 DEF Like, Rec, Fields
<1>7. Like(o, s, {"free_map"})
  BY <1>4, <1>6, LikeChains
<1>8. MapStarts(s) /\ s.disk = d
  BY <1>1, <1>7, LikeMeans DEF MapStarts
<1>9. Upto(s.free_map, 2)
  <2>1. s.free_map = [i \in Sectors |-> IF i = ROOT_DIR_SECTOR THEN yes ELSE IF i = FREE_MAP_SECTOR THEN yes ELSE FALSE]
    BY <1>1, <1>4, <1>6, BaseIs DEF FREE_MAP_SECTOR, ROOT_DIR_SECTOR
  <2>2. ASSUME NEW i \in Sectors PROVE s.free_map[i] \in BOOLEAN /\ (s.free_map[i] <=> i = 1 \/ i = 0)
    BY <2>1 DEF FREE_MAP_SECTOR, ROOT_DIR_SECTOR, yes
  <2>3. \A i \in Sectors : i < 2 <=> i = 1 \/ i = 0
    BY BaseIs
  <2>4. s.free_map = [i \in Sectors |-> s.free_map[i]]
    BY <2>1
  <2>. QED  BY <2>2, <2>3, <2>4 DEF Upto, IsMap
<1>. QED  BY <1>8, <1>9 DEF s, o

\* What do_format() leaves of a disk of zeros.
Formats(s, g) ==
    /\ Like(s, g, {"disk", "log", "free_map", "map_open", "inodes", "ok", "fail", "done", "sector"})
    /\ g.fail = 0 /\ DOMAIN g.inodes = {} /\ ~g.map_open /\ EmptyDisk(g.disk)

\* do_format() leaves an empty disk that is sound.
LEMMA DiskFormats ==
  ASSUME NEW s, MapStarts(s), IsDisk(s.disk), Upto(s.free_map, 2)
  PROVE  Formats(s, DoFormat(s))
<1>. DEFINE yes == TRUE
            n0 == BytesToSectors(SECTORS)
            n1 == BytesToSectors(ENTRY_CNT)
            c == InodeCreate(s, FREE_MAP_SECTOR, SECTORS)
            p == InodeOpen(c, FREE_MAP_SECTOR)
            q == [p EXCEPT !.map_open = yes]
            b == BitmapWrite(q)
            e == InodeCreate(b, ROOT_DIR_SECTOR, ENTRY_CNT)
            g == FreeMapClose(e)
            Free == {"disk", "log", "free_map", "ok", "fail", "done", "sector"}
            All == {"disk", "log", "free_map", "map_open", "inodes", "ok", "fail", "done", "sector"}
<1>1. DoFormat(s) = g
  BY DEF DoFormat, FreeMapCreate
<1>2. /\ n0 \in Nat \ {0} /\ n1 \in Nat \ {0} /\ RootStart = 2 + n0 /\ RootStart + n1 <= SECTORS /\ RootStart \in Nat
      /\ 2 \in Nat /\ 2 + n0 <= SECTORS /\ SECTORS \in Nat /\ ENTRY_CNT \in Nat
  <2>1. n0 \in Nat /\ n1 \in Nat /\ RootStart \in Nat /\ RootStart + n1 <= SECTORS /\ SECTORS \in Nat /\ ENTRY_CNT \in Nat
    BY Consts
  <2>2. 0 \div CELLS \in Nat /\ 0 \in Nat
    BY Cells
  <2>3. 0 < SECTORS /\ 0 < ENTRY_CNT
    BY Consts, FileSysAssumption
  <2>4. 0 \div CELLS < n0 /\ 0 \div CELLS < n1
    BY <2>1, <2>2, <2>3, Cells
  <2>5. RootStart = 2 + n0
    BY DEF RootStart
  <2>. HIDE DEF n0, n1
  <2>. QED  BY <2>1, <2>2, <2>4, <2>5
<1>3. /\ FREE_MAP_SECTOR \in Sectors /\ ROOT_DIR_SECTOR \in Sectors /\ FREE_MAP_SECTOR # ROOT_DIR_SECTOR
      /\ FREE_MAP_SECTOR < 2 /\ ROOT_DIR_SECTOR < 2 + n0
      /\ FREE_MAP_SECTOR \notin MapSectors /\ FREE_MAP_SECTOR \notin RootSectors /\ ROOT_DIR_SECTOR \notin MapSectors
      /\ MapSectors \cap RootSectors = {} /\ MapSectors \subseteq Sectors /\ RootSectors \subseteq Sectors
      /\ FREE_MAP_SECTOR = 0 /\ ROOT_DIR_SECTOR = 1
  <2>1. 0 < 2 /\ 1 < 2 + n0
    BY <1>2
  <2>. HIDE DEF n0
  <2>. QED  BY <2>1, BaseIs DEF FREE_MAP_SECTOR, ROOT_DIR_SECTOR, Base
<1>. HIDE DEF n0, n1, c, p, q, b, e, g, yes
<1>4. Rec(s) /\ s.fail = 0 /\ DOMAIN s.inodes = {} /\ ~s.map_open
  BY DEF MapStarts
<1>5. Formatted(s, FREE_MAP_SECTOR, 2, SECTORS, n0, c)
  BY <1>2, <1>3, <1>4, FormatCreates DEF c, n0
<1>6. Like(s, c, Free) /\ c.fail = 0 /\ Upto(c.free_map, 2 + n0) /\ IsDisk(c.disk) /\ Headed(c.disk)
  BY <1>5 DEF Formatted, Headed
<1>7. Rec(c) /\ DOMAIN c.inodes = {} /\ ~c.map_open
  BY <1>4, <1>6, LikeMeans
<1>8. Like(c, p, {"inodes", "ok", "fail"}) /\ p.fail = 0 /\ MapOnly(p.inodes)
  <2>1. MapFileOpened(c, p)
    BY <1>6, <1>7, MapFileOpens DEF p
  <2>. QED  BY <2>1 DEF MapFileOpened
<1>9. Like(p, q, {"map_open"}) /\ q.map_open = yes
  <2>1. Rec(p)
    BY <1>8, LikeMeans
  <2>. QED  BY <2>1 DEF Like, Rec, Fields, q
<1>10. Rec(q) /\ q.disk = c.disk /\ q.fail = 0 /\ MapOnly(q.inodes) /\ q.free_map = c.free_map /\ q.map_open
  BY <1>8, <1>9, LikeMeans DEF yes
<1>11. /\ Like(q, b, {"disk", "log", "ok", "fail", "done"}) /\ b.fail = 0 /\ IsDisk(b.disk)
       /\ \A i \in Sectors \ MapSectors : b.disk[i] = q.disk[i]
  <2>1. IsDisk(q.disk)
    BY <1>6, <1>10
  <2>2. MapStored(q, b)
    BY <2>1, <1>10, MapWrites DEF b
  <2>. QED  BY <2>2 DEF MapStored
<1>12. Rec(b) /\ MapOnly(b.inodes) /\ b.map_open /\ Upto(b.free_map, 2 + n0)
  <2>1. Rec(b) /\ b.inodes = q.inodes /\ b.map_open = q.map_open /\ b.free_map = q.free_map
    BY <1>11, LikeMeans
  <2>. QED  BY <2>1, <1>6, <1>10
<1>13. Formatted(b, ROOT_DIR_SECTOR, 2 + n0, ENTRY_CNT, n1, e)
  <2>1. 2 + n0 \in Nat /\ (2 + n0) + n1 <= SECTORS
    BY <1>2
  <2>. QED  BY <2>1, <1>2, <1>3, <1>11, <1>12, FormatCreates DEF e, n1
<1>14. RootSectors = Run(2 + n0, n1)
  BY <1>2 DEF RootSectors, n1
<1>15. /\ Like(b, e, Free) /\ e.fail = 0 /\ Upto(e.free_map, (2 + n0) + n1) /\ IsDisk(e.disk)
       /\ e.disk[ROOT_DIR_SECTOR][1] = <<RootStart, ENTRY_CNT>>
       /\ \A y \in RootSectors, j \in 1..CELLS : e.disk[y][j] = Zero
       /\ \A y \in Sectors \ ({ROOT_DIR_SECTOR} \cup MapSectors \cup RootSectors) : e.disk[y] = b.disk[y]
       /\ MapSectors \cap ({ROOT_DIR_SECTOR} \cup RootSectors) = {} =>
             \A i \in Sectors : Bit(e.disk, i) = BitCell(e.free_map[i])
  BY <1>2, <1>12, <1>13, <1>14 DEF Formatted
<1>16. Headed(e.disk)
  BY <1>3, <1>6, <1>10, <1>11, <1>15 DEF Headed
<1>17. ASSUME NEW i \in Sectors PROVE Bit(e.disk, i) # Zero <=> i \in Base
  <2>1. Bit(e.disk, i) = BitCell(e.free_map[i])
    BY <1>3, <1>15
  <2>2. e.free_map[i] <=> i < (2 + n0) + n1
    BY <1>15 DEF Upto
  <2>3. Base = 0..(RootStart + n1 - 1) /\ i \in Nat
    BY BaseIs DEF n1
  <2>4. i \in Base <=> i < (2 + n0) + n1
    BY <2>3, <1>2
  <2>5. BitCell(e.free_map[i]) # Zero <=> e.free_map[i]
    BY BitIs
  <2>. QED  BY <2>1, <2>2, <2>4, <2>5, Zenon
<1>18. EmptyDisk(e.disk)
  BY <1>15, <1>16, <1>17 DEF EmptyDisk
<1>19. Rec(e) /\ MapOnly(e.inodes)
  BY <1>12, <1>15, LikeMeans
<1>20. Like(e, g, {"inodes", "map_open"}) /\ DOMAIN g.inodes = {} /\ ~g.map_open
  <2>1. MapClosed(e, g)
    BY <1>19, MapCloses DEF g
  <2>. QED  BY <2>1 DEF MapClosed
<1>21. g.disk = e.disk /\ g.fail = 0
  BY <1>15, <1>20, LikeMeans
<1>22. Like(s, g, All)
  <2>1. Like(s, p, All)
    BY <1>6, <1>8, LikeChains
  <2>2. Like(s, q, All)
    BY <2>1, <1>9, LikeChains
  <2>3. Like(s, b, All)
    BY <2>2, <1>11, LikeChains
  <2>4. Like(s, e, All)
    BY <2>3, <1>15, LikeChains
  <2>. QED  BY <2>4, <1>20, LikeChains
<1>. QED  BY <1>1, <1>18, <1>20, <1>21, <1>22 DEF Formats

\* The disk that Init begins with is sound and without files, and no handle has one open.
LEMMA InitHolds ==
  ASSUME Init
  PROVE  IInv /\ EmptyDisk(disk) /\ files = Unopened
<1>. DEFINE d == [i \in Sectors |-> Zeros]
            s == FreeMapInit(Off(d))
            g == DoFormat(s)
            u == FreeMapOpen(g)
            r == Record(u.disk, <<>>, u.free_map, u.map_open, u.inodes, u.files, u.panic)
<1>1. /\ disk = u.disk /\ log = <<>> /\ leaked = {} /\ panic = u.panic
      /\ free_map = u.free_map /\ map_open = u.map_open /\ inodes = u.inodes /\ files = u.files
  BY DEF Init, FilesysInit
<1>2. IsDisk(d)
  BY DEF IsDisk
<1>. HIDE DEF d, s, g, u
<1>3. MapStarts(s) /\ s.disk = d /\ Upto(s.free_map, 2)
  BY MapInits DEF s
<1>4. Formats(s, g)
  BY <1>2, <1>3, DiskFormats DEF g
<1>5. /\ Rec(g) /\ g.fail = 0 /\ DOMAIN g.inodes = {} /\ EmptyDisk(g.disk)
      /\ ~g.panic /\ g.files = Unopened
  BY <1>3, <1>4, LikeMeans DEF Formats, MapStarts
<1>6. DiskOK(g.disk) /\ Stray(g.disk) = {}
  BY <1>5, EmptyDiskIs
<1>7. MapOpened(g, u)
  <2>1. Headed(g.disk)
    BY <1>5 DEF EmptyDisk
  <2>. QED  BY <2>1, <1>5, MapOpens DEF u
<1>8. u.disk = g.disk /\ u.files = Unopened /\ ~u.panic
  BY <1>5, <1>7, LikeMeans DEF MapOpened
<1>9. /\ Rec(r) /\ r.disk = u.disk /\ r.log = <<>> /\ r.free_map = u.free_map /\ r.map_open = u.map_open
      /\ r.inodes = u.inodes /\ r.files = u.files /\ r.panic = u.panic /\ r.fail = 0
  BY RecordIs
<1>. HIDE DEF r
<1>10. Like(u, r, {"log"} \cup Scratch)
  BY <1>9 DEF Like, Fields, Scratch
<1>11. Whole(r, Frame(g.disk, Unopened), Stray(g.disk))
  BY <1>5, <1>6, <1>9, <1>10, Mounts DEF u
<1>12. Whole(r, Frame(u.disk, r.files), {})
  BY <1>6, <1>8, <1>9, <1>11
<1>13. StateOK(u.disk, r.log, r.free_map, r.map_open, r.inodes, r.files, r.panic, {})
  BY <1>12, Ends
<1>14. IInv
  BY <1>1, <1>9, <1>13 DEF IInv
<1>. QED  BY <1>1, <1>5, <1>8, <1>14

\* Every step keeps the invariant.
LEMMA StepKeeps ==
  ASSUME NoShortRead, IInv, [Next]_vars
  PROVE  IInv'
<1>1. CASE UNCHANGED vars
  BY <1>1 DEF vars, memory, IInv
<1>2. CASE \E fail \in Fails :
              \/ \E n \in Names, size \in Lengths : Create(n, size, fail)
              \/ \E n \in Names \ BadNames : Remove(n, fail) \/ \E h \in Handles : Open(n, h, fail)
  BY <1>2, CreateKeeps, RemoveKeeps, OpenKeeps
<1>3. CASE \E h \in Handles, fail \in 0..1 :
              \/ \E g \in Handles : Reopen(h, g, fail) \/ Duplicate(h, g, fail)
              \/ \E size \in Lengths : Read(h, size, fail) \/ \E v \in Values : Write(h, size, v, fail)
  BY <1>3, CopyKeeps, ReadKeeps, WriteKeeps
<1>4. CASE \E h \in Handles : Close(h) \/ Deny(h) \/ Allow(h) \/ \E pos \in Offsets : Seek(h, pos)
  BY <1>4, CloseKeeps, HandleKeeps
<1>5. CASE Flush \/ Stop \/ Boot
  BY <1>5, FlushKeeps, StopKeeps, BootKeeps
<1>. QED  BY <1>1, <1>2, <1>3, <1>4, <1>5 DEF Next

\* The disk is sound, in the middle of a call's writes too.
LEMMA DiskHolds ==
  ASSUME IInv
  PROVE  DiskOK(disk)
<1>1. CASE map_open
  <2>1. PICK D : Whole(Record(D, log, free_map, map_open, inodes, files, panic), Frame(disk, files), leaked)
    BY <1>1 DEF IInv, StateOK
  <2>2. DiskOK(Frame(disk, files).from)
    BY <2>1, WholeMeans
  <2>. QED  BY <2>2 DEF Frame
<1>2. CASE ~map_open
  BY <1>2 DEF IInv, StateOK
<1>. QED  BY <1>1, <1>2

\* Hence the disk is as the property says.
LEMMA DiskImplied ==
  ASSUME IInv
  PROVE  DiskSound
<1>. DEFINE d == disk
<1>. HIDE DEF d
<1>1. Layout(d) /\ Directory(d) /\ Apart(d, Named(d)) /\ Base \cup OwnedBy(d, Named(d)) \subseteq Marked(d)
  BY DiskHolds DEF DiskOK, d
<1>2. /\ System(d) = Base /\ MapOn(d) = Marked(d) /\ OwnedByNames(d) = OwnedBy(d, Named(d))
      /\ Entries(d) = {Slot(d, a) : a \in Used(d)}
  BY <1>1, LayoutMeans
<1>3. ASSUME NEW e \in Entries(d) PROVE e[1] \in Named(d) /\ Owned(d, e[1]) \cap System(d) = {}
  <2>1. e[1] \in Named(d)
    BY <1>2, <1>3 DEF Named
  <2>. QED  BY <2>1, <1>1, <1>2 DEF Apart, FileAt
<1>4. ASSUME NEW e \in Entries(d), NEW f \in Entries(d), e # f PROVE e[2] # f[2] /\ Owned(d, e[1]) \cap Owned(d, f[1]) = {}
  <2>1. PICK a \in Used(d), b \in Used(d) : e = Slot(d, a) /\ f = Slot(d, b)
    BY <1>2, <1>4
  <2>2. a # b
    BY <2>1, <1>4
  <2>3. e[1] # f[1] /\ e[2] # f[2]
    BY <2>1, <2>2, <1>1 DEF Directory
  <2>. QED  BY <2>3, <1>1, <1>3 DEF Apart
<1>. QED  BY <1>1, <1>2, <1>3, <1>4 DEF DiskSound, d

\* An open inode owns what its sector says.
OpenAre(D) ==
    /\ \A i \in DOMAIN inodes : OwnedByOpen(i) = Owned(D, i)
    /\ \A i \in DOMAIN inodes : inodes[i].open_cnt = Openers(files)[i] /\ inodes[i].deny_write_cnt = Deniers(files)[i]
    /\ DOMAIN inodes \subseteq Sectors
    /\ log = <<>> => D = disk
    /\ Space(D, free_map, Named(D) \cup (DOMAIN inodes \ Special), leaked)

\* While the map is open the state in memory agrees with the disk of the trail.
LEMMA OpenHold ==
  ASSUME IInv, map_open
  PROVE  \E D : OpenAre(D)
<1>1. PICK D : Whole(Record(D, log, free_map, map_open, inodes, files, panic), Frame(disk, files), leaked)
  BY DEF IInv, StateOK
<1>. DEFINE r == Record(D, log, free_map, map_open, inodes, files, panic)
            e == Frame(disk, files)
            cnt == Openers(files)
            dn == Deniers(files)
<1>2. r.disk = D /\ r.log = log /\ r.inodes = inodes /\ r.files = files /\ r.free_map = free_map
  BY DEF Record
<1>3. e.from = disk
  BY DEF Frame
<1>. HIDE DEF r, e, cnt, dn
<1>4. Whole(r, e, leaked)
  BY <1>1 DEF r, e
<1>5. log = <<>> => D = disk
  BY <1>2, <1>3, <1>4, WholeMeans
<1>6. Good(r, e, cnt, dn, leaked)
  BY <1>2, <1>4 DEF Whole, cnt, dn
<1>7. DOMAIN inodes = {i \in Sectors : cnt[i] > 0} /\ \A i \in DOMAIN inodes : inodes[i] = Inode(D, i, cnt, dn)
  BY <1>2, <1>6 DEF Good, Opens
<1>8. Space(D, free_map, Named(D) \cup (DOMAIN inodes \ Special), leaked)
  BY <1>2, <1>6 DEF Good, Live
<1>9. ASSUME NEW i \in DOMAIN inodes
      PROVE  OwnedByOpen(i) = Owned(D, i) /\ inodes[i].open_cnt = cnt[i] /\ inodes[i].deny_write_cnt = dn[i]
  <2>. DEFINE gone == Gone(D, i)
              hd == Header(D, i)
  <2>1. inodes[i] = [open_cnt |-> cnt[i], removed |-> gone, deny_write_cnt |-> dn[i], start |-> hd.start, length |-> hd.length]
    BY <1>7 DEF Inode
  <2>. HIDE DEF gone, hd
  <2>2. /\ inodes[i].open_cnt = cnt[i] /\ inodes[i].deny_write_cnt = dn[i]
        /\ inodes[i].start = hd.start /\ inodes[i].length = hd.length
    BY <2>1
  <2>3. OwnedByOpen(i) = {i} \cup Run(hd.start, BytesToSectors(hd.length))
    BY <2>2 DEF OwnedByOpen
  <2>. QED  BY <2>2, <2>3 DEF Owned, hd
<1>10. OpenAre(D)
  BY <1>5, <1>7, <1>8, <1>9 DEF OpenAre, cnt, dn
<1>. QED  BY <1>10

\* Hence the numbers in the inodes are those of the handles.
LEMMA CountsImplied ==
  ASSUME IInv
  PROVE  CountsExact
<1>. SUFFICES ASSUME map_open, NEW i \in DOMAIN inodes \ {ROOT_DIR_SECTOR}
              PROVE  LET on == {h \in Handles : Opened(h) /\ files[h].sector = i}
                     IN  /\ inodes[i].open_cnt = Cardinality(on) + (IF i = FREE_MAP_SECTOR THEN 1 ELSE 0)
                         /\ inodes[i].deny_write_cnt = Cardinality({h \in on : files[h].deny_write})
  BY DEF CountsExact
<1>1. PICK D : OpenAre(D)
  BY OpenHold
<1>2. i \in Sectors /\ inodes[i].open_cnt = Openers(files)[i] /\ inodes[i].deny_write_cnt = Deniers(files)[i]
  BY <1>1 DEF OpenAre
<1>3. /\ Openers(files)[i] = Cardinality(On(files, i)) + (IF i = FREE_MAP_SECTOR THEN 1 ELSE 0)
      /\ Deniers(files)[i] = Cardinality(Denying(files, i))
  BY <1>2, CountsAre
<1>4. On(files, i) = {h \in Handles : Opened(h) /\ files[h].sector = i}
  BY DEF On, Opened
<1>5. Denying(files, i) = {h \in On(files, i) : files[h].deny_write}
  BY DEF Denying
<1>. QED  BY <1>2, <1>3, <1>4, <1>5

\* Hence the map in memory has the sectors that are in use and those lost.
LEMMA MapImplied ==
  ASSUME IInv
  PROVE  MapExact
<1>1. ~panic
  BY DEF IInv, StateOK
<1>2. ASSUME map_open, log = <<>>
      PROVE  /\ {i \in Sectors : free_map[i]} = InUseSectors \cup leaked
             /\ InUseSectors \cap leaked = {}
             /\ \A i, j \in DOMAIN inodes : i # j => OwnedByOpen(i) \cap OwnedByOpen(j) = {}
  <2>. DEFINE d == disk
              live == Named(d) \cup (DOMAIN inodes \ Special)
              B == Base \cup OwnedBy(d, live)
  <2>1. PICK D : OpenAre(D)
    BY <1>2, OpenHold
  <2>2. /\ \A i \in DOMAIN inodes : OwnedByOpen(i) = Owned(d, i)
        /\ DOMAIN inodes \subseteq Sectors /\ Space(d, free_map, live, leaked)
    <3>1. D = d
      BY <2>1, <1>2 DEF OpenAre
    <3>. HIDE DEF d
    <3>. QED  BY <2>1, <3>1 DEF OpenAre
  <2>. HIDE DEF d
  <2>3. Layout(d)
    BY DiskHolds DEF DiskOK, d
  <2>4. System(d) = Base /\ OwnedByNames(d) = OwnedBy(d, Named(d))
    BY <2>3, LayoutMeans
  <2>5. /\ Owned(d, FREE_MAP_SECTOR) = {FREE_MAP_SECTOR} \cup MapSectors
        /\ Owned(d, ROOT_DIR_SECTOR) = {ROOT_DIR_SECTOR} \cup RootSectors
    BY <2>3, LayoutMeans DEF Owned, MapSectors, RootSectors
  <2>6. Owned(d, FREE_MAP_SECTOR) \cap Owned(d, ROOT_DIR_SECTOR) = {}
    BY <2>5, BaseIs DEF FREE_MAP_SECTOR, ROOT_DIR_SECTOR
  <2>7. \A i \in Special : Owned(d, i) \subseteq Base
    BY <2>5 DEF Special, Base
  <2>8. /\ Apart(d, live) /\ leaked \subseteq Sectors /\ leaked \cap B = {}
        /\ \A i \in Sectors : free_map[i] <=> i \in B \cup leaked
    BY <2>2 DEF Space
  <2>9. InUseSectors = B
    <3>1. InUseSectors = (UNION {Owned(d, i) : i \in DOMAIN inodes}) \cup OwnedBy(d, Named(d)) \cup Base
      BY <2>2, <2>4 DEF InUseSectors, d
    <3>2. ASSUME NEW y \in B PROVE y \in InUseSectors
      BY <3>1, <3>2 DEF OwnedBy
    <3>3. ASSUME NEW y \in InUseSectors PROVE y \in B
      <4>1. CASE y \in Base
        BY <4>1
      <4>2. CASE y \in OwnedBy(d, Named(d))
        BY <4>2 DEF OwnedBy
      <4>3. ASSUME NEW i \in DOMAIN inodes, y \in Owned(d, i) PROVE y \in B
        <5>1. CASE i \in Special
          BY <4>3, <5>1, <2>7
        <5>2. CASE i \notin Special
          BY <4>3, <5>2 DEF OwnedBy
        <5>. QED  BY <5>1, <5>2
      <4>. QED  BY <3>1, <3>3, <4>1, <4>2, <4>3
    <3>. QED  BY <3>2, <3>3
  <2>10. B \subseteq Sectors
    <3>1. \A x \in live : Owned(d, x) \subseteq Sectors
      BY <2>8 DEF Apart, FileAt, Owned, Run
    <3>. QED  BY <3>1, BaseIs DEF OwnedBy
  <2>11. ASSUME NEW i \in DOMAIN inodes, NEW j \in DOMAIN inodes, i # j PROVE OwnedByOpen(i) \cap OwnedByOpen(j) = {}
    <3>1. OwnedByOpen(i) = Owned(d, i) /\ OwnedByOpen(j) = Owned(d, j)
      BY <2>2
    <3>2. \A x \in live : Owned(d, x) \cap Base = {}
      BY <2>8 DEF Apart, FileAt
    <3>3. CASE i \in Special /\ j \in Special
      BY <2>6, <2>11, <3>1, <3>3 DEF Special
    <3>4. CASE i \in Special /\ j \notin Special
      <4>1. j \in live
        BY <3>4
      <4>. QED  BY <2>7, <3>1, <3>2, <3>4, <4>1
    <3>5. CASE i \notin Special /\ j \in Special
      <4>1. i \in live
        BY <3>5
      <4>. QED  BY <2>7, <3>1, <3>2, <3>5, <4>1
    <3>6. CASE i \notin Special /\ j \notin Special
      <4>1. i \in live /\ j \in live
        BY <3>6
      <4>. QED  BY <2>8, <2>11, <3>1, <4>1 DEF Apart
    <3>. QED  BY <3>3, <3>4, <3>5, <3>6
  <2>. HIDE DEF B, live
  <2>12. {i \in Sectors : free_map[i]} = B \cup leaked
    BY <2>8, <2>10
  <2>. QED  BY <2>8, <2>9, <2>11, <2>12
<1>. QED  BY <1>1, <1>2 DEF MapExact

\* The invariant holds.
LEMMA IInvHolds ==
  ASSUME NoShortRead
  PROVE  Spec => []IInv
<1>1. Init => IInv
  BY InitHolds
<1>2. IInv /\ [Next]_vars => IInv'
  BY StepKeeps
<1>. QED  BY <1>1, <1>2, PTL DEF Spec

\* However a series of writes ends, the disk that is left is sound: every name leads to a
\* file of its own, no two share a sector, and every sector of theirs is marked as used.
THEOREM DisksAreSound ==
  ASSUME NoShortRead
  PROVE  Spec => []DiskSound
<1>1. IInv => DiskSound
  BY DiskImplied
<1>. QED  BY <1>1, IInvHolds, PTL

\* While the system runs, the numbers of openers and deniers in the inodes are those of the
\* open files, and the free map has the sectors in use and those that a failed call lost.
THEOREM RecordsAreExact ==
  ASSUME NoShortRead
  PROVE  Spec => []RecordsExact
<1>1. IInv => RecordsExact
  BY MapImplied, CountsImplied DEF RecordsExact
<1>. QED  BY <1>1, IInvHolds, PTL

\* What FileSys shows of FileStore's state, of a disk and of the handles.
LinkOf(d) ==
    LET entries == Entries(d)
        at(n) == {e \in entries : e[2] = n}
    IN  [n \in Names |-> IF at(n) = {} THEN NONE ELSE (CHOOSE e \in at(n) : TRUE)[1]]

\* The file that each handle has open.
OpenedOf(f) == [h \in Handles |-> IF f[h] # NONE THEN f[h].sector ELSE NONE]

\* The handles that deny writes.
DeniedOf(f) == {h \in Handles : f[h] # NONE /\ f[h].deny_write}

\* The cells of the file whose inode is at x.
FileCells(d, x) == [k \in 1..Header(d, x).length |-> CellAt(d, Header(d, x), k - 1)]

\* The contents of the files of L.
Shown(d, L) == [x \in L |-> FileCells(d, x)]

\* The files that exist.
LiveOf(d, f) == {e[1] : e \in Entries(d)} \cup {f[h].sector : h \in {g \in Handles : f[g] # NONE}}

\* The mapping, of this state and of the next.
LEMMA StoreIs ==
  /\ link = LinkOf(disk) /\ opened = OpenedOf(files) /\ denied = DeniedOf(files)
  /\ contents = Shown(disk, LiveOf(disk, files))
  /\ link' = LinkOf(disk') /\ opened' = OpenedOf(files') /\ denied' = DeniedOf(files')
  /\ contents' = Shown(disk', LiveOf(disk', files'))
<1>1. link = LinkOf(disk) /\ link' = LinkOf(disk')
  BY DEF link, LinkOf
<1>2. opened = OpenedOf(files) /\ opened' = OpenedOf(files')
  BY DEF opened, OpenedOf, Opened
<1>3. denied = DeniedOf(files) /\ denied' = DeniedOf(files')
  BY DEF denied, DeniedOf, Opened
<1>4. contents = Shown(disk, LiveOf(disk, files))
  BY DEF contents, Shown, LiveOf, FileCells, Opened
<1>5. contents' = Shown(disk', LiveOf(disk', files'))
  BY DEF contents, Shown, LiveOf, FileCells, Opened
<1>. QED  BY <1>1, <1>2, <1>3, <1>4, <1>5

\* An entry that is in use.
LEMMA UsedIs ==
  ASSUME NEW d, Layout(d), NEW a \in Used(d)
  PROVE  Slot(d, a)[1] \in Sectors /\ Slot(d, a)[2] \in Names /\ Slot(d, a)[1] # NONE /\ Slot(d, a)[1] \in Named(d)
<1>1. a \in Slots /\ InUse(Slot(d, a))
  BY DEF Used
<1>2. Slot(d, a) \in Sectors \X Names \X BOOLEAN
  BY <1>1, EntriesAre DEF Layout
<1>. QED  BY <1>2, FileAssumption DEF Named

\* The files that exist are those with a name and those that are open.
LEMMA LiveIs ==
  ASSUME NEW d, Layout(d), NEW f \in FileTable
  PROVE  LiveOf(d, f) = Named(d) \cup OpenedBy(f)
<1>1. {e[1] : e \in Entries(d)} = Named(d)
  <2>1. Entries(d) = {Slot(d, a) : a \in Used(d)}
    BY LayoutMeans
  <2>2. ASSUME NEW x PROVE x \in {e[1] : e \in Entries(d)} <=> x \in Named(d)
    BY <2>1 DEF Named
  <2>. QED  BY <2>2
<1>2. {f[h].sector : h \in {g \in Handles : f[g] # NONE}} = OpenedBy(f)
  <2>1. ASSUME NEW h \in Handles, f[h] # NONE PROVE f[h].sector \in OpenedBy(f)
    <3>1. f[h].sector \in Sectors /\ h \in On(f, f[h].sector)
      BY <2>1, FilesAre DEF On
    <3>. QED  BY <3>1 DEF OpenedBy
  <2>2. ASSUME NEW x \in OpenedBy(f) PROVE \E h \in Handles : f[h] # NONE /\ f[h].sector = x
    BY <2>2 DEF OpenedBy, On
  <2>. QED  BY <2>1, <2>2
<1>. QED  BY <1>1, <1>2 DEF LiveOf

\* Each name leads to the sector in the one entry that has it.
LEMMA LinkIs ==
  ASSUME NEW d, DiskOK(d)
  PROVE  /\ LinkOf(d) = [n \in Names |-> LinkOf(d)[n]]
         /\ \A a \in Used(d) : LinkOf(d)[Slot(d, a)[2]] = Slot(d, a)[1]
         /\ \A n \in Names : Unnamed(d, n) => LinkOf(d)[n] = NONE
         /\ \A n \in Names : Unnamed(d, n) \/ \E a \in Used(d) : Slot(d, a)[2] = n
<1>. DEFINE at(n) == {e \in Entries(d) : e[2] = n}
<1>1. Layout(d) /\ Directory(d)
  BY DEF DiskOK
<1>2. Entries(d) = {Slot(d, a) : a \in Used(d)}
  BY <1>1, LayoutMeans
<1>3. \A n \in Names : LinkOf(d)[n] = IF at(n) = {} THEN NONE ELSE (CHOOSE e \in at(n) : TRUE)[1]
  BY DEF LinkOf
<1>4. LinkOf(d) = [n \in Names |-> LinkOf(d)[n]]
  BY DEF LinkOf
<1>5. ASSUME NEW a \in Used(d) PROVE LinkOf(d)[Slot(d, a)[2]] = Slot(d, a)[1]
  <2>. DEFINE n == Slot(d, a)[2]
  <2>1. n \in Names
    BY <1>1, UsedIs
  <2>2. at(n) = {Slot(d, a)}
    <3>1. \A b \in Used(d) : Slot(d, b)[2] = n => b = a
      BY <1>1 DEF Directory
    <3>. QED  BY <1>2, <3>1
  <2>3. (CHOOSE e \in at(n) : TRUE) = Slot(d, a)
    BY <2>2
  <2>. HIDE DEF n, at
  <2>4. LinkOf(d)[n] = Slot(d, a)[1]
    BY <1>3, <2>1, <2>2, <2>3
  <2>. QED  BY <2>4 DEF n
<1>6. ASSUME NEW n \in Names, Unnamed(d, n) PROVE LinkOf(d)[n] = NONE
  <2>1. at(n) = {}
    BY <1>2, <1>6 DEF Unnamed
  <2>. HIDE DEF at
  <2>. QED  BY <2>1, <1>3
<1>7. \A n \in Names : Unnamed(d, n) \/ \E a \in Used(d) : Slot(d, a)[2] = n
  BY DEF Unnamed
<1>. QED  BY <1>4, <1>5, <1>6, <1>7

\* The names of a disk.
LEMMA LinkRange ==
  ASSUME NEW d, DiskOK(d), NEW x \in Sectors
  PROVE  x \in Named(d) <=> \E n \in Names : LinkOf(d)[n] = x
<1>1. Layout(d)
  BY DEF DiskOK
<1>2. ASSUME x \in Named(d) PROVE \E n \in Names : LinkOf(d)[n] = x
  <2>1. PICK a \in Used(d) : x = Slot(d, a)[1]
    BY <1>2 DEF Named
  <2>. QED  BY <1>1, <2>1, UsedIs, LinkIs
<1>3. ASSUME NEW n \in Names, LinkOf(d)[n] = x PROVE x \in Named(d)
  <2>1. x # NONE
    BY FileAssumption
  <2>2. PICK a \in Used(d) : Slot(d, a)[2] = n
    BY <1>3, <2>1, LinkIs
  <2>. QED  BY <1>3, <2>2, LinkIs DEF Named
<1>. QED  BY <1>2, <1>3

\* The handles that have a file open.
LEMMA OpenRange ==
  ASSUME NEW f \in FileTable, NEW x \in Sectors
  PROVE  x \in OpenedBy(f) <=> \E h \in Handles : OpenedOf(f)[h] = x
<1>1. x # NONE
  BY FileAssumption
<1>2. ASSUME x \in OpenedBy(f) PROVE \E h \in Handles : OpenedOf(f)[h] = x
  BY <1>2 DEF OpenedBy, OpenedOf, On
<1>3. ASSUME NEW h \in Handles, OpenedOf(f)[h] = x PROVE x \in OpenedBy(f)
  <2>1. h \in On(f, x)
    BY <1>1, <1>3 DEF OpenedOf, On
  <2>. QED  BY <2>1 DEF OpenedBy
<1>. QED  BY <1>2, <1>3

\* What is left of the files c when the names are l and the handles o.
Drops(l, o, c) ==
    [x \in {i \in DOMAIN c : (\E n \in Names : l[n] = i) \/ (\E h \in Handles : o[h] = i)} |-> c[x]]

\* The files that lose their last name or handle are dropped.
LEMMA DropsAre ==
  ASSUME NEW d, NEW d2, DiskOK(d2), NEW f \in FileTable, NEW L, L \subseteq Sectors,
         Named(d2) \cup OpenedBy(f) \subseteq L, \A x \in Named(d2) \cup OpenedBy(f) : FileCells(d2, x) = FileCells(d, x)
  PROVE  Shown(d2, Named(d2) \cup OpenedBy(f)) = Drops(LinkOf(d2), OpenedOf(f), Shown(d, L))
<1>. DEFINE c == Shown(d, L)
            kept == {i \in DOMAIN c : (\E n \in Names : LinkOf(d2)[n] = i) \/ (\E h \in Handles : OpenedOf(f)[h] = i)}
            M == Named(d2) \cup OpenedBy(f)
<1>1. DOMAIN c = L /\ \A x \in L : c[x] = FileCells(d, x)
  BY DEF Shown
<1>2. \A x \in L : x \in M <=> (\E n \in Names : LinkOf(d2)[n] = x) \/ (\E h \in Handles : OpenedOf(f)[h] = x)
  BY LinkRange, OpenRange
<1>3. kept = M
  <2>. HIDE DEF M, c
  <2>. QED  BY <1>1, <1>2 DEF M
<1>4. Shown(d2, M) = [x \in M |-> FileCells(d2, x)]
  BY DEF Shown
<1>5. \A x \in M : FileCells(d2, x) = c[x]
  BY <1>1
<1>. HIDE DEF c, M
<1>6. [x \in kept |-> c[x]] = [x \in M |-> FileCells(d2, x)]
  BY <1>3, <1>5
<1>7. Shown(d2, M) = Drops(LinkOf(d2), OpenedOf(f), c)
  BY <1>4, <1>6 DEF Drops
<1>. QED  BY <1>7 DEF M, c

\* Where the cells of a file are.
LEMMA CellPlace ==
  ASSUME NEW d, NEW x, FileAt(d, x), NEW k \in 1..Header(d, x).length
  PROVE  /\ Header(d, x).start + ((k - 1) \div CELLS) \in Data(d, x) /\ ((k - 1) % CELLS) + 1 \in 1..CELLS
         /\ FileCells(d, x)[k] = d[Header(d, x).start + ((k - 1) \div CELLS)][((k - 1) % CELLS) + 1]
<1>1. Header(d, x).start \in Nat /\ Header(d, x).length \in Nat /\ k - 1 \in Nat /\ k - 1 < Header(d, x).length
  BY DEF FileAt
<1>2. Header(d, x).start + ((k - 1) \div CELLS) \in Data(d, x)
  <2>. DEFINE q == (k - 1) \div CELLS
              st == Header(d, x).start
              n == BytesToSectors(Header(d, x).length)
  <2>1. q \in Nat /\ q < n /\ n \in Nat
    BY <1>1, Cells
  <2>2. st \in Nat /\ st + n <= SECTORS
    BY DEF FileAt
  <2>. HIDE DEF q, n, st
  <2>3. st + q \in Run(st, n)
    BY <2>1, <2>2, Consts DEF Run, Sectors
  <2>. QED  BY <2>3 DEF Data, q, st, n
<1>3. ((k - 1) % CELLS) + 1 \in 1..CELLS
  BY <1>1, Cells
<1>4. FileCells(d, x)[k] = CellAt(d, Header(d, x), k - 1)
  BY DEF FileCells
<1>. QED  BY <1>2, <1>3, <1>4 DEF CellAt

\* A file none of whose sectors change.
LEMMA CellsKept ==
  ASSUME NEW d, NEW x, FileAt(d, x), NEW d2, \A y \in Owned(d, x) : d2[y] = d[y]
  PROVE  /\ FileCells(d2, x) = FileCells(d, x) /\ FileAt(d2, x) /\ Owned(d2, x) = Owned(d, x)
         /\ Header(d2, x) = Header(d, x)
<1>1. d2[x] = d[x]
  BY DEF Owned
<1>2. Header(d2, x) = Header(d, x) /\ Owned(d2, x) = Owned(d, x) /\ FileAt(d2, x)
  <2>1. \A y \in {x} : d2[y] = d[y]
    BY <1>1
  <2>. QED  BY <2>1, ApartKept
<1>3. \A k \in 1..Header(d, x).length : FileCells(d2, x)[k] = FileCells(d, x)[k]
  <2>. SUFFICES ASSUME NEW k \in 1..Header(d, x).length PROVE FileCells(d2, x)[k] = FileCells(d, x)[k]
    OBVIOUS
  <2>1. Header(d, x).start + ((k - 1) \div CELLS) \in Owned(d, x)
    BY CellPlace DEF Owned, Data
  <2>. QED  BY <2>1, <1>2, CellPlace
<1>4. FileCells(d2, x) = FileCells(d, x)
  <2>. DEFINE n == Header(d, x).length
              a == FileCells(d, x)
              b == FileCells(d2, x)
  <2>1. a = [k \in 1..n |-> a[k]] /\ b = [k \in 1..n |-> b[k]]
    BY <1>2 DEF FileCells
  <2>2. \A k \in 1..n : b[k] = a[k]
    BY <1>3
  <2>. HIDE DEF a, b, n
  <2>3. a = b
    BY <2>1, <2>2
  <2>. QED  BY <2>3 DEF a, b
<1>. QED  BY <1>2, <1>4

\* What an entry of the directory changes is no cell of a file.
LEMMA FilesKept ==
  ASSUME NEW d, NEW L, Apart(d, L), NEW d2, \A i \in Sectors \ RootSectors : d2[i] = d[i]
  PROVE  /\ Apart(d2, L)
         /\ \A x \in L : FileCells(d2, x) = FileCells(d, x) /\ Owned(d2, x) = Owned(d, x)
<1>1. ASSUME NEW x \in L PROVE FileAt(d, x) /\ \A y \in Owned(d, x) : d2[y] = d[y]
  <2>1. FileAt(d, x)
    BY DEF Apart
  <2>2. Owned(d, x) \subseteq Sectors \ RootSectors
    BY <2>1 DEF FileAt, Owned, Data, Run, Base
  <2>. QED  BY <2>1, <2>2
<1>2. \A x \in L : FileCells(d2, x) = FileCells(d, x) /\ FileAt(d2, x) /\ Owned(d2, x) = Owned(d, x)
  BY <1>1, CellsKept
<1>. QED  BY <1>2 DEF Apart

\* The cells of a file are a sequence.
LEMMA CellsLen ==
  ASSUME NEW d, NEW x, FileAt(d, x)
  PROVE  Len(FileCells(d, x)) = Header(d, x).length /\ Header(d, x).length \in Nat
<1>. DEFINE n == Header(d, x).length
            e(k) == CellAt(d, Header(d, x), k - 1)
            S == {e(k) : k \in 1..n}
<1>1. n \in Nat
  BY DEF FileAt
<1>2. \A k \in 1..n : e(k) \in S
  OBVIOUS
<1>. HIDE DEF n, S, e
<1>3. [k \in 1..n |-> e(k)] \in [1..n -> S]
  BY <1>2
<1>4. Len([k \in 1..n |-> e(k)]) = n
  BY <1>1
<1>. QED  BY <1>1, <1>4 DEF FileCells, n, e

\* A name that is given to a file, one that is taken away, and one sector that is written, in
\* terms of FileStore's state: the names l, the files c, the handles o and those that deny, w.
Adds(l, c, l2, c2, n, x) ==
    /\ l[n] = NONE /\ x # NONE /\ l2 = [l EXCEPT ![n] = x] /\ l2[n] = x
    /\ x \notin DOMAIN c /\ c2 = [i \in DOMAIN c \cup {x} |-> IF i = x THEN c2[x] ELSE c[i]]
    /\ \A k \in 1..Len(c2[x]) : c2[x][k] = Zero

\* The same for a name that is taken away.
Removes(l, c, l2, c2, n, o) ==
    l[n] # NONE /\ l2 = [l EXCEPT ![n] = NONE] /\ l2[n] = NONE /\ c2 = Drops(l2, o, c)

\* An entry that is added is a new name.
LEMMA LinkAdded ==
  ASSUME NEW d, DiskOK(d), NEW d2, DiskOK(d2), NEW a \in Slots \ Used(d), NEW x \in Sectors, NEW n \in Names,
         NEW e, e = <<x, n, TRUE>>, SlotSet(d, d2, a, e), Unnamed(d, n)
  PROVE  /\ LinkOf(d)[n] = NONE /\ LinkOf(d2) = [LinkOf(d) EXCEPT ![n] = x] /\ LinkOf(d2)[n] = x
         /\ Used(d2) = Used(d) \cup {a} /\ Named(d2) = Named(d) \cup {x} /\ x \notin Named(d)
<1>1. \A b \in Slots \ {a} : Slot(d2, b) = Slot(d, b)
  BY DEF SlotSet
<1>2. InUse(Slot(d2, a)) /\ Slot(d2, a)[1] = x /\ Slot(d2, a)[2] = n
  <2>1. Slot(d2, a) = e
    BY DEF SlotSet
  <2>2. InUse(e) /\ e[1] = x /\ e[2] = n
    BY EntriesAre
  <2>. QED  BY <2>1, <2>2
<1>3. Used(d2) = Used(d) \cup {a} /\ Used(d) \subseteq Slots
  BY <1>1, <1>2 DEF Used
<1>4. \A b \in Used(d) : b # a /\ Slot(d2, b) = Slot(d, b)
  BY <1>1, <1>3
<1>5. Named(d2) = Named(d) \cup {x}
  BY <1>2, <1>3, <1>4 DEF Named
<1>6. x \notin Named(d)
  <2>1. \A b \in Used(d) : Slot(d, b)[1] # x
    BY <1>2, <1>3, <1>4 DEF DiskOK, Directory
  <2>. QED  BY <2>1 DEF Named
<1>7. LinkOf(d)[n] = NONE /\ LinkOf(d2)[n] = x
  BY <1>2, <1>3, LinkIs
<1>8. ASSUME NEW m \in Names \ {n} PROVE LinkOf(d2)[m] = LinkOf(d)[m]
  <2>1. CASE Unnamed(d, m)
    <3>1. Unnamed(d2, m)
      BY <2>1, <1>2, <1>3, <1>4 DEF Unnamed
    <3>. QED  BY <2>1, <3>1, LinkIs
  <2>2. ASSUME NEW b \in Used(d), Slot(d, b)[2] = m PROVE LinkOf(d2)[m] = LinkOf(d)[m]
    <3>1. LinkOf(d)[Slot(d, b)[2]] = Slot(d, b)[1]
      BY LinkIs
    <3>2. LinkOf(d2)[Slot(d2, b)[2]] = Slot(d2, b)[1]
      BY <1>3, LinkIs
    <3>. QED  BY <2>2, <3>1, <3>2, <1>4
  <2>. QED  BY <2>1, <2>2, LinkIs
<1>9. LinkOf(d2) = [LinkOf(d) EXCEPT ![n] = x]
  <2>. DEFINE l == LinkOf(d)
              l2 == LinkOf(d2)
  <2>1. l = [m \in Names |-> l[m]] /\ l2 = [m \in Names |-> l2[m]]
    BY LinkIs
  <2>2. l2[n] = x /\ \A m \in Names \ {n} : l2[m] = l[m]
    BY <1>7, <1>8
  <2>. HIDE DEF l, l2
  <2>3. l2 = [l EXCEPT ![n] = x]
    BY <2>1, <2>2
  <2>. QED  BY <2>3 DEF l, l2
<1>. QED  BY <1>3, <1>5, <1>6, <1>7, <1>9

\* An entry that is erased takes a name away.
LEMMA LinkRemoved ==
  ASSUME NEW d, DiskOK(d), NEW d2, DiskOK(d2), NEW a \in Used(d), NEW n,
         NEW e, e = Erased(Slot(d, a)[1], n), SlotSet(d, d2, a, e), NEW m, m = Slot(d, a)[2]
  PROVE  /\ m \in Names /\ LinkOf(d)[m] # NONE /\ LinkOf(d2) = [LinkOf(d) EXCEPT ![m] = NONE] /\ LinkOf(d2)[m] = NONE
         /\ Named(d2) \subseteq Named(d)
<1>1. \A b \in Slots \ {a} : Slot(d2, b) = Slot(d, b)
  BY DEF SlotSet
<1>2. ~InUse(Slot(d2, a))
  <2>1. Slot(d2, a) = e
    BY DEF SlotSet
  <2>2. ~InUse(e)
    BY EntriesAre DEF Erased
  <2>. QED  BY <2>1, <2>2
<1>3. Used(d2) = Used(d) \ {a} /\ Used(d) \subseteq Slots
  BY <1>1, <1>2 DEF Used
<1>4. \A b \in Used(d2) : b # a /\ b \in Used(d) /\ Slot(d2, b) = Slot(d, b)
  BY <1>1, <1>3
<1>5. Named(d2) \subseteq Named(d)
  BY <1>4 DEF Named
<1>6. m \in Names /\ LinkOf(d)[m] # NONE
  <2>1. m \in Names /\ Slot(d, a)[1] # NONE
    BY UsedIs DEF DiskOK
  <2>. QED  BY <2>1, LinkIs
<1>7. LinkOf(d2)[m] = NONE
  <2>1. \A b \in Used(d2) : Slot(d2, b)[2] # m
    BY <1>4 DEF DiskOK, Directory
  <2>2. Unnamed(d2, m)
    BY <2>1 DEF Unnamed
  <2>. QED  BY <1>6, <2>2, LinkIs
<1>8. ASSUME NEW k \in Names \ {m} PROVE LinkOf(d2)[k] = LinkOf(d)[k]
  <2>1. CASE Unnamed(d, k)
    <3>1. Unnamed(d2, k)
      BY <2>1, <1>4 DEF Unnamed
    <3>. QED  BY <2>1, <3>1, LinkIs
  <2>2. ASSUME NEW b \in Used(d), Slot(d, b)[2] = k PROVE LinkOf(d2)[k] = LinkOf(d)[k]
    <3>1. LinkOf(d)[Slot(d, b)[2]] = Slot(d, b)[1]
      BY LinkIs
    <3>2. b \in Used(d2)
      BY <2>2, <1>8, <1>3
    <3>3. LinkOf(d2)[Slot(d2, b)[2]] = Slot(d2, b)[1]
      BY <3>2, LinkIs
    <3>. QED  BY <2>2, <3>1, <3>2, <3>3, <1>4
  <2>. QED  BY <2>1, <2>2, LinkIs
<1>9. LinkOf(d2) = [LinkOf(d) EXCEPT ![m] = NONE]
  <2>. DEFINE l == LinkOf(d)
              l2 == LinkOf(d2)
  <2>1. l = [k \in Names |-> l[k]] /\ l2 = [k \in Names |-> l2[k]]
    BY LinkIs
  <2>2. l2[m] = NONE /\ \A k \in Names \ {m} : l2[k] = l[k]
    BY <1>7, <1>8
  <2>. HIDE DEF l, l2
  <2>3. l2 = [l EXCEPT ![m] = NONE]
    BY <2>1, <2>2
  <2>. QED  BY <2>3 DEF l, l2
<1>. QED  BY <1>5, <1>6, <1>7, <1>9

\* A creation that reaches the disk.
LEMMA FileAdded ==
  ASSUME NEW d, DiskOK(d), NEW d2, DiskOK(d2), NEW O, O \subseteq Sectors, NEW L, L = Named(d) \cup O, Apart(d, L),
         Added(d, d2, O), NEW L2, L2 = Named(d2) \cup O
  PROVE  Apart(d2, L2) /\ \E n \in Names, x \in Sectors : Adds(LinkOf(d), Shown(d, L), LinkOf(d2), Shown(d2, L2), n, x)
<1>1. PICK a \in Slots \ Used(d), x \in Sectors, n \in Names :
          /\ SlotSet(d, d2, a, <<x, n, TRUE>>) /\ Unnamed(d, n)
          /\ Owned(d, x) \cap OwnedBy(d, O) = {} /\ Blank(d, x)
  BY DEF Added
<1>. DEFINE e == <<x, n, TRUE>>
            l == LinkOf(d)
            l2 == LinkOf(d2)
            c == Shown(d, L)
            c2 == Shown(d2, L2)
<1>2. e = <<x, n, TRUE>> /\ SlotSet(d, d2, a, e) /\ Unnamed(d, n)
  BY <1>1
<1>. HIDE DEF e
<1>3. /\ l[n] = NONE /\ l2 = [l EXCEPT ![n] = x] /\ l2[n] = x
      /\ Used(d2) = Used(d) \cup {a} /\ Named(d2) = Named(d) \cup {x} /\ x \notin Named(d)
  BY <1>2, LinkAdded
<1>4. \A i \in Sectors \ RootSectors : d2[i] = d[i]
  BY <1>1 DEF SlotSet
<1>5. FileAt(d2, x) /\ Apart(d2, Named(d2))
  BY <1>3 DEF DiskOK, Apart
<1>6. x \notin O /\ x \notin L /\ L2 = L \cup {x}
  <2>1. \A y \in O : y \in OwnedBy(d, O)
    BY DEF OwnedBy, Owned
  <2>2. x \in Owned(d, x)
    BY DEF Owned
  <2>. QED  BY <2>1, <2>2, <1>1, <1>3
<1>7. Apart(d2, L) /\ \A y \in L : FileCells(d2, y) = FileCells(d, y) /\ Owned(d2, y) = Owned(d, y)
  BY <1>4, FilesKept
<1>8. Header(d2, x) = Header(d, x) /\ Owned(d2, x) = Owned(d, x) /\ Data(d2, x) = Data(d, x)
  <2>1. x \in Sectors \ RootSectors
    BY <1>5, FilesPlace
  <2>2. \A y \in {x} : d2[y] = d[y]
    BY <2>1, <1>4
  <2>. QED  BY <2>2, ApartKept
<1>9. ASSUME NEW y \in L PROVE Owned(d2, x) \cap Owned(d2, y) = {}
  <2>1. CASE y \in Named(d)
    <3>1. y # x /\ y \in Named(d2) /\ x \in Named(d2)
      BY <2>1, <1>3
    <3>. QED  BY <3>1, <1>5 DEF Apart
  <2>2. CASE y \in O
    <3>1. Owned(d, y) \subseteq OwnedBy(d, O)
      BY <2>2 DEF OwnedBy
    <3>. QED  BY <3>1, <1>1, <1>7, <1>8
  <2>. QED  BY <2>1, <2>2
<1>10. Apart(d2, L2)
  BY <1>5, <1>6, <1>7, <1>9 DEF Apart
<1>11. ASSUME NEW k \in 1..Len(c2[x]) PROVE c2[x][k] = Zero
  <2>1. c2[x] = FileCells(d2, x)
    BY <1>6 DEF Shown
  <2>2. k \in 1..Header(d2, x).length
    BY <2>1, <1>11, <1>5, CellsLen
  <2>. DEFINE y == Header(d2, x).start + ((k - 1) \div CELLS)
              j == ((k - 1) % CELLS) + 1
  <2>3. y \in Data(d2, x) /\ j \in 1..CELLS /\ FileCells(d2, x)[k] = d2[y][j]
    BY <2>2, <1>5, CellPlace
  <2>. HIDE DEF y, j
  <2>4. d[y][j] = Zero
    BY <2>3, <1>1, <1>8 DEF Blank
  <2>5. y \in Sectors \ RootSectors
    BY <2>3, <1>5 DEF FileAt, Owned, Data, Run, Base
  <2>. QED  BY <2>1, <2>3, <2>4, <2>5, <1>4
<1>12. DOMAIN c = L /\ c2 = [i \in L \cup {x} |-> IF i = x THEN c2[x] ELSE c[i]]
  <2>1. DOMAIN c = L /\ \A y \in L : c[y] = FileCells(d, y)
    BY DEF Shown
  <2>2. c2 = [i \in L \cup {x} |-> FileCells(d2, i)] /\ c2[x] = FileCells(d2, x)
    BY <1>6 DEF Shown
  <2>. HIDE DEF c, c2
  <2>3. \A i \in L \cup {x} : FileCells(d2, i) = IF i = x THEN c2[x] ELSE c[i]
    BY <2>1, <2>2, <1>7
  <2>. QED  BY <2>1, <2>2, <2>3
<1>13. x # NONE
  BY FileAssumption
<1>. HIDE DEF l, l2, c, c2
<1>14. Adds(l, c, l2, c2, n, x)
  BY <1>3, <1>6, <1>11, <1>12, <1>13 DEF Adds
<1>. QED  BY <1>10, <1>14 DEF l, l2, c, c2

\* A removal that reaches the disk.
LEMMA FileErased ==
  ASSUME NEW d, DiskOK(d), NEW d2, DiskOK(d2), NEW f \in FileTable, NEW O, O = OpenedBy(f),
         NEW L, L = Named(d) \cup O, Apart(d, L), Removed(d, d2), NEW L2, L2 = Named(d2) \cup O
  PROVE  /\ Apart(d2, L2)
         /\ \E n \in Names : Removes(LinkOf(d), Shown(d, L), LinkOf(d2), Shown(d2, L2), n, OpenedOf(f))
<1>1. PICK a \in Used(d), n \in Names : SlotSet(d, d2, a, Erased(Slot(d, a)[1], n))
  BY DEF Removed
<1>. DEFINE e == Erased(Slot(d, a)[1], n)
            m == Slot(d, a)[2]
            l == LinkOf(d)
            l2 == LinkOf(d2)
            c == Shown(d, L)
            c2 == Shown(d2, L2)
<1>2. SlotSet(d, d2, a, e) /\ e = Erased(Slot(d, a)[1], n) /\ m = Slot(d, a)[2]
  BY <1>1
<1>. HIDE DEF e, m
<1>3. /\ m \in Names /\ l[m] # NONE /\ l2 = [l EXCEPT ![m] = NONE] /\ l2[m] = NONE
      /\ Named(d2) \subseteq Named(d)
  BY <1>2, LinkRemoved
<1>4. \A i \in Sectors \ RootSectors : d2[i] = d[i]
  BY <1>2 DEF SlotSet
<1>5. Apart(d2, L) /\ \A x \in L : FileCells(d2, x) = FileCells(d, x)
  BY <1>4, FilesKept
<1>6. L2 \subseteq L /\ L \subseteq Sectors
  BY <1>3 DEF Apart, FileAt
<1>7. Apart(d2, L2)
  BY <1>5, <1>6 DEF Apart
<1>8. c2 = Drops(l2, OpenedOf(f), c)
  BY <1>5, <1>6, DropsAre
<1>. HIDE DEF l, l2, c, c2
<1>9. Removes(l, c, l2, c2, m, OpenedOf(f))
  BY <1>3, <1>8 DEF Removes
<1>. QED  BY <1>3, <1>7, <1>9 DEF l, l2, c, c2

\* The same for a sector of an open file that is written.
Writes(c, c2, o, w) ==
    \E h \in Handles : LET x == o[h]
                           Differs(i) == c2[x][i] # c[x][i] IN
        /\ x # NONE /\ \A g \in w : o[g] # x
        /\ c2 = [c EXCEPT ![x] = c2[x]] /\ Len(c2[x]) = Len(c[x])
        /\ \A i, j \in 1..Len(c[x]) : Differs(i) /\ Differs(j) => (i - 1) \div CELLS = (j - 1) \div CELLS

\* A handle on a file that nobody denies writes to.
LEMMA WriterIs ==
  ASSUME NEW f \in FileTable, NEW x \in WritableBy(f)
  PROVE  \E h \in Handles : OpenedOf(f)[h] = x /\ x # NONE /\ \A g \in DeniedOf(f) : OpenedOf(f)[g] # x
<1>1. x \in Sectors /\ x \in OpenedBy(f) /\ Denying(f, x) = {}
  BY DEF WritableBy, OpenedBy
<1>2. x # NONE
  BY <1>1, FileAssumption
<1>3. PICK h \in Handles : OpenedOf(f)[h] = x
  BY <1>1, OpenRange
<1>4. ASSUME NEW g \in DeniedOf(f) PROVE OpenedOf(f)[g] # x
  <2>1. g \in Handles /\ f[g] # NONE /\ f[g].deny_write
    BY DEF DeniedOf
  <2>2. f[g].sector # x
    BY <1>1, <2>1 DEF Denying, On
  <2>. QED  BY <2>1, <2>2 DEF OpenedOf
<1>. QED  BY <1>2, <1>3, <1>4

\* One sector of the data of file x that changes.
LEMMA OneSector ==
  ASSUME NEW d, NEW x, FileAt(d, x), NEW y0 \in Data(d, x), NEW d2, \A y \in Sectors \ {y0} : d2[y] = d[y]
  PROVE  /\ Header(d2, x) = Header(d, x) /\ FileAt(d2, x) /\ Owned(d2, x) = Owned(d, x)
         /\ Len(FileCells(d2, x)) = Len(FileCells(d, x))
         /\ \A i, j \in 1..Len(FileCells(d, x)) :
               FileCells(d2, x)[i] # FileCells(d, x)[i] /\ FileCells(d2, x)[j] # FileCells(d, x)[j]
                 => (i - 1) \div CELLS = (j - 1) \div CELLS
<1>1. d2[x] = d[x]
  BY DEF FileAt
<1>2. Header(d2, x) = Header(d, x) /\ Owned(d2, x) = Owned(d, x) /\ FileAt(d2, x)
  <2>1. \A y \in {x} : d2[y] = d[y]
    BY <1>1
  <2>. QED  BY <2>1, ApartKept
<1>3. Len(FileCells(d2, x)) = Len(FileCells(d, x)) /\ Len(FileCells(d, x)) = Header(d, x).length
  BY <1>2, CellsLen
<1>. DEFINE st == Header(d, x).start
            at(k) == st + ((k - 1) \div CELLS)
            p(k) == ((k - 1) % CELLS) + 1
<1>4. \A k \in 1..Header(d, x).length :
         /\ at(k) \in Data(d, x) /\ FileCells(d, x)[k] = d[at(k)][p(k)] /\ FileCells(d2, x)[k] = d2[at(k)][p(k)]
  BY <1>2, CellPlace
<1>5. Data(d, x) \subseteq Sectors
  BY DEF Data, Run
<1>. HIDE DEF at, p
<1>6. \A k \in 1..Header(d, x).length : FileCells(d2, x)[k] # FileCells(d, x)[k] => at(k) = y0
  BY <1>4, <1>5
<1>. HIDE DEF st
<1>7. ASSUME NEW i \in 1..Header(d, x).length, NEW j \in 1..Header(d, x).length, at(i) = y0, at(j) = y0
      PROVE  (i - 1) \div CELLS = (j - 1) \div CELLS
  <2>. DEFINE a == (i - 1) \div CELLS
              b == (j - 1) \div CELLS
  <2>1. st \in Nat /\ i - 1 \in Nat /\ j - 1 \in Nat
    BY DEF FileAt, st
  <2>2. a \in Nat /\ b \in Nat
    BY <2>1, Cells
  <2>3. st + a = st + b
    BY <1>7 DEF at
  <2>. HIDE DEF a, b
  <2>4. a = b
    BY <2>1, <2>2, <2>3
  <2>. QED  BY <2>4 DEF a, b
<1>8. \A i, j \in 1..Len(FileCells(d, x)) :
         FileCells(d2, x)[i] # FileCells(d, x)[i] /\ FileCells(d2, x)[j] # FileCells(d, x)[j]
           => (i - 1) \div CELLS = (j - 1) \div CELLS
  BY <1>3, <1>6, <1>7
<1>. QED  BY <1>2, <1>3, <1>8

\* Names depend on the directory only.
LEMMA LinkKept ==
  ASSUME NEW d, Layout(d), NEW d2, Layout(d2), \A a \in Slots : Slot(d2, a) = Slot(d, a)
  PROVE  LinkOf(d2) = LinkOf(d) /\ Named(d2) = Named(d)
<1>1. Used(d2) = Used(d) /\ Used(d) \subseteq Slots
  BY DEF Used
<1>2. Named(d2) = Named(d)
  BY <1>1 DEF Named
<1>3. Entries(d2) = Entries(d)
  <2>1. Entries(d) = {Slot(d, a) : a \in Used(d)} /\ Entries(d2) = {Slot(d2, a) : a \in Used(d2)}
    BY LayoutMeans
  <2>. QED  BY <2>1, <1>1
<1>. QED  BY <1>2, <1>3 DEF LinkOf

\* A sector of a file that reaches the disk.
LEMMA FileRewritten ==
  ASSUME NEW d, DiskOK(d), NEW d2, DiskOK(d2), NEW f \in FileTable, NEW O, O = OpenedBy(f), NEW W, W = WritableBy(f),
         NEW L, L = Named(d) \cup O, Apart(d, L), Rewritten(d, d2, O, W),
         NEW y0, \A y \in Sectors \ {y0} : d2[y] = d[y], NEW L2, L2 = Named(d2) \cup O
  PROVE  /\ Apart(d2, L2) /\ LinkOf(d2) = LinkOf(d)
         /\ \/ Shown(d2, L2) = Shown(d, L)
            \/ Writes(Shown(d, L), Shown(d2, L2), OpenedOf(f), DeniedOf(f))
<1>1. LinkOf(d2) = LinkOf(d) /\ L2 = L
  <2>1. \A a \in Slots : Slot(d2, a) = Slot(d, a)
    BY DEF Rewritten
  <2>. QED  BY <2>1, LinkKept DEF DiskOK
<1>2. \A y \in OwnedBy(d, L) : d2[y] = d[y] \/ \E x \in W : y \in Data(d, x)
  BY DEF Rewritten
<1>3. W \subseteq L
  BY DEF WritableBy
<1>4. \A x \in L : FileAt(d, x) /\ Owned(d, x) \subseteq OwnedBy(d, L) /\ Owned(d, x) \subseteq Sectors /\ Data(d, x) \subseteq Owned(d, x)
  BY DEF Apart, FileAt, OwnedBy, Owned, Data, Run
<1>5. ASSUME \A y \in OwnedBy(d, L) : d2[y] = d[y] PROVE Apart(d2, L) /\ Shown(d2, L) = Shown(d, L)
  <2>1. \A x \in L : FileCells(d2, x) = FileCells(d, x) /\ FileAt(d2, x) /\ Owned(d2, x) = Owned(d, x)
    <3>1. \A x \in L : FileAt(d, x) /\ \A y \in Owned(d, x) : d2[y] = d[y]
      BY <1>4, <1>5
    <3>. QED  BY <3>1, CellsKept
  <2>2. Apart(d2, L)
    BY <2>1 DEF Apart
  <2>3. Shown(d2, L) = Shown(d, L)
    BY <2>1 DEF Shown
  <2>. QED  BY <2>2, <2>3
<1>6. ASSUME NEW w \in W, y0 \in Data(d, w)
      PROVE  Apart(d2, L) /\ Writes(Shown(d, L), Shown(d2, L), OpenedOf(f), DeniedOf(f))
  <2>. DEFINE c == Shown(d, L)
              c2 == Shown(d2, L)
  <2>1. w \in L /\ FileAt(d, w)
    BY <1>3, <1>4
  <2>2. /\ FileAt(d2, w) /\ Owned(d2, w) = Owned(d, w) /\ Len(FileCells(d2, w)) = Len(FileCells(d, w))
        /\ \A i, j \in 1..Len(FileCells(d, w)) :
              FileCells(d2, w)[i] # FileCells(d, w)[i] /\ FileCells(d2, w)[j] # FileCells(d, w)[j]
                => (i - 1) \div CELLS = (j - 1) \div CELLS
    BY <1>6, <2>1, OneSector
  <2>3. ASSUME NEW x \in L \ {w}
        PROVE  FileCells(d2, x) = FileCells(d, x) /\ FileAt(d2, x) /\ Owned(d2, x) = Owned(d, x)
    <3>1. y0 \notin Owned(d, x)
      BY <1>4, <1>6, <2>1 DEF Apart
    <3>2. \A y \in Owned(d, x) : d2[y] = d[y]
      BY <3>1, <1>4
    <3>. QED  BY <3>2, <1>4, CellsKept
  <2>4. Apart(d2, L)
    <3>1. \A x \in L : FileAt(d2, x) /\ Owned(d2, x) = Owned(d, x)
      BY <2>2, <2>3
    <3>. QED  BY <3>1 DEF Apart
  <2>5. c2 = [c EXCEPT ![w] = c2[w]] /\ c[w] = FileCells(d, w) /\ c2[w] = FileCells(d2, w)
    <3>1. /\ c = [x \in L |-> c[x]] /\ c2 = [x \in L |-> c2[x]]
          /\ \A x \in L : c[x] = FileCells(d, x) /\ c2[x] = FileCells(d2, x)
      BY DEF Shown
    <3>. HIDE DEF c, c2
    <3>2. \A x \in L \ {w} : c2[x] = c[x]
      BY <3>1, <2>3
    <3>. QED  BY <3>1, <3>2, <2>1
  <2>6. PICK h \in Handles : OpenedOf(f)[h] = w /\ w # NONE /\ \A g \in DeniedOf(f) : OpenedOf(f)[g] # w
    BY WriterIs
  <2>. HIDE DEF c, c2
  <2>7. Writes(c, c2, OpenedOf(f), DeniedOf(f))
    <3>. DEFINE Differs(i) == c2[w][i] # c[w][i]
    <3>1. Len(c2[w]) = Len(c[w])
      BY <2>2, <2>5
    <3>2. \A i, j \in 1..Len(c[w]) : Differs(i) /\ Differs(j) => (i - 1) \div CELLS = (j - 1) \div CELLS
      BY <2>2, <2>5
    <3>. QED  BY <2>5, <2>6, <3>1, <3>2 DEF Writes
  <2>. QED  BY <2>4, <2>7 DEF c, c2
<1>7. CASE \E w \in W : y0 \in Data(d, w)
  BY <1>1, <1>6, <1>7
<1>8. CASE \A w \in W : y0 \notin Data(d, w)
  <2>1. OwnedBy(d, L) \subseteq Sectors
    BY <1>4 DEF OwnedBy
  <2>2. \A y \in OwnedBy(d, L) : d2[y] = d[y]
    BY <1>2, <1>8, <2>1
  <2>. QED  BY <2>2, <1>1, <1>5
<1>. QED  BY <1>7, <1>8

\* The steps of FileStore that a sector of the disk shows.
LEMMA AddsAreStores ==
  ASSUME NEW n \in Names, NEW x, Adds(link, contents, link', contents', n, x), opened' = opened, denied' = denied
  PROVE  Store!Next
<1>1. /\ link[n] = NONE /\ x # NONE /\ link' = [link EXCEPT ![n] = x] /\ link'[n] = x
      /\ x \notin DOMAIN contents
      /\ contents' = [i \in DOMAIN contents \cup {x} |-> IF i = x THEN contents'[x] ELSE contents[i]]
      /\ \A k \in 1..Len(contents'[x]) : contents'[x][k] = Zero
  BY DEF Adds
<1>2. link' # link
  BY <1>1
<1>3. Store!Create(n)
  BY <1>1 DEF Store!Create
<1>. QED  BY <1>2, <1>3 DEF Store!Next

\* A name that is taken away.
LEMMA RemovesAreStores ==
  ASSUME NEW n \in Names, Removes(link, contents, link', contents', n, opened'), opened' = opened, denied' = denied
  PROVE  Store!Next
<1>1. link[n] # NONE /\ link' = [link EXCEPT ![n] = NONE] /\ link'[n] = NONE /\ contents' = Drops(link', opened', contents)
  BY DEF Removes
<1>2. link' # link
  BY <1>1
<1>3. Store!DropUnused
  BY <1>1 DEF Store!DropUnused, Store!Kept, Drops
<1>4. Store!Remove(n)
  BY <1>1, <1>3 DEF Store!Remove
<1>. QED  BY <1>2, <1>4 DEF Store!Next

\* A sector of an open file that is written.
LEMMA WritesAreStores ==
  ASSUME Writes(contents, contents', opened, denied), link' = link, opened' = opened, denied' = denied
  PROVE  Store!Next \/ UNCHANGED Store!vars
<1>1. CASE contents' = contents
  BY <1>1 DEF Store!vars
<1>2. CASE contents' # contents
  BY <1>2 DEF Writes, Store!Write, Store!Next
<1>. QED  BY <1>1, <1>2

\* The files that exist are apart on the disk, between the sectors of a call too, and no handle
\* has one open while the system is off.
StoreInv == (~map_open => files = Unopened) /\ Apart(disk, Named(disk) \cup OpenedBy(files))

\* What the invariant says of the disk and of the handles.
LEMMA StateMeans ==
  ASSUME NEW d, NEW lg, NEW fm, NEW mo, NEW nodes, NEW f, NEW p, NEW lk, StateOK(d, lg, fm, mo, nodes, f, p, lk),
         ~mo => f = Unopened
  PROVE  DiskOK(d) /\ f \in FileTable
<1>1. CASE mo
  <2>1. PICK D : Whole(Record(D, lg, fm, mo, nodes, f, p), Frame(d, f), lk)
    BY <1>1 DEF StateOK
  <2>. DEFINE r == Record(D, lg, fm, mo, nodes, f, p)
              e == Frame(d, f)
  <2>2. r.files = f /\ e.from = d
    BY RecordIs DEF Frame
  <2>. HIDE DEF r, e
  <2>3. Whole(r, e, lk)
    BY <2>1 DEF r, e
  <2>4. DiskOK(e.from) /\ r.files \in FileTable
    BY <2>3, WholeMeans
  <2>. QED  BY <2>2, <2>4
<1>2. CASE ~mo
  <2>1. DiskOK(d)
    BY <1>2 DEF StateOK
  <2>. QED  BY <1>2, <2>1, UnopenedIs
<1>. QED  BY <1>1, <1>2

\* FileStore's state, by the files that exist.
LEMMA StoreShown ==
  ASSUME IInv, StoreInv
  PROVE  /\ DiskOK(disk) /\ files \in FileTable
         /\ link = LinkOf(disk) /\ opened = OpenedOf(files) /\ denied = DeniedOf(files)
         /\ contents = Shown(disk, Named(disk) \cup OpenedBy(files))
<1>1. DiskOK(disk) /\ files \in FileTable
  BY StateMeans DEF IInv, StoreInv
<1>2. LiveOf(disk, files) = Named(disk) \cup OpenedBy(files)
  BY <1>1, LiveIs DEF DiskOK
<1>. QED  BY <1>1, <1>2, StoreIs

\* The same of the next state.
LEMMA NextShown ==
  ASSUME DiskOK(disk'), files' \in FileTable
  PROVE  /\ link' = LinkOf(disk') /\ opened' = OpenedOf(files') /\ denied' = DeniedOf(files')
         /\ contents' = Shown(disk', Named(disk') \cup OpenedBy(files'))
<1>1. LiveOf(disk', files') = Named(disk') \cup OpenedBy(files')
  BY LiveIs DEF DiskOK
<1>. QED  BY <1>1, StoreIs

\* A sector of a call that reaches the disk.
LEMMA FlushMoves ==
  ASSUME IInv, Flush
  PROVE  /\ Moved(disk, disk', OpenedBy(files), WritableBy(files)) /\ DiskOK(disk')
         /\ files' = files /\ map_open' = map_open /\ map_open
         /\ \E y0 : \A y \in Sectors \ {y0} : disk'[y] = disk[y]
<1>1. /\ log # <<>> /\ disk' = [disk EXCEPT ![Head(log).sector] = Head(log).cells]
      /\ map_open' = map_open /\ files' = files
  BY DEF Flush, memory
<1>2. map_open
  BY <1>1 DEF IInv, StateOK
<1>3. PICK D : Whole(Record(D, log, free_map, map_open, inodes, files, panic), Frame(disk, files), leaked)
  BY <1>2 DEF IInv, StateOK
<1>. DEFINE r == Record(D, log, free_map, map_open, inodes, files, panic)
            e == Frame(disk, files)
<1>4. r.disk = D /\ r.log = log /\ e.from = disk /\ e.open = OpenedBy(files) /\ e.write = WritableBy(files)
  BY DEF Record, Frame
<1>. HIDE DEF r, e
<1>5. Trail(disk, log, D, OpenedBy(files), WritableBy(files))
  <2>1. Whole(r, e, leaked)
    BY <1>3 DEF r, e
  <2>2. Trail(e.from, r.log, r.disk, e.open, e.write)
    BY <2>1, WholeMeans
  <2>. QED  BY <2>2, <1>4
<1>6. Moved(disk, disk', OpenedBy(files), WritableBy(files)) /\ DiskOK(disk')
  BY <1>1, <1>5, TrailShifts
<1>7. \A y \in Sectors \ {Head(log).sector} : disk'[y] = disk[y]
  <2>1. IsDisk(disk)
    BY DiskHolds DEF DiskOK, Layout
  <2>. QED  BY <2>1, <1>1 DEF IsDisk
<1>. QED  BY <1>1, <1>2, <1>6, <1>7

\* It is a step of FileStore, or shows nothing.
LEMMA FlushStores ==
  ASSUME IInv, StoreInv, Flush
  PROVE  StoreInv' /\ (Store!Next \/ UNCHANGED Store!vars)
<1>. DEFINE d == disk
            d2 == disk'
            O == OpenedBy(files)
            W == WritableBy(files)
            L == Named(d) \cup O
            L2 == Named(d2) \cup O
<1>1. /\ DiskOK(d) /\ files \in FileTable /\ Apart(d, L)
      /\ link = LinkOf(d) /\ opened = OpenedOf(files) /\ denied = DeniedOf(files) /\ contents = Shown(d, L)
  BY StoreShown DEF StoreInv
<1>2. Moved(d, d2, O, W) /\ DiskOK(d2) /\ files' = files /\ map_open'
  BY FlushMoves
<1>3. PICK y0 : \A y \in Sectors \ {y0} : d2[y] = d[y]
  BY FlushMoves
<1>4. /\ link' = LinkOf(d2) /\ opened' = OpenedOf(files) /\ denied' = DeniedOf(files) /\ contents' = Shown(d2, L2)
      /\ opened' = opened /\ denied' = denied
  BY <1>1, <1>2, NextShown
<1>5. O \subseteq Sectors
  BY DEF OpenedBy
<1>6. O = OpenedBy(files) /\ W = WritableBy(files) /\ L = Named(d) \cup O /\ L2 = Named(d2) \cup O
  OBVIOUS
<1>. HIDE DEF O, W, L, L2
<1>7. CASE Rewritten(d, d2, O, W)
  <2>1. /\ Apart(d2, L2) /\ LinkOf(d2) = LinkOf(d)
        /\ Shown(d2, L2) = Shown(d, L) \/ Writes(Shown(d, L), Shown(d2, L2), OpenedOf(files), DeniedOf(files))
    BY <1>1, <1>2, <1>3, <1>6, <1>7, FileRewritten
  <2>2. CASE Shown(d2, L2) = Shown(d, L)
    <3>1. UNCHANGED Store!vars
      BY <2>1, <2>2, <1>1, <1>4 DEF Store!vars
    <3>. QED  BY <2>1, <3>1, <1>2, <1>6 DEF StoreInv
  <2>3. CASE Writes(Shown(d, L), Shown(d2, L2), OpenedOf(files), DeniedOf(files))
    <3>1. Writes(contents, contents', opened, denied) /\ link' = link
      BY <2>1, <2>3, <1>1, <1>4
    <3>2. Store!Next \/ UNCHANGED Store!vars
      BY <3>1, <1>4, WritesAreStores
    <3>. QED  BY <2>1, <3>2, <1>2, <1>6 DEF StoreInv
  <2>. QED  BY <2>1, <2>2, <2>3
<1>8. CASE Added(d, d2, O)
  <2>1. Apart(d2, L2) /\ \E n \in Names, x \in Sectors : Adds(LinkOf(d), Shown(d, L), LinkOf(d2), Shown(d2, L2), n, x)
    BY <1>1, <1>2, <1>5, <1>6, <1>8, FileAdded
  <2>2. PICK n \in Names, x \in Sectors : Adds(LinkOf(d), Shown(d, L), LinkOf(d2), Shown(d2, L2), n, x)
    BY <2>1
  <2>3. Adds(link, contents, link', contents', n, x)
    BY <2>2, <1>1, <1>4
  <2>4. Store!Next
    BY <2>3, <1>4, AddsAreStores
  <2>. QED  BY <2>1, <2>4, <1>2, <1>6 DEF StoreInv
<1>9. CASE Removed(d, d2)
  <2>1. Apart(d2, L2) /\ \E n \in Names : Removes(LinkOf(d), Shown(d, L), LinkOf(d2), Shown(d2, L2), n, OpenedOf(files))
    BY <1>1, <1>2, <1>6, <1>9, FileErased
  <2>2. PICK n \in Names : Removes(LinkOf(d), Shown(d, L), LinkOf(d2), Shown(d2, L2), n, OpenedOf(files))
    BY <2>1
  <2>3. Removes(link, contents, link', contents', n, opened')
    BY <2>2, <1>1, <1>4
  <2>4. Store!Next
    BY <2>3, <1>4, RemovesAreStores
  <2>. QED  BY <2>1, <2>4, <1>2, <1>6 DEF StoreInv
<1>. QED  BY <1>2, <1>7, <1>8, <1>9 DEF Moved

\* What a change of one handle shows.
LEMMA GivenShows ==
  ASSUME NEW f \in FileTable, NEW h \in Handles, NEW r \in File, NEW g, g = Given(f, h, r)
  PROVE  /\ OpenedOf(g) = [OpenedOf(f) EXCEPT ![h] = r.sector] /\ OpenedOf(g)[h] = r.sector /\ r.sector # NONE
         /\ DeniedOf(g) \in {DeniedOf(f) \cup {h}, DeniedOf(f) \ {h}}
<1>1. r # NONE /\ r.sector \in Sectors /\ r.sector # NONE
  BY FileAssumption DEF File
<1>2. g[h] = r /\ \A k \in Handles \ {h} : g[k] = f[k]
  BY DEF FileTable, Given
<1>3. OpenedOf(g) = [OpenedOf(f) EXCEPT ![h] = r.sector] /\ OpenedOf(g)[h] = r.sector
  <2>. DEFINE o == OpenedOf(f)
              p == OpenedOf(g)
  <2>1. o = [k \in Handles |-> o[k]] /\ p = [k \in Handles |-> p[k]]
    BY DEF OpenedOf
  <2>2. p[h] = r.sector /\ \A k \in Handles \ {h} : p[k] = o[k]
    BY <1>1, <1>2 DEF OpenedOf
  <2>. HIDE DEF o, p
  <2>3. p = [o EXCEPT ![h] = r.sector]
    BY <2>1, <2>2
  <2>. QED  BY <2>2, <2>3 DEF o, p
<1>4. \A k \in Handles \ {h} : k \in DeniedOf(g) <=> k \in DeniedOf(f)
  BY <1>2 DEF DeniedOf
<1>5. DeniedOf(f) \subseteq Handles /\ DeniedOf(g) \subseteq Handles
  BY DEF DeniedOf
<1>6. CASE h \in DeniedOf(g)
  <2>1. DeniedOf(g) = DeniedOf(f) \cup {h}
    BY <1>4, <1>5, <1>6
  <2>. QED  BY <1>1, <1>3, <2>1
<1>7. CASE h \notin DeniedOf(g)
  <2>1. DeniedOf(g) = DeniedOf(f) \ {h}
    BY <1>4, <1>5, <1>7
  <2>. QED  BY <1>1, <1>3, <2>1
<1>. QED  BY <1>6, <1>7

\* The same for a handle that is closed.
LEMMA CloseShows ==
  ASSUME NEW f \in FileTable, NEW h \in Handles, NEW g, g = Given(f, h, NONE)
  PROVE  /\ OpenedOf(g) = [OpenedOf(f) EXCEPT ![h] = NONE] /\ OpenedOf(g)[h] = NONE
         /\ DeniedOf(g) = DeniedOf(f) \ {h}
<1>1. g[h] = NONE /\ \A k \in Handles \ {h} : g[k] = f[k]
  BY DEF FileTable, Given
<1>2. OpenedOf(g) = [OpenedOf(f) EXCEPT ![h] = NONE] /\ OpenedOf(g)[h] = NONE
  <2>. DEFINE o == OpenedOf(f)
              p == OpenedOf(g)
  <2>1. o = [k \in Handles |-> o[k]] /\ p = [k \in Handles |-> p[k]]
    BY DEF OpenedOf
  <2>2. p[h] = NONE /\ \A k \in Handles \ {h} : p[k] = o[k]
    BY <1>1 DEF OpenedOf
  <2>. HIDE DEF o, p
  <2>3. p = [o EXCEPT ![h] = NONE]
    BY <2>1, <2>2
  <2>. QED  BY <2>2, <2>3 DEF o, p
<1>3. DeniedOf(g) = DeniedOf(f) \ {h}
  BY <1>1 DEF DeniedOf
<1>. QED  BY <1>2, <1>3

\* The files that the handles have open, by what they show.
LEMMA OpenedKept ==
  ASSUME NEW f \in FileTable, NEW g \in FileTable
  PROVE  /\ OpenedOf(g) = OpenedOf(f) => OpenedBy(g) = OpenedBy(f)
         /\ \A h \in Handles, x \in Sectors : OpenedOf(f)[h] = NONE /\ OpenedOf(g) = [OpenedOf(f) EXCEPT ![h] = x]
               => OpenedBy(g) = OpenedBy(f) \cup {x}
         /\ \A h \in Handles : OpenedOf(g) = [OpenedOf(f) EXCEPT ![h] = NONE] => OpenedBy(g) \subseteq OpenedBy(f)
<1>. DEFINE o == OpenedOf(f)
            p == OpenedOf(g)
<1>1. OpenedBy(f) \subseteq Sectors /\ OpenedBy(g) \subseteq Sectors /\ NONE \notin Sectors
  BY FileAssumption DEF OpenedBy
<1>2. \A x \in Sectors : /\ x \in OpenedBy(f) <=> \E k \in Handles : o[k] = x
                         /\ x \in OpenedBy(g) <=> \E k \in Handles : p[k] = x
  BY OpenRange
<1>3. o = [k \in Handles |-> o[k]]
  BY DEF OpenedOf
<1>. HIDE DEF o, p
<1>4. p = o => OpenedBy(g) = OpenedBy(f)
  BY <1>1, <1>2
<1>5. ASSUME NEW h \in Handles, NEW x \in Sectors, o[h] = NONE, p = [o EXCEPT ![h] = x]
      PROVE  OpenedBy(g) = OpenedBy(f) \cup {x}
  <2>1. p[h] = x /\ \A k \in Handles \ {h} : p[k] = o[k]
    BY <1>3, <1>5
  <2>2. ASSUME NEW y \in Sectors PROVE y \in OpenedBy(g) <=> y \in OpenedBy(f) \cup {x}
    BY <2>1, <1>1, <1>2, <1>5
  <2>. QED  BY <2>2, <1>1
<1>6. ASSUME NEW h \in Handles, p = [o EXCEPT ![h] = NONE] PROVE OpenedBy(g) \subseteq OpenedBy(f)
  <2>1. p[h] = NONE /\ \A k \in Handles \ {h} : p[k] = o[k]
    BY <1>3, <1>6
  <2>2. ASSUME NEW y \in OpenedBy(g) PROVE y \in OpenedBy(f)
    BY <2>1, <2>2, <1>1, <1>2
  <2>. QED  BY <2>2
<1>. QED  BY <1>4, <1>5, <1>6 DEF o, p

\* A call that is served opens or closes a handle, turns its denial, or shows nothing.
LEMMA ServedStores ==
  ASSUME IInv, StoreInv, IInv', Serves
  PROVE  StoreInv' /\ (Store!Next \/ UNCHANGED Store!vars)
<1>. DEFINE d == disk
            f == files
            g == files'
            L == Named(d) \cup OpenedBy(f)
            L2 == Named(d) \cup OpenedBy(g)
<1>1. /\ DiskOK(d) /\ f \in FileTable /\ Apart(d, L)
      /\ link = LinkOf(d) /\ opened = OpenedOf(f) /\ denied = DeniedOf(f) /\ contents = Shown(d, L)
  BY StoreShown DEF StoreInv
<1>2. map_open' /\ disk' = d /\ Handled(d, f, g)
  BY DEF Serves
<1>3. g \in FileTable
  <2>1. StateOK(disk', log', free_map', map_open', inodes', files', panic', leaked')
    BY DEF IInv
  <2>. QED  BY <2>1, <1>2, StateMeans
<1>4. link' = link /\ opened' = OpenedOf(g) /\ denied' = DeniedOf(g) /\ contents' = Shown(d, L2)
  BY <1>1, <1>2, <1>3, NextShown
<1>5. L2 \subseteq L => StoreInv'
  BY <1>1, <1>2 DEF StoreInv, Apart
<1>6. L \subseteq Sectors
  BY <1>1 DEF Apart, FileAt
<1>7. L = Named(d) \cup OpenedBy(f) /\ L2 = Named(d) \cup OpenedBy(g)
  OBVIOUS
<1>. HIDE DEF d, f, g, L, L2
<1>8. CASE g = f
  <2>1. UNCHANGED Store!vars
    BY <1>1, <1>4, <1>7, <1>8 DEF Store!vars
  <2>. QED  BY <2>1, <1>5, <1>7, <1>8
<1>9. ASSUME NEW h \in Handles, f[h] = NONE, NEW r \in File, r.sector \in L, g = Given(f, h, r)
      PROVE  StoreInv' /\ Store!Next
  <2>1. /\ opened' = [opened EXCEPT ![h] = r.sector] /\ opened'[h] = r.sector /\ r.sector # NONE
        /\ denied' \in {denied \cup {h}, denied \ {h}}
    BY <1>1, <1>4, <1>9, GivenShows
  <2>2. opened[h] = NONE /\ h \notin denied
    BY <1>1, <1>9 DEF OpenedOf, DeniedOf
  <2>3. OpenedBy(g) = OpenedBy(f) \cup {r.sector}
    BY <2>1, <2>2, <1>1, <1>3, <1>4, <1>6, <1>9, OpenedKept
  <2>4. L2 = L
    BY <2>3, <1>7, <1>9
  <2>5. contents' = contents /\ r.sector \in DOMAIN contents
    BY <2>4, <1>1, <1>4, <1>9 DEF Shown
  <2>6. denied' \in {denied, denied \cup {h}}
    BY <2>1, <2>2
  <2>7. Store!Open(h)
    BY <2>1, <2>2, <2>5, <2>6, <1>4 DEF Store!Open
  <2>8. opened' # opened
    BY <2>1, <2>2
  <2>9. Store!Next
    BY <2>7, <2>8 DEF Store!Next
  <2>. QED  BY <2>4, <2>9, <1>5
<1>10. ASSUME NEW h \in Handles, f[h] # NONE, NEW r \in File, r.sector = f[h].sector, g = Given(f, h, r)
       PROVE  StoreInv' /\ (Store!Next \/ UNCHANGED Store!vars)
  <2>1. /\ opened' = [opened EXCEPT ![h] = r.sector] /\ r.sector # NONE
        /\ denied' \in {denied \cup {h}, denied \ {h}}
    BY <1>1, <1>4, <1>10, GivenShows
  <2>2. opened[h] = r.sector
    BY <1>1, <1>10 DEF OpenedOf
  <2>3. opened' = opened
    BY <2>1, <2>2, <1>1 DEF OpenedOf
  <2>4. OpenedBy(g) = OpenedBy(f)
    BY <2>3, <1>1, <1>3, <1>4, OpenedKept
  <2>5. L2 = L /\ contents' = contents
    BY <2>4, <1>1, <1>4, <1>7
  <2>6. CASE denied' = denied
    <3>1. UNCHANGED Store!vars
      BY <2>3, <2>5, <2>6, <1>4 DEF Store!vars
    <3>. QED  BY <3>1, <2>5, <1>5
  <2>7. CASE denied' # denied
    <3>1. Store!Deny(h)
      BY <2>1, <2>2, <2>3, <2>5, <1>4 DEF Store!Deny
    <3>2. Store!Next
      BY <3>1, <2>7 DEF Store!Next
    <3>. QED  BY <3>2, <2>5, <1>5
  <2>. QED  BY <2>6, <2>7
<1>11. ASSUME NEW h \in Handles, f[h] # NONE, g = Given(f, h, NONE)
       PROVE  StoreInv' /\ Store!Next
  <2>1. opened' = [opened EXCEPT ![h] = NONE] /\ opened'[h] = NONE /\ denied' = denied \ {h}
    BY <1>1, <1>4, <1>11, CloseShows
  <2>2. opened[h] # NONE
    <3>1. f[h].sector \in Sectors
      BY <1>1, <1>11, FilesAre
    <3>. QED  BY <3>1, <1>1, <1>11, FileAssumption DEF OpenedOf
  <2>3. OpenedBy(g) \subseteq OpenedBy(f)
    BY <2>1, <1>1, <1>3, <1>4, OpenedKept
  <2>4. L2 \subseteq L
    BY <2>3, <1>7
  <2>5. Shown(d, L2) = Drops(LinkOf(d), OpenedOf(g), Shown(d, L))
    BY <2>4, <1>1, <1>3, <1>6, <1>7, DropsAre
  <2>6. contents' = Drops(link', opened', contents)
    BY <2>5, <1>1, <1>4
  <2>7. Store!DropUnused
    BY <2>6 DEF Store!DropUnused, Store!Kept, Drops
  <2>8. Store!Close(h)
    BY <2>1, <2>2, <2>7, <1>4 DEF Store!Close
  <2>9. opened' # opened
    BY <2>1, <2>2
  <2>10. Store!Next
    BY <2>8, <2>9 DEF Store!Next
  <2>. QED  BY <2>4, <2>10, <1>5
<1>12. ASSUME NEW h \in Handles, f[h] = NONE, Gets(f, g, h, L) PROVE StoreInv' /\ (Store!Next \/ UNCHANGED Store!vars)
  BY <1>8, <1>9, <1>12 DEF Gets
<1>13. ASSUME NEW h \in Handles, f[h] # NONE, Gets(f, g, h, {f[h].sector})
       PROVE  StoreInv' /\ (Store!Next \/ UNCHANGED Store!vars)
  BY <1>8, <1>10, <1>13 DEF Gets
<1>. QED  BY <1>2, <1>7, <1>8, <1>11, <1>12, <1>13 DEF Handled

\* No handle has a file open.
LEMMA UnopenedShows ==
  /\ OpenedOf(Unopened) = [h \in Handles |-> NONE] /\ DeniedOf(Unopened) = {}
  /\ Unopened \in FileTable /\ OpenedBy(Unopened) = {}
BY UnopenedIs DEF OpenedOf, DeniedOf, Unopened

\* A stop closes every handle.
LEMMA StopStores ==
  ASSUME IInv, StoreInv, Stop
  PROVE  StoreInv' /\ (Store!Next \/ UNCHANGED Store!vars)
<1>. DEFINE d == disk
            f == files
            O == OpenedBy(files)
            L == Named(d) \cup O
            L2 == Named(d) \cup OpenedBy(Unopened)
<1>1. disk' = d /\ files' = Unopened
  BY DEF Stop, Off, Unopened
<1>2. /\ DiskOK(d) /\ f \in FileTable /\ Apart(d, L)
      /\ link = LinkOf(d) /\ opened = OpenedOf(f) /\ denied = DeniedOf(f) /\ contents = Shown(d, L)
  BY StoreShown DEF StoreInv
<1>3. L2 = Named(d) /\ L2 \subseteq L /\ L \subseteq Sectors
  BY <1>2, UnopenedShows DEF Apart, FileAt
<1>4. link' = link /\ opened' = [h \in Handles |-> NONE] /\ denied' = {} /\ contents' = Shown(d, L2)
  BY <1>1, <1>2, NextShown, UnopenedShows
<1>5. StoreInv'
  <2>1. Apart(d, Named(d) \cup OpenedBy(Unopened))
    BY <1>2, <1>3 DEF Apart
  <2>. QED  BY <2>1, <1>1 DEF StoreInv
<1>6. L = Named(d) \cup O /\ O = OpenedBy(f) /\ L2 = Named(d) \cup OpenedBy(Unopened)
  OBVIOUS
<1>. HIDE DEF d, f, O, L, L2
<1>7. Shown(d, L2) = Drops(LinkOf(d), OpenedOf(Unopened), Shown(d, L))
  BY <1>2, <1>3, <1>6, UnopenedShows, DropsAre
<1>8. contents' = Drops(link', opened', contents)
  BY <1>7, <1>2, <1>4, UnopenedShows
<1>9. CASE opened' # opened
  <2>1. Store!DropUnused
    BY <1>8 DEF Store!DropUnused, Store!Kept, Drops
  <2>2. Store!Stop
    BY <2>1, <1>4 DEF Store!Stop
  <2>3. Store!Next
    BY <2>2, <1>9 DEF Store!Next
  <2>. QED  BY <2>3, <1>5
<1>10. CASE opened' = opened
  <2>1. \A h \in Handles : f[h] = NONE
    <3>1. \A h \in Handles : f[h] # NONE => f[h].sector # NONE
      BY <1>2, FilesAre, FileAssumption
    <3>2. \A h \in Handles : OpenedOf(f)[h] = NONE
      BY <1>2, <1>4, <1>10
    <3>. QED  BY <3>1, <3>2 DEF OpenedOf
  <2>2. denied' = denied
    BY <2>1, <1>2, <1>4 DEF DeniedOf
  <2>3. O = {}
    BY <2>1, <1>6 DEF OpenedBy, On
  <2>4. contents' = contents
    BY <2>3, <1>2, <1>3, <1>4, <1>6
  <2>5. UNCHANGED Store!vars
    BY <2>2, <2>4, <1>4, <1>10 DEF Store!vars
  <2>. QED  BY <2>5, <1>5
<1>. QED  BY <1>9, <1>10

\* A start of the system shows nothing.
LEMMA BootStores ==
  ASSUME IInv, StoreInv, Boot
  PROVE  StoreInv' /\ UNCHANGED Store!vars
<1>1. map_open' /\ disk' = disk /\ files' = Unopened
  BY BootKeeps
<1>2. ~map_open /\ files = Unopened
  BY DEF Boot, StoreInv
<1>3. UNCHANGED Store!vars
  BY <1>1, <1>2, StoreIs DEF Store!vars
<1>. QED  BY <1>1, <1>2, <1>3 DEF StoreInv

\* A new disk has no names and no files.
LEMMA StoreStarts ==
  ASSUME Init
  PROVE  StoreInv /\ Store!Init
<1>1. IInv /\ EmptyDisk(disk) /\ files = Unopened
  BY InitHolds
<1>2. DiskOK(disk) /\ Used(disk) = {} /\ Named(disk) = {}
  BY <1>1, EmptyDiskIs
<1>3. StoreInv
  BY <1>1, <1>2, UnopenedShows DEF StoreInv, Apart
<1>4. opened = [h \in Handles |-> NONE] /\ denied = {}
  BY <1>1, StoreIs, UnopenedShows
<1>5. link = [n \in Names |-> NONE]
  <2>1. \A n \in Names : LinkOf(disk)[n] = NONE
    BY <1>2, LinkIs DEF Unnamed
  <2>2. LinkOf(disk) = [n \in Names |-> LinkOf(disk)[n]]
    BY <1>2, LinkIs
  <2>3. link = LinkOf(disk)
    BY StoreIs
  <2>. QED  BY <2>1, <2>2, <2>3
<1>6. DOMAIN contents = {}
  <2>1. contents = Shown(disk, Named(disk) \cup OpenedBy(files))
    BY <1>1, <1>3, StoreShown
  <2>. QED  BY <2>1, <1>1, <1>2, UnopenedShows DEF Shown
<1>. QED  BY <1>3, <1>4, <1>5, <1>6 DEF Store!Init

\* Each step of the file system is a step of FileStore, or shows nothing.
LEMMA StepStores ==
  ASSUME NoShortRead, IInv, StoreInv, [Next]_vars
  PROVE  StoreInv' /\ [Store!Next]_(Store!vars)
<1>1. CASE UNCHANGED vars
  <2>1. disk' = disk /\ files' = files /\ map_open' = map_open
    BY <1>1 DEF vars, memory
  <2>2. UNCHANGED Store!vars
    BY <2>1, StoreIs DEF Store!vars
  <2>. QED  BY <2>1, <2>2 DEF StoreInv
<1>2. CASE \E fail \in Fails :
              \/ \E n \in Names, size \in Lengths : Create(n, size, fail)
              \/ \E n \in Names \ BadNames : Remove(n, fail) \/ \E h \in Handles : Open(n, h, fail)
  <2>1. IInv' /\ Serves
    BY <1>2, CreateKeeps, RemoveKeeps, OpenKeeps
  <2>. QED  BY <2>1, ServedStores
<1>3. CASE \E h \in Handles, fail \in 0..1 :
              \/ \E g \in Handles : Reopen(h, g, fail) \/ Duplicate(h, g, fail)
              \/ \E size \in Lengths : Read(h, size, fail) \/ \E v \in Values : Write(h, size, v, fail)
  <2>1. IInv' /\ Serves
    BY <1>3, CopyKeeps, ReadKeeps, WriteKeeps
  <2>. QED  BY <2>1, ServedStores
<1>4. CASE \E h \in Handles : Close(h) \/ Deny(h) \/ Allow(h) \/ \E pos \in Offsets : Seek(h, pos)
  <2>1. IInv' /\ Serves
    BY <1>4, CloseKeeps, HandleKeeps
  <2>. QED  BY <2>1, ServedStores
<1>5. CASE Flush \/ Stop \/ Boot
  BY <1>5, FlushStores, StopStores, BootStores
<1>. QED  BY <1>1, <1>2, <1>3, <1>4, <1>5 DEF Next

\* filesys/ implements FileStore: a creation and a removal happen when their entry reaches
\* the disk, a file lives until its last handle is closed, and the calls, the other writes
\* and the stops show what FileStore says or nothing.
THEOREM FilesImplementStore ==
  ASSUME NoShortRead
  PROVE  Spec => StoreSpec
<1>1. Init => StoreInv /\ Store!Init
  BY StoreStarts
<1>2. IInv /\ StoreInv /\ [Next]_vars => StoreInv' /\ [Store!Next]_(Store!vars)
  BY StepStores
<1>. QED  BY <1>1, <1>2, IInvHolds, PTL DEF Spec, StoreSpec, Store!Spec

=============================================================================
