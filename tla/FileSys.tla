---------------------------- MODULE FileSys ----------------------------
(***************************************************************************)
(* The file system of filesys/: free map, inodes, the root directory and   *)
(* open files, over the whole sectors that Disk shows disk_read() and      *)
(* disk_write() to be.                                                     *)
(*                                                                         *)
(* One call is served at a time.  A call is a sequence of operators on a   *)
(* record s of everything it reads and writes; the sectors that it writes  *)
(* are kept in order in s.log and reach the disk one by one in later       *)
(* steps, so that the machine may stop between any two of them.  s.fail    *)
(* counts down the allocations of memory: the one that finds 1 fails.      *)
(*                                                                         *)
(* A byte, a bit of the free map and a directory entry are a cell each; a  *)
(* sector has CELLS of them and starts as zeros.                           *)
(***************************************************************************)
EXTENDS Integers, Sequences, FiniteSets, Bitmap

CONSTANTS
    Names, BadNames,  \* file names, and those that are empty or too long
    Handles,          \* the struct file objects
    NONE,
    SECTORS,          \* disk_size (filesys_disk)
    CELLS,            \* DISK_SECTOR_SIZE
    ENTRY_CNT,        \* entries of the root directory: 16 in do_format()
    Lengths, Offsets, \* bounds: lengths of files and of transfers, and
    Values,           \* where file_seek() goes; what is written
    Fails             \* bound: which allocation of a call fails, 0 for none

ASSUME FileSysAssumption ==
    /\ {SECTORS, CELLS, ENTRY_CNT} \union Fails \subseteq Nat /\ CELLS > 1 /\ SECTORS > 1 /\ ENTRY_CNT > 0
    /\ BadNames \subseteq Names /\ Lengths \union Offsets \subseteq Nat /\ NONE \notin Handles \union Names
    /\ IsFiniteSet(Handles)

VARIABLES
    disk,      \* the sectors
    log,       \* sectors that the current call has yet to write
    free_map,
    map_open,  \* free_map_file # NULL
    inodes,    \* open_inodes: the open inodes by their sectors
    files,     \* what each handle has open
    panic,     \* an assertion has failed
    leaked     \* history: sectors marked as used that nothing owns

memory == <<free_map, map_open, inodes, files, panic>>
vars == <<disk, log, memory, leaked>>

FREE_MAP_SECTOR == 0
ROOT_DIR_SECTOR == 1
Sectors == 0..(SECTORS - 1)

\* The struct file objects that are in use.
File == [sector : Sectors, pos : Nat, deny_write : BOOLEAN]
ASSUME FileAssumption == NONE \notin File \union Sectors

\* Cells are tuples: <<v>> a byte, <<TRUE>> a bit that is set, <<sector,
\* name, in_use>> an entry, <<start, length>> an inode in the first cell of
\* its sector.
Zero == <<>>
Zeros == [i \in 1..CELLS |-> Zero]
BitCell(b) == IF b THEN <<TRUE>> ELSE Zero

Run(start, cnt) == {i \in Sectors : start <= i /\ i < start + cnt}

\* bytes_to_sectors().
BytesToSectors(size) == (size + CELLS - 1) \div CELLS

\* do_format() panics unless the disk has room for the map and the directory.
ASSUME FormatAssumption == 2 + BytesToSectors(SECTORS) + BytesToSectors(ENTRY_CNT) <= SECTORS

\* The result x of a step, for what comes after it.
With(x, After(_)) == After(x)

----------------------------------------------------------------------------
(* Memory and disk. *)

\* malloc() and calloc(): s.ok tells whether the memory was there.
Alloc(s) == [s EXCEPT !.ok = (s.fail # 1), !.fail = IF @ = 0 THEN 0 ELSE @ - 1]

\* disk_write() of one sector, and of a run of them in ascending order.
DiskWrites(s, first, blocks) ==
    [s EXCEPT !.disk = [i \in DOMAIN @ |-> IF i - first + 1 \in DOMAIN blocks THEN blocks[i - first + 1] ELSE @[i]],
              !.log = @ \o [j \in DOMAIN blocks |-> [sector |-> first + j - 1, cells |-> blocks[j]]]]

DiskWrite(s, sector, cells) == DiskWrites(s, sector, <<cells>>)

\* How far inode_read_at() and inode_write_at() get: to the end of the file,
\* or to the first part of a sector when there is no memory for the bounce
\* buffer.
Transfer(s, inode, size, offset) ==
    LET left == inode.length - offset
        n == IF left < 0 THEN 0 ELSE IF size < left THEN size ELSE left
        whole == IF offset % CELLS # 0 THEN 0 ELSE (n \div CELLS) * CELLS
    IN  IF whole = n THEN [s |-> s, done |-> n]
        ELSE With(Alloc(s), LAMBDA t : [s |-> t, done |-> IF t.ok THEN n ELSE whole])

\* The cell at an offset, through byte_to_sector().
CellAt(d, inode, offset) == d[inode.start + (offset \div CELLS)][(offset % CELLS) + 1]

InodeReadAt(s, inode, size, offset) ==
    With(Transfer(s, inode, size, offset), LAMBDA t :
        [s |-> t.s, cells |-> [i \in 1..t.done |-> CellAt(s.disk, inode, offset + i - 1)]])

\* The cells of sector k of the file after the write.
Merged(s, inode, k, cells, offset, done) ==
    [j \in 1..CELLS |-> LET ofs == k * CELLS + j - 1 IN
        IF offset <= ofs /\ ofs < offset + done THEN cells[ofs - offset + 1] ELSE s.disk[inode.start + k][j]]

\* inode_write_at(): s.ok tells whether everything was written.
InodeWriteAt(s, sector, cells, offset) ==
    LET inode == s.inodes[sector]
        first == offset \div CELLS
        touched(done) == IF done = 0 THEN 0 ELSE ((offset + done - 1) \div CELLS) - first + 1
        blocks(done) == [j \in 1..touched(done) |-> Merged(s, inode, first + j - 1, cells, offset, done)]
    IN  IF inode.deny_write_cnt > 0 THEN [s EXCEPT !.ok = (Len(cells) = 0), !.done = 0]
        ELSE With(Transfer(s, inode, Len(cells), offset), LAMBDA t :
            [DiskWrites(t.s, inode.start + first, blocks(t.done)) EXCEPT !.ok = (t.done = Len(cells)), !.done = t.done])

----------------------------------------------------------------------------
(* Free map, free-map.c. *)

BitmapWrite(s) ==
    InodeWriteAt(s, FREE_MAP_SECTOR, [i \in 1..SECTORS |-> BitCell(s.free_map[i - 1])], 0)

\* free_map_allocate(): s.ok, and the first sector in s.sector.
FreeMapAllocate(s, cnt) ==
    With(BitmapScanAndFlip(s.free_map, 0, cnt, FALSE), LAMBDA f :
        IF f.idx = BITMAP_ERROR THEN [s EXCEPT !.ok = FALSE]
        ELSE With([s EXCEPT !.free_map = f.bits, !.ok = TRUE, !.sector = f.idx], LAMBDA marked :
             With(IF s.map_open THEN BitmapWrite(marked) ELSE marked, LAMBDA t :
                  IF t.ok THEN t
                  ELSE [t EXCEPT !.free_map = BitmapSetMultiple(@, f.idx, cnt, FALSE), !.sector = s.sector])))

\* free_map_release(), with its assertion in s.panic.
FreeMapRelease(s, sector, cnt) ==
    BitmapWrite([s EXCEPT !.panic = @ \/ ~BitmapAll(s.free_map, sector, cnt),
                          !.free_map = BitmapSetMultiple(@, sector, cnt, FALSE)])

----------------------------------------------------------------------------
(* Inodes, inode.c. *)

\* Mutant: the data of a new file is not cleared.
InodeCreateDirty(s, sector, length) ==
    With(Alloc(s), LAMBDA a :
        IF ~a.ok THEN a
        ELSE With(FreeMapAllocate(a, BytesToSectors(length)), LAMBDA f :
             IF f.ok THEN DiskWrite(f, sector, [Zeros EXCEPT ![1] = <<f.sector, length>>]) ELSE f))

\* inode_create(): the inode is written before its data.
InodeCreate(s, sector, length) ==
    LET sectors == BytesToSectors(length)
        header(start) == [Zeros EXCEPT ![1] = <<start, length>>]
    IN  With(Alloc(s), LAMBDA a :
            IF ~a.ok THEN a
            ELSE With(FreeMapAllocate(a, sectors), LAMBDA f :
                 IF ~f.ok THEN f
                 ELSE DiskWrites(DiskWrite(f, sector, header(f.sector)), f.sector, [i \in 1..sectors |-> Zeros])))

\* inode_open(): an inode that is open already is shared.
InodeOpen(s, sector) ==
    LET header == s.disk[sector][1]
        fresh == [open_cnt |-> 1, removed |-> FALSE, deny_write_cnt |-> 0, start |-> header[1], length |-> header[2]]
    IN  IF sector \in DOMAIN s.inodes THEN [s EXCEPT !.inodes[sector].open_cnt = @ + 1, !.ok = TRUE]
        ELSE With(Alloc(s), LAMBDA a :
            IF ~a.ok THEN a
            ELSE [a EXCEPT !.inodes = [i \in DOMAIN @ \union {sector} |-> IF i = sector THEN fresh ELSE @[i]]])

InodeReopen(s, sector) == [s EXCEPT !.inodes[sector].open_cnt = @ + 1]

\* Mutant: any opener of a removed inode releases its sectors.
InodeCloseAny(s, sector) ==
    LET inode == s.inodes[sector]
        t == IF inode.open_cnt > 1 THEN [s EXCEPT !.inodes[sector].open_cnt = @ - 1]
             ELSE [s EXCEPT !.inodes = [i \in DOMAIN @ \ {sector} |-> @[i]]]
    IN  IF inode.removed
        THEN FreeMapRelease(FreeMapRelease(t, sector, 1), inode.start, BytesToSectors(inode.length))
        ELSE t

\* inode_close(): the last opener of a removed inode releases its sectors.
InodeClose(s, sector) ==
    LET inode == s.inodes[sector]
        closed == [s EXCEPT !.inodes = [i \in DOMAIN @ \ {sector} |-> @[i]]]
    IN  IF inode.open_cnt > 1 THEN [s EXCEPT !.inodes[sector].open_cnt = @ - 1]
        ELSE IF ~inode.removed THEN closed
        ELSE FreeMapRelease(FreeMapRelease(closed, sector, 1), inode.start, BytesToSectors(inode.length))

InodeRemove(s, sector) == [s EXCEPT !.inodes[sector].removed = TRUE]

\* inode_deny_write() and inode_allow_write(), with their assertions.
InodeDenyWrite(s, sector) ==
    [s EXCEPT !.inodes[sector].deny_write_cnt = @ + 1,
              !.panic = @ \/ s.inodes[sector].deny_write_cnt >= s.inodes[sector].open_cnt]

InodeAllowWrite(s, sector) ==
    LET inode == s.inodes[sector] IN
    [s EXCEPT !.inodes[sector].deny_write_cnt = @ - 1,
              !.panic = @ \/ inode.deny_write_cnt \notin 1..inode.open_cnt]

----------------------------------------------------------------------------
(* The root directory, directory.c. *)

\* dir_open() and file_open(): the object is allocated in any case, and the
\* inode is closed again when there is no memory for it.  s.ok says whether
\* there is an inode.
OpenObject(s, sector) ==
    With(Alloc(s), LAMBDA a :
        IF s.ok /\ a.ok THEN a
        ELSE [(IF s.ok THEN InodeClose(a, sector) ELSE a) EXCEPT !.ok = FALSE])

DirOpenRoot(s) == OpenObject(InodeOpen(s, ROOT_DIR_SECTOR), ROOT_DIR_SECTOR)

DirClose(s) == InodeClose(s, ROOT_DIR_SECTOR)

InUse(e) == e # Zero /\ e[3]

\* The loops over the entries of the directory end at the first that is in
\* use for a name, or in use for none, or where a read is short.  Each entry
\* is a read of its own, which allocates memory.
ScanEntries(s, name) ==
    LET wanted(e) == IF name = NONE THEN ~InUse(e) ELSE InUse(e) /\ e[2] = name
        root == s.inodes[ROOT_DIR_SECTOR]
        read(k) == InodeReadAt([s EXCEPT !.fail = IF @ > k THEN @ - k ELSE 0], root, 1, k)
        ends == {k \in 0..root.length : read(k).cells = <<>> \/ wanted(read(k).cells[1])}
        ofs == CHOOSE k \in ends : \A i \in ends : k <= i
        found == read(ofs).cells # <<>>
    IN  [s |-> read(ofs).s, ofs |-> ofs, found |-> found, entry |-> IF found THEN read(ofs).cells[1] ELSE Zero]

Lookup(s, name) == ScanEntries(s, name)

\* dir_add(): the first entry that is not in use, or the end of the file.
DirAdd(s, name, inode_sector) ==
    IF name \in BadNames THEN [s EXCEPT !.ok = FALSE]
    ELSE With(Lookup(s, name), LAMBDA seen :
        IF seen.found THEN [seen.s EXCEPT !.ok = FALSE]
        ELSE With(ScanEntries(seen.s, NONE), LAMBDA slot :
             InodeWriteAt(slot.s, ROOT_DIR_SECTOR, <<<<inode_sector, name, TRUE>>>>, slot.ofs)))

\* Mutant: the sectors are released before the entry is erased.
DirRemoveLate(s, name) ==
    With(Lookup(s, name), LAMBDA seen :
        IF ~seen.found THEN [seen.s EXCEPT !.ok = FALSE]
        ELSE With(InodeOpen(seen.s, seen.entry[1]), LAMBDA o :
             IF ~o.ok THEN o
             ELSE InodeWriteAt(InodeClose(InodeRemove(o, seen.entry[1]), seen.entry[1]), ROOT_DIR_SECTOR,
                               <<<<seen.entry[1], name, FALSE>>>>, seen.ofs)))

DirRemove(s, name) ==
    With(Lookup(s, name), LAMBDA seen :
        IF ~seen.found THEN [seen.s EXCEPT !.ok = FALSE]
        ELSE LET sector == seen.entry[1] IN
             With(InodeOpen(seen.s, sector), LAMBDA o :
                 IF ~o.ok THEN o
                 ELSE With(InodeWriteAt(o, ROOT_DIR_SECTOR, <<<<sector, name, FALSE>>>>, seen.ofs), LAMBDA w :
                      [InodeClose(IF w.ok THEN InodeRemove(w, sector) ELSE w, sector) EXCEPT !.ok = w.ok])))

----------------------------------------------------------------------------
(* filesys.c and file.c. *)

\* filesys_create(): what fails after the inode has its sectors releases
\* the sector of the inode.  s.lost are the sectors of the data.
FilesysCreate(s, name, size) ==
    LET failed(t, sector, lost) ==
            [DirClose(FreeMapRelease(t, sector, 1)) EXCEPT !.ok = FALSE, !.lost = lost]
        added(r, sector, data) ==
            IF r.ok THEN DirClose(r) ELSE failed(r, sector, Run(data, BytesToSectors(size)))
        created(c, sector) ==
            IF c.ok THEN added(DirAdd(c, name, sector), sector, c.sector)
            ELSE failed(c, sector, {})
        allocated(a) ==
            IF a.ok THEN created(InodeCreate(a, a.sector, size), a.sector) ELSE DirClose(a)
    IN  With(DirOpenRoot(s), LAMBDA d : IF d.ok THEN allocated(FreeMapAllocate(d, 1)) ELSE d)

\* The allocations that filesys_create() makes before dir_add() reads the
\* directory: in inode_open(), dir_open() and inode_create(), and in two
\* writes of the map unless that ends where a sector ends.
Divides(size) == size % CELLS = 0
Budget == IF Divides(SECTORS) THEN 3 ELSE 5

\* dir_add() takes a read for which there is no memory for the end of the
\* directory ("inode_read_at() will only return a short read at end of
\* file").  The properties below are of a system where that does not happen.
NoShortRead == \A f \in Fails : f <= Budget

\* filesys_open(): the file of handle h.
FilesysOpen(s, name, h) ==
    LET file(sector) == [sector |-> sector, pos |-> 0, deny_write |-> FALSE]
        file_open(i, sector) ==
            With(OpenObject([DirClose(i) EXCEPT !.ok = i.ok], sector), LAMBDA o :
                IF o.ok THEN [o EXCEPT !.files[h] = file(sector)] ELSE o)
    IN  With(DirOpenRoot(s), LAMBDA d :
            IF ~d.ok THEN OpenObject(d, ROOT_DIR_SECTOR)
            ELSE With(Lookup(d, name), LAMBDA seen :
                 IF seen.found THEN file_open(InodeOpen(seen.s, seen.entry[1]), seen.entry[1])
                 ELSE file_open([seen.s EXCEPT !.ok = FALSE], ROOT_DIR_SECTOR)))

FilesysRemove(s, name) ==
    With(DirOpenRoot(s), LAMBDA d :
        IF ~d.ok THEN d
        ELSE With(DirRemove(d, name), LAMBDA r : [DirClose(r) EXCEPT !.ok = r.ok]))

FileDenyWrite(s, h) ==
    IF s.files[h].deny_write THEN s
    ELSE InodeDenyWrite([s EXCEPT !.files[h].deny_write = TRUE], s.files[h].sector)

FileAllowWrite(s, h) ==
    IF ~s.files[h].deny_write THEN s
    ELSE InodeAllowWrite([s EXCEPT !.files[h].deny_write = FALSE], s.files[h].sector)

FileClose(s, h) ==
    [InodeClose(FileAllowWrite(s, h), s.files[h].sector) EXCEPT !.files[h] = NONE]

\* file_reopen() and file_duplicate(): g opens the file of h, at its start,
\* or at the position and with the denial of h.
FileReopen(s, h, g) ==
    LET sector == s.files[h].sector IN
    With(OpenObject([InodeReopen(s, sector) EXCEPT !.ok = TRUE], sector), LAMBDA o :
        IF o.ok THEN [o EXCEPT !.files[g] = [sector |-> sector, pos |-> 0, deny_write |-> FALSE]] ELSE o)

FileDuplicate(s, h, g) ==
    With(FileReopen(s, h, g), LAMBDA o :
        IF ~o.ok THEN o
        ELSE With([o EXCEPT !.files[g].pos = s.files[h].pos], LAMBDA at :
             IF s.files[h].deny_write THEN FileDenyWrite(at, g) ELSE at))

FileWrite(s, h, cells) ==
    With(InodeWriteAt(s, s.files[h].sector, cells, s.files[h].pos), LAMBDA w :
        [w EXCEPT !.files[h].pos = @ + w.done])

\* file_read(): the cells are in s.cells.
FileRead(s, h, size) ==
    With(InodeReadAt(s, s.inodes[s.files[h].sector], size, s.files[h].pos), LAMBDA r :
        [r.s EXCEPT !.files[h].pos = @ + Len(r.cells), !.cells = r.cells])

----------------------------------------------------------------------------
(* Start and stop. *)

Off(d) ==
    [disk |-> d, log |-> <<>>, free_map |-> BitmapCreate(SECTORS), map_open |-> FALSE,
     inodes |-> [i \in {} |-> 0], files |-> [h \in Handles |-> NONE],
     fail |-> 0, ok |-> TRUE, done |-> 0, sector |-> 0, cells |-> <<>>, panic |-> FALSE, lost |-> {}]

FreeMapInit(s) == [s EXCEPT !.free_map[FREE_MAP_SECTOR] = TRUE, !.free_map[ROOT_DIR_SECTOR] = TRUE]

FreeMapClose(s) == [InodeClose(s, FREE_MAP_SECTOR) EXCEPT !.map_open = FALSE]

\* free_map_create(): the map is not written while its file does not exist.
FreeMapCreate(s) ==
    BitmapWrite([InodeOpen(InodeCreate(s, FREE_MAP_SECTOR, SECTORS), FREE_MAP_SECTOR) EXCEPT !.map_open = TRUE])

DoFormat(s) == FreeMapClose(InodeCreate(FreeMapCreate(s), ROOT_DIR_SECTOR, ENTRY_CNT))

\* free_map_open() with bitmap_read().
FreeMapOpen(s) ==
    With(InodeOpen(s, FREE_MAP_SECTOR), LAMBDA o :
    With(InodeReadAt(o, o.inodes[FREE_MAP_SECTOR], SECTORS, 0), LAMBDA r :
        [o EXCEPT !.map_open = TRUE, !.free_map = [i \in Sectors |-> r.cells[i + 1] # Zero]]))

FilesysInit(d, format) ==
    LET s == FreeMapInit(Off(d)) IN FreeMapOpen(IF format THEN DoFormat(s) ELSE s)

----------------------------------------------------------------------------
(* The calls, the sectors that reach the disk, and stops. *)

Init ==
    LET s == FilesysInit([i \in Sectors |-> Zeros], TRUE)
    IN  /\ disk = s.disk /\ log = <<>> /\ leaked = {} /\ panic = s.panic
        /\ free_map = s.free_map /\ map_open = s.map_open
        /\ inodes = s.inodes /\ files = s.files

\* A call begins when the one before it has ended.
Start(fail) ==
    [Off(disk) EXCEPT !.free_map = free_map, !.map_open = map_open, !.inodes = inodes,
                      !.files = files, !.panic = panic, !.fail = fail]

Served(s) ==
    /\ free_map' = s.free_map /\ map_open' = s.map_open /\ inodes' = s.inodes
    /\ files' = s.files /\ panic' = s.panic
    /\ log' = s.log
    /\ leaked' = leaked \union s.lost
    /\ UNCHANGED disk

Ready == map_open /\ log = <<>> /\ ~panic
Opened(h) == files[h] # NONE

Create(n, size, fail) == Ready /\ Served(FilesysCreate(Start(fail), n, size))
Remove(n, fail) == Ready /\ Served(FilesysRemove(Start(fail), n))
Open(n, h, fail) == Ready /\ ~Opened(h) /\ Served(FilesysOpen(Start(fail), n, h))
Close(h) == Ready /\ Opened(h) /\ Served(FileClose(Start(0), h))
Reopen(h, g, fail) == Ready /\ Opened(h) /\ ~Opened(g) /\ Served(FileReopen(Start(fail), h, g))
Duplicate(h, g, fail) == Ready /\ Opened(h) /\ ~Opened(g) /\ Served(FileDuplicate(Start(fail), h, g))
Write(h, size, v, fail) ==
    Ready /\ Opened(h) /\ Served(FileWrite(Start(fail), h, [i \in 1..size |-> <<v>>]))
Read(h, size, fail) == Ready /\ Opened(h) /\ Served(FileRead(Start(fail), h, size))
Seek(h, pos) == Ready /\ Opened(h) /\ Served([Start(0) EXCEPT !.files[h].pos = pos])
Deny(h) == Ready /\ Opened(h) /\ Served(FileDenyWrite(Start(0), h))
Allow(h) == Ready /\ Opened(h) /\ Served(FileAllowWrite(Start(0), h))

\* disk_write() of the next sector.
Flush ==
    /\ log # <<>>
    /\ disk' = [disk EXCEPT ![Head(log).sector] = Head(log).cells]
    /\ log' = Tail(log)
    /\ UNCHANGED <<memory, leaked>>

\* The inode in a sector of disk d, the sectors it owns, and the map and the
\* directory on the disk.
Header(d, sector) == [start |-> d[sector][1][1], length |-> d[sector][1][2]]
Owned(d, sector) ==
    {sector} \union Run(Header(d, sector).start, BytesToSectors(Header(d, sector).length))
MapOn(d) ==
    LET map == Header(d, FREE_MAP_SECTOR) IN {i \in Sectors : CellAt(d, map, i) # Zero}
Entries(d) ==
    LET root == Header(d, ROOT_DIR_SECTOR)
    IN  {e \in {CellAt(d, root, i) : i \in 0..(root.length - 1)} : InUse(e)}
System(d) == Owned(d, FREE_MAP_SECTOR) \union Owned(d, ROOT_DIR_SECTOR)
OwnedByNames(d) == UNION {Owned(d, e[1]) : e \in Entries(d)}

\* filesys_done(), or the power is cut, in the middle of a call or not.
Stop ==
    /\ map_open /\ ~panic
    /\ LET s == Off(disk) IN
       /\ log' = s.log /\ free_map' = s.free_map /\ map_open' = s.map_open
       /\ inodes' = s.inodes /\ files' = s.files /\ panic' = s.panic
    /\ leaked' = MapOn(disk) \ (System(disk) \union OwnedByNames(disk))
    /\ UNCHANGED disk

Boot == ~map_open /\ ~panic /\ Served(FilesysInit(disk, FALSE))

\* A bad name is never found; reads, writes and copies of a handle allocate
\* memory once.
Next ==
    \/ \E fail \in Fails :
          \/ \E n \in Names, size \in Lengths : Create(n, size, fail)
          \/ \E n \in Names \ BadNames : Remove(n, fail) \/ \E h \in Handles : Open(n, h, fail)
    \/ \E h \in Handles, fail \in 0..1 :
          \/ \E g \in Handles : Reopen(h, g, fail) \/ Duplicate(h, g, fail)
          \/ \E size \in Lengths : Read(h, size, fail) \/ \E v \in Values : Write(h, size, v, fail)
    \/ \E h \in Handles : Close(h) \/ Deny(h) \/ Allow(h) \/ \E pos \in Offsets : Seek(h, pos)
    \/ Flush \/ Stop \/ Boot

Spec == Init /\ [][Next]_vars

----------------------------------------------------------------------------
(* Properties. *)

\* Whenever the machine stops, every name on the disk leads to an inode, no
\* two of them and no part of the file system share a sector, and the map
\* on the disk has all of their sectors as used: what filesys_create() and
\* dir_remove() write, in the order in which they write it, never lets a
\* later file take a sector that a name still leads to.
DiskSound ==
    /\ System(disk) \union OwnedByNames(disk) \subseteq MapOn(disk)
    /\ \A e, f \in Entries(disk) :
          /\ Owned(disk, e[1]) \intersect System(disk) = {}
          /\ e # f => e[2] # f[2] /\ Owned(disk, e[1]) \intersect Owned(disk, f[1]) = {}

OwnedByOpen(i) == {i} \union Run(inodes[i].start, BytesToSectors(inodes[i].length))
InUseSectors == (UNION {OwnedByOpen(i) : i \in DOMAIN inodes}) \union OwnedByNames(disk) \union System(disk)

\* Between calls the free map in memory has exactly the sectors of the file
\* system, of the files with names, of the open files, removed or not, and
\* those that failed creations and stops have lost: nothing is released
\* twice, before its last opener closes it, or while it is still open.
MapExact ==
    /\ ~panic
    /\ map_open /\ log = <<>> =>
          /\ {i \in Sectors : free_map[i]} = InUseSectors \union leaked
          /\ InUseSectors \intersect leaked = {}
          /\ \A i, j \in DOMAIN inodes : i # j => OwnedByOpen(i) \intersect OwnedByOpen(j) = {}

\* open_cnt and deny_write_cnt of an inode count the handles: a file may be
\* written again as soon as the last handle that denied it is closed.
CountsExact ==
    map_open => \A i \in DOMAIN inodes \ {ROOT_DIR_SECTOR} :
        LET on == {h \in Handles : Opened(h) /\ files[h].sector = i}
        IN  /\ inodes[i].open_cnt = Cardinality(on) + (IF i = FREE_MAP_SECTOR THEN 1 ELSE 0)
            /\ inodes[i].deny_write_cnt = Cardinality({h \in on : files[h].deny_write})

\* What memory records of the sectors and of the openers is so.
RecordsExact == MapExact /\ CountsExact

\* The names, files and handles that a user sees behave as FileStore says.
link == LET entries == Entries(disk)
            at(n) == {e \in entries : e[2] = n}
        IN  [n \in Names |-> IF at(n) = {} THEN NONE ELSE (CHOOSE e \in at(n) : TRUE)[1]]
opened == [h \in Handles |-> IF Opened(h) THEN files[h].sector ELSE NONE]
contents ==
    LET live == {e[1] : e \in Entries(disk)} \union {files[h].sector : h \in {g \in Handles : Opened(g)}}
        cells(inode) == [k \in 1..inode.length |-> CellAt(disk, inode, k - 1)]
    IN  [i \in live |-> cells(Header(disk, i))]
denied == {h \in Handles : Opened(h) /\ files[h].deny_write}

Store == INSTANCE FileStore
StoreSpec == Store!Spec

============================================================================
