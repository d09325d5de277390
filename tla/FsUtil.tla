---------------------------- MODULE FsUtil ----------------------------
(***************************************************************************)
(* filesys/fsutil.c: the actions of the kernel's command line that copy    *)
(* files between the scratch disk and the file system, print them and      *)
(* delete them, composed with FileSys.  Either the command line names      *)
(* actions, and the machine is turned off after them, or it names none,    *)
(* and anything may call the file system.                                  *)
(***************************************************************************)
EXTENDS FileSys
Seqs == INSTANCE SequencesExt

CONSTANTS Scripts,   \* bound: sequences of <<action, file name>>
          Scratches  \* bound: contents of the scratch disk at the start

VARIABLES
    actions,     \* what is left of the command line; NONE if it had no actions
    step,        \* where the first of them is: "start", "open" or "copy"
    stopped,     \* PANIC() has stopped the machine
    left,        \* size: what fsutil_put() and fsutil_get() have left to copy
    scratch,     \* the scratch disk
    put_sector, get_sector,
    shown,       \* history: what fsutil_cat() or fsutil_ls() printed last, and
                 \* what it should be
    source,      \* history: the contents that were put into each file
    got          \* history: <<sector, contents>> of every fsutil_get()

utilvars == <<actions, step, stopped, left, scratch, put_sector, get_sector, shown, source, got>>

\* The handle that the actions use.
Handle == CHOOSE h \in Handles : TRUE
Min2(x, y) == IF x < y THEN x ELSE y
Padded(cells) == cells \o SubSeq(Zeros, Len(cells) + 1, CELLS)
\* disk_read() and disk_write() assert that the sector is on the disk.
OnScratch(i) == i < Len(scratch)

UtilInit ==
    /\ Init
    /\ actions \in {NONE} \union Scripts
    /\ scratch \in IF actions = NONE THEN {<<>>} ELSE Scratches
    /\ step = "start" /\ stopped = FALSE /\ left = 0 /\ put_sector = 0 /\ get_sector = 0
    /\ shown = <<>> /\ source = [n \in Names |-> NONE] /\ got = <<>>

Running(action, at) ==
    /\ Ready /\ ~stopped /\ actions # NONE /\ actions # <<>>
    /\ Head(actions)[1] = action /\ step = at

name == Head(actions)[2]
Finished == actions' = Tail(actions) /\ step' = "start"

\* PANIC() stops the machine unless ok.
ServedOrPanic(s, ok) == Served(s) /\ stopped' = ~ok

\* fsutil_put(): the header on the scratch disk gives the size.
PutCreate ==
    LET header == scratch[put_sector + 1][1]
        signed == OnScratch(put_sector) /\ header # Zero /\ header[1] = "PUT"
    IN
    /\ Running("put", "start")
    /\ put_sector' = put_sector + 1
    /\ IF ~signed
       THEN ServedOrPanic(Start(0), FALSE) /\ UNCHANGED <<step, left, source>>
       ELSE LET s == FilesysCreate(Start(0), name, header[2]) IN
            /\ ServedOrPanic(s, s.ok)
            /\ left' = header[2] /\ step' = "open"
            /\ source' = [source EXCEPT ![name] = IF s.ok THEN <<>> ELSE @]
    /\ UNCHANGED <<actions, scratch, get_sector, shown, got>>

PutOpen ==
    LET s == FilesysOpen(Start(0), name, Handle) IN
    /\ Running("put", "open")
    /\ ServedOrPanic(s, s.ok) /\ step' = "copy"
    /\ UNCHANGED <<actions, left, scratch, put_sector, get_sector, shown, source, got>>

PutChunk ==
    LET chunk_size == Min2(left, CELLS)
        cells == SubSeq(scratch[put_sector + 1], 1, chunk_size)
        s == FileWrite(Start(0), Handle, cells)
    IN  /\ Running("put", "copy") /\ left > 0
        /\ IF ~OnScratch(put_sector) THEN ServedOrPanic(Start(0), FALSE) /\ UNCHANGED <<left, put_sector, source>>
           ELSE /\ ServedOrPanic(s, s.done = chunk_size)
                /\ left' = left - chunk_size
                /\ put_sector' = put_sector + 1
                /\ source' = [source EXCEPT ![name] = @ \o cells]
        /\ UNCHANGED <<actions, step, scratch, get_sector, shown, got>>

CopyDone ==
    /\ Running("put", "copy") \/ Running("get", "copy")
    /\ left = 0
    /\ ServedOrPanic(FileClose(Start(0), Handle), TRUE)
    /\ Finished
    /\ UNCHANGED <<left, scratch, put_sector, get_sector, shown, source, got>>

GetOpen ==
    LET s == FilesysOpen(Start(0), name, Handle)
        size == s.inodes[s.files[Handle].sector].length
    IN  /\ Running("get", "start")
        /\ IF ~s.ok \/ ~OnScratch(get_sector) THEN ServedOrPanic(s, FALSE) /\ UNCHANGED <<step, left, scratch, get_sector, got>>
           ELSE /\ ServedOrPanic(s, TRUE)
                /\ left' = size /\ step' = "copy"
                /\ scratch' = [scratch EXCEPT ![get_sector + 1] = Padded(<<<<"GET", size>>>>)]
                /\ get_sector' = get_sector + 1
                /\ got' = Append(got, <<get_sector, source[name]>>)
        /\ UNCHANGED <<actions, put_sector, shown, source>>

\* Mutant: the end of the last sector is not cleared.
GetChunkUncleared ==
    LET s == FileRead(Start(0), Handle, Min2(left, CELLS)) IN
    /\ Running("get", "copy") /\ left > 0 /\ OnScratch(get_sector)
    /\ ServedOrPanic(s, TRUE)
    /\ scratch' = [scratch EXCEPT ![get_sector + 1] = s.cells \o SubSeq(@, Len(s.cells) + 1, CELLS)]
    /\ get_sector' = get_sector + 1
    /\ left' = left - Len(s.cells)
    /\ UNCHANGED <<actions, step, put_sector, shown, source, got>>

GetChunk ==
    LET chunk_size == Min2(left, CELLS)
        s == FileRead(Start(0), Handle, chunk_size)
    IN  /\ Running("get", "copy") /\ left > 0
        /\ IF ~OnScratch(get_sector) \/ Len(s.cells) # chunk_size
           THEN ServedOrPanic(Start(0), FALSE) /\ UNCHANGED <<scratch, get_sector, left>>
           ELSE /\ ServedOrPanic(s, TRUE)
                /\ scratch' = [scratch EXCEPT ![get_sector + 1] = Padded(s.cells)]
                /\ get_sector' = get_sector + 1
                /\ left' = left - chunk_size
        /\ UNCHANGED <<actions, step, put_sector, shown, source, got>>

\* fsutil_cat() reads pages, of eight sectors, to the end of the file.
Cat ==
    LET o == FilesysOpen(Start(0), name, Handle)
        size == o.inodes[o.files[Handle].sector].length
        page(acc, k) == LET r == FileRead(acc.s, Handle, 8 * CELLS)
                        IN  [s |-> r, cells |-> acc.cells \o r.cells]
        r == Seqs!FoldLeft(page, [s |-> o, cells |-> <<>>], [k \in 1..((size \div (8 * CELLS)) + 1) |-> k])
    IN  /\ Running("cat", "start")
        /\ IF ~o.ok THEN ServedOrPanic(o, FALSE) /\ UNCHANGED <<actions, step, shown>>
           ELSE /\ ServedOrPanic(FileClose(r.s, Handle), TRUE)
                /\ shown' = <<r.cells, source[name]>>
                /\ Finished
        /\ UNCHANGED <<left, scratch, put_sector, get_sector, source, got>>

Rm ==
    LET s == FilesysRemove(Start(0), name) IN
    /\ Running("rm", "start")
    /\ ServedOrPanic(s, s.ok)
    /\ Finished
    /\ source' = [source EXCEPT ![name] = NONE]
    /\ UNCHANGED <<left, scratch, put_sector, get_sector, shown, got>>

\* fsutil_ls() does not close the directory: its inode stays open.
Ls ==
    LET d == DirOpenRoot(Start(0)) IN
    /\ Running("ls", "start")
    /\ ServedOrPanic(d, d.ok)
    /\ shown' = <<{e[2] : e \in Entries(disk)}, {n \in Names : source[n] # NONE}>>
    /\ Finished
    /\ UNCHANGED <<left, scratch, put_sector, get_sector, source, got>>

UtilNext ==
    \/ actions = NONE /\ Next /\ UNCHANGED utilvars
    \/ actions # NONE /\ Flush /\ UNCHANGED utilvars
    \/ PutCreate \/ PutOpen \/ PutChunk \/ GetOpen \/ GetChunk \/ CopyDone \/ Cat \/ Rm \/ Ls

UtilSpec == UtilInit /\ [][UtilNext]_<<vars, utilvars>>

----------------------------------------------------------------------------
\* Every fsutil_get() and fsutil_cat() gives back what fsutil_put() was
\* given: the header, whole sectors and a last one padded with zeros, at the
\* place of the scratch disk where the gets before it ended, whatever was
\* put, removed and put again before.
TransfersExact ==
    /\ shown # <<>> => shown[1] = shown[2]
    /\ ~stopped /\ actions # NONE /\ step = "start" =>
          \A g \in {got[i] : i \in DOMAIN got} :
              LET size == Len(g[2])
                  sectors == BytesToSectors(size)
              IN  /\ scratch[g[1] + 1] = Padded(<<<<"GET", size>>>>)
                  /\ \A k \in 1..sectors :
                        scratch[g[1] + 1 + k] =
                            Padded(SubSeq(g[2], (k - 1) * CELLS + 1, Min2(size, k * CELLS)))
=======================================================================
