-------------------------- MODULE FileSysMC --------------------------
(* Instances of FileSys and FsUtil for TLC. *)
EXTENDS FsUtil, TLC

CONSTANTS fa, fb, fbad, h1, h2

ASSUME NoShortRead

\* A sector holds eleven cells: a file takes two of them, and the map and the
\* directory are parts of one.
MCLengths == {22}
MCOffsets == {0}
\* Entries that are not in use, and sectors that are free in the map on the
\* disk, are written before they are read again.
View ==
    LET entries == Owned(disk, ROOT_DIR_SECTOR) \ {ROOT_DIR_SECTOR}
        seen(i) == IF i \in entries THEN [k \in 1..CELLS |-> IF InUse(disk[i][k]) THEN disk[i][k] ELSE Zero]
                   ELSE disk[i]
    IN  <<[i \in MapOn(disk) |-> seen(i)], log, memory, leaked, utilvars>>
\* Two files are put, one may be deleted and put again, then they are read.
MCScripts == {<<<<"put", fa>>, <<"put", fb>>, x, y>> :
                 x \in {<<"rm", fa>>, <<"get", fa>>, <<"cat", fa>>, <<"ls", fa>>},
                 y \in {<<"ls", fa>>, <<"get", fb>>, <<"get", fa>>, <<"cat", fb>>, <<"put", fa>>, <<"put", fb>>, <<"rm", fb>>}}
           \union {<<<<"put", fa>>, <<"rm", fa>>, <<"put", fb>>, <<"get", fb>>>>}
PutFile(n) == <<Padded(<<<<"PUT", n>>>>)>>
              \o [k \in 1..BytesToSectors(n) |-> [i \in 1..CELLS |-> IF i % 2 = 0 THEN <<n>> ELSE <<k>>]]
MCScratches == {PutFile(n) \o PutFile(k) : n, k \in {0, 7, 11, 14}} \union {PutFile(3) \o <<Zeros>>, PutFile(22)}
Symmetry == Permutations(Handles) \union Permutations(Names \ BadNames)
=======================================================================
