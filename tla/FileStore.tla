---------------------------- MODULE FileStore ----------------------------
(***************************************************************************)
(* What filesys/ promises (the comments on filesys_create, filesys_open,   *)
(* filesys_remove, inode_close and inode_deny_write): names lead to files, *)
(* a file that is removed lives until its last opener closes it, creation  *)
(* and removal happen at one moment even when the machine stops half way,  *)
(* and a write reaches the disk a sector at a time.  FileSys implements    *)
(* this specification.                                                     *)
(***************************************************************************)
LOCAL INSTANCE Naturals
LOCAL INSTANCE Sequences

CONSTANTS Names, Handles, CELLS, Zero, NONE

VARIABLES
    link,      \* the file each name leads to
    contents,  \* the cells of each file, a function on the files that exist
    opened,    \* the file each handle has open
    denied     \* the handles that deny writes to their file

vars == <<link, contents, opened, denied>>

Init ==
    /\ link = [n \in Names |-> NONE]
    /\ DOMAIN contents = {}
    /\ opened = [h \in Handles |-> NONE]
    /\ denied = {}

Create(n) ==
    LET id == link'[n] IN
    /\ link[n] = NONE /\ id # NONE
    /\ link' = [link EXCEPT ![n] = id]
    /\ UNCHANGED <<opened, denied>>
    /\ id \notin DOMAIN contents
    /\ contents' = [i \in DOMAIN contents \union {id} |-> IF i = id THEN contents'[id] ELSE contents[i]]
    /\ \A k \in 1..Len(contents'[id]) : contents'[id][k] = Zero

\* A file without a name lives as long as it is open.
Kept(id) == \/ \E n \in Names : link'[n] = id
            \/ \E h \in Handles : opened'[h] = id

DropUnused == contents' = [id \in {i \in DOMAIN contents : Kept(i)} |-> contents[id]]

Remove(n) ==
    /\ link[n] # NONE /\ link'[n] = NONE
    /\ link' = [link EXCEPT ![n] = NONE]
    /\ UNCHANGED <<opened, denied>>
    /\ DropUnused

Open(h) ==
    LET id == opened'[h] IN
    /\ opened[h] = NONE /\ id # NONE
    /\ opened' = [opened EXCEPT ![h] = id]
    /\ denied' \in {denied, denied \union {h}}
    /\ id \in DOMAIN contents
    /\ UNCHANGED <<link, contents>>

Close(h) ==
    /\ opened[h] # NONE /\ opened'[h] = NONE
    /\ opened' = [opened EXCEPT ![h] = NONE]
    /\ denied' = denied \ {h}
    /\ UNCHANGED link
    /\ DropUnused

Deny(h) ==
    /\ opened[h] # NONE
    /\ denied' \in {denied \union {h}, denied \ {h}}
    /\ UNCHANGED <<link, contents, opened>>

\* One sector of an open file that nobody has denied writes to.
Write ==
    /\ UNCHANGED <<link, opened, denied>>
    /\ \E h \in Handles : opened[h] # NONE
    /\ contents' # contents
    /\ \E h \in Handles :
          LET id == opened[h]
              Differs(i) == contents'[id][i] # contents[id][i]
          IN  /\ id # NONE /\ \A g \in denied : opened[g] # id
              /\ contents' = [contents EXCEPT ![id] = contents'[id]]
              /\ Len(contents'[id]) = Len(contents[id])
              /\ \A i, j \in 1..Len(contents[id]) :
                    Differs(i) /\ Differs(j) => (i - 1) \div CELLS = (j - 1) \div CELLS

Stop ==
    /\ opened' = [h \in Handles |-> NONE]
    /\ denied' = {}
    /\ UNCHANGED link
    /\ DropUnused

Next ==
    \/ link' # link /\ \E n \in Names : Create(n) \/ Remove(n)
    \/ opened' # opened /\ (Stop \/ \E h \in Handles : Open(h) \/ Close(h))
    \/ denied' # denied /\ \E h \in Handles : Deny(h)
    \/ Write

Spec == Init /\ [][Next]_vars
==========================================================================
