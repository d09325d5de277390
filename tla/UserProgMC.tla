--------------------------- MODULE UserProgMC ---------------------------
(***************************************************************************)
(* Pages of four bytes and tables of two entries: entry 0 of a PML4 spans  *)
(* eight pages, the last of them the stack's, and entry 1 begins with two  *)
(* pages of user addresses before KERN_BASE, as at the program's sizes.    *)
(***************************************************************************)
EXTENDS UserProg

CONSTANTS p1, p2

Two == {p1, p2}
One == {p1}
Symmetry == Permutations(Two)
KernelTablesMC ==
    (0 :> <<NONE, -1>>) @@ (-1 :> <<-2, NONE>>) @@ (-2 :> <<NONE, -3>>) @@ (-3 :> <<[page |-> -9, rw |-> TRUE], [page |-> -8, rw |-> TRUE]>>)
BaseTables == [t \in DOMAIN KernelTablesMC |-> [i \in 0..1 |-> KernelTablesMC[t][i + 1]]]

Seg(offset, vaddr, filesz, memsz, rw) ==
    [type |-> "PT_LOAD", offset |-> offset, vaddr |-> vaddr, filesz |-> filesz, memsz |-> memsz, rw |-> rw]
Ignored == [type |-> "ignored"]
Prog(phdrs) == [exists |-> TRUE, valid |-> TRUE, size |-> 10, phdrs |-> phdrs]

\* Code over a page boundary and data with a cleared tail.
CodeAndData == Prog(<<Seg(1, 5, 4, 4, FALSE), Ignored, Seg(9, 13, 1, 3, TRUE)>>)
\* Nothing but cleared pages.
Bss == Prog(<<Seg(2, 6, 0, 1, TRUE)>>)
\* A page twice, a segment longer than the file, one on page 0, and no program.
Twice == Prog(<<Seg(0, 4, 2, 2, FALSE), Seg(6, 6, 2, 2, TRUE)>>)
PastEnd == Prog(<<Seg(8, 4, 4, 4, TRUE)>>)
PageZero == Prog(<<Seg(0, 0, 2, 2, TRUE)>>)
NotThere == [exists |-> FALSE, valid |-> FALSE, size |-> 0, phdrs |-> <<>>]

Loadable == {CodeAndData, Bss}
Files == Loadable \union {Twice, PastEnd, PageZero, NotThere}

\* User addresses that entry 1 of the PML4 maps.
High == {Prog(<<Seg(0, 32, 2, 2, TRUE)>>)}
=======================================================================
