--------------------------- MODULE PageTable ---------------------------
(***************************************************************************)
(* threads/mmu.c: four levels of page tables, in pages of the kernel pool. *)
(* A memory m has the tables that are in use and the free pages of both    *)
(* pools; palloc hands out the first free one.  An entry of the last level *)
(* is a page of a process and whether it may write to it, one of the other *)
(* levels is a table, and NONE is an entry that is not present.            *)
(***************************************************************************)
EXTENDS Integers, Sequences, FiniteSets

CONSTANTS
    NONE,
    PGSIZE,
    FAN,            \* entries of a table
    KERN_BASE       \* addresses from here on are the kernel's

ASSUME PageTableAssumption == {PGSIZE, FAN, KERN_BASE} \subseteq Nat \ {0, 1}

\* PTX, PDX, PDPE and PML4 of an address are its indices at levels 0 to 3.
Spans == <<PGSIZE, PGSIZE * FAN, PGSIZE * FAN * FAN, PGSIZE * FAN * FAN * FAN>>
Index(va, level) == (va \div Spans[level + 1]) % FAN
IsUserVaddr(va) == va < KERN_BASE
EmptyTable == [i \in 0..(FAN - 1) |-> NONE]
Base == 0           \* base_pml4; the tables of the kernel have no page of the pool

FirstOf(S) == CHOOSE f \in S : \A g \in S : f <= g
Alloc(m, pool) == IF m.free[pool] = {} THEN NONE ELSE FirstOf(m.free[pool])
Taken(m, pool, f) == [m EXCEPT !.free[pool] = @ \ {f}]
Given(m, pool, f) == [m EXCEPT !.free[pool] = @ \union {f}]
Drop(m, t) == [Given(m, "kernel", t) EXCEPT !.tables = [u \in DOMAIN @ \ {t} |-> @[u]]]
Add(m, t, table) == [Taken(m, "kernel", t) EXCEPT !.tables = [u \in DOMAIN @ \union {t} |-> IF u = t THEN table ELSE @[u]]]

\* The table at entry i of t, which is allocated if it is missing.
Enter(m, t, i, create) ==
    LET f == Alloc(m, "kernel") IN
    CASE m.tables[t][i] # NONE -> [m |-> m, table |-> m.tables[t][i], allocated |-> FALSE]
      [] m.tables[t][i] = NONE /\ create /\ f # NONE ->
            [m |-> [Add(m, f, EmptyTable) EXCEPT !.tables[t][i] = f], table |-> f, allocated |-> TRUE]
      [] OTHER -> [m |-> m, table |-> NONE, allocated |-> FALSE]

\* An entry that leads nowhere: the table it got is given back.
Undo(w, e, t, i) ==
    IF w.pte = NONE /\ e.allocated THEN [w EXCEPT !.m = [Drop(@, e.table) EXCEPT !.tables[t][i] = NONE]] ELSE w

PgdirWalk(m, pdp, va, create) ==
    LET e == Enter(m, pdp, Index(va, 1), create) IN
    [m |-> e.m, pte |-> IF e.table = NONE THEN NONE ELSE <<e.table, Index(va, 0)>>]

\* Mutant: the table is not given back when the next one has no memory.
PdpeWalkLeak(m, pdpe, va, create) ==
    LET e == Enter(m, pdpe, Index(va, 2), create) IN
    IF e.table = NONE THEN [m |-> e.m, pte |-> NONE] ELSE PgdirWalk(e.m, e.table, va, create)

PdpeWalk(m, pdpe, va, create) ==
    LET i == Index(va, 2)
        e == Enter(m, pdpe, i, create)
    IN  IF e.table = NONE THEN [m |-> e.m, pte |-> NONE]
        ELSE Undo(PgdirWalk(e.m, e.table, va, create), e, pdpe, i)

\* The walk to the entry of va, <<table, index>>.
Pml4eWalk(m, pml4, va, create) ==
    LET i == Index(va, 3)
        e == Enter(m, pml4, i, create)
    IN  IF e.table = NONE THEN [m |-> e.m, pte |-> NONE]
        ELSE Undo(PdpeWalk(e.m, e.table, va, create), e, pml4, i)

Pml4GetPage(m, pml4, va) ==
    LET pte == Pml4eWalk(m, pml4, va, FALSE).pte IN
    IF pte = NONE THEN NONE ELSE m.tables[pte[1]][pte[2]]

\* The memory after the page was mapped, and whether it was.
Pml4SetPage(m, pml4, upage, kpage, rw) ==
    LET w == Pml4eWalk(m, pml4, upage, TRUE) IN
    IF w.pte = NONE THEN [m |-> w.m, ok |-> FALSE]
    ELSE [m |-> [w.m EXCEPT !.tables[w.pte[1]][w.pte[2]] = [page |-> kpage, rw |-> rw]], ok |-> TRUE]

\* A new table is a copy of base_pml4.
Pml4Create(m) ==
    LET f == Alloc(m, "kernel") IN
    IF f = NONE THEN [m |-> m, pml4 |-> NONE] ELSE [m |-> Add(m, f, m.tables[Base]), pml4 |-> f]

Entries(m, t) == {m.tables[t][i] : i \in 0..(FAN - 1)} \ {NONE}

\* The tables below entry 0 of pml4, the one entry that pml4_destroy() follows.
Pdpes(m, pml4) == {m.tables[pml4][0]} \ {NONE}
Pgdirs(m, pml4) == UNION {Entries(m, t) : t \in Pdpes(m, pml4)}
Pts(m, pml4) == UNION {Entries(m, t) : t \in Pgdirs(m, pml4)}
UserPages(m, pml4) == {e.page : e \in UNION {Entries(m, t) : t \in Pts(m, pml4)}}

Pml4Destroy(m, pml4) ==
    LET gone == {pml4} \union Pdpes(m, pml4) \union Pgdirs(m, pml4) \union Pts(m, pml4) IN
    [tables |-> [t \in DOMAIN m.tables \ gone |-> m.tables[t]],
     free |-> [kernel |-> m.free.kernel \union gone, user |-> m.free.user \union UserPages(m, pml4)]]
=======================================================================
