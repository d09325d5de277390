--------------------------- MODULE UserProgProofs ---------------------------
(***************************************************************************)
(* Proofs that the page tables in cr3 are in use, whatever step of a load, *)
(* an exit or a failed allocation a timer interrupt falls on (SpaceLive).  *)
(*                                                                         *)
(* The page tables form a forest: a colouring gives each table a level, an *)
(* owner (a process, or the kernel) and the table that leads to it, and    *)
(* each entry goes one level down, to a table of the same owner, except    *)
(* entries 1.. of a PML4, which go to the kernel's (Shape).  A walk that   *)
(* succeeds, and pml4_create(), extend the forest with pages that were     *)
(* free (Extends); a walk that fails gives back what it took (Pml4eWalk-   *)
(* IsOK); pml4_destroy() frees tables of the owner of the PML4 only, and   *)
(* with a table those that lead to it, so what stays leads to nothing that *)
(* is gone (DestroyShape).                                                 *)
(*                                                                         *)
(* On top of it, PcOK says what a process has at each step of its life,    *)
(* Cpu what cr3 is while it runs, Space that its tables are its own, and   *)
(* Apart that its other pages are in use and no tables.  Each step of a    *)
(* process changes its own record and extends the memory, gives a page     *)
(* back, or destroys its tables; a switch sets the space of the next one.  *)
(***************************************************************************)
EXTENDS UserProg, TLAPS, WellFoundedInduction

(***************************************************************************)
(* Page tables.                                                            *)
(***************************************************************************)

\* A memory of its parts; the tables of one have FAN entries, and it has two pools.
Mem(T, F) == [tables |-> T, free |-> F]
Tables(T) == T = [t \in DOMAIN T |-> [i \in 0..(FAN - 1) |-> T[t][i]]]
Pools(F) == F = [pool \in {"kernel", "user"} |-> F[pool]]
Memory(mem) == mem = Mem(mem.tables, mem.free) /\ Tables(mem.tables) /\ Pools(mem.free)

\* A colouring c of the tables: each has a level, an owner, which is a process or
\* the kernel (Main), and a table up that leads to it, if it is a process's.
\* Entry i of table t is empty or leads to a table of the level below, of the
\* same owner; entries 1.. of a PML4 lead to the kernel's.
EntryOK(mem, c, t, i) ==
    LET e == mem.tables[t][i] IN
    \/ c[t].level = 0 \/ e = NONE
    \/ /\ e \in DOMAIN mem.tables /\ c[e].level = c[t].level - 1
       /\ c[e].owner = (IF c[t].level = 3 /\ i # 0 THEN Main ELSE c[t].owner)
       /\ c[e].owner # Main => c[e].up = t

\* The tables of a process are pages of the pool; the kernel's PML4 has no entry 0.
TableOK(mem, c, t) ==
    /\ c[t].level \in 0..3 /\ c[t].owner \in Procs \cup {Main} /\ t \in Int
    /\ c[t].owner # Main => t \in Nat
    /\ c[t].owner = Main /\ c[t].level = 3 => mem.tables[t][0] = NONE
    /\ \A i \in 0..(FAN - 1) : EntryOK(mem, c, t, i)

\* The forest of page tables, apart from the free pages.
Shape(mem, c) ==
    /\ Memory(mem)
    /\ mem.free.kernel \subseteq Nat /\ DOMAIN mem.tables \cap mem.free.kernel = {}
    /\ Base \in DOMAIN mem.tables /\ c[Base].level = 3 /\ c[Base].owner = Main
    /\ \A t \in DOMAIN mem.tables : TableOK(mem, c, t)

\* w has the tables of mem, and others on pages that were free.
Extends(mem, c, w, d) ==
    /\ Shape(w, d)
    /\ DOMAIN mem.tables \subseteq DOMAIN w.tables
    /\ DOMAIN w.tables \subseteq DOMAIN mem.tables \cup mem.free.kernel
    /\ w.free.kernel \subseteq mem.free.kernel
    /\ \A t \in DOMAIN mem.tables : d[t].level = c[t].level /\ d[t].owner = c[t].owner

\* What a walk returns: nothing, and the memory is as it was, or an entry of the
\* last level.
WalkOK(mem, c, w) ==
    \/ w = [m |-> mem, pte |-> NONE]
    \/ \E d, t, i : /\ w = [m |-> w.m, pte |-> <<t, i>>] /\ Extends(mem, c, w.m, d)
                    /\ t \in DOMAIN w.m.tables /\ d[t].level = 0 /\ i \in 0..(FAN - 1)

----------------------------------------------------------------------------

\* Arithmetic of indices.
LEMMA Product == ASSUME NEW a \in Nat \ {0}, NEW b \in Nat \ {0} PROVE a * b \in Nat \ {0}
  OBVIOUS

\* A remainder is below its divisor.
LEMMA Remainder ==
  ASSUME NEW a \in Int, NEW b \in Nat \ {0}, NEW c \in Nat \ {0}
  PROVE  (a \div b) % c \in 0..(c - 1)
  OBVIOUS

\* PTX, PDX, PDPE and PML4 are entries of a table.
LEMMA IndexInTable == ASSUME NEW va \in Int, NEW level \in 0..3 PROVE Index(va, level) \in 0..(FAN - 1)
<1>1. PGSIZE \in Nat \ {0} /\ FAN \in Nat \ {0}
  BY PageTableAssumption
<1>2. PGSIZE * FAN \in Nat \ {0}
  BY <1>1, Product
<1>3. PGSIZE * FAN * FAN \in Nat \ {0}
  BY <1>1, <1>2, Product
<1>4. PGSIZE * FAN * FAN * FAN \in Nat \ {0}
  BY <1>1, <1>3, Product
<1>5. Spans[level + 1] \in Nat \ {0}
  BY <1>1, <1>2, <1>3, <1>4 DEF Spans
<1>. QED  BY <1>1, <1>5, Remainder DEF Index

\* palloc hands out a page that is free.
LEMMA AllocFree ==
  ASSUME NEW mem, mem.free.kernel \subseteq Nat
  PROVE  Alloc(mem, "kernel") = NONE \/ Alloc(mem, "kernel") \in mem.free.kernel
<1>. DEFINE S == mem.free.kernel
            R == {a \in Nat \X Nat : a[1] < a[2]}
<1>1. CASE S = {}
  BY <1>1 DEF Alloc
<1>2. CASE S # {}
  <2>1. IsWellFoundedOn(R, Nat)
    BY NatLessThanWellFounded DEF OpToRel
  <2>2. PICK x \in S : \A y \in S : <<y, x>> \notin R
    <3>. HIDE DEF R, S
    <3>. QED  BY <1>2, <2>1, WFMin, S \subseteq Nat DEF S
  <2>3. \A y \in S : y \in Nat /\ x \in Nat
    OBVIOUS
  <2>4. \A y \in S : ~(y < x)
    BY <2>2, <2>3
  <2>5. \A y \in S : x <= y
    BY <2>3, <2>4
  <2>. QED  BY <2>2, <2>5, <1>2 DEF Alloc, FirstOf
<1>. QED  BY <1>1, <1>2

\* The parts of a memory.
LEMMA MemParts ==
  ASSUME NEW T, NEW F
  PROVE  Mem(T, F).tables = T /\ Mem(T, F).free = F
  BY DEF Mem

\* The calls that take and give pages, on the parts of a memory.
Less(F, pool, f) == [F EXCEPT ![pool] = @ \ {f}]
More(F, pool, f) == [F EXCEPT ![pool] = @ \cup {f}]

\* palloc_get_page(), on the parts.
LEMMA TakenForm ==
  ASSUME NEW T, NEW F, NEW pool, NEW f
  PROVE  Taken(Mem(T, F), pool, f) = Mem(T, Less(F, pool, f))
<1>. DEFINE mem == Mem(T, F)
<1>1. mem = [tables |-> T, free |-> F]
  BY DEF Mem
<1>. HIDE DEF mem
<1>2. Taken(mem, pool, f) = [tables |-> T, free |-> [F EXCEPT ![pool] = @ \ {f}]]
  BY <1>1 DEF Taken
<1>. QED  BY <1>2 DEF mem, Mem, Less

\* palloc_free_page(), on the parts.
LEMMA GivenForm ==
  ASSUME NEW T, NEW F, NEW pool, NEW f
  PROVE  Given(Mem(T, F), pool, f) = Mem(T, More(F, pool, f))
<1>. DEFINE mem == Mem(T, F)
<1>1. mem = [tables |-> T, free |-> F]
  BY DEF Mem
<1>. HIDE DEF mem
<1>2. Given(mem, pool, f) = [tables |-> T, free |-> [F EXCEPT ![pool] = @ \cup {f}]]
  BY <1>1 DEF Given
<1>. QED  BY <1>2 DEF mem, Mem, More

\* The tables T after entry i of t was set to x, after f was added to them, and
\* after f was taken from them.
Entered(T, t, i, x) == [T EXCEPT ![t] = [T[t] EXCEPT ![i] = x]]
Plus(T, f, table) == [u \in DOMAIN T \cup {f} |-> IF u = f THEN table ELSE T[u]]
Minus(T, f) == [u \in DOMAIN T \ {f} |-> T[u]]

\* Other tables, an entry that is set, a table that is added and one that is dropped, on the parts.
LEMMA TablesForm ==
  ASSUME NEW T, NEW F, NEW U
  PROVE  [Mem(T, F) EXCEPT !.tables = U] = Mem(U, F)
  BY DEF Mem

LEMMA EnteredForm ==
  ASSUME NEW T, NEW F, NEW t, NEW i, NEW x
  PROVE  [Mem(T, F) EXCEPT !.tables[t][i] = x] = Mem(Entered(T, t, i, x), F)
  BY DEF Mem, Entered

LEMMA AddForm ==
  ASSUME NEW T, NEW F, NEW f, NEW table
  PROVE  Add(Mem(T, F), f, table) = Mem(Plus(T, f, table), Less(F, "kernel", f))
<1>. DEFINE w == Mem(T, Less(F, "kernel", f))
<1>1. Taken(Mem(T, F), "kernel", f) = w
  BY TakenForm
<1>2. w.tables = T
  BY MemParts
<1>3. [w EXCEPT !.tables = Plus(T, f, table)] = Mem(Plus(T, f, table), Less(F, "kernel", f))
  BY TablesForm
<1>. HIDE DEF w
<1>4. Add(Mem(T, F), f, table) = [w EXCEPT !.tables = Plus(T, f, table)]
  BY <1>1, <1>2 DEF Add, Plus
<1>. QED  BY <1>3, <1>4

LEMMA DropForm ==
  ASSUME NEW T, NEW F, NEW f
  PROVE  Drop(Mem(T, F), f) = Mem(Minus(T, f), More(F, "kernel", f))
<1>. DEFINE w == Mem(T, More(F, "kernel", f))
<1>1. Given(Mem(T, F), "kernel", f) = w
  BY GivenForm
<1>2. w.tables = T
  BY MemParts
<1>3. [w EXCEPT !.tables = Minus(T, f)] = Mem(Minus(T, f), More(F, "kernel", f))
  BY TablesForm
<1>. HIDE DEF w
<1>4. Drop(Mem(T, F), f) = [w EXCEPT !.tables = Minus(T, f)]
  BY <1>1, <1>2 DEF Drop, Minus
<1>. QED  BY <1>3, <1>4

\* A new table f that entry i of t leads to, and the memory without it again.
LEMMA UndoForm ==
  ASSUME NEW T, NEW F, Tables(T), Pools(F), NEW f \in F.kernel, f \notin DOMAIN T,
         NEW t \in DOMAIN T, NEW i \in 0..(FAN - 1), T[t][i] = NONE,
         NEW w, w = Mem(Entered(Plus(T, f, EmptyTable), t, i, f), Less(F, "kernel", f))
  PROVE  [Drop(w, f) EXCEPT !.tables[t][i] = NONE] = Mem(T, F)
<1>. DEFINE N == Entered(Plus(T, f, EmptyTable), t, i, f)
            G == Less(F, "kernel", f)
            H == More(G, "kernel", f)
            O == Minus(N, f)
<1>1. H = F
  BY DEF Pools, Less, More
<1>2. Drop(w, f) = Mem(O, H)
  <2>1. w = Mem(N, G)
    OBVIOUS
  <2>. HIDE DEF N, G
  <2>. QED  BY <2>1, DropForm
<1>3. [Mem(O, F) EXCEPT !.tables[t][i] = NONE] = Mem(Entered(O, t, i, NONE), F)
  <2>. HIDE DEF O
  <2>. QED  BY EnteredForm
<1>4. Entered(O, t, i, NONE) = T
  <2>1. O = [u \in DOMAIN T |-> IF u = t THEN [T[t] EXCEPT ![i] = f] ELSE T[u]]
    BY DEF Entered, Plus, Minus
  <2>2. [[T[t] EXCEPT ![i] = f] EXCEPT ![i] = NONE] = T[t]
    BY DEF Tables
  <2>. HIDE DEF O
  <2>3. Entered(O, t, i, NONE) = [u \in DOMAIN T |-> T[u]]
    BY <2>1, <2>2 DEF Entered
  <2>. QED  BY <2>3 DEF Tables
<1>. HIDE DEF O, H
<1>. QED  BY <1>1, <1>2, <1>3, <1>4

----------------------------------------------------------------------------

\* A memory extends itself, and what extends an extension extends the memory.
LEMMA ExtendsItself ==
  ASSUME NEW mem, NEW c, Shape(mem, c)
  PROVE  Extends(mem, c, mem, c)
  BY DEF Extends

LEMMA ExtendsAll ==
  ASSUME NEW mem, NEW c, NEW v, NEW d, NEW w, NEW e, Extends(mem, c, v, d), Extends(v, d, w, e)
  PROVE  Extends(mem, c, w, e)
  BY DEF Extends

\* x is mem with a table on a free page f, that entry i of t leads to.
GrownBy(mem, c, t, i, f, x) ==
    /\ [Drop(x, f) EXCEPT !.tables[t][i] = NONE] = mem
    /\ \E d : Extends(mem, c, x, d) /\ f \in DOMAIN x.tables /\ d[f].level = c[t].level - 1

\* A new, empty table f at an empty entry i of t extends the forest: it has the level below t and the owner of t.
LEMMA Grown ==
  ASSUME NEW mem, NEW c, Shape(mem, c), NEW f \in mem.free.kernel,
         NEW t \in DOMAIN mem.tables, NEW i \in 0..(FAN - 1), mem.tables[t][i] = NONE,
         c[t].level \in 1..3, c[t].level = 3 => c[t].owner # Main
  PROVE  GrownBy(mem, c, t, i, f, [Add(mem, f, EmptyTable) EXCEPT !.tables[t][i] = f])
<1>. DEFINE T == mem.tables
            F == mem.free
            P == Plus(T, f, EmptyTable)
            N == Entered(P, t, i, f)
            G == Less(F, "kernel", f)
            w == Mem(N, G)
            d == [u \in DOMAIN T \cup {f} |->
                    IF u = f THEN [level |-> c[t].level - 1, up |-> t,
                                   owner |-> IF c[t].level = 3 /\ i # 0 THEN Main ELSE c[t].owner]
                    ELSE c[u]]
<1>1. mem = Mem(T, F) /\ Tables(T) /\ Pools(F) /\ f \notin DOMAIN T
  BY DEF Shape, Memory
<1>2. [Add(mem, f, EmptyTable) EXCEPT !.tables[t][i] = f] = w
  <2>1. Add(mem, f, EmptyTable) = Mem(P, G)
    <3>. HIDE DEF T, F
    <3>. QED  BY <1>1, AddForm
  <2>2. [Mem(P, G) EXCEPT !.tables[t][i] = f] = w
    <3>. HIDE DEF P, G
    <3>. QED  BY EnteredForm
  <2>. HIDE DEF P, G, w
  <2>. QED  BY <2>1, <2>2
<1>3. w.tables = N /\ w.free = G
  <2>. HIDE DEF N, G
  <2>. QED  BY MemParts
<1>4. DOMAIN N = DOMAIN T \cup {f} /\ Tables(N)
  <2>1. N = [u \in DOMAIN T \cup {f} |-> IF u = t THEN [T[t] EXCEPT ![i] = f] ELSE P[u]]
    BY <1>1 DEF Entered, Plus
  <2>2. [T[t] EXCEPT ![i] = f] = [j \in 0..(FAN - 1) |-> IF j = i THEN f ELSE T[t][j]]
    BY <1>1 DEF Tables
  <2>3. P[f] = [j \in 0..(FAN - 1) |-> NONE] /\ \A u \in DOMAIN T : P[u] = [j \in 0..(FAN - 1) |-> T[u][j]]
    BY <1>1 DEF Tables, Plus, EmptyTable
  <2>. HIDE DEF N, P
  <2>4. \A u \in DOMAIN T \cup {f} : N[u] = [j \in 0..(FAN - 1) |-> N[u][j]]
    <3>1. CASE t # f
      BY <2>1, <2>2, <2>3
    <3>. QED  BY <1>1, <3>1
  <2>. QED  BY <2>1, <2>4 DEF Tables
<1>5. /\ \A j \in 0..(FAN - 1) : N[f][j] = NONE
      /\ N[t][i] = f /\ \A j \in 0..(FAN - 1) \ {i} : N[t][j] = T[t][j]
      /\ \A u \in DOMAIN T \ {t} : N[u] = T[u]
  BY <1>1 DEF Tables, Entered, Plus, EmptyTable
<1>6. Pools(G) /\ G.kernel = F.kernel \ {f} /\ G.user = F.user
  BY <1>1 DEF Pools, Less
<1>7. [Drop(w, f) EXCEPT !.tables[t][i] = NONE] = mem
  <2>1. w = Mem(Entered(Plus(T, f, EmptyTable), t, i, f), Less(F, "kernel", f)) /\ f \in F.kernel
    OBVIOUS
  <2>. HIDE DEF T, F, w
  <2>. QED  BY <1>1, <2>1, UndoForm DEF T
<1>8. /\ \A u \in DOMAIN T : d[u] = c[u]
      /\ d[f].level = c[t].level - 1 /\ d[f].up = t
      /\ d[f].owner = (IF c[t].level = 3 /\ i # 0 THEN Main ELSE c[t].owner)
  BY <1>1
<1>9. Shape(w, d)
  <2>. HIDE DEF N, G, w, d
  <2>1. Memory(w)
    BY <1>3, <1>4, <1>6 DEF Memory, w
  <2>2. w.free.kernel \subseteq Nat /\ DOMAIN w.tables \cap w.free.kernel = {}
    BY <1>3, <1>4, <1>6 DEF Shape
  <2>3. Base \in DOMAIN w.tables /\ d[Base].level = 3 /\ d[Base].owner = Main
    BY <1>3, <1>4, <1>8 DEF Shape
  <2>4. TableOK(w, d, f)
    BY <1>3, <1>5, <1>8 DEF Shape, TableOK, EntryOK
  <2>5. ASSUME NEW u \in DOMAIN T \ {t} PROVE TableOK(w, d, u)
    <3>1. TableOK(mem, c, u)
      BY DEF Shape
    <3>2. w.tables[u] = mem.tables[u] /\ d[u] = c[u]
      BY <1>3, <1>5, <1>8
    <3>3. \A j \in 0..(FAN - 1) : EntryOK(w, d, u, j)
      BY <3>1, <3>2, <1>3, <1>4, <1>8 DEF TableOK, EntryOK
    <3>. QED  BY <3>1, <3>2, <3>3 DEF TableOK
  <2>6. TableOK(w, d, t)
    <3>1. TableOK(mem, c, t)
      BY DEF Shape
    <3>2. d[t] = c[t] /\ c[t].level \in 1..3
      BY <1>8
    <3>3. EntryOK(w, d, t, i)
      BY <3>2, <1>3, <1>4, <1>5, <1>8 DEF EntryOK
    <3>4. ASSUME NEW j \in 0..(FAN - 1) \ {i} PROVE EntryOK(w, d, t, j)
      BY <3>1, <3>2, <1>3, <1>4, <1>5, <1>8 DEF TableOK, EntryOK
    <3>. QED  BY <3>1, <3>2, <3>3, <3>4 DEF TableOK
  <2>. QED  BY <2>1, <2>2, <2>3, <2>4, <2>5, <2>6, <1>3, <1>4 DEF Shape
<1>10. Extends(mem, c, w, d)
  <2>. HIDE DEF N, G, w, d
  <2>. QED  BY <1>3, <1>4, <1>6, <1>8, <1>9 DEF Extends
<1>. HIDE DEF N, G, w, d
<1>. QED  BY <1>2, <1>3, <1>4, <1>7, <1>8, <1>10 DEF GrownBy

\* What Enter() returns: no table, a table that was there, or a new one that Undo()
\* can take back.
EnterOK(mem, c, t, i, e) ==
    \/ e.table = NONE /\ e.m = mem /\ ~e.allocated
    \/ /\ e.table # NONE
       /\ e.allocated \/ e.m = mem
       /\ e.allocated => [Drop(e.m, e.table) EXCEPT !.tables[t][i] = NONE] = mem
       /\ \E d : /\ Extends(mem, c, e.m, d) /\ e.table \in DOMAIN e.m.tables
                /\ d[e.table].level = c[t].level - 1

\* What entering the table at an entry does: a table that was there, a new one, or nothing.
LEMMA EnterIsOK ==
  ASSUME NEW mem, NEW c, Shape(mem, c), NEW t \in DOMAIN mem.tables, NEW i \in 0..(FAN - 1),
         c[t].level \in 1..3, c[t].level = 3 => c[t].owner # Main
  PROVE  EnterOK(mem, c, t, i, Enter(mem, t, i, TRUE))
<1>. DEFINE f == Alloc(mem, "kernel")
            e == Enter(mem, t, i, TRUE)
<1>. SUFFICES EnterOK(mem, c, t, i, e)
  OBVIOUS
<1>1. mem.free.kernel \subseteq Nat /\ NONE \notin Int
  BY UserProgAssumption DEF Shape
<1>2. CASE mem.tables[t][i] # NONE
  <2>1. e = [m |-> mem, table |-> mem.tables[t][i], allocated |-> FALSE]
    BY <1>2 DEF Enter
  <2>. HIDE DEF e
  <2>2. EntryOK(mem, c, t, i)
    BY DEF Shape, TableOK
  <2>3. mem.tables[t][i] \in DOMAIN mem.tables /\ c[mem.tables[t][i]].level = c[t].level - 1
    BY <1>2, <2>2 DEF EntryOK
  <2>4. Extends(mem, c, mem, c)
    BY ExtendsItself
  <2>5. e.m = mem /\ e.table = mem.tables[t][i] /\ e.allocated = FALSE
    BY <2>1
  <2>. QED  BY <1>2, <2>3, <2>4, <2>5 DEF EnterOK
<1>3. CASE mem.tables[t][i] = NONE /\ f # NONE
  <2>. DEFINE w == [Add(mem, f, EmptyTable) EXCEPT !.tables[t][i] = f]
  <2>1. f \in mem.free.kernel
    BY <1>1, <1>3, AllocFree
  <2>2. PICK d : /\ Extends(mem, c, w, d) /\ f \in DOMAIN w.tables /\ d[f].level = c[t].level - 1
                 /\ [Drop(w, f) EXCEPT !.tables[t][i] = NONE] = mem
    <3>. HIDE DEF f
    <3>1. GrownBy(mem, c, t, i, f, w)
      BY <1>3, <2>1, Grown
    <3>. HIDE DEF w
    <3>. QED  BY <3>1 DEF GrownBy
  <2>3. e = [m |-> w, table |-> f, allocated |-> TRUE]
    BY <1>3 DEF Enter
  <2>. HIDE DEF w, f, e
  <2>4. e.m = w /\ e.table = f /\ e.allocated = TRUE
    BY <2>3
  <2>. QED  BY <1>3, <2>2, <2>4 DEF EnterOK
<1>4. CASE mem.tables[t][i] = NONE /\ f = NONE
  <2>1. e = [m |-> mem, table |-> NONE, allocated |-> FALSE]
    BY <1>4 DEF Enter
  <2>. HIDE DEF e
  <2>2. e.m = mem /\ e.table = NONE /\ e.allocated = FALSE
    BY <2>1
  <2>. QED  BY <2>2 DEF EnterOK
<1>. QED  BY <1>2, <1>3, <1>4

\* A table that was entered in vain is given back: the memory is as it was.
LEMMA UndoIsOK ==
  ASSUME NEW mem, NEW c, NEW t, NEW i, NEW e, NEW d, NEW w,
         Extends(mem, c, e.m, d), WalkOK(e.m, d, w), e.allocated \/ e.m = mem,
         e.allocated => [Drop(e.m, e.table) EXCEPT !.tables[t][i] = NONE] = mem
  PROVE  WalkOK(mem, c, Undo(w, e, t, i))
<1>1. CASE w = [m |-> e.m, pte |-> NONE]
  <2>1. CASE e.allocated
    <3>1. Undo(w, e, t, i) = [w EXCEPT !.m = [Drop(w.m, e.table) EXCEPT !.tables[t][i] = NONE]]
      BY <1>1, <2>1 DEF Undo
    <3>2. w.m = e.m
      BY <1>1
    <3>3. Undo(w, e, t, i) = [w EXCEPT !.m = mem]
      BY <3>1, <3>2, <2>1
    <3>. QED  BY <3>3, <1>1 DEF WalkOK
  <2>2. CASE ~e.allocated
    BY <1>1, <2>2 DEF Undo, WalkOK
  <2>. QED  BY <2>1, <2>2
<1>2. ASSUME NEW b, NEW u, NEW j, w = [m |-> w.m, pte |-> <<u, j>>], Extends(e.m, d, w.m, b),
             u \in DOMAIN w.m.tables, b[u].level = 0, j \in 0..(FAN - 1)
      PROVE  WalkOK(mem, c, Undo(w, e, t, i))
  <2>1. u \in Int
    BY <1>2 DEF Extends, Shape, TableOK
  <2>2. w.pte = <<u, j>>
    BY <1>2
  <2>3. w.pte # NONE
    BY <1>2, <2>1, <2>2, UserProgAssumption
  <2>4. Undo(w, e, t, i) = w
    BY <2>3 DEF Undo
  <2>5. Extends(mem, c, w.m, b)
    BY <1>2, ExtendsAll
  <2>. QED  BY <1>2, <2>4, <2>5 DEF WalkOK
<1>. QED  BY <1>1, <1>2 DEF WalkOK

\* pgdir_walk() from a table of level 1.
LEMMA PgdirWalkIsOK ==
  ASSUME NEW mem, NEW c, Shape(mem, c), NEW t \in DOMAIN mem.tables, c[t].level = 1, NEW va \in Int
  PROVE  WalkOK(mem, c, PgdirWalk(mem, t, va, TRUE))
<1>. DEFINE i == Index(va, 1)
            e == Enter(mem, t, i, TRUE)
            w == PgdirWalk(mem, t, va, TRUE)
<1>. SUFFICES WalkOK(mem, c, w)
  OBVIOUS
<1>1. i \in 0..(FAN - 1) /\ Index(va, 0) \in 0..(FAN - 1)
  BY IndexInTable
<1>2. EnterOK(mem, c, t, i, e)
  <2>1. c[t].level \in 1..3 /\ (c[t].level = 3 => c[t].owner # Main)
    OBVIOUS
  <2>. HIDE DEF i
  <2>. QED  BY <1>1, <2>1, EnterIsOK, Zenon
<1>3. w = [m |-> e.m, pte |-> IF e.table = NONE THEN NONE ELSE <<e.table, Index(va, 0)>>]
  BY DEF PgdirWalk
<1>. HIDE DEF i, e, w
<1>4. CASE e.table = NONE
  BY <1>2, <1>3, <1>4 DEF EnterOK, WalkOK
<1>5. CASE e.table # NONE
  <2>1. PICK d : Extends(mem, c, e.m, d) /\ e.table \in DOMAIN e.m.tables /\ d[e.table].level = c[t].level - 1
    BY <1>2, <1>5 DEF EnterOK
  <2>2. w = [m |-> e.m, pte |-> <<e.table, Index(va, 0)>>] /\ w.m = e.m
    BY <1>3, <1>5
  <2>3. d[e.table].level = 0
    BY <2>1
  <2>. QED  BY <1>1, <2>1, <2>2, <2>3 DEF WalkOK
<1>. QED  BY <1>4, <1>5

\* pdpe_walk() from a table of level 2.
LEMMA PdpeWalkIsOK ==
  ASSUME NEW mem, NEW c, Shape(mem, c), NEW t \in DOMAIN mem.tables, c[t].level = 2, NEW va \in Int
  PROVE  WalkOK(mem, c, PdpeWalk(mem, t, va, TRUE))
<1>. DEFINE i == Index(va, 2)
            e == Enter(mem, t, i, TRUE)
            w == PdpeWalk(mem, t, va, TRUE)
<1>. SUFFICES WalkOK(mem, c, w)
  OBVIOUS
<1>1. i \in 0..(FAN - 1)
  BY IndexInTable
<1>2. EnterOK(mem, c, t, i, e)
  <2>1. c[t].level \in 1..3 /\ (c[t].level = 3 => c[t].owner # Main)
    OBVIOUS
  <2>. HIDE DEF i
  <2>. QED  BY <1>1, <2>1, EnterIsOK, Zenon
<1>3. w = IF e.table = NONE THEN [m |-> e.m, pte |-> NONE]
          ELSE Undo(PgdirWalk(e.m, e.table, va, TRUE), e, t, i)
  BY DEF PdpeWalk
<1>. HIDE DEF i, e, w
<1>4. CASE e.table = NONE
  BY <1>2, <1>3, <1>4 DEF EnterOK, WalkOK
<1>5. CASE e.table # NONE
  <2>1. PICK d : Extends(mem, c, e.m, d) /\ e.table \in DOMAIN e.m.tables /\ d[e.table].level = c[t].level - 1
    BY <1>2, <1>5 DEF EnterOK
  <2>2. WalkOK(e.m, d, PgdirWalk(e.m, e.table, va, TRUE))
    <3>1. Shape(e.m, d) /\ d[e.table].level = 1
      BY <2>1 DEF Extends
    <3>. QED  BY <2>1, <3>1, PgdirWalkIsOK, Zenon
  <2>3. WalkOK(mem, c, Undo(PgdirWalk(e.m, e.table, va, TRUE), e, t, i))
    BY <1>2, <1>5, <2>1, <2>2, UndoIsOK DEF EnterOK
  <2>. QED  BY <1>3, <1>5, <2>3
<1>. QED  BY <1>4, <1>5

\* pml4e_walk() from a PML4: an entry of the last level, or the memory as it was.
LEMMA Pml4eWalkIsOK ==
  ASSUME NEW mem, NEW c, Shape(mem, c), NEW t \in DOMAIN mem.tables, c[t].level = 3, c[t].owner # Main,
         NEW va \in Int
  PROVE  WalkOK(mem, c, Pml4eWalk(mem, t, va, TRUE))
<1>. DEFINE i == Index(va, 3)
            e == Enter(mem, t, i, TRUE)
            w == Pml4eWalk(mem, t, va, TRUE)
<1>. SUFFICES WalkOK(mem, c, w)
  OBVIOUS
<1>1. i \in 0..(FAN - 1)
  BY IndexInTable
<1>2. EnterOK(mem, c, t, i, e)
  <2>1. c[t].level \in 1..3 /\ (c[t].level = 3 => c[t].owner # Main)
    OBVIOUS
  <2>. HIDE DEF i
  <2>. QED  BY <1>1, <2>1, EnterIsOK, Zenon
<1>3. w = IF e.table = NONE THEN [m |-> e.m, pte |-> NONE]
          ELSE Undo(PdpeWalk(e.m, e.table, va, TRUE), e, t, i)
  BY DEF Pml4eWalk
<1>. HIDE DEF i, e, w
<1>4. CASE e.table = NONE
  BY <1>2, <1>3, <1>4 DEF EnterOK, WalkOK
<1>5. CASE e.table # NONE
  <2>1. PICK d : Extends(mem, c, e.m, d) /\ e.table \in DOMAIN e.m.tables /\ d[e.table].level = c[t].level - 1
    BY <1>2, <1>5 DEF EnterOK
  <2>2. WalkOK(e.m, d, PdpeWalk(e.m, e.table, va, TRUE))
    <3>1. Shape(e.m, d) /\ d[e.table].level = 2
      BY <2>1 DEF Extends
    <3>. QED  BY <2>1, <3>1, PdpeWalkIsOK, Zenon
  <2>3. WalkOK(mem, c, Undo(PdpeWalk(e.m, e.table, va, TRUE), e, t, i))
    BY <1>2, <1>5, <2>1, <2>2, UndoIsOK DEF EnterOK
  <2>. QED  BY <1>3, <1>5, <2>3
<1>. QED  BY <1>4, <1>5

\* pml4_set_page() maps a page, or leaves the memory as it was.
LEMMA SetPageExtends ==
  ASSUME NEW mem, NEW c, Shape(mem, c), NEW t \in DOMAIN mem.tables, c[t].level = 3, c[t].owner # Main,
         NEW va \in Int, NEW k, NEW rw
  PROVE  \E d : Extends(mem, c, Pml4SetPage(mem, t, va, k, rw).m, d)
<1>. DEFINE w == Pml4eWalk(mem, t, va, TRUE)
            s == Pml4SetPage(mem, t, va, k, rw)
<1>. SUFFICES \E d : Extends(mem, c, s.m, d)
  OBVIOUS
<1>1. WalkOK(mem, c, w)
  BY Pml4eWalkIsOK, Zenon
<1>. DEFINE e == [page |-> k, rw |-> rw]
<1>4. s = IF w.pte = NONE THEN [m |-> w.m, ok |-> FALSE]
          ELSE [m |-> [w.m EXCEPT !.tables[w.pte[1]][w.pte[2]] = e], ok |-> TRUE]
  BY DEF Pml4SetPage
<1>. HIDE DEF w, s, e
<1>2. CASE w = [m |-> mem, pte |-> NONE]
  <2>1. w.m = mem /\ w.pte = NONE
    BY <1>2
  <2>2. s.m = mem
    BY <2>1, <1>4
  <2>. QED  BY <2>2, ExtendsItself
<1>3. ASSUME NEW d, NEW u, NEW i, w = [m |-> w.m, pte |-> <<u, i>>], Extends(mem, c, w.m, d),
             u \in DOMAIN w.m.tables, d[u].level = 0, i \in 0..(FAN - 1)
      PROVE  Extends(mem, c, s.m, d)
  <2>. DEFINE T == w.m.tables
              F == w.m.free
              N == Entered(T, u, i, e)
  <2>1. u \in Int /\ Shape(w.m, d)
    BY <1>3 DEF Extends, Shape, TableOK
  <2>2. w.pte = <<u, i>>
    BY <1>3
  <2>3. w.pte # NONE
    BY <1>3, <2>1, <2>2, UserProgAssumption
  <2>4. s.m = [w.m EXCEPT !.tables[u][i] = e]
    <3>1. w.pte[1] = u /\ w.pte[2] = i
      BY <2>2
    <3>. QED  BY <2>3, <3>1, <1>4
  <2>5. w.m = Mem(T, F) /\ Tables(T)
    BY <2>1 DEF Shape, Memory
  <2>6. s.m = Mem(N, F)
    <3>. HIDE DEF T, F
    <3>. QED  BY <2>4, <2>5, EnteredForm
  <2>7. s.m.tables = N /\ s.m.free = F
    <3>. HIDE DEF N, F
    <3>. QED  BY <2>6, MemParts
  <2>8. DOMAIN N = DOMAIN T /\ Tables(N) /\ \A v \in DOMAIN T \ {u} : N[v] = T[v]
    <3>1. N = [v \in DOMAIN T |-> IF v = u THEN [T[u] EXCEPT ![i] = e] ELSE T[v]]
      BY <2>5 DEF Entered, Tables
    <3>2. [T[u] EXCEPT ![i] = e] = [j \in 0..(FAN - 1) |-> IF j = i THEN e ELSE T[u][j]]
      BY <1>3, <2>5 DEF Tables
    <3>. HIDE DEF N, T
    <3>3. \A v \in DOMAIN T : N[v] = [j \in 0..(FAN - 1) |-> N[v][j]]
      BY <3>1, <3>2, <2>5 DEF Tables
    <3>. QED  BY <3>1, <3>3 DEF Tables
  <2>. HIDE DEF N
  <2>9. Shape(s.m, d)
    <3>1. ASSUME NEW v \in DOMAIN T PROVE TableOK(s.m, d, v)
      <4>1. TableOK(w.m, d, v)
        BY <2>1 DEF Shape
      <4>2. CASE v = u
        BY <4>1, <4>2, <1>3 DEF TableOK, EntryOK
      <4>3. CASE v # u
        BY <4>1, <4>3, <2>7, <2>8 DEF TableOK, EntryOK
      <4>. QED  BY <4>2, <4>3
    <3>. QED  BY <3>1, <2>1, <2>6, <2>7, <2>8 DEF Shape, Memory
  <2>. QED  BY <1>3, <2>7, <2>8, <2>9 DEF Extends
<1>. QED  BY <1>1, <1>2, <1>3 DEF WalkOK

\* A new PML4 of process p.
LEMMA CreateExtends ==
  ASSUME NEW mem, NEW c, Shape(mem, c), NEW p \in Procs
  PROVE  LET r == Pml4Create(mem) IN
         \/ r.pml4 = NONE /\ r.m = mem
         \/ \E d : /\ Extends(mem, c, r.m, d) /\ r.pml4 \in mem.free.kernel
                  /\ r.pml4 \in DOMAIN r.m.tables /\ d[r.pml4].level = 3 /\ d[r.pml4].owner = p
<1>. DEFINE f == Alloc(mem, "kernel")
            r == Pml4Create(mem)
            T == mem.tables
            F == mem.free
            N == Plus(T, f, T[Base])
            G == Less(F, "kernel", f)
            w == Mem(N, G)
            d == [u \in DOMAIN T \cup {f} |->
                    IF u = f THEN [level |-> 3, up |-> Base, owner |-> p] ELSE c[u]]
<1>1. CASE f = NONE
  <2>1. r = [m |-> mem, pml4 |-> NONE]
    BY <1>1 DEF Pml4Create
  <2>. HIDE DEF r
  <2>. QED  BY <2>1 DEF r
<1>2. CASE f # NONE
  <2>1. f \in F.kernel /\ f \in Nat
    BY <1>2, AllocFree DEF Shape
  <2>. HIDE DEF f
  <2>2. mem = Mem(T, F) /\ Tables(T) /\ Pools(F) /\ f \notin DOMAIN T /\ Base \in DOMAIN T /\ p # Main
    BY <2>1, UserProgAssumption DEF Shape, Memory
  <2>3. Add(mem, f, mem.tables[Base]) = w
    <3>1. Add(Mem(T, F), f, T[Base]) = w
      <4>. HIDE DEF T, F
      <4>. QED  BY AddForm
    <3>. HIDE DEF F, w
    <3>. QED  BY <2>2, <3>1
  <2>4. r.m = w /\ r.pml4 = f
    <3>1. r = [m |-> w, pml4 |-> f]
      BY <1>2, <2>3 DEF Pml4Create, f
    <3>. HIDE DEF w, r
    <3>. QED  BY <3>1
  <2>5. w.tables = N /\ w.free = G
    <3>. HIDE DEF N, G
    <3>. QED  BY MemParts
  <2>6. /\ DOMAIN N = DOMAIN T \cup {f} /\ Tables(N)
        /\ N[f] = T[Base] /\ \A u \in DOMAIN T : N[u] = T[u]
    BY <2>2 DEF Tables, Plus
  <2>7. Pools(G) /\ G.kernel = F.kernel \ {f} /\ G.user = F.user
    BY <2>2 DEF Pools, Less
  <2>8. (\A u \in DOMAIN T : d[u] = c[u]) /\ d[f].level = 3 /\ d[f].owner = p
    BY <2>2
  <2>. HIDE DEF N, G, w, d, r
  <2>9. Shape(w, d)
    <3>1. Memory(w)
      BY <2>5, <2>6, <2>7 DEF Memory, w
    <3>2. TableOK(w, d, f)
      <4>1. TableOK(mem, c, Base) /\ c[Base].level = 3 /\ c[Base].owner = Main
        BY DEF Shape
      <4>2. \A j \in 0..(FAN - 1) : EntryOK(w, d, f, j)
        BY <4>1, <2>5, <2>6, <2>8 DEF TableOK, EntryOK
      <4>. QED  BY <4>2, <2>1, <2>2, <2>8 DEF TableOK
    <3>3. ASSUME NEW u \in DOMAIN T PROVE TableOK(w, d, u)
      <4>1. TableOK(mem, c, u)
        BY DEF Shape
      <4>2. \A j \in 0..(FAN - 1) : EntryOK(w, d, u, j)
        BY <4>1, <2>5, <2>6, <2>8 DEF TableOK, EntryOK
      <4>. QED  BY <4>1, <4>2, <2>5, <2>6, <2>8 DEF TableOK
    <3>. QED  BY <3>1, <3>2, <3>3, <2>5, <2>6, <2>7, <2>8 DEF Shape
  <2>10. Extends(mem, c, w, d)
    BY <2>1, <2>5, <2>6, <2>7, <2>8, <2>9 DEF Extends
  <2>. QED  BY <2>1, <2>4, <2>5, <2>6, <2>8, <2>10 DEF r
<1>. QED  BY <1>1, <1>2

\* Taking and giving pages.
LEMMA PoolsShape ==
  ASSUME NEW mem, NEW c, Shape(mem, c), NEW G, Pools(G), G.kernel \subseteq Nat,
         DOMAIN mem.tables \cap G.kernel = {}
  PROVE  Shape(Mem(mem.tables, G), c)
<1>. DEFINE T == mem.tables
            w == Mem(T, G)
<1>1. w.tables = T /\ w.free = G
  <2>. HIDE DEF T
  <2>. QED  BY MemParts
<1>. HIDE DEF w
<1>2. \A t \in DOMAIN T : TableOK(w, c, t)
  BY <1>1 DEF Shape, TableOK, EntryOK
<1>. QED  BY <1>1, <1>2 DEF Shape, Memory, w

\* Taking a page of either pool, or giving one of the user pool back, extends the forest.
LEMMA TakenExtends ==
  ASSUME NEW mem, NEW c, Shape(mem, c), NEW f, NEW pool \in {"kernel", "user"}
  PROVE  Extends(mem, c, Taken(mem, pool, f), c)
<1>. DEFINE T == mem.tables
            F == mem.free
            G == Less(F, pool, f)
            w == Mem(T, G)
<1>1. mem = Mem(T, F) /\ Pools(F)
  BY DEF Shape, Memory
<1>2. Taken(mem, pool, f) = w
  <2>. HIDE DEF T, F
  <2>. QED  BY <1>1, TakenForm
<1>3. Pools(G) /\ G.kernel \subseteq F.kernel
  BY <1>1 DEF Pools, Less
<1>4. w.tables = T /\ w.free = G
  <2>. HIDE DEF T, G
  <2>. QED  BY MemParts
<1>. HIDE DEF G
<1>5. Shape(w, c)
  BY <1>3, PoolsShape DEF Shape
<1>. HIDE DEF w
<1>. QED  BY <1>2, <1>3, <1>4, <1>5 DEF Extends

LEMMA GivenUserExtends ==
  ASSUME NEW mem, NEW c, Shape(mem, c), NEW f
  PROVE  Extends(mem, c, Given(mem, "user", f), c)
<1>. DEFINE T == mem.tables
            F == mem.free
            G == More(F, "user", f)
            w == Mem(T, G)
<1>1. mem = Mem(T, F) /\ Pools(F)
  BY DEF Shape, Memory
<1>2. Given(mem, "user", f) = w
  <2>. HIDE DEF T, F
  <2>. QED  BY <1>1, GivenForm
<1>3. Pools(G) /\ G.kernel = F.kernel
  BY <1>1 DEF Pools, More
<1>4. w.tables = T /\ w.free = G
  <2>. HIDE DEF T, G
  <2>. QED  BY MemParts
<1>. HIDE DEF G
<1>5. Shape(w, c)
  BY <1>3, PoolsShape DEF Shape
<1>. HIDE DEF w
<1>. QED  BY <1>2, <1>3, <1>4, <1>5 DEF Extends

\* The memory after the pages of S were given back to the kernel pool.
GivenAll(mem, S) == [mem EXCEPT !.free["kernel"] = @ \cup S]

\* Pages of the kernel pool that are no tables may be given back.
LEMMA GivenKernelShape ==
  ASSUME NEW mem, NEW c, Shape(mem, c), NEW S, S \subseteq Nat, S \cap DOMAIN mem.tables = {},
         NEW w, w = GivenAll(mem, S)
  PROVE  Shape(w, c) /\ w.tables = mem.tables /\ w.free.kernel = mem.free.kernel \cup S
<1>. DEFINE T == mem.tables
            F == mem.free
            G == [F EXCEPT !["kernel"] = @ \cup S]
<1>1. mem = Mem(T, F) /\ Pools(F)
  BY DEF Shape, Memory
<1>2. w = Mem(T, G)
  <2>1. mem = [tables |-> T, free |-> F]
    BY <1>1 DEF Mem
  <2>. HIDE DEF T, F
  <2>2. w = [tables |-> T, free |-> G]
    BY <2>1 DEF GivenAll
  <2>. HIDE DEF G
  <2>. QED  BY <2>2 DEF Mem
<1>3. Pools(G) /\ G.kernel = F.kernel \cup S
  BY <1>1 DEF Pools
<1>4. w.tables = T /\ w.free = G
  <2>. HIDE DEF T, G
  <2>. QED  BY <1>2, MemParts
<1>. HIDE DEF G
<1>5. G.kernel \subseteq Nat /\ DOMAIN T \cap G.kernel = {}
  BY <1>3 DEF Shape
<1>6. Shape(w, c)
  <2>1. Shape(Mem(mem.tables, G), c)
    BY <1>3, <1>5, PoolsShape
  <2>. QED  BY <1>2, <2>1
<1>. QED  BY <1>3, <1>4, <1>6

\* pml4_destroy() frees tables of the owner of the PML4 only, and with a table those
\* that lead to it.
LEMMA DestroyShape ==
  ASSUME NEW mem, NEW c, Shape(mem, c), NEW t \in DOMAIN mem.tables, c[t].level = 3, c[t].owner # Main,
         NEW w, w = Pml4Destroy(mem, t)
  PROVE  /\ Shape(w, c) /\ DOMAIN w.tables \subseteq DOMAIN mem.tables
         /\ w.free.kernel \subseteq mem.free.kernel \cup DOMAIN mem.tables
         /\ \A u \in DOMAIN mem.tables : c[u].owner # c[t].owner => u \in DOMAIN w.tables
<1>. DEFINE T == mem.tables
            P3 == Pdpes(mem, t)
            P2 == Pgdirs(mem, t)
            P1 == Pts(mem, t)
            gone == {t} \union P3 \union P2 \union P1
            N == [u \in DOMAIN T \ gone |-> T[u]]
            G == [kernel |-> mem.free.kernel \union gone, user |-> mem.free.user \union UserPages(mem, t)]
<1>1. w = Mem(N, G)
  BY DEF Pml4Destroy, Mem
<1>2. w.tables = N /\ w.free = G
  <2>. HIDE DEF N, G
  <2>. QED  BY <1>1, MemParts
<1>3. \A u \in DOMAIN T : TableOK(mem, c, u)
  BY DEF Shape
\* The tables at entries of a table.
<1>4. ASSUME NEW u \in DOMAIN T, c[u].owner = c[t].owner, c[u].level \in {1, 2}, NEW e \in Entries(mem, u)
      PROVE  e \in DOMAIN T /\ c[e].owner = c[t].owner /\ c[e].level = c[u].level - 1 /\ c[e].up = u
  <2>1. PICK i \in 0..(FAN - 1) : e = T[u][i] /\ e # NONE
    BY DEF Entries
  <2>2. EntryOK(mem, c, u, i)
    BY <1>3 DEF TableOK
  <2>. QED  BY <1>4, <2>1, <2>2 DEF EntryOK
<1>5. ASSUME NEW e \in P3
      PROVE  e \in DOMAIN T /\ c[e].owner = c[t].owner /\ c[e].level = 2 /\ c[e].up = t
  <2>1. e = T[t][0] /\ e # NONE
    BY DEF Pdpes
  <2>2. 0 \in 0..(FAN - 1)
    BY PageTableAssumption
  <2>3. EntryOK(mem, c, t, 0)
    BY <1>3, <2>2 DEF TableOK
  <2>. QED  BY <2>1, <2>3 DEF EntryOK
<1>6. ASSUME NEW e \in P2
      PROVE  e \in DOMAIN T /\ c[e].owner = c[t].owner /\ c[e].level = 1 /\ c[e].up \in P3
  <2>1. PICK u \in P3 : e \in Entries(mem, u)
    BY DEF Pgdirs
  <2>. HIDE DEF P3
  <2>. QED  BY <1>4, <1>5, <2>1
<1>7. ASSUME NEW e \in P1
      PROVE  e \in DOMAIN T /\ c[e].owner = c[t].owner /\ c[e].level = 0 /\ c[e].up \in P2
  <2>1. PICK u \in P2 : e \in Entries(mem, u)
    BY DEF Pts
  <2>. HIDE DEF P2
  <2>. QED  BY <1>4, <1>6, <2>1
<1>. HIDE DEF P1, P2, P3
<1>8. gone \subseteq DOMAIN T /\ \A u \in gone : c[u].owner = c[t].owner /\ u \in Nat
  BY <1>3, <1>5, <1>6, <1>7 DEF TableOK
<1>9. \A u \in gone \ {t} : c[u].level # 3 /\ c[u].up \in gone
  BY <1>5, <1>6, <1>7
<1>. DEFINE frees == gone
<1>. HIDE DEF gone
<1>10. DOMAIN N = DOMAIN T \ gone /\ Tables(N) /\ \A u \in DOMAIN N : N[u] = T[u]
  BY DEF Tables, Shape, Memory
<1>11. Pools(G) /\ G.kernel = mem.free.kernel \cup gone
  BY DEF Pools
<1>. HIDE DEF N, G
<1>12. ASSUME NEW u \in DOMAIN N PROVE TableOK(w, c, u)
  <2>1. TableOK(mem, c, u) /\ u \notin gone /\ w.tables[u] = T[u]
    BY <1>2, <1>3, <1>10
  <2>2. ASSUME NEW i \in 0..(FAN - 1) PROVE EntryOK(w, c, u, i)
    <3>1. EntryOK(mem, c, u, i)
      BY <2>1 DEF TableOK
    <3>. DEFINE e == T[u][i]
    <3>2. CASE c[u].level = 0 \/ e = NONE
      BY <2>1, <3>2 DEF EntryOK
    <3>3. CASE ~(c[u].level = 0 \/ e = NONE)
      <4>1. /\ e \in DOMAIN T /\ c[e].level = c[u].level - 1 /\ (c[e].owner # Main => c[e].up = u)
            /\ c[e].owner = (IF c[u].level = 3 /\ i # 0 THEN Main ELSE c[u].owner)
        BY <3>1, <3>3 DEF EntryOK
      <4>2. e # t
        BY <2>1, <4>1 DEF TableOK
      <4>3. e \notin gone
        BY <1>8, <1>9, <2>1, <4>1, <4>2
      <4>. QED  BY <1>2, <1>10, <2>1, <4>1, <4>3 DEF EntryOK
    <3>. QED  BY <3>2, <3>3
  <2>. QED  BY <2>1, <2>2 DEF TableOK
<1>13. Shape(w, c)
  BY <1>1, <1>2, <1>8, <1>10, <1>11, <1>12 DEF Shape, Memory
<1>. QED  BY <1>2, <1>8, <1>10, <1>11, <1>13

(***************************************************************************)
(* Processes.                                                              *)
(***************************************************************************)

\* The fields of a process.
Fields == DOMAIN Dead

\* The steps of load(), those after pml4_create(), and those that run in the new space.
Mapped == {"open", "phdr", "segment", "read", "install", "stack", "mapstack"}
Loading == {"named", "create", "activate", "done"} \cup Mapped
Cleanup == {"clear", "base", "destroy"}

\* What a process t has at each step.
PcOK(t) ==
    /\ t.after \in {"create", "dying"} /\ t.upage \in Int /\ t.i \in Nat \ {0}
    /\ t.pc \in Loading \cup {"none"} => t.after = "create"
    /\ t.pc = "user" => t.after = "dying"
    /\ t.after = "create" /\ t.pc # "done" => t.success = FALSE
    /\ t.pc = "done" /\ t.pml4 = NONE => t.success = FALSE
    /\ t.pc \in Mapped \cup {"activate", "user"} => t.pml4 # NONE
    /\ t.pc = "create" => t.pml4 = NONE
    /\ t.old # NONE <=> t.pc \in {"base", "destroy"}
    /\ t.old # NONE => t.pml4 = NONE
    /\ t.pc \notin {"none", "dead"} => t.prog \in Programs
    /\ {t.arg, t.stack} \subseteq Nat \cup {NONE}
    /\ t.pc \notin {"none", "named", "dead"} => t.stack # NONE
    /\ t.pc \in Loading \/ (t.pc \in Cleanup /\ t.after = "create") => t.arg # NONE

\* What cr3 is while process t runs.
Cpu(t, table) ==
    /\ t.pc \notin {"none", "named", "queued", "dead"}
    /\ table \in {Base, t.pml4, t.old} \ {NONE}
    /\ t.pc \in Mapped \cup {"user"} => table = t.pml4
    /\ t.pc = "done" /\ t.pml4 # NONE => table = t.pml4
    /\ t.pc = "destroy" => table = Base

\* The page tables of process p are its own.
Space(mem, c, p, t) ==
    \A pml4 \in {t.pml4, t.old} \ {NONE} :
        pml4 \in DOMAIN mem.tables /\ c[pml4].level = 3 /\ c[pml4].owner = p

\* The pages that t has of the kernel's pool are in use, and no tables.
Held(t) == {t.arg, t.stack} \ {NONE}
Apart(mem, t) ==
    /\ Held(t) \cap mem.free.kernel = {} /\ Held(t) \cap DOMAIN mem.tables = {}
    /\ t.arg = t.stack => t.arg = NONE

\* The processes: each is in order, and no page is held by two.
ProcsInv ==
    /\ th = [p \in Procs |-> th[p]]
    /\ \A p \in Procs : th[p] = [f \in Fields |-> th[p][f]] /\ PcOK(th[p]) /\ Apart(m, th[p])
    /\ \A p, q \in Procs : p # q => Held(th[p]) \cap Held(th[q]) = {}

\* The processor: cr3 and the TSS are those of the running thread.
CpuInv ==
    /\ running \in Procs \cup {Main} /\ rsp0 = running
    /\ running = Main => cr3 = Base
    /\ running # Main => Cpu(th[running], cr3)

\* Some colouring of the tables gives each process its own.
SpacesInv(c) == Shape(m, c) /\ \A p \in Procs : Space(m, c, p, th[p])

SpaceInv == ProcsInv /\ CpuInv /\ \E c : SpacesInv(c)

----------------------------------------------------------------------------

\* The inductive invariant implies the property.
LEMMA InvIsLive == SpaceInv => SpaceLive
<1>. SUFFICES ASSUME SpaceInv PROVE SpaceLive
  OBVIOUS
<1>1. PICK c : SpacesInv(c)
  BY DEF SpaceInv
<1>2. CASE running = Main
  BY <1>1, <1>2 DEF SpaceInv, CpuInv, SpacesInv, Shape, SpaceLive
<1>3. CASE running # Main
  <2>. DEFINE t == th[running]
  <2>1. running \in Procs /\ Cpu(t, cr3) /\ PcOK(t) /\ Apart(m, t) /\ Space(m, c, running, t)
    BY <1>1, <1>3 DEF SpaceInv, CpuInv, ProcsInv, SpacesInv
  <2>2. cr3 \in DOMAIN m.tables
    BY <1>1, <2>1 DEF Cpu, Space, SpacesInv, Shape
  <2>3. t.stack \notin m.free.kernel \union {NONE}
    BY <2>1 DEF Cpu, PcOK, Apart, Held
  <2>. HIDE DEF t
  <2>. QED  BY <1>3, <2>1, <2>2, <2>3 DEF SpaceInv, CpuInv, Cpu, SpaceLive, t
<1>. QED  BY <1>2, <1>3

\* Only the kernel has page tables at first.
LEMMA InitSpace == Init => SpaceInv
<1>. SUFFICES ASSUME Init PROVE SpaceInv
  OBVIOUS
<1>1. PICK k \in KernelPools, u \in UserPools :
        m = [tables |-> KernelTables, free |-> [kernel |-> 1..k, user |-> 1..u]]
  BY DEF Init
<1>2. k \in Nat /\ 1..k \cap DOMAIN KernelTables = {} /\ Main \notin Procs
  BY UserProgAssumption
<1>3. PICK level \in [DOMAIN KernelTables -> 0..3] :
        /\ level[Base] = 3
        /\ \A t \in DOMAIN KernelTables : level[t] = 3 => KernelTables[t][0] = NONE
        /\ \A t \in DOMAIN KernelTables : \A i \in 0..(FAN - 1) :
            LET e == KernelTables[t][i] IN
            level[t] = 0 \/ e = NONE \/ (e \in DOMAIN KernelTables /\ level[e] = level[t] - 1)
  BY KernelTablesAssumption
<1>. DEFINE c == [t \in DOMAIN KernelTables |-> [level |-> level[t], owner |-> Main, up |-> Base]]
            F == [kernel |-> 1..k, user |-> 1..u]
<1>4. m = Mem(KernelTables, F)
  BY <1>1 DEF Mem
<1>5. m.tables = KernelTables /\ m.free = F
  <2>. HIDE DEF F
  <2>. QED  BY <1>4, MemParts
<1>6. Pools(F) /\ F.kernel = 1..k
  BY DEF Pools
<1>7. \A t \in DOMAIN KernelTables : c[t].level = level[t] /\ c[t].owner = Main
  OBVIOUS
<1>. HIDE DEF F, c
<1>8. Shape(m, c)
  <2>1. Memory(m)
    BY <1>4, <1>5, <1>6, KernelTablesAssumption DEF Memory, Tables
  <2>2. ASSUME NEW t \in DOMAIN KernelTables PROVE TableOK(m, c, t)
    BY <1>3, <1>5, <1>7, KernelTablesAssumption DEF TableOK, EntryOK
  <2>. QED  BY <1>2, <1>3, <1>5, <1>6, <1>7, <2>1, <2>2, KernelTablesAssumption DEF Shape
<1>9. th = [p \in Procs |-> Dead] /\ running = Main /\ cr3 = Base /\ rsp0 = Main
  BY DEF Init
<1>10. Dead = [f \in Fields |-> Dead[f]]
  BY DEF Dead, Fields
<1>11. PcOK(Dead) /\ Held(Dead) = {} /\ Apart(m, Dead) /\ \A p \in Procs : Space(m, c, p, Dead)
  BY DEF Dead, PcOK, Held, Apart, Space, Loading, Mapped, Cleanup
<1>. QED  BY <1>2, <1>8, <1>9, <1>10, <1>11 DEF SpaceInv, ProcsInv, CpuInv, SpacesInv

\* What a step does not change stays a process's.
LEMMA ExtendsKeeps ==
  ASSUME NEW mem, NEW c, NEW w, NEW d, Extends(mem, c, w, d), NEW p, NEW t, Space(mem, c, p, t)
  PROVE  Space(w, d, p, t) /\ (Apart(mem, t) => Apart(w, t))
  BY DEF Extends, Space, Apart

\* A step of process p, and of no other, is one that keeps the others' pages.
LEMMA ProcessStep ==
  ASSUME SpaceInv, NEW p \in Procs, NEW t, th' = [th EXCEPT ![p] = t], t = [f \in Fields |-> t[f]], PcOK(t),
         NEW d, Shape(m', d), Space(m', d, p, t), Apart(m', t),
         \A q \in Procs \ {p} : Space(m', d, q, th[q]) /\ Apart(m', th[q]) /\ Held(t) \cap Held(th[q]) = {},
         CpuInv'
  PROVE  SpaceInv'
<1>1. th'[p] = t /\ (\A q \in Procs \ {p} : th'[q] = th[q]) /\ th' = [q \in Procs |-> th'[q]]
  BY DEF SpaceInv, ProcsInv
<1>2. ProcsInv'
  <2>1. ASSUME NEW q \in Procs
        PROVE  th'[q] = [f \in Fields |-> th'[q][f]] /\ PcOK(th'[q]) /\ Apart(m', th'[q])
    BY <1>1 DEF SpaceInv, ProcsInv
  <2>2. \A q, r \in Procs : q # r => Held(th'[q]) \cap Held(th'[r]) = {}
    BY <1>1 DEF SpaceInv, ProcsInv
  <2>. QED  BY <1>1, <2>1, <2>2 DEF ProcsInv
<1>3. SpacesInv(d)'
  BY <1>1 DEF SpacesInv
<1>. QED  BY <1>2, <1>3 DEF SpaceInv

\* One that takes pages at most: what p gets comes from the free ones.
LEMMA TakingStep ==
  ASSUME SpaceInv, NEW c, SpacesInv(c), NEW p \in Procs, NEW t, th' = [th EXCEPT ![p] = t],
         t = [f \in Fields |-> t[f]], PcOK(t), NEW d, Extends(m, c, m', d),
         Space(m', d, p, t), Apart(m', t), Held(t) \subseteq Held(th[p]) \cup m.free.kernel, CpuInv'
  PROVE  SpaceInv'
<1>1. ASSUME NEW q \in Procs \ {p}
      PROVE  Space(m', d, q, th[q]) /\ Apart(m', th[q]) /\ Held(t) \cap Held(th[q]) = {}
  <2>1. Space(m, c, q, th[q]) /\ Apart(m, th[q]) /\ Held(th[p]) \cap Held(th[q]) = {}
    BY DEF SpaceInv, ProcsInv, SpacesInv
  <2>2. Held(th[q]) \cap m.free.kernel = {}
    BY <2>1 DEF Apart
  <2>. QED  BY <2>1, <2>2, ExtendsKeeps
<1>2. Shape(m', d)
  BY DEF Extends
<1>. QED  BY <1>1, <1>2, ProcessStep

\* One that leaves the pages that p has and its page tables alone.
LEMMA PlainStep ==
  ASSUME SpaceInv, NEW c, SpacesInv(c), NEW p \in Procs, NEW t, th' = [th EXCEPT ![p] = t],
         t = [f \in Fields |-> t[f]], PcOK(t), \E d : Extends(m, c, m', d),
         {t.pml4, t.old} \subseteq {th[p].pml4, th[p].old, NONE}, t.arg = th[p].arg, t.stack = th[p].stack, CpuInv'
  PROVE  SpaceInv'
<1>1. PICK d : Extends(m, c, m', d)
  OBVIOUS
<1>2. Space(m, c, p, th[p]) /\ Apart(m, th[p])
  BY DEF SpaceInv, ProcsInv, SpacesInv
<1>3. Space(m', d, p, th[p]) /\ Apart(m', th[p])
  BY <1>1, <1>2, ExtendsKeeps
<1>4. Space(m', d, p, t) /\ Apart(m', t) /\ Held(t) = Held(th[p])
  BY <1>3 DEF Space, Apart, Held
<1>. QED  BY <1>1, <1>4, TakingStep

\* What every step of a process may use.
Before(c, p) ==
    /\ SpaceInv /\ SpacesInv(c) /\ p \in Procs /\ th[p] = [f \in Fields |-> th[p][f]]
    /\ PcOK(th[p]) /\ Apart(m, th[p]) /\ Space(m, c, p, th[p])

\* Every step finds them.
LEMMA BeforeStep ==
  ASSUME SpaceInv, NEW p \in Procs
  PROVE  \E c : Before(c, p)
  BY DEF SpaceInv, ProcsInv, SpacesInv, Before

\* A step of the process that runs, in its space.
LEMMA OwnStep ==
  ASSUME NEW c, NEW p, Before(c, p), NEW t, th' = [th EXCEPT ![p] = t], t = [f \in Fields |-> t[f]], PcOK(t),
         \E d : Extends(m, c, m', d), {t.pml4, t.old} \subseteq {th[p].pml4, th[p].old, NONE},
         t.arg = th[p].arg, t.stack = th[p].stack,
         running = p, running' = running, rsp0' = running, Cpu(t, cr3')
  PROVE  SpaceInv'
<1>1. th'[p] = t /\ p # Main
  BY UserProgAssumption DEF Before, SpaceInv, ProcsInv
<1>2. CpuInv'
  BY <1>1 DEF CpuInv, Before
<1>. QED  BY <1>2, PlainStep DEF Before

\* A step that leaves the memory alone.
LEMMA SameMemoryExtends ==
  ASSUME NEW c, SpacesInv(c), m' = m
  PROVE  \E d : Extends(m, c, m', d)
  BY ExtendsItself DEF SpacesInv

\* What cr3 is when p takes a step.
LEMMA RunsInSpace ==
  ASSUME NEW c, NEW p, Before(c, p), running = p
  PROVE  Cpu(th[p], cr3)
  BY UserProgAssumption DEF Before, SpaceInv, CpuInv

USE DEF Fields, Dead

\* A step of load() in the space of the process, which keeps what the process has.
LEMMA LoadStep ==
  ASSUME NEW c, NEW p, Before(c, p), running = p, th[p].pc \in Mapped,
         NEW t, th' = [th EXCEPT ![p] = t], t = [f \in Fields |-> t[f]],
         \A f \in {"pml4", "old", "arg", "stack", "after", "prog"} : t[f] = th[p][f],
         t.upage \in Int, t.i \in Nat \ {0}, t.pc \in Mapped \cup {"done"},
         t.pc # "done" => t.success = th[p].success,
         \E d : Extends(m, c, m', d), SameCpu
  PROVE  SpaceInv'
<1>1. /\ t.pml4 = th[p].pml4 /\ t.old = th[p].old /\ t.arg = th[p].arg /\ t.stack = th[p].stack
      /\ t.after = th[p].after /\ t.prog = th[p].prog
  OBVIOUS
<1>2. PcOK(t)
  BY <1>1 DEF Before, PcOK, Mapped, Loading, Cleanup
<1>3. Cpu(t, cr3')
  BY <1>1, RunsInSpace DEF Cpu, Mapped, SameCpu
<1>4. running' = running /\ rsp0' = running
  BY DEF Before, SpaceInv, CpuInv, SameCpu
<1>. QED  BY <1>1, <1>2, <1>3, <1>4, OwnStep

\* One that only goes to step pc.
LEMMA GoStep ==
  ASSUME NEW c, NEW p, Before(c, p), running = p, NEW pc, Goes(p, pc), m' = m, running' = running, rsp0' = running,
         LET t == [th[p] EXCEPT !.pc = pc] IN PcOK(t) /\ Cpu(t, cr3')
  PROVE  SpaceInv'
<1>. DEFINE t == [th[p] EXCEPT !.pc = pc]
<1>1. /\ t = [f \in Fields |-> t[f]]
      /\ t.pml4 = th[p].pml4 /\ t.old = th[p].old /\ t.arg = th[p].arg /\ t.stack = th[p].stack
  BY DEF Before
<1>2. th' = [th EXCEPT ![p] = t] /\ PcOK(t) /\ Cpu(t, cr3')
  BY DEF Goes, Becomes
<1>3. \E d : Extends(m, c, m', d)
  BY SameMemoryExtends DEF Before
<1>. HIDE DEF t
<1>. QED  BY <1>1, <1>2, <1>3, OwnStep

\* What a process has after it goes to step pc.
LEMMA Gone ==
  ASSUME NEW c, NEW p, Before(c, p), NEW pc
  PROVE  LET t == [th[p] EXCEPT !.pc = pc] IN
         /\ t.pc = pc /\ t.pml4 = th[p].pml4 /\ t.old = th[p].old /\ t.arg = th[p].arg /\ t.stack = th[p].stack
         /\ t.after = th[p].after /\ t.prog = th[p].prog /\ t.upage = th[p].upage /\ t.i = th[p].i
         /\ t.success = th[p].success
  BY DEF Before

----------------------------------------------------------------------------

\* The steps of a process, one by one; first those of load() that take no page.
LEMMA OpenFileStep == ASSUME SpaceInv, NEW p \in Procs, OpenFile(p) PROVE SpaceInv'
<1>. DEFINE t == [th[p] EXCEPT !.pc = IF th[p].prog.valid THEN "phdr" ELSE "done", !.file = th[p].prog.exists]
<1>1. PICK c : Before(c, p)
  BY BeforeStep
<1>2. th' = [th EXCEPT ![p] = t] /\ running = p /\ th[p].pc = "open" /\ m' = m /\ SameCpu
  BY DEF OpenFile, At, Becomes, SameMemory
<1>3. t = [f \in Fields |-> t[f]] /\ t.pc \in {"phdr", "done"} /\ \A f \in Fields \ {"pc", "file"} : t[f] = th[p][f]
  BY <1>1 DEF Before
<1>4. t.upage \in Int /\ t.i \in Nat \ {0} /\ t.success = th[p].success
  BY <1>1, <1>3 DEF Before, PcOK
<1>5. \E d : Extends(m, c, m', d)
  BY <1>1, <1>2, SameMemoryExtends DEF Before
<1>. HIDE DEF t
<1>. QED  BY <1>1, <1>2, <1>3, <1>4, <1>5, LoadStep DEF Mapped

\* process_activate() in load(): cr3 becomes the new PML4.
LEMMA ActivateStep == ASSUME SpaceInv, NEW p \in Procs, Activate(p) PROVE SpaceInv'
<1>1. PICK c : Before(c, p)
  BY BeforeStep
<1>2. /\ Goes(p, "open") /\ running = p /\ th[p].pc = "activate" /\ m' = m /\ cr3' = th[p].pml4
      /\ running' = running /\ rsp0' = running
  BY DEF Activate, At, SameMemory
<1>. DEFINE t == [th[p] EXCEPT !.pc = "open"]
<1>3. /\ t.pc = "open" /\ t.pml4 = th[p].pml4 /\ t.old = th[p].old /\ t.arg = th[p].arg /\ t.stack = th[p].stack
      /\ t.after = th[p].after /\ t.prog = th[p].prog /\ t.upage = th[p].upage /\ t.i = th[p].i
      /\ t.success = th[p].success
  BY <1>1, Gone
<1>. HIDE DEF t
<1>4. PcOK(t) /\ Cpu(t, cr3')
  BY <1>1, <1>2, <1>3 DEF Before, PcOK, Cpu, Mapped, Loading, Cleanup
<1>. QED  BY <1>1, <1>2, <1>4, GoStep DEF t

\* A page fault or a system call ends the process.
LEMMA ExitStep ==
  ASSUME SpaceInv, NEW p \in Procs, At(p, "user"), Goes(p, "clear"), SameCpu, SameMemory
  PROVE  SpaceInv'
<1>1. PICK c : Before(c, p)
  BY BeforeStep
<1>2. /\ Goes(p, "clear") /\ running = p /\ th[p].pc = "user" /\ m' = m /\ cr3' = cr3
      /\ running' = running /\ rsp0' = running
  BY DEF At, SameCpu, SameMemory, SpaceInv, CpuInv
<1>. DEFINE t == [th[p] EXCEPT !.pc = "clear"]
<1>3. /\ t.pc = "clear" /\ t.pml4 = th[p].pml4 /\ t.old = th[p].old /\ t.arg = th[p].arg /\ t.stack = th[p].stack
      /\ t.after = th[p].after /\ t.prog = th[p].prog /\ t.upage = th[p].upage /\ t.i = th[p].i
      /\ t.success = th[p].success
  BY <1>1, Gone
<1>. HIDE DEF t
<1>4. PcOK(t)
  BY <1>1, <1>2, <1>3 DEF Before, PcOK, Mapped, Loading, Cleanup
<1>5. Cpu(t, cr3')
  BY <1>1, <1>2, <1>3, RunsInSpace DEF Cpu, Mapped
<1>. QED  BY <1>1, <1>2, <1>4, <1>5, GoStep DEF t

\* process_cleanup() leaves the tables before it destroys them ...
LEMMA ActivateBaseStep == ASSUME SpaceInv, NEW p \in Procs, ActivateBase(p) PROVE SpaceInv'
<1>1. PICK c : Before(c, p)
  BY BeforeStep
<1>2. /\ Goes(p, "destroy") /\ running = p /\ th[p].pc = "base" /\ m' = m /\ cr3' = Base
      /\ running' = running /\ rsp0' = running
  BY DEF ActivateBase, At, SameMemory, SpaceInv, CpuInv
<1>. DEFINE t == [th[p] EXCEPT !.pc = "destroy"]
<1>3. /\ t.pc = "destroy" /\ t.pml4 = th[p].pml4 /\ t.old = th[p].old /\ t.arg = th[p].arg /\ t.stack = th[p].stack
      /\ t.after = th[p].after /\ t.prog = th[p].prog /\ t.upage = th[p].upage /\ t.i = th[p].i
      /\ t.success = th[p].success
  BY <1>1, Gone
<1>. HIDE DEF t
<1>4. PcOK(t)
  BY <1>1, <1>2, <1>3 DEF Before, PcOK, Mapped, Loading, Cleanup
<1>5. Base # NONE
  BY UserProgAssumption DEF Base
<1>6. Cpu(t, cr3')
  BY <1>2, <1>3, <1>5 DEF Cpu, Mapped
<1>. QED  BY <1>1, <1>2, <1>4, <1>6, GoStep DEF t

\* ... after it took them from the thread, so no switch goes back to them.
LEMMA ClearStep == ASSUME SpaceInv, NEW p \in Procs, Clear(p) PROVE SpaceInv'
<1>1. PICK c : Before(c, p)
  BY BeforeStep
<1>2. /\ running = p /\ th[p].pc = "clear" /\ m' = m /\ cr3' = cr3 /\ running' = running /\ rsp0' = running
  BY DEF Clear, At, SameCpu, SameMemory, SpaceInv, CpuInv
<1>3. Cpu(th[p], cr3) /\ PcOK(th[p])
  BY <1>1, <1>2, RunsInSpace DEF Before
<1>4. CASE th[p].pml4 = NONE
  <2>. DEFINE t == [th[p] EXCEPT !.pc = th[p].after]
  <2>1. Goes(p, th[p].after)
    BY <1>4 DEF Clear
  <2>2. /\ t.pc = th[p].after /\ t.pml4 = th[p].pml4 /\ t.old = th[p].old /\ t.arg = th[p].arg /\ t.stack = th[p].stack
        /\ t.after = th[p].after /\ t.prog = th[p].prog /\ t.upage = th[p].upage /\ t.i = th[p].i
        /\ t.success = th[p].success
    BY <1>1, Gone
  <2>. HIDE DEF t
  <2>3. PcOK(t)
    BY <1>2, <1>3, <1>4, <2>2 DEF PcOK, Mapped, Loading, Cleanup
  <2>4. Cpu(t, cr3')
    BY <1>2, <1>3, <1>4, <2>2 DEF Cpu, PcOK, Mapped
  <2>. QED  BY <1>1, <1>2, <2>1, <2>3, <2>4, GoStep DEF t
<1>5. CASE th[p].pml4 # NONE
  <2>. DEFINE t == [th[p] EXCEPT !.pc = "base", !.old = th[p].pml4, !.pml4 = NONE]
  <2>1. th' = [th EXCEPT ![p] = t]
    BY <1>5 DEF Clear, Becomes
  <2>2. /\ t = [f \in Fields |-> t[f]] /\ t.pc = "base" /\ t.old = th[p].pml4 /\ t.pml4 = NONE
        /\ t.arg = th[p].arg /\ t.stack = th[p].stack /\ t.after = th[p].after /\ t.prog = th[p].prog
        /\ t.upage = th[p].upage /\ t.i = th[p].i /\ t.success = th[p].success
    BY <1>1 DEF Before
  <2>. HIDE DEF t
  <2>3. PcOK(t)
    BY <1>2, <1>3, <1>5, <2>2 DEF PcOK, Mapped, Loading, Cleanup
  <2>4. Cpu(t, cr3')
    BY <1>2, <1>3, <1>5, <2>2 DEF Cpu, PcOK, Mapped
  <2>5. \E d : Extends(m, c, m', d)
    BY <1>1, <1>2, SameMemoryExtends DEF Before
  <2>. QED  BY <1>1, <1>2, <2>1, <2>2, <2>3, <2>4, <2>5, OwnStep
<1>. QED  BY <1>4, <1>5

\* The first page of a segment is an address.
LEMMA SegmentAddress ==
  ASSUME NEW prog \in Programs, NEW i \in 1..Len(prog.phdrs), prog.phdrs[i].type = "PT_LOAD"
  PROVE  RoundDown(prog.phdrs[i].vaddr) \in Int
<1>1. prog.phdrs \in Seq(Phdrs)
  BY UserProgAssumption
<1>2. prog.phdrs[i] \in Phdrs
  BY <1>1
<1>3. prog.phdrs[i].vaddr \in Nat
  BY <1>2 DEF Phdrs
<1>. QED  BY <1>3, PageTableAssumption DEF RoundDown

\* A program header: ignored, refused, or a segment to load.
LEMMA ReadPhdrStep == ASSUME SpaceInv, NEW p \in Procs, ReadPhdr(p) PROVE SpaceInv'
<1>. DEFINE i == th[p].i
            phdrs == th[p].prog.phdrs
            h == phdrs[i]
            skips == [th[p] EXCEPT !.i = i + 1]
            loads == [th[p] EXCEPT !.pc = "segment", !.i = i + 1, !.rw = h.rw, !.upage = RoundDown(h.vaddr),
                                   !.pos = RoundDown(h.offset), !.read = ReadBytes(h), !.zero = ZeroBytes(h)]
<1>1. PICK c : Before(c, p)
  BY BeforeStep
<1>2. running = p /\ th[p].pc = "phdr" /\ m' = m /\ SameCpu
  BY DEF ReadPhdr, At, SameMemory
<1>3. i \in Nat \ {0} /\ th[p].upage \in Int /\ th[p].prog \in Programs
  BY <1>1, <1>2 DEF Before, PcOK
<1>4. \E d : Extends(m, c, m', d)
  BY <1>1, <1>2, SameMemoryExtends DEF Before
<1>5. \/ Goes(p, "stack") \/ Goes(p, "done") \/ Becomes(p, skips)
      \/ Becomes(p, loads) /\ i <= Len(phdrs) /\ h.type = "PT_LOAD"
  BY DEF ReadPhdr
<1>6. CASE Goes(p, "stack") \/ Goes(p, "done")
  <2>1. PICK pc \in {"stack", "done"} : Goes(p, pc)
    BY <1>6
  <2>. DEFINE t == [th[p] EXCEPT !.pc = pc]
  <2>2. th' = [th EXCEPT ![p] = t]
    BY <2>1 DEF Goes, Becomes
  <2>3. t = [f \in Fields |-> t[f]] /\ t.pc = pc /\ \A f \in Fields \ {"pc"} : t[f] = th[p][f]
    BY <1>1 DEF Before
  <2>4. t.upage \in Int /\ t.i \in Nat \ {0} /\ t.success = th[p].success
    BY <1>3, <2>3
  <2>. HIDE DEF t
  <2>. QED  BY <1>1, <1>2, <1>4, <2>2, <2>3, <2>4, LoadStep DEF Mapped
<1>7. CASE Becomes(p, skips)
  <2>1. th' = [th EXCEPT ![p] = skips]
    BY <1>7 DEF Becomes
  <2>2. skips = [f \in Fields |-> skips[f]] /\ skips.i = i + 1 /\ \A f \in Fields \ {"i"} : skips[f] = th[p][f]
    BY <1>1 DEF Before
  <2>3. skips.upage \in Int /\ skips.i \in Nat \ {0} /\ skips.success = th[p].success /\ skips.pc = "phdr"
    BY <1>2, <1>3, <2>2
  <2>. HIDE DEF skips
  <2>. QED  BY <1>1, <1>2, <1>4, <2>1, <2>2, <2>3, LoadStep DEF Mapped
<1>8. CASE Becomes(p, loads) /\ i <= Len(phdrs) /\ h.type = "PT_LOAD"
  <2>1. th' = [th EXCEPT ![p] = loads]
    BY <1>8 DEF Becomes
  <2>2. /\ loads = [f \in Fields |-> loads[f]] /\ loads.pc = "segment" /\ loads.i = i + 1
        /\ loads.upage = RoundDown(h.vaddr)
        /\ \A f \in Fields \ {"pc", "i", "rw", "upage", "pos", "read", "zero"} : loads[f] = th[p][f]
    <3>1. th[p] = [f \in Fields |-> th[p][f]]
      BY <1>1 DEF Before
    <3>. HIDE DEF i, h
    <3>. QED  BY ONLY <3>1
  <2>3. phdrs \in Seq(Phdrs)
    BY <1>3, UserProgAssumption
  <2>4. i \in 1..Len(phdrs)
    BY <1>3, <1>8, <2>3
  <2>5. RoundDown(h.vaddr) \in Int
    <3>1. h.type = "PT_LOAD" /\ th[p].prog \in Programs
      BY <1>3, <1>8
    <3>. HIDE DEF loads, i
    <3>. QED  BY <2>4, <3>1, SegmentAddress
  <2>. HIDE DEF loads, i
  <2>6. loads.upage \in Int /\ loads.i \in Nat \ {0} /\ loads.success = th[p].success
    BY <1>3, <2>2, <2>5
  <2>. QED  BY <1>1, <1>2, <1>4, <2>1, <2>2, <2>6, LoadStep DEF Mapped
<1>. QED  BY <1>5, <1>6, <1>7, <1>8

\* A page of the user pool for a segment or the stack.
LEMMA GetPageStep == ASSUME SpaceInv, NEW p \in Procs, GetPage(p) \/ GetStack(p) PROVE SpaceInv'
<1>. DEFINE x == Alloc(m, "user")
<1>1. PICK c : Before(c, p)
  BY BeforeStep
<1>2. running = p /\ th[p].pc \in {"segment", "stack"} /\ SameCpu
  BY DEF GetPage, GetStack, At
<1>3. th[p].i \in Nat \ {0} /\ th[p].upage \in Int
  BY <1>1 DEF Before, PcOK
<1>4. \/ m' = m /\ \E pc \in {"phdr", "done"} : Goes(p, pc)
      \/ m' = Taken(m, "user", x) /\ \E pc \in {"read", "mapstack"} : Becomes(p, [th[p] EXCEPT !.pc = pc, !.kpage = x])
  BY DEF GetPage, GetStack, SameMemory
<1>5. CASE m' = m /\ \E pc \in {"phdr", "done"} : Goes(p, pc)
  <2>1. PICK pc \in {"phdr", "done"} : Goes(p, pc)
    BY <1>5
  <2>. DEFINE t == [th[p] EXCEPT !.pc = pc]
  <2>2. th' = [th EXCEPT ![p] = t]
    BY <2>1 DEF Goes, Becomes
  <2>3. t = [f \in Fields |-> t[f]] /\ t.pc = pc /\ \A f \in Fields \ {"pc"} : t[f] = th[p][f]
    BY <1>1 DEF Before
  <2>4. t.upage \in Int /\ t.i \in Nat \ {0} /\ t.success = th[p].success
    BY <1>3, <2>3
  <2>5. \E d : Extends(m, c, m', d)
    BY <1>1, <1>5, SameMemoryExtends DEF Before
  <2>. HIDE DEF t
  <2>. QED  BY <1>1, <1>2, <2>2, <2>3, <2>4, <2>5, LoadStep DEF Mapped
<1>6. CASE m' = Taken(m, "user", x) /\ \E pc \in {"read", "mapstack"} : Becomes(p, [th[p] EXCEPT !.pc = pc, !.kpage = x])
  <2>1. PICK pc \in {"read", "mapstack"} : Becomes(p, [th[p] EXCEPT !.pc = pc, !.kpage = x])
    BY <1>6
  <2>. HIDE DEF x
  <2>. DEFINE t == [th[p] EXCEPT !.pc = pc, !.kpage = x]
  <2>2. th' = [th EXCEPT ![p] = t]
    BY <2>1 DEF Becomes
  <2>3. t = [f \in Fields |-> t[f]] /\ t.pc = pc /\ \A f \in Fields \ {"pc", "kpage"} : t[f] = th[p][f]
    BY <1>1 DEF Before
  <2>4. t.upage \in Int /\ t.i \in Nat \ {0} /\ t.success = th[p].success
    BY <1>3, <2>3
  <2>5. \E d : Extends(m, c, m', d)
    BY <1>1, <1>6, TakenExtends DEF Before, SpacesInv
  <2>. HIDE DEF t
  <2>. QED  BY <1>1, <1>2, <2>2, <2>3, <2>4, <2>5, LoadStep DEF Mapped
<1>. QED  BY <1>4, <1>5, <1>6

\* The bytes of the page, or a short read that ends the load.
LEMMA ReadPageStep == ASSUME SpaceInv, NEW p \in Procs, ReadPage(p) PROVE SpaceInv'
<1>1. PICK c : Before(c, p)
  BY BeforeStep
<1>2. running = p /\ th[p].pc = "read" /\ SameCpu
  BY DEF ReadPage, At
<1>3. th[p].i \in Nat \ {0} /\ th[p].upage \in Int
  BY <1>1 DEF Before, PcOK
<1>. DEFINE fails == [th[p] EXCEPT !.pc = "done", !.kpage = NONE]
            reads(pos) == [th[p] EXCEPT !.pc = "install", !.pos = pos]
<1>4. \/ m' = Given(m, "user", th[p].kpage) /\ Becomes(p, fails)
      \/ m' = m /\ \E pos : Becomes(p, reads(pos))
  BY DEF ReadPage
<1>5. CASE m' = Given(m, "user", th[p].kpage) /\ Becomes(p, fails)
  <2>1. th' = [th EXCEPT ![p] = fails]
    BY <1>5 DEF Becomes
  <2>2. /\ fails = [f \in Fields |-> fails[f]] /\ fails.pc = "done"
        /\ \A f \in Fields \ {"pc", "kpage"} : fails[f] = th[p][f]
    BY <1>1 DEF Before
  <2>3. fails.upage \in Int /\ fails.i \in Nat \ {0}
    BY <1>3, <2>2
  <2>4. \E d : Extends(m, c, m', d)
    BY <1>1, <1>5, GivenUserExtends DEF Before, SpacesInv
  <2>. HIDE DEF fails
  <2>. QED  BY <1>1, <1>2, <2>1, <2>2, <2>3, <2>4, LoadStep DEF Mapped
<1>6. ASSUME m' = m, NEW pos, Becomes(p, reads(pos)) PROVE SpaceInv'
  <2>. DEFINE t == reads(pos)
  <2>1. th' = [th EXCEPT ![p] = t]
    BY <1>6 DEF Becomes
  <2>2. t = [f \in Fields |-> t[f]] /\ t.pc = "install" /\ \A f \in Fields \ {"pc", "pos"} : t[f] = th[p][f]
    BY <1>1 DEF Before
  <2>3. t.upage \in Int /\ t.i \in Nat \ {0} /\ t.success = th[p].success
    BY <1>3, <2>2
  <2>4. \E d : Extends(m, c, m', d)
    BY <1>1, <1>6, SameMemoryExtends DEF Before
  <2>. HIDE DEF t
  <2>. QED  BY <1>1, <1>2, <2>1, <2>2, <2>3, <2>4, LoadStep DEF Mapped
<1>. QED  BY <1>4, <1>5, <1>6

\* install_page() extends the forest, whether it maps the page or not.
LEMMA InstallExtends ==
  ASSUME NEW c, NEW p, Before(c, p), th[p].pml4 # NONE, NEW va \in Int, NEW rw
  PROVE  \E d : Extends(m, c, Install(p, va, rw).m, d)
<1>. DEFINE w == Install(p, va, rw)
<1>1. Shape(m, c) /\ p # Main
  BY UserProgAssumption DEF Before, SpacesInv
<1>2. th[p].pml4 \in DOMAIN m.tables /\ c[th[p].pml4].level = 3 /\ c[th[p].pml4].owner = p
  BY DEF Before, Space
<1>3. CASE w = [m |-> m, ok |-> FALSE]
  <2>. HIDE DEF w
  <2>1. w.m = m
    BY <1>3
  <2>. QED  BY <1>1, <2>1, ExtendsItself DEF w
<1>4. CASE w = Pml4SetPage(m, th[p].pml4, va, th[p].kpage, rw)
  <2>1. \E d : Extends(m, c, Pml4SetPage(m, th[p].pml4, va, th[p].kpage, rw).m, d)
    BY <1>1, <1>2, SetPageExtends
  <2>. HIDE DEF w
  <2>. QED  BY <1>4, <2>1 DEF w
<1>. QED  BY <1>3, <1>4 DEF Install

\* The mapping of a page of a segment or of the stack.
LEMMA MapPageStep == ASSUME SpaceInv, NEW p \in Procs, MapPage(p) \/ MapStack(p) PROVE SpaceInv'
<1>1. PICK c : Before(c, p)
  BY BeforeStep
<1>2. running = p /\ th[p].pc \in {"install", "mapstack"} /\ SameCpu
  BY DEF MapPage, MapStack, At
<1>3. th[p].i \in Nat \ {0} /\ th[p].upage \in Int /\ th[p].pml4 # NONE /\ PGSIZE \in Int /\ USER_STACK \in Int
  BY <1>1, <1>2, PageTableAssumption, UserProgAssumption DEF Before, PcOK, Mapped
<1>4. PICK va, rw :
        /\ va \in Int
        /\ LET w == Install(p, va, rw) IN m' = w.m \/ m' = Given(w.m, "user", th[p].kpage)
        /\ \/ \E read, zero : Becomes(p, [th[p] EXCEPT !.pc = "segment", !.kpage = NONE, !.upage = @ + PGSIZE,
                                                      !.read = read, !.zero = zero])
           \/ \E success : Becomes(p, [th[p] EXCEPT !.pc = "done", !.kpage = NONE, !.success = success])
           \/ Becomes(p, [th[p] EXCEPT !.pc = "done", !.kpage = NONE])
  <2>1. CASE MapPage(p)
    <3>. DEFINE w == Install(p, th[p].upage, th[p].rw)
    <3>1. \/ m' = w.m /\ Becomes(p, [th[p] EXCEPT !.pc = "segment", !.kpage = NONE, !.upage = th[p].upage + PGSIZE,
                                      !.read = th[p].read - PageReadBytes(th[p]),
                                      !.zero = (th[p].zero + U32 - (PGSIZE - PageReadBytes(th[p]))) % U32])
          \/ m' = Given(w.m, "user", th[p].kpage) /\ Becomes(p, [th[p] EXCEPT !.pc = "done", !.kpage = NONE])
      BY <2>1 DEF MapPage
    <3>. HIDE DEF w
    <3>2. (m' = w.m \/ m' = Given(w.m, "user", th[p].kpage))
          /\ (\/ \E read, zero : Becomes(p, [th[p] EXCEPT !.pc = "segment", !.kpage = NONE, !.upage = @ + PGSIZE,
                                                      !.read = read, !.zero = zero])
             \/ Becomes(p, [th[p] EXCEPT !.pc = "done", !.kpage = NONE]))
      BY <3>1
    <3>. QED  BY <1>3, <3>2 DEF w
  <2>2. CASE MapStack(p)
    <3>. DEFINE va == USER_STACK - PGSIZE
                w == Install(p, va, TRUE)
    <3>1. /\ m' = w.m \/ m' = Given(w.m, "user", th[p].kpage)
          /\ \E success : Becomes(p, [th[p] EXCEPT !.pc = "done", !.kpage = NONE, !.success = success])
      BY <2>2 DEF MapStack
    <3>2. va \in Int
      BY <1>3
    <3>. HIDE DEF va
    <3>. QED  BY <3>1, <3>2
  <2>. QED  BY <2>1, <2>2
<1>. DEFINE w == Install(p, va, rw)
<1>5. \E d : Extends(m, c, m', d)
  <2>. va \in Int
    BY <1>4
  <2>1. PICK d : Extends(m, c, w.m, d)
    BY <1>1, <1>3, InstallExtends
  <2>3. m' = w.m \/ m' = Given(w.m, "user", th[p].kpage)
    BY <1>4
  <2>. HIDE DEF w
  <2>2. Extends(w.m, d, Given(w.m, "user", th[p].kpage), d)
    BY <2>1, GivenUserExtends DEF Extends
  <2>4. Extends(m, c, Given(w.m, "user", th[p].kpage), d)
    BY <2>1, <2>2, ExtendsAll
  <2>. QED  BY <2>1, <2>3, <2>4
<1>. DEFINE Moved(t) ==
        /\ th' = [th EXCEPT ![p] = t] /\ t = [f \in Fields |-> t[f]]
        /\ \A f \in {"pml4", "old", "arg", "stack", "after", "prog"} : t[f] = th[p][f]
        /\ t.upage \in Int /\ t.i \in Nat \ {0} /\ t.pc \in Mapped \cup {"done"}
        /\ t.pc # "done" => t.success = th[p].success
<1>6. PICK t : Moved(t)
  <2>1. ASSUME NEW read, NEW zero,
               Becomes(p, [th[p] EXCEPT !.pc = "segment", !.kpage = NONE, !.upage = @ + PGSIZE, !.read = read, !.zero = zero])
        PROVE  \E t : Moved(t)
    <3>. DEFINE u == [th[p] EXCEPT !.pc = "segment", !.kpage = NONE, !.upage = @ + PGSIZE, !.read = read, !.zero = zero]
    <3>1. /\ th' = [th EXCEPT ![p] = u] /\ u = [f \in Fields |-> u[f]]
          /\ u.pc = "segment" /\ u.upage = th[p].upage + PGSIZE
          /\ \A f \in Fields \ {"pc", "kpage", "upage", "read", "zero"} : u[f] = th[p][f]
      BY <1>1, <2>1 DEF Before, Becomes
    <3>. HIDE DEF u
    <3>2. /\ \A f \in {"pml4", "old", "arg", "stack", "after", "prog"} : u[f] = th[p][f]
          /\ u.i = th[p].i /\ u.success = th[p].success
      BY <3>1
    <3>3. u.upage \in Int /\ u.i \in Nat \ {0} /\ u.pc \in Mapped
      BY <1>3, <3>1, <3>2 DEF Mapped
    <3>4. Moved(u)
      BY <3>1, <3>2, <3>3
    <3>. HIDE DEF Moved
    <3>. QED  BY <3>4
  <2>2. ASSUME NEW success, Becomes(p, [th[p] EXCEPT !.pc = "done", !.kpage = NONE, !.success = success])
        PROVE  \E t : Moved(t)
    <3>. DEFINE u == [th[p] EXCEPT !.pc = "done", !.kpage = NONE, !.success = success]
    <3>1. /\ th' = [th EXCEPT ![p] = u] /\ u = [f \in Fields |-> u[f]] /\ u.pc = "done"
          /\ \A f \in Fields \ {"pc", "kpage", "success"} : u[f] = th[p][f]
      BY <1>1, <2>2 DEF Before, Becomes
    <3>. HIDE DEF u
    <3>2. Moved(u)
      BY <1>3, <3>1 DEF Mapped
    <3>. HIDE DEF Moved
    <3>. QED  BY <3>2
  <2>3. ASSUME Becomes(p, [th[p] EXCEPT !.pc = "done", !.kpage = NONE])
        PROVE  \E t : Moved(t)
    <3>. DEFINE u == [th[p] EXCEPT !.pc = "done", !.kpage = NONE]
    <3>1. /\ th' = [th EXCEPT ![p] = u] /\ u = [f \in Fields |-> u[f]] /\ u.pc = "done"
          /\ \A f \in Fields \ {"pc", "kpage"} : u[f] = th[p][f]
      BY <1>1, <2>3 DEF Before, Becomes
    <3>. HIDE DEF u
    <3>2. Moved(u)
      BY <1>3, <3>1 DEF Mapped
    <3>. HIDE DEF Moved
    <3>. QED  BY <3>2
  <2>. HIDE DEF Moved
  <2>. QED  BY <1>4, <2>1, <2>2, <2>3
<1>. QED  BY <1>1, <1>2, <1>5, <1>6, LoadStep DEF Mapped

\* pml4_create() gives the process a PML4 of its own, or nothing.
LEMMA CreatePml4Step == ASSUME SpaceInv, NEW p \in Procs, CreatePml4(p) PROVE SpaceInv'
<1>. DEFINE r == Pml4Create(m)
            t == [th[p] EXCEPT !.pc = IF r.pml4 = NONE THEN "done" ELSE "activate", !.pml4 = r.pml4]
<1>1. PICK c : Before(c, p)
  BY BeforeStep
<1>2. /\ th' = [th EXCEPT ![p] = t] /\ running = p /\ th[p].pc = "create" /\ m' = r.m
      /\ running' = running /\ cr3' = cr3 /\ rsp0' = running
  BY DEF CreatePml4, At, Becomes, SameCpu, SpaceInv, CpuInv
<1>3. \/ r.pml4 = NONE /\ r.m = m
      \/ \E d : /\ Extends(m, c, r.m, d) /\ r.pml4 \in m.free.kernel
               /\ r.pml4 \in DOMAIN r.m.tables /\ d[r.pml4].level = 3 /\ d[r.pml4].owner = p
  BY <1>1, CreateExtends DEF Before, SpacesInv
<1>. HIDE DEF r
<1>4. /\ t = [f \in Fields |-> t[f]] /\ t.pc = (IF r.pml4 = NONE THEN "done" ELSE "activate") /\ t.pml4 = r.pml4
      /\ t.old = th[p].old /\ t.arg = th[p].arg /\ t.stack = th[p].stack
      /\ t.after = th[p].after /\ t.prog = th[p].prog /\ t.upage = th[p].upage /\ t.i = th[p].i
      /\ t.success = th[p].success
  BY <1>1 DEF Before
<1>. HIDE DEF t
<1>5. PcOK(th[p]) /\ Cpu(th[p], cr3) /\ th[p].old = NONE /\ th[p].pml4 = NONE
  BY <1>1, <1>2, RunsInSpace DEF Before, PcOK
<1>6. PcOK(t)
  BY <1>2, <1>4, <1>5 DEF PcOK, Mapped, Loading, Cleanup
<1>7. Cpu(t, cr3')
  BY <1>2, <1>4, <1>5 DEF Cpu, Mapped
<1>8. p # Main /\ p \in Procs /\ th'[p] = t
  BY <1>2, UserProgAssumption DEF SpaceInv, ProcsInv
<1>9. CpuInv'
  BY <1>2, <1>7, <1>8 DEF CpuInv
<1>10. PICK d : Extends(m, c, m', d) /\ Space(m', d, p, t)
  <2>1. CASE r.pml4 = NONE /\ r.m = m
    <3>1. Extends(m, c, m', c)
      BY <1>1, <1>2, <2>1, ExtendsItself DEF Before, SpacesInv
    <3>. QED  BY <3>1, <2>1, <1>4, <1>5 DEF Space
  <2>2. CASE ~(r.pml4 = NONE /\ r.m = m)
    BY <1>2, <1>3, <1>4, <1>5, <2>2 DEF Space
  <2>. QED  BY <2>1, <2>2
<1>11. Apart(m', t) /\ Held(t) = Held(th[p])
  <2>1. Apart(m', th[p])
    BY <1>1, <1>10, ExtendsKeeps DEF Before
  <2>. QED  BY <2>1, <1>4 DEF Apart, Held
<1>. QED  BY <1>1, <1>2, <1>4, <1>6, <1>9, <1>10, <1>11, TakingStep DEF Before

\* A step that gives back pages of the kernel pool.
LEMMA PagesGivenBack ==
  ASSUME NEW c, Shape(m, c), NEW S, S \subseteq Nat, S \cap DOMAIN m.tables = {}, m' = GivenAll(m, S)
  PROVE  Shape(m', c) /\ m'.tables = m.tables /\ m'.free.kernel = m.free.kernel \cup S
  BY GivenKernelShape

\* A step that gives back the page of the arguments.
LEMMA GiveArg ==
  ASSUME NEW c, NEW p, Before(c, p), th[p].arg # NONE, m' = Given(m, "kernel", th[p].arg),
         NEW t, th' = [th EXCEPT ![p] = t], t = [f \in Fields |-> t[f]], PcOK(t), t.arg = NONE,
         t.stack = th[p].stack, t.pml4 = th[p].pml4, t.old = th[p].old, CpuInv'
  PROVE  SpaceInv'
<1>. DEFINE S == {th[p].arg}
<1>1. S \subseteq Nat /\ S \cap DOMAIN m.tables = {} /\ Shape(m, c) /\ SpaceInv /\ p \in Procs
  BY DEF Before, PcOK, Apart, Held, SpacesInv
<1>2. m' = GivenAll(m, S)
  BY DEF Given, GivenAll
<1>3. Shape(m', c) /\ m'.tables = m.tables /\ m'.free.kernel = m.free.kernel \cup S
  <2>. HIDE DEF S
  <2>. QED  BY <1>1, <1>2, PagesGivenBack
<1>4. Space(m', c, p, t) /\ Apart(m', t)
  BY <1>3 DEF Before, Space, Apart, Held
<1>5. ASSUME NEW q \in Procs \ {p}
      PROVE  Space(m', c, q, th[q]) /\ Apart(m', th[q]) /\ Held(t) \cap Held(th[q]) = {}
  <2>1. Space(m, c, q, th[q]) /\ Apart(m, th[q]) /\ Held(th[p]) \cap Held(th[q]) = {}
    BY <1>1 DEF Before, SpaceInv, ProcsInv, SpacesInv
  <2>2. Space(m', c, q, th[q])
    BY <1>3, <2>1 DEF Space
  <2>3. th[p].arg \in Held(th[p])
    BY DEF Held
  <2>4. Apart(m', th[q])
    BY <1>3, <2>1, <2>3 DEF Apart
  <2>5. Held(t) \subseteq Held(th[p])
    BY DEF Held
  <2>. QED  BY <2>1, <2>2, <2>4, <2>5
<1>. QED  BY <1>1, <1>3, <1>4, <1>5, ProcessStep

\* process_exec() gives the page of the arguments back and starts the program.
LEMMA StartOrPanicStep == ASSUME SpaceInv, NEW p \in Procs, StartOrPanic(p) PROVE SpaceInv'
<1>. DEFINE t == [th[p] EXCEPT !.pc = IF th[p].success THEN "user" ELSE "panic",
                               !.file = FALSE, !.arg = NONE, !.after = "dying"]
<1>1. PICK c : Before(c, p)
  BY BeforeStep
<1>2. /\ th' = [th EXCEPT ![p] = t] /\ running = p /\ th[p].pc = "done" /\ m' = Given(m, "kernel", th[p].arg)
      /\ running' = running /\ cr3' = cr3 /\ rsp0' = running
  BY DEF StartOrPanic, At, Becomes, SpaceInv, CpuInv
<1>3. /\ t = [f \in Fields |-> t[f]] /\ t.pc \in {"user", "panic"} /\ t.arg = NONE /\ t.after = "dying"
      /\ t.pml4 = th[p].pml4 /\ t.old = th[p].old /\ t.stack = th[p].stack
      /\ t.prog = th[p].prog /\ t.upage = th[p].upage /\ t.i = th[p].i
      /\ th[p].success = FALSE => t.pc = "panic"
  BY <1>1 DEF Before
<1>. HIDE DEF t
<1>4. PcOK(th[p]) /\ Cpu(th[p], cr3) /\ th[p].arg # NONE
  BY <1>1, <1>2, RunsInSpace DEF Before, PcOK, Loading
<1>5. PcOK(t)
  BY <1>2, <1>3, <1>4 DEF PcOK, Mapped, Loading, Cleanup
<1>6. Cpu(t, cr3')
  BY <1>2, <1>3, <1>4 DEF Cpu, PcOK, Mapped
<1>7. p # Main /\ th'[p] = t
  BY <1>2, UserProgAssumption DEF SpaceInv, ProcsInv
<1>8. CpuInv'
  BY <1>2, <1>6, <1>7 DEF CpuInv
<1>. QED  BY <1>1, <1>2, <1>3, <1>4, <1>5, <1>8, GiveArg

\* pml4_destroy(), on tables that no register and no thread has any more.
LEMMA DestroyStep == ASSUME SpaceInv, NEW p \in Procs, Destroy(p) PROVE SpaceInv'
<1>. DEFINE t == [th[p] EXCEPT !.pc = th[p].after, !.old = NONE]
<1>1. PICK c : Before(c, p)
  BY BeforeStep
<1>2. /\ th' = [th EXCEPT ![p] = t] /\ running = p /\ th[p].pc = "destroy" /\ m' = Pml4Destroy(m, th[p].old)
      /\ running' = running /\ cr3' = cr3 /\ rsp0' = running
  BY DEF Destroy, At, Becomes, SameCpu, SpaceInv, CpuInv
<1>3. /\ t = [f \in Fields |-> t[f]] /\ t.pc = th[p].after /\ t.old = NONE
      /\ t.pml4 = th[p].pml4 /\ t.arg = th[p].arg /\ t.stack = th[p].stack /\ t.after = th[p].after
      /\ t.prog = th[p].prog /\ t.upage = th[p].upage /\ t.i = th[p].i /\ t.success = th[p].success
  BY <1>1 DEF Before
<1>. HIDE DEF t
<1>4. PcOK(th[p]) /\ Cpu(th[p], cr3) /\ th[p].old # NONE /\ th[p].pml4 = NONE /\ cr3 = Base
  BY <1>1, <1>2, RunsInSpace DEF Before, PcOK, Cpu
<1>5. PcOK(t)
  BY <1>2, <1>3, <1>4 DEF PcOK, Mapped, Loading, Cleanup
<1>6. Cpu(t, cr3')
  BY <1>2, <1>3, <1>4 DEF Cpu, PcOK, Mapped
<1>7. p # Main /\ th'[p] = t
  BY <1>2, UserProgAssumption DEF SpaceInv, ProcsInv
<1>8. CpuInv'
  BY <1>2, <1>6, <1>7 DEF CpuInv
<1>9. Shape(m, c) /\ th[p].old \in DOMAIN m.tables /\ c[th[p].old].level = 3 /\ c[th[p].old].owner = p
  BY <1>1, <1>4 DEF Before, Space, SpacesInv
<1>10. /\ Shape(m', c) /\ DOMAIN m'.tables \subseteq DOMAIN m.tables
       /\ m'.free.kernel \subseteq m.free.kernel \cup DOMAIN m.tables
       /\ \A u \in DOMAIN m.tables : c[u].owner # p => u \in DOMAIN m'.tables
  BY <1>2, <1>7, <1>9, DestroyShape
<1>11. Space(m', c, p, t) /\ Apart(m', t) /\ Held(t) = Held(th[p])
  BY <1>1, <1>3, <1>4, <1>10 DEF Before, Space, Apart, Held
<1>12. ASSUME NEW q \in Procs \ {p}
       PROVE  Space(m', c, q, th[q]) /\ Apart(m', th[q]) /\ Held(t) \cap Held(th[q]) = {}
  <2>1. Space(m, c, q, th[q]) /\ Apart(m, th[q]) /\ Held(th[p]) \cap Held(th[q]) = {}
    BY <1>1 DEF Before, SpaceInv, ProcsInv, SpacesInv
  <2>2. Space(m', c, q, th[q])
    BY <1>10, <2>1 DEF Space
  <2>3. Apart(m', th[q])
    BY <1>10, <2>1 DEF Apart
  <2>. QED  BY <1>11, <2>1, <2>2, <2>3
<1>. QED  BY <1>2, <1>3, <1>5, <1>8, <1>10, <1>11, <1>12, ProcessStep

\* What is left of a memory when page f was taken.
LEMMA TakenKernelParts ==
  ASSUME NEW mem, NEW c, Shape(mem, c), NEW f
  PROVE  /\ Taken(mem, "kernel", f).tables = mem.tables
         /\ Taken(mem, "kernel", f).free.kernel = mem.free.kernel \ {f}
<1>. DEFINE T == mem.tables
            F == mem.free
            G == Less(F, "kernel", f)
<1>1. mem = Mem(T, F) /\ Pools(F)
  BY DEF Shape, Memory
<1>2. G.kernel = F.kernel \ {f}
  BY <1>1 DEF Pools, Less
<1>. HIDE DEF T, F, G
<1>3. Taken(mem, "kernel", f) = Mem(T, G)
  BY <1>1, TakenForm DEF G
<1>4. Mem(T, G).tables = T /\ Mem(T, G).free = G
  BY MemParts
<1>. QED  BY <1>2, <1>3, <1>4 DEF T, F

\* A step that takes page f of the kernel pool for process p.
LEMMA GetsPage ==
  ASSUME NEW c, NEW p, Before(c, p), NEW f, f \in m.free.kernel, m' = Taken(m, "kernel", f),
         NEW t, th' = [th EXCEPT ![p] = t], t = [g \in Fields |-> t[g]], PcOK(t),
         t.pml4 = th[p].pml4, t.old = th[p].old,
         \/ t.arg = f /\ t.stack = th[p].stack
         \/ t.arg = th[p].arg /\ t.stack = f,
         CpuInv'
  PROVE  SpaceInv'
<1>1. SpaceInv /\ SpacesInv(c) /\ p \in Procs /\ Shape(m, c)
  BY DEF Before, SpacesInv
<1>2. Extends(m, c, m', c)
  BY <1>1, TakenExtends
<1>3. m'.tables = m.tables /\ m'.free.kernel = m.free.kernel \ {f}
  BY <1>1, TakenKernelParts
<1>4. f \notin DOMAIN m.tables
  BY <1>1 DEF Shape
<1>5. Space(m', c, p, t)
  BY <1>3 DEF Before, Space
<1>6. Apart(m', t)
  BY <1>3, <1>4 DEF Before, Apart, Held
<1>7. Held(t) \subseteq Held(th[p]) \cup m.free.kernel
  BY DEF Held
<1>. QED  BY <1>1, <1>2, <1>5, <1>6, <1>7, TakingStep

\* Main runs before and after it.
LEMMA MainStays ==
  ASSUME SpaceInv, running = Main, SameCpu
  PROVE  CpuInv'
  BY DEF SpaceInv, CpuInv, SameCpu

\* process_create_initd() copies the name.
LEMMA CopyNameStep == ASSUME SpaceInv, NEW p \in Procs, CopyName(p) PROVE SpaceInv'
<1>. DEFINE f == Alloc(m, "kernel")
<1>1. PICK c : Before(c, p)
  BY BeforeStep
<1>2. running = Main /\ th[p].pc = "none" /\ CpuInv'
  BY MainStays DEF CopyName
<1>3. PICK prog \in Programs :
        /\ m' = IF f = NONE THEN m ELSE Taken(m, "kernel", f)
        /\ Becomes(p, [th[p] EXCEPT !.pc = IF f = NONE THEN "dead" ELSE "named", !.arg = f, !.prog = prog])
  BY DEF CopyName
<1>4. f = NONE \/ (f \in m.free.kernel /\ f \in Nat)
  BY <1>1, AllocFree DEF Before, SpacesInv, Shape
<1>5. NONE \notin Nat
  BY UserProgAssumption
<1>. HIDE DEF f
<1>. DEFINE t == [th[p] EXCEPT !.pc = IF f = NONE THEN "dead" ELSE "named", !.arg = f, !.prog = prog]
<1>6. th' = [th EXCEPT ![p] = t]
  BY <1>3 DEF Becomes
<1>7. /\ t = [g \in Fields |-> t[g]] /\ t.pc = (IF f = NONE THEN "dead" ELSE "named") /\ t.arg = f /\ t.prog = prog
      /\ t.pml4 = th[p].pml4 /\ t.old = th[p].old /\ t.stack = th[p].stack /\ t.after = th[p].after
      /\ t.upage = th[p].upage /\ t.i = th[p].i /\ t.success = th[p].success
  BY <1>1 DEF Before
<1>. HIDE DEF t
<1>8. PcOK(th[p]) /\ Apart(m, th[p]) /\ Space(m, c, p, th[p])
  BY <1>1 DEF Before
<1>9. PcOK(t)
  BY <1>2, <1>4, <1>5, <1>7, <1>8 DEF PcOK, Mapped, Loading, Cleanup
<1>10. CASE f = NONE
  <2>1. Extends(m, c, m', c) /\ m' = m
    BY <1>1, <1>3, <1>10, ExtendsItself DEF Before, SpacesInv
  <2>2. Space(m', c, p, t) /\ Apart(m', t) /\ Held(t) \subseteq Held(th[p])
    BY <1>7, <1>8, <1>10, <2>1 DEF Space, Apart, Held
  <2>. QED  BY <1>1, <1>2, <1>6, <1>7, <1>9, <2>1, <2>2, TakingStep DEF Before
<1>11. CASE f # NONE
  BY <1>1, <1>2, <1>3, <1>4, <1>6, <1>7, <1>9, <1>11, GetsPage
<1>. QED  BY <1>10, <1>11

\* thread_create() gives the process its stack, or the copy is given back.
LEMMA ThreadCreateStep == ASSUME SpaceInv, NEW p \in Procs, ThreadCreate(p) PROVE SpaceInv'
<1>. DEFINE f == Alloc(m, "kernel")
<1>1. PICK c : Before(c, p)
  BY BeforeStep
<1>2. running = Main /\ th[p].pc = "named" /\ CpuInv'
  BY MainStays DEF ThreadCreate
<1>3. IF f = NONE
      THEN m' = Given(m, "kernel", th[p].arg) /\ Becomes(p, [th[p] EXCEPT !.pc = "dead", !.arg = NONE])
      ELSE m' = Taken(m, "kernel", f) /\ Becomes(p, [th[p] EXCEPT !.pc = "clear", !.stack = f])
  BY DEF ThreadCreate
<1>4. f = NONE \/ (f \in m.free.kernel /\ f \in Nat)
  BY <1>1, AllocFree DEF Before, SpacesInv, Shape
<1>5. NONE \notin Nat
  BY UserProgAssumption
<1>6. PcOK(th[p])
  BY <1>1 DEF Before
<1>. HIDE DEF f
<1>7. CASE f = NONE
  <2>. DEFINE t == [th[p] EXCEPT !.pc = "dead", !.arg = NONE]
  <2>1. th' = [th EXCEPT ![p] = t] /\ m' = Given(m, "kernel", th[p].arg)
    BY <1>3, <1>7 DEF Becomes
  <2>2. /\ t = [g \in Fields |-> t[g]] /\ t.pc = "dead" /\ t.arg = NONE /\ t.prog = th[p].prog
        /\ t.pml4 = th[p].pml4 /\ t.old = th[p].old /\ t.stack = th[p].stack /\ t.after = th[p].after
        /\ t.upage = th[p].upage /\ t.i = th[p].i /\ t.success = th[p].success
    BY <1>1 DEF Before
  <2>. HIDE DEF t
  <2>3. PcOK(t) /\ th[p].arg # NONE
    BY <1>2, <1>6, <2>2 DEF PcOK, Mapped, Loading, Cleanup
  <2>. QED  BY <1>1, <1>2, <2>1, <2>2, <2>3, GiveArg
<1>8. CASE f # NONE
  <2>. DEFINE t == [th[p] EXCEPT !.pc = "clear", !.stack = f]
  <2>1. th' = [th EXCEPT ![p] = t] /\ m' = Taken(m, "kernel", f)
    BY <1>3, <1>8 DEF Becomes
  <2>2. /\ t = [g \in Fields |-> t[g]] /\ t.pc = "clear" /\ t.stack = f /\ t.prog = th[p].prog
        /\ t.pml4 = th[p].pml4 /\ t.old = th[p].old /\ t.arg = th[p].arg /\ t.after = th[p].after
        /\ t.upage = th[p].upage /\ t.i = th[p].i /\ t.success = th[p].success
    BY <1>1 DEF Before
  <2>. HIDE DEF t
  <2>3. PcOK(t)
    BY <1>2, <1>4, <1>5, <1>6, <1>8, <2>2 DEF PcOK, Mapped, Loading, Cleanup
  <2>. QED  BY <1>1, <1>2, <1>4, <1>8, <2>1, <2>2, <2>3, GetsPage
<1>. QED  BY <1>7, <1>8

\* schedule(): the threads that died before give their pages back, and the space and the
\* stack of the next one are set.
LEMMA SwitchStep == ASSUME SpaceInv, NEW u \in Procs \cup {Main}, Switch(u) PROVE SpaceInv'
<1>. DEFINE gone == {p \in Procs : th[p].pc = "queued"}
            S == {th[p].stack : p \in gone}
            Next1(p) == CASE p \in gone -> [Dead EXCEPT !.pc = "dead"]
                          [] p = running /\ th[p].pc = "dying" -> [th[p] EXCEPT !.pc = "queued"]
                          [] OTHER -> th[p]
<1>1. PICK c : SpacesInv(c)
  BY DEF SpaceInv
<1>2. /\ m' = [m EXCEPT !.free["kernel"] = @ \cup S] /\ th' = [p \in Procs |-> Next1(p)]
      /\ running' = u /\ rsp0' = u /\ u \in Runnable \ {running}
      /\ cr3' = IF u = Main \/ th[u].pml4 = NONE THEN Base ELSE th[u].pml4
  BY DEF Switch
<1>3. ASSUME NEW p \in Procs
      PROVE  /\ th[p] = [f \in Fields |-> th[p][f]] /\ PcOK(th[p]) /\ Apart(m, th[p]) /\ Space(m, c, p, th[p])
             /\ \A q \in Procs : p # q => Held(th[p]) \cap Held(th[q]) = {}
  BY <1>1 DEF SpaceInv, ProcsInv, SpacesInv
<1>4. ASSUME NEW p \in gone
      PROVE  th[p].stack \in Held(th[p]) /\ th[p].stack \in Nat /\ th[p].stack \notin DOMAIN m.tables
  <2>1. PcOK(th[p]) /\ Apart(m, th[p]) /\ th[p].pc = "queued"
    BY <1>3
  <2>. QED  BY <2>1 DEF PcOK, Apart, Held
<1>5. Shape(m', c) /\ m'.tables = m.tables /\ m'.free.kernel = m.free.kernel \cup S
  <2>1. S \subseteq Nat /\ S \cap DOMAIN m.tables = {} /\ Shape(m, c)
    BY <1>1, <1>4 DEF SpacesInv
  <2>. HIDE DEF S
  <2>2. m' = GivenAll(m, S)
    BY <1>2 DEF GivenAll
  <2>. QED  BY <2>1, <2>2, PagesGivenBack
<1>6. ASSUME NEW p \in Procs \ gone PROVE Space(m', c, p, th[p]) /\ Apart(m', th[p])
  <2>1. Space(m, c, p, th[p]) /\ Apart(m, th[p]) /\ \A q \in gone : th[q].stack \notin Held(th[p])
    BY <1>3, <1>4
  <2>. QED  BY <1>5, <2>1 DEF Space, Apart
<1>. DEFINE D == [Dead EXCEPT !.pc = "dead"]
<1>7. D = [f \in Fields |-> D[f]] /\ PcOK(D) /\ Held(D) = {} /\ Apart(m', D) /\ \A p \in Procs : Space(m', c, p, D)
  <2>1. /\ D = [f \in Fields |-> D[f]] /\ D.pc = "dead" /\ D.arg = NONE /\ D.stack = NONE /\ D.pml4 = NONE
        /\ D.old = NONE /\ D.after = "create" /\ D.success = FALSE /\ D.upage = 0 /\ D.i = 1
    OBVIOUS
  <2>. HIDE DEF D
  <2>2. PcOK(D)
    BY <2>1 DEF PcOK, Loading, Mapped, Cleanup
  <2>3. Held(D) = {} /\ Apart(m', D) /\ \A p \in Procs : Space(m', c, p, D)
    BY <2>1 DEF Held, Apart, Space
  <2>. QED  BY <2>1, <2>2, <2>3
<1>8. ASSUME NEW p \in Procs, p = running, th[p].pc = "dying", NEW t, t = [th[p] EXCEPT !.pc = "queued"]
      PROVE  /\ t = [f \in Fields |-> t[f]] /\ PcOK(t) /\ Held(t) = Held(th[p])
             /\ Space(m', c, p, t) /\ Apart(m', t)
  <2>1. /\ t = [f \in Fields |-> t[f]] /\ t.pc = "queued" /\ t.stack = th[p].stack /\ t.prog = th[p].prog
        /\ t.pml4 = th[p].pml4 /\ t.old = th[p].old /\ t.arg = th[p].arg /\ t.after = th[p].after
        /\ t.upage = th[p].upage /\ t.i = th[p].i /\ t.success = th[p].success
    <3>1. th[p] = [f \in Fields |-> th[p][f]]
      BY <1>3
    <3>2. t = [th[p] EXCEPT !.pc = "queued"]
      BY <1>8
    <3>. DEFINE r == th[p]
    <3>. HIDE DEF r
    <3>3. r = [f \in Fields |-> r[f]] /\ t = [r EXCEPT !.pc = "queued"]
      BY <3>1, <3>2 DEF r
    <3>. QED  BY <3>3 DEF r
  <2>2. PcOK(th[p]) /\ Space(m', c, p, th[p]) /\ Apart(m', th[p])
    BY <1>3, <1>6, <1>8
  <2>3. PcOK(t)
    BY <1>8, <2>1, <2>2 DEF PcOK, Mapped, Loading, Cleanup
  <2>. QED  BY <2>1, <2>2, <2>3 DEF Held, Space, Apart
<1>9. ASSUME NEW p \in Procs
      PROVE  \/ th'[p] = D /\ p \in gone
             \/ th'[p] = [th[p] EXCEPT !.pc = "queued"] /\ p = running /\ th[p].pc = "dying"
             \/ th'[p] = th[p] /\ p \notin gone
  <2>. HIDE DEF D
  <2>1. th'[p] = Next1(p)
    BY <1>2
  <2>2. CASE p \in gone
    BY <2>1, <2>2 DEF D
  <2>3. CASE p \notin gone
    BY <2>1, <2>3
  <2>. QED  BY <2>2, <2>3
<1>10. th' = [p \in Procs |-> th'[p]]
  BY <1>2
<1>. HIDE DEF gone, Next1, D
<1>11. ASSUME NEW p \in Procs
       PROVE  /\ th'[p] = [f \in Fields |-> th'[p][f]] /\ PcOK(th'[p]) /\ Held(th'[p]) \subseteq Held(th[p])
              /\ Space(m', c, p, th'[p]) /\ Apart(m', th'[p])
  <2>1. CASE th'[p] = D
    BY <1>7, <2>1
  <2>2. CASE th'[p] = [th[p] EXCEPT !.pc = "queued"] /\ p = running /\ th[p].pc = "dying"
    BY <1>8, <2>2
  <2>3. CASE th'[p] = th[p] /\ p \notin gone
    BY <1>3, <1>6, <2>3
  <2>. QED  BY <1>9, <2>1, <2>2, <2>3
<1>12. ProcsInv'
  <2>1. \A p, q \in Procs : p # q => Held(th'[p]) \cap Held(th'[q]) = {}
    BY <1>3, <1>11
  <2>. QED  BY <1>10, <1>11, <2>1 DEF ProcsInv
<1>13. CpuInv'
  <2>1. CASE u = Main
    BY <1>2, <2>1 DEF CpuInv
  <2>2. CASE u # Main
    <3>1. u \in Procs /\ th[u].pc \notin {"none", "named", "dying", "queued", "dead"} /\ u # running
      BY <1>2, <2>2 DEF Runnable
    <3>2. th'[u] = th[u] /\ PcOK(th[u])
      BY <1>3, <1>9, <3>1 DEF gone
    <3>3. Base # NONE
      BY UserProgAssumption DEF Base
    <3>4. Cpu(th[u], cr3')
      BY <1>2, <2>2, <3>1, <3>2, <3>3 DEF Cpu, PcOK, Mapped
    <3>. QED  BY <1>2, <2>2, <3>1, <3>2, <3>4 DEF CpuInv
  <2>. QED  BY <2>1, <2>2
<1>14. SpacesInv(c)'
  BY <1>5, <1>11 DEF SpacesInv
<1>. QED  BY <1>12, <1>13, <1>14 DEF SpaceInv

\* What changes none of it.
LEMMA SameSpaces ==
  ASSUME SpaceInv, m' = m, th' = th, running' = running, cr3' = cr3, rsp0' = rsp0
  PROVE  SpaceInv'
  BY DEF SpaceInv, ProcsInv, CpuInv, SpacesInv

\* A timer interrupt at any step of process_cleanup() (process.c:224) or load() finds page
\* tables in cr3 that are in use: its own, or the base page directory; and the stack that
\* the TSS names is that of the running thread, and in use.
THEOREM SpacesStayLive == Spec => []SpaceLive
<1>1. SpaceInv /\ [Next]_vars => SpaceInv'
  <2>. SUFFICES ASSUME SpaceInv, [Next]_vars PROVE SpaceInv'
    OBVIOUS
  <2>1. CASE UNCHANGED vars
    BY <2>1, SameSpaces DEF vars
  <2>2. ASSUME NEW p \in Procs, CopyName(p) \/ ThreadCreate(p) PROVE SpaceInv'
    BY <2>2, CopyNameStep, ThreadCreateStep
  <2>3. ASSUME NEW p \in Procs, Load(p) PROVE SpaceInv'
    BY <2>3, CreatePml4Step, ActivateStep, OpenFileStep, ReadPhdrStep, GetPageStep,
       ReadPageStep,
       MapPageStep, StartOrPanicStep DEF Load
  <2>4. ASSUME NEW p \in Procs, Clear(p) \/ ActivateBase(p) \/ Destroy(p) PROVE SpaceInv'
    BY <2>4, ClearStep, ActivateBaseStep, DestroyStep
  <2>5. ASSUME NEW p \in Procs, Syscall(p) PROVE SpaceInv'
    BY <2>5, ExitStep DEF Syscall
  <2>6. ASSUME NEW p \in Procs, NEW va \in StoreVas, Store(p, va) PROVE SpaceInv'
    BY <2>6, SameSpaces DEF Store, SameCpu
  <2>7. ASSUME NEW p \in Procs, NEW va \in StoreVas, PageFault(p, va) PROVE SpaceInv'
    BY <2>7, ExitStep DEF PageFault
  <2>8. ASSUME NEW u \in Procs \cup {Main}, Switch(u) PROVE SpaceInv'
    BY <2>8, SwitchStep
  <2>. QED  BY <2>1, <2>2, <2>3, <2>4, <2>5, <2>6, <2>7, <2>8 DEF Next
<1>. QED  BY <1>1, InitSpace, InvIsLive, PTL DEF Spec
=============================================================================
