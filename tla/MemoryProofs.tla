---------------------------- MODULE MemoryProofs ----------------------------
(***************************************************************************)
(* Proofs about the page allocator (threads/palloc.c) and malloc()         *)
(* (threads/malloc.c), for any memory map that start-up accepts, any       *)
(* number of threads that call both at the same time, any page counts,     *)
(* sizes of blocks and of arenas: PagesExact, ArenasExact and ContentsKept *)
(* hold in every state.                                                    *)
(*                                                                         *)
(* The invariant says who has each page.  A page goes from the pool to a   *)
(* call of palloc_get_multiple(), from the call to its caller, or to an    *)
(* arena, and back by palloc_free_multiple(): PageInv has it with one of   *)
(* these at most, and with one just when its bit is set.  That is not      *)
(* inductive alone.  A call flips bits one by one, after bitmap_scan()     *)
(* looked at them: CallInv follows its locals, and has the bits it has     *)
(* still to flip clear.  They stay clear, because bits are set under the   *)
(* pool's lock only (LockInv), while palloc_free_multiple() clears bits    *)
(* without the lock, but those of pages that its own caller has.  For the  *)
(* same reason its assertion, that all its bits are set, holds.            *)
(*                                                                         *)
(* The blocks of malloc() are tied to the pages by their arenas (ArenaInv, *)
(* whose free_cnt counts the blocks nobody uses), to their users (UseInv)  *)
(* and to the list of their descriptor (ListInv, which follows the loop in *)
(* which free() takes the blocks of an empty arena off the list: it keeps  *)
(* the descriptor's lock until the page is given back, so nobody takes a   *)
(* block of it meanwhile).                                                 *)
(***************************************************************************)
EXTENDS BlockMalloc, FiniteSetTheorems, TLAPS

\* The fields of a thread's record: where it is, and the locals of its call.
Locals == DOMAIN Idle

\* The locks of the pools and of the descriptors.
Locks == {PoolLock(pool) : pool \in Pools} \cup {DescLock(d) : d \in Descs}

(***************************************************************************)
(* The maps of the pools and the calls of Palloc.                          *)
(***************************************************************************)

\* The number of pages of a pool.
Cnt(pool) == BitCnt(used_map[pool])

\* cnt pages from page on are pages of the pool.
Whole(page, cnt, pool) == base[pool] <= page /\ page + cnt <= base[pool] + Cnt(pool)

\* cnt pages from page on are a group that a call may have got: they lie in one pool.
InPool(page, cnt) == page \in Nat /\ cnt \in Nat \ {0} /\ \E pool \in Pools : Whole(page, cnt, pool)

\* A map has a bit for each page of its pool, a bit that is clear is a page of the
\* memory, the kernel pool is below the user pool, and no assertion has failed.
MapInv ==
    /\ base["kernel"] \in Nat /\ base["user"] \in Nat
    /\ used_map = [pool \in Pools |-> [i \in 0..(Cnt(pool) - 1) |-> used_map[pool][i]]]
    /\ Cnt("kernel") \in Nat /\ Cnt("user") \in Nat
    /\ base["kernel"] + Cnt("kernel") <= base["user"]
    /\ \A pool \in Pools : \A i \in 0..(Cnt(pool) - 1) :
        used_map[pool][i] \in BOOLEAN /\ (~used_map[pool][i] => base[pool] + i \in usable)
    /\ panic = FALSE

\* A lock has an entry in owner.
LockInv == owner = [l \in Locks |-> owner[l]]

\* The statements of palloc_get_multiple() and palloc_free_multiple().
Getting == {"get_lock", "scan", "flip", "get_unlock"}

\* Where a call of palloc_get_multiple() has returned.
Got == {"got_pages", "got_arena", "got_big"}

\* The statements of palloc_free_multiple().
Giving == {"free_pages", "clear"}

\* The locals of thread t's call th: between the lock and the unlock t has the pool's
\* lock, cnt bits from idx on lie in the map, and those not yet flipped are clear.
CallOK(t, th) ==
    /\ th.pool \in Pools
    /\ th.pc \in Getting \cup Got \cup Giving => th.cnt \in Nat \ {0}
    /\ th.pc \in {"scan", "flip", "get_unlock"} => owner[PoolLock(th.pool)] = t
    /\ th.pc = "get_lock" => th.idx = 0
    /\ th.pc \in {"get_lock", "scan", "free_pages"} => th.done = 0
    /\ th.pc \in {"get_lock", "scan", "flip"} \cup Giving => th.idx \in Nat /\ th.done \in Nat
    /\ th.pc \in {"flip"} \cup Giving => th.idx + th.cnt <= Cnt(th.pool) /\ th.done < th.cnt
    /\ th.pc \in {"get_unlock"} \cup Got =>
            th.idx = BITMAP_ERROR \/ (th.idx \in Nat /\ th.idx + th.cnt <= Cnt(th.pool))
    /\ th.pc = "flip" => \A i \in Nat : i >= th.idx + th.done /\ i < th.idx + th.cnt => ~used_map[th.pool][i]
    /\ th.pc \in Getting => th.ret \in Got
    /\ th.pc \in Giving => th.ret \in {"idle", "free_unlock"}

\* The locals of each thread are those of its call.
CallInv ==
    /\ thread = [t \in Threads |-> thread[t]]
    /\ \A t \in Threads : thread[t] = [f \in Locals |-> thread[t][f]] /\ CallOK(t, thread[t])

\* A group of pages is what a call got: whole pages of one pool.
GroupInv ==
    /\ groups = [t \in Threads |-> groups[t]]
    /\ \A t \in Threads : \A g \in groups[t] : g = <<g[1], g[2]>> /\ InPool(g[1], g[2])

(***************************************************************************)
(* Who has page p: a call, a group of pages, an arena; and is it in use.   *)
(***************************************************************************)

\* The pages with a call: those it has taken so far, or has still to give back.
CallSpan(th) ==
    LET first == base[th.pool] + th.idx IN
    CASE th.pc = "flip" -> Span(first, th.done)
      [] th.pc \in {"get_unlock"} \cup Got /\ th.idx # BITMAP_ERROR -> Span(first, th.cnt)
      [] th.pc \in Giving -> Span(first + th.done, th.cnt - th.done)
      [] OTHER -> {}

\* Page p is with the call of thread t.
CallHas(t, p) == p \in CallSpan(thread[t])

\* Page p is in g, a group that thread t got and has not freed.
GroupHas(t, g, p) == g \in groups[t] /\ p \in Span(g[1], g[2])

\* Page p belongs to the arena, or the big block, that begins at page a.
ArenaHas(a, p) == a \in DOMAIN arenas /\ p \in PagesOf(a)

\* The bit of page p is set, and p is memory and not a hole between two ranges of it.
InUsePage(p) ==
    p \in usable /\ \E pool \in Pools : p \in Span(base[pool], Cnt(pool)) /\ used_map[pool][p - base[pool]]

\* Page p has one owner at most: one call, one group or one arena.
Exclusive(p) ==
    /\ \A t, u \in Threads : CallHas(t, p) /\ CallHas(u, p) => t = u
    /\ \A t, u \in Threads : \A g, h : GroupHas(t, g, p) /\ GroupHas(u, h, p) => t = u /\ g = h
    /\ \A a, b : ArenaHas(a, p) /\ ArenaHas(b, p) => a = b
    /\ \A t, u \in Threads : \A g : ~(CallHas(t, p) /\ GroupHas(u, g, p))
    /\ \A t \in Threads : \A a : ~(CallHas(t, p) /\ ArenaHas(a, p))
    /\ \A t \in Threads : \A g, a : ~(GroupHas(t, g, p) /\ ArenaHas(a, p))

\* Page p has an owner.
Claimed(p) ==
    \/ \E t \in Threads : CallHas(t, p)
    \/ \E t \in Threads : \E g : GroupHas(t, g, p)
    \/ \E a : ArenaHas(a, p)

\* Each page has one owner at most, and has one when its bit is set.
PageInv == \A p : Exclusive(p) /\ (Claimed(p) <=> InUsePage(p))

(***************************************************************************)
(* The calls of malloc() and free(), blocks, arenas and free lists.        *)
(***************************************************************************)

\* Where the thread is in malloc() and free(), or goes on after Palloc.
Stage(th) == IF th.pc \in Getting \cup Giving THEN th.ret ELSE th.pc

\* The statements of malloc(), after palloc_get_multiple() too.
Allocating == {"malloc_lock", "take", "got_arena", "got_big"}

\* The locals of thread t's call of malloc() or free(): it is between the lock and the
\* unlock of its descriptor, finds the list as it left it, and knows what it frees.
WorkOK(t, th) ==
    /\ Stage(th) \in Allocating \cup {"idle", "got_pages", "free", "free_lock", "free_blocks", "free_unlock"}
    /\ Stage(th) \in {"malloc_lock", "take", "got_arena", "free_lock", "free_blocks", "free_unlock"} => th.size \in Descs
    /\ Stage(th) \in {"take", "got_arena", "free_blocks", "free_unlock"} => owner[DescLock(th.size)] = t
    /\ Stage(th) = "take" => free_list[th.size] # <<>>
    /\ Stage(th) = "got_arena" => free_list[th.size] = <<>> /\ th.cnt = 1
    /\ Stage(th) \in Allocating => th.call \in {"malloc", "calloc", "realloc"}
    /\ Stage(th) \in Allocating /\ th.call = "realloc" => th.old \in held[t]

\* The locals of each thread are those of its call of malloc() or free().
WorkInv == \A t \in Threads : WorkOK(t, thread[t])

\* A thread is in free() and has not yet put its block back.
Frees(th) == th.pc \in {"free", "free_lock"}

\* A thread is in the loop of free() that takes the blocks of arena a off the list.
Drains(th, a) == th.pc = "free_blocks" /\ th.old[1][1] = a

\* Block b is in an arena: it is one of its blocks, or the big block itself.
BlockOK(b) ==
    /\ b = <<b[1], b[2]>> /\ b[1] \in DOMAIN arenas
    /\ arenas[b[1]].desc = NONE => b[2] = 0
    /\ arenas[b[1]].desc # NONE => b[2] \in 1..BlocksPerArena(arenas[b[1]].desc)

\* Each block in use has one user, and what its user wrote.
UseInv ==
    /\ held = [t \in Threads |-> held[t]]
    /\ \A t \in Threads : \A h \in held[t] :
        h = <<h[1], h[2]>> /\ BlockOK(h[1]) /\ h[1] \in DOMAIN data /\ data[h[1]] = h[2]
    /\ \A t \in Threads : Frees(thread[t]) => BlockOK(thread[t].old[1]) /\ thread[t].old[1] \in DOMAIN data
    /\ \A t \in Threads : thread[t].pc = "free_lock" => thread[t].size = arenas[thread[t].old[1][1]].desc
    /\ \A t, u \in Threads : \A h \in held[t], k \in held[u] : h[1] = k[1] => t = u /\ h = k
    /\ \A t, u \in Threads : Frees(thread[t]) /\ Frees(thread[u]) /\ thread[t].old[1] = thread[u].old[1] => t = u
    /\ \A t, u \in Threads : \A h \in held[u] : Frees(thread[t]) => thread[t].old[1] # h[1]

\* The blocks of arena a, of descriptor d, that nobody uses.
FreeBlocks(a, d) == {ArenaToBlock(a, i) : i \in 1..BlocksPerArena(d)} \ InUse

\* The arena at page a: its pages are a group, its free_cnt is the number of blocks nobody
\* uses, and it has one that is used unless a free() is about to give it back.
ArenaOK(a) ==
    LET d == arenas[a].desc
        cnt == arenas[a].free_cnt
    IN  /\ arenas[a] = [desc |-> d, free_cnt |-> cnt]
        /\ d \in Descs \cup {NONE}
        /\ d = NONE => InPool(a, cnt)
        /\ d # NONE => InPool(a, 1) /\ cnt = Cardinality(FreeBlocks(a, d))
        /\ d # NONE /\ ~(\E t \in Threads : Drains(thread[t], a)) => cnt < BlocksPerArena(d)

\* The loop of free(): its arena has no block in use and blocks that are still listed.
DrainOK(th) ==
    th.pc = "free_blocks" =>
        LET a == th.old[1][1] IN
        /\ a \in DOMAIN arenas /\ arenas[a].desc = th.size
        /\ \A i : <<a, i>> \notin InUse
        /\ th.done \in Nat /\ th.done < BlocksPerArena(th.size)

\* Each arena is sound, and so is each call that is about to give one back.
ArenaInv ==
    /\ \A a \in DOMAIN arenas : ArenaOK(a)
    /\ \A t \in Threads : DrainOK(thread[t])

\* Block b belongs on the list of descriptor d: it is a block of one of its arenas, nobody
\* uses it, and the loop of free() has not yet taken it off.
Listed(d, b) ==
    /\ b = <<b[1], b[2]>> /\ b[1] \in DOMAIN arenas /\ arenas[b[1]].desc = d
    /\ b[2] \in 1..BlocksPerArena(d) /\ b \notin InUse
    /\ \A t \in Threads : Drains(thread[t], b[1]) => b[2] > thread[t].done

\* The list of a descriptor has the blocks that belong there, each of them once.
ListInv ==
    /\ free_list = [d \in Descs |-> free_list[d]]
    /\ \A d \in Descs : free_list[d] = [i \in 1..Len(free_list[d]) |-> free_list[d][i]] /\ Len(free_list[d]) \in Nat
    /\ \A d \in Descs : \A i, j \in 1..Len(free_list[d]) : free_list[d][i] = free_list[d][j] => i = j
    /\ \A d \in Descs : \A b : (\E i \in 1..Len(free_list[d]) : free_list[d][i] = b) <=> Listed(d, b)

\* The inductive invariant.
MemInv == MapInv /\ LockInv /\ CallInv /\ GroupInv /\ PageInv /\ WorkInv /\ UseInv /\ ArenaInv /\ ListInv

(***************************************************************************)
(* Sizes, spans and records.                                               *)
(***************************************************************************)

\* Every descriptor has blocks of a positive size, and an arena has room for one.
LEMMA DescFacts ==
  ASSUME NEW d \in Descs
  PROVE  d \in Nat \ {0} /\ d # NONE /\ BlocksPerArena(d) \in Nat \ {0}
<1>1. MinBlock \in Nat /\ MinBlock > 0 /\ PGSIZE \in Nat /\ ARENA \in Nat /\ PGSIZE >= 2 * ARENA
  BY MallocAssumption
<1>2. PGSIZE \div 2 \in Int /\ 2 * (PGSIZE \div 2) <= PGSIZE
  BY <1>1
<1>3. d \in MinBlock..(PGSIZE \div 2 - 1)
  BY DEF Descs
<1>4. d \in Nat /\ d > 0 /\ PGSIZE - ARENA \in Nat /\ d <= PGSIZE - ARENA
  BY <1>1, <1>2, <1>3
<1>5. \A n \in Nat : n >= d => n \div d \in Int /\ n \div d > 0
  BY <1>4
<1>6. BlocksPerArena(d) \in Nat \ {0}
  BY <1>4, <1>5 DEF BlocksPerArena
<1>. QED  BY <1>4, <1>6, PallocAssumption

\* NONE is neither a thread nor a page nor a block.
LEMMA NoneFacts == NONE \notin Threads /\ NONE \notin Int /\ \A x, y \in Int : NONE # <<x, y>>
  BY PallocAssumption

\* What it means to be a page of a span.
LEMMA InSpan ==
  ASSUME NEW first, NEW cnt, NEW p, first \in Int, cnt \in Int
  PROVE  p \in Span(first, cnt) <=> p \in Int /\ first <= p /\ p < first + cnt
  BY DEF Span

\* The size of a map whose bits are numbered from 0.
LEMMA CntDomain ==
  ASSUME NEW b, NEW n \in Nat, DOMAIN b = 0..(n - 1)
  PROVE  BitCnt(b) = n
<1>1. Cardinality(0..(n - 1)) = n
  BY FS_Interval
<1>. QED  BY <1>1 DEF BitCnt

\* A lock of the owner that is taken, and one that is released.
LEMMA LockTaken ==
  ASSUME LockInv, NEW l \in Locks, NEW t \in Threads, Hold(t, l)
  PROVE  LockInv' /\ owner'[l] = t /\ (\A u \in Threads, k \in Locks : owner[k] = u => owner'[k] = u)
         /\ \A k \in Locks \ {l} : owner'[k] = owner[k]
  BY NoneFacts DEF LockInv, Hold, LockFree

\* A lock that is released: the other threads keep theirs.
LEMMA LockReleased ==
  ASSUME LockInv, NEW l \in Locks, NEW t \in Threads, owner[l] = t, ReleaseLock(l)
  PROVE  LockInv' /\ (\A u \in Threads \ {t}, k \in Locks : owner[k] = u => owner'[k] = u)
         /\ \A k \in Locks \ {l} : owner'[k] = owner[k]
  BY DEF LockInv, ReleaseLock

\* The locks have different names.
LEMMA LockNames ==
  /\ \A pool \in Pools : PoolLock(pool) \in Locks
  /\ \A d \in Descs : DescLock(d) \in Locks
  /\ \A pool \in Pools, d \in Descs : PoolLock(pool) # DescLock(d)
  /\ \A d, e \in Descs : DescLock(d) = DescLock(e) => d = e
  /\ \A d, e \in Pools : PoolLock(d) = PoolLock(e) => d = e
  BY DEF Locks, PoolLock, DescLock, Pools

\* The names of the locals.
LEMMA LocalsAre ==
  Locals = {"pc", "pool", "cnt", "idx", "done", "ret", "call", "size", "old"}
  BY DEF Locals, Idle

(***************************************************************************)
(* A bit of a map is set or cleared.                                       *)
(***************************************************************************)

\* Bit i of a map gets the value v.
SetBit(pool, i, v) == used_map' = [used_map EXCEPT ![pool] = BitmapSetMultiple(@, i, 1, v)]

\* One bit changes and nothing else of the maps.
LEMMA BitChanged ==
  ASSUME MapInv, NEW pool \in Pools, NEW i \in 0..(Cnt(pool) - 1), NEW v \in BOOLEAN,
         SetBit(pool, i, v)
  PROVE  /\ used_map' = [q \in Pools |-> used_map'[q]]
         /\ \A q \in Pools : Cnt(q)' = Cnt(q) /\ used_map'[q] = [j \in 0..(Cnt(q) - 1) |-> used_map'[q][j]]
         /\ used_map'[pool][i] = v
         /\ \A q \in Pools : \A j \in 0..(Cnt(q) - 1) : q # pool \/ j # i => used_map'[q][j] = used_map[q][j]
<1>1. \A q \in Pools : used_map[q] = [j \in 0..(Cnt(q) - 1) |-> used_map[q][j]] /\ Cnt(q) \in Nat
  BY DEF MapInv, Pools
<1>2. used_map' = [q \in Pools |-> used_map'[q]]
      /\ used_map'[pool] = [j \in DOMAIN used_map[pool] |-> IF i <= j /\ j < i + 1 THEN v ELSE used_map[pool][j]]
      /\ \A q \in Pools \ {pool} : used_map'[q] = used_map[q]
  BY DEF MapInv, SetBit, BitmapSetMultiple
<1>3. \A q \in Pools : DOMAIN used_map'[q] = DOMAIN used_map[q]
  BY <1>2
<1>4. \A q \in Pools : Cnt(q)' = Cnt(q)
  BY <1>3 DEF Cnt, BitCnt
<1>5. used_map'[pool] = [j \in 0..(Cnt(pool) - 1) |-> IF i = j THEN v ELSE used_map[pool][j]]
  <2>1. \A j \in 0..(Cnt(pool) - 1) : (i <= j /\ j < i + 1) <=> i = j
    BY <1>1
  <2>2. DOMAIN used_map[pool] = 0..(Cnt(pool) - 1)
    BY <1>1
  <2>. QED  BY <1>2, <2>1, <2>2
<1>6. \A q \in Pools \ {pool} : used_map'[q] = [j \in 0..(Cnt(q) - 1) |-> used_map'[q][j]]
  BY <1>1, <1>2
<1>7. used_map'[pool] = [j \in 0..(Cnt(pool) - 1) |-> used_map'[pool][j]] /\ used_map'[pool][i] = v
      /\ \A j \in 0..(Cnt(pool) - 1) : j # i => used_map'[pool][j] = used_map[pool][j]
  BY <1>5
<1>. QED  BY <1>2, <1>4, <1>6, <1>7

(***************************************************************************)
(* Pages that change hands.                                                *)
(***************************************************************************)

\* Page p stays with the calls it is with, those of the threads of S excepted.
CallsKept(p, S) == \A u \in Threads \ S : CallHas(u, p)' <=> CallHas(u, p)

\* The groups that page p is in stay the same.
GroupsKept(p) == \A u \in Threads : \A g : GroupHas(u, g, p)' <=> GroupHas(u, g, p)

\* The arenas that page p is in stay the same.
ArenasKept(p) == \A a : ArenaHas(a, p)' <=> ArenaHas(a, p)

\* The bit of page p stays the same.
UseKept(p) == InUsePage(p)' <=> InUsePage(p)

\* When every page stays where it is, each still has one owner.
LEMMA SamePages ==
  ASSUME PageInv, \A p : CallsKept(p, {}) /\ GroupsKept(p) /\ ArenasKept(p) /\ UseKept(p)
  PROVE  PageInv'
  BY DEF PageInv, Exclusive, Claimed, CallsKept, GroupsKept, ArenasKept, UseKept

\* The pages of the call of t become the group k.
BecomesGroup(t, k) ==
    \A p : /\ CallsKept(p, {t}) /\ ~CallHas(t, p)' /\ ArenasKept(p) /\ UseKept(p)
           /\ \A u \in Threads : \A g : GroupHas(u, g, p)' <=> GroupHas(u, g, p) \/ (u = t /\ g = k /\ CallHas(t, p))

\* palloc_get_multiple() returns: its pages go from the call to the caller.
LEMMA CallToGroup ==
  ASSUME PageInv, NEW t \in Threads, NEW k, BecomesGroup(t, k)
  PROVE  PageInv'
<1>. SUFFICES ASSUME NEW p PROVE (Exclusive(p) /\ (Claimed(p) <=> InUsePage(p)))'
  BY DEF PageInv
<1>. USE DEF BecomesGroup
<1>1. Exclusive(p) /\ (Claimed(p) <=> InUsePage(p))
  BY DEF PageInv
<1>2. Exclusive(p)'
  <2>1. \A u, v \in Threads : \A g, h : GroupHas(u, g, p)' /\ GroupHas(v, h, p)' => u = v /\ g = h
    BY <1>1 DEF Exclusive
  <2>2. \A u, v \in Threads : \A g : ~(CallHas(u, p)' /\ GroupHas(v, g, p)')
    BY <1>1 DEF Exclusive, CallsKept
  <2>3. \A u, v \in Threads : CallHas(u, p)' /\ CallHas(v, p)' => u = v
    BY <1>1 DEF Exclusive, CallsKept
  <2>4. \A u \in Threads : \A g, a : ~(GroupHas(u, g, p)' /\ ArenaHas(a, p)') /\ ~(CallHas(u, p)' /\ ArenaHas(a, p)')
    BY <1>1 DEF Exclusive, CallsKept, ArenasKept
  <2>. QED  BY <1>1, <2>1, <2>2, <2>3, <2>4 DEF Exclusive, ArenasKept
<1>3. Claimed(p)' <=> Claimed(p)
  BY DEF Claimed, CallsKept, ArenasKept
<1>. QED  BY <1>1, <1>2, <1>3 DEF UseKept

\* palloc_free_multiple() is called: its pages go from the caller to the call.
LEMMA GroupToCall ==
  ASSUME PageInv, NEW t \in Threads, NEW k,
         \A p : /\ CallsKept(p, {t}) /\ ~CallHas(t, p) /\ (CallHas(t, p)' <=> GroupHas(t, k, p))
                /\ ArenasKept(p) /\ UseKept(p)
                /\ \A u \in Threads : \A g : GroupHas(u, g, p)' <=> GroupHas(u, g, p) /\ ~(u = t /\ g = k)
  PROVE  PageInv'
<1>. SUFFICES ASSUME NEW p PROVE (Exclusive(p) /\ (Claimed(p) <=> InUsePage(p)))'
  BY DEF PageInv
<1>1. Exclusive(p) /\ (Claimed(p) <=> InUsePage(p))
  BY DEF PageInv
<1>2. Exclusive(p)'
  BY <1>1 DEF Exclusive, CallsKept, ArenasKept
<1>3. Claimed(p)' <=> Claimed(p)
  BY DEF Claimed, CallsKept, ArenasKept
<1>. QED  BY <1>1, <1>2, <1>3 DEF UseKept

\* The pages of the call of t become the arena, or the big block, k.
BecomesArena(t, k) ==
    \A p : /\ CallsKept(p, {t}) /\ ~CallHas(t, p)' /\ GroupsKept(p) /\ UseKept(p)
           /\ \A a : ArenaHas(a, p)' <=> ArenaHas(a, p) \/ (a = k /\ CallHas(t, p))

\* The pages of a call become an arena or a big block.
LEMMA CallToArena ==
  ASSUME PageInv, NEW t \in Threads, NEW k, BecomesArena(t, k)
  PROVE  PageInv'
<1>. SUFFICES ASSUME NEW p PROVE (Exclusive(p) /\ (Claimed(p) <=> InUsePage(p)))'
  BY DEF PageInv
<1>. USE DEF BecomesArena
<1>1. Exclusive(p) /\ (Claimed(p) <=> InUsePage(p))
  BY DEF PageInv
<1>2. Exclusive(p)'
  BY <1>1 DEF Exclusive, CallsKept, GroupsKept
<1>3. Claimed(p)' <=> Claimed(p)
  BY DEF Claimed, CallsKept, GroupsKept
<1>. QED  BY <1>1, <1>2, <1>3 DEF UseKept

\* The pages of an arena or a big block go to the call that frees them.
LEMMA ArenaToCall ==
  ASSUME PageInv, NEW t \in Threads, NEW k,
         \A p : /\ CallsKept(p, {t}) /\ ~CallHas(t, p) /\ (CallHas(t, p)' <=> ArenaHas(k, p))
                /\ GroupsKept(p) /\ UseKept(p)
                /\ \A a : ArenaHas(a, p)' <=> ArenaHas(a, p) /\ a # k
  PROVE  PageInv'
<1>. SUFFICES ASSUME NEW p PROVE (Exclusive(p) /\ (Claimed(p) <=> InUsePage(p)))'
  BY DEF PageInv
<1>1. Exclusive(p) /\ (Claimed(p) <=> InUsePage(p))
  BY DEF PageInv
<1>2. Exclusive(p)'
  BY <1>1 DEF Exclusive, CallsKept, GroupsKept
<1>3. Claimed(p)' <=> Claimed(p)
  BY DEF Claimed, CallsKept, GroupsKept
<1>. QED  BY <1>1, <1>2, <1>3 DEF UseKept

\* A bit is set: its page is with the call that sets it.
LEMMA PageTaken ==
  ASSUME PageInv, NEW t \in Threads, NEW k, ~InUsePage(k),
         \A p : /\ CallsKept(p, {t}) /\ (CallHas(t, p)' <=> CallHas(t, p) \/ p = k)
                /\ GroupsKept(p) /\ ArenasKept(p) /\ (InUsePage(p)' <=> InUsePage(p) \/ p = k)
  PROVE  PageInv'
<1>. SUFFICES ASSUME NEW p PROVE (Exclusive(p) /\ (Claimed(p) <=> InUsePage(p)))'
  BY DEF PageInv
<1>1. Exclusive(p) /\ (Claimed(p) <=> InUsePage(p))
  BY DEF PageInv
<1>2. p = k => ~Claimed(p)
  BY <1>1
<1>3. Exclusive(p)'
  BY <1>1, <1>2 DEF Exclusive, Claimed, CallsKept, GroupsKept, ArenasKept
<1>4. Claimed(p)' <=> Claimed(p) \/ p = k
  BY DEF Claimed, CallsKept, GroupsKept, ArenasKept
<1>. QED  BY <1>1, <1>3, <1>4

\* A bit is cleared: its page was with the call that clears it.
LEMMA PageGiven ==
  ASSUME PageInv, NEW t \in Threads, NEW k, CallHas(t, k),
         \A p : /\ CallsKept(p, {t}) /\ (CallHas(t, p)' <=> CallHas(t, p) /\ p # k)
                /\ GroupsKept(p) /\ ArenasKept(p) /\ (InUsePage(p)' <=> InUsePage(p) /\ p # k)
  PROVE  PageInv'
<1>. SUFFICES ASSUME NEW p PROVE (Exclusive(p) /\ (Claimed(p) <=> InUsePage(p)))'
  BY DEF PageInv
<1>1. Exclusive(p) /\ (Claimed(p) <=> InUsePage(p))
  BY DEF PageInv
<1>2. Exclusive(p)'
  BY <1>1 DEF Exclusive, CallsKept, GroupsKept, ArenasKept
<1>3. Claimed(p)' <=> Claimed(p) /\ p # k
  BY <1>1 DEF Exclusive, Claimed, CallsKept, GroupsKept, ArenasKept
<1>. QED  BY <1>1, <1>2, <1>3

(***************************************************************************)
(* The calls of Palloc.                                                    *)
(***************************************************************************)

\* A thread takes a step: what is left to see of the calls is its own and that of the others.
LEMMA Stepped ==
  ASSUME CallInv, NEW t \in Threads, NEW th, Goto(t, th), th = [f \in Locals |-> th[f]]
  PROVE  /\ thread' = [u \in Threads |-> thread'[u]] /\ thread'[t] = th
         /\ \A u \in Threads \ {t} : thread'[u] = thread[u]
         /\ \A u \in Threads : thread'[u] = [f \in Locals |-> thread'[u][f]]
  BY DEF CallInv, Goto

\* The calls of the other threads: they keep the locks they have, and a pool that is
\* locked by one of them loses no clear bit.
LEMMA OtherCalls ==
  ASSUME MapInv, CallInv, NEW t \in Threads,
         \A u \in Threads \ {t} : thread'[u] = thread[u],
         \A pool \in Pools : Cnt(pool)' = Cnt(pool),
         \A u \in Threads \ {t}, pool \in Pools : owner[PoolLock(pool)] = u =>
             /\ owner'[PoolLock(pool)] = u
             /\ \A i \in 0..(Cnt(pool) - 1) : ~used_map[pool][i] => ~used_map'[pool][i]
  PROVE  \A u \in Threads \ {t} : CallOK(u, thread[u])'
<1>. SUFFICES ASSUME NEW u \in Threads \ {t} PROVE CallOK(u, thread[u])'
  OBVIOUS
<1>. DEFINE th == thread[u]
<1>1. CallOK(u, th) /\ thread'[u] = th /\ th.pool \in Pools
  BY DEF CallInv, CallOK
<1>2. Cnt(th.pool)' = Cnt(th.pool) /\ Cnt(th.pool) \in Nat
  BY <1>1 DEF MapInv, Pools
<1>3. th.pc \in {"scan", "flip", "get_unlock"} => owner'[PoolLock(th.pool)] = u
  BY <1>1 DEF CallOK
<1>4. th.pc = "flip" => \A i \in Nat : i >= th.idx + th.done /\ i < th.idx + th.cnt => ~used_map'[th.pool][i]
  <2>. SUFFICES ASSUME th.pc = "flip", NEW i \in Nat, i >= th.idx + th.done, i < th.idx + th.cnt
                PROVE  ~used_map'[th.pool][i]
    OBVIOUS
  <2>1. ~used_map[th.pool][i] /\ th.idx \in Nat /\ th.cnt \in Nat /\ th.idx + th.cnt <= Cnt(th.pool)
        /\ owner[PoolLock(th.pool)] = u
    BY <1>1 DEF CallOK, Getting
  <2>2. i \in 0..(Cnt(th.pool) - 1)
    BY <2>1, <1>2
  <2>. QED  BY <1>1, <2>1, <2>2
<1>. QED  BY <1>1, <1>2, <1>3, <1>4 DEF CallOK

\* CallInv from its two parts.
LEMMA CallStepped ==
  ASSUME CallInv, NEW t \in Threads, NEW th, Goto(t, th), th = [f \in Locals |-> th[f]],
         CallOK(t, thread[t])', \A u \in Threads \ {t} : CallOK(u, thread[u])'
  PROVE  CallInv'
  BY Stepped DEF CallInv

\* A step that leaves the maps alone.
LEMMA MapKept ==
  ASSUME MapInv, UNCHANGED <<base, usable, used_map, panic>>
  PROVE  MapInv' /\ \A pool \in Pools : Cnt(pool)' = Cnt(pool)
  BY DEF MapInv, Cnt

\* A step that leaves the groups alone.
LEMMA GroupsKeptInv ==
  ASSUME GroupInv, UNCHANGED <<base, groups>>, \A pool \in Pools : Cnt(pool)' = Cnt(pool)
  PROVE  GroupInv' /\ \A p : GroupsKept(p)
<1>1. \A page, cnt : InPool(page, cnt)' <=> InPool(page, cnt)
  BY DEF InPool, Whole
<1>2. GroupInv'
  BY <1>1 DEF GroupInv
<1>3. \A p : GroupsKept(p)
  BY DEF GroupsKept, GroupHas
<1>. QED  BY <1>2, <1>3

\* A step that leaves the maps alone leaves the pages in use alone.
LEMMA UseKeptAll ==
  ASSUME UNCHANGED <<base, usable, used_map>>
  PROVE  \A p : UseKept(p)
  BY DEF UseKept, InUsePage, Cnt

\* A step that leaves the arenas alone.
LEMMA ArenasKeptAll ==
  ASSUME UNCHANGED arenas
  PROVE  \A p : ArenasKept(p)
  BY DEF ArenasKept, ArenaHas, PagesOf

\* The pages with the calls of the other threads.
LEMMA OtherSpans ==
  ASSUME NEW t \in Threads, \A u \in Threads \ {t} : thread'[u] = thread[u], UNCHANGED base
  PROVE  \A p : CallsKept(p, {t})
  BY DEF CallsKept, CallHas, CallSpan

\* The pages of a call.
LEMMA Spans ==
  ASSUME NEW th
  PROVE  /\ th.pc = "flip" => CallSpan(th) = Span(base[th.pool] + th.idx, th.done)
         /\ th.pc \in {"get_unlock"} \cup Got /\ th.idx # BITMAP_ERROR =>
                CallSpan(th) = Span(base[th.pool] + th.idx, th.cnt)
         /\ th.pc \in {"get_unlock"} \cup Got /\ th.idx = BITMAP_ERROR => CallSpan(th) = {}
         /\ th.pc \in Giving => CallSpan(th) = Span(base[th.pool] + th.idx + th.done, th.cnt - th.done)
         /\ th.pc \notin {"flip", "get_unlock"} \cup Got \cup Giving => CallSpan(th) = {}
  BY DEF CallSpan, Got, Giving

(***************************************************************************)
(* The blocks, when a step is not about them.                              *)
(***************************************************************************)

\* A block is in use: somebody has it, or a free() has not yet put it back.
UsedBy(b) ==
    \/ \E u \in Threads : \E h \in held[u] : b = h[1]
    \/ \E u \in Threads : Frees(thread[u]) /\ b = thread[u].old[1]

\* InUse is the set of the blocks in use.
LEMMA InUseIs ==
  \A b : b \in InUse <=> UsedBy(b)
<1>. SUFFICES ASSUME NEW b PROVE b \in InUse <=> UsedBy(b)
  OBVIOUS
<1>. DEFINE H == UNION {{h[1] : h \in held[u]} : u \in Threads}
            F == {thread[u].old[1] : u \in {v \in Threads : thread[v].pc \in {"free", "free_lock"}}}
<1>1. b \in H <=> \E u \in Threads : \E h \in held[u] : b = h[1]
  <2>1. b \in H <=> \E u \in Threads : b \in {h[1] : h \in held[u]}
    OBVIOUS
  <2>. HIDE DEF H
  <2>. QED  BY <2>1
<1>2. b \in F <=> \E u \in Threads : Frees(thread[u]) /\ b = thread[u].old[1]
  <2>1. b \in F <=> \E u \in {v \in Threads : thread[v].pc \in {"free", "free_lock"}} : b = thread[u].old[1]
    OBVIOUS
  <2>. HIDE DEF F
  <2>. QED  BY <2>1 DEF Frees
<1>3. b \in InUse <=> b \in H \/ b \in F
  BY DEF InUse
<1>. HIDE DEF H, F
<1>. QED  BY <1>1, <1>2, <1>3 DEF UsedBy

\* The same after a step.
LEMMA InUseIsNext ==
  (\A b : b \in InUse <=> UsedBy(b))'
BY InUseIs, PTL

\* A step of a thread that is not at a block, and keeps the blocks and their locks.
LEMMA BlocksKept ==
  ASSUME WorkInv, UseInv, ArenaInv, ListInv, NEW t \in Threads, UNCHANGED <<base, mvars>>,
         \A u \in Threads \ {t} : thread'[u] = thread[u],
         \A pool \in Pools : Cnt(pool)' = Cnt(pool),
         \A u \in Threads \ {t}, d \in Descs : owner[DescLock(d)] = u => owner'[DescLock(d)] = u,
         {thread[t].pc, thread'[t].pc} \cap {"free", "free_lock", "free_blocks"} = {},
         WorkOK(t, thread[t])'
  PROVE  WorkInv' /\ UseInv' /\ ArenaInv' /\ ListInv'
<1>1. \A u \in Threads : /\ Frees(thread'[u]) <=> Frees(thread[u])
                         /\ Frees(thread[u]) => thread'[u] = thread[u]
                         /\ \A a : Drains(thread'[u], a) <=> Drains(thread[u], a)
                         /\ thread[u].pc = "free_blocks" \/ thread'[u].pc = "free_blocks" => thread'[u] = thread[u]
                         /\ thread'[u].pc \in {"free", "free_lock"} => thread'[u] = thread[u]
  BY DEF Frees, Drains
<1>2. arenas' = arenas /\ free_list' = free_list /\ data' = data /\ held' = held
  BY DEF mvars
<1>3. \A b : b \in InUse' <=> b \in InUse
  <2>1. \A b : UsedBy(b)' <=> UsedBy(b)
    BY <1>1, <1>2 DEF UsedBy
  <2>. QED  BY <2>1, InUseIs, InUseIsNext
<1>4. WorkInv'
  <2>. SUFFICES ASSUME NEW u \in Threads \ {t} PROVE WorkOK(u, thread[u])'
    BY DEF WorkInv
  <2>1. WorkOK(u, thread[u])
    BY DEF WorkInv
  <2>. QED  BY <2>1, <1>2 DEF WorkOK, Stage
<1>5. UseInv'
  <2>1. \A b : BlockOK(b)' <=> BlockOK(b)
    BY <1>2 DEF BlockOK
  <2>. QED  BY <2>1, <1>1, <1>2 DEF UseInv
<1>6. ArenaInv'
  <2>1. \A page, cnt : InPool(page, cnt)' <=> InPool(page, cnt)
    BY DEF InPool, Whole
  <2>2. \A a, d : FreeBlocks(a, d)' = FreeBlocks(a, d)
    BY <1>3 DEF FreeBlocks
  <2>3. \A a \in DOMAIN arenas : ArenaOK(a)'
    BY <2>1, <2>2, <1>1, <1>2 DEF ArenaInv, ArenaOK
  <2>4. \A u \in Threads : DrainOK(thread[u])'
    BY <1>1, <1>2, <1>3 DEF ArenaInv, DrainOK
  <2>. QED  BY <2>3, <2>4, <1>2 DEF ArenaInv
<1>7. ListInv'
  <2>1. \A d, b : Listed(d, b)' <=> Listed(d, b)
    BY <1>1, <1>2, <1>3 DEF Listed, Drains
  <2>. QED  BY <2>1, <1>2 DEF ListInv
<1>. QED  BY <1>4, <1>5, <1>6, <1>7

\* The others go on as they were where the blocks they work on stay.
LEMMA OtherWork ==
  ASSUME WorkInv, NEW t \in Threads, \A u \in Threads \ {t} : thread'[u] = thread[u],
         \A u \in Threads \ {t}, d \in Descs : owner[DescLock(d)] = u => owner'[DescLock(d)] = u /\ free_list'[d] = free_list[d],
         \A u \in Threads \ {t} : held'[u] = held[u],
         WorkOK(t, thread[t])'
  PROVE  WorkInv'
<1>. SUFFICES ASSUME NEW u \in Threads \ {t} PROVE WorkOK(u, thread[u])'
  BY DEF WorkInv
<1>1. WorkOK(u, thread[u])
  BY DEF WorkInv
<1>. QED  BY <1>1 DEF WorkOK, Stage

(***************************************************************************)
(* The bits of the maps are the pages in use.                              *)
(***************************************************************************)

\* The pools are spans of pages that do not overlap.
LEMMA PoolFacts ==
  ASSUME MapInv
  PROVE  /\ \A pool \in Pools : base[pool] \in Nat /\ Cnt(pool) \in Nat
         /\ \A q, r \in Pools : \A p : p \in Span(base[q], Cnt(q)) /\ p \in Span(base[r], Cnt(r)) => q = r
<1>1. \A pool \in Pools : base[pool] \in Nat /\ Cnt(pool) \in Nat
  BY DEF MapInv, Pools
<1>2. \A p : ~(p \in Span(base["kernel"], Cnt("kernel")) /\ p \in Span(base["user"], Cnt("user")))
  BY <1>1 DEF MapInv, Pools, Span
<1>. QED  BY <1>1, <1>2 DEF Pools

\* The bit of a page says if it is in use.
LEMMA BitOfPage ==
  ASSUME MapInv, NEW pool \in Pools, NEW i \in 0..(Cnt(pool) - 1)
  PROVE  InUsePage(base[pool] + i) <=> base[pool] + i \in usable /\ used_map[pool][i]
<1>1. base[pool] \in Nat /\ Cnt(pool) \in Nat /\ base[pool] + i - base[pool] = i
  BY PoolFacts
<1>2. base[pool] + i \in Span(base[pool], Cnt(pool))
  BY <1>1, InSpan
<1>3. \A r \in Pools : base[pool] + i \in Span(base[r], Cnt(r)) => r = pool
  BY <1>2, PoolFacts
<1>. QED  BY <1>1, <1>2, <1>3 DEF InUsePage

\* A bit that is written is a page that comes into use or is free again.
LEMMA BitUse ==
  ASSUME MapInv, NEW pool \in Pools, NEW i \in 0..(Cnt(pool) - 1), NEW v \in BOOLEAN, UNCHANGED <<base, usable, panic>>,
         SetBit(pool, i, v), base[pool] + i \in usable
  PROVE  /\ MapInv'
         /\ \A p : InUsePage(p)' <=> (p = base[pool] + i /\ v) \/ (p # base[pool] + i /\ InUsePage(p))
<1>1. base[pool] \in Nat /\ Cnt(pool) \in Nat /\ \A q \in Pools : base[q] \in Nat /\ Cnt(q) \in Nat
  BY PoolFacts
<1>a. /\ used_map' = [q \in Pools |-> used_map'[q]]
      /\ \A q \in Pools : Cnt(q)' = Cnt(q) /\ used_map'[q] = [j \in 0..(Cnt(q) - 1) |-> used_map'[q][j]]
      /\ used_map'[pool][i] = v
      /\ \A q \in Pools : \A j \in 0..(Cnt(q) - 1) : q # pool \/ j # i => used_map'[q][j] = used_map[q][j]
  BY BitChanged
<1>b. \A q \in Pools : \A j \in 0..(Cnt(q) - 1) :
        used_map'[q][j] \in BOOLEAN /\ (~used_map'[q][j] => base[q] + j \in usable)
  BY <1>a DEF MapInv
<1>2. MapInv'
  <2>1. used_map' = [q \in Pools |-> [j \in 0..(Cnt(q)' - 1) |-> used_map'[q][j]]]
    BY <1>a
  <2>2. base'["kernel"] + Cnt("kernel")' <= base'["user"] /\ panic' = FALSE
    BY <1>a DEF MapInv, Pools
  <2>. QED  BY <1>1, <1>a, <1>b, <2>1, <2>2 DEF MapInv, Pools
<1>3. \A p : \A q \in Pools : q # pool \/ p # base[pool] + i =>
        (p \in Span(base[q], Cnt(q)) => used_map'[q][p - base[q]] = used_map[q][p - base[q]])
  <2>. SUFFICES ASSUME NEW p, NEW q \in Pools, q # pool \/ p # base[pool] + i, p \in Span(base[q], Cnt(q))
                PROVE  used_map'[q][p - base[q]] = used_map[q][p - base[q]]
    OBVIOUS
  <2>1. p \in Int /\ base[q] <= p /\ p < base[q] + Cnt(q)
    BY <1>1, InSpan
  <2>2. p - base[q] \in 0..(Cnt(q) - 1) /\ (q = pool => p - base[q] # i)
    BY <1>1, <2>1
  <2>. QED  BY <2>2, <1>a
<1>4. \A q \in Pools : Cnt(q)' = Cnt(q)
  BY <1>a
<1>5. \A p : p # base[pool] + i => (InUsePage(p)' <=> InUsePage(p))
  BY <1>3, <1>4 DEF InUsePage
<1>6. InUsePage(base[pool] + i)' <=> v
  <2>1. (base[pool] + i)' = base[pool] + i /\ base[pool] + i - base[pool] = i
    BY <1>1
  <2>2. base[pool] + i \in Span(base[pool], Cnt(pool))
    BY <1>1, InSpan
  <2>3. \A r \in Pools : base[pool] + i \in Span(base[r], Cnt(r)) => r = pool
    BY <2>2, PoolFacts
  <2>. DEFINE k == base[pool] + i
  <2>4. InUsePage(k)' <=> \E q \in Pools : k \in Span(base[q], Cnt(q)) /\ used_map'[q][k - base[q]]
    BY <1>4 DEF InUsePage
  <2>5. used_map'[pool][k - base[pool]] = v
    <3>1. k - base[pool] = i
      BY <1>1
    <3>. QED  BY <1>a, <3>1
  <2>. HIDE DEF k
  <2>6. k \in Span(base[pool], Cnt(pool)) /\ \A r \in Pools : k \in Span(base[r], Cnt(r)) => r = pool
    BY <2>2, <2>3 DEF k
  <2>7. InUsePage(k)' <=> v
    BY <2>4, <2>5, <2>6
  <2>. QED  BY <2>7 DEF k
<1>. QED  BY <1>2, <1>5, <1>6

(***************************************************************************)
(* The statements of palloc_get_multiple() and palloc_free_multiple().     *)
(***************************************************************************)

\* Desc locks as they were.
DescLocksKept == \A u \in Threads, d \in Descs : owner[DescLock(d)] = u => owner'[DescLock(d)] = u

\* A step inside of a call of Palloc does not touch blocks.
LEMMA PallocFrame ==
  ASSUME WorkInv, UseInv, ArenaInv, ListInv, CallInv, NEW t \in Threads, NEW th,
         Goto(t, th), th = [f \in Locals |-> th[f]], UNCHANGED <<base, mvars>>,
         thread[t].pc \in Getting \cup Giving, Stage(th) = thread[t].ret,
         th.pc \notin {"free", "free_lock", "free_blocks"},
         th.size = thread[t].size, th.call = thread[t].call, th.old = thread[t].old, th.cnt = thread[t].cnt,
         \A pool \in Pools : Cnt(pool)' = Cnt(pool), DescLocksKept
  PROVE  WorkInv' /\ UseInv' /\ ArenaInv' /\ ListInv'
<1>1. thread'[t] = th /\ \A u \in Threads \ {t} : thread'[u] = thread[u]
  BY Stepped
<1>2. Stage(th) = Stage(thread[t])
  BY DEF Stage
<1>3. WorkOK(t, thread[t])
  BY DEF WorkInv
<1>4. free_list' = free_list /\ held' = held
  BY DEF mvars
<1>5. WorkOK(t, thread[t])'
  BY <1>1, <1>2, <1>3, <1>4 DEF WorkOK, Stage, DescLocksKept
<1>6. {thread[t].pc, thread'[t].pc} \cap {"free", "free_lock", "free_blocks"} = {}
  BY <1>1 DEF Getting, Giving
<1>. QED  BY <1>1, <1>5, <1>6, BlocksKept DEF DescLocksKept

\* The pages of a call depend on its locals and on base only.
LEMMA SpanNext ==
  ASSUME NEW t \in Threads, UNCHANGED base
  PROVE  CallSpan(thread[t])' = CallSpan(thread'[t])
  BY DEF CallSpan

\* Nobody's pages change.
LEMMA StillPages ==
  ASSUME MapInv, PageInv, NEW t \in Threads, UNCHANGED <<base, usable, used_map, groups, arenas>>,
         \A u \in Threads \ {t} : thread'[u] = thread[u], CallSpan(thread'[t]) = CallSpan(thread[t]), GroupInv
  PROVE  PageInv'
<1>1. \A p : CallsKept(p, {t}) /\ ArenasKept(p) /\ UseKept(p)
  BY OtherSpans, ArenasKeptAll, UseKeptAll
<1>2. \A p : GroupsKept(p)
  BY MapKept DEF GroupsKept, GroupHas
<1>3. \A p : CallHas(t, p)' <=> CallHas(t, p)
  BY SpanNext DEF CallHas
<1>4. \A p : CallsKept(p, {})
  BY <1>1, <1>3 DEF CallsKept
<1>. QED  BY <1>1, <1>2, <1>4, SamePages

\* palloc_get_multiple(): lock_acquire().
LEMMA GetLockKeeps ==
  ASSUME MemInv, NEW t \in Threads, GetLock(t), UNCHANGED <<base, usable, mvars>>
  PROVE  MemInv'
<1>. DEFINE th == [thread[t] EXCEPT !.pc = "scan"]
<1>1. thread[t].pc = "get_lock" /\ Goto(t, th) /\ Hold(t, PoolLock(thread[t].pool))
      /\ UNCHANGED <<used_map, groups, panic>> /\ CallOK(t, thread[t]) /\ thread[t] = [f \in Locals |-> thread[t][f]]
  BY DEF GetLock, At, MemInv, CallInv
<1>2. /\ th = [f \in Locals |-> th[f]] /\ th.pc = "scan" /\ th.pool = thread[t].pool /\ th.cnt = thread[t].cnt
      /\ th.idx = thread[t].idx /\ th.done = thread[t].done /\ th.ret = thread[t].ret
      /\ th.call = thread[t].call /\ th.size = thread[t].size /\ th.old = thread[t].old
  BY <1>1, LocalsAre
<1>. HIDE DEF th
<1>3. thread'[t] = th /\ \A u \in Threads \ {t} : thread'[u] = thread[u]
  BY <1>1, <1>2, Stepped DEF MemInv
<1>4. thread[t].pool \in Pools
  BY <1>1 DEF CallOK
<1>5. LockInv' /\ owner'[PoolLock(thread[t].pool)] = t /\ \A u \in Threads, k \in Locks : owner[k] = u => owner'[k] = u
  BY <1>1, <1>4, LockTaken, LockNames DEF MemInv
<1>6. MapInv' /\ \A pool \in Pools : Cnt(pool)' = Cnt(pool)
  BY <1>1, MapKept DEF MemInv
<1>7. CallOK(t, thread[t])'
  BY <1>1, <1>2, <1>3, <1>5 DEF CallOK, Getting, Giving, Got
<1>8. CallInv'
  <2>1. \A u \in Threads \ {t} : CallOK(u, thread[u])'
    BY <1>1, <1>3, <1>5, <1>6, OtherCalls, LockNames DEF MemInv
  <2>. QED  BY <1>1, <1>2, <1>7, <2>1, CallStepped DEF MemInv
<1>9. PageInv'
  <2>1. CallSpan(thread[t]) = {} /\ CallSpan(thread'[t]) = {}
    BY <1>1, <1>2, <1>3, Spans DEF Got, Giving
  <2>. QED  BY <1>1, <1>3, <2>1, StillPages DEF MemInv, mvars
<1>10. GroupInv'
  BY <1>1, <1>6, GroupsKeptInv DEF MemInv
<1>11. WorkInv' /\ UseInv' /\ ArenaInv' /\ ListInv'
  <2>1. Stage(th) = thread[t].ret /\ thread[t].pc \in Getting \cup Giving
    BY <1>1, <1>2 DEF Stage, Getting, Giving
  <2>2. DescLocksKept
    BY <1>5, LockNames DEF DescLocksKept
  <2>. QED  BY <1>1, <1>2, <1>6, <2>1, <2>2, PallocFrame DEF MemInv
<1>. QED  BY <1>5, <1>6, <1>8, <1>9, <1>10, <1>11 DEF MemInv

\* palloc_get_multiple(): bitmap_scan() looks at the next start. When it stops at one, all
\* its bits are clear, and stay so: they are cleared without the lock and set with it.
LEMMA ScanKeeps ==
  ASSUME MemInv, NEW t \in Threads, Scan(t), UNCHANGED <<base, usable, mvars>>
  PROVE  MemInv'
<1>. DEFINE b == used_map[thread[t].pool]
            th == IF thread[t].idx + thread[t].cnt > BitCnt(b) THEN [thread[t] EXCEPT !.pc = "get_unlock", !.idx = BITMAP_ERROR]
                  ELSE IF BitmapContains(b, thread[t].idx, thread[t].cnt, TRUE) THEN [thread[t] EXCEPT !.idx = @ + 1]
                  ELSE [thread[t] EXCEPT !.pc = "flip"]
<1>1. thread[t].pc = "scan" /\ Goto(t, th) /\ UNCHANGED <<used_map, owner, groups, panic>>
      /\ CallOK(t, thread[t]) /\ thread[t] = [f \in Locals |-> thread[t][f]]
  BY DEF Scan, At, MemInv, CallInv
<1>2. /\ th = [f \in Locals |-> th[f]] /\ th.pool = thread[t].pool /\ th.cnt = thread[t].cnt
      /\ th.done = thread[t].done /\ th.ret = thread[t].ret
      /\ th.call = thread[t].call /\ th.size = thread[t].size /\ th.old = thread[t].old
  BY <1>1, LocalsAre
<1>a. thread[t].pool \in Pools /\ thread[t].done = 0 /\ thread[t].idx \in Nat /\ thread[t].cnt \in Nat \ {0}
      /\ owner[PoolLock(thread[t].pool)] = t /\ thread[t].ret \in Got
  BY <1>1 DEF CallOK, Getting
<1>b. Cnt(thread[t].pool) = BitCnt(b) /\ Cnt(thread[t].pool) \in Nat
  BY <1>a, PoolFacts DEF Cnt, MemInv
<1>3. \/ th.pc = "get_unlock" /\ th.idx = BITMAP_ERROR
      \/ th.pc = "scan" /\ th.idx = thread[t].idx + 1
      \/ th.pc = "flip" /\ th.idx = thread[t].idx
  BY <1>1, LocalsAre
<1>c. th.pc = "flip" =>
        thread[t].idx + thread[t].cnt <= Cnt(thread[t].pool) /\ ~BitmapContains(b, thread[t].idx, thread[t].cnt, TRUE)
  <2>. DEFINE over == thread[t].idx + thread[t].cnt > BitCnt(b)
  <2>1. over => th.pc = "get_unlock"
    BY <1>1, LocalsAre
  <2>2. ~over /\ BitmapContains(b, thread[t].idx, thread[t].cnt, TRUE) => th.pc = "scan"
    BY <1>1, LocalsAre
  <2>3. ~over => thread[t].idx + thread[t].cnt <= Cnt(thread[t].pool)
    BY <1>a, <1>b
  <2>. HIDE DEF over, th
  <2>. QED  BY <2>1, <2>2, <2>3
<1>. HIDE DEF th
<1>4. thread'[t] = th /\ \A u \in Threads \ {t} : thread'[u] = thread[u]
  BY <1>1, <1>2, Stepped DEF MemInv
<1>6. MapInv' /\ LockInv' /\ \A pool \in Pools : Cnt(pool)' = Cnt(pool)
  BY <1>1, MapKept DEF MemInv, LockInv
<1>7. CallOK(t, thread[t])'
  <2>2. th.pc = "flip" => \A i \in Nat : i >= th.idx + th.done /\ i < th.idx + th.cnt => ~used_map[th.pool][i]
    <3>. SUFFICES ASSUME th.pc = "flip", NEW i \in Nat, i >= th.idx + th.done, i < th.idx + th.cnt
                  PROVE  ~used_map[th.pool][i]
      OBVIOUS
    <3>1. i >= thread[t].idx /\ i < thread[t].idx + thread[t].cnt /\ i \in 0..(Cnt(thread[t].pool) - 1)
      BY <1>2, <1>3, <1>a, <1>b, <1>c
    <3>2. used_map[thread[t].pool][i] \in BOOLEAN /\ i \in DOMAIN b
      BY <3>1, <1>a DEF MemInv, MapInv
    <3>. QED  BY <1>2, <1>3, <1>c, <3>1, <3>2 DEF BitmapContains
  <2>3. th.pc = "flip" => th.idx + th.cnt <= Cnt(th.pool)
    BY <1>2, <1>3, <1>a, <1>b, <1>c
  <2>4. th.idx \in Nat \/ th.pc = "get_unlock"
    BY <1>3, <1>a
  <2>5. CallOK(t, th)
    BY <1>2, <1>3, <1>a, <2>2, <2>3, <2>4 DEF CallOK, Getting, Giving, Got
  <2>. QED  BY <1>1, <1>4, <1>6, <2>5 DEF CallOK
<1>8. CallInv'
  <2>1. \A u \in Threads \ {t} : CallOK(u, thread[u])'
    BY <1>1, <1>4, <1>6, OtherCalls DEF MemInv
  <2>. QED  BY <1>1, <1>2, <1>7, <2>1, CallStepped DEF MemInv
<1>9. PageInv'
  <2>1. CallSpan(thread[t]) = {}
    BY <1>1, Spans DEF Got, Giving
  <2>2. base[th.pool] + th.idx \in Int \/ th.pc = "get_unlock"
    BY <1>2, <1>3, <1>a, PoolFacts DEF MemInv
  <2>3. CallSpan(th) = {}
    <3>1. CASE th.pc = "flip"
      BY <3>1, <1>2, <1>a, <2>2, Spans DEF Span
    <3>. QED  BY <1>3, <3>1, Spans DEF Got, Giving
  <2>. QED  BY <1>1, <1>4, <2>1, <2>3, StillPages DEF MemInv, mvars
<1>10. GroupInv'
  BY <1>1, <1>6, GroupsKeptInv DEF MemInv
<1>11. WorkInv' /\ UseInv' /\ ArenaInv' /\ ListInv'
  <2>1. Stage(th) = thread[t].ret /\ thread[t].pc \in Getting \cup Giving
    BY <1>1, <1>2, <1>3 DEF Stage, Getting, Giving
  <2>2. DescLocksKept /\ th.pc \notin {"free", "free_lock", "free_blocks"}
    BY <1>1, <1>3 DEF DescLocksKept
  <2>. QED  BY <1>1, <1>2, <1>6, <2>1, <2>2, PallocFrame DEF MemInv
<1>. QED  BY <1>6, <1>8, <1>9, <1>10, <1>11 DEF MemInv

\* A span with a page more.
LEMMA SpanGrows ==
  ASSUME NEW first \in Int, NEW n \in Nat, NEW p
  PROVE  p \in Span(first, n + 1) <=> p \in Span(first, n) \/ p = first + n
  BY DEF Span

\* A span without its first page.
LEMMA SpanShrinks ==
  ASSUME NEW first \in Int, NEW n \in Nat \ {0}, NEW p
  PROVE  p \in Span(first + 1, n - 1) <=> p \in Span(first, n) /\ p # first
  BY DEF Span

\* palloc_get_multiple(): bitmap_set_multiple() sets a bit, which was clear.
LEMMA FlipKeeps ==
  ASSUME MemInv, NEW t \in Threads, Flip(t), UNCHANGED <<base, usable, mvars>>
  PROVE  MemInv'
<1>. DEFINE o == thread[t]
            th == [o EXCEPT !.done = @ + 1, !.pc = IF o.done + 1 = o.cnt THEN "get_unlock" ELSE "flip"]
            i == o.idx + o.done
            k == base[o.pool] + i
<1>1. o.pc = "flip" /\ Goto(t, th) /\ UNCHANGED <<owner, groups, panic>>
      /\ SetBit(o.pool, i, TRUE) /\ CallOK(t, o) /\ o = [f \in Locals |-> o[f]]
  BY DEF Flip, At, MemInv, CallInv, SetBit
<1>2. /\ th = [f \in Locals |-> th[f]] /\ th.pool = o.pool /\ th.cnt = o.cnt /\ th.idx = o.idx
      /\ th.done = o.done + 1 /\ th.ret = o.ret
      /\ th.call = o.call /\ th.size = o.size /\ th.old = o.old
      /\ th.pc = IF o.done + 1 = o.cnt THEN "get_unlock" ELSE "flip"
  BY <1>1, LocalsAre
<1>. HIDE DEF th, o
<1>3. thread'[t] = th /\ o = thread[t] /\ \A u \in Threads \ {t} : thread'[u] = thread[u]
  BY <1>1, <1>2, Stepped DEF MemInv, o
<1>4. /\ o.pool \in Pools /\ o.done \in Nat /\ o.idx \in Nat /\ o.cnt \in Nat \ {0} /\ o.idx + o.cnt <= Cnt(o.pool)
      /\ o.done < o.cnt /\ owner[PoolLock(o.pool)] = t /\ o.ret \in Got
      /\ \A j \in Nat : j >= o.idx + o.done /\ j < o.idx + o.cnt => ~used_map[o.pool][j]
  BY <1>1 DEF CallOK, Getting
<1>5. base[o.pool] \in Nat /\ Cnt(o.pool) \in Nat /\ i \in 0..(Cnt(o.pool) - 1) /\ i < o.idx + o.cnt /\ i >= o.idx + o.done
  BY <1>4, PoolFacts DEF MemInv
<1>6. ~used_map[o.pool][i] /\ k \in usable
  <2>1. \A j \in 0..(Cnt(o.pool) - 1) : ~used_map[o.pool][j] => base[o.pool] + j \in usable
    BY <1>4 DEF MemInv, MapInv
  <2>. QED  BY <1>4, <1>5, <2>1
<1>. HIDE DEF k
<1>7. MapInv' /\ \A p : InUsePage(p)' <=> p = k \/ InUsePage(p)
  BY <1>1, <1>4, <1>5, <1>6, BitUse DEF MemInv, k
<1>8. /\ LockInv' /\ \A pool \in Pools : Cnt(pool)' = Cnt(pool)
      /\ used_map'[o.pool][i] = TRUE
      /\ \A q \in Pools : \A j \in 0..(Cnt(q) - 1) : q # o.pool \/ j # i => used_map'[q][j] = used_map[q][j]
  BY <1>1, <1>4, <1>5, BitChanged DEF MemInv, LockInv
<1>9. CallOK(t, thread[t])'
  <2>1. th.pc = "flip" => \A j \in Nat : j >= th.idx + th.done /\ j < th.idx + th.cnt => ~used_map'[th.pool][j]
    <3>. SUFFICES ASSUME NEW j \in Nat, j >= th.idx + th.done, j < th.idx + th.cnt PROVE ~used_map'[th.pool][j]
      OBVIOUS
    <3>1. j >= o.idx + o.done /\ j < o.idx + o.cnt /\ j \in 0..(Cnt(o.pool) - 1) /\ j # i
      BY <1>2, <1>4, <1>5
    <3>. QED  BY <1>2, <1>4, <1>8, <3>1
  <2>2. th.idx + th.cnt <= Cnt(th.pool) /\ (th.pc = "flip" => th.done < th.cnt) /\ th.done \in Nat /\ th.idx \in Nat
    BY <1>2, <1>4
  <2>3. \A pool \in Pools : th.pool = pool => th.idx + th.cnt <= Cnt(pool)'
    BY <1>2, <1>4, <1>8, <2>2
  <2>. QED  BY <1>1, <1>2, <1>3, <1>4, <2>1, <2>2, <2>3 DEF CallOK, Getting, Giving, Got
<1>10. CallInv'
  <2>1. \A u \in Threads \ {t}, pool \in Pools : owner[PoolLock(pool)] = u =>
          owner'[PoolLock(pool)] = u /\ \A j \in 0..(Cnt(pool) - 1) : ~used_map[pool][j] => ~used_map'[pool][j]
    <3>. SUFFICES ASSUME NEW u \in Threads \ {t}, NEW pool \in Pools, owner[PoolLock(pool)] = u
                  PROVE  pool # o.pool
      BY <1>1, <1>8
    <3>. QED  BY <1>4
  <2>2. \A u \in Threads \ {t} : CallOK(u, thread[u])'
    BY <1>3, <1>8, <2>1, OtherCalls DEF MemInv
  <2>. QED  BY <1>1, <1>2, <1>9, <2>2, CallStepped DEF MemInv
<1>11. PageInv'
  <2>1. ~InUsePage(k)
    BY <1>4, <1>5, <1>6, BitOfPage DEF MemInv, k
  <2>2. CallSpan(o) = Span(base[o.pool] + o.idx, o.done) /\ CallSpan(th) = Span(base[o.pool] + o.idx, o.done + 1)
    <3>1. th.idx # BITMAP_ERROR
      BY <1>2, <1>4 DEF BITMAP_ERROR
    <3>2. CASE th.pc = "flip"
      BY <1>1, <1>2, <3>2, Spans
    <3>3. CASE th.pc = "get_unlock"
      <4>1. th.cnt = o.done + 1
        BY <1>2, <3>3
      <4>. QED  BY <1>1, <1>2, <3>1, <3>3, <4>1, Spans
    <3>. QED  BY <1>2, <3>2, <3>3
  <2>3. \A p : p \in CallSpan(th) <=> p \in CallSpan(o) \/ p = k
    <3>1. base[o.pool] + o.idx \in Int /\ k = base[o.pool] + o.idx + o.done
      BY <1>4, <1>5 DEF k
    <3>. QED  BY <2>2, <1>4, <3>1, SpanGrows
  <2>4. \A p : CallHas(t, p)' <=> CallHas(t, p) \/ p = k
    BY <1>3, <2>3, SpanNext DEF CallHas
  <2>5. \A p : CallsKept(p, {t}) /\ ArenasKept(p) /\ GroupsKept(p)
    BY <1>1, <1>3, <1>8, OtherSpans, ArenasKeptAll, GroupsKeptInv DEF MemInv, mvars
  <2>. QED  BY <1>7, <2>1, <2>4, <2>5, PageTaken DEF MemInv
<1>12. GroupInv'
  BY <1>1, <1>8, GroupsKeptInv DEF MemInv
<1>13. WorkInv' /\ UseInv' /\ ArenaInv' /\ ListInv'
  <2>1. Stage(th) = thread[t].ret /\ thread[t].pc \in Getting \cup Giving
    BY <1>1, <1>2, <1>3 DEF Stage, Getting, Giving
  <2>2. DescLocksKept /\ th.pc \notin {"free", "free_lock", "free_blocks"}
    BY <1>1, <1>2 DEF DescLocksKept
  <2>. QED  BY <1>1, <1>2, <1>3, <1>8, <2>1, <2>2, PallocFrame DEF MemInv
<1>. QED  BY <1>7, <1>8, <1>10, <1>11, <1>12, <1>13 DEF MemInv

\* palloc_get_multiple(): lock_release().
LEMMA GetUnlockKeeps ==
  ASSUME MemInv, NEW t \in Threads, GetUnlock(t), UNCHANGED <<base, usable, mvars>>
  PROVE  MemInv'
<1>. DEFINE o == thread[t]
            th == [o EXCEPT !.pc = o.ret]
<1>1. o.pc = "get_unlock" /\ Goto(t, th) /\ ReleaseLock(PoolLock(o.pool)) /\ UNCHANGED <<used_map, groups, panic>>
      /\ CallOK(t, o) /\ o = [f \in Locals |-> o[f]]
  BY DEF GetUnlock, At, MemInv, CallInv
<1>2. /\ th = [f \in Locals |-> th[f]] /\ th.pc = o.ret /\ th.pool = o.pool /\ th.cnt = o.cnt
      /\ th.idx = o.idx /\ th.done = o.done /\ th.ret = o.ret
      /\ th.call = o.call /\ th.size = o.size /\ th.old = o.old
  BY <1>1, LocalsAre
<1>. HIDE DEF th, o
<1>3. thread'[t] = th /\ o = thread[t] /\ \A u \in Threads \ {t} : thread'[u] = thread[u]
  BY <1>1, <1>2, Stepped DEF MemInv, o
<1>4. o.pool \in Pools /\ owner[PoolLock(o.pool)] = t /\ o.cnt \in Nat \ {0} /\ o.ret \in Got
      /\ (o.idx = BITMAP_ERROR \/ (o.idx \in Nat /\ o.idx + o.cnt <= Cnt(o.pool)))
  BY <1>1 DEF CallOK, Getting
<1>5. LockInv' /\ (\A u \in Threads \ {t}, k \in Locks : owner[k] = u => owner'[k] = u)
      /\ \A k \in Locks \ {PoolLock(o.pool)} : owner'[k] = owner[k]
  BY <1>1, <1>4, LockReleased, LockNames DEF MemInv
<1>6. MapInv' /\ \A pool \in Pools : Cnt(pool)' = Cnt(pool)
  BY <1>1, MapKept DEF MemInv
<1>7. CallOK(t, thread[t])'
  BY <1>1, <1>2, <1>3, <1>4, <1>6 DEF CallOK, Getting, Giving, Got
<1>8. CallInv'
  <2>1. \A u \in Threads \ {t} : CallOK(u, thread[u])'
    BY <1>1, <1>3, <1>5, <1>6, OtherCalls, LockNames DEF MemInv
  <2>. QED  BY <1>1, <1>2, <1>7, <2>1, CallStepped DEF MemInv
<1>9. PageInv'
  <2>1. CallSpan(o) = CallSpan(th)
    BY <1>1, <1>2, <1>4, Spans
  <2>. QED  BY <1>1, <1>3, <2>1, StillPages DEF MemInv, mvars
<1>10. GroupInv'
  BY <1>1, <1>6, GroupsKeptInv DEF MemInv
<1>11. WorkInv' /\ UseInv' /\ ArenaInv' /\ ListInv'
  <2>1. Stage(th) = thread[t].ret /\ thread[t].pc \in Getting \cup Giving /\ th.pc \notin {"free", "free_lock", "free_blocks"}
    BY <1>1, <1>2, <1>3, <1>4 DEF Stage, Getting, Giving, Got
  <2>2. DescLocksKept
    BY <1>4, <1>5, LockNames DEF DescLocksKept
  <2>. QED  BY <1>1, <1>2, <1>3, <1>6, <2>1, <2>2, PallocFrame DEF MemInv
<1>. QED  BY <1>5, <1>6, <1>8, <1>9, <1>10, <1>11 DEF MemInv

\* The pages a call gives back are in use.
LEMMA GivenInUse ==
  ASSUME MemInv, NEW t \in Threads, thread[t].pc \in Giving,
         NEW i \in Nat, i >= thread[t].idx + thread[t].done, i < thread[t].idx + thread[t].cnt
  PROVE  /\ CallHas(t, base[thread[t].pool] + i) /\ InUsePage(base[thread[t].pool] + i)
         /\ i \in 0..(Cnt(thread[t].pool) - 1)
         /\ used_map[thread[t].pool][i] /\ base[thread[t].pool] + i \in usable
<1>. DEFINE o == thread[t]
<1>1. CallOK(t, o)
  BY DEF MemInv, CallInv
<1>2. o.pool \in Pools /\ o.idx \in Nat /\ o.done \in Nat /\ o.cnt \in Nat \ {0} /\ o.idx + o.cnt <= Cnt(o.pool) /\ o.done < o.cnt
  BY <1>1 DEF CallOK
<1>3. base[o.pool] \in Nat /\ Cnt(o.pool) \in Nat
  BY <1>2, PoolFacts DEF MemInv
<1>4. CallSpan(o) = Span(base[o.pool] + o.idx + o.done, o.cnt - o.done)
  BY Spans
<1>5. i \in 0..(Cnt(o.pool) - 1) /\ base[o.pool] + i \in Span(base[o.pool] + o.idx + o.done, o.cnt - o.done)
  BY <1>2, <1>3 DEF Span
<1>6. CallHas(t, base[o.pool] + i)
  BY <1>4, <1>5 DEF CallHas
<1>7. InUsePage(base[o.pool] + i)
  BY <1>6 DEF MemInv, PageInv, Claimed
<1>8. base[o.pool] + i \in usable /\ used_map[o.pool][i]
  BY <1>2, <1>5, <1>7, BitOfPage DEF MemInv
<1>. QED  BY <1>5, <1>6, <1>7, <1>8

\* palloc_free_multiple(): the pool is found and the assertion on its bits holds.
LEMMA FreePagesKeeps ==
  ASSUME MemInv, NEW t \in Threads, FreePages(t), UNCHANGED <<base, usable, mvars>>
  PROVE  MemInv'
<1>. DEFINE o == thread[t]
            th == [o EXCEPT !.pc = "clear"]
            found == /\ \E pool \in Pools : PageFromPool(pool, base[o.pool] + o.idx)
                     /\ BitmapAll(used_map[o.pool], o.idx, o.cnt)
<1>1. o.pc = "free_pages" /\ Goto(t, th) /\ panic' = ~found /\ UNCHANGED <<used_map, owner, groups>>
      /\ CallOK(t, o) /\ o = [f \in Locals |-> o[f]]
  BY DEF FreePages, At, MemInv, CallInv
<1>2. /\ th = [f \in Locals |-> th[f]] /\ th.pc = "clear" /\ th.pool = o.pool /\ th.cnt = o.cnt
      /\ th.idx = o.idx /\ th.done = o.done /\ th.ret = o.ret
      /\ th.call = o.call /\ th.size = o.size /\ th.old = o.old
  BY <1>1, LocalsAre
<1>3. o.pool \in Pools /\ o.idx \in Nat /\ o.done = 0 /\ o.cnt \in Nat \ {0} /\ o.idx + o.cnt <= Cnt(o.pool)
  BY <1>1 DEF CallOK, Giving
<1>4. found
  <2>1. base[o.pool] \in Nat /\ Cnt(o.pool) \in Nat /\ Cnt(o.pool) = BitCnt(used_map[o.pool])
    BY <1>3, PoolFacts DEF MemInv, Cnt
  <2>2. PageFromPool(o.pool, base[o.pool] + o.idx)
    BY <1>3, <2>1 DEF PageFromPool
  <2>3. DOMAIN used_map[o.pool] = 0..(Cnt(o.pool) - 1)
    BY <1>3 DEF MemInv, MapInv
  <2>4. \A i \in DOMAIN used_map[o.pool] : o.idx <= i /\ i < o.idx + o.cnt => used_map[o.pool][i]
    <3>. SUFFICES ASSUME NEW i \in DOMAIN used_map[o.pool], o.idx <= i, i < o.idx + o.cnt PROVE used_map[o.pool][i]
      OBVIOUS
    <3>1. i \in Nat /\ i >= o.idx + o.done
      BY <2>1, <2>3, <1>3
    <3>2. o.pc \in Giving
      BY <1>1 DEF Giving
    <3>. QED  BY <3>1, <3>2, GivenInUse
  <2>5. BitmapAll(used_map[o.pool], o.idx, o.cnt)
    BY <2>4 DEF BitmapAll, BitmapContains
  <2>. QED  BY <1>3, <2>2, <2>5
<1>5. panic' = panic
  BY <1>1, <1>4 DEF MemInv, MapInv
<1>. HIDE DEF th, o, found
<1>6. thread'[t] = th /\ o = thread[t] /\ \A u \in Threads \ {t} : thread'[u] = thread[u]
  BY <1>1, <1>2, Stepped DEF MemInv, o
<1>7. MapInv' /\ LockInv' /\ \A pool \in Pools : Cnt(pool)' = Cnt(pool)
  BY <1>1, <1>5, MapKept DEF MemInv, LockInv
<1>8. CallOK(t, thread[t])'
  BY <1>1, <1>2, <1>3, <1>6, <1>7 DEF CallOK, Getting, Giving, Got
<1>9. CallInv'
  <2>1. \A u \in Threads \ {t} : CallOK(u, thread[u])'
    BY <1>1, <1>6, <1>7, OtherCalls DEF MemInv
  <2>. QED  BY <1>1, <1>2, <1>8, <2>1, CallStepped DEF MemInv
<1>10. PageInv'
  <2>1. CallSpan(o) = CallSpan(th)
    BY <1>1, <1>2, Spans DEF Giving
  <2>. QED  BY <1>1, <1>6, <2>1, StillPages DEF MemInv, mvars
<1>11. GroupInv'
  BY <1>1, <1>7, GroupsKeptInv DEF MemInv
<1>12. WorkInv' /\ UseInv' /\ ArenaInv' /\ ListInv'
  <2>1. Stage(th) = thread[t].ret /\ thread[t].pc \in Getting \cup Giving /\ th.pc \notin {"free", "free_lock", "free_blocks"}
    BY <1>1, <1>2, <1>6 DEF Stage, Getting, Giving
  <2>2. DescLocksKept
    BY <1>1 DEF DescLocksKept
  <2>. QED  BY <1>1, <1>2, <1>6, <1>7, <2>1, <2>2, PallocFrame DEF MemInv
<1>. QED  BY <1>7, <1>9, <1>10, <1>11, <1>12 DEF MemInv

\* palloc_free_multiple(): bitmap_set_multiple() clears a bit, without the lock.
LEMMA ClearKeeps ==
  ASSUME MemInv, NEW t \in Threads, Clear(t), UNCHANGED <<base, usable, mvars>>
  PROVE  MemInv'
<1>. DEFINE o == thread[t]
            th == [o EXCEPT !.done = @ + 1, !.pc = IF o.done + 1 = o.cnt THEN o.ret ELSE "clear"]
            i == o.idx + o.done
            k == base[o.pool] + i
<1>1. o.pc = "clear" /\ Goto(t, th) /\ UNCHANGED <<owner, groups, panic>>
      /\ SetBit(o.pool, i, FALSE) /\ CallOK(t, o) /\ o = [f \in Locals |-> o[f]]
  BY DEF Clear, At, MemInv, CallInv, SetBit
<1>2. /\ th = [f \in Locals |-> th[f]] /\ th.pool = o.pool /\ th.cnt = o.cnt /\ th.idx = o.idx
      /\ th.done = o.done + 1 /\ th.ret = o.ret
      /\ th.call = o.call /\ th.size = o.size /\ th.old = o.old
      /\ th.pc = IF o.done + 1 = o.cnt THEN o.ret ELSE "clear"
  BY <1>1, LocalsAre
<1>3. /\ o.pool \in Pools /\ o.done \in Nat /\ o.idx \in Nat /\ o.cnt \in Nat \ {0} /\ o.idx + o.cnt <= Cnt(o.pool)
      /\ o.done < o.cnt /\ o.ret \in {"idle", "free_unlock"}
  BY <1>1 DEF CallOK, Giving
<1>4. i \in Nat /\ i >= o.idx + o.done /\ i < o.idx + o.cnt
  BY <1>3
<1>5. i \in 0..(Cnt(o.pool) - 1) /\ k \in usable /\ CallHas(t, k) /\ InUsePage(k)
  <2>1. o.pc \in Giving
    BY <1>1 DEF Giving
  <2>. QED  BY <1>4, <2>1, GivenInUse
<1>. HIDE DEF th, o
<1>6. thread'[t] = th /\ o = thread[t] /\ \A u \in Threads \ {t} : thread'[u] = thread[u]
  BY <1>1, <1>2, Stepped DEF MemInv, o
<1>7. base[o.pool] \in Nat /\ Cnt(o.pool) \in Nat
  BY <1>3, PoolFacts DEF MemInv
<1>. HIDE DEF k
<1>8. MapInv' /\ \A p : InUsePage(p)' <=> InUsePage(p) /\ p # k
  BY <1>1, <1>3, <1>5, BitUse DEF MemInv, k
<1>9. /\ LockInv' /\ \A pool \in Pools : Cnt(pool)' = Cnt(pool)
      /\ used_map'[o.pool][i] = FALSE
      /\ \A q \in Pools : \A j \in 0..(Cnt(q) - 1) : q # o.pool \/ j # i => used_map'[q][j] = used_map[q][j]
  BY <1>1, <1>3, <1>5, BitChanged DEF MemInv, LockInv
<1>10. CallOK(t, thread[t])'
  <2>1. (th.pc = "clear" => th.done < th.cnt) /\ th.done \in Nat /\ th.idx \in Nat
    BY <1>2, <1>3
  <2>2. \A pool \in Pools : th.pool = pool => th.idx + th.cnt <= Cnt(pool)'
    BY <1>2, <1>3, <1>9
  <2>. QED  BY <1>2, <1>3, <1>6, <2>1, <2>2 DEF CallOK, Getting, Giving, Got
<1>11. CallInv'
  <2>1. \A u \in Threads \ {t}, pool \in Pools : owner[PoolLock(pool)] = u =>
          owner'[PoolLock(pool)] = u /\ \A j \in 0..(Cnt(pool) - 1) : ~used_map[pool][j] => ~used_map'[pool][j]
    BY <1>1, <1>9
  <2>2. \A u \in Threads \ {t} : CallOK(u, thread[u])'
    BY <1>6, <1>9, <2>1, OtherCalls DEF MemInv
  <2>. QED  BY <1>1, <1>2, <1>10, <2>2, CallStepped DEF MemInv
<1>12. PageInv'
  <2>. DEFINE first == base[o.pool] + o.idx + o.done
  <2>1. first \in Int /\ k = first /\ o.cnt - o.done \in Nat \ {0}
    BY <1>3, <1>7 DEF k
  <2>2. CallSpan(o) = Span(first, o.cnt - o.done)
    BY <1>1, Spans DEF Giving
  <2>3. \A p : p \in CallSpan(th) <=> p \in Span(first + 1, o.cnt - o.done - 1)
    <3>1. CASE th.pc = "clear"
      <4>1. base[th.pool] + th.idx + th.done = first + 1 /\ th.cnt - th.done = o.cnt - o.done - 1
        BY <1>2, <1>3, <1>7
      <4>. QED  BY <3>1, <4>1, Spans DEF Giving
    <3>2. CASE th.pc = o.ret
      <4>1. o.cnt - o.done - 1 = 0 \/ th.pc = "clear"
        BY <1>2, <1>3
      <4>2. CallSpan(th) = {}
        BY <1>3, <3>2, Spans DEF Got, Giving
      <4>3. Span(first + 1, 0) = {}
        BY <2>1 DEF Span
      <4>. QED  BY <3>1, <4>1, <4>2, <4>3
    <3>. QED  BY <1>2, <3>1, <3>2
  <2>4. \A p : p \in CallSpan(th) <=> p \in CallSpan(o) /\ p # k
    BY <2>1, <2>2, <2>3, SpanShrinks
  <2>5. \A p : CallHas(t, p)' <=> CallHas(t, p) /\ p # k
    BY <1>6, <2>4, SpanNext DEF CallHas
  <2>6. \A p : CallsKept(p, {t}) /\ ArenasKept(p) /\ GroupsKept(p)
    BY <1>1, <1>6, <1>9, OtherSpans, ArenasKeptAll, GroupsKeptInv DEF MemInv, mvars
  <2>. QED  BY <1>5, <1>8, <2>5, <2>6, PageGiven DEF MemInv
<1>13. GroupInv'
  BY <1>1, <1>9, GroupsKeptInv DEF MemInv
<1>14. WorkInv' /\ UseInv' /\ ArenaInv' /\ ListInv'
  <2>1. Stage(th) = thread[t].ret /\ thread[t].pc \in Getting \cup Giving
    BY <1>1, <1>2, <1>3, <1>6 DEF Stage, Getting, Giving
  <2>2. DescLocksKept /\ th.pc \notin {"free", "free_lock", "free_blocks"}
    BY <1>1, <1>2, <1>3 DEF DescLocksKept
  <2>. QED  BY <1>1, <1>2, <1>6, <1>9, <2>1, <2>2, PallocFrame DEF MemInv
<1>. QED  BY <1>8, <1>9, <1>11, <1>12, <1>13, <1>14 DEF MemInv

(***************************************************************************)
(* The calls of palloc_get_multiple() and palloc_free_multiple().          *)
(***************************************************************************)

\* The locals with which a call of palloc_get_multiple() begins.
LEMMA GetMultipleIs ==
  ASSUME NEW o, o = [f \in Locals |-> o[f]], NEW pool, NEW cnt, NEW ret, NEW th, th = GetMultiple(o, pool, cnt, ret)
  PROVE  /\ th = [f \in Locals |-> th[f]] /\ th.pc = "get_lock" /\ th.pool = pool /\ th.cnt = cnt /\ th.idx = 0
         /\ th.done = 0 /\ th.ret = ret /\ th.call = o.call /\ th.size = o.size /\ th.old = o.old
  BY LocalsAre DEF GetMultiple

\* The locals with which a call of palloc_free_multiple() begins.
LEMMA FreeMultipleIs ==
  ASSUME NEW o, o = [f \in Locals |-> o[f]], NEW page, NEW cnt, NEW ret, NEW th, th = FreeMultiple(o, page, cnt, ret)
  PROVE  /\ th = [f \in Locals |-> th[f]] /\ th.pc = "free_pages" /\ th.pool = PoolOf(page) /\ th.cnt = cnt
         /\ th.idx = page - base[PoolOf(page)]
         /\ th.done = 0 /\ th.ret = ret /\ th.call = o.call /\ th.size = o.size /\ th.old = o.old
  BY LocalsAre DEF FreeMultiple

\* page_from_pool() finds the pool of a group of pages.
LEMMA PoolOfPage ==
  ASSUME MapInv, NEW page, NEW cnt, InPool(page, cnt)
  PROVE  PoolOf(page) \in Pools /\ Whole(page, cnt, PoolOf(page))
<1>1. page \in Nat /\ cnt \in Nat \ {0}
  BY DEF InPool
<1>2. PICK q \in Pools : Whole(page, cnt, q)
  BY DEF InPool
<1>3. \A r \in Pools : base[r] \in Nat /\ Cnt(r) \in Nat /\ Cnt(r) = BitCnt(used_map[r])
  BY PoolFacts DEF Cnt
<1>4. \A r \in Pools : PageFromPool(r, page) <=> page \in Span(base[r], Cnt(r))
  BY <1>1, <1>3 DEF PageFromPool, Span
<1>5. page \in Span(base[q], Cnt(q))
  BY <1>1, <1>2, <1>3 DEF Whole, Span
<1>6. PoolOf(page) = q
  BY <1>4, <1>5, PoolFacts DEF PoolOf, Pools
<1>. QED  BY <1>2, <1>6

\* A call of palloc_free_multiple() for pages of a pool.
LEMMA FreeMultipleOK ==
  ASSUME MapInv, NEW t \in Threads, NEW o, o = [f \in Locals |-> o[f]], NEW page, NEW cnt, InPool(page, cnt),
         NEW ret \in {"idle", "free_unlock"}, NEW th, th = FreeMultiple(o, page, cnt, ret)
  PROVE  CallOK(t, th) /\ CallSpan(th) = Span(page, cnt)
<1>1. page \in Nat /\ cnt \in Nat \ {0} /\ PoolOf(page) \in Pools /\ Whole(page, cnt, PoolOf(page))
  BY PoolOfPage DEF InPool
<1>2. /\ th.pc = "free_pages" /\ th.pool = PoolOf(page) /\ th.cnt = cnt
      /\ th.idx = page - base[PoolOf(page)] /\ th.done = 0 /\ th.ret = ret
  BY FreeMultipleIs
<1>3. base[th.pool] \in Nat /\ Cnt(th.pool) \in Nat
  BY <1>1, <1>2, PoolFacts
<1>4. th.idx \in Nat /\ th.idx + th.cnt <= Cnt(th.pool) /\ base[th.pool] + th.idx + th.done = page /\ th.cnt - th.done = cnt
  BY <1>1, <1>2, <1>3 DEF Whole
<1>5. CallOK(t, th)
  BY <1>1, <1>2, <1>4 DEF CallOK, Getting, Got, Giving
<1>6. CallSpan(th) = Span(page, cnt)
  BY <1>2, <1>4, Spans DEF Giving
<1>. QED  BY <1>5, <1>6

\* The locals that a thread has after its step.
LEMMA CallOKNext ==
  ASSUME NEW t \in Threads, NEW th, CallOK(t, th), thread'[t] = th, UNCHANGED used_map,
         th.pc \in {"scan", "flip", "get_unlock"} => owner'[PoolLock(th.pool)] = t,
         \A pool \in Pools : Cnt(pool)' = Cnt(pool)
  PROVE  CallOK(t, thread[t])'
  BY DEF CallOK

\* A caller calls palloc_get_multiple().
LEMMA CallGetKeeps ==
  ASSUME MemInv, NEW t \in Threads, NEW pool \in Pools, NEW cnt \in PageCounts, CallGet(t, pool, cnt),
         UNCHANGED <<base, usable, mvars>>
  PROVE  MemInv'
<1>. DEFINE o == thread[t]
            th == GetMultiple(o, pool, cnt, "got_pages")
<1>1. o.pc = "idle" /\ Goto(t, th) /\ UNCHANGED <<used_map, owner, groups, panic>>
      /\ o = [f \in Locals |-> o[f]] /\ cnt \in Nat \ {0}
  BY MallocAssumption DEF CallGet, At, MemInv, CallInv
<1>2. /\ th = [f \in Locals |-> th[f]] /\ th.pc = "get_lock" /\ th.pool = pool /\ th.cnt = cnt
      /\ th.idx = 0 /\ th.done = 0 /\ th.ret = "got_pages"
  BY <1>1, GetMultipleIs
<1>. HIDE DEF th, o
<1>3. thread'[t] = th /\ o = thread[t] /\ \A u \in Threads \ {t} : thread'[u] = thread[u]
  BY <1>1, <1>2, Stepped DEF MemInv, o
<1>4. MapInv' /\ LockInv' /\ \A q \in Pools : Cnt(q)' = Cnt(q)
  BY <1>1, MapKept DEF MemInv, LockInv
<1>5. CallOK(t, th)
  BY <1>1, <1>2 DEF CallOK, Getting, Got, Giving
<1>6. CallInv'
  <2>1. CallOK(t, thread[t])'
    BY <1>1, <1>2, <1>3, <1>4, <1>5, CallOKNext
  <2>2. \A u \in Threads \ {t} : CallOK(u, thread[u])'
    BY <1>1, <1>3, <1>4, OtherCalls DEF MemInv
  <2>. QED  BY <1>1, <1>2, <2>1, <2>2, CallStepped DEF MemInv
<1>7. PageInv'
  <2>1. CallSpan(o) = {} /\ CallSpan(th) = {}
    BY <1>1, <1>2, Spans DEF Got, Giving
  <2>. QED  BY <1>1, <1>3, <2>1, StillPages DEF MemInv, mvars
<1>8. GroupInv'
  BY <1>1, <1>4, GroupsKeptInv DEF MemInv
<1>9. WorkInv' /\ UseInv' /\ ArenaInv' /\ ListInv'
  <2>1. WorkOK(t, thread[t])'
    BY <1>2, <1>3 DEF WorkOK, Stage, Getting, Giving, Allocating
  <2>. QED  BY <1>1, <1>2, <1>3, <1>4, <2>1, BlocksKept DEF MemInv
<1>. QED  BY <1>4, <1>6, <1>7, <1>8, <1>9 DEF MemInv

\* What a call that returns has got.
LEMMA GotFacts ==
  ASSUME MemInv, NEW t \in Threads, thread[t].pc \in Got
  PROVE  /\ Pages(thread[t]) = NONE => CallSpan(thread[t]) = {}
         /\ Pages(thread[t]) # NONE => /\ InPool(Pages(thread[t]), thread[t].cnt)
                                       /\ CallSpan(thread[t]) = Span(Pages(thread[t]), thread[t].cnt)
<1>. DEFINE o == thread[t]
<1>1. CallOK(t, o)
  BY DEF MemInv, CallInv
<1>2. o.pool \in Pools /\ o.cnt \in Nat \ {0} /\ (o.idx = BITMAP_ERROR \/ (o.idx \in Nat /\ o.idx + o.cnt <= Cnt(o.pool)))
  BY <1>1 DEF CallOK
<1>3. base[o.pool] \in Nat /\ Cnt(o.pool) \in Nat
  BY <1>2, PoolFacts DEF MemInv
<1>4. CASE o.idx = BITMAP_ERROR
  BY <1>4, Spans DEF Pages
<1>5. CASE o.idx # BITMAP_ERROR
  <2>1. Pages(o) = base[o.pool] + o.idx /\ o.idx \in Nat /\ o.idx + o.cnt <= Cnt(o.pool)
    BY <1>2, <1>5 DEF Pages
  <2>2. Pages(o) \in Nat /\ Whole(Pages(o), o.cnt, o.pool)
    BY <1>2, <1>3, <2>1 DEF Whole
  <2>3. Pages(o) # NONE
    BY <2>2, NoneFacts
  <2>. QED  BY <1>2, <1>5, <2>1, <2>2, <2>3, Spans DEF InPool
<1>. QED  BY <1>4, <1>5

\* palloc_get_multiple() returns to its caller.
LEMMA GotPagesKeeps ==
  ASSUME MemInv, NEW t \in Threads, GotPages(t), UNCHANGED <<base, usable, mvars>>
  PROVE  MemInv'
<1>. DEFINE o == thread[t]
            th == [o EXCEPT !.pc = "idle"]
            pages == Pages(o)
            k == <<pages, o.cnt>>
<1>1. o.pc = "got_pages" /\ Goto(t, th) /\ UNCHANGED <<used_map, owner, panic>>
      /\ groups' = (IF pages = NONE THEN groups ELSE [groups EXCEPT ![t] = @ \cup {k}])
      /\ CallOK(t, o) /\ o = [f \in Locals |-> o[f]]
  BY DEF GotPages, At, MemInv, CallInv
<1>2. th = [f \in Locals |-> th[f]] /\ th.pc = "idle" /\ th.pool = o.pool
  BY <1>1, LocalsAre
<1>3. /\ pages = NONE => CallSpan(o) = {}
      /\ pages # NONE => InPool(pages, o.cnt) /\ CallSpan(o) = Span(pages, o.cnt)
  BY <1>1, GotFacts DEF Got
<1>. HIDE DEF th, o, pages, k
<1>4. thread'[t] = th /\ o = thread[t] /\ \A u \in Threads \ {t} : thread'[u] = thread[u]
  BY <1>1, <1>2, Stepped DEF MemInv, o
<1>5. MapInv' /\ LockInv' /\ \A q \in Pools : Cnt(q)' = Cnt(q)
  BY <1>1, MapKept DEF MemInv, LockInv
<1>6. CallOK(t, th)
  BY <1>1, <1>2 DEF CallOK, Getting, Got, Giving
<1>7. CallInv'
  <2>1. CallOK(t, thread[t])'
    BY <1>1, <1>2, <1>4, <1>5, <1>6, CallOKNext
  <2>2. \A u \in Threads \ {t} : CallOK(u, thread[u])'
    BY <1>1, <1>4, <1>5, OtherCalls DEF MemInv
  <2>. QED  BY <1>1, <1>2, <2>1, <2>2, CallStepped DEF MemInv
<1>8. CallSpan(th) = {}
  BY <1>2, Spans DEF Got, Giving
<1>9. PageInv' /\ GroupInv'
  <2>1. CASE pages = NONE
    <3>1. PageInv'
      BY <1>1, <1>3, <1>4, <1>8, <2>1, StillPages DEF MemInv, mvars
    <3>. QED  BY <1>1, <1>5, <2>1, <3>1, GroupsKeptInv DEF MemInv
  <2>2. CASE pages # NONE
    <3>1. groups' = [u \in Threads |-> groups'[u]] /\ groups'[t] = groups[t] \cup {k}
          /\ \A u \in Threads \ {t} : groups'[u] = groups[u]
      BY <1>1, <2>2 DEF MemInv, GroupInv
    <3>2. k = <<k[1], k[2]>> /\ k[1] = pages /\ k[2] = o.cnt
      BY DEF k
    <3>3. GroupInv'
      <4>1. \A page, cnt : InPool(page, cnt)' <=> InPool(page, cnt)
        BY <1>5 DEF InPool, Whole
      <4>2. \A u \in Threads : \A g \in groups'[u] : g = <<g[1], g[2]>> /\ InPool(g[1], g[2])
        BY <1>3, <2>2, <3>1, <3>2 DEF MemInv, GroupInv
      <4>. QED  BY <3>1, <4>1, <4>2 DEF GroupInv
    <3>4. \A p : \A u \in Threads : \A g : GroupHas(u, g, p)' <=> GroupHas(u, g, p) \/ (u = t /\ g = k /\ CallHas(t, p))
      <4>1. \A p : CallHas(t, p) <=> p \in Span(k[1], k[2])
        BY <1>3, <1>4, <2>2, <3>2 DEF CallHas
      <4>. QED  BY <3>1, <4>1 DEF GroupHas
    <3>5. \A p : ~CallHas(t, p)'
      BY <1>4, <1>8, SpanNext DEF CallHas
    <3>6. \A p : CallsKept(p, {t}) /\ ArenasKept(p) /\ UseKept(p)
      BY <1>1, <1>4, OtherSpans, ArenasKeptAll, UseKeptAll DEF mvars
    <3>7. \A p : /\ CallsKept(p, {t}) /\ ~CallHas(t, p)' /\ ArenasKept(p) /\ UseKept(p)
                 /\ \A u \in Threads : \A g : GroupHas(u, g, p)' <=> GroupHas(u, g, p) \/ (u = t /\ g = k /\ CallHas(t, p))
      BY <3>4, <3>5, <3>6
    <3>8. PICK x : x = k
      OBVIOUS
    <3>9. BecomesGroup(t, x)
      BY <3>7, <3>8 DEF BecomesGroup
    <3>10. PageInv'
      BY <3>9, CallToGroup DEF MemInv
    <3>. QED  BY <3>3, <3>10
  <2>. QED  BY <2>1, <2>2
<1>10. WorkInv' /\ UseInv' /\ ArenaInv' /\ ListInv'
  <2>1. WorkOK(t, thread[t])'
    BY <1>2, <1>4 DEF WorkOK, Stage, Getting, Giving, Allocating
  <2>. QED  BY <1>1, <1>2, <1>4, <1>5, <2>1, BlocksKept DEF MemInv
<1>. QED  BY <1>5, <1>7, <1>9, <1>10 DEF MemInv

\* A caller calls palloc_free_multiple().
LEMMA CallFreeKeeps ==
  ASSUME MemInv, NEW t \in Threads, NEW k \in groups[t], CallFree(t, k), UNCHANGED <<base, usable, mvars>>
  PROVE  MemInv'
<1>. DEFINE o == thread[t]
            th == FreeMultiple(o, k[1], k[2], "idle")
<1>1. o.pc = "idle" /\ Goto(t, th) /\ UNCHANGED <<used_map, owner, panic>>
      /\ groups' = [groups EXCEPT ![t] = @ \ {k}] /\ o = [f \in Locals |-> o[f]]
  BY DEF CallFree, At, MemInv, CallInv
<1>2. th = [f \in Locals |-> th[f]] /\ th.pc = "free_pages" /\ th.ret = "idle"
  BY <1>1, FreeMultipleIs
<1>3. InPool(k[1], k[2])
  BY DEF MemInv, GroupInv
<1>4. CallOK(t, th) /\ CallSpan(th) = Span(k[1], k[2])
  BY <1>1, <1>3, FreeMultipleOK DEF MemInv
<1>. HIDE DEF th, o
<1>5. thread'[t] = th /\ o = thread[t] /\ \A u \in Threads \ {t} : thread'[u] = thread[u]
  BY <1>1, <1>2, Stepped DEF MemInv, o
<1>6. MapInv' /\ LockInv' /\ \A q \in Pools : Cnt(q)' = Cnt(q)
  BY <1>1, MapKept DEF MemInv, LockInv
<1>7. CallInv'
  <2>1. CallOK(t, thread[t])'
    BY <1>1, <1>2, <1>4, <1>5, <1>6, CallOKNext
  <2>2. \A u \in Threads \ {t} : CallOK(u, thread[u])'
    BY <1>1, <1>5, <1>6, OtherCalls DEF MemInv
  <2>. QED  BY <1>1, <1>2, <2>1, <2>2, CallStepped DEF MemInv
<1>8. groups' = [u \in Threads |-> groups'[u]] /\ groups'[t] = groups[t] \ {k}
      /\ \A u \in Threads \ {t} : groups'[u] = groups[u]
  BY <1>1 DEF MemInv, GroupInv
<1>9. GroupInv'
  <2>1. \A page, cnt : InPool(page, cnt)' <=> InPool(page, cnt)
    BY <1>6 DEF InPool, Whole
  <2>2. \A u \in Threads : \A g \in groups'[u] : g = <<g[1], g[2]>> /\ InPool(g[1], g[2])
    BY <1>8 DEF MemInv, GroupInv
  <2>. QED  BY <1>8, <2>1, <2>2 DEF GroupInv
<1>10. PageInv'
  <2>1. \A p : \A u \in Threads : \A g : GroupHas(u, g, p)' <=> GroupHas(u, g, p) /\ ~(u = t /\ g = k)
    BY <1>8 DEF GroupHas
  <2>2. CallSpan(o) = {}
    BY <1>1, Spans DEF Got, Giving
  <2>3. \A p : ~CallHas(t, p) /\ (CallHas(t, p)' <=> GroupHas(t, k, p))
    BY <1>4, <1>5, <2>2, SpanNext DEF CallHas, GroupHas
  <2>4. \A p : CallsKept(p, {t}) /\ ArenasKept(p) /\ UseKept(p)
    BY <1>1, <1>5, OtherSpans, ArenasKeptAll, UseKeptAll DEF mvars
  <2>. QED  BY <2>1, <2>3, <2>4, GroupToCall DEF MemInv
<1>11. WorkInv' /\ UseInv' /\ ArenaInv' /\ ListInv'
  <2>1. WorkOK(t, thread[t])'
    BY <1>2, <1>5 DEF WorkOK, Stage, Getting, Giving, Allocating
  <2>. QED  BY <1>1, <1>2, <1>5, <1>6, <2>1, BlocksKept DEF MemInv
<1>. QED  BY <1>6, <1>7, <1>9, <1>10, <1>11 DEF MemInv

\* free() releases the lock of the descriptor.
LEMMA FreeUnlockKeeps ==
  ASSUME MemInv, NEW t \in Threads, FreeUnlock(t), UNCHANGED <<base, usable>>
  PROVE  MemInv'
<1>. DEFINE o == thread[t]
            th == [o EXCEPT !.pc = "idle"]
<1>1. o.pc = "free_unlock" /\ Goto(t, th) /\ ReleaseLock(DescLock(o.size)) /\ UNCHANGED <<used_map, groups, panic, mvars>>
      /\ CallOK(t, o) /\ o = [f \in Locals |-> o[f]] /\ WorkOK(t, o)
  BY DEF FreeUnlock, At, MemInv, CallInv, WorkInv
<1>2. th = [f \in Locals |-> th[f]] /\ th.pc = "idle" /\ th.pool = o.pool
  BY <1>1, LocalsAre
<1>. HIDE DEF th, o
<1>3. thread'[t] = th /\ o = thread[t] /\ \A u \in Threads \ {t} : thread'[u] = thread[u]
  BY <1>1, <1>2, Stepped DEF MemInv, o
<1>4. o.size \in Descs /\ owner[DescLock(o.size)] = t
  BY <1>1 DEF WorkOK, Stage, Getting, Giving
<1>5. LockInv' /\ (\A u \in Threads \ {t}, k \in Locks : owner[k] = u => owner'[k] = u)
  BY <1>1, <1>4, LockReleased, LockNames DEF MemInv
<1>6. MapInv' /\ \A pool \in Pools : Cnt(pool)' = Cnt(pool)
  BY <1>1, MapKept DEF MemInv
<1>7. CallOK(t, th)
  BY <1>1, <1>2 DEF CallOK, Getting, Got, Giving
<1>8. CallInv'
  <2>1. CallOK(t, thread[t])'
    BY <1>1, <1>2, <1>3, <1>6, <1>7, CallOKNext
  <2>2. \A u \in Threads \ {t} : CallOK(u, thread[u])'
    BY <1>1, <1>3, <1>5, <1>6, OtherCalls, LockNames DEF MemInv
  <2>. QED  BY <1>1, <1>2, <2>1, <2>2, CallStepped DEF MemInv
<1>9. PageInv'
  <2>1. CallSpan(o) = {} /\ CallSpan(th) = {}
    BY <1>1, <1>2, Spans DEF Got, Giving
  <2>. QED  BY <1>1, <1>3, <2>1, StillPages DEF MemInv, mvars
<1>10. GroupInv'
  BY <1>1, <1>6, GroupsKeptInv DEF MemInv
<1>11. WorkInv' /\ UseInv' /\ ArenaInv' /\ ListInv'
  <2>1. WorkOK(t, thread[t])'
    BY <1>2, <1>3 DEF WorkOK, Stage, Getting, Giving, Allocating
  <2>2. \A u \in Threads \ {t}, d \in Descs : owner[DescLock(d)] = u => owner'[DescLock(d)] = u
    BY <1>5, LockNames
  <2>. QED  BY <1>1, <1>2, <1>3, <1>6, <2>1, <2>2, BlocksKept DEF MemInv
<1>. QED  BY <1>5, <1>6, <1>8, <1>9, <1>10, <1>11 DEF MemInv

(***************************************************************************)
(* malloc(), calloc() and realloc().                                       *)
(***************************************************************************)

\* A set of numbers that is not empty has a least one.
LEMMA LeastOf ==
  ASSUME NEW S, S \subseteq Nat, S # {}
  PROVE  (CHOOSE d \in S : \A e \in S : d <= e) \in S
<1>. DEFINE R == {a \in Nat \X Nat : a[1] < a[2]}
<1>1. IsWellFoundedOn(R, Nat)
  BY NatLessThanWellFounded DEF OpToRel
<1>2. PICK x \in S : \A y \in S : <<y, x>> \notin R
  <2>. HIDE DEF R
  <2>. QED  BY <1>1, WFMin
<1>3. \A y \in S : y \in Nat /\ x \in Nat
  OBVIOUS
<1>4. \A y \in S : ~(y < x)
  BY <1>2, <1>3
<1>5. \A y \in S : x <= y
  BY <1>3, <1>4
<1>. QED  BY <1>2, <1>5

\* malloc() chooses a descriptor, or pages for a big block.
LEMMA MallocCallIs ==
  ASSUME NEW o, o = [f \in Locals |-> o[f]], NEW call, NEW size \in Nat, size > 0, NEW old,
         NEW th, th = MallocCall(o, call, size, old)
  PROVE  /\ th = [f \in Locals |-> th[f]] /\ th.call = call /\ th.old = old
         /\ \/ th.pc = "malloc_lock" /\ th.size \in Descs /\ th.pool = o.pool
            \/ th.pc = "get_lock" /\ th.ret = "got_big" /\ th.pool = "kernel" /\ th.cnt \in Nat \ {0} /\ th.idx = 0 /\ th.done = 0
<1>. DEFINE fitting == {d \in Descs : d >= size}
            page_cnt == (size + ARENA + PGSIZE - 1) \div PGSIZE
            called == [o EXCEPT !.call = call, !.old = old]
            least == CHOOSE d \in fitting : \A e \in fitting : d <= e
<1>1. th = IF fitting = {} THEN GetMultiple([called EXCEPT !.size = 0], "kernel", page_cnt, "got_big")
           ELSE [called EXCEPT !.pc = "malloc_lock", !.size = least]
  BY DEF MallocCall
<1>2. page_cnt \in Nat \ {0}
  <2>0. PGSIZE \in Nat /\ ARENA \in Nat /\ MinBlock \in Nat /\ PGSIZE > ARENA + 2 * MinBlock
    BY MallocAssumption
  <2>1. PGSIZE > 0
    BY <2>0
  <2>2. \A n \in Nat : n >= PGSIZE => n \div PGSIZE \in Int /\ n \div PGSIZE > 0
    BY <2>0, <2>1
  <2>3. size + ARENA + PGSIZE - 1 \in Nat /\ size + ARENA + PGSIZE - 1 >= PGSIZE
    BY <2>0, <2>1
  <2>. QED  BY <2>2, <2>3
<1>3. fitting # {} => least \in Descs
  <2>1. fitting \subseteq Nat
    BY DescFacts
  <2>. HIDE DEF fitting
  <2>2. fitting # {} => least \in fitting
    BY <2>1, LeastOf
  <2>. QED  BY <2>2 DEF fitting
<1>. HIDE DEF fitting, least, page_cnt
<1>4. CASE fitting = {}
  <2>. DEFINE c == [called EXCEPT !.size = 0]
  <2>1. c = [f \in Locals |-> c[f]] /\ c.call = call /\ c.old = old
    BY LocalsAre
  <2>. HIDE DEF c
  <2>2. th = GetMultiple(c, "kernel", page_cnt, "got_big")
    BY <1>1, <1>4 DEF c
  <2>3. /\ th = [f \in Locals |-> th[f]] /\ th.pc = "get_lock" /\ th.pool = "kernel" /\ th.cnt = page_cnt /\ th.idx = 0
        /\ th.done = 0 /\ th.ret = "got_big" /\ th.call = c.call /\ th.size = c.size /\ th.old = c.old
    BY <2>1, <2>2, LocalsAre DEF GetMultiple
  <2>. QED  BY <1>2, <2>1, <2>3
<1>5. CASE fitting # {}
  <2>1. th = [called EXCEPT !.pc = "malloc_lock", !.size = least]
    BY <1>1, <1>5
  <2>2. th = [f \in Locals |-> th[f]] /\ th.call = call /\ th.old = old /\ th.pc = "malloc_lock" /\ th.size = least
        /\ th.pool = o.pool
    BY <2>1, LocalsAre
  <2>. QED  BY <1>3, <1>5, <2>2
<1>. QED  BY <1>4, <1>5

\* malloc() is called: by a user, by calloc() or by realloc().
LEMMA MallocStarts ==
  ASSUME MemInv, NEW t \in Threads, At(t, "idle"), NEW call \in {"malloc", "calloc", "realloc"}, NEW size \in Nat, size > 0,
         NEW old, call = "realloc" => old \in held[t], Goto(t, MallocCall(thread[t], call, size, old)),
         UNCHANGED <<base, usable, used_map, owner, groups, panic, mvars>>
  PROVE  MemInv'
<1>. DEFINE o == thread[t]
            th == MallocCall(o, call, size, old)
<1>1. o.pc = "idle" /\ Goto(t, th) /\ o = [f \in Locals |-> o[f]] /\ o.pool \in Pools
  BY DEF At, MemInv, CallInv, CallOK
<1>2. /\ th = [f \in Locals |-> th[f]] /\ th.call = call /\ th.old = old
      /\ \/ th.pc = "malloc_lock" /\ th.size \in Descs /\ th.pool = o.pool
         \/ th.pc = "get_lock" /\ th.ret = "got_big" /\ th.pool = "kernel" /\ th.cnt \in Nat \ {0} /\ th.idx = 0 /\ th.done = 0
  BY <1>1, MallocCallIs
<1>. HIDE DEF th, o
<1>3. thread'[t] = th /\ o = thread[t] /\ \A u \in Threads \ {t} : thread'[u] = thread[u]
  BY <1>1, <1>2, Stepped DEF MemInv, o
<1>4. MapInv' /\ LockInv' /\ \A q \in Pools : Cnt(q)' = Cnt(q)
  BY MapKept DEF MemInv, LockInv
<1>5. CallOK(t, th)
  BY <1>1, <1>2 DEF CallOK, Getting, Got, Giving, Pools
<1>6. CallInv'
  <2>1. CallOK(t, thread[t])'
    BY <1>1, <1>2, <1>3, <1>4, <1>5, CallOKNext
  <2>2. \A u \in Threads \ {t} : CallOK(u, thread[u])'
    BY <1>1, <1>3, <1>4, OtherCalls DEF MemInv
  <2>. QED  BY <1>1, <1>2, <2>1, <2>2, CallStepped DEF MemInv
<1>7. PageInv'
  <2>1. CallSpan(o) = {} /\ CallSpan(th) = {}
    BY <1>1, <1>2, Spans DEF Got, Giving
  <2>. QED  BY <1>1, <1>3, <2>1, StillPages DEF MemInv, mvars
<1>8. GroupInv'
  BY <1>1, <1>4, GroupsKeptInv DEF MemInv
<1>9. WorkInv' /\ UseInv' /\ ArenaInv' /\ ListInv'
  <2>1. WorkOK(t, thread[t])'
    BY <1>2, <1>3 DEF WorkOK, Stage, Getting, Giving, Allocating, mvars
  <2>. QED  BY <1>1, <1>2, <1>3, <1>4, <2>1, BlocksKept DEF MemInv
<1>. QED  BY <1>4, <1>6, <1>7, <1>8, <1>9 DEF MemInv

\* A thread calls malloc().
LEMMA MallocKeeps ==
  ASSUME MemInv, NEW t \in Threads, NEW size \in Sizes, Malloc(t, size), UNCHANGED <<base, usable>>
  PROVE  MemInv'
<1>1. size \in Nat /\ size > 0
  BY MallocAssumption DEF Malloc
<1>. QED  BY <1>1, MallocStarts DEF Malloc

\* A thread calls calloc().
LEMMA CallocKeeps ==
  ASSUME MemInv, NEW t \in Threads, NEW ab \in Products, Calloc(t, ab[1], ab[2]), UNCHANGED <<base, usable>>
  PROVE  MemInv'
<1>1. CallocSize(ab[1], ab[2]) \in Nat /\ CallocSize(ab[1], ab[2]) > 0
  <2>1. ab[1] \in Nat /\ ab[2] \in Nat /\ WORD \in Nat /\ WORD > 0
    BY MallocAssumption
  <2>2. ab[1] * ab[2] \in Nat
    BY <2>1
  <2>3. \A n \in Nat : n % WORD \in Nat
    BY <2>1
  <2>. QED  BY <2>2, <2>3 DEF CallocSize, Calloc
<1>. QED  BY <1>1, MallocStarts DEF Calloc

\* A thread calls realloc().
LEMMA ReallocKeeps ==
  ASSUME MemInv, NEW t \in Threads, NEW b, NEW size \in Sizes, Realloc(t, b, size), UNCHANGED <<base, usable>>
  PROVE  MemInv'
<1>1. size \in Nat /\ size > 0
  BY MallocAssumption DEF Realloc
<1>. QED  BY <1>1, MallocStarts DEF Realloc

\* malloc() takes the lock of the descriptor and looks at its list.
LEMMA MallocLockKeeps ==
  ASSUME MemInv, NEW t \in Threads, MallocLock(t), UNCHANGED <<base, usable>>
  PROVE  MemInv'
<1>. DEFINE o == thread[t]
            d == o.size
            th == IF free_list[d] = <<>> THEN GetMultiple(o, "kernel", 1, "got_arena") ELSE [o EXCEPT !.pc = "take"]
<1>1. o.pc = "malloc_lock" /\ Goto(t, th) /\ Hold(t, DescLock(d)) /\ UNCHANGED <<used_map, groups, panic, mvars>>
      /\ CallOK(t, o) /\ o = [f \in Locals |-> o[f]] /\ WorkOK(t, o)
  BY DEF MallocLock, At, MemInv, CallInv, WorkInv
<1>2. /\ th = [f \in Locals |-> th[f]] /\ th.call = o.call /\ th.size = o.size /\ th.old = o.old
      /\ \/ free_list[d] # <<>> /\ th.pc = "take" /\ th.pool = o.pool
         \/ /\ free_list[d] = <<>> /\ th.pc = "get_lock" /\ th.pool = "kernel" /\ th.cnt = 1 /\ th.idx = 0
            /\ th.done = 0 /\ th.ret = "got_arena"
  BY <1>1, LocalsAre, GetMultipleIs
<1>. HIDE DEF th, o
<1>3. thread'[t] = th /\ o = thread[t] /\ \A u \in Threads \ {t} : thread'[u] = thread[u]
  BY <1>1, <1>2, Stepped DEF MemInv, o
<1>4. d \in Descs /\ o.pool \in Pools /\ o.call \in {"malloc", "calloc", "realloc"} /\ (o.call = "realloc" => o.old \in held[t])
  BY <1>1 DEF WorkOK, CallOK, Stage, Getting, Giving, Allocating
<1>5. LockInv' /\ owner'[DescLock(d)] = t /\ (\A u \in Threads, k \in Locks : owner[k] = u => owner'[k] = u)
  BY <1>1, <1>4, LockTaken, LockNames DEF MemInv
<1>6. MapInv' /\ \A pool \in Pools : Cnt(pool)' = Cnt(pool)
  BY <1>1, MapKept DEF MemInv
<1>7. CallOK(t, th)
  BY <1>2, <1>4 DEF CallOK, Getting, Got, Giving, Pools
<1>8. CallInv'
  <2>1. CallOK(t, thread[t])'
    BY <1>1, <1>2, <1>3, <1>6, <1>7, CallOKNext
  <2>2. \A u \in Threads \ {t} : CallOK(u, thread[u])'
    BY <1>1, <1>3, <1>5, <1>6, OtherCalls, LockNames DEF MemInv
  <2>. QED  BY <1>1, <1>2, <2>1, <2>2, CallStepped DEF MemInv
<1>9. PageInv'
  <2>1. CallSpan(o) = {} /\ CallSpan(th) = {}
    BY <1>1, <1>2, Spans DEF Got, Giving
  <2>. QED  BY <1>1, <1>3, <2>1, StillPages DEF MemInv, mvars
<1>10. GroupInv'
  BY <1>1, <1>6, GroupsKeptInv DEF MemInv
<1>11. WorkInv' /\ UseInv' /\ ArenaInv' /\ ListInv'
  <2>1. WorkOK(t, thread[t])'
    BY <1>1, <1>2, <1>3, <1>4, <1>5 DEF WorkOK, Stage, Getting, Giving, Allocating, mvars
  <2>2. \A u \in Threads \ {t}, e \in Descs : owner[DescLock(e)] = u => owner'[DescLock(e)] = u
    BY <1>5, LockNames
  <2>. QED  BY <1>1, <1>2, <1>3, <1>6, <2>1, <2>2, BlocksKept DEF MemInv
<1>. QED  BY <1>5, <1>6, <1>8, <1>9, <1>10, <1>11 DEF MemInv

(***************************************************************************)
(* Steps of malloc() and free() by themselves.                             *)
(***************************************************************************)

\* A step that does not call Palloc leaves the pages where they are.
LEMMA PagesStay ==
  ASSUME MemInv, NEW t \in Threads, NEW th, Goto(t, th), th = [f \in Locals |-> th[f]],
         UNCHANGED <<base, usable, used_map, groups, panic>>, \A p : ArenasKept(p),
         th.pool \in Pools, th.pc \notin Getting \cup Got \cup Giving, CallSpan(thread[t]) = {},
         \A u \in Threads \ {t}, pool \in Pools : owner[PoolLock(pool)] = u => owner'[PoolLock(pool)] = u
  PROVE  MapInv' /\ CallInv' /\ GroupInv' /\ PageInv' /\ \A pool \in Pools : Cnt(pool)' = Cnt(pool)
<1>1. thread'[t] = th /\ \A u \in Threads \ {t} : thread'[u] = thread[u]
  BY Stepped DEF MemInv
<1>2. MapInv' /\ \A pool \in Pools : Cnt(pool)' = Cnt(pool)
  BY MapKept DEF MemInv
<1>3. CallOK(t, th)
  BY DEF CallOK, Getting, Got, Giving
<1>4. CallInv'
  <2>1. CallOK(t, thread[t])'
    BY <1>1, <1>2, <1>3, CallOKNext DEF Getting
  <2>2. \A u \in Threads \ {t} : CallOK(u, thread[u])'
    BY <1>1, <1>2, OtherCalls DEF MemInv
  <2>. QED  BY <2>1, <2>2, CallStepped DEF MemInv
<1>5. GroupInv' /\ \A p : GroupsKept(p)
  BY <1>2, GroupsKeptInv DEF MemInv
<1>6. PageInv'
  <2>1. CallSpan(th) = {}
    BY Spans DEF Getting, Got, Giving
  <2>2. \A p : CallHas(t, p)' <=> CallHas(t, p)
    BY <1>1, <2>1, SpanNext DEF CallHas
  <2>3. \A p : CallsKept(p, {t}) /\ UseKept(p)
    BY <1>1, OtherSpans, UseKeptAll
  <2>4. \A p : CallsKept(p, {})
    BY <2>2, <2>3 DEF CallsKept
  <2>. QED  BY <1>5, <2>3, <2>4, SamePages DEF MemInv
<1>. QED  BY <1>2, <1>4, <1>5, <1>6

\* An arena that a step is not about.
ArenaStays(a) ==
    /\ a \in DOMAIN arenas' /\ arenas'[a] = arenas[a]
    /\ \A i : <<a, i>> \in InUse' <=> <<a, i>> \in InUse
    /\ \A u \in Threads : Drains(thread'[u], a) <=> Drains(thread[u], a)

\* An arena that a step is not about is as sound as before.
LEMMA ArenaKept ==
  ASSUME NEW a \in DOMAIN arenas, ArenaOK(a), ArenaStays(a), UNCHANGED base, \A pool \in Pools : Cnt(pool)' = Cnt(pool)
  PROVE  ArenaOK(a)'
<1>1. \A page, cnt : InPool(page, cnt)' <=> InPool(page, cnt)
  BY DEF InPool, Whole
<1>2. \A d : FreeBlocks(a, d)' = FreeBlocks(a, d)
  BY DEF FreeBlocks, ArenaStays, ArenaToBlock
<1>. QED  BY <1>1, <1>2 DEF ArenaOK, ArenaStays

\* The list of one descriptor changes.
LEMMA ListStep ==
  ASSUME ListInv, NEW d \in Descs, NEW new, free_list' = [free_list EXCEPT ![d] = new],
         Len(new) \in Nat, new = [i \in 1..Len(new) |-> new[i]],
         \A i, j \in 1..Len(new) : new[i] = new[j] => i = j,
         \A b : (\E i \in 1..Len(new) : new[i] = b) <=> Listed(d, b)',
         \A e \in Descs \ {d} : \A b : Listed(e, b)' <=> Listed(e, b)
  PROVE  ListInv'
<1>1. free_list' = [e \in Descs |-> free_list'[e]] /\ free_list'[d] = new /\ \A e \in Descs \ {d} : free_list'[e] = free_list[e]
  BY DEF ListInv
<1>2. \A e \in Descs : free_list'[e] = [i \in 1..Len(free_list'[e]) |-> free_list'[e][i]] /\ Len(free_list'[e]) \in Nat
  BY <1>1 DEF ListInv
<1>3. \A e \in Descs : \A i, j \in 1..Len(free_list'[e]) : free_list'[e][i] = free_list'[e][j] => i = j
  BY <1>1 DEF ListInv
<1>4. \A e \in Descs : \A b : (\E i \in 1..Len(free_list'[e]) : free_list'[e][i] = b) <=> Listed(e, b)'
  <2>1. \A b : (\E i \in 1..Len(free_list'[d]) : free_list'[d][i] = b) <=> Listed(d, b)'
    BY <1>1
  <2>2. \A e \in Descs \ {d} : \A b : (\E i \in 1..Len(free_list'[e]) : free_list'[e][i] = b) <=> Listed(e, b)
    BY <1>1 DEF ListInv
  <2>. QED  BY <2>1, <2>2
<1>. QED  BY <1>1, <1>2, <1>3, <1>4 DEF ListInv

\* A page has blocks of one size.
LEMMA BlocksFacts ==
  ASSUME MemInv
  PROVE  /\ \A b \in InUse : BlockOK(b) /\ b \in DOMAIN data
         /\ \A d \in Descs : d # NONE /\ BlocksPerArena(d) \in Nat \ {0}
         /\ \A a \in DOMAIN arenas : arenas[a].desc \in Descs \cup {NONE}
<1>1. \A b \in InUse : BlockOK(b) /\ b \in DOMAIN data
  BY InUseIs DEF UsedBy, MemInv, UseInv
<1>2. \A d \in Descs : d # NONE /\ BlocksPerArena(d) \in Nat \ {0}
  BY DescFacts
<1>3. \A a \in DOMAIN arenas : arenas[a].desc \in Descs \cup {NONE}
  BY DEF MemInv, ArenaInv, ArenaOK
<1>. QED  BY <1>1, <1>2, <1>3

\* A thread calls free().
LEMMA FreeKeeps ==
  ASSUME MemInv, NEW t \in Threads, NEW b \in held[t], Free(t, b), UNCHANGED <<base, usable>>
  PROVE  MemInv'
<1>. DEFINE o == thread[t]
            th == [o EXCEPT !.pc = "free", !.old = b]
<1>1. o.pc = "idle" /\ Goto(t, th) /\ held' = [held EXCEPT ![t] = @ \ {b}]
      /\ UNCHANGED <<used_map, owner, groups, panic, arenas, free_list, data>>
      /\ CallOK(t, o) /\ o = [f \in Locals |-> o[f]]
  BY DEF Free, At, MemInv, CallInv
<1>2. th = [f \in Locals |-> th[f]] /\ th.pc = "free" /\ th.old = b /\ th.pool = o.pool
  BY <1>1, LocalsAre
<1>. HIDE DEF th, o
<1>3. thread'[t] = th /\ o = thread[t] /\ \A u \in Threads \ {t} : thread'[u] = thread[u]
  BY <1>1, <1>2, Stepped DEF MemInv, o
<1>4. MapInv' /\ CallInv' /\ GroupInv' /\ PageInv' /\ \A pool \in Pools : Cnt(pool)' = Cnt(pool)
  <2>1. th.pc \notin Getting \cup Got \cup Giving /\ CallSpan(thread[t]) = {} /\ th.pool \in Pools
    BY <1>1, <1>2, <1>3, Spans DEF Getting, Got, Giving, CallOK
  <2>2. \A p : ArenasKept(p)
    BY <1>1, ArenasKeptAll
  <2>. QED  BY <1>1, <1>2, <2>1, <2>2, PagesStay
<1>5. held' = [u \in Threads |-> held'[u]] /\ held'[t] = held[t] \ {b} /\ \A u \in Threads \ {t} : held'[u] = held[u]
  BY <1>1 DEF MemInv, UseInv
<1>6. Frees(thread'[t]) /\ ~Frees(thread[t]) /\ \A u \in Threads \ {t} : Frees(thread'[u]) <=> Frees(thread[u])
  BY <1>1, <1>2, <1>3 DEF Frees
<1>7. UseInv'
  <2>1. \A x : BlockOK(x)' <=> BlockOK(x)
    BY <1>1 DEF BlockOK
  <2>2. \A u \in Threads : held'[u] \subseteq held[u]
    BY <1>5
  <2>3. \A u \in Threads : \A h \in held'[u] :
          h = <<h[1], h[2]>> /\ BlockOK(h[1])' /\ h[1] \in DOMAIN data' /\ data'[h[1]] = h[2]
    BY <1>1, <2>1, <2>2 DEF MemInv, UseInv
  <2>4. (\A u \in Threads : Frees(thread[u]) => BlockOK(thread[u].old[1]) /\ thread[u].old[1] \in DOMAIN data)'
    <3>1. \A u \in Threads : Frees(thread'[u]) => BlockOK(thread'[u].old[1]) /\ thread'[u].old[1] \in DOMAIN data
      BY <1>2, <1>3, <1>6 DEF MemInv, UseInv
    <3>. QED  BY <1>1, <2>1, <3>1
  <2>5. \A u \in Threads : thread'[u].pc = "free_lock" => thread'[u].size = arenas'[thread'[u].old[1][1]].desc
    BY <1>1, <1>2, <1>3 DEF MemInv, UseInv
  <2>6. \A u, v \in Threads : \A h \in held'[u], k \in held'[v] : h[1] = k[1] => u = v /\ h = k
    BY <2>2 DEF MemInv, UseInv
  <2>7. \A u, v \in Threads : Frees(thread'[u]) /\ Frees(thread'[v]) /\ thread'[u].old[1] = thread'[v].old[1] => u = v
    BY <1>2, <1>3, <1>6 DEF MemInv, UseInv
  <2>8. \A u, v \in Threads : \A h \in held'[v] : Frees(thread'[u]) => thread'[u].old[1] # h[1]
    <3>1. \A v \in Threads : \A h \in held'[v] : b[1] # h[1]
      BY <1>5 DEF MemInv, UseInv
    <3>. QED  BY <1>2, <1>3, <1>6, <2>2, <3>1 DEF MemInv, UseInv
  <2>. QED  BY <1>5, <2>3, <2>4, <2>5, <2>6, <2>7, <2>8 DEF UseInv
<1>8. \A x : x \in InUse' <=> x \in InUse
  <2>1. \A x : UsedBy(x)' <=> UsedBy(x)
    BY <1>2, <1>3, <1>5, <1>6 DEF UsedBy
  <2>. QED  BY <2>1, InUseIs, InUseIsNext
<1>9. \A u \in Threads : /\ \A a : Drains(thread'[u], a) <=> Drains(thread[u], a)
                         /\ thread[u].pc = "free_blocks" \/ thread'[u].pc = "free_blocks" => thread'[u] = thread[u]
  BY <1>1, <1>2, <1>3 DEF Drains
<1>10. ArenaInv'
  <2>1. \A a \in DOMAIN arenas' : ArenaOK(a)'
    BY <1>1, <1>4, <1>8, <1>9, ArenaKept DEF ArenaStays, MemInv, ArenaInv
  <2>2. \A u \in Threads : DrainOK(thread[u])'
    BY <1>1, <1>8, <1>9 DEF DrainOK, MemInv, ArenaInv
  <2>. QED  BY <2>1, <2>2 DEF ArenaInv
<1>11. ListInv'
  <2>1. \A d, x : Listed(d, x)' <=> Listed(d, x)
    BY <1>1, <1>8, <1>9 DEF Listed, Drains
  <2>. QED  BY <1>1, <2>1 DEF ListInv, MemInv
<1>12. WorkInv'
  <2>1. WorkOK(t, thread[t])'
    BY <1>2, <1>3 DEF WorkOK, Stage, Getting, Giving, Allocating
  <2>. QED  BY <1>1, <1>3, <1>5, <2>1, OtherWork DEF MemInv
<1>. QED  BY <1>1, <1>4, <1>7, <1>10, <1>11, <1>12 DEF MemInv, LockInv

\* The pages of an arena, or of a big block, go back to the pool.
LEMMA PagesGiven ==
  ASSUME MemInv, NEW t \in Threads, thread[t].pc \notin Getting \cup Got \cup Giving, NEW page \in DOMAIN arenas, NEW cnt,
         PagesOf(page) = Span(page, cnt), InPool(page, cnt), NEW ret \in {"idle", "free_unlock"},
         NEW th, th = FreeMultiple(thread[t], page, cnt, ret), Goto(t, th), arenas' = Without(arenas, {page}),
         UNCHANGED <<base, usable, used_map, owner, groups, panic>>
  PROVE  /\ MapInv' /\ LockInv' /\ CallInv' /\ GroupInv' /\ PageInv' /\ \A pool \in Pools : Cnt(pool)' = Cnt(pool)
<1>. DEFINE o == thread[t]
<1>1. o = [f \in Locals |-> o[f]]
  BY DEF MemInv, CallInv
<1>2. th = [f \in Locals |-> th[f]] /\ th.pc = "free_pages"
  BY <1>1, FreeMultipleIs
<1>3. CallOK(t, th) /\ CallSpan(th) = Span(page, cnt)
  BY <1>1, FreeMultipleOK DEF MemInv
<1>4. thread'[t] = th /\ \A u \in Threads \ {t} : thread'[u] = thread[u]
  BY <1>2, Stepped DEF MemInv
<1>5. MapInv' /\ LockInv' /\ \A q \in Pools : Cnt(q)' = Cnt(q)
  BY MapKept DEF MemInv, LockInv
<1>6. CallInv'
  <2>1. CallOK(t, thread[t])'
    BY <1>2, <1>3, <1>4, <1>5, CallOKNext
  <2>2. \A u \in Threads \ {t} : CallOK(u, thread[u])'
    BY <1>4, <1>5, OtherCalls DEF MemInv
  <2>. QED  BY <1>2, <2>1, <2>2, CallStepped DEF MemInv
<1>7. GroupInv' /\ \A p : GroupsKept(p)
  BY <1>5, GroupsKeptInv DEF MemInv
<1>8. PageInv'
  <2>1. \A p : \A a : ArenaHas(a, p)' <=> ArenaHas(a, p) /\ a # page
    <3>1. DOMAIN arenas' = DOMAIN arenas \ {page} /\ \A a \in DOMAIN arenas \ {page} : arenas'[a] = arenas[a]
      BY DEF Without
    <3>. QED  BY <3>1 DEF ArenaHas, PagesOf
  <2>2. CallSpan(o) = {}
    BY Spans DEF Getting, Got, Giving
  <2>3. \A p : ~CallHas(t, p) /\ (CallHas(t, p)' <=> ArenaHas(page, p))
    BY <1>3, <1>4, <2>2, SpanNext DEF CallHas, ArenaHas
  <2>4. \A p : CallsKept(p, {t}) /\ UseKept(p)
    BY <1>4, OtherSpans, UseKeptAll
  <2>. QED  BY <1>7, <2>1, <2>3, <2>4, ArenaToCall DEF MemInv
<1>. QED  BY <1>5, <1>6, <1>7, <1>8

\* free() of a big block: the rest of the step.
LEMMA BigFreed ==
  ASSUME MemInv, NEW t \in Threads, FreeStart(t), UNCHANGED <<base, usable>>, arenas[thread[t].old[1][1]].desc = NONE
  PROVE  MemInv'
<1>. DEFINE o == thread[t]
            block == o.old[1]
            page == block[1]
            cnt == arenas[page].free_cnt
            th == FreeMultiple(o, page, cnt, "idle")
<1>1. o.pc = "free" /\ Goto(t, th) /\ arenas' = Without(arenas, {page}) /\ data' = Without(data, {block})
      /\ UNCHANGED <<used_map, owner, groups, panic, free_list, held>>
  BY DEF FreeStart, At, BlockToArena
<1>2. o = [f \in Locals |-> o[f]] /\ BlockOK(block)
  BY <1>1 DEF MemInv, CallInv, UseInv, Frees
<1>3. page \in DOMAIN arenas /\ block = <<page, 0>> /\ ArenaOK(page)
  BY <1>2 DEF BlockOK, MemInv, ArenaInv
<1>4. PagesOf(page) = Span(page, cnt) /\ InPool(page, cnt)
  BY <1>3 DEF PagesOf, ArenaOK
<1>5. th = [f \in Locals |-> th[f]] /\ th.pc = "free_pages" /\ th.ret = "idle"
  <2>. HIDE DEF page, cnt, o
  <2>. QED  BY <1>2, FreeMultipleIs
<1>6. MapInv' /\ LockInv' /\ CallInv' /\ GroupInv' /\ PageInv' /\ \A pool \in Pools : Cnt(pool)' = Cnt(pool)
  <2>1. o.pc \notin Getting \cup Got \cup Giving
    BY <1>1 DEF Getting, Got, Giving
  <2>. HIDE DEF th, cnt, page
  <2>2. th = FreeMultiple(thread[t], page, cnt, "idle")
    BY DEF th
  <2>. QED  BY <1>1, <1>3, <1>4, <2>1, <2>2, PagesGiven
<1>. HIDE DEF th, o, block, page
<1>7. thread'[t] = th /\ o = thread[t] /\ \A u \in Threads \ {t} : thread'[u] = thread[u]
  BY <1>1, <1>2, <1>5, Stepped DEF MemInv, o
<1>8. ~Frees(thread'[t]) /\ Frees(thread[t]) /\ \A u \in Threads \ {t} : Frees(thread'[u]) <=> Frees(thread[u])
  BY <1>1, <1>5, <1>7 DEF Frees
<1>9. /\ DOMAIN arenas' = DOMAIN arenas \ {page} /\ \A a \in DOMAIN arenas \ {page} : arenas'[a] = arenas[a]
      /\ DOMAIN data' = DOMAIN data \ {block} /\ \A x \in DOMAIN data \ {block} : data'[x] = data[x]
  BY <1>1 DEF Without
<1>10. \A u \in Threads : \A h \in held[u] : h[1] # block
  BY <1>7, <1>8 DEF MemInv, UseInv, block
<1>11. \A u \in Threads \ {t} : Frees(thread[u]) => thread[u].old[1] # block
  BY <1>7, <1>8 DEF MemInv, UseInv, block
<1>12. \A x : x \in InUse' <=> x \in InUse /\ x # block
  <2>1. \A x : UsedBy(x)' <=> UsedBy(x) /\ x # block
    BY <1>1, <1>7, <1>8, <1>10, <1>11 DEF UsedBy, block
  <2>. QED  BY <2>1, InUseIs, InUseIsNext
<1>13. \A x : BlockOK(x) /\ x # block => BlockOK(x)' /\ x[1] # page
  <2>1. arenas[page].desc = NONE
    BY <1>7 DEF page, block
  <2>. QED  BY <1>3, <1>9, <2>1 DEF BlockOK
<1>14. UseInv'
  <2>1. \A u \in Threads : \A h \in held'[u] :
          h = <<h[1], h[2]>> /\ BlockOK(h[1])' /\ h[1] \in DOMAIN data' /\ data'[h[1]] = h[2]
    <3>. SUFFICES ASSUME NEW u \in Threads, NEW h \in held[u]
                  PROVE  h = <<h[1], h[2]>> /\ BlockOK(h[1])' /\ h[1] \in DOMAIN data' /\ data'[h[1]] = h[2]
      BY <1>1
    <3>1. h = <<h[1], h[2]>> /\ BlockOK(h[1]) /\ h[1] \in DOMAIN data /\ data[h[1]] = h[2]
      BY DEF MemInv, UseInv
    <3>. QED  BY <1>9, <1>10, <1>13, <3>1
  <2>2. (\A u \in Threads : Frees(thread[u]) => BlockOK(thread[u].old[1]) /\ thread[u].old[1] \in DOMAIN data)'
    BY <1>7, <1>8, <1>9, <1>11, <1>13 DEF MemInv, UseInv
  <2>3. \A u \in Threads : thread'[u].pc = "free_lock" => thread'[u].size = arenas'[thread'[u].old[1][1]].desc
    <3>. SUFFICES ASSUME NEW u \in Threads, thread'[u].pc = "free_lock"
                  PROVE  thread'[u].size = arenas'[thread'[u].old[1][1]].desc
      OBVIOUS
    <3>1. u # t /\ thread'[u] = thread[u] /\ Frees(thread[u])
      BY <1>5, <1>7 DEF Frees
    <3>2. BlockOK(thread[u].old[1]) /\ thread[u].old[1] # block /\ thread[u].size = arenas[thread[u].old[1][1]].desc
      BY <1>11, <3>1 DEF MemInv, UseInv
    <3>3. thread[u].old[1][1] \in DOMAIN arenas \ {page}
      BY <1>13, <3>2 DEF BlockOK
    <3>. QED  BY <1>9, <3>1, <3>2, <3>3
  <2>4. \A u, v \in Threads : Frees(thread'[u]) /\ Frees(thread'[v]) /\ thread'[u].old[1] = thread'[v].old[1] => u = v
    BY <1>7, <1>8 DEF MemInv, UseInv
  <2>5. \A u, v \in Threads : \A h \in held'[v] : Frees(thread'[u]) => thread'[u].old[1] # h[1]
    BY <1>1, <1>7, <1>8 DEF MemInv, UseInv
  <2>6. /\ held' = [u \in Threads |-> held'[u]]
        /\ \A u, v \in Threads : \A h \in held'[u], k \in held'[v] : h[1] = k[1] => u = v /\ h = k
    BY <1>1 DEF MemInv, UseInv
  <2>. QED  BY <2>1, <2>2, <2>3, <2>4, <2>5, <2>6 DEF UseInv
<1>15. \A u \in Threads : /\ \A a : Drains(thread'[u], a) <=> Drains(thread[u], a)
                          /\ thread[u].pc = "free_blocks" \/ thread'[u].pc = "free_blocks" => thread'[u] = thread[u]
  BY <1>1, <1>5, <1>7 DEF Drains
<1>16. arenas[page].desc = NONE
  BY <1>7 DEF page, block
<1>17. ArenaInv'
  <2>1. \A a \in DOMAIN arenas' : ArenaOK(a)'
    <3>. SUFFICES ASSUME NEW a \in DOMAIN arenas' PROVE ArenaOK(a)'
      OBVIOUS
    <3>1. ArenaStays(a)
      BY <1>3, <1>9, <1>12, <1>15 DEF ArenaStays
    <3>. QED  BY <1>6, <1>9, <3>1, ArenaKept DEF MemInv, ArenaInv
  <2>2. \A u \in Threads : DrainOK(thread[u])'
    <3>. SUFFICES ASSUME NEW u \in Threads PROVE DrainOK(thread[u])'
      OBVIOUS
    <3>1. DrainOK(thread[u]) /\ (thread[u].pc = "free_blocks" => thread[u].size \in Descs)
      BY DEF MemInv, ArenaInv, WorkInv, WorkOK, Stage, Getting, Giving
    <3>2. thread[u].pc = "free_blocks" => arenas[thread[u].old[1][1]].desc # NONE
      BY <3>1, DescFacts DEF DrainOK
    <3>. QED  BY <1>9, <1>12, <1>15, <1>16, <3>1, <3>2 DEF DrainOK
  <2>. QED  BY <2>1, <2>2 DEF ArenaInv
<1>18. ListInv'
  <2>1. \A d \in Descs : \A x : Listed(d, x)' <=> Listed(d, x)
    <3>. SUFFICES ASSUME NEW d \in Descs, NEW x PROVE Listed(d, x)' <=> Listed(d, x)
      OBVIOUS
    <3>1. d # NONE
      BY DescFacts
    <3>. QED  BY <1>3, <1>9, <1>12, <1>15, <1>16, <3>1 DEF Listed, Drains
  <2>. QED  BY <1>1, <2>1 DEF ListInv, MemInv
<1>19. WorkInv'
  <2>1. WorkOK(t, thread[t])'
    BY <1>5, <1>7 DEF WorkOK, Stage, Getting, Giving, Allocating
  <2>. QED  BY <1>1, <1>7, <2>1, OtherWork DEF MemInv
<1>. QED  BY <1>6, <1>14, <1>17, <1>18, <1>19 DEF MemInv

\* free() of a block of an arena, up to the lock.
LEMMA SmallFreed ==
  ASSUME MemInv, NEW t \in Threads, FreeStart(t), UNCHANGED <<base, usable>>, arenas[thread[t].old[1][1]].desc # NONE
  PROVE  MemInv'
<1>. DEFINE o == thread[t]
            block == o.old[1]
            d == arenas[block[1]].desc
            th == [o EXCEPT !.pc = "free_lock", !.size = d]
<1>1. o.pc = "free" /\ Goto(t, th) /\ data' = [data EXCEPT ![block] = "0xcc"]
      /\ UNCHANGED <<used_map, owner, groups, panic, arenas, free_list, held>>
  BY DEF FreeStart, At, BlockToArena
<1>2. o = [f \in Locals |-> o[f]] /\ BlockOK(block) /\ block \in DOMAIN data /\ CallOK(t, o)
  BY <1>1 DEF MemInv, CallInv, UseInv, Frees
<1>3. th = [f \in Locals |-> th[f]] /\ th.pc = "free_lock" /\ th.size = d /\ th.old = o.old /\ th.pool = o.pool
  BY <1>2, LocalsAre
<1>. HIDE DEF th, o
<1>4. thread'[t] = th /\ o = thread[t] /\ \A u \in Threads \ {t} : thread'[u] = thread[u]
  BY <1>1, <1>2, <1>3, Stepped DEF MemInv, o
<1>5. MapInv' /\ CallInv' /\ GroupInv' /\ PageInv' /\ \A pool \in Pools : Cnt(pool)' = Cnt(pool)
  <2>1. th.pc \notin Getting \cup Got \cup Giving /\ CallSpan(thread[t]) = {} /\ th.pool \in Pools
    BY <1>1, <1>2, <1>3, <1>4, Spans DEF Getting, Got, Giving, CallOK
  <2>2. \A p : ArenasKept(p)
    BY <1>1, ArenasKeptAll
  <2>. QED  BY <1>1, <1>3, <2>1, <2>2, PagesStay
<1>6. d \in Descs
  BY <1>2, <1>4, BlocksFacts DEF BlockOK, o
<1>7. \A u \in Threads : (Frees(thread'[u]) <=> Frees(thread[u])) /\ (Frees(thread[u]) => thread'[u].old = thread[u].old)
  BY <1>1, <1>3, <1>4 DEF Frees
<1>8. \A x : x \in InUse' <=> x \in InUse
  <2>1. \A x : UsedBy(x)' <=> UsedBy(x)
    BY <1>1, <1>7 DEF UsedBy
  <2>. QED  BY <2>1, InUseIs, InUseIsNext
<1>9. UseInv'
  <2>1. \A x : BlockOK(x)' <=> BlockOK(x)
    BY <1>1 DEF BlockOK
  <2>2. DOMAIN data' = DOMAIN data /\ \A x \in DOMAIN data \ {block} : data'[x] = data[x]
    BY <1>1
  <2>3. \A u \in Threads : \A h \in held[u] : h[1] # block
    BY <1>1, <1>4 DEF MemInv, UseInv, Frees
  <2>4. \A u \in Threads : \A h \in held'[u] :
          h = <<h[1], h[2]>> /\ BlockOK(h[1])' /\ h[1] \in DOMAIN data' /\ data'[h[1]] = h[2]
    BY <1>1, <2>1, <2>2, <2>3 DEF MemInv, UseInv
  <2>5. (\A u \in Threads : Frees(thread[u]) => BlockOK(thread[u].old[1]) /\ thread[u].old[1] \in DOMAIN data)'
    <3>1. \A u \in Threads : Frees(thread'[u]) => BlockOK(thread'[u].old[1]) /\ thread'[u].old[1] \in DOMAIN data'
      BY <1>7, <2>2 DEF MemInv, UseInv
    <3>. QED  BY <2>1, <3>1
  <2>6. \A u \in Threads : thread'[u].pc = "free_lock" => thread'[u].size = arenas'[thread'[u].old[1][1]].desc
    BY <1>1, <1>3, <1>4 DEF MemInv, UseInv
  <2>7. /\ held' = [u \in Threads |-> held'[u]]
        /\ \A u, v \in Threads : \A h \in held'[u], k \in held'[v] : h[1] = k[1] => u = v /\ h = k
        /\ \A u, v \in Threads : Frees(thread'[u]) /\ Frees(thread'[v]) /\ thread'[u].old[1] = thread'[v].old[1] => u = v
        /\ \A u, v \in Threads : \A h \in held'[v] : Frees(thread'[u]) => thread'[u].old[1] # h[1]
    BY <1>1, <1>7 DEF MemInv, UseInv
  <2>. QED  BY <2>4, <2>5, <2>6, <2>7 DEF UseInv
<1>10. \A u \in Threads : /\ \A a : Drains(thread'[u], a) <=> Drains(thread[u], a)
                          /\ thread[u].pc = "free_blocks" \/ thread'[u].pc = "free_blocks" => thread'[u] = thread[u]
  BY <1>1, <1>3, <1>4 DEF Drains
<1>11. ArenaInv'
  <2>1. \A a \in DOMAIN arenas' : ArenaOK(a)'
    BY <1>1, <1>5, <1>8, <1>10, ArenaKept DEF ArenaStays, MemInv, ArenaInv
  <2>2. \A u \in Threads : DrainOK(thread[u])'
    BY <1>1, <1>8, <1>10 DEF DrainOK, MemInv, ArenaInv
  <2>. QED  BY <2>1, <2>2 DEF ArenaInv
<1>12. ListInv'
  <2>1. \A e, x : Listed(e, x)' <=> Listed(e, x)
    BY <1>1, <1>8, <1>10 DEF Listed, Drains
  <2>. QED  BY <1>1, <2>1 DEF ListInv, MemInv
<1>13. WorkInv'
  <2>1. WorkOK(t, thread[t])'
    BY <1>3, <1>4, <1>6 DEF WorkOK, Stage, Getting, Giving, Allocating
  <2>. QED  BY <1>1, <1>4, <2>1, OtherWork DEF MemInv
<1>. QED  BY <1>1, <1>5, <1>9, <1>11, <1>12, <1>13 DEF MemInv, LockInv

\* free() looks at the arena of its block.
LEMMA FreeStartKeeps ==
  ASSUME MemInv, NEW t \in Threads, FreeStart(t), UNCHANGED <<base, usable>>
  PROVE  MemInv'
  BY BigFreed, SmallFreed

(***************************************************************************)
(* Lists.                                                                  *)
(***************************************************************************)

\* The block that is put at the front.
LEMMA Pushed ==
  ASSUME NEW list, Len(list) \in Nat, list = [i \in 1..Len(list) |-> list[i]], NEW b
  PROVE  /\ Len(<<b>> \o list) = Len(list) + 1 /\ (<<b>> \o list) = [i \in 1..(Len(list) + 1) |-> (<<b>> \o list)[i]]
         /\ (<<b>> \o list)[1] = b
         /\ \A i \in 1..Len(list) : (<<b>> \o list)[i + 1] = list[i]
<1>. DEFINE S == {list[i] : i \in 1..Len(list)} \cup {b}
<1>1. list \in Seq(S)
  OBVIOUS
<1>. QED  BY <1>1

\* All of the blocks of an arena, and those that are free.
AllBlocks(a, d) == {ArenaToBlock(a, i) : i \in 1..BlocksPerArena(d)}

\* An arena has BlocksPerArena blocks.
LEMMA AllBlocksCount ==
  ASSUME NEW a, NEW d \in Descs
  PROVE  IsFiniteSet(AllBlocks(a, d)) /\ Cardinality(AllBlocks(a, d)) = BlocksPerArena(d)
<1>. DEFINE n == BlocksPerArena(d)
            f == [i \in 1..n |-> <<a, i>>]
<1>1. n \in Nat
  BY DescFacts
<1>. HIDE DEF n
<1>2. f \in Bijection(1..n, AllBlocks(a, d))
  BY DEF Bijection, Injection, Surjection, IsInjective, AllBlocks, ArenaToBlock, n
<1>3. IsFiniteSet(1..n) /\ Cardinality(1..n) = n
  BY <1>1, FS_Interval
<1>4. ExistsBijection(1..n, AllBlocks(a, d))
  BY <1>2 DEF ExistsBijection
<1>. QED  BY <1>3, <1>4, FS_Bijection DEF n

\* An arena has so many free blocks at most, and all only when none is in use.
LEMMA FreeBlocksCount ==
  ASSUME NEW a, NEW d \in Descs
  PROVE  /\ FreeBlocks(a, d) = AllBlocks(a, d) \ InUse
         /\ IsFiniteSet(FreeBlocks(a, d)) /\ Cardinality(FreeBlocks(a, d)) \in Nat
         /\ Cardinality(FreeBlocks(a, d)) <= BlocksPerArena(d)
         /\ Cardinality(FreeBlocks(a, d)) = BlocksPerArena(d) => FreeBlocks(a, d) = AllBlocks(a, d)
<1>1. FreeBlocks(a, d) = AllBlocks(a, d) \ InUse
  BY DEF FreeBlocks, AllBlocks
<1>2. FreeBlocks(a, d) \in SUBSET AllBlocks(a, d)
  BY <1>1
<1>3. IsFiniteSet(AllBlocks(a, d)) /\ Cardinality(AllBlocks(a, d)) = BlocksPerArena(d)
  BY AllBlocksCount
<1>. QED  BY <1>1, <1>2, <1>3, FS_Subset, FS_CardinalityType

\* Nobody takes blocks out of a list whose lock is free, or that another thread has.
LEMMA DrainerHasLock ==
  ASSUME MemInv, NEW u \in Threads, NEW a, Drains(thread[u], a)
  PROVE  /\ a \in DOMAIN arenas /\ arenas[a].desc = thread[u].size /\ thread[u].size \in Descs
         /\ owner[DescLock(arenas[a].desc)] = u /\ \A i : <<a, i>> \notin InUse
<1>1. WorkOK(u, thread[u]) /\ DrainOK(thread[u]) /\ thread[u].pc = "free_blocks" /\ thread[u].old[1][1] = a
  BY DEF MemInv, WorkInv, ArenaInv, Drains
<1>2. thread[u].size \in Descs /\ owner[DescLock(thread[u].size)] = u
  BY <1>1 DEF WorkOK, Stage, Getting, Giving
<1>. QED  BY <1>1, <1>2 DEF DrainOK

\* A block comes back to its arena: what the step does to the block.
LEMMA FreeLockStep ==
  ASSUME MemInv, NEW t \in Threads, FreeLock(t), UNCHANGED <<base, usable>>, NEW page, NEW k, NEW d,
         thread[t].old[1] = <<page, k>>, thread[t].size = d
  PROVE  MemInv'
<1>. DEFINE o == thread[t]
            block == <<page, k>>
            n == BlocksPerArena(d)
            cnt == arenas[page].free_cnt + 1
            th == IF cnt >= n THEN [o EXCEPT !.pc = "free_blocks", !.done = 0] ELSE [o EXCEPT !.pc = "idle"]
<1>1. /\ o.pc = "free_lock" /\ Goto(t, th) /\ LockFree(DescLock(d))
      /\ free_list' = [free_list EXCEPT ![d] = <<block>> \o @] /\ arenas' = [arenas EXCEPT ![page].free_cnt = cnt]
      /\ (cnt >= n => Hold(t, DescLock(d)) /\ panic' = (cnt # n)) /\ (~(cnt >= n) => UNCHANGED <<owner, panic>>)
      /\ UNCHANGED <<used_map, groups, data, held>>
  BY DEF FreeLock, At
<1>2. /\ o = [f \in Locals |-> o[f]] /\ BlockOK(block) /\ block \in DOMAIN data /\ CallOK(t, o) /\ d = arenas[page].desc
      /\ WorkOK(t, o) /\ o.size = d /\ o.old[1] = block
  <2>1. o.old[1] = block /\ o.size = d /\ Frees(o)
    BY <1>1 DEF Frees
  <2>2. o = [f \in Locals |-> o[f]] /\ CallOK(t, o) /\ WorkOK(t, o)
    BY DEF MemInv, CallInv, WorkInv
  <2>3. BlockOK(o.old[1]) /\ o.old[1] \in DOMAIN data /\ o.size = arenas[o.old[1][1]].desc
    BY <1>1, <2>1 DEF MemInv, UseInv
  <2>. HIDE DEF o
  <2>. QED  BY <2>1, <2>2, <2>3
<1>3. d \in Descs /\ d # NONE /\ n \in Nat \ {0} /\ page \in DOMAIN arenas /\ k \in 1..n
  BY <1>1, <1>2, DescFacts DEF WorkOK, Stage, Getting, Giving, BlockOK
<1>4. arenas[page] = [desc |-> d, free_cnt |-> Cardinality(FreeBlocks(page, d))] /\ InPool(page, 1)
      /\ (~(\E u \in Threads : Drains(thread[u], page)) => arenas[page].free_cnt < n)
  BY <1>2, <1>3 DEF MemInv, ArenaInv, ArenaOK
<1>5. block \in InUse
  BY <1>1, InUseIs DEF UsedBy, Frees
<1>6. \A u \in Threads : ~Drains(thread[u], page)
  BY <1>3, <1>5, DrainerHasLock
<1>7. Cardinality(FreeBlocks(page, d)) \in Nat /\ cnt = Cardinality(FreeBlocks(page, d)) + 1 /\ cnt \in Nat /\ cnt <= n
  BY <1>3, <1>4, <1>6, FreeBlocksCount
<1>8. panic' = panic
  <2>1. cnt >= n => cnt = n
    BY <1>3, <1>7
  <2>. HIDE DEF cnt, n
  <2>. QED  BY <1>1, <2>1 DEF MemInv, MapInv
<1>9. /\ th = [f \in Locals |-> th[f]] /\ th.old = o.old /\ th.pool = o.pool /\ th.size = d
      /\ \/ cnt >= n /\ th.pc = "free_blocks" /\ th.done = 0
         \/ ~(cnt >= n) /\ th.pc = "idle"
  BY <1>2, LocalsAre
<1>. HIDE DEF th, o, n, cnt
<1>10. thread'[t] = th /\ o = thread[t] /\ \A u \in Threads \ {t} : thread'[u] = thread[u]
  BY <1>1, <1>2, <1>9, Stepped DEF MemInv, o
<1>11. DOMAIN arenas' = DOMAIN arenas /\ arenas'[page] = [desc |-> d, free_cnt |-> cnt]
       /\ \A a \in DOMAIN arenas \ {page} : arenas'[a] = arenas[a]
  BY <1>1, <1>3, <1>4
<1>12. /\ LockInv' /\ \A u \in Threads, l \in Locks : owner[l] = u => owner'[l] = u
       /\ cnt >= n => owner'[DescLock(d)] = t
  <2>1. CASE cnt >= n
    BY <1>1, <1>3, <2>1, LockTaken, LockNames DEF MemInv
  <2>2. CASE ~(cnt >= n)
    BY <1>1, <2>2 DEF MemInv, LockInv
  <2>. QED  BY <2>1, <2>2
<1>13. MapInv' /\ CallInv' /\ GroupInv' /\ PageInv' /\ \A pool \in Pools : Cnt(pool)' = Cnt(pool)
  <2>1. th.pc \notin Getting \cup Got \cup Giving /\ CallSpan(thread[t]) = {} /\ th.pool \in Pools
    BY <1>1, <1>2, <1>9, <1>10, Spans DEF Getting, Got, Giving, CallOK
  <2>2. \A p : ArenasKept(p)
    BY <1>3, <1>4, <1>11 DEF ArenasKept, ArenaHas, PagesOf
  <2>3. \A u \in Threads \ {t}, pool \in Pools : owner[PoolLock(pool)] = u => owner'[PoolLock(pool)] = u
    BY <1>12, LockNames
  <2>. QED  BY <1>1, <1>8, <1>9, <2>1, <2>2, <2>3, PagesStay
<1>14. ~Frees(thread'[t]) /\ Frees(thread[t]) /\ \A u \in Threads \ {t} : Frees(thread'[u]) <=> Frees(thread[u])
  BY <1>1, <1>9, <1>10 DEF Frees
<1>15. /\ \A u \in Threads : \A h \in held[u] : h[1] # block
       /\ \A u \in Threads \ {t} : Frees(thread[u]) => thread[u].old[1] # block
  BY <1>10, <1>14 DEF MemInv, UseInv
<1>16. \A x : x \in InUse' <=> x \in InUse /\ x # block
  <2>1. \A x : UsedBy(x)' <=> UsedBy(x) /\ x # block
    BY <1>1, <1>10, <1>14, <1>15 DEF UsedBy
  <2>. QED  BY <2>1, InUseIs, InUseIsNext
<1>17. UseInv'
  <2>1. \A x : BlockOK(x)' <=> BlockOK(x)
    BY <1>2, <1>3, <1>11 DEF BlockOK
  <2>2. \A u \in Threads : \A h \in held'[u] :
          h = <<h[1], h[2]>> /\ BlockOK(h[1])' /\ h[1] \in DOMAIN data' /\ data'[h[1]] = h[2]
    BY <1>1, <2>1 DEF MemInv, UseInv
  <2>3. (\A u \in Threads : Frees(thread[u]) => BlockOK(thread[u].old[1]) /\ thread[u].old[1] \in DOMAIN data)'
    <3>1. \A u \in Threads : Frees(thread'[u]) => BlockOK(thread'[u].old[1]) /\ thread'[u].old[1] \in DOMAIN data'
      BY <1>1, <1>10, <1>14 DEF MemInv, UseInv
    <3>. QED  BY <2>1, <3>1
  <2>4. \A u \in Threads : thread'[u].pc = "free_lock" => thread'[u].size = arenas'[thread'[u].old[1][1]].desc
    <3>. SUFFICES ASSUME NEW u \in Threads, thread'[u].pc = "free_lock"
                  PROVE  thread'[u].size = arenas'[thread'[u].old[1][1]].desc
      OBVIOUS
    <3>1. u # t /\ thread'[u] = thread[u] /\ Frees(thread[u])
      BY <1>9, <1>10 DEF Frees
    <3>2. BlockOK(thread[u].old[1]) /\ thread[u].size = arenas[thread[u].old[1][1]].desc
      BY <3>1 DEF MemInv, UseInv
    <3>3. thread[u].old[1][1] \in DOMAIN arenas
      BY <3>2 DEF BlockOK
    <3>. QED  BY <1>2, <1>11, <3>1, <3>2, <3>3
  <2>5. /\ held' = [u \in Threads |-> held'[u]]
        /\ \A u, v \in Threads : \A h \in held'[u], g \in held'[v] : h[1] = g[1] => u = v /\ h = g
        /\ \A u, v \in Threads : Frees(thread'[u]) /\ Frees(thread'[v]) /\ thread'[u].old[1] = thread'[v].old[1] => u = v
        /\ \A u, v \in Threads : \A h \in held'[v] : Frees(thread'[u]) => thread'[u].old[1] # h[1]
    BY <1>1, <1>10, <1>14 DEF MemInv, UseInv
  <2>. QED  BY <2>2, <2>3, <2>4, <2>5 DEF UseInv
<1>18. /\ FreeBlocks(page, d)' = FreeBlocks(page, d) \cup {block}
       /\ Cardinality(FreeBlocks(page, d)') = cnt
       /\ cnt >= n => \A i \in 1..n : <<page, i>> \notin InUse'
  <2>1. \A x : x \in AllBlocks(page, d) <=> \E i \in 1..n : x = <<page, i>>
    BY DEF AllBlocks, ArenaToBlock, n
  <2>2. FreeBlocks(page, d)' = AllBlocks(page, d) \ InUse' /\ FreeBlocks(page, d) = AllBlocks(page, d) \ InUse
    BY DEF FreeBlocks, AllBlocks
  <2>3. FreeBlocks(page, d)' = FreeBlocks(page, d) \cup {block}
    BY <1>3, <1>5, <1>16, <2>1, <2>2
  <2>4. block \notin FreeBlocks(page, d) /\ IsFiniteSet(FreeBlocks(page, d))
    BY <1>3, <1>5, <2>2, FreeBlocksCount
  <2>5. Cardinality(FreeBlocks(page, d)') = cnt
    BY <1>7, <2>3, <2>4, FS_AddElement
  <2>6. cnt >= n => FreeBlocks(page, d)' = AllBlocks(page, d)
    <3>1. cnt >= n => cnt = n
      BY <1>3, <1>7
    <3>2. IsFiniteSet(AllBlocks(page, d)) /\ Cardinality(AllBlocks(page, d)) = n
      BY <1>3, AllBlocksCount DEF n
    <3>3. FreeBlocks(page, d)' \in SUBSET AllBlocks(page, d)
      BY <2>2
    <3>. QED  BY <2>5, <3>1, <3>2, <3>3, FS_Subset
  <2>. QED  BY <2>1, <2>2, <2>3, <2>5, <2>6
<1>19. \A u \in Threads \ {t} :
         /\ \A a : Drains(thread'[u], a) <=> Drains(thread[u], a)
         /\ thread[u].pc = "free_blocks" \/ thread'[u].pc = "free_blocks" => thread'[u] = thread[u]
         /\ thread'[u].done = thread[u].done
  BY <1>10
<1>20. \A a :
         /\ ~Drains(thread[t], a)
         /\ Drains(thread'[t], a) <=> (a = page /\ cnt >= n)
         /\ Drains(thread'[t], a) => thread'[t].done = 0
  BY <1>1, <1>2, <1>9, <1>10 DEF Drains
<1>21. ArenaInv'
  <2>1. \A a \in DOMAIN arenas \ {page} : ArenaOK(a)'
    <3>. SUFFICES ASSUME NEW a \in DOMAIN arenas \ {page} PROVE ArenaOK(a)'
      OBVIOUS
    <3>1. ArenaStays(a)
      BY <1>11, <1>16, <1>19, <1>20 DEF ArenaStays
    <3>. QED  BY <1>13, <3>1, ArenaKept DEF MemInv, ArenaInv
  <2>2. ArenaOK(page)'
    <3>1. InPool(page, 1)'
      BY <1>4, <1>13 DEF InPool, Whole
    <3>2. ~(\E u \in Threads : Drains(thread'[u], page)) => cnt < n
      BY <1>3, <1>7, <1>20
    <3>3. BlocksPerArena(d) = n
      BY DEF n
    <3>. QED  BY <1>3, <1>11, <1>18, <3>1, <3>2, <3>3 DEF ArenaOK
  <2>3. DrainOK(thread[t])'
    <3>. SUFFICES ASSUME thread'[t].pc = "free_blocks" PROVE DrainOK(thread[t])'
      BY DEF DrainOK
    <3>1. cnt >= n /\ thread'[t].old[1][1] = page /\ thread'[t].size = d /\ thread'[t].done = 0
      BY <1>2, <1>9, <1>10
    <3>2. \A i : <<page, i>> \notin InUse'
      <4>. SUFFICES ASSUME NEW i, <<page, i>> \in InUse' PROVE FALSE
        OBVIOUS
      <4>1. BlockOK(<<page, i>>)
        BY <1>16, BlocksFacts
      <4>2. i \in 1..n
        BY <1>2, <1>3, <4>1 DEF BlockOK, n
      <4>. QED  BY <1>18, <3>1, <4>2
    <3>. QED  BY <1>3, <1>11, <3>1, <3>2 DEF DrainOK, n
  <2>4. \A u \in Threads \ {t} : DrainOK(thread[u])'
    <3>. SUFFICES ASSUME NEW u \in Threads \ {t}, thread'[u].pc = "free_blocks" PROVE DrainOK(thread[u])'
      BY DEF DrainOK
    <3>1. thread'[u] = thread[u] /\ DrainOK(thread[u]) /\ thread[u].old[1][1] # page
      BY <1>6, <1>19 DEF MemInv, ArenaInv, Drains
    <3>. QED  BY <1>11, <1>16, <3>1 DEF DrainOK
  <2>. QED  BY <1>11, <2>1, <2>2, <2>3, <2>4 DEF ArenaInv
<1>22. ListInv'
  <2>. DEFINE list == free_list[d]
              new == <<block>> \o list
  <2>1. /\ list = [i \in 1..Len(list) |-> list[i]] /\ Len(list) \in Nat
        /\ \A i, j \in 1..Len(list) : list[i] = list[j] => i = j
        /\ \A b : (\E i \in 1..Len(list) : list[i] = b) <=> Listed(d, b)
    BY <1>3 DEF MemInv, ListInv
  <2>2. /\ Len(new) = Len(list) + 1 /\ new = [i \in 1..(Len(list) + 1) |-> new[i]] /\ new[1] = block
        /\ \A i \in 1..Len(list) : new[i + 1] = list[i]
    BY <2>1, Pushed
  <2>3. ~Listed(d, block)
    BY <1>5 DEF Listed
  <2>4. \A b : Listed(d, b)' <=> Listed(d, b) \/ b = block
    <3>1. Listed(d, block)'
      <4>1. \A u \in Threads : Drains(thread'[u], page) => thread'[u].done = 0
        BY <1>6, <1>19, <1>20
      <4>2. \A u \in Threads : Drains(thread'[u], page) => k > thread'[u].done
        BY <1>3, <4>1
      <4>. QED  BY <1>3, <1>11, <1>16, <4>2 DEF Listed, n
    <3>2. \A b : b # block => (Listed(d, b)' <=> Listed(d, b))
      <4>. SUFFICES ASSUME NEW b, b # block, b[2] \in 1..BlocksPerArena(d) PROVE Listed(d, b)' <=> Listed(d, b)
        BY DEF Listed
      <4>1. (\A u \in Threads : Drains(thread'[u], b[1]) => b[2] > thread'[u].done)
            <=> (\A u \in Threads : Drains(thread[u], b[1]) => b[2] > thread[u].done)
        BY <1>19, <1>20
      <4>2. b \in InUse' <=> b \in InUse
        BY <1>16
      <4>3. b[1] \in DOMAIN arenas => arenas'[b[1]].desc = arenas[b[1]].desc
        BY <1>2, <1>11
      <4>. QED  BY <1>11, <4>1, <4>2, <4>3 DEF Listed
    <3>. QED  BY <3>1, <3>2
  <2>5. \A e \in Descs \ {d} : \A b : Listed(e, b)' <=> Listed(e, b)
    <3>. SUFFICES ASSUME NEW e \in Descs \ {d}, NEW b PROVE Listed(e, b)' <=> Listed(e, b)
      OBVIOUS
    <3>1. b[1] \in DOMAIN arenas => arenas'[b[1]].desc = arenas[b[1]].desc
      BY <1>2, <1>11
    <3>2. CASE b[1] = page
      BY <1>2, <1>3, <1>11, <3>2 DEF Listed
    <3>3. CASE b[1] # page
      BY <1>11, <1>16, <1>19, <1>20, <3>1, <3>3 DEF Listed, Drains
    <3>. QED  BY <3>2, <3>3
  <2>. HIDE DEF new, list
  <2>6. Len(new) \in Nat /\ new = [i \in 1..Len(new) |-> new[i]]
    BY <2>1, <2>2
  <2>7. \A i \in 1..Len(new) : new[i] = (IF i = 1 THEN block ELSE list[i - 1]) /\ (i # 1 => i - 1 \in 1..Len(list))
    <3>. SUFFICES ASSUME NEW i \in 1..Len(new), i # 1 PROVE new[i] = list[i - 1] /\ i - 1 \in 1..Len(list)
      BY <2>2
    <3>1. i - 1 \in 1..Len(list) /\ (i - 1) + 1 = i
      BY <2>1, <2>2
    <3>. QED  BY <2>2, <3>1
  <2>8. \A i, j \in 1..Len(new) : new[i] = new[j] => i = j
    <3>. SUFFICES ASSUME NEW i \in 1..Len(new), NEW j \in 1..Len(new), new[i] = new[j] PROVE i = j
      OBVIOUS
    <3>1. \A m \in 1..Len(list) : list[m] # block
      BY <2>1, <2>3
    <3>2. (i = 1 <=> j = 1) /\ (i # 1 => i - 1 = j - 1)
      BY <2>1, <2>7, <3>1
    <3>. QED  BY <2>6, <3>2
  <2>9. \A b : (\E i \in 1..Len(new) : new[i] = b) <=> Listed(d, b)'
    <3>. SUFFICES ASSUME NEW b PROVE (\E i \in 1..Len(new) : new[i] = b) <=> Listed(d, b) \/ b = block
      BY <2>4
    <3>1. ASSUME NEW i \in 1..Len(new), new[i] = b PROVE Listed(d, b) \/ b = block
      BY <2>1, <2>7, <3>1
    <3>2. ASSUME b = block PROVE \E i \in 1..Len(new) : new[i] = b
      <4>1. 1 \in 1..Len(new)
        BY <2>1, <2>2
      <4>. QED  BY <2>2, <3>2, <4>1
    <3>3. ASSUME Listed(d, b) PROVE \E i \in 1..Len(new) : new[i] = b
      <4>1. PICK m \in 1..Len(list) : list[m] = b
        BY <2>1, <3>3
      <4>2. m + 1 \in 1..(Len(list) + 1) /\ new[m + 1] = list[m]
        <5>1. \A l \in Nat : \A i \in 1..l : i + 1 \in 1..(l + 1)
          OBVIOUS
        <5>2. m + 1 \in 1..(Len(list) + 1)
          BY <2>1, <5>1
        <5>. QED  BY <2>2, <5>2
      <4>3. m + 1 \in 1..Len(new) /\ new[m + 1] = b
        BY <2>2, <4>1, <4>2
      <4>. QED  BY <4>3
    <3>. QED  BY <3>1, <3>2, <3>3
  <2>10. free_list' = [free_list EXCEPT ![d] = new]
    BY <1>1 DEF new, list
  <2>. QED  BY <1>3, <2>5, <2>6, <2>8, <2>9, <2>10, ListStep DEF MemInv
<1>23. WorkInv'
  <2>1. WorkOK(t, thread[t])'
    BY <1>3, <1>9, <1>10, <1>12 DEF WorkOK, Stage, Getting, Giving, Allocating
  <2>2. \A u \in Threads \ {t}, e \in Descs : owner[DescLock(e)] = u => owner'[DescLock(e)] = u /\ free_list'[e] = free_list[e]
    <3>. SUFFICES ASSUME NEW u \in Threads \ {t}, NEW e \in Descs, owner[DescLock(e)] = u
                  PROVE  owner'[DescLock(e)] = u /\ free_list'[e] = free_list[e]
      OBVIOUS
    <3>1. e # d
      BY <1>1, NoneFacts DEF LockFree
    <3>. QED  BY <1>1, <1>12, <3>1, LockNames DEF MemInv, ListInv
  <2>. QED  BY <1>1, <1>10, <2>1, <2>2, OtherWork DEF MemInv
<1>. QED  BY <1>12, <1>13, <1>17, <1>21, <1>22, <1>23 DEF MemInv

\* free() takes the lock and puts its block on the list.
LEMMA FreeLockKept ==
  ASSUME MemInv, NEW t \in Threads, FreeLock(t), UNCHANGED <<base, usable>>
  PROVE  MemInv'
<1>1. BlockOK(thread[t].old[1])
  BY DEF FreeLock, At, MemInv, UseInv, Frees
<1>2. thread[t].old[1] = <<thread[t].old[1][1], thread[t].old[1][2]>>
  BY <1>1 DEF BlockOK
<1>3. PICK page, k, d : thread[t].old[1] = <<page, k>> /\ thread[t].size = d
  BY <1>2
<1>. QED  BY <1>3, FreeLockStep

\* A list that has no block twice, and a block that is taken out of it.
OnceEach(list) ==
    /\ Len(list) \in Nat /\ list = [i \in 1..Len(list) |-> list[i]]
    /\ \A i, j \in 1..Len(list) : list[i] = list[j] => i = j

\* x is on the list.
Has(list, x) == \E i \in 1..Len(list) : list[i] = x

\* new has what list has, x excepted.
IsWithout(new, list, x) == OnceEach(new) /\ \A y : Has(new, y) <=> Has(list, y) /\ y # x

\* list_remove() takes one element off, and that element only.
LEMMA Removed ==
  ASSUME NEW list, OnceEach(list), NEW x, Has(list, x)
  PROVE  IsWithout(ListRemove(list, x), list, x)
<1>0. PICK k \in 1..Len(list) : list[k] = x
  BY DEF Has
<1>. DEFINE new == ListRemove(list, x)
            n == Len(list)
            m == n - 1
<1>1. (CHOOSE i \in 1..n : list[i] = x) = k
  BY <1>0 DEF OnceEach
<1>2. new = [i \in 1..m |-> IF i < k THEN list[i] ELSE list[i + 1]]
  BY <1>1 DEF ListRemove
<1>. HIDE DEF new
<1>3. n \in Nat /\ m \in Nat /\ k \in Nat /\ 1 <= k /\ k <= n /\ n = m + 1
  BY DEF OnceEach
<1>4. Len(new) = m
  <2>1. new \in Seq({new[i] : i \in 1..m})
    <3>1. m \in Nat /\ new = [i \in 1..m |-> new[i]]
      BY <1>2, <1>3
    <3>. HIDE DEF m
    <3>. QED  BY <3>1
  <2>2. DOMAIN new = 1..Len(new) /\ Len(new) \in Nat
    BY <2>1
  <2>3. DOMAIN new = 1..m
    BY <1>2
  <2>4. \A a, b \in Nat : 1..a = 1..b => a = b
    <3>. SUFFICES ASSUME NEW a \in Nat, NEW b \in Nat, 1..a = 1..b PROVE a = b
      OBVIOUS
    <3>1. a # 0 => a \in 1..b
      OBVIOUS
    <3>2. b # 0 => b \in 1..a
      OBVIOUS
    <3>. QED  BY <3>1, <3>2
  <2>. HIDE DEF m
  <2>. QED  BY <1>3, <2>2, <2>3, <2>4
<1>. HIDE DEF n, m
<1>5. \A i \in 1..m : i \in 1..n /\ i + 1 \in 1..n
  BY <1>3
<1>6. \A i \in 1..m : (i < k => new[i] = list[i]) /\ (~(i < k) => new[i] = list[i + 1])
  BY <1>2
<1>7. \A i, j \in 1..n : list[i] = list[j] => i = j
  BY DEF n, OnceEach
<1>8. \A i, j \in 1..m : new[i] = new[j] => i = j
  <2>. SUFFICES ASSUME NEW i \in 1..m, NEW j \in 1..m, new[i] = new[j] PROVE i = j
    OBVIOUS
  <2>1. CASE i < k /\ j < k
    BY <1>5, <1>6, <1>7, <2>1
  <2>2. CASE i < k /\ ~(j < k)
    <3>1. i = j + 1
      BY <1>5, <1>6, <1>7, <2>2
    <3>. QED  BY <1>3, <2>2, <3>1
  <2>3. CASE ~(i < k) /\ j < k
    <3>1. i + 1 = j
      BY <1>5, <1>6, <1>7, <2>3
    <3>. QED  BY <1>3, <2>3, <3>1
  <2>4. CASE ~(i < k) /\ ~(j < k)
    <3>1. i + 1 = j + 1
      BY <1>5, <1>6, <1>7, <2>4
    <3>. QED  BY <1>3, <3>1
  <2>. QED  BY <2>1, <2>2, <2>3, <2>4
<1>9. \A y : (\E i \in 1..m : new[i] = y) <=> (\E i \in 1..n : list[i] = y) /\ y # x
  <2>. SUFFICES ASSUME NEW y PROVE (\E i \in 1..m : new[i] = y) <=> (\E i \in 1..n : list[i] = y) /\ y # list[k]
    BY <1>0
  <2>1. ASSUME NEW i \in 1..m, new[i] = y PROVE (\E j \in 1..n : list[j] = y) /\ y # list[k]
    <3>1. k \in 1..n
      BY <1>3
    <3>2. CASE i < k
      <4>1. i \in 1..n /\ list[i] = y /\ i # k
        BY <1>5, <1>6, <2>1, <3>2, <1>3
      <4>. QED  BY <1>7, <3>1, <4>1
    <3>3. CASE ~(i < k)
      <4>1. i + 1 \in 1..n /\ list[i + 1] = y
        BY <1>5, <1>6, <2>1, <3>3
      <4>2. i + 1 # k
        BY <1>3, <3>3
      <4>. QED  BY <1>7, <3>1, <4>1, <4>2
    <3>. QED  BY <3>2, <3>3
  <2>2. ASSUME NEW i \in 1..n, list[i] = y, y # list[k] PROVE \E j \in 1..m : new[j] = y
    <3>1. i # k
      BY <2>2
    <3>2. CASE i < k
      <4>1. i \in 1..m
        BY <1>3, <3>2
      <4>. QED  BY <1>6, <2>2, <3>2, <4>1
    <3>3. CASE ~(i < k)
      <4>1. i - 1 \in 1..m /\ ~(i - 1 < k) /\ (i - 1) + 1 = i
        BY <1>3, <3>1, <3>3
      <4>. QED  BY <1>6, <2>2, <4>1
    <3>. QED  BY <3>2, <3>3
  <2>. QED  BY <2>1, <2>2
<1>10. new = [i \in 1..m |-> new[i]]
  BY <1>2
<1>11. OnceEach(new)
  BY <1>3, <1>4, <1>8, <1>10 DEF OnceEach
<1>12. IsWithout(new, list, x)
  BY <1>4, <1>9, <1>11 DEF n, IsWithout, Has
<1>. QED  BY <1>12 DEF new

\* free() takes a block of an arena that nobody uses off the list, and gives the arena back
\* after the last one.
LEMMA FreeBlockStep ==
  ASSUME MemInv, NEW t \in Threads, FreeBlock(t), UNCHANGED <<base, usable>>, NEW page, NEW d, NEW m,
         thread[t].old[1][1] = page, thread[t].size = d, thread[t].done = m
  PROVE  MemInv'
<1>. DEFINE o == thread[t]
            n == BlocksPerArena(d)
            b == <<page, m + 1>>
            more == m + 1 < n
            th == IF more THEN [o EXCEPT !.done = @ + 1] ELSE FreeMultiple(o, page, 1, "free_unlock")
<1>1. /\ o.pc = "free_blocks" /\ Goto(t, th)
      /\ free_list' = [free_list EXCEPT ![d] = ListRemove(@, b)]
      /\ more => UNCHANGED <<arenas, data>>
      /\ ~more => arenas' = Without(arenas, {page}) /\ data' = Without(data, {x \in DOMAIN data : x[1] = page})
      /\ UNCHANGED <<used_map, owner, groups, panic, held>>
  BY DEF FreeBlock, At, ArenaToBlock
<1>2. o = [f \in Locals |-> o[f]] /\ CallOK(t, o) /\ WorkOK(t, o) /\ DrainOK(o) /\ o.size = d /\ o.done = m /\ o.old[1][1] = page
  BY DEF MemInv, CallInv, WorkInv, ArenaInv
<1>3. d \in Descs /\ owner[DescLock(d)] = t /\ page \in DOMAIN arenas /\ arenas[page].desc = d /\ m \in Nat /\ m < n
  BY <1>1, <1>2 DEF WorkOK, Stage, Getting, Giving, DrainOK
<1>4. \A i : <<page, i>> \notin InUse
  BY <1>1, <1>2 DEF DrainOK
<1>5. d # NONE /\ n \in Nat \ {0}
  BY <1>3, DescFacts
<1>6. /\ th = [f \in Locals |-> th[f]] /\ th.old = o.old /\ th.size = d
      /\ \/ more /\ th.pc = "free_blocks" /\ th.done = m + 1 /\ th.pool = o.pool
         \/ ~more /\ th.pc = "free_pages" /\ th.ret = "free_unlock"
  <2>. HIDE DEF n, o
  <2>1. CASE more
    <3>1. th = [o EXCEPT !.done = @ + 1]
      BY <2>1
    <3>. QED  BY <1>1, <1>2, <2>1, <3>1, LocalsAre
  <2>2. CASE ~more
    <3>1. th = FreeMultiple(o, page, 1, "free_unlock")
      BY <2>2
    <3>. QED  BY <1>2, <2>2, <3>1, LocalsAre DEF FreeMultiple
  <2>. QED  BY <2>1, <2>2
<1>7. PagesOf(page) = Span(page, 1) /\ InPool(page, 1)
  BY <1>3, <1>5 DEF PagesOf, MemInv, ArenaInv, ArenaOK
<1>8. MapInv' /\ LockInv' /\ CallInv' /\ GroupInv' /\ PageInv' /\ \A pool \in Pools : Cnt(pool)' = Cnt(pool)
  <2>1. o.pc \notin Getting \cup Got \cup Giving /\ CallSpan(o) = {} /\ o.pool \in Pools
    BY <1>1, <1>2, Spans DEF Getting, Got, Giving, CallOK
  <2>. HIDE DEF th, n
  <2>2. CASE more
    <3>1. \A p : ArenasKept(p)
      BY <1>1, <2>2, ArenasKeptAll
    <3>2. LockInv'
      BY <1>1 DEF MemInv, LockInv
    <3>3. th.pool \in Pools /\ th.pc \notin Getting \cup Got \cup Giving
      BY <1>6, <2>1, <2>2 DEF Getting, Got, Giving
    <3>. QED  BY <1>1, <1>6, <2>1, <3>1, <3>2, <3>3, PagesStay
  <2>3. CASE ~more
    <3>1. th = FreeMultiple(thread[t], page, 1, "free_unlock")
      BY <2>3 DEF th
    <3>. QED  BY <1>1, <1>3, <1>7, <2>1, <2>3, <3>1, PagesGiven
  <2>. QED  BY <2>2, <2>3
<1>. HIDE DEF th, o, n
<1>9. thread'[t] = th /\ o = thread[t] /\ \A u \in Threads \ {t} : thread'[u] = thread[u]
  BY <1>1, <1>2, <1>6, Stepped DEF MemInv, o
<1>10. /\ DOMAIN arenas' = (IF more THEN DOMAIN arenas ELSE DOMAIN arenas \ {page})
       /\ \A a \in DOMAIN arenas' : arenas'[a] = arenas[a]
       /\ \A x \in DOMAIN data : x[1] # page => x \in DOMAIN data' /\ data'[x] = data[x]
  BY <1>1, <1>3 DEF Without
<1>11. \A u \in Threads : (Frees(thread'[u]) <=> Frees(thread[u])) /\ (Frees(thread'[u]) => thread'[u] = thread[u])
  BY <1>1, <1>6, <1>9 DEF Frees
<1>12. \A x : x \in InUse' <=> x \in InUse
  <2>1. \A x : UsedBy(x)' <=> UsedBy(x)
    BY <1>1, <1>11 DEF UsedBy
  <2>. QED  BY <2>1, InUseIs, InUseIsNext
<1>13. \A x \in InUse : x[1] # page /\ BlockOK(x)' /\ BlockOK(x) /\ x \in DOMAIN data' /\ data'[x] = data[x]
  <2>. SUFFICES ASSUME NEW x \in InUse
                PROVE  x[1] # page /\ BlockOK(x)' /\ BlockOK(x) /\ x \in DOMAIN data' /\ data'[x] = data[x]
    OBVIOUS
  <2>1. BlockOK(x) /\ x \in DOMAIN data
    BY BlocksFacts
  <2>2. x[1] # page
    BY <1>4, <2>1 DEF BlockOK
  <2>3. BlockOK(x)'
    BY <1>10, <2>1, <2>2 DEF BlockOK
  <2>. QED  BY <1>10, <2>1, <2>2, <2>3
<1>14. UseInv'
  <2>1. /\ \A u \in Threads : \A h \in held[u] : h[1] \in InUse
        /\ \A u \in Threads : Frees(thread[u]) => thread[u].old[1] \in InUse
    BY InUseIs DEF UsedBy
  <2>2. \A u \in Threads : \A h \in held'[u] :
          h = <<h[1], h[2]>> /\ BlockOK(h[1])' /\ h[1] \in DOMAIN data' /\ data'[h[1]] = h[2]
    BY <1>1, <1>13, <2>1 DEF MemInv, UseInv
  <2>3. (\A u \in Threads : Frees(thread[u]) => BlockOK(thread[u].old[1]) /\ thread[u].old[1] \in DOMAIN data)'
    BY <1>11, <1>13, <2>1
  <2>4. \A u \in Threads : thread'[u].pc = "free_lock" => thread'[u].size = arenas'[thread'[u].old[1][1]].desc
    <3>. SUFFICES ASSUME NEW u \in Threads, thread'[u].pc = "free_lock"
                  PROVE  thread'[u].size = arenas'[thread'[u].old[1][1]].desc
      OBVIOUS
    <3>1. thread'[u] = thread[u] /\ Frees(thread[u])
      BY <1>11 DEF Frees
    <3>2. thread[u].size = arenas[thread[u].old[1][1]].desc
      BY <3>1 DEF MemInv, UseInv
    <3>3. thread[u].old[1][1] \in DOMAIN arenas /\ thread[u].old[1][1] # page
      BY <1>13, <2>1, <3>1 DEF BlockOK
    <3>. QED  BY <1>10, <3>1, <3>2, <3>3
  <2>5. /\ held' = [u \in Threads |-> held'[u]]
        /\ \A u, v \in Threads : \A h \in held'[u], k \in held'[v] : h[1] = k[1] => u = v /\ h = k
        /\ \A u, v \in Threads : Frees(thread'[u]) /\ Frees(thread'[v]) /\ thread'[u].old[1] = thread'[v].old[1] => u = v
        /\ \A u, v \in Threads : \A h \in held'[v] : Frees(thread'[u]) => thread'[u].old[1] # h[1]
    BY <1>1, <1>11 DEF MemInv, UseInv
  <2>. QED  BY <2>2, <2>3, <2>4, <2>5 DEF UseInv
<1>15. \A u \in Threads \ {t} : ~Drains(thread[u], page)
  BY <1>3, DrainerHasLock
<1>16. \A u \in Threads \ {t} :
         /\ \A a : Drains(thread'[u], a) <=> Drains(thread[u], a)
         /\ thread[u].pc = "free_blocks" \/ thread'[u].pc = "free_blocks" => thread'[u] = thread[u]
         /\ thread'[u].done = thread[u].done
  BY <1>9
<1>17. \A a :
         /\ Drains(thread[t], a) <=> a = page
         /\ Drains(thread'[t], a) <=> (a = page /\ more)
  BY <1>1, <1>2, <1>6, <1>9 DEF Drains
<1>18. ArenaInv'
  <2>1. \A a \in DOMAIN arenas' \ {page} : ArenaOK(a)'
    <3>. SUFFICES ASSUME NEW a \in DOMAIN arenas' \ {page} PROVE ArenaOK(a)'
      OBVIOUS
    <3>1. ArenaStays(a) /\ a \in DOMAIN arenas
      BY <1>10, <1>12, <1>16, <1>17 DEF ArenaStays
    <3>. QED  BY <1>8, <3>1, ArenaKept DEF MemInv, ArenaInv
  <2>2. page \in DOMAIN arenas' => ArenaOK(page)'
    <3>. SUFFICES ASSUME page \in DOMAIN arenas' PROVE ArenaOK(page)'
      OBVIOUS
    <3>1. more
      BY <1>10
    <3>2. ArenaStays(page)
      BY <1>10, <1>12, <1>15, <1>16, <1>17, <3>1 DEF ArenaStays
    <3>. QED  BY <1>3, <1>8, <3>2, ArenaKept DEF MemInv, ArenaInv
  <2>3. DrainOK(thread[t])'
    <3>. SUFFICES ASSUME thread'[t].pc = "free_blocks" PROVE DrainOK(thread[t])'
      BY DEF DrainOK
    <3>1. more /\ thread'[t].old[1][1] = page /\ thread'[t].size = d /\ thread'[t].done = m + 1
      BY <1>2, <1>6, <1>9
    <3>2. m + 1 \in Nat /\ m + 1 < n
      BY <1>3, <3>1
    <3>. QED  BY <1>3, <1>4, <1>10, <1>12, <3>1, <3>2 DEF DrainOK, n
  <2>4. \A u \in Threads \ {t} : DrainOK(thread[u])'
    <3>. SUFFICES ASSUME NEW u \in Threads \ {t}, thread'[u].pc = "free_blocks" PROVE DrainOK(thread[u])'
      BY DEF DrainOK
    <3>1. thread'[u] = thread[u] /\ DrainOK(thread[u]) /\ thread[u].old[1][1] # page
      BY <1>15, <1>16 DEF MemInv, ArenaInv, Drains
    <3>. QED  BY <1>10, <1>12, <3>1 DEF DrainOK
  <2>. QED  BY <2>1, <2>2, <2>3, <2>4 DEF ArenaInv
<1>19. ListInv'
  <2>. DEFINE list == free_list[d]
              new == ListRemove(list, b)
  <2>1. OnceEach(list) /\ \A x : Has(list, x) <=> Listed(d, x)
    BY <1>3 DEF MemInv, ListInv, OnceEach, Has
  <2>2. Listed(d, b)
    <3>1. m + 1 \in 1..n /\ m + 1 > m
      BY <1>3, <1>5
    <3>2. \A u \in Threads : Drains(thread[u], page) => thread[u].done = m
      BY <1>2, <1>9, <1>15
    <3>. QED  BY <1>3, <1>4, <3>1, <3>2 DEF Listed, n
  <2>. HIDE DEF new, list
  <2>3. new = ListRemove(list, b)
    BY DEF new
  <2>5. IsWithout(new, list, b)
    BY <2>1, <2>2, <2>3, Removed
  <2>6. \A x : Listed(d, x)' <=> Listed(d, x) /\ x # b
    <3>. SUFFICES ASSUME NEW x, x = <<x[1], x[2]>>, x[2] \in 1..n PROVE Listed(d, x)' <=> Listed(d, x) /\ x # b
      BY <2>2 DEF Listed, n
    <3>1. CASE x[1] = page /\ more
      <4>1. (\A u \in Threads : Drains(thread'[u], x[1]) => x[2] > thread'[u].done) <=> x[2] > m + 1
        BY <1>2, <1>6, <1>9, <1>15, <1>16, <1>17, <3>1
      <4>2. (\A u \in Threads : Drains(thread[u], x[1]) => x[2] > thread[u].done) <=> x[2] > m
        BY <1>2, <1>9, <1>15, <1>17, <3>1
      <4>3. x[2] > m + 1 <=> x[2] > m /\ x[2] # m + 1
        BY <1>3, <1>5
      <4>4. x # b <=> x[2] # m + 1
        BY <3>1
      <4>. QED  BY <1>3, <1>10, <1>12, <3>1, <4>1, <4>2, <4>3, <4>4 DEF Listed, n
    <3>2. CASE x[1] = page /\ ~more
      <4>1. ~Listed(d, x)'
        BY <1>10, <3>2 DEF Listed
      <4>2. Listed(d, x) => x[2] > m
        BY <1>2, <1>9, <1>17, <3>2 DEF Listed
      <4>3. x[2] > m => x[2] = m + 1
        BY <1>3, <1>5, <3>2
      <4>. QED  BY <3>2, <4>1, <4>2, <4>3
    <3>3. CASE x[1] # page
      <4>1. (\A u \in Threads : Drains(thread'[u], x[1]) => x[2] > thread'[u].done)
            <=> (\A u \in Threads : Drains(thread[u], x[1]) => x[2] > thread[u].done)
        BY <1>16, <1>17, <3>3
      <4>2. x[1] \in DOMAIN arenas' <=> x[1] \in DOMAIN arenas
        BY <1>10, <3>3
      <4>3. x[1] \in DOMAIN arenas' => arenas'[x[1]] = arenas[x[1]]
        BY <1>10
      <4>4. x # b
        BY <3>3
      <4>. QED  BY <1>12, <4>1, <4>2, <4>3, <4>4 DEF Listed
    <3>. QED  BY <3>1, <3>2, <3>3
  <2>7. \A e \in Descs \ {d} : \A x : Listed(e, x)' <=> Listed(e, x)
    <3>. SUFFICES ASSUME NEW e \in Descs \ {d}, NEW x PROVE Listed(e, x)' <=> Listed(e, x)
      OBVIOUS
    <3>1. CASE x[1] = page
      BY <1>3, <1>10, <3>1 DEF Listed
    <3>2. CASE x[1] # page
      BY <1>10, <1>12, <1>16, <1>17, <3>2 DEF Listed
    <3>. QED  BY <3>1, <3>2
  <2>8. \A x : (\E i \in 1..Len(new) : new[i] = x) <=> Listed(d, x)'
    BY <2>1, <2>5, <2>6 DEF IsWithout, Has
  <2>9. free_list' = [free_list EXCEPT ![d] = new]
    BY <1>1 DEF new, list
  <2>. QED  BY <1>3, <2>5, <2>7, <2>8, <2>9, ListStep DEF MemInv, OnceEach, IsWithout
<1>20. WorkInv'
  <2>1. WorkOK(t, thread[t])'
    BY <1>1, <1>3, <1>6, <1>9 DEF WorkOK, Stage, Getting, Giving, Allocating
  <2>2. \A u \in Threads \ {t}, e \in Descs : owner[DescLock(e)] = u => owner'[DescLock(e)] = u /\ free_list'[e] = free_list[e]
    <3>. SUFFICES ASSUME NEW u \in Threads \ {t}, NEW e \in Descs, owner[DescLock(e)] = u PROVE free_list'[e] = free_list[e]
      BY <1>1
    <3>1. e # d
      BY <1>3
    <3>. QED  BY <1>1, <3>1 DEF MemInv, ListInv
  <2>. QED  BY <1>1, <1>9, <2>1, <2>2, OtherWork DEF MemInv
<1>. QED  BY <1>8, <1>14, <1>18, <1>19, <1>20 DEF MemInv

\* The loop of free() takes a block off the list.
LEMMA FreeBlockKeeps ==
  ASSUME MemInv, NEW t \in Threads, FreeBlock(t), UNCHANGED <<base, usable>>
  PROVE  MemInv'
<1>1. PICK page, d, m : thread[t].old[1][1] = page /\ thread[t].size = d /\ thread[t].done = m
  OBVIOUS
<1>. QED  BY <1>1, FreeBlockStep

(***************************************************************************)
(* Calls that return.                                                      *)
(***************************************************************************)

\* Where the thread is when its call has returned a block.
IsBack(t, th) ==
    /\ Goto(t, th) /\ th = [f \in Locals |-> th[f]] /\ th.pc \in {"idle", "free"} /\ th.pool = thread[t].pool
    /\ th.old = thread[t].old /\ (th.pc = "free" => thread[t].call = "realloc")

\* The block that a call returns is one that nobody had.
LEMMA Returned ==
  ASSUME MemInv, NEW t \in Threads, NEW b, b # NONE, Return(t, b), thread[t].pc \in {"take", "got_arena", "got_big"},
         b \notin InUse, BlockOK(b)',
         \A a \in DOMAIN arenas : a \in DOMAIN arenas' /\ arenas'[a].desc = arenas[a].desc
  PROVE  /\ UseInv' /\ WorkOK(t, thread[t])' /\ (\A u \in Threads \ {t} : held'[u] = held[u])
         /\ \A x : x \in InUse' <=> x \in InUse \/ x = b
         /\ \E th : IsBack(t, th)
<1>. DEFINE o == thread[t]
            re == o.call = "realloc"
            value == CASE o.call = "malloc" -> t [] o.call = "calloc" -> "0" [] OTHER -> data[o.old[1]]
            v == IF re THEN o.old[2] ELSE value
            now == IF re THEN held[t] \ {o.old} ELSE held[t]
            th == [o EXCEPT !.pc = IF re THEN "free" ELSE "idle"]
<1>1. /\ Goto(t, th) /\ data' = With(data, b, value) /\ held' = [held EXCEPT ![t] = now \cup {<<b, v>>}]
  BY DEF Return
<1>2. o = [f \in Locals |-> o[f]] /\ WorkOK(t, o) /\ CallOK(t, o)
  BY DEF MemInv, CallInv, WorkInv
<1>3. re => o.old \in held[t]
  BY <1>2 DEF WorkOK, Stage, Getting, Giving, Allocating
<1>4. /\ th = [f \in Locals |-> th[f]] /\ th.old = o.old /\ th.pool = o.pool /\ th.pc = (IF re THEN "free" ELSE "idle")
  BY <1>2, LocalsAre
<1>5. value = v
  <2>1. CASE re
    <3>1. value = data[o.old[1]] /\ v = o.old[2]
      BY <2>1
    <3>2. data[o.old[1]] = o.old[2]
      BY <1>3, <2>1 DEF MemInv, UseInv
    <3>. QED  BY <3>1, <3>2
  <2>2. CASE ~re
    BY <2>2
  <2>. QED  BY <2>1, <2>2
<1>. HIDE DEF th, o, value, v, now
<1>6. thread'[t] = th /\ o = thread[t] /\ \A u \in Threads \ {t} : thread'[u] = thread[u]
  BY <1>1, <1>2, <1>4, Stepped DEF MemInv, o
<1>7. /\ held' = [u \in Threads |-> held'[u]] /\ held'[t] = now \cup {<<b, v>>}
      /\ \A u \in Threads \ {t} : held'[u] = held[u]
  BY <1>1 DEF MemInv, UseInv
<1>8. now \subseteq held[t] /\ (re => o.old \notin now) /\ \A h \in held[t] : h \in now \/ (re /\ h = o.old)
  BY DEF now
<1>9. data'[b] = v /\ b \in DOMAIN data' /\ \A x \in DOMAIN data : x \in DOMAIN data' /\ (x # b => data'[x] = data[x])
  BY <1>1, <1>5 DEF With
<1>10. /\ \A u \in Threads : \A h \in held[u] : h[1] \in InUse /\ h[1] # b
       /\ \A u \in Threads : Frees(thread[u]) => thread[u].old[1] \in InUse /\ thread[u].old[1] # b
  BY InUseIs DEF UsedBy
<1>11. ~Frees(thread[t]) /\ (Frees(thread'[t]) <=> re) /\ thread'[t].old = o.old /\ thread'[t].pc # "free_lock"
       /\ \A u \in Threads \ {t} : Frees(thread'[u]) <=> Frees(thread[u])
  BY <1>4, <1>6 DEF Frees
<1>12. \A x : x \in InUse' <=> x \in InUse \/ x = b
  <2>. SUFFICES ASSUME NEW x PROVE UsedBy(x)' <=> UsedBy(x) \/ x = b
    BY InUseIs, InUseIsNext
  <2>. DEFINE Mine == \E h \in held[t] : x = h[1]
              Others == \E u \in Threads \ {t} : (\E h \in held[u] : x = h[1]) \/ (Frees(thread[u]) /\ x = thread[u].old[1])
  <2>1. UsedBy(x) <=> Mine \/ Others
    BY <1>11 DEF UsedBy
  <2>2. UsedBy(x)' <=> (\E h \in held'[t] : x = h[1]) \/ (re /\ x = o.old[1]) \/ Others
    BY <1>6, <1>7, <1>11 DEF UsedBy
  <2>3. (\E h \in held'[t] : x = h[1]) <=> x = b \/ \E h \in now : x = h[1]
    <3>1. \A h : h \in held'[t] <=> h \in now \/ h = <<b, v>>
      BY <1>7
    <3>2. <<b, v>>[1] = b
      OBVIOUS
    <3>. QED  BY <3>1, <3>2
  <2>4. (\E h \in now : x = h[1]) \/ (re /\ x = o.old[1]) <=> Mine
    BY <1>3, <1>6, <1>8
  <2>. QED  BY <2>1, <2>2, <2>3, <2>4
<1>13. \A x \in InUse : BlockOK(x)'
  BY BlocksFacts DEF BlockOK
<1>14. \A u \in Threads : \A h \in held'[u] : (u = t /\ h = <<b, v>>) \/ (h \in held[u] /\ (u = t /\ re => h # o.old))
  BY <1>7, <1>8
<1>15. \A u \in Threads : Frees(thread'[u]) =>
           (u = t /\ re /\ thread'[u].old = o.old) \/ (u # t /\ Frees(thread[u]) /\ thread'[u].old = thread[u].old)
  BY <1>6, <1>11
<1>16. UseInv'
  <2>1. \A u \in Threads : \A h \in held'[u] :
          h = <<h[1], h[2]>> /\ BlockOK(h[1])' /\ h[1] \in DOMAIN data' /\ data'[h[1]] = h[2]
    <3>. SUFFICES ASSUME NEW u \in Threads, NEW h \in held'[u]
                  PROVE  h = <<h[1], h[2]>> /\ BlockOK(h[1])' /\ h[1] \in DOMAIN data' /\ data'[h[1]] = h[2]
      OBVIOUS
    <3>1. CASE u = t /\ h = <<b, v>>
      BY <1>9, <3>1
    <3>2. CASE h \in held[u]
      BY <1>9, <1>10, <1>13, <3>2 DEF MemInv, UseInv
    <3>. QED  BY <1>14, <3>1, <3>2
  <2>2. \A u \in Threads : Frees(thread'[u]) => thread'[u].old[1] \in InUse
    BY <1>3, <1>6, <1>10, <1>15
  <2>3. (\A u \in Threads : Frees(thread[u]) => BlockOK(thread[u].old[1]) /\ thread[u].old[1] \in DOMAIN data)'
    <3>1. \A u \in Threads : Frees(thread'[u]) => thread'[u].old[1] \in DOMAIN data'
      BY <1>9, <2>2, BlocksFacts
    <3>. QED  BY <1>13, <2>2, <3>1
  <2>4. \A u \in Threads : thread'[u].pc = "free_lock" => thread'[u].size = arenas'[thread'[u].old[1][1]].desc
    <3>. SUFFICES ASSUME NEW u \in Threads, thread'[u].pc = "free_lock"
                  PROVE  thread'[u].size = arenas'[thread'[u].old[1][1]].desc
      OBVIOUS
    <3>1. u # t /\ thread'[u] = thread[u] /\ Frees(thread[u]) /\ thread[u].pc = "free_lock"
      BY <1>6, <1>11 DEF Frees
    <3>2. thread[u].old[1][1] \in DOMAIN arenas /\ thread[u].size = arenas[thread[u].old[1][1]].desc
      BY <3>1 DEF MemInv, UseInv, BlockOK
    <3>. QED  BY <3>1, <3>2
  <2>5. \A u, w \in Threads : \A h \in held'[u], k \in held'[w] : h[1] = k[1] => u = w /\ h = k
    <3>. SUFFICES ASSUME NEW u \in Threads, NEW w \in Threads, NEW h \in held'[u], NEW k \in held'[w], h[1] = k[1]
                  PROVE  u = w /\ h = k
      OBVIOUS
    <3>1. h \in held[u] /\ k \in held[w] => u = w /\ h = k
      BY DEF MemInv, UseInv
    <3>. QED  BY <1>10, <1>14, <3>1
  <2>6. \A u, w \in Threads : Frees(thread'[u]) /\ Frees(thread'[w]) /\ thread'[u].old[1] = thread'[w].old[1] => u = w
    <3>. SUFFICES ASSUME NEW u \in Threads, NEW w \in Threads, Frees(thread'[u]), Frees(thread'[w]),
                         thread'[u].old[1] = thread'[w].old[1]
                  PROVE  u = w
      OBVIOUS
    <3>1. CASE u # t /\ w # t
      BY <1>15, <3>1 DEF MemInv, UseInv
    <3>2. re => \A x \in Threads \ {t} : Frees(thread[x]) => thread[x].old[1] # o.old[1]
      BY <1>3 DEF MemInv, UseInv
    <3>. QED  BY <1>15, <3>1, <3>2
  <2>7. \A u, w \in Threads : \A h \in held'[w] : Frees(thread'[u]) => thread'[u].old[1] # h[1]
    <3>. SUFFICES ASSUME NEW u \in Threads, NEW w \in Threads, NEW h \in held'[w], Frees(thread'[u])
                  PROVE  thread'[u].old[1] # h[1]
      OBVIOUS
    <3>1. CASE u = t
      <4>1. re /\ thread'[u].old = o.old /\ o.old \in held[t]
        BY <1>3, <1>15, <3>1
      <4>2. h \in held[w] /\ h[1] = o.old[1] => w = t /\ h = o.old
        BY <4>1 DEF MemInv, UseInv
      <4>. QED  BY <1>10, <1>14, <4>1, <4>2
    <3>2. CASE u # t
      <4>1. Frees(thread[u]) /\ thread'[u].old = thread[u].old
        BY <1>15, <3>2
      <4>2. h \in held[w] => thread[u].old[1] # h[1]
        BY <4>1 DEF MemInv, UseInv
      <4>. QED  BY <1>10, <1>14, <4>1, <4>2
    <3>. QED  BY <3>1, <3>2
  <2>. QED  BY <1>7, <2>1, <2>3, <2>4, <2>5, <2>6, <2>7 DEF UseInv
<1>17. WorkOK(t, thread[t])'
  BY <1>4, <1>6 DEF WorkOK, Stage, Getting, Giving, Allocating
<1>18. IsBack(t, th)
  BY <1>1, <1>4, <1>6 DEF IsBack
<1>. QED  BY <1>7, <1>12, <1>16, <1>17, <1>18

\* The lock of a descriptor that its thread gives up.
LEMMA DescReleased ==
  ASSUME MemInv, NEW t \in Threads, NEW d \in Descs, owner[DescLock(d)] = t, ReleaseLock(DescLock(d))
  PROVE  /\ LockInv'
         /\ \A u \in Threads \ {t}, k \in Locks : owner[k] = u => owner'[k] = u
         /\ \A u \in Threads, pool \in Pools : owner[PoolLock(pool)] = u => owner'[PoolLock(pool)] = u
<1>1. DescLock(d) \in Locks /\ \A pool \in Pools : PoolLock(pool) \in Locks \ {DescLock(d)}
  BY LockNames
<1>. QED  BY <1>1, LockReleased DEF MemInv

\* A call that has no block to return.
LEMMA NothingReturned ==
  ASSUME MemInv, NEW t \in Threads, thread[t].pc \in {"got_arena", "got_big"}, Pages(thread[t]) = NONE, Return(t, NONE),
         UNCHANGED <<base, usable, used_map, groups, panic, arenas, free_list>>,
         \A u \in Threads \ {t}, k \in Locks : owner[k] = u => owner'[k] = u, LockInv'
  PROVE  MemInv'
<1>. DEFINE o == thread[t]
            th == [o EXCEPT !.pc = "idle"]
<1>1. Goto(t, th) /\ UNCHANGED <<data, held>> /\ o = [f \in Locals |-> o[f]] /\ CallOK(t, o)
  BY DEF Return, MemInv, CallInv
<1>2. th = [f \in Locals |-> th[f]] /\ th.pc = "idle" /\ th.pool = o.pool
  BY <1>1, LocalsAre
<1>. HIDE DEF th, o
<1>3. thread'[t] = th /\ o = thread[t] /\ \A u \in Threads \ {t} : thread'[u] = thread[u]
  BY <1>1, <1>2, Stepped DEF MemInv, o
<1>4. MapInv' /\ CallInv' /\ GroupInv' /\ PageInv' /\ \A pool \in Pools : Cnt(pool)' = Cnt(pool)
  <2>1. th.pc \notin Getting \cup Got \cup Giving /\ CallSpan(thread[t]) = {} /\ th.pool \in Pools
    BY <1>1, <1>2, <1>3, GotFacts DEF Getting, Got, Giving, CallOK
  <2>2. \A p : ArenasKept(p)
    BY ArenasKeptAll
  <2>3. \A u \in Threads \ {t}, pool \in Pools : owner[PoolLock(pool)] = u => owner'[PoolLock(pool)] = u
    BY LockNames
  <2>. QED  BY <1>1, <1>2, <2>1, <2>2, <2>3, PagesStay
<1>5. WorkOK(t, thread[t])'
  BY <1>2, <1>3 DEF WorkOK, Stage, Getting, Giving, Allocating
<1>6. WorkInv' /\ UseInv' /\ ArenaInv' /\ ListInv'
  <2>1. \A u \in Threads \ {t}, d \in Descs : owner[DescLock(d)] = u => owner'[DescLock(d)] = u
    BY LockNames
  <2>2. {thread[t].pc, thread'[t].pc} \cap {"free", "free_lock", "free_blocks"} = {}
    BY <1>2, <1>3
  <2>3. UNCHANGED <<base, mvars>>
    BY <1>1 DEF mvars
  <2>. QED  BY <1>3, <1>4, <1>5, <2>1, <2>2, <2>3, BlocksKept DEF MemInv
<1>. QED  BY <1>4, <1>6 DEF MemInv

\* The first block leaves a list.
LEMMA Popped ==
  ASSUME NEW list, OnceEach(list), list # <<>>
  PROVE  Head(list) = list[1] /\ Has(list, list[1]) /\ IsWithout(Tail(list), list, list[1])
<1>. DEFINE n == Len(list)
            S == {list[i] : i \in 1..n}
            new == Tail(list)
            m == n - 1
<1>1. n \in Nat /\ list = [i \in 1..n |-> list[i]] /\ \A i, j \in 1..n : list[i] = list[j] => i = j
  BY DEF OnceEach
<1>2. list \in Seq(S)
  <2>. HIDE DEF n
  <2>. QED  BY <1>1
<1>. HIDE DEF S
<1>3. n \in Nat \ {0} /\ Head(list) = list[1]
  BY <1>1, <1>2
<1>4. Len(new) = m /\ new \in Seq(S) /\ \A i \in 1..m : new[i] = list[i + 1]
  BY <1>2, <1>3
<1>5. new = [i \in 1..Len(new) |-> new[i]] /\ Len(new) \in Nat
  <2>. HIDE DEF new, m
  <2>. QED  BY <1>4
<1>6. m \in Nat /\ n = m + 1
  BY <1>3
<1>. HIDE DEF n, m, new
<1>7. \A i \in 1..m : i + 1 \in 1..n
  BY <1>6
<1>8. \A i, j \in 1..m : new[i] = new[j] => i = j
  <2>. SUFFICES ASSUME NEW i \in 1..m, NEW j \in 1..m, new[i] = new[j] PROVE i = j
    OBVIOUS
  <2>1. i + 1 = j + 1
    BY <1>1, <1>4, <1>7
  <2>. QED  BY <1>6, <2>1
<1>9. 1 \in 1..n
  BY <1>6
<1>10. \A y : (\E i \in 1..m : new[i] = y) <=> (\E i \in 1..n : list[i] = y) /\ y # list[1]
  <2>. SUFFICES ASSUME NEW y PROVE (\E i \in 1..m : new[i] = y) <=> (\E i \in 1..n : list[i] = y) /\ y # list[1]
    OBVIOUS
  <2>1. ASSUME NEW i \in 1..m, new[i] = y PROVE (\E j \in 1..n : list[j] = y) /\ y # list[1]
    <3>1. i + 1 \in 1..n /\ list[i + 1] = y /\ i + 1 # 1
      BY <1>4, <1>6, <1>7, <2>1
    <3>. QED  BY <1>1, <1>9, <3>1
  <2>2. ASSUME NEW i \in 1..n, list[i] = y, y # list[1] PROVE \E j \in 1..m : new[j] = y
    <3>1. i # 1
      BY <2>2
    <3>2. i - 1 \in 1..m /\ (i - 1) + 1 = i
      BY <1>6, <3>1
    <3>. QED  BY <1>4, <2>2, <3>2
  <2>. QED  BY <2>1, <2>2
<1>11. IsWithout(new, list, list[1])
  BY <1>4, <1>5, <1>8, <1>10 DEF IsWithout, OnceEach, Has, n
<1>12. Has(list, list[1])
  BY <1>9 DEF Has, n
<1>. QED  BY <1>3, <1>11, <1>12 DEF new

\* malloc() takes the first block of a list.
LEMMA TakeStep ==
  ASSUME MemInv, NEW t \in Threads, Take(t), UNCHANGED <<base, usable>>, NEW d, thread[t].size = d,
         NEW page, NEW k, free_list[d][1] = <<page, k>>
  PROVE  MemInv'
<1>. DEFINE o == thread[t]
            b == <<page, k>>
            n == BlocksPerArena(d)
            list == free_list[d]
            new == Tail(list)
            cnt == arenas[page].free_cnt
<1>1. o.pc = "take" /\ o = [f \in Locals |-> o[f]] /\ CallOK(t, o) /\ WorkOK(t, o) /\ o.size = d
  BY DEF Take, At, MemInv, CallInv, WorkInv
<1>2. d \in Descs /\ owner[DescLock(d)] = t /\ list # <<>>
  BY <1>1 DEF WorkOK, Stage, Getting, Giving
<1>3. d # NONE /\ n \in Nat \ {0}
  BY <1>2, DescFacts
<1>4. OnceEach(list) /\ \A x : Has(list, x) <=> Listed(d, x)
  BY <1>2 DEF MemInv, ListInv, OnceEach, Has
<1>5. Head(list) = b /\ Has(list, b) /\ IsWithout(new, list, b)
  BY <1>2, <1>4, Popped
<1>6. /\ free_list' = [free_list EXCEPT ![d] = new]
      /\ arenas' = [arenas EXCEPT ![page].free_cnt = @ - 1]
      /\ ReleaseLock(DescLock(d)) /\ Return(t, b) /\ UNCHANGED <<used_map, groups, panic>>
  <2>1. TakeFrom(t, list, arenas) /\ UNCHANGED <<used_map, groups, panic>>
    BY <1>1 DEF Take
  <2>2. b[1] = page
    OBVIOUS
  <2>. HIDE DEF b, list
  <2>. QED  BY <1>1, <1>5, <2>1, <2>2 DEF TakeFrom
<1>7. Listed(d, b)
  BY <1>4, <1>5
<1>8. page \in DOMAIN arenas /\ arenas[page].desc = d /\ k \in 1..n /\ b \notin InUse
  BY <1>7 DEF Listed
<1>9. arenas[page] = [desc |-> d, free_cnt |-> cnt] /\ cnt = Cardinality(FreeBlocks(page, d)) /\ InPool(page, 1)
  BY <1>3, <1>8 DEF MemInv, ArenaInv, ArenaOK
<1>. HIDE DEF o, new, list, n, cnt
<1>10. DOMAIN arenas' = DOMAIN arenas /\ arenas'[page] = [desc |-> d, free_cnt |-> cnt - 1]
       /\ \A a \in DOMAIN arenas \ {page} : arenas'[a] = arenas[a]
  BY <1>6, <1>8, <1>9
<1>11. /\ UseInv' /\ WorkOK(t, thread[t])' /\ (\A u \in Threads \ {t} : held'[u] = held[u])
       /\ \A x : x \in InUse' <=> x \in InUse \/ x = b
       /\ \E th : IsBack(t, th)
  <2>1. BlockOK(b)'
    BY <1>3, <1>8, <1>10 DEF BlockOK, n
  <2>2. \A a \in DOMAIN arenas : a \in DOMAIN arenas' /\ arenas'[a].desc = arenas[a].desc
    BY <1>8, <1>10
  <2>3. b # NONE
    BY PallocAssumption, <1>3, <1>8, <1>9 DEF InPool
  <2>4. thread[t].pc \in {"take", "got_arena", "got_big"}
    BY <1>1 DEF o
  <2>. HIDE DEF b
  <2>. QED  BY <1>6, <1>8, <2>1, <2>2, <2>3, <2>4, Returned DEF b
<1>12. PICK th : IsBack(t, th)
  BY <1>11
<1>13. thread'[t] = th /\ o = thread[t] /\ \A u \in Threads \ {t} : thread'[u] = thread[u]
  BY <1>12, Stepped DEF MemInv, o, IsBack
<1>14. LockInv' /\ (\A u \in Threads \ {t}, l \in Locks : owner[l] = u => owner'[l] = u)
       /\ \A u \in Threads, pool \in Pools : owner[PoolLock(pool)] = u => owner'[PoolLock(pool)] = u
  BY <1>2, <1>6, DescReleased
<1>15. MapInv' /\ CallInv' /\ GroupInv' /\ PageInv' /\ \A pool \in Pools : Cnt(pool)' = Cnt(pool)
  <2>1. th.pc \notin Getting \cup Got \cup Giving /\ CallSpan(thread[t]) = {} /\ th.pool \in Pools
    BY <1>1, <1>12, <1>13, Spans DEF Getting, Got, Giving, CallOK, IsBack
  <2>2. \A p : ArenasKept(p)
    BY <1>3, <1>8, <1>9, <1>10 DEF ArenasKept, ArenaHas, PagesOf
  <2>3. Goto(t, th) /\ th = [f \in Locals |-> th[f]]
    BY <1>12 DEF IsBack
  <2>. QED  BY <1>6, <1>14, <2>1, <2>2, <2>3, PagesStay
<1>16. /\ FreeBlocks(page, d)' = FreeBlocks(page, d) \ {b}
       /\ Cardinality(FreeBlocks(page, d)') = cnt - 1 /\ cnt - 1 < n
  <2>1. FreeBlocks(page, d)' = AllBlocks(page, d) \ InUse' /\ FreeBlocks(page, d) = AllBlocks(page, d) \ InUse
    BY DEF FreeBlocks, AllBlocks
  <2>2. FreeBlocks(page, d)' = FreeBlocks(page, d) \ {b}
    BY <1>11, <2>1
  <2>3. b \in FreeBlocks(page, d)
    BY <1>8, <2>1 DEF AllBlocks, ArenaToBlock, n
  <2>4. IsFiniteSet(FreeBlocks(page, d)) /\ cnt \in Nat /\ cnt <= n
    BY <1>2, <1>9, FreeBlocksCount DEF n
  <2>5. Cardinality(FreeBlocks(page, d)') = cnt - 1
    BY <1>9, <2>2, <2>3, <2>4, FS_RemoveElement
  <2>. QED  BY <1>3, <2>2, <2>4, <2>5
<1>17. \A u \in Threads : ~Drains(thread[u], page)
  <2>1. \A u \in Threads : Drains(thread[u], page) => u = t
    BY <1>2, <1>8, DrainerHasLock
  <2>2. ~Drains(thread[t], page)
    BY <1>1, <1>13 DEF Drains
  <2>. QED  BY <2>1, <2>2
<1>18. \A u \in Threads :
         /\ \A a : Drains(thread'[u], a) <=> Drains(thread[u], a)
         /\ thread[u].pc = "free_blocks" \/ thread'[u].pc = "free_blocks" => thread'[u] = thread[u]
  <2>1. thread[t].pc = "take" /\ thread'[t].pc # "free_blocks"
    BY <1>1, <1>12, <1>13 DEF IsBack
  <2>2. \A u \in Threads : u = t \/ thread'[u] = thread[u]
    BY <1>13
  <2>3. \A a : ~Drains(thread[t], a) /\ ~Drains(thread'[t], a)
    BY <2>1 DEF Drains
  <2>. QED  BY <2>1, <2>2, <2>3
<1>19. ArenaInv'
  <2>1. \A a \in DOMAIN arenas \ {page} : ArenaOK(a)'
    <3>. SUFFICES ASSUME NEW a \in DOMAIN arenas \ {page} PROVE ArenaOK(a)'
      OBVIOUS
    <3>1. \A i : <<a, i>> # b
      OBVIOUS
    <3>2. \A i : <<a, i>> \in InUse' <=> <<a, i>> \in InUse
      BY <1>11, <3>1
    <3>3. a \in DOMAIN arenas' /\ arenas'[a] = arenas[a]
      BY <1>10
    <3>5. \A u \in Threads : Drains(thread'[u], a) <=> Drains(thread[u], a)
      BY <1>18
    <3>4. ArenaStays(a)
      BY <3>2, <3>3, <3>5 DEF ArenaStays
    <3>. QED  BY <1>15, <3>4, ArenaKept DEF MemInv, ArenaInv
  <2>2. ArenaOK(page)'
    <3>1. InPool(page, 1)'
      BY <1>9, <1>15 DEF InPool, Whole
    <3>2. BlocksPerArena(d) = n
      BY DEF n
    <3>3. PICK left : left = cnt - 1
      OBVIOUS
    <3>4. page \in DOMAIN arenas' /\ arenas'[page] = [desc |-> d, free_cnt |-> left] /\ left < n
          /\ Cardinality(FreeBlocks(page, d)') = left
      BY <1>8, <1>10, <1>16, <3>3
    <3>. QED  BY <1>2, <1>3, <3>1, <3>2, <3>4 DEF ArenaOK
  <2>3. \A u \in Threads : DrainOK(thread[u])'
    <3>. SUFFICES ASSUME NEW u \in Threads, thread'[u].pc = "free_blocks" PROVE DrainOK(thread[u])'
      BY DEF DrainOK
    <3>1. thread'[u] = thread[u] /\ DrainOK(thread[u]) /\ thread[u].old[1][1] # page
      BY <1>17, <1>18 DEF MemInv, ArenaInv, Drains
    <3>. QED  BY <1>10, <1>11, <3>1 DEF DrainOK
  <2>. QED  BY <1>10, <2>1, <2>2, <2>3 DEF ArenaInv
<1>20. ListInv'
  <2>1. \A x : Listed(d, x)' <=> Listed(d, x) /\ x # b
    <3>1. \A a \in DOMAIN arenas : a \in DOMAIN arenas' /\ arenas'[a].desc = arenas[a].desc
      BY <1>8, <1>10
    <3>. QED  BY <1>10, <1>11, <1>18, <3>1 DEF Listed, Drains
  <2>2. \A e \in Descs \ {d} : \A x : Listed(e, x)' <=> Listed(e, x)
    <3>. SUFFICES ASSUME NEW e \in Descs \ {d} PROVE \A x : Listed(e, x)' <=> Listed(e, x)
      OBVIOUS
    <3>1. \A a \in DOMAIN arenas : a \in DOMAIN arenas' /\ arenas'[a].desc = arenas[a].desc
      BY <1>8, <1>10
    <3>2. \A a : a \in DOMAIN arenas' => a \in DOMAIN arenas
      BY <1>10
    <3>3. Listed(e, b) <=> FALSE
      BY <1>8 DEF Listed
    <3>4. ~Listed(e, b)'
      BY <1>10 DEF Listed
    <3>5. ASSUME NEW x, x # b PROVE Listed(e, x)' <=> Listed(e, x)
      BY <1>11, <1>18, <3>1, <3>2, <3>5 DEF Listed, Drains
    <3>. QED  BY <3>3, <3>4, <3>5
  <2>3. OnceEach(new) /\ \A x : Has(new, x) <=> Listed(d, x)'
    BY <1>4, <1>5, <2>1 DEF IsWithout
  <2>. QED  BY <1>2, <1>6, <2>2, <2>3, ListStep DEF MemInv, OnceEach, Has
<1>21. WorkInv'
  <2>1. \A u \in Threads \ {t}, e \in Descs : owner[DescLock(e)] = u => owner'[DescLock(e)] = u /\ free_list'[e] = free_list[e]
    <3>. SUFFICES ASSUME NEW u \in Threads \ {t}, NEW e \in Descs, owner[DescLock(e)] = u
                  PROVE  owner'[DescLock(e)] = u /\ free_list'[e] = free_list[e]
      OBVIOUS
    <3>1. e # d
      BY <1>2
    <3>. QED  BY <1>6, <1>14, <3>1, LockNames DEF MemInv, ListInv
  <2>. QED  BY <1>11, <1>13, <2>1, OtherWork DEF MemInv
<1>. QED  BY <1>11, <1>14, <1>15, <1>19, <1>20, <1>21 DEF MemInv

\* malloc() takes a block off the list.
LEMMA TakeKeeps ==
  ASSUME MemInv, NEW t \in Threads, Take(t), UNCHANGED <<base, usable>>
  PROVE  MemInv'
<1>. DEFINE d == thread[t].size
            list == free_list[d]
<1>1. thread[t].pc = "take" /\ WorkOK(t, thread[t])
  BY DEF Take, At, MemInv, WorkInv
<1>2. d \in Descs /\ list # <<>>
  BY <1>1 DEF WorkOK, Stage, Getting, Giving
<1>3. OnceEach(list) /\ \A x : Has(list, x) <=> Listed(d, x)
  BY <1>2 DEF MemInv, ListInv, OnceEach, Has
<1>4. Listed(d, list[1])
  BY <1>2, <1>3, Popped
<1>5. PICK page, k, e : list[1] = <<page, k>> /\ thread[t].size = e
  BY <1>4 DEF Listed
<1>. QED  BY <1>5, TakeStep

\* The pages that a call has got become an arena, or a big block, and it returns block k there.
GetsArena(t, page, pages, d, cnt, k) ==
    /\ thread[t].pc \in {"got_arena", "got_big"} /\ page = Pages(thread[t]) /\ page # NONE /\ pages = thread[t].cnt
    /\ arenas' = With(arenas, page, [desc |-> d, free_cnt |-> cnt]) /\ Return(t, <<page, k>>)
    /\ d \in Descs \cup {NONE} /\ (d = NONE => k = 0 /\ cnt = pages)
    /\ (d # NONE => k \in 1..BlocksPerArena(d) /\ pages = 1)
    /\ UNCHANGED <<base, usable, used_map, groups, panic>>
    /\ \A u \in Threads \ {t}, l \in Locks : owner[l] = u => owner'[l] = u

\* What follows from that for the rest of the invariant.
HasArena(t, page, pages, d, cnt, k) ==
    /\ MapInv' /\ CallInv' /\ GroupInv' /\ PageInv' /\ UseInv' /\ WorkOK(t, thread[t])'
    /\ \A u \in Threads \ {t} : thread'[u] = thread[u] /\ held'[u] = held[u]
    /\ page \notin DOMAIN arenas /\ DOMAIN arenas' = DOMAIN arenas \cup {page} /\ arenas'[page] = [desc |-> d, free_cnt |-> cnt]
    /\ InPool(page, pages)' /\ (\A a \in DOMAIN arenas : ArenaOK(a)') /\ (\A u \in Threads : DrainOK(thread[u])')
    /\ \A i : <<page, i>> \in InUse' <=> i = k
    /\ \A u \in Threads : ~Drains(thread'[u], page)
    /\ \A e, x : (x[1] = page => ~Listed(e, x)) /\ (x[1] # page => (Listed(e, x)' <=> Listed(e, x)))

\* Pages that a call got become an arena, or a big block.
LEMMA NewArena ==
  ASSUME MemInv, NEW t \in Threads, NEW page, NEW pages, NEW d, NEW cnt, NEW k, GetsArena(t, page, pages, d, cnt, k)
  PROVE  HasArena(t, page, pages, d, cnt, k)
<1>. USE DEF GetsArena
<1>. DEFINE o == thread[t]
            b == <<page, k>>
            new == [desc |-> d, free_cnt |-> cnt]
<1>0. d \in Descs \cup {NONE} /\ page # NONE /\ (d # NONE => k \in 1..BlocksPerArena(d)) /\ (d = NONE => k = 0)
  OBVIOUS
<1>1. InPool(page, pages) /\ CallSpan(o) = Span(page, pages) /\ page \in Nat /\ pages \in Nat \ {0}
  BY GotFacts DEF Got, InPool
<1>2. page \in CallSpan(o)
  BY <1>1, InSpan
<1>3. page \notin DOMAIN arenas
  <2>. SUFFICES ASSUME page \in DOMAIN arenas PROVE FALSE
    OBVIOUS
  <2>1. page \in PagesOf(page)
    <3>1. ArenaOK(page)
      BY DEF MemInv, ArenaInv
    <3>2. CASE arenas[page].desc = NONE
      BY <3>1, <3>2, <1>1, InSpan DEF ArenaOK, PagesOf, InPool
    <3>3. CASE arenas[page].desc # NONE
      BY <3>1, <3>3, <1>1, InSpan DEF ArenaOK, PagesOf, InPool
    <3>. QED  BY <3>2, <3>3
  <2>2. ArenaHas(page, page) /\ CallHas(t, page)
    BY <1>2, <2>1 DEF ArenaHas, CallHas
  <2>. QED  BY <2>2 DEF MemInv, PageInv, Exclusive
<1>4. DOMAIN arenas' = DOMAIN arenas \cup {page} /\ arenas'[page] = new /\ \A a \in DOMAIN arenas : arenas'[a] = arenas[a]
  BY <1>3 DEF With
<1>5. \A i : <<page, i>> \notin InUse
  <2>1. \A i : ~BlockOK(<<page, i>>)
    BY <1>3 DEF BlockOK
  <2>. QED  BY <2>1, BlocksFacts
<1>6. /\ UseInv' /\ WorkOK(t, thread[t])' /\ (\A u \in Threads \ {t} : held'[u] = held[u])
      /\ \A x : x \in InUse' <=> x \in InUse \/ x = b
      /\ \E th : IsBack(t, th)
  <2>1. BlockOK(b)'
    BY <1>4 DEF BlockOK
  <2>2. \A a \in DOMAIN arenas : a \in DOMAIN arenas' /\ arenas'[a].desc = arenas[a].desc
    BY <1>4
  <2>3. b # NONE
    BY <1>1, PallocAssumption
  <2>4. b \notin InUse
    BY <1>5
  <2>. HIDE DEF b
  <2>. QED  BY <2>1, <2>2, <2>3, <2>4, Returned DEF b
<1>7. PICK th : IsBack(t, th)
  BY <1>6
<1>8. thread'[t] = th /\ \A u \in Threads \ {t} : thread'[u] = thread[u]
  BY <1>7, Stepped DEF MemInv, IsBack
<1>9. MapInv' /\ \A pool \in Pools : Cnt(pool)' = Cnt(pool)
  BY MapKept DEF MemInv
<1>10. CallInv'
  <2>1. CallOK(t, th)
    BY <1>7 DEF MemInv, CallInv, CallOK, IsBack, Getting, Got, Giving
  <2>2. th.pc \notin {"scan", "flip", "get_unlock"}
    BY <1>7 DEF IsBack
  <2>3. CallOK(t, thread[t])'
    BY <1>8, <1>9, <2>1, <2>2, CallOKNext
  <2>4. \A u \in Threads \ {t}, pool \in Pools : owner[PoolLock(pool)] = u => owner'[PoolLock(pool)] = u
    BY LockNames
  <2>5. \A u \in Threads \ {t} : CallOK(u, thread[u])'
    BY <1>8, <1>9, <2>4, OtherCalls DEF MemInv
  <2>. QED  BY <1>7, <2>3, <2>5, CallStepped DEF MemInv, IsBack
<1>11. GroupInv' /\ \A p : GroupsKept(p)
  BY <1>9, GroupsKeptInv DEF MemInv
<1>12. PageInv'
  <2>1. CallSpan(th) = {}
    BY <1>7, Spans DEF IsBack, Getting, Got, Giving
  <2>2. \A p : ~CallHas(t, p)'
    BY <1>8, <2>1, SpanNext DEF CallHas
  <2>3. \A p : CallsKept(p, {t}) /\ UseKept(p)
    BY <1>8, OtherSpans, UseKeptAll
  <2>4. PagesOf(page)' = Span(page, pages)
    BY <1>4 DEF PagesOf
  <2>5. \A a \in DOMAIN arenas : PagesOf(a)' = PagesOf(a)
    BY <1>4 DEF PagesOf
  <2>6. \A p : \A a : ArenaHas(a, p)' <=> ArenaHas(a, p) \/ (a = page /\ CallHas(t, p))
    BY <1>1, <1>3, <1>4, <2>4, <2>5 DEF ArenaHas, CallHas
  <2>. QED  BY <1>11, <2>2, <2>3, <2>6, CallToArena DEF MemInv, BecomesArena
<1>13. InPool(page, pages)' /\ \A q, c : InPool(q, c)' <=> InPool(q, c)
  BY <1>1, <1>9 DEF InPool, Whole
<1>14. \A u \in Threads :
         /\ \A a : Drains(thread'[u], a) <=> Drains(thread[u], a)
         /\ thread[u].pc = "free_blocks" \/ thread'[u].pc = "free_blocks" => thread'[u] = thread[u]
  <2>1. thread[t].pc # "free_blocks" /\ thread'[t].pc # "free_blocks"
    BY <1>7, <1>8 DEF IsBack
  <2>2. \A u \in Threads : u = t \/ thread'[u] = thread[u]
    BY <1>8
  <2>. QED  BY <2>1, <2>2 DEF Drains
<1>15. \A u \in Threads : ~Drains(thread[u], page) /\ ~Drains(thread'[u], page)
  BY <1>3, <1>14, DrainerHasLock
<1>16. \A x : x[1] # page => (x \in InUse' <=> x \in InUse)
  BY <1>6
<1>17. \A a \in DOMAIN arenas : ArenaOK(a)'
  <2>. SUFFICES ASSUME NEW a \in DOMAIN arenas PROVE ArenaOK(a)'
    OBVIOUS
  <2>1. \A i : <<a, i>> \in InUse' <=> <<a, i>> \in InUse
    BY <1>3, <1>16
  <2>2. \A u \in Threads : Drains(thread'[u], a) <=> Drains(thread[u], a)
    BY <1>14
  <2>3. ArenaStays(a)
    BY <1>4, <2>1, <2>2 DEF ArenaStays
  <2>. QED  BY <1>9, <2>3, ArenaKept DEF MemInv, ArenaInv
<1>18. \A u \in Threads : DrainOK(thread[u])'
  <2>. SUFFICES ASSUME NEW u \in Threads, thread'[u].pc = "free_blocks" PROVE DrainOK(thread[u])'
    BY DEF DrainOK
  <2>1. thread'[u] = thread[u] /\ DrainOK(thread[u]) /\ thread[u].old[1][1] # page
    BY <1>14, <1>15 DEF MemInv, ArenaInv, Drains
  <2>. QED  BY <1>4, <1>16, <2>1 DEF DrainOK
<1>19. \A e, x : (x[1] = page => ~Listed(e, x)) /\ (x[1] # page => (Listed(e, x)' <=> Listed(e, x)))
  <2>1. \A e, x : x[1] = page => ~Listed(e, x)
    BY <1>3 DEF Listed
  <2>2. ASSUME NEW e, NEW x, x[1] # page PROVE Listed(e, x)' <=> Listed(e, x)
    <3>1. x[1] \in DOMAIN arenas' <=> x[1] \in DOMAIN arenas
      BY <1>4, <2>2
    <3>2. x[1] \in DOMAIN arenas => arenas'[x[1]] = arenas[x[1]]
      BY <1>4
    <3>3. (\A u \in Threads : Drains(thread'[u], x[1]) => x[2] > thread'[u].done)
          <=> (\A u \in Threads : Drains(thread[u], x[1]) => x[2] > thread[u].done)
      BY <1>14 DEF Drains
    <3>. QED  BY <1>16, <2>2, <3>1, <3>2, <3>3 DEF Listed
  <2>. QED  BY <2>1, <2>2
<1>20. \A i : <<page, i>> \in InUse' <=> i = k
  BY <1>5, <1>6
<1>. QED  BY <1>3, <1>4, <1>5, <1>6, <1>8, <1>9, <1>10, <1>11, <1>12, <1>13, <1>15, <1>17,
  <1>18, <1>19, <1>20
  DEF HasArena

\* malloc() has the pages of a big block, or none.
LEMMA GotBigKeeps ==
  ASSUME MemInv, NEW t \in Threads, GotBig(t), UNCHANGED <<base, usable>>
  PROVE  MemInv'
<1>1. PICK page : page = Pages(thread[t])
  OBVIOUS
<1>2. thread[t].pc = "got_big" /\ UNCHANGED <<used_map, owner, groups, panic, free_list>>
  BY DEF GotBig, At
<1>3. LockInv'
  BY <1>2 DEF MemInv, LockInv
<1>4. CASE page = NONE
  <2>1. Return(t, NONE) /\ UNCHANGED arenas
    BY <1>1, <1>4 DEF GotBig
  <2>. QED  BY <1>1, <1>2, <1>3, <1>4, <2>1, NothingReturned
<1>5. CASE page # NONE
  <2>1. arenas' = With(arenas, page, [desc |-> NONE, free_cnt |-> thread[t].cnt]) /\ Return(t, <<page, 0>>)
    BY <1>1, <1>5 DEF GotBig
  <2>2. PICK pages, d, k : pages = thread[t].cnt /\ d = NONE /\ k = 0
    OBVIOUS
  <2>3. GetsArena(t, page, pages, d, pages, k)
    BY <1>1, <1>2, <1>5, <2>1, <2>2 DEF GetsArena
  <2>4. HasArena(t, page, pages, d, pages, k)
    BY <2>3, NewArena
  <2>5. ArenaOK(page)'
    BY <2>2, <2>4 DEF ArenaOK, HasArena
  <2>7. ArenaInv'
    BY <2>4, <2>5 DEF ArenaInv, HasArena
  <2>8. ListInv'
    <3>1. \A e \in Descs : \A x : x[1] = page => ~Listed(e, x)'
      BY <2>2, <2>4, DescFacts DEF Listed, HasArena
    <3>2. \A e \in Descs : \A x : Listed(e, x)' <=> Listed(e, x)
      BY <2>4, <3>1 DEF HasArena
    <3>. QED  BY <1>2, <3>2 DEF MemInv, ListInv
  <2>9. WorkInv'
    BY <1>2, <2>4, OtherWork DEF MemInv, HasArena
  <2>. QED  BY <1>3, <2>4, <2>7, <2>8, <2>9 DEF MemInv, HasArena
<1>. QED  BY <1>4, <1>5

\* The blocks of a new arena, as a list.
BlockList(page, n) == [i \in 1..n |-> ArenaToBlock(page, i)]

\* The list of the blocks of a new arena has each of them once.
LEMMA NewBlocks ==
  ASSUME NEW page, NEW n \in Nat \ {0}
  PROVE  /\ OnceEach(BlockList(page, n)) /\ BlockList(page, n) # <<>> /\ Len(BlockList(page, n)) = n
         /\ BlockList(page, n)[1] = <<page, 1>> /\ (<<>> \o BlockList(page, n)) = BlockList(page, n)
         /\ \A x : Has(BlockList(page, n), x) <=> x = <<page, x[2]>> /\ x[2] \in 1..n
<1>. DEFINE blocks == BlockList(page, n)
<1>1. blocks = [i \in 1..n |-> blocks[i]] /\ \A i \in 1..n : blocks[i] = <<page, i>>
  BY DEF ArenaToBlock, BlockList
<1>. HIDE DEF blocks
<1>2. blocks \in Seq({blocks[i] : i \in 1..n}) /\ Len(blocks) = n
  BY <1>1
<1>3. OnceEach(blocks)
  BY <1>1, <1>2 DEF OnceEach
<1>4. blocks # <<>> /\ blocks[1] = <<page, 1>> /\ (<<>> \o blocks) = blocks
  BY <1>1, <1>2
<1>5. \A x : Has(blocks, x) <=> x = <<page, x[2]>> /\ x[2] \in 1..n
  <2>. SUFFICES ASSUME NEW x PROVE (\E i \in 1..n : blocks[i] = x) <=> x = <<page, x[2]>> /\ x[2] \in 1..n
    BY <1>2 DEF Has
  <2>1. ASSUME NEW i \in 1..n, blocks[i] = x PROVE x = <<page, x[2]>> /\ x[2] \in 1..n
    <3>1. x = <<page, i>>
      BY <1>1, <2>1
    <3>. QED  BY <3>1
  <2>2. ASSUME x = <<page, x[2]>>, x[2] \in 1..n PROVE \E i \in 1..n : blocks[i] = x
    BY <1>1, <2>2
  <2>. QED  BY <2>1, <2>2
<1>. QED  BY <1>2, <1>3, <1>4, <1>5 DEF blocks

\* The count of an arena that is new.
LEMMA OneLess ==
  ASSUME NEW as, NEW page, NEW d, NEW n \in Nat
  PROVE  [With(as, page, [desc |-> d, free_cnt |-> n]) EXCEPT ![page].free_cnt = @ - 1]
         = With(as, page, [desc |-> d, free_cnt |-> n - 1])
<1>. DEFINE all == With(as, page, [desc |-> d, free_cnt |-> n])
<1>1. all = [y \in DOMAIN as \cup {page} |-> IF y = page THEN [desc |-> d, free_cnt |-> n] ELSE as[y]]
  BY DEF With
<1>2. all[page] = [desc |-> d, free_cnt |-> n] /\ DOMAIN all = DOMAIN as \cup {page}
  BY <1>1
<1>3. \A y \in DOMAIN as : y # page => all[y] = as[y]
  BY <1>1
<1>. HIDE DEF all
<1>4. [all[page] EXCEPT !.free_cnt = @ - 1] = [desc |-> d, free_cnt |-> n - 1]
  BY <1>2
<1>5. [all EXCEPT ![page].free_cnt = @ - 1]
      = [y \in DOMAIN all |-> IF y = page THEN [all[page] EXCEPT !.free_cnt = @ - 1] ELSE all[y]]
  OBVIOUS
<1>6. [y \in DOMAIN all |-> IF y = page THEN [all[page] EXCEPT !.free_cnt = @ - 1] ELSE all[y]]
      = [y \in DOMAIN as \cup {page} |-> IF y = page THEN [desc |-> d, free_cnt |-> n - 1] ELSE as[y]]
  BY <1>2, <1>3, <1>4
<1>. QED  BY <1>5, <1>6 DEF all, With

\* malloc() has a page: it becomes an arena, whose blocks go on the list but for the first,
\* which the caller gets.
LEMMA GotArenaStep ==
  ASSUME MemInv, NEW t \in Threads, GotArena(t), UNCHANGED <<base, usable>>, NEW page, page = Pages(thread[t]), page # NONE,
         NEW pages, pages = thread[t].cnt, NEW d, d = thread[t].size, NEW n, n = BlocksPerArena(d)
  PROVE  MemInv'
<1>. DEFINE blocks == BlockList(page, n)
            all == With(arenas, page, [desc |-> d, free_cnt |-> n])
<1>1. thread[t].pc = "got_arena" /\ WorkOK(t, thread[t]) /\ UNCHANGED <<used_map, groups, panic>>
  BY DEF GotArena, At, MemInv, WorkInv
<1>2. d \in Descs /\ owner[DescLock(d)] = t /\ free_list[d] = <<>> /\ pages = 1
  BY <1>1 DEF WorkOK, Stage, Getting, Giving
<1>3. d # NONE /\ n \in Nat \ {0}
  BY <1>2, DescFacts
<1>4. /\ OnceEach(blocks) /\ blocks # <<>> /\ Len(blocks) = n /\ blocks[1] = <<page, 1>> /\ (<<>> \o blocks) = blocks
      /\ \A x : Has(blocks, x) <=> x = <<page, x[2]>> /\ x[2] \in 1..n
  <2>. HIDE DEF blocks
  <2>. QED  BY <1>3, NewBlocks DEF blocks
<1>5. TakeFrom(t, free_list[d] \o blocks, With(arenas, page, [desc |-> d, free_cnt |-> Len(blocks)]))
  BY <1>1 DEF GotArena, BlockList
<1>. HIDE DEF blocks
<1>6. TakeFrom(t, blocks, all)
  BY <1>2, <1>4, <1>5
<1>7. Head(blocks) = <<page, 1>> /\ IsWithout(Tail(blocks), blocks, <<page, 1>>)
  BY <1>4, Popped
<1>. HIDE DEF all
<1>8. /\ free_list' = [free_list EXCEPT ![d] = Tail(blocks)]
      /\ arenas' = [all EXCEPT ![page].free_cnt = @ - 1]
      /\ ReleaseLock(DescLock(d)) /\ Return(t, <<page, 1>>)
  <2>0. PICK b : b = <<page, 1>>
    OBVIOUS
  <2>1. b = <<page, 1>> /\ b[1] = page
    BY <2>0
  <2>2. Head(blocks) = b
    BY <1>7, <2>1
  <2>3. Return(t, b) /\ arenas' = [all EXCEPT ![b[1]].free_cnt = @ - 1]
        /\ free_list' = [free_list EXCEPT ![d] = Tail(blocks)] /\ ReleaseLock(DescLock(d))
    BY <1>6, <2>2 DEF TakeFrom
  <2>. QED  BY <2>1, <2>3
<1>9. PICK k, cnt : k = 1 /\ cnt = n - 1 /\ cnt \in Nat /\ cnt < n
  BY <1>3
<1>10. LockInv' /\ (\A u \in Threads \ {t}, l \in Locks : owner[l] = u => owner'[l] = u)
  BY <1>2, <1>8, DescReleased
<1>11. arenas' = With(arenas, page, [desc |-> d, free_cnt |-> cnt]) /\ k \in 1..n
  <2>1. [all EXCEPT ![page].free_cnt = @ - 1] = With(arenas, page, [desc |-> d, free_cnt |-> n - 1])
    BY <1>3, OneLess DEF all
  <2>. QED  BY <1>3, <1>8, <1>9, <2>1
<1>12. GetsArena(t, page, pages, d, cnt, k)
  BY <1>1, <1>2, <1>3, <1>8, <1>9, <1>10, <1>11 DEF GetsArena
<1>13. HasArena(t, page, pages, d, cnt, k)
  BY <1>12, NewArena
<1>14. ArenaInv'
  <2>1. FreeBlocks(page, d)' = AllBlocks(page, d) \ {<<page, 1>>}
    BY <1>9, <1>13 DEF FreeBlocks, AllBlocks, ArenaToBlock, HasArena
  <2>2. IsFiniteSet(AllBlocks(page, d)) /\ Cardinality(AllBlocks(page, d)) = n
    BY <1>2, AllBlocksCount
  <2>3. <<page, 1>> \in AllBlocks(page, d)
    BY <1>3 DEF AllBlocks, ArenaToBlock
  <2>4. Cardinality(FreeBlocks(page, d)') = cnt /\ cnt < n
    <3>1. Cardinality(AllBlocks(page, d) \ {<<page, 1>>}) = n - 1
      BY <2>2, <2>3, FS_RemoveElement
    <3>. QED  BY <1>9, <2>1, <3>1
  <2>5. ArenaOK(page)'
    BY <1>2, <1>3, <1>13, <2>4 DEF ArenaOK, HasArena
  <2>. QED  BY <1>13, <2>5 DEF ArenaInv, HasArena
<1>15. ListInv'
  <2>1. \A x : Listed(d, x)' <=> Listed(d, x) \/ (x = <<page, x[2]>> /\ x[2] \in 1..n /\ x[2] # 1)
    <3>. SUFFICES ASSUME NEW x PROVE Listed(d, x)' <=> Listed(d, x) \/ (x = <<page, x[2]>> /\ x[2] \in 1..n /\ x[2] # 1)
      OBVIOUS
    <3>1. CASE x[1] # page
      BY <1>13, <3>1 DEF HasArena
    <3>2. CASE x[1] = page /\ x = <<x[1], x[2]>>
      BY <1>3, <1>9, <1>13, <3>2 DEF HasArena, Listed
    <3>3. CASE x # <<x[1], x[2]>>
      BY <3>3 DEF Listed
    <3>. QED  BY <3>1, <3>2, <3>3
  <2>2. \A x : ~Listed(d, x)
    <3>1. Len(free_list[d]) = 0
      BY <1>2
    <3>. QED  BY <1>2, <3>1 DEF MemInv, ListInv
  <2>3. OnceEach(Tail(blocks)) /\ \A x : Has(Tail(blocks), x) <=> Listed(d, x)'
    BY <1>4, <1>7, <2>1, <2>2 DEF IsWithout
  <2>4. \A e \in Descs \ {d} : \A x : Listed(e, x)' <=> Listed(e, x)
    <3>1. \A e \in Descs \ {d} : \A x : x[1] = page => ~Listed(e, x)'
      BY <1>13 DEF Listed, HasArena
    <3>. QED  BY <1>13, <3>1 DEF HasArena
  <2>. QED  BY <1>2, <1>8, <2>3, <2>4, ListStep DEF MemInv, OnceEach, Has
<1>16. WorkInv'
  <2>1. \A u \in Threads \ {t}, e \in Descs : owner[DescLock(e)] = u => owner'[DescLock(e)] = u /\ free_list'[e] = free_list[e]
    <3>. SUFFICES ASSUME NEW u \in Threads \ {t}, NEW e \in Descs, owner[DescLock(e)] = u
                  PROVE  owner'[DescLock(e)] = u /\ free_list'[e] = free_list[e]
      OBVIOUS
    <3>1. e # d
      BY <1>2
    <3>. QED  BY <1>8, <1>10, <3>1, LockNames DEF MemInv, ListInv
  <2>. QED  BY <1>13, <2>1, OtherWork DEF MemInv, HasArena
<1>. QED  BY <1>10, <1>13, <1>14, <1>15, <1>16 DEF MemInv, HasArena

\* malloc() has a page for an arena, or none.
LEMMA GotArenaKeeps ==
  ASSUME MemInv, NEW t \in Threads, GotArena(t), UNCHANGED <<base, usable>>
  PROVE  MemInv'
<1>1. PICK page, pages, d, n : page = Pages(thread[t]) /\ pages = thread[t].cnt /\ d = thread[t].size /\ n = BlocksPerArena(d)
  OBVIOUS
<1>2. thread[t].pc = "got_arena" /\ WorkOK(t, thread[t]) /\ UNCHANGED <<used_map, groups, panic>>
  BY DEF GotArena, At, MemInv, WorkInv
<1>3. d \in Descs /\ owner[DescLock(d)] = t
  BY <1>1, <1>2 DEF WorkOK, Stage, Getting, Giving
<1>4. CASE page = NONE
  <2>1. ReleaseLock(DescLock(d)) /\ Return(t, NONE) /\ UNCHANGED <<arenas, free_list>>
    BY <1>1, <1>4 DEF GotArena
  <2>2. LockInv' /\ (\A u \in Threads \ {t}, l \in Locks : owner[l] = u => owner'[l] = u)
    BY <1>3, <2>1, DescReleased
  <2>. QED  BY <1>1, <1>2, <1>4, <2>1, <2>2, NothingReturned
<1>5. CASE page # NONE
  BY <1>1, <1>5, GotArenaStep
<1>. QED  BY <1>4, <1>5

(***************************************************************************)
(* The invariant.                                                          *)
(***************************************************************************)

\* The maps of the pools at start-up: no page is in use.
LEMMA InitMaps ==
  ASSUME MInit
  PROVE  MapInv /\ \A p : ~InUsePage(p)
<1>1. PallocInit({DescLock(d) : d \in Descs})
  BY DEF MInit
<1>2. PICK map \in MemoryMaps :
        /\ base = [kernel |-> Claim(map).kernel[1], user |-> Claim(map).user[1]]
        /\ used_map = [kernel |-> PoolMap(map, Claim(map).kernel), user |-> PoolMap(map, Claim(map).user)]
        /\ usable = {p \in Claim(map).kernel[1]..(Claim(map).user[2] - 1) : IsFree(map, p)}
        /\ panic = Claim(map).failed
  BY <1>1 DEF PallocInit
<1>3. PICK kernel, user : kernel = Claim(map).kernel /\ user = Claim(map).user
  OBVIOUS
<1>4. /\ kernel[1] \in Nat /\ kernel[2] \in Nat /\ user[1] \in Nat /\ user[2] \in Nat
      /\ kernel[1] <= kernel[2] /\ kernel[2] <= user[1] /\ user[1] <= user[2] /\ panic = FALSE
  BY <1>2, <1>3, ClaimAssumption
<1>5. /\ base["kernel"] = kernel[1] /\ base["user"] = user[1]
      /\ used_map = [kernel |-> PoolMap(map, kernel), user |-> PoolMap(map, user)]
      /\ usable = {p \in kernel[1]..(user[2] - 1) : IsFree(map, p)}
  BY <1>2, <1>3
<1>6. PICK k1, k2, u1, u2 : k1 = kernel[1] /\ k2 = kernel[2] /\ u1 = user[1] /\ u2 = user[2]
  OBVIOUS
<1>7. /\ Cnt("kernel") = k2 - k1 /\ k2 - k1 \in Nat
      /\ used_map["kernel"] = [i \in 0..(k2 - k1 - 1) |-> used_map["kernel"][i]]
      /\ \A i \in 0..(k2 - k1 - 1) : used_map["kernel"][i] = ~IsFree(map, k1 + i)
  <2>1. used_map["kernel"] = PoolMap(map, kernel)
    BY <1>5
  <2>2. k1 \in Nat /\ k2 \in Nat /\ k1 <= k2 /\ kernel[1] = k1 /\ kernel[2] = k2
    BY <1>4, <1>6
  <2>3. /\ BitCnt(PoolMap(map, kernel)) = k2 - k1 /\ k2 - k1 \in Nat
        /\ PoolMap(map, kernel) = [i \in 0..(k2 - k1 - 1) |-> PoolMap(map, kernel)[i]]
        /\ \A i \in 0..(k2 - k1 - 1) : PoolMap(map, kernel)[i] = ~IsFree(map, k1 + i)
    <3>1. PoolMap(map, kernel) = [i \in 0..(k2 - k1 - 1) |-> ~IsFree(map, k1 + i)]
      BY <2>2 DEF PoolMap
    <3>2. k2 - k1 \in Nat
      BY <2>2
    <3>3. DOMAIN PoolMap(map, kernel) = 0..((k2 - k1) - 1)
      BY <3>1
    <3>4. BitCnt(PoolMap(map, kernel)) = k2 - k1
      BY <3>2, <3>3, CntDomain
    <3>. QED  BY <3>1, <3>2, <3>4
  <2>. QED  BY <2>1, <2>3 DEF Cnt
<1>8. /\ Cnt("user") = u2 - u1 /\ u2 - u1 \in Nat
      /\ used_map["user"] = [i \in 0..(u2 - u1 - 1) |-> used_map["user"][i]]
      /\ \A i \in 0..(u2 - u1 - 1) : used_map["user"][i] = ~IsFree(map, u1 + i)
  <2>1. used_map["user"] = PoolMap(map, user)
    BY <1>5
  <2>2. u1 \in Nat /\ u2 \in Nat /\ u1 <= u2 /\ user[1] = u1 /\ user[2] = u2
    BY <1>4, <1>6
  <2>3. /\ BitCnt(PoolMap(map, user)) = u2 - u1 /\ u2 - u1 \in Nat
        /\ PoolMap(map, user) = [i \in 0..(u2 - u1 - 1) |-> PoolMap(map, user)[i]]
        /\ \A i \in 0..(u2 - u1 - 1) : PoolMap(map, user)[i] = ~IsFree(map, u1 + i)
    <3>1. PoolMap(map, user) = [i \in 0..(u2 - u1 - 1) |-> ~IsFree(map, u1 + i)]
      BY <2>2 DEF PoolMap
    <3>2. u2 - u1 \in Nat
      BY <2>2
    <3>3. DOMAIN PoolMap(map, user) = 0..((u2 - u1) - 1)
      BY <3>1
    <3>4. BitCnt(PoolMap(map, user)) = u2 - u1
      BY <3>2, <3>3, CntDomain
    <3>. QED  BY <3>1, <3>2, <3>4
  <2>. QED  BY <2>1, <2>3 DEF Cnt
<1>9. \A pool \in Pools : \A i \in 0..(Cnt(pool) - 1) :
        used_map[pool][i] = ~IsFree(map, base[pool] + i) /\ base[pool] + i \in k1..(u2 - 1)
  <2>1. k1 \in Nat /\ k2 \in Nat /\ u1 \in Nat /\ u2 \in Nat /\ k2 <= u1 /\ k1 <= k2 /\ u1 <= u2
        /\ base["kernel"] = k1 /\ base["user"] = u1
    BY <1>4, <1>5, <1>6
  <2>2. \A i \in 0..(Cnt("kernel") - 1) :
          used_map["kernel"][i] = ~IsFree(map, k1 + i) /\ k1 + i \in k1..(u2 - 1)
    BY <1>7, <2>1
  <2>3. \A i \in 0..(Cnt("user") - 1) :
          used_map["user"][i] = ~IsFree(map, u1 + i) /\ u1 + i \in k1..(u2 - 1)
    BY <1>8, <2>1
  <2>. QED  BY <2>1, <2>2, <2>3 DEF Pools
<1>10. \A pool \in Pools : base[pool] \in Nat /\ Cnt(pool) \in Nat
  BY <1>4, <1>5, <1>7, <1>8 DEF Pools
<1>11. MapInv
  <2>1. used_map = [pool \in Pools |-> [i \in 0..(Cnt(pool) - 1) |-> used_map[pool][i]]]
    <3>1. used_map = [pool \in Pools |-> used_map[pool]]
      BY <1>5 DEF Pools
    <3>2. \A pool \in Pools : used_map[pool] = [i \in 0..(Cnt(pool) - 1) |-> used_map[pool][i]]
      BY <1>7, <1>8 DEF Pools
    <3>. QED  BY <3>1, <3>2
  <2>2. base["kernel"] + Cnt("kernel") <= base["user"]
    BY <1>4, <1>5, <1>6, <1>7
  <2>3. \A pool \in Pools : \A i \in 0..(Cnt(pool) - 1) :
          used_map[pool][i] \in BOOLEAN /\ (~used_map[pool][i] => base[pool] + i \in usable)
    BY <1>5, <1>6, <1>9
  <2>. QED  BY <1>4, <1>10, <2>1, <2>2, <2>3 DEF MapInv, Pools
<1>12. ASSUME NEW p, InUsePage(p) PROVE FALSE
  <2>1. PICK pool \in Pools : p \in Span(base[pool], Cnt(pool)) /\ used_map[pool][p - base[pool]]
    BY <1>12 DEF InUsePage
  <2>2. p \in Int /\ p - base[pool] \in 0..(Cnt(pool) - 1) /\ base[pool] + (p - base[pool]) = p
    BY <1>10, <2>1, InSpan
  <2>3. ~IsFree(map, p)
    BY <1>9, <2>1, <2>2
  <2>. QED  BY <1>5, <1>12, <2>3 DEF InUsePage
<1>. QED  BY <1>11, <1>12

\* The invariant holds at start-up.
LEMMA InitKeeps ==
  ASSUME MInit
  PROVE  MemInv
<1>1. /\ thread = [t \in Threads |-> Idle] /\ arenas = [p \in {} |-> 0] /\ data = [b \in {} |-> 0]
      /\ free_list = [d \in Descs |-> <<>>] /\ held = [t \in Threads |-> {}] /\ groups = [t \in Threads |-> {}]
      /\ owner = [l \in {PoolLock(p) : p \in Pools} \cup {DescLock(d) : d \in Descs} |-> NONE]
  BY DEF MInit, PallocInit
<1>2. \A t \in Threads : thread[t].pc = "idle" /\ thread[t].pool = "kernel" /\ thread[t] = [f \in Locals |-> thread[t][f]]
  BY <1>1 DEF Idle, Locals
<1>3. MapInv /\ \A p : ~InUsePage(p)
  BY InitMaps
<1>4. LockInv
  BY <1>1 DEF LockInv, Locks
<1>5. CallInv
  BY <1>1, <1>2 DEF CallInv, CallOK, Getting, Got, Giving, Pools
<1>6. GroupInv
  BY <1>1 DEF GroupInv
<1>7. PageInv
  <2>1. \A t \in Threads : CallSpan(thread[t]) = {}
    BY <1>2, Spans DEF Got, Giving
  <2>2. \A p : ~(\E t \in Threads : CallHas(t, p)) /\ ~(\E t \in Threads : \E g : GroupHas(t, g, p)) /\ ~(\E a : ArenaHas(a, p))
    BY <1>1, <2>1 DEF CallHas, GroupHas, ArenaHas
  <2>. QED  BY <1>3, <2>2 DEF PageInv, Exclusive, Claimed
<1>8. WorkInv
  BY <1>2 DEF WorkInv, WorkOK, Stage, Getting, Giving, Allocating
<1>9. UseInv
  BY <1>1, <1>2 DEF UseInv, Frees
<1>10. ArenaInv
  BY <1>1, <1>2 DEF ArenaInv, DrainOK
<1>11. ListInv
  <2>1. DOMAIN arenas = {} /\ \A d \in Descs : free_list[d] = <<>> /\ Len(free_list[d]) = 0
    BY <1>1
  <2>2. \A d, b : ~Listed(d, b)
    BY <2>1 DEF Listed
  <2>3. \A d \in Descs : free_list[d] = [i \in 1..Len(free_list[d]) |-> free_list[d][i]]
    BY <2>1
  <2>. QED  BY <1>1, <2>1, <2>2, <2>3 DEF ListInv
<1>. QED  BY <1>3, <1>4, <1>5, <1>6, <1>7, <1>8, <1>9, <1>10, <1>11 DEF MemInv

\* Every step of a thread keeps the invariant: one lemma for each.
LEMMA StepKeeps ==
  ASSUME MemInv, Next
  PROVE  MemInv'
<1>. SUFFICES ASSUME NEW t \in Threads,
        \/ PallocStep(t) /\ UNCHANGED <<base, usable, mvars>>
        \/ /\ UNCHANGED <<base, usable>>
           /\ \/ MallocLock(t) \/ Take(t) \/ GotArena(t) \/ GotBig(t)
              \/ FreeStart(t) \/ FreeLock(t) \/ FreeBlock(t) \/ FreeUnlock(t)
              \/ \E b \in held[t] : Free(t, b) \/ \E size \in Sizes : Realloc(t, b, size)
              \/ MayHold /\ ((\E size \in Sizes : Malloc(t, size)) \/ (\E ab \in Products : Calloc(t, ab[1], ab[2])))
        \/ /\ UNCHANGED <<base, usable, mvars>> /\ MayHold
           /\ \E pool \in Pools, cnt \in PageCounts : CallGet(t, pool, cnt)
      PROVE  MemInv'
  BY DEF Next
<1>1. CASE PallocStep(t) /\ UNCHANGED <<base, usable, mvars>>
  <2>1. CASE GetLock(t)
    BY <1>1, <2>1, GetLockKeeps
  <2>2. CASE Scan(t)
    BY <1>1, <2>2, ScanKeeps
  <2>3. CASE Flip(t)
    BY <1>1, <2>3, FlipKeeps
  <2>4. CASE GetUnlock(t)
    BY <1>1, <2>4, GetUnlockKeeps
  <2>5. CASE FreePages(t)
    BY <1>1, <2>5, FreePagesKeeps
  <2>6. CASE Clear(t)
    BY <1>1, <2>6, ClearKeeps
  <2>7. CASE GotPages(t)
    BY <1>1, <2>7, GotPagesKeeps
  <2>8. CASE \E group \in groups[t] : CallFree(t, group)
    BY <1>1, <2>8, CallFreeKeeps
  <2>. QED  BY <1>1, <2>1, <2>2, <2>3, <2>4, <2>5, <2>6, <2>7, <2>8 DEF PallocStep
<1>2. ASSUME UNCHANGED <<base, usable>>,
        \/ MallocLock(t) \/ Take(t) \/ GotArena(t) \/ GotBig(t)
        \/ FreeStart(t) \/ FreeLock(t) \/ FreeBlock(t) \/ FreeUnlock(t)
      PROVE  MemInv'
  BY <1>2, MallocLockKeeps, TakeKeeps, GotArenaKeeps, GotBigKeeps, FreeStartKeeps, FreeLockKept,
     FreeBlockKeeps, FreeUnlockKeeps
<1>3. ASSUME UNCHANGED <<base, usable>>, NEW b \in held[t], Free(t, b) \/ \E size \in Sizes : Realloc(t, b, size)
      PROVE  MemInv'
  BY <1>3, FreeKeeps, ReallocKeeps
<1>4. ASSUME UNCHANGED <<base, usable>>, (\E size \in Sizes : Malloc(t, size)) \/ (\E ab \in Products : Calloc(t, ab[1], ab[2]))
      PROVE  MemInv'
  BY <1>4, MallocKeeps, CallocKeeps
<1>5. ASSUME UNCHANGED <<base, usable, mvars>>, NEW pool \in Pools, NEW cnt \in PageCounts, CallGet(t, pool, cnt)
      PROVE  MemInv'
  BY <1>5, CallGetKeeps
<1>. QED  BY <1>1, <1>2, <1>3, <1>4, <1>5

\* The invariant is about the variables of the model.
LEMMA StutterKeeps ==
  ASSUME MemInv, UNCHANGED vars
  PROVE  MemInv'
<1>1. UNCHANGED <<base, usable, used_map, owner, thread, groups, panic, arenas, free_list, data, held>>
  BY DEF vars, mvars
<1>2. MapInv' /\ LockInv' /\ \A pool \in Pools : Cnt(pool)' = Cnt(pool)
  BY <1>1, MapKept DEF MemInv, LockInv
<1>3. CallInv'
  <2>1. \A t \in Threads : CallOK(t, thread[t])'
    BY <1>1, <1>2 DEF MemInv, CallInv, CallOK
  <2>. QED  BY <1>1, <2>1 DEF MemInv, CallInv
<1>4. GroupInv' /\ \A p : GroupsKept(p)
  BY <1>1, <1>2, GroupsKeptInv DEF MemInv
<1>5. PageInv'
  <2>1. \A p : CallsKept(p, {})
    BY <1>1 DEF CallsKept, CallHas, CallSpan
  <2>. QED  BY <1>1, <1>4, <2>1, ArenasKeptAll, UseKeptAll, SamePages DEF MemInv
<1>6. InUse' = InUse
  BY <1>1 DEF InUse
<1>7. WorkInv'
  BY <1>1 DEF MemInv, WorkInv, WorkOK, Stage
<1>8. UseInv'
  <2>1. \A b : BlockOK(b)' <=> BlockOK(b)
    BY <1>1 DEF BlockOK
  <2>2. \A t \in Threads : Frees(thread[t])' <=> Frees(thread[t])
    BY <1>1 DEF Frees
  <2>. QED  BY <1>1, <2>1, <2>2 DEF MemInv, UseInv
<1>9. ArenaInv'
  <2>1. \A a \in DOMAIN arenas : ArenaOK(a)'
    BY <1>1, <1>2, <1>6, ArenaKept DEF MemInv, ArenaInv, ArenaStays
  <2>2. \A t \in Threads : DrainOK(thread[t])'
    BY <1>1, <1>6 DEF MemInv, ArenaInv, DrainOK
  <2>. QED  BY <1>1, <2>1, <2>2 DEF ArenaInv
<1>10. ListInv'
  <2>1. \A d, b : Listed(d, b)' <=> Listed(d, b)
    BY <1>1, <1>6 DEF Listed, Drains
  <2>. QED  BY <1>1, <2>1 DEF MemInv, ListInv
<1>. QED  BY <1>2, <1>3, <1>4, <1>5, <1>7, <1>8, <1>9, <1>10 DEF MemInv

\* The page allocator and malloc() keep the invariant, for every memory map that start-up
\* accepts, any number of threads that call them at the same time and any sizes
\* (threads/palloc.c, threads/malloc.c).
THEOREM MemoryIsSound == Spec => []MemInv
<1>1. MInit => MemInv
  BY InitKeeps
<1>2. MemInv /\ [Next]_vars => MemInv'
  BY StepKeeps, StutterKeeps
<1>. QED  BY <1>1, <1>2, PTL DEF Spec

(***************************************************************************)
(* The properties.                                                         *)
(***************************************************************************)

\* Holders in terms of the invariant.
LEMMA HoldersAre ==
  ASSUME NEW p, NEW x
  PROVE  x \in Holders(p) <=>
           \/ x \in Threads /\ CallHas(x, p)
           \/ \E t \in Threads : \E g : x = <<t, g>> /\ GroupHas(t, g, p)
           \/ ArenaHas(x, p)
<1>. DEFINE Calls == {t \in Threads : p \in InCall(t)}
            Mine(t) == {<<t, g>> : g \in {h \in groups[t] : p \in Span(h[1], h[2])}}
            Groups == UNION {Mine(t) : t \in Threads}
            Arenas == {page \in DOMAIN arenas : p \in PagesOf(page)}
<1>1. x \in Calls <=> x \in Threads /\ CallHas(x, p)
  <2>1. \A t \in Threads : InCall(t) = CallSpan(thread[t])
    BY DEF InCall, CallSpan, Got, Giving
  <2>. QED  BY <2>1 DEF CallHas
<1>2. \A t : x \in Mine(t) <=> \E g : x = <<t, g>> /\ GroupHas(t, g, p)
  BY DEF GroupHas
<1>3. x \in Groups <=> \E t \in Threads : x \in Mine(t)
  OBVIOUS
<1>4. x \in Arenas <=> ArenaHas(x, p)
  BY DEF ArenaHas
<1>5. Holders(p) = Calls \cup Groups \cup Arenas
  BY DEF Holders
<1>. HIDE DEF Calls, Mine, Groups, Arenas
<1>. QED  BY <1>1, <1>2, <1>3, <1>4, <1>5

\* A page that is claimed has one holder, and one that is not has none.
LEMMA OneHolder ==
  ASSUME NEW p, Exclusive(p)
  PROVE  Cardinality(Holders(p)) = IF Claimed(p) THEN 1 ELSE 0
<1>1. \A x, y \in Holders(p) : x = y
  <2>. SUFFICES ASSUME NEW x \in Holders(p), NEW y \in Holders(p) PROVE x = y
    OBVIOUS
  <2>1. /\ \/ x \in Threads /\ CallHas(x, p)
           \/ \E t \in Threads : \E g : x = <<t, g>> /\ GroupHas(t, g, p)
           \/ ArenaHas(x, p)
        /\ \/ y \in Threads /\ CallHas(y, p)
           \/ \E t \in Threads : \E g : y = <<t, g>> /\ GroupHas(t, g, p)
           \/ ArenaHas(y, p)
    BY HoldersAre
  <2>. QED  BY <2>1 DEF Exclusive
<1>2. Claimed(p) <=> \E x : x \in Holders(p)
  BY HoldersAre DEF Claimed
<1>3. CASE Claimed(p)
  <2>1. PICK x : x \in Holders(p)
    BY <1>2, <1>3
  <2>2. Holders(p) = {x}
    BY <1>1, <2>1
  <2>. QED  BY <1>3, <2>2, FS_Singleton
<1>4. CASE ~Claimed(p)
  <2>1. Holders(p) = {}
    BY <1>2, <1>4
  <2>. QED  BY <1>4, <2>1, FS_EmptySet
<1>. QED  BY <1>3, <1>4

\* PagesExact from the invariant.
LEMMA PagesFollow ==
  ASSUME MemInv
  PROVE  PagesExact
<1>1. ~panic
  BY DEF MemInv, MapInv
<1>2. ASSUME NEW pool \in Pools, NEW p \in Span(base[pool], BitCnt(used_map[pool]))
      PROVE  /\ Cardinality(Holders(p)) = IF p \in usable /\ Used(p) THEN 1 ELSE 0
             /\ p \in usable \/ Used(p)
  <2>1. p \in Span(base[pool], Cnt(pool)) /\ \A r \in Pools : base[r] \in Nat /\ Cnt(r) \in Nat /\ Cnt(r) = BitCnt(used_map[r])
    BY <1>2, PoolFacts DEF MemInv, Cnt
  <2>2. \A r \in Pools : p \in Span(base[r], Cnt(r)) => r = pool
    BY <2>1, PoolFacts DEF MemInv
  <2>3. \A r \in Pools : PageFromPool(r, p) <=> p \in Span(base[r], Cnt(r))
    <3>1. p \in Int
      BY <2>1, InSpan
    <3>. QED  BY <2>1, <3>1, InSpan DEF PageFromPool
  <2>4. PoolOf(p) = pool
    BY <2>1, <2>2, <2>3 DEF PoolOf, Pools
  <2>5. Used(p) <=> used_map[pool][p - base[pool]]
    BY <2>4 DEF Used
  <2>6. InUsePage(p) <=> p \in usable /\ Used(p)
    BY <2>1, <2>2, <2>5 DEF InUsePage
  <2>7. Cardinality(Holders(p)) = IF InUsePage(p) THEN 1 ELSE 0
    BY OneHolder DEF MemInv, PageInv
  <2>8. p \in usable \/ Used(p)
    <3>1. p - base[pool] \in 0..(Cnt(pool) - 1) /\ base[pool] + (p - base[pool]) = p
      BY <2>1, InSpan
    <3>. QED  BY <2>5, <3>1 DEF MemInv, MapInv
  <2>. QED  BY <2>6, <2>7, <2>8
<1>. QED  BY <1>1, <1>2 DEF PagesExact

\* ArenasExact from the invariant: when nobody has a descriptor's lock, no loop of free() is
\* half way through its list.
LEMMA ArenasFollow ==
  ASSUME MemInv
  PROVE  ArenasExact
<1>. SUFFICES ASSUME NEW d \in Descs, LockFree(DescLock(d))
              PROVE  LET blocks(page) == {ArenaToBlock(page, i) : i \in 1..BlocksPerArena(d)} \ InUse
                         own == {page \in DOMAIN arenas : arenas[page].desc = d}
                     IN  /\ {free_list[d][i] : i \in DOMAIN free_list[d]} = UNION {blocks(page) : page \in own}
                         /\ Len(free_list[d]) = Cardinality(UNION {blocks(page) : page \in own})
                         /\ \A page \in own : arenas[page].free_cnt = Cardinality(blocks(page))
                                              /\ arenas[page].free_cnt < BlocksPerArena(d)
  BY DEF ArenasExact
<1>. DEFINE own == {page \in DOMAIN arenas : arenas[page].desc = d}
            all == UNION {FreeBlocks(page, d) : page \in own}
            list == free_list[d]
<1>1. \A page \in own : \A u \in Threads : ~Drains(thread[u], page)
  BY DrainerHasLock, NoneFacts DEF LockFree
<1>2. \A x : x \in all <=> Listed(d, x)
  <2>1. \A x : x \in all <=> \E page \in own : x \in FreeBlocks(page, d)
    OBVIOUS
  <2>2. \A x : \A page \in own : x \in FreeBlocks(page, d) <=> Listed(d, x) /\ x[1] = page
    BY <1>1 DEF FreeBlocks, ArenaToBlock, Listed
  <2>3. \A x : Listed(d, x) => x[1] \in own
    BY DEF Listed
  <2>. HIDE DEF own, all
  <2>. QED  BY <2>1, <2>2, <2>3
<1>3. OnceEach(list) /\ \A x : Has(list, x) <=> Listed(d, x)
  BY DEF MemInv, ListInv, OnceEach, Has
<1>4. DOMAIN list = 1..Len(list) /\ Len(list) \in Nat
  BY <1>3 DEF OnceEach
<1>. HIDE DEF all, list
<1>5. {list[i] : i \in DOMAIN list} = all
  BY <1>2, <1>3, <1>4 DEF Has
<1>6. Len(list) = Cardinality(all)
  <2>1. list \in Bijection(1..Len(list), all)
    <3>1. list \in [1..Len(list) -> all]
      BY <1>3, <1>4, <1>5 DEF OnceEach
    <3>2. \A i, j \in 1..Len(list) : list[i] = list[j] => i = j
      BY <1>3 DEF OnceEach
    <3>3. \A x \in all : \E i \in 1..Len(list) : list[i] = x
      BY <1>2, <1>3 DEF Has
    <3>. QED  BY <3>1, <3>2, <3>3 DEF Bijection, Injection, Surjection, IsInjective
  <2>2. ExistsBijection(1..Len(list), all)
    BY <2>1 DEF ExistsBijection
  <2>3. IsFiniteSet(1..Len(list)) /\ Cardinality(1..Len(list)) = Len(list)
    <3>1. PICK n \in Nat : n = Len(list)
      BY <1>4
    <3>2. IsFiniteSet(1..n) /\ Cardinality(1..n) = n
      BY FS_Interval
    <3>. QED  BY <3>1, <3>2
  <2>. QED  BY <2>2, <2>3, FS_Bijection
<1>7. \A page \in own : arenas[page].free_cnt = Cardinality(FreeBlocks(page, d)) /\ arenas[page].free_cnt < BlocksPerArena(d)
  BY <1>1, DescFacts DEF MemInv, ArenaInv, ArenaOK
<1>. QED  BY <1>5, <1>6, <1>7 DEF FreeBlocks, all, list

\* palloc_get_multiple() never gives a page to two callers, palloc_free_multiple() gives back
\* just what it is given though it takes no lock, no page is lost, a hole of the memory map is
\* never handed out and no assertion of palloc.c fails.
THEOREM PagesAreExact == Spec => []PagesExact
  BY MemoryIsSound, PagesFollow, PTL

\* Whenever nobody has a descriptor's lock, its list has all the blocks of its arenas that
\* nobody uses, each of them once, free_cnt is their number, and no arena is kept of which
\* every block is free: malloc() and free() lose no block and hand none out twice.
THEOREM ArenasAreExact == Spec => []ArenasExact
  BY MemoryIsSound, ArenasFollow, PTL

\* No call of malloc(), calloc(), realloc() or free() writes into a block that another caller
\* has, and realloc() moves the contents before it frees the old block.
THEOREM ContentsAreKept == Spec => []ContentsKept
<1>1. MemInv => ContentsKept
  BY DEF MemInv, UseInv, ContentsKept
<1>. QED  BY <1>1, MemoryIsSound, PTL
=============================================================================
