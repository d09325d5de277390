-------------------------- MODULE BlockMalloc --------------------------
(***************************************************************************)
(* threads/malloc.c: blocks of a few sizes, each size with a descriptor    *)
(* that has a lock and a list of free blocks, in pages ("arenas") from     *)
(* Palloc, and big blocks that are groups of pages.  Sizes are in units of *)
(* which a page has PGSIZE.                                                *)
(***************************************************************************)
EXTENDS Palloc, TLC

CONSTANTS
    PGSIZE,
    ARENA,       \* sizeof (struct arena)
    MinBlock,    \* the smallest block size
    WORD,        \* SIZE_MAX + 1
    Sizes,       \* bound: sizes that malloc() and realloc() are asked for
    Products,    \* bound: pairs that calloc() is asked for
    PageCounts,  \* bound: page_cnt of the calls of Palloc
    MaxHeld      \* bound: blocks and groups of pages that are held, and calls

ASSUME MallocAssumption ==
    /\ {ARENA, MinBlock, WORD, PGSIZE} \union Sizes \union PageCounts \subseteq Nat /\ 0 \notin PageCounts
    /\ Products \subseteq Nat \X Nat
    /\ MinBlock > 0 /\ WORD > 0 /\ PGSIZE > ARENA + 2 * MinBlock /\ PGSIZE >= 2 * ARENA

VARIABLES
    arenas,     \* the arena at the start of each page that has one
    free_list,  \* of each descriptor
    data,       \* what was written to each block last
    held        \* history: <<block, what was written>> of each thread

mvars == <<arenas, free_list, data, held>>
vars == <<base, usable, used_map, owner, thread, groups, panic, mvars>>

\* malloc_init(): descriptors are named by their block sizes.
Descs == {d \in MinBlock..(PGSIZE \div 2 - 1) : \E i \in 0..PGSIZE : d = MinBlock * 2 ^ i}
DescLock(d) == <<"desc", d>>
BlocksPerArena(d) == (PGSIZE - ARENA) \div d

\* A block is <<its page, its index from 1>>, a big block has index 0.
ArenaToBlock(page, i) == <<page, i>>
BlockToArena(block) == arenas[block[1]]
With(f, x, v) == [y \in DOMAIN f \union {x} |-> IF y = x THEN v ELSE f[y]]
Without(f, S) == [y \in DOMAIN f \ S |-> f[y]]

\* The list after list_remove() of a block that it has.
ListRemove(list, block) ==
    LET k == CHOOSE i \in 1..Len(list) : list[i] = block IN
    [i \in 1..(Len(list) - 1) |-> IF i < k THEN list[i] ELSE list[i + 1]]

Idle == [pc |-> "idle", pool |-> "kernel", cnt |-> 0, idx |-> 0, done |-> 0, ret |-> "idle",
         call |-> "", size |-> 0, old |-> NONE]

MInit ==
    /\ PallocInit({DescLock(d) : d \in Descs})
    /\ thread = [t \in Threads |-> Idle]
    /\ arenas = [p \in {} |-> 0] /\ data = [b \in {} |-> 0]
    /\ free_list = [d \in Descs |-> <<>>]
    /\ held = [t \in Threads |-> {}]

----------------------------------------------------------------------------
(* malloc(), calloc() and realloc(). *)

\* The thread th calls malloc().
MallocCall(th, call, size, old) ==
    LET fitting == {d \in Descs : d >= size}
        page_cnt == (size + ARENA + PGSIZE - 1) \div PGSIZE
        called == [th EXCEPT !.call = call, !.old = old]
    IN  IF fitting = {} THEN GetMultiple([called EXCEPT !.size = 0], "kernel", page_cnt, "got_big")
        ELSE [called EXCEPT !.pc = "malloc_lock", !.size = CHOOSE d \in fitting : \A e \in fitting : d <= e]

Malloc(t, size) ==
    /\ At(t, "idle") /\ size > 0
    /\ Goto(t, MallocCall(thread[t], "malloc", size, NONE))
    /\ UNCHANGED <<used_map, owner, groups, panic, mvars>>

\* calloc(): the test for a product that does not fit in size_t.
CallocSize(a, b) == LET size == (a * b) % WORD IN IF size < a \/ size < b THEN 0 ELSE size

Calloc(t, a, b) ==
    /\ At(t, "idle") /\ CallocSize(a, b) > 0
    /\ Goto(t, MallocCall(thread[t], "calloc", CallocSize(a, b), NONE))
    /\ UNCHANGED <<used_map, owner, groups, panic, mvars>>

Realloc(t, b, size) ==
    /\ At(t, "idle") /\ b \in held[t] /\ size > 0
    /\ Goto(t, MallocCall(thread[t], "realloc", size, b))
    /\ UNCHANGED <<used_map, owner, groups, panic, mvars>>

MallocLock(t) ==
    LET th == thread[t] IN
    /\ At(t, "malloc_lock")
    /\ Hold(t, DescLock(th.size))
    /\ Goto(t, IF free_list[th.size] = <<>> THEN GetMultiple(th, "kernel", 1, "got_arena")
               ELSE [th EXCEPT !.pc = "take"])
    /\ UNCHANGED <<used_map, groups, panic, mvars>>

\* Mutant: realloc() frees the old block before it copies it.
ReturnFreed(t, block) ==
    LET th == thread[t]
        value == IF th.call = "malloc" THEN t ELSE IF th.call = "calloc" THEN "0" ELSE "0xcc"
        now == IF th.call = "realloc" THEN held[t] \ {th.old} ELSE held[t]
    IN  IF block = NONE THEN Goto(t, [th EXCEPT !.pc = "idle"]) /\ UNCHANGED <<data, held>>
        ELSE /\ data' = With(data, block, value)
             /\ held' = [held EXCEPT ![t] = now \union {<<block, IF th.call = "realloc" THEN th.old[2] ELSE value>>}]
             /\ Goto(t, [th EXCEPT !.pc = IF th.call = "realloc" THEN "free" ELSE "idle"])

\* The call returns the block, or NULL: the caller writes to it, realloc()
\* copies what was in the old block and frees it.
Return(t, block) ==
    LET th == thread[t]
        value == CASE th.call = "malloc" -> t [] th.call = "calloc" -> "0" [] OTHER -> data[th.old[1]]
        now == IF th.call = "realloc" THEN held[t] \ {th.old} ELSE held[t]
    IN  IF block = NONE THEN Goto(t, [th EXCEPT !.pc = "idle"]) /\ UNCHANGED <<data, held>>
        ELSE /\ data' = With(data, block, value)
             /\ held' = [held EXCEPT ![t] = now \union {<<block, IF th.call = "realloc" THEN th.old[2] ELSE value>>}]
             /\ Goto(t, [th EXCEPT !.pc = IF th.call = "realloc" THEN "free" ELSE "idle"])

\* The first block of the free list, with the lock, which is released.
TakeFrom(t, list, as) ==
    LET b == Head(list) IN
    /\ free_list' = [free_list EXCEPT ![thread[t].size] = Tail(list)]
    /\ arenas' = [as EXCEPT ![b[1]].free_cnt = @ - 1]
    /\ ReleaseLock(DescLock(thread[t].size))
    /\ Return(t, b)

Take(t) ==
    /\ At(t, "take")
    /\ TakeFrom(t, free_list[thread[t].size], arenas)
    /\ UNCHANGED <<used_map, groups, panic>>

GotArena(t) ==
    LET d == thread[t].size
        page == Pages(thread[t])
        blocks == [i \in 1..BlocksPerArena(d) |-> ArenaToBlock(page, i)]
    IN  /\ At(t, "got_arena")
        /\ IF page = NONE THEN ReleaseLock(DescLock(d)) /\ Return(t, NONE) /\ UNCHANGED <<arenas, free_list>>
           ELSE TakeFrom(t, free_list[d] \o blocks, With(arenas, page, [desc |-> d, free_cnt |-> Len(blocks)]))
        /\ UNCHANGED <<used_map, groups, panic>>

GotBig(t) ==
    LET page == Pages(thread[t]) IN
    /\ At(t, "got_big")
    /\ IF page = NONE THEN Return(t, NONE) /\ UNCHANGED arenas
       ELSE /\ arenas' = With(arenas, page, [desc |-> NONE, free_cnt |-> thread[t].cnt])
            /\ Return(t, <<page, 0>>)
    /\ UNCHANGED <<used_map, owner, groups, panic, free_list>>

----------------------------------------------------------------------------
(* free(). *)

Free(t, b) ==
    /\ At(t, "idle") /\ b \in held[t]
    /\ Goto(t, [thread[t] EXCEPT !.pc = "free", !.old = b])
    /\ held' = [held EXCEPT ![t] = @ \ {b}]
    /\ UNCHANGED <<used_map, owner, groups, panic, arenas, free_list, data>>

\* The block is cleared; a big one goes back to the pool.
FreeStart(t) ==
    LET th == thread[t]
        block == th.old[1]
        a == BlockToArena(block)
    IN  /\ At(t, "free")
        /\ IF a.desc = NONE
           THEN /\ Goto(t, FreeMultiple(th, block[1], a.free_cnt, "idle"))
                /\ arenas' = Without(arenas, {block[1]}) /\ data' = Without(data, {block})
           ELSE /\ Goto(t, [th EXCEPT !.pc = "free_lock", !.size = a.desc])
                /\ data' = [data EXCEPT ![block] = "0xcc"] /\ UNCHANGED arenas
        /\ UNCHANGED <<used_map, owner, groups, panic, free_list, held>>

\* Mutant: the arena goes back to the pool with its other blocks in the list.
FreeLockKeeps(t) ==
    LET th == thread[t]
        block == th.old[1]
        d == th.size
    IN  /\ At(t, "free_lock")
        /\ Hold(t, DescLock(d))
        /\ arenas[block[1]].free_cnt + 1 = BlocksPerArena(d)
        /\ arenas' = Without(arenas, {block[1]})
        /\ data' = Without(data, {x \in DOMAIN data : x[1] = block[1]})
        /\ Goto(t, FreeMultiple(th, block[1], 1, "free_unlock"))
        /\ UNCHANGED <<used_map, groups, held, panic, free_list>>

\* The block goes to the front of the list; is it the last one of its arena, the arena goes.
FreeLock(t) ==
    LET th == thread[t]
        block == th.old[1]
        d == th.size
        cnt == arenas[block[1]].free_cnt + 1
    IN  /\ At(t, "free_lock")
        /\ LockFree(DescLock(d))
        /\ free_list' = [free_list EXCEPT ![d] = <<block>> \o @]
        /\ arenas' = [arenas EXCEPT ![block[1]].free_cnt = cnt]
        /\ IF cnt >= BlocksPerArena(d)
           THEN /\ Hold(t, DescLock(d)) /\ panic' = (cnt # BlocksPerArena(d))
                /\ Goto(t, [th EXCEPT !.pc = "free_blocks", !.done = 0])
           ELSE Goto(t, [th EXCEPT !.pc = "idle"]) /\ UNCHANGED <<owner, panic>>
        /\ UNCHANGED <<used_map, groups, data, held>>

\* One block of the arena leaves the list; after the last, the page goes back to the pool.
FreeBlock(t) ==
    LET th == thread[t]
        page == th.old[1][1]
        d == th.size
    IN  /\ At(t, "free_blocks")
        /\ free_list' = [free_list EXCEPT ![d] = ListRemove(@, ArenaToBlock(page, th.done + 1))]
        /\ IF th.done + 1 < BlocksPerArena(d)
           THEN Goto(t, [th EXCEPT !.done = @ + 1]) /\ UNCHANGED <<arenas, data>>
           ELSE /\ Goto(t, FreeMultiple(th, page, 1, "free_unlock"))
                /\ arenas' = Without(arenas, {page})
                /\ data' = Without(data, {x \in DOMAIN data : x[1] = page})
        /\ UNCHANGED <<used_map, owner, groups, panic, held>>

FreeUnlock(t) ==
    /\ At(t, "free_unlock")
    /\ ReleaseLock(DescLock(thread[t].size))
    /\ Goto(t, [thread[t] EXCEPT !.pc = "idle"])
    /\ UNCHANGED <<used_map, groups, panic, mvars>>

MayHold ==
    Cardinality(UNION {held[u] : u \in Threads}) + Cardinality(UNION {groups[u] : u \in Threads})
    + Cardinality({u \in Threads : ~At(u, "idle")}) < MaxHeld

Next ==
    \E t \in Threads :
        \/ PallocStep(t) /\ UNCHANGED <<base, usable, mvars>>
        \/ /\ UNCHANGED <<base, usable>>
           /\ \/ MallocLock(t) \/ Take(t) \/ GotArena(t) \/ GotBig(t)
              \/ FreeStart(t) \/ FreeLock(t) \/ FreeBlock(t) \/ FreeUnlock(t)
              \/ \E b \in held[t] : Free(t, b) \/ \E size \in Sizes : Realloc(t, b, size)
              \/ MayHold /\ ((\E size \in Sizes : Malloc(t, size)) \/ (\E ab \in Products : Calloc(t, ab[1], ab[2])))
        \/ /\ UNCHANGED <<base, usable, mvars>> /\ MayHold
           /\ \E pool \in Pools, cnt \in PageCounts : CallGet(t, pool, cnt)

Spec == MInit /\ [][Next]_vars

----------------------------------------------------------------------------
(* Properties. *)

Span(page, cnt) == page..(page + cnt - 1)

\* The pages a call of Palloc has taken so far, or has yet to give back.
InCall(t) ==
    LET th == thread[t]
        first == base[th.pool] + th.idx
    IN  CASE th.pc = "flip" -> Span(first, th.done)
          [] th.pc \in {"get_unlock", "got_pages", "got_arena", "got_big"} /\ th.idx # BITMAP_ERROR -> Span(first, th.cnt)
          [] th.pc \in {"free_pages", "clear"} -> Span(first + th.done, th.cnt - th.done)
          [] OTHER -> {}

PagesOf(page) == Span(page, IF arenas[page].desc = NONE THEN arenas[page].free_cnt ELSE 1)

\* Who has a page: calls, threads, arenas and big blocks.
Holders(p) ==
    {t \in Threads : p \in InCall(t)}
    \union (UNION {{<<t, g>> : g \in {h \in groups[t] : p \in Span(h[1], h[2])}} : t \in Threads})
    \union {page \in DOMAIN arenas : p \in PagesOf(page)}

Used(p) == LET pool == PoolOf(p) IN used_map[pool][p - base[pool]]

\* The pages of a pool that are in use are those that somebody has, each has
\* one holder, and none is a page that start-up did not free: while calls
\* flip bits one by one, and while palloc_free_multiple() (palloc.c:322)
\* clears bits of a map that another thread scans with the lock.
PagesExact ==
    /\ ~panic
    /\ \A pool \in Pools : \A p \in Span(base[pool], BitCnt(used_map[pool])) :
        /\ Cardinality(Holders(p)) = IF p \in usable /\ Used(p) THEN 1 ELSE 0
        /\ p \in usable \/ Used(p)

InUse ==
    (UNION {{h[1] : h \in held[t]} : t \in Threads})
    \union {thread[t].old[1] : t \in {u \in Threads : thread[u].pc \in {"free", "free_lock"}}}

\* When nobody has the lock of a descriptor, its list has once each block of
\* its arenas that is not in use, the arenas count theirs, and none is all
\* free: free() (malloc.c:222-231) takes the blocks of such an arena out of
\* the list before the page goes back to the pool.
ArenasExact ==
    \A d \in Descs : LockFree(DescLock(d)) =>
        LET blocks(page) == {ArenaToBlock(page, i) : i \in 1..BlocksPerArena(d)} \ InUse
            own == {page \in DOMAIN arenas : arenas[page].desc = d}
        IN  /\ {free_list[d][i] : i \in DOMAIN free_list[d]} = UNION {blocks(page) : page \in own}
            /\ Len(free_list[d]) = Cardinality(UNION {blocks(page) : page \in own})
            /\ \A page \in own : arenas[page].free_cnt = Cardinality(blocks(page))
                                 /\ arenas[page].free_cnt < BlocksPerArena(d)

\* A block has what its holder wrote to it, through realloc() and whatever
\* the other threads malloc() and free().
ContentsKept == \A t \in Threads : \A h \in held[t] : h[1] \in DOMAIN data /\ data[h[1]] = h[2]
=======================================================================
