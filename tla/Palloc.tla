---------------------------- MODULE Palloc ----------------------------
(***************************************************************************)
(* threads/palloc.c: how start-up splits memory into the pools for the     *)
(* kernel and for users, and the calls that take pages from a pool and     *)
(* give them back, in steps that threads interleave.  A pool has a lock    *)
(* and a map with a bit for each of its pages.  palloc_free_multiple() is  *)
(* also called by the scheduler, with interrupts off, and does not take    *)
(* the lock.                                                               *)
(*                                                                         *)
(* Locks are mutexes, as LocksAreMutexes of Kernel shows.  Memory is       *)
(* counted in pages, and the regions of the memory map are made of whole   *)
(* ones.                                                                   *)
(***************************************************************************)
EXTENDS Integers, Sequences, FiniteSets, Bitmap, SequencesExt

CONSTANTS
    Threads, NONE,
    MemoryMaps,       \* bound: the memory maps of the firmware
    KernelEnd,        \* pg_round_up (&_end)
    UserPageLimit     \* user_page_limit

ASSUME PallocAssumption ==
    /\ {KernelEnd, UserPageLimit} \subseteq Nat
    /\ NONE \notin Threads \union Int \union (Int \X Int)
    /\ \A map \in MemoryMaps : \A i \in DOMAIN map : {map[i].start, map[i].size} \subseteq Nat

Pools == {"kernel", "user"}

VARIABLES
    base,       \* of each pool
    used_map,   \* of each pool
    owner,      \* the thread that holds each lock
    thread,     \* where each thread is in a call, and its locals
    groups,     \* history: <<pages, page_cnt>> that each thread has got
    usable,     \* history: the pages that were free after start-up
    panic       \* an assertion has failed

----------------------------------------------------------------------------
(* Start-up. *)

Usable(map) == SelectSeq(map, LAMBDA entry : entry.usable)
EndOf(entry) == entry.start + entry.size
Total(map) == FoldLeft(LAMBDA n, entry : n + entry.size, 0, Usable(map))
UserPages(map) == IF Total(map) \div 2 > UserPageLimit THEN UserPageLimit ELSE Total(map) \div 2

\* One entry of the first loop of populate_pools().  What the assertion of
\* its last case compares, rem, counts pages, and size counts bytes: it
\* holds only for zero.
ClaimEntry(user_pages, acc, entry) ==
    LET start == entry.start
        size == entry.size
        s == [acc EXCEPT !.end = start + size,
                         !.region_start = IF acc.state = "KERN_START" THEN start ELSE @,
                         !.state = IF @ = "KERN_START" THEN "KERN" ELSE @]
    IN  CASE s.state \in {"KERN", "USER"} /\ s.rem > size -> [s EXCEPT !.rem = @ - size]
          [] s.state = "KERN" /\ s.rem = size ->
                [s EXCEPT !.kernel = <<s.region_start, start + s.rem>>, !.rem = user_pages, !.state = "USER_START"]
          [] s.state = "KERN" /\ s.rem < size ->
                [s EXCEPT !.kernel = <<s.region_start, start + s.rem>>, !.region_start = start + s.rem,
                          !.rem = (user_pages - size) + s.rem, !.state = "USER"]
          [] s.state = "USER_START" -> [s EXCEPT !.region_start = start, !.state = "USER"]
          [] OTHER -> [s EXCEPT !.failed = @ \/ s.rem # 0 \/ size # 0]

\* The bounds of the pools, <<first page, end>>.
Claim(map) ==
    LET s == FoldLeft(LAMBDA acc, entry : ClaimEntry(UserPages(map), acc, entry),
                      [state |-> "KERN_START", rem |-> Total(map) - UserPages(map), region_start |-> 0,
                       end |-> 0, kernel |-> <<0, 0>>, failed |-> FALSE], Usable(map))
    IN  [kernel |-> s.kernel, user |-> <<s.region_start, s.end>>, failed |-> s.failed]

\* The maps are those with which start-up does not stop at that assertion; the pool of
\* the kernel is then below that of the users.
ASSUME ClaimAssumption ==
    \A map \in MemoryMaps :
        LET claim == Claim(map) IN
        /\ claim.failed = FALSE /\ {claim.kernel[1], claim.kernel[2], claim.user[1], claim.user[2]} \subseteq Nat
        /\ claim.kernel[1] <= claim.kernel[2] /\ claim.kernel[2] <= claim.user[1] /\ claim.user[1] <= claim.user[2]

\* init_pool() puts the map of each pool, here of one page, at free_start,
\* and the last loop frees the usable pages from there on.
UsableBound == KernelEnd + 2
IsFree(map, page) == page >= UsableBound /\ \E i \in DOMAIN map : LET e == map[i] IN e.usable /\ page \in e.start..(EndOf(e) - 1)
PoolMap(map, bounds) == [i \in 0..(bounds[2] - bounds[1] - 1) |-> ~IsFree(map, bounds[1] + i)]

PoolLock(pool) == <<pool, 0>>

PallocInit(locks) ==
    \E map \in MemoryMaps :
        LET claim == Claim(map) IN
        /\ base = [kernel |-> claim.kernel[1], user |-> claim.user[1]]
        /\ used_map = [kernel |-> PoolMap(map, claim.kernel), user |-> PoolMap(map, claim.user)]
        /\ usable = {p \in claim.kernel[1]..(claim.user[2] - 1) : IsFree(map, p)}
        /\ panic = claim.failed
        /\ owner = [l \in {PoolLock(p) : p \in Pools} \union locks |-> NONE]
        /\ groups = [t \in Threads |-> {}]

----------------------------------------------------------------------------
(* palloc_get_multiple(). *)

At(t, pc) == thread[t].pc = pc /\ ~panic
Goto(t, th) == thread' = [thread EXCEPT ![t] = th]
LockFree(l) == owner[l] = NONE
Hold(t, l) == LockFree(l) /\ owner' = [owner EXCEPT ![l] = t]
ReleaseLock(l) == owner' = [owner EXCEPT ![l] = NONE]

\* The thread th calls palloc_get_multiple() and goes on at ret.
GetMultiple(th, pool, cnt, ret) ==
    [th EXCEPT !.pc = "get_lock", !.pool = pool, !.cnt = cnt, !.idx = 0, !.done = 0, !.ret = ret]

\* Mutant: the map is scanned without the lock.
GetLockRace(t) ==
    /\ At(t, "get_lock")
    /\ owner' = [owner EXCEPT ![PoolLock(thread[t].pool)] = t]
    /\ Goto(t, [thread[t] EXCEPT !.pc = "scan"])
    /\ UNCHANGED <<used_map, groups, panic>>

GetLock(t) ==
    /\ At(t, "get_lock")
    /\ Hold(t, PoolLock(thread[t].pool))
    /\ Goto(t, [thread[t] EXCEPT !.pc = "scan"])
    /\ UNCHANGED <<used_map, groups, panic>>

\* bitmap_scan(): one turn of its loop.
Scan(t) ==
    LET th == thread[t]
        b == used_map[th.pool]
    IN  /\ At(t, "scan")
        /\ Goto(t, IF th.idx + th.cnt > BitCnt(b) THEN [th EXCEPT !.pc = "get_unlock", !.idx = BITMAP_ERROR]
                   ELSE IF BitmapContains(b, th.idx, th.cnt, TRUE) THEN [th EXCEPT !.idx = @ + 1]
                   ELSE [th EXCEPT !.pc = "flip"])
        /\ UNCHANGED <<used_map, owner, groups, panic>>

\* bitmap_set_multiple() of the pages that were found: one bit.
Flip(t) ==
    LET th == thread[t] IN
    /\ At(t, "flip")
    /\ used_map' = [used_map EXCEPT ![th.pool] = BitmapSetMultiple(@, th.idx + th.done, 1, TRUE)]
    /\ Goto(t, [th EXCEPT !.done = @ + 1, !.pc = IF th.done + 1 = th.cnt THEN "get_unlock" ELSE "flip"])
    /\ UNCHANGED <<owner, groups, panic>>

GetUnlock(t) ==
    /\ At(t, "get_unlock")
    /\ ReleaseLock(PoolLock(thread[t].pool))
    /\ Goto(t, [thread[t] EXCEPT !.pc = thread[t].ret])
    /\ UNCHANGED <<used_map, groups, panic>>

\* What palloc_get_multiple() returns at ret.
Pages(th) == IF th.idx = BITMAP_ERROR THEN NONE ELSE base[th.pool] + th.idx

----------------------------------------------------------------------------
(* palloc_free_multiple(). *)

PageFromPool(pool, page) == page >= base[pool] /\ page < base[pool] + BitCnt(used_map[pool])
PoolOf(page) == IF PageFromPool("kernel", page) THEN "kernel" ELSE "user"

\* The thread th calls palloc_free_multiple() and goes on at ret.
FreeMultiple(th, page, cnt, ret) ==
    LET pool == PoolOf(page) IN
    [th EXCEPT !.pc = "free_pages", !.pool = pool, !.cnt = cnt, !.idx = page - base[pool], !.done = 0, !.ret = ret]

\* NOT_REACHED() and the assertion that all of the pages are in use.
FreePages(t) ==
    LET th == thread[t] IN
    /\ At(t, "free_pages")
    /\ panic' = ~(/\ \E pool \in Pools : PageFromPool(pool, base[th.pool] + th.idx)
                  /\ BitmapAll(used_map[th.pool], th.idx, th.cnt))
    /\ Goto(t, [th EXCEPT !.pc = "clear"])
    /\ UNCHANGED <<used_map, owner, groups>>

\* bitmap_set_multiple(): one bit.
Clear(t) ==
    LET th == thread[t] IN
    /\ At(t, "clear")
    /\ used_map' = [used_map EXCEPT ![th.pool] = BitmapSetMultiple(@, th.idx + th.done, 1, FALSE)]
    /\ Goto(t, [th EXCEPT !.done = @ + 1, !.pc = IF th.done + 1 = th.cnt THEN th.ret ELSE "clear"])
    /\ UNCHANGED <<owner, groups, panic>>

----------------------------------------------------------------------------
(* Threads that use pages. *)

CallGet(t, pool, cnt) ==
    /\ At(t, "idle")
    /\ Goto(t, GetMultiple(thread[t], pool, cnt, "got_pages"))
    /\ UNCHANGED <<used_map, owner, groups, panic>>

GotPages(t) ==
    LET pages == Pages(thread[t]) IN
    /\ At(t, "got_pages")
    /\ Goto(t, [thread[t] EXCEPT !.pc = "idle"])
    /\ groups' = IF pages = NONE THEN groups ELSE [groups EXCEPT ![t] = @ \union {<<pages, thread[t].cnt>>}]
    /\ UNCHANGED <<used_map, owner, panic>>

CallFree(t, group) ==
    /\ At(t, "idle") /\ group \in groups[t]
    /\ Goto(t, FreeMultiple(thread[t], group[1], group[2], "idle"))
    /\ groups' = [groups EXCEPT ![t] = @ \ {group}]
    /\ UNCHANGED <<used_map, owner, panic>>

PallocStep(t) ==
    \/ GetLock(t) \/ Scan(t) \/ Flip(t) \/ GetUnlock(t)
    \/ FreePages(t) \/ Clear(t) \/ GotPages(t)
    \/ \E group \in groups[t] : CallFree(t, group)
=======================================================================
