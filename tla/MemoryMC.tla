--------------------------- MODULE MemoryMC ---------------------------
EXTENDS BlockMalloc

\* Base memory below a hole and extended memory with the kernel in it, or
\* one region: the pools are on two sides of the hole, or in one region.
Entry(start, size, isUsable) == [start |-> start, size |-> size, usable |-> isUsable]
MCMaps == {<<Entry(2, 1, TRUE), Entry(3, 1, FALSE), Entry(4, 8, TRUE)>>, <<Entry(4, 8, TRUE)>>}
MCProducts == {<<3, 1>>}
MCWord == 2 ^ 6

\* The locals that matter where a thread is.
InPalloc(th) == th.pc \in {"get_lock", "scan", "flip", "get_unlock", "free_pages", "clear", "got_pages", "got_arena", "got_big"}
InMalloc(th) == th.pc # "idle" /\ ~(InPalloc(th) /\ th.ret \in {"got_pages", "idle"})
Live == [t \in Threads |->
    LET th == thread[t] IN
    <<th.pc, IF InPalloc(th) THEN <<th.pool, th.cnt, th.idx, th.done, th.ret>>
             ELSE IF th.pc = "free_blocks" THEN <<th.done>> ELSE <<>>,
             IF InMalloc(th) THEN <<th.call, th.size, th.old>> ELSE <<>> >>]
MCView == <<base, used_map, owner, Live, groups, panic, mvars>>
Symmetry == Permutations(Threads)
=======================================================================
