---------------------------- MODULE MmMalloc ----------------------------
(***************************************************************************)
(* The allocator of the malloc lab (malloc-lab/mm.c) on the simulated heap *)
(* of memlib.c: blocks with boundary tags, an explicit free list, best fit *)
(* and immediate coalescing, and a client that allocates, reallocates and  *)
(* frees blocks and fills each payload with words of its own.              *)
(*                                                                         *)
(* A heap h is memory in words of four bytes, mem_brk and free_listp.      *)
(* Addresses and sizes are in bytes, from the start of the heap: 0 is      *)
(* NULL.  A pointer takes two words.  Words written by the client are      *)
(* negative.                                                               *)
(***************************************************************************)
EXTENDS Integers, Sequences, FiniteSets

CONSTANTS
    MAX_HEAP,   \* of memlib.c, in bytes
    CHUNKSIZE,  \* least extension of the heap, before it is doubled
    Sizes,      \* the sizes that the client asks for
    Names,      \* names of the client's blocks
    CopyOrders  \* how memcpy() copies, "up" or "down"

WSIZE == 4
DSIZE == 8
NULL == 0
HIGH == 21845   \* the upper word of every pointer into the heap

ASSUME MmAssumption ==
    /\ MAX_HEAP \in Nat /\ MAX_HEAP % DSIZE = 0 /\ MAX_HEAP >= 80
    /\ CHUNKSIZE \in Nat /\ CHUNKSIZE % DSIZE = 0
    /\ Sizes \subseteq Nat
    /\ CopyOrders \subseteq {"up", "down"}

VARIABLES
    heap,   \* [mem, brk, free_listp]
    owned   \* the client's blocks: name -> [ptr, size], ptr = NULL for none

vars == <<heap, owned>>

----------------------------------------------------------------------------
Get(h, a) == h.mem[a \div WSIZE]
Put(h, a, v) == [h EXCEPT !.mem[a \div WSIZE] = v]
PutPtr(h, a, p) == Put(Put(h, a, p), a + WSIZE, IF p = NULL THEN 0 ELSE HIGH)

Pack(size, alloc) == size + alloc
SizeAt(h, a) == (Get(h, a) \div 8) * 8
AllocAt(h, a) == Get(h, a) % 2

HDRP(bp) == bp - WSIZE
Size(h, bp) == SizeAt(h, HDRP(bp))
FTRP(h, bp) == bp + Size(h, bp) - DSIZE
NEXT_BLKP(h, bp) == bp + Size(h, bp)
PREV_BLKP(h, bp) == bp - SizeAt(h, bp - DSIZE)

NEXT_FREE(h, bp) == Get(h, bp)
PREV_FREE(h, bp) == Get(h, bp + DSIZE)
SetNext(h, bp, p) == PutPtr(h, bp, p)
SetPrev(h, bp, p) == PutPtr(h, bp + DSIZE, p)

ALIGN(size) == ((size + 7) \div 8) * 8

\* Header, then footer, of the block at bp.
Tag(h, bp, size, alloc) ==
    LET tagged == Put(h, HDRP(bp), Pack(size, alloc))
    IN  Put(tagged, FTRP(tagged, bp), Pack(size, alloc))

----------------------------------------------------------------------------
\* Faulty: the back link of the next block is left alone.
BadRemoveFromFreeList(h, bp) ==
    LET next == NEXT_FREE(h, bp)
        prev == PREV_FREE(h, bp)
    IN  IF prev = NULL THEN [h EXCEPT !.free_listp = next]
        ELSE SetNext(h, prev, next)

\* remove_from_free_list(bp)
RemoveFromFreeList(h, bp) ==
    LET next == NEXT_FREE(h, bp)
        prev == PREV_FREE(h, bp)
        unlinked == IF prev = NULL THEN [h EXCEPT !.free_listp = next]
                    ELSE SetNext(h, prev, next)
    IN  IF next = NULL THEN unlinked ELSE SetPrev(unlinked, next, prev)

\* add_to_free_list(bp)
AddToFreeList(h, bp) ==
    LET linked == SetPrev(SetNext(h, bp, h.free_listp), bp, NULL)
        backed == IF h.free_listp = NULL THEN linked
                  ELSE SetPrev(linked, h.free_listp, bp)
    IN  [backed EXCEPT !.free_listp = bp]

\* coalesce(bp): merges the free block bp with the free blocks on either
\* side and enters the result, whose address it returns, in the free list.
Coalesce(h, bp) ==
    LET prev == PREV_BLKP(h, bp)
        next == NEXT_BLKP(h, bp)
        prev_free == AllocAt(h, FTRP(h, prev)) = 0
        next_free == AllocAt(h, HDRP(next)) = 0
        detached1 == IF next_free THEN RemoveFromFreeList(h, next) ELSE h
        detached == IF prev_free THEN RemoveFromFreeList(detached1, prev)
                    ELSE detached1
        start == IF prev_free THEN prev ELSE bp
        size == Size(h, bp) + (IF next_free THEN Size(h, next) ELSE 0)
                            + (IF prev_free THEN Size(h, prev) ELSE 0)
    IN  [heap |-> AddToFreeList(Tag(detached, start, size, 0), start),
         bp |-> start]

\* extend_heap(words) with mem_sbrk(); bp is NULL when the heap is full.
ExtendHeap(h, words) ==
    LET size == (words + (words % 2)) * WSIZE
        bp == h.brk
        grown == Tag([h EXCEPT !.brk = @ + size], bp, size, 0)
    IN  IF h.brk + size > MAX_HEAP THEN [heap |-> h, bp |-> NULL]
        ELSE Coalesce(Put(grown, HDRP(bp + size), Pack(0, 1)), bp)

\* The blocks of the free list, in order, as its links give them.
FreeList(h) ==
    LET n == MAX_HEAP \div DSIZE
        step[i \in 0..n] ==
            IF i = 0 THEN <<h.free_listp>>
            ELSE LET list == step[i - 1]
                     last == list[Len(list)]
                 IN  IF last \notin 16..(h.brk - 1) THEN list
                     ELSE Append(list, NEXT_FREE(h, last))
    IN  SelectSeq(step[n], LAMBDA bp : bp # NULL)

\* best_fit(asize): the first of the smallest blocks in the free list that
\* are large enough, or NULL.
BestFit(h, asize) ==
    LET list == FreeList(h)
        fits == {i \in DOMAIN list : Size(h, list[i]) >= asize}
        best == {i \in fits : \A j \in fits :
                    \/ Size(h, list[i]) < Size(h, list[j])
                    \/ Size(h, list[i]) = Size(h, list[j]) /\ i <= j}
    IN  IF fits = {} THEN NULL ELSE list[CHOOSE i \in best : TRUE]

\* place(bp, asize)
Place(h, bp, asize) ==
    LET csize == Size(h, bp)
        removed == RemoveFromFreeList(h, bp)
        placed == Tag(removed, bp, asize, 1)
        rest == bp + asize
    IN  IF csize - asize >= 3 * DSIZE
        THEN AddToFreeList(Tag(placed, rest, csize - asize, 0), rest)
        ELSE Tag(removed, bp, csize, 1)

\* The block size mm_malloc() uses for a request.
AdjustedSize(size) ==
    CASE size = 448 -> 520 [] size = 112 -> 136 [] OTHER -> ALIGN(size + DSIZE)

ExtendSize(asize) ==
    CASE asize < CHUNKSIZE     -> CHUNKSIZE
      [] asize >= CHUNKSIZE /\ asize < CHUNKSIZE * 4 -> asize + CHUNKSIZE \div 4
      [] OTHER -> asize + asize \div 24

\* mm_malloc(size)
Malloc(h, size) ==
    LET asize == AdjustedSize(size)
        fit == BestFit(h, asize)
        extended == ExtendHeap(h, ExtendSize(asize) \div 2)
    IN  CASE size = 0 -> [heap |-> h, bp |-> NULL]
          [] size > 0 /\ fit # NULL ->
                [heap |-> Place(h, fit, asize), bp |-> fit]
          [] size > 0 /\ fit = NULL /\ extended.bp = NULL ->
                [heap |-> h, bp |-> NULL]
          [] OTHER -> [heap |-> Place(extended.heap, extended.bp, asize),
                       bp |-> extended.bp]

\* mm_free(ptr)
Free(h, ptr) == Coalesce(Tag(h, ptr, Size(h, ptr), 0), ptr).heap

\* memcpy(dst, src, size), word by word: the order matters when the two
\* overlap, which memcpy() leaves undefined.
Memcpy(h, dst, src, size, order) ==
    LET n == size \div WSIZE
        Word(i) == IF order = "up" THEN i - 1 ELSE n - i
        step[i \in 0..n] ==
            IF i = 0 THEN h
            ELSE LET copied == step[i - 1]
                 IN  Put(copied, dst + WSIZE * Word(i),
                         Get(copied, src + WSIZE * Word(i)))
    IN  step[n]

\* mm_realloc(ptr, size) extends the block into the free block after it, or
\* before it.
ReallocForward(h, ptr, size) ==
    LET next == NEXT_BLKP(h, ptr) IN
    /\ AllocAt(h, HDRP(next)) = 0 /\ Size(h, next) # 0
    /\ Size(h, ptr) + Size(h, next) >= ALIGN(size + DSIZE)

ReallocBackward(h, ptr, size) ==
    LET prev == PREV_BLKP(h, ptr) IN
    /\ AllocAt(h, HDRP(prev)) = 0 /\ Size(h, prev) # 0
    /\ Size(h, prev) + Size(h, ptr) >= ALIGN(size + DSIZE)

\* The extended block of either case.
Extended(h, ptr, size) ==
    IF ReallocForward(h, ptr, size)
    THEN LET next == NEXT_BLKP(h, ptr)
         IN  [heap |-> Tag(RemoveFromFreeList(h, next), ptr,
                           Size(h, ptr) + Size(h, next), 1),
              bp |-> ptr]
    ELSE LET prev == PREV_BLKP(h, ptr)
         IN  [heap |-> Tag(RemoveFromFreeList(h, prev), prev,
                           Size(h, prev) + Size(h, ptr), 1),
              bp |-> prev]

Smaller(a, b) == IF a < b THEN a ELSE b

\* The last case of mm_realloc(): malloc, copy and free.
Moved(h, ptr, size, order) ==
    LET new == Malloc(h, size)
        kept == Smaller(size, Size(h, ptr) - DSIZE)
    IN  IF new.bp = NULL THEN new
        ELSE [heap |-> Free(Memcpy(new.heap, new.bp, ptr, kept, order), ptr),
              bp |-> new.bp]


\* mm_realloc(ptr, size) of a block, size > 0.
Realloc(h, ptr, size, order) ==
    CASE ALIGN(size + DSIZE) <= Size(h, ptr) -> [heap |-> h, bp |-> ptr]
      [] ALIGN(size + DSIZE) > Size(h, ptr) /\ ReallocForward(h, ptr, size) ->
            Extended(h, ptr, size)
      [] ALIGN(size + DSIZE) > Size(h, ptr) /\ ~ReallocForward(h, ptr, size)
         /\ ReallocBackward(h, ptr, size) ->
            LET new == Extended(h, ptr, size)
            IN  [new EXCEPT !.heap = Memcpy(@, new.bp, ptr,
                                            Size(h, ptr) - DSIZE, order)]
      [] OTHER -> Moved(h, ptr, size, order)

----------------------------------------------------------------------------
\* What the client writes into word number i of a block, and the block
\* filled from its word number first.
Mark(i) == -(i + 1)

Fill(h, ptr, size, first) ==
    [h EXCEPT !.mem = [w \in DOMAIN h.mem |->
        IF w \in ((ptr \div WSIZE) + first)..((ptr + size) \div WSIZE - 1)
        THEN Mark(w - ptr \div WSIZE) ELSE h.mem[w]]]

Clear(h, ptr, size) ==
    [h EXCEPT !.mem = [w \in DOMAIN h.mem |->
        IF w \in (ptr \div WSIZE)..((ptr + size) \div WSIZE - 1)
        THEN 0 ELSE h.mem[w]]]

\* mm_init() on an empty heap, whose memory may hold anything.
MmInit(mem) ==
    LET empty == [mem |-> mem, brk |-> 4 * WSIZE, free_listp |-> NULL]
        tagged == Tag(Put(empty, WSIZE, 0), DSIZE, DSIZE, 1)
    IN  ExtendHeap(Put(Put(tagged, 0, 0), 3 * WSIZE, Pack(0, 1)), DSIZE * 2).heap

\* mem_init() and mm_init().
EmptyHeap == MmInit([w \in 0..(MAX_HEAP \div WSIZE - 1) |-> 0])

NoBlock == [ptr |-> NULL, size |-> 0]

Init ==
    /\ heap = EmptyHeap
    /\ owned = [n \in Names |-> NoBlock]

\* The client allocates a block and fills it.
ClientMalloc(n, size) ==
    /\ owned[n].ptr = NULL
    /\ LET got == Malloc(heap, size) IN
          /\ heap' = IF got.bp = NULL THEN got.heap
                     ELSE Fill(got.heap, got.bp, size, 0)
          /\ owned' = IF got.bp = NULL THEN owned
                      ELSE [owned EXCEPT ![n] = [ptr |-> got.bp, size |-> size]]

\* The client clears a block and frees it.
ClientFree(n) ==
    /\ owned[n].ptr # NULL
    /\ heap' = Free(Clear(heap, owned[n].ptr, owned[n].size), owned[n].ptr)
    /\ owned' = [owned EXCEPT ![n] = NoBlock]

\* The client resizes a block and fills the words it has gained.
ClientRealloc(n, size, order) ==
    /\ owned[n].ptr # NULL /\ size > 0
    /\ LET got == Realloc(heap, owned[n].ptr, size, order)
           kept == Smaller(size, owned[n].size) \div WSIZE
       IN  /\ heap' = IF got.bp = NULL THEN got.heap
                      ELSE Fill(got.heap, got.bp, size, kept)
           /\ owned' = IF got.bp = NULL THEN owned
                       ELSE [owned EXCEPT ![n] = [ptr |-> got.bp, size |-> size]]

Next ==
    \E n \in Names :
        \/ ClientFree(n)
        \/ \E size \in Sizes :
              \/ ClientMalloc(n, size)
              \/ \E order \in CopyOrders : ClientRealloc(n, size, order)

Spec == Init /\ [][Next]_vars

----------------------------------------------------------------------------
\* The blocks from the first one after the prologue, and the end the walk
\* reaches.
Walk(h) ==
    LET n == MAX_HEAP \div DSIZE
        step[i \in 0..n] ==
            IF i = 0 THEN <<16>>
            ELSE LET walk == step[i - 1]
                     bp == walk[Len(walk)]
                 IN  IF bp \notin 16..(h.brk - 1) \/ Size(h, bp) <= 0
                     THEN walk
                     ELSE Append(walk, NEXT_BLKP(h, bp))
    IN  step[n]

Blocks(h) == LET walk == Walk(h) IN {walk[i] : i \in 1..(Len(walk) - 1)}
FreeBlocks(h) == {bp \in Blocks(h) : AllocAt(h, HDRP(bp)) = 0}

\* Blocks follow one another from the prologue to the epilogue at the end of
\* the heap, each with equal header and footer, aligned, of 24 bytes or more.
HeapTiled ==
    LET walk == Walk(heap) IN
    /\ walk[Len(walk)] = heap.brk
    /\ Get(heap, HDRP(heap.brk)) = Pack(0, 1)
    /\ \A bp \in Blocks(heap) :
          /\ Get(heap, HDRP(bp)) = Get(heap, FTRP(heap, bp))
          /\ Size(heap, bp) % DSIZE = 0 /\ Size(heap, bp) >= 24

(***************************************************************************)
(* The free list holds every free block once, and its links agree in both  *)
(* directions; the blocks the client owns are the allocated ones.          *)
(***************************************************************************)
FreeListExact ==
    LET list == FreeList(heap) IN
    /\ {list[i] : i \in DOMAIN list} = FreeBlocks(heap)
    /\ Len(list) = Cardinality(FreeBlocks(heap))
    /\ \A i \in DOMAIN list :
          PREV_FREE(heap, list[i]) = IF i = 1 THEN NULL ELSE list[i - 1]
    /\ Blocks(heap) \ FreeBlocks(heap) =
          {owned[n].ptr : n \in Names} \ {NULL}

\* Free neighbours are merged at once (coalesce).
FullyCoalesced ==
    \A bp \in FreeBlocks(heap) : NEXT_BLKP(heap, bp) \notin FreeBlocks(heap)

=========================================================================
