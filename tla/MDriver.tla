---------------------------- MODULE MDriver ----------------------------
(***************************************************************************)
(* The driver of the malloc lab (malloc-lab/mdriver.c): it runs a trace of *)
(* requests three times, on a heap that keeps the bytes of the run before: *)
(* eval_mm_valid() checks each block, eval_mm_util() measures the peak of  *)
(* the payloads, eval_mm_speed() only makes the calls.  The trace is read  *)
(* from a file; here its requests are chosen as the first run gets there.  *)
(***************************************************************************)
EXTENDS MmMalloc, TLC

CONSTANT MaxOps     \* bound of the model: the requests of a trace

VARIABLE d  \* the driver: [run, ops, i, blocks, sizes, ranges, total, max_total, error, first]
dvars == <<heap, owned, d>>

Ids == Names
Fresh == [n \in Ids |-> NULL]

\* memset(p, index & 0xFF, size): the low byte of an index stands for the index.
Memset(h, p, size, n) ==
    [h EXCEPT !.mem = [w \in DOMAIN @ |->
        IF w \in (p \div WSIZE)..((p + size) \div WSIZE - 1) THEN n ELSE @[w]]]

DInit(run) ==
    /\ Init
    /\ d = [run |-> run, ops |-> <<>>, i |-> 1, blocks |-> Fresh, sizes |-> Fresh,
            ranges |-> {}, total |-> 0, max_total |-> 0, error |-> "none", first |-> <<>>]

\* add_range(): what is wrong with a new payload.
Within(p, r) == p >= r[1] /\ p <= r[2]
RangeError(h, ranges, lo, size) ==
    LET hi == lo + size - 1 IN
    CASE lo % 8 # 0 -> "alignment"
      [] lo % 8 = 0 /\ ~(Within(lo, <<0, h.brk - 1>>) /\ Within(hi, <<0, h.brk - 1>>)) -> "outside"
      [] lo % 8 = 0 /\ \E r \in ranges : Within(lo, r) \/ Within(hi, r) -> "overlap"
      [] OTHER -> "none"

\* remove_range()
Without(ranges, lo) == {r \in ranges : r[1] # lo}

\* The requests a trace may make next: blocks are allocated before they are
\* resized or freed.
Live(n) == d.blocks[n] # NULL
Sensible(op) == IF op[1] = "a" THEN ~Live(op[2]) ELSE Live(op[2])
Ops == ({"a", "r"} \X Ids \X Sizes) \union ({"f"} \X Ids \X {0})

\* The request that the run has come to.
Due(op) ==
    /\ d.error = "none"
    /\ CASE d.run = "valid" -> Len(d.ops) < MaxOps /\ Sensible(op)
         [] d.run \in {"util", "speed"} -> d.i <= Len(d.ops) /\ op = d.ops[d.i]
         [] OTHER -> FALSE

\* What it calls: mm_malloc(), mm_realloc() or mm_free().
Call(h, op) ==
    CASE op[1] = "a" -> Malloc(h, op[3])
      [] op[1] = "r" -> Realloc(h, d.blocks[op[2]], op[3], "up")
      [] op[1] = "f" -> [heap |-> Free(h, d.blocks[op[2]]), bp |-> NULL]

Kept(h, p, n, size) == \A w \in (p \div WSIZE)..((p + size) \div WSIZE - 1) : h.mem[w] = n

\* eval_mm_valid(), one request.
\* What it finds wrong with what the call returned.
Wrong(op, h, bp, ranges) ==
    CASE op[1] = "f" -> "none"
      [] op[1] # "f" /\ bp = NULL -> "memory"
      [] op[1] = "r" /\ bp # NULL /\ ~Kept(h, bp, op[2], Smaller(op[3], d.sizes[op[2]])) -> "data"
      [] OTHER -> RangeError(h, ranges, bp, op[3])

ValidOp(op, got) ==
    /\ d.run = "valid"
    /\ \E ranges \in {Without(d.ranges, d.blocks[op[2]])} :
       \E wrong \in {Wrong(op, got.heap, got.bp, ranges)} :
        LET filled == wrong = "none" /\ op[1] # "f" IN
        /\ heap' = IF filled THEN Memset(got.heap, got.bp, op[3], op[2]) ELSE got.heap
        /\ d' = [d EXCEPT !.error = wrong, !.ops = Append(@, op), !.first = Append(@, got.bp),
                          !.blocks[op[2]] = got.bp, !.sizes[op[2]] = op[3],
                          !.ranges = ranges \union IF filled THEN {<<got.bp, got.bp + op[3] - 1>>} ELSE {}]
    /\ UNCHANGED owned

\* Mutant: mm_init() is not called again.
RestartNoInit(run) ==
    /\ heap' = [heap EXCEPT !.brk = 80]
    /\ d' = [d EXCEPT !.run = run, !.i = 1, !.blocks = Fresh, !.sizes = Fresh, !.total = 0]
    /\ UNCHANGED owned

\* mem_reset_brk() and mm_init(), before the next run.
Restart(run) ==
    /\ heap' = MmInit(heap.mem)
    /\ d' = [d EXCEPT !.run = run, !.i = 1, !.blocks = Fresh, !.sizes = Fresh, !.total = 0]
    /\ UNCHANGED owned

\* A trace that is valid is run again for its utilization, then for its speed.
StartUtil == d.run = "valid" /\ d.error = "none" /\ Restart("util")
StartSpeed == d.run = "util" /\ d.error = "none" /\ d.i > Len(d.ops) /\ Restart("speed")

\* One request again: app_error() if the call fails.
Again(op, got, counted) ==
    /\ heap' = got.heap
    /\ d' = [counted EXCEPT !.i = @ + 1, !.blocks[op[2]] = got.bp,
                            !.error = IF op[1] # "f" /\ got.bp = NULL THEN "app" ELSE @]
    /\ UNCHANGED owned

\* eval_mm_util() counts the bytes of the payloads, eval_mm_speed() does not.
UtilOp(op, got) ==
    /\ d.run = "util"
    /\ LET total == d.total + op[3] - (IF op[1] = "a" THEN 0 ELSE d.sizes[op[2]]) IN
        Again(op, got, [d EXCEPT !.total = total, !.sizes[op[2]] = op[3],
                            !.max_total = IF total > @ THEN total ELSE @])
SpeedOp(op, got) == d.run = "speed" /\ Again(op, got, d)

\* In the run "off" there is no driver, and the client of MmMalloc makes the calls.
DNext ==
    \/ d.run = "off" /\ Next /\ UNCHANGED d
    \/ StartUtil \/ StartSpeed
    \/ \E op \in Ops : Due(op) /\ \E got \in {Call(heap, op)} :
          ValidOp(op, got) \/ UtilOp(op, got) \/ SpeedOp(op, got)

-----------------------------------------------------------------------------
\* Whatever trace it runs, the driver finds no fault but a heap that is full: blocks
\* are aligned, in the heap and apart, mm_realloc() keeps their bytes, a trace that
\* was valid is served again on the dirty heap, with the same blocks, and its
\* utilization is not more than 1.
DriverAccepts ==
    /\ d.error \in {"none", "memory"}
    /\ d.run # "valid" => \A n \in Ids : Live(n) => \E j \in 1..(d.i - 1) : d.ops[j][2] = n /\ d.first[j] = d.blocks[n]
    /\ d.run = "util" /\ d.i > Len(d.ops) => d.max_total <= heap.brk
    /\ \A r, q \in d.ranges : r # q => r[2] < q[1] \/ q[2] < r[1]
-----------------------------------------------------------------------------
(* For TLC: the client or the driver on a small heap; names are alike.     *)

MInit == DInit("off") \/ DInit("valid")
MSpec == MInit /\ [][DNext]_dvars

Symmetry == Permutations(Names)

\* Blocks tile the heap and are all that is in the free list or owned; free
\* neighbours are merged (coalesce()).
HeapExact == HeapTiled /\ (d.run = "off" => FreeListExact) /\ FullyCoalesced
=======================================================================
