----------------------------- MODULE Hash -----------------------------
(***************************************************************************)
(* lib/kernel/hash.c: tables of buckets, each a list.  The buckets of a    *)
(* table are an array from malloc(), which may fail (oom); rehash() moves  *)
(* the elements to a new array.                                            *)
(***************************************************************************)
EXTENDS KernelList

CONSTANTS
    HashOf,          \* the hash of each value
    MaxBuckets,      \* bound: buckets of an array
    MIN_BUCKETS,     \* 4 in hash_init() and rehash()
    BEST_ELEMS_PER_BUCKET

VARIABLES
    h,          \* elem_cnt, bucket_cnt and the array of the table, or NULL
    iter        \* hash_iterator: bucket and elem, or NULL

Arrays == {"A", "B"}
Bucket(a, i) == <<a, i>>
Buckets(a, cnt) == {Bucket(a, i) : i \in 0..(cnt - 1)}

ASSUME HashAssumption ==
    /\ {MaxBuckets, MIN_BUCKETS, BEST_ELEMS_PER_BUCKET} \subseteq Nat \ {0} /\ MIN_BUCKETS <= MaxBuckets
    /\ \A a \in Arrays : Buckets(a, MaxBuckets) \subseteq Lists

FindBucket(t, e) == Bucket(t.array, HashOf[Value[e]] % t.bucket_cnt)
FindElem(k, bucket, e) ==
    LET equal(s) == SelectSeq(s, LAMBDA x : ~Less(x, e) /\ ~Less(e, x))
        found == equal(ElemsOf(k, bucket))
    IN  IF found = <<>> THEN NULL ELSE Head(found)
InitBuckets(k, a, cnt) ==
    [n \in DOMAIN k |-> CASE n \in {HeadOf(l) : l \in Buckets(a, cnt)} -> [prev |-> NULL, next |-> TailOf(n[2])]
                          [] n \in {TailOf(l) : l \in Buckets(a, cnt)} -> [prev |-> HeadOf(n[2]), next |-> NULL]
                          [] OTHER -> k[n]]

\* free() of an array: nobody reads its nodes again.
Freed(k, a) == [n \in DOMAIN k |-> IF n \in Elems THEN k[n] ELSE IF n[2][1] = a THEN Loose ELSE k[n]]

\* All the elements, in the order of the buckets.
InOrder(k, t) == Through(LAMBDA s, i : s \o ElemsOf(k, Bucket(t.array, i - 1)), <<>>, [i \in 1..t.bucket_cnt |-> i])

\* is_power_of_2() and turn_off_least_1bit(): the powers of 2 up to n.
PowersUpTo(n) == {p \in {2 ^ i : i \in 0..n} : p <= n}
NewBucketCnt(elem_cnt) ==
    LET n == elem_cnt \div BEST_ELEMS_PER_BUCKET
        cnt == IF n < MIN_BUCKETS THEN MIN_BUCKETS ELSE n
    IN  CHOOSE p \in PowersUpTo(cnt) : \A q \in PowersUpTo(cnt) : q <= p

\* Mutant: the elements stay in the buckets they were in.
RehashesInPlace(k, t) == {[k |-> k, t |-> t], [k |-> k, t |-> [t EXCEPT !.bucket_cnt = NewBucketCnt(t.elem_cnt)]]}

\* What rehash() may leave: the table as it is when there is no memory, and
\* else the elements moved to the buckets of a new array.
Rehashes(k, t) ==
    LET cnt == NewBucketCnt(t.elem_cnt)
        other == CHOOSE a \in Arrays : a # t.array
        new == [t EXCEPT !.bucket_cnt = cnt, !.array = other]
        move(s, e) == ListPushFront(ListRemove(s, e), FindBucket(new, e), e)
    IN  {[k |-> k, t |-> t]} \union
        IF cnt = t.bucket_cnt THEN {}
        ELSE {[k |-> Freed(Through(move, InitBuckets(k, other, cnt), InOrder(k, t)), t.array), t |-> new]}

----------------------------------------------------------------------------
(* Calls.  The ones that change the table invalidate the iterator.         *)

After(call, r) == done' = call /\ links' = r.k /\ h' = r.t /\ iter' = NULL

HashInit(oom) ==
    /\ h = NULL
    /\ h' = IF oom THEN NULL ELSE [elem_cnt |-> 0, bucket_cnt |-> MIN_BUCKETS, array |-> "A"]
    /\ links' = IF oom THEN links ELSE InitBuckets(links, "A", MIN_BUCKETS)
    /\ done' = <<"hash_clear">> /\ UNCHANGED iter

HashDestroy ==
    /\ h # NULL
    /\ h' = NULL /\ iter' = NULL /\ done' = <<"hash_clear">>
    /\ links' = Freed(links, h.array)

\* hash_clear() with a destructor pops the elements; without one it
\* initializes the buckets as they are.
HashClear == After(<<"hash_clear">>, [k |-> InitBuckets(links, h.array, h.bucket_cnt), t |-> [h EXCEPT !.elem_cnt = 0]])

HashInsert(e) ==
    LET bucket == FindBucket(h, e)
        old == FindElem(links, bucket, e)
    IN  \E r \in IF old # NULL THEN Rehashes(links, h)
                 ELSE Rehashes(ListPushFront(links, bucket, e), [h EXCEPT !.elem_cnt = @ + 1]) :
            After(<<"hash_insert", e, old>>, r)

HashReplace(e) ==
    LET bucket == FindBucket(h, e)
        old == FindElem(links, bucket, e)
        removed == IF old = NULL THEN links ELSE ListRemove(links, old)
        cnt == IF old = NULL THEN h.elem_cnt + 1 ELSE h.elem_cnt
    IN  \E r \in Rehashes(ListPushFront(removed, bucket, e), [h EXCEPT !.elem_cnt = cnt]) :
            After(<<"hash_replace", e, old>>, r)

HashFind(e) ==
    /\ done' = <<"hash_find", e, FindElem(links, FindBucket(h, e), e)>>
    /\ UNCHANGED <<links, h, iter>>

HashDelete(e) ==
    LET found == FindElem(links, FindBucket(h, e), e) IN
    \E r \in IF found = NULL THEN {[k |-> links, t |-> h]}
             ELSE Rehashes(ListRemove(links, found), [h EXCEPT !.elem_cnt = @ - 1]) :
        After(<<"hash_delete", e, found>>, r)

HashSize == done' = <<"hash_size", h.elem_cnt, h.elem_cnt = 0>> /\ UNCHANGED <<links, h, iter>>
HashApply == done' = <<"hash_apply", InOrder(links, h)>> /\ UNCHANGED <<links, h, iter>>

HashFirst ==
    /\ done' = <<"hash_first">>
    /\ iter' = [bucket |-> 0, elem |-> HeadOf(Bucket(h.array, 0))]
    /\ UNCHANGED <<links, h>>

\* The next node, or the first one of the next bucket that has one.
HashNext ==
    LET next == links[iter.elem].next
        later == {i \in (iter.bucket + 1)..(h.bucket_cnt - 1) : ~ListEmpty(links, Bucket(h.array, i))}
        bucket == CHOOSE i \in later : \A j \in later : i <= j
    IN  /\ iter # NULL /\ iter.elem # NULL
        /\ iter' = IF next # TailOf(Bucket(h.array, iter.bucket)) THEN [iter EXCEPT !.elem = next]
                   ELSE IF later = {} THEN [bucket |-> h.bucket_cnt, elem |-> NULL]
                   ELSE [bucket |-> bucket, elem |-> ListBegin(links, Bucket(h.array, bucket))]
        /\ done' = <<"hash_next", iter'.elem>>
        /\ UNCHANGED <<links, h>>

MembersOf(k, t) == IF t = NULL THEN {} ELSE InSeq(InOrder(k, t))
Members == MembersOf(links, h)

HashCall ==
    \/ \E oom \in BOOLEAN : HashInit(oom)
    \/ HashDestroy
    \/ /\ h # NULL
       /\ \/ HashClear \/ HashSize \/ HashApply \/ HashFirst \/ HashNext
          \/ \E e \in Elems : HashFind(e) \/ HashDelete(e)
          \/ \E e \in Elems \ Members : HashInsert(e) \/ HashReplace(e)

----------------------------------------------------------------------------
(* Properties. *)

\* elem_cnt counts the elements, each of which is in the bucket that
\* find_bucket() looks for it in, after a rehash() that found no memory
\* (hash.c:349) too; and there are as many buckets as fit in the array.
TableExact ==
    h # NULL =>
        /\ h.elem_cnt = Len(InOrder(links, h))
        /\ \A e \in Members : e \in InList(FindBucket(h, e))
        /\ BothWays(Buckets(h.array, h.bucket_cnt))
        /\ h.bucket_cnt \in {2 ^ i : i \in 0..MaxBuckets} /\ h.bucket_cnt <= MaxBuckets

\* What the iteration i has yet to return.
LeftOf(k, t, i) ==
    IF NULL \in {t, i} \/ i.elem = NULL THEN {}
    ELSE InSeq(Walk(k, k[i.elem].next, TailOf(Bucket(t.array, i.bucket))))
         \union UNION {InSeq(ElemsOf(k, Bucket(t.array, b))) : b \in (i.bucket + 1)..(t.bucket_cnt - 1)}
=======================================================================
