-------------------------- MODULE KernelList --------------------------
(***************************************************************************)
(* lib/kernel/list.c: doubly linked lists, each with a head and a tail     *)
(* that are nodes.  An operation is a function from the links to the links *)
(* it leaves, and takes nodes, as in C; its loops are folds that stop      *)
(* where the loop does.                                                    *)
(***************************************************************************)
EXTENDS Naturals, Sequences, FiniteSets

CONSTANTS
    Elems, Value, Lists, NULL,
    Listable    \* bound: elements that the calls of lists put in them

VARIABLES
    links,      \* prev and next of each node
    done        \* history: the last call, <<name, arguments, what it returned>>

HeadOf(l) == <<"head", l>>
TailOf(l) == <<"tail", l>>
Node == Elems \union {HeadOf(l) : l \in Lists} \union {TailOf(l) : l \in Lists}
Loose == [prev |-> NULL, next |-> NULL]
Less(a, b) == Value[a] < Value[b]

\* The turns of a loop that leaves its state alone once it is over: none
\* takes more than one per element and one for the end of the list.
Loop(turn(_), init) ==
    LET after[i \in 0..(Cardinality(Elems) + 1)] == IF i = 0 THEN init ELSE turn(after[i - 1])
    IN  after[Cardinality(Elems) + 1]

Through(turn(_, _), init, s) ==
    LET after[i \in 0..Len(s)] == IF i = 0 THEN init ELSE turn(after[i - 1], s[i])
    IN  after[Len(s)]

----------------------------------------------------------------------------
(* Reading. *)

ListInit(k, l) == [k EXCEPT ![HeadOf(l)] = [prev |-> NULL, next |-> TailOf(l)],
                            ![TailOf(l)] = [prev |-> HeadOf(l), next |-> NULL]]
IsInterior(k, e) == e # NULL /\ k[e].prev # NULL /\ k[e].next # NULL
IsTail(k, e) == e # NULL /\ k[e].prev # NULL /\ k[e].next = NULL
ListBegin(k, l) == k[HeadOf(l)].next
ListEmpty(k, l) == ListBegin(k, l) = TailOf(l)
ListFront(k, l) == ListBegin(k, l)
ListBack(k, l) == k[TailOf(l)].prev

\* for (e = a; e != b; e = list_next (e))
Walk(k, a, b) ==
    LET turn(s) == IF s.e \in {b, NULL} THEN s ELSE [e |-> k[s.e].next, seen |-> Append(s.seen, s.e)]
    IN  Loop(turn, [e |-> a, seen |-> <<>>]).seen
ElemsOf(k, l) == Walk(k, ListBegin(k, l), TailOf(l))
InSeq(s) == {s[i] : i \in DOMAIN s}
ListSize(k, l) == Len(ElemsOf(k, l))

\* list_max() and list_min().
ListMax(k, l) == LET s == ElemsOf(k, l) IN
    IF s = <<>> THEN TailOf(l) ELSE Through(LAMBDA max, e : IF Less(max, e) THEN e ELSE max, Head(s), Tail(s))
ListMin(k, l) == LET s == ElemsOf(k, l) IN
    IF s = <<>> THEN TailOf(l) ELSE Through(LAMBDA min, e : IF Less(e, min) THEN e ELSE min, Head(s), Tail(s))

----------------------------------------------------------------------------
(* Changing. *)

\* Mutant: the new element is not linked back from the one after it.
ListInsertHalf(k, before, e) ==
    [k EXCEPT ![e] = [prev |-> k[before].prev, next |-> before], ![k[before].prev].next = e]

ListInsert(k, before, e) ==
    [k EXCEPT ![e] = [prev |-> k[before].prev, next |-> before],
              ![k[before].prev].next = e, ![before].prev = e]
ListPushFront(k, l, e) == ListInsert(k, ListBegin(k, l), e)
ListPushBack(k, l, e) == ListInsert(k, TailOf(l), e)

ListRemove(k, e) == [k EXCEPT ![k[e].prev].next = k[e].next, ![k[e].next].prev = k[e].prev]

\* The elements from first on, up to last, go before another node.
ListSplice(k, before, first, last) ==
    IF first = last THEN k
    ELSE LET end == k[last].prev
             cut == [k EXCEPT ![k[first].prev].next = last, ![last].prev = k[first].prev]
         IN  [cut EXCEPT ![first].prev = cut[before].prev, ![end].next = before,
                         ![cut[before].prev].next = first, ![before].prev = end]

\* Every element swaps its links; then the ends of the list are swapped.
ListReverse(k, l) ==
    IF ListEmpty(k, l) THEN k
    ELSE LET turned == InSeq(ElemsOf(k, l))
             first == ListBack(k, l)
             last == ListBegin(k, l)
             swapped == [e \in DOMAIN k |-> IF e \in turned THEN [prev |-> k[e].next, next |-> k[e].prev] ELSE k[e]]
             ends == [swapped EXCEPT ![HeadOf(l)].next = first, ![TailOf(l)].prev = last]
         IN  [ends EXCEPT ![first].prev = ends[last].next, ![last].next = ends[first].prev]

FindEndOfRun(k, a, b) ==
    LET turn(s) == IF s # a /\ (s = b \/ Less(s, k[s].prev)) THEN s ELSE k[s].next
    IN  Loop(turn, k[a].next)

\* Mutant: an element of the second run goes before those it is equal to.
MergeTurnUnstable(s, b1) ==
    CASE s.a0 = s.a1b0 \/ s.a1b0 = b1 -> s
      [] s.a0 # s.a1b0 /\ s.a1b0 # b1 /\ Less(s.a0, s.a1b0) -> [s EXCEPT !.a0 = s.k[@].next]
      [] OTHER -> LET next == s.k[s.a1b0].next IN
                  [s EXCEPT !.k = ListSplice(@, s.a0, s.a1b0, next), !.a1b0 = next]

\* One turn of inplace_merge(), which merges a0 to a1b0 with a1b0 to b1.
MergeTurn(s, b1) ==
    CASE s.a0 = s.a1b0 \/ s.a1b0 = b1 -> s
      [] s.a0 # s.a1b0 /\ s.a1b0 # b1 /\ ~Less(s.a1b0, s.a0) -> [s EXCEPT !.a0 = s.k[@].next]
      [] OTHER -> LET next == s.k[s.a1b0].next IN
                  [s EXCEPT !.k = ListSplice(@, s.a0, s.a1b0, next), !.a1b0 = next]
InplaceMerge(k, a0, a1b0, b1) ==
    Loop(LAMBDA s : MergeTurn(s, b1), [k |-> k, a0 |-> a0, a1b0 |-> a1b0]).k

\* One pass of list_sort() over the list: it merges runs two by two.
SortPass(k, l) ==
    LET end == TailOf(l)
        turn(s) ==
            IF s.a0 = end THEN s
            ELSE LET a1b0 == FindEndOfRun(s.k, s.a0, end)
                     b1 == FindEndOfRun(s.k, a1b0, end)
                 IN  IF a1b0 = end THEN [s EXCEPT !.a0 = end, !.runs = @ + 1]
                     ELSE [k |-> InplaceMerge(s.k, s.a0, a1b0, b1), a0 |-> b1, runs |-> s.runs + 1]
    IN  Loop(turn, [k |-> k, a0 |-> ListBegin(k, l), runs |-> 0])
ListSort(k, l) ==
    Loop(LAMBDA s : IF s.runs > 1 THEN SortPass(s.k, l) ELSE s, [k |-> k, runs |-> 2]).k

ListInsertOrdered(k, l, e) ==
    LET turn(s) == IF s = TailOf(l) \/ Less(e, s) THEN s ELSE k[s].next
    IN  ListInsert(k, Loop(turn, ListBegin(k, l)), e)

ListUnique(k, l, dups) ==
    LET turn(s) ==
            LET next == s.k[s.elem].next IN
            CASE next = TailOf(l) -> s
              [] next # TailOf(l) /\ ~Less(s.elem, next) /\ ~Less(next, s.elem) ->
                    [s EXCEPT !.k = ListPushBack(ListRemove(@, next), dups, next)]
              [] OTHER -> [s EXCEPT !.elem = next]
    IN  IF ListEmpty(k, l) THEN k
        ELSE Loop(turn, [k |-> k, elem |-> ListBegin(k, l)]).k

----------------------------------------------------------------------------
(* The calls: none of an element that is in a list, none that list.c says  *)
(* is undefined.                                                           *)

InList(l) == InSeq(ElemsOf(links, l))
InLists(ls) == UNION {InList(l) : l \in ls}
IsSorted(s) == \A i \in 1..(Len(s) - 1) : ~Less(s[i + 1], s[i])
NodeAt(l, i) == IF i > ListSize(links, l) THEN TailOf(l) ELSE ElemsOf(links, l)[i]
Calls(call, k) == done' = call /\ links' = k

AllInit(ls) == [n \in Node |-> CASE n \in {HeadOf(l) : l \in ls} -> [prev |-> NULL, next |-> TailOf(n[2])]
                                 [] n \in {TailOf(l) : l \in ls} -> [prev |-> HeadOf(n[2]), next |-> NULL]
                                 [] OTHER -> Loose]

Put(ls) ==
    \E l \in ls, e \in Listable \ InLists(ls) :
        \/ Calls(<<"list_push_front", l, e>>, ListPushFront(links, l, e))
        \/ Calls(<<"list_push_back", l, e>>, ListPushBack(links, l, e))
        \/ IsSorted(ElemsOf(links, l)) /\ Calls(<<"list_insert_ordered", l, e>>, ListInsertOrdered(links, l, e))
        \/ \E x \in InList(l) : Calls(<<"list_insert", x, e>>, ListInsert(links, x, e))

Take(ls) ==
    \E l \in ls :
        \/ \E x \in InList(l) : Calls(<<"list_remove", x>>, ListRemove(links, x))
        \/ /\ ~ListEmpty(links, l)
           /\ \/ Calls(<<"list_pop_front", l, ListFront(links, l)>>, ListRemove(links, ListFront(links, l)))
              \/ Calls(<<"list_pop_back", l, ListBack(links, l)>>, ListRemove(links, ListBack(links, l)))

Splice(ls) ==
    \E l, m \in ls : \E i \in 1..(ListSize(links, l) + 1) : \E first, last \in 1..(ListSize(links, m) + 1) :
        /\ first <= last /\ (l = m => i \notin first..(last - 1))
        /\ Calls(<<"list_splice", l, i, m, first, last>>, ListSplice(links, NodeAt(l, i), NodeAt(m, first), NodeAt(m, last)))

Whole(ls) ==
    \E l \in ls :
        \/ Calls(<<"list_reverse", l>>, ListReverse(links, l))
        \/ Calls(<<"list_sort", l>>, ListSort(links, l))
        \/ \E dups \in ls \ {l} : Calls(<<"list_unique", l, dups>>, ListUnique(links, l, dups))

Query(ls) ==
    \E l \in ls :
        \/ Calls(<<"list_size", l, ListSize(links, l)>>, links)
        \/ Calls(<<"list_max", l, ListMax(links, l)>>, links)
        \/ Calls(<<"list_min", l, ListMin(links, l)>>, links)
        \/ /\ ~ListEmpty(links, l)
           /\ \/ Calls(<<"list_front", l, ListFront(links, l)>>, links)
              \/ Calls(<<"list_back", l, ListBack(links, l)>>, links)

ListNext(ls) == Put(ls) \/ Take(ls) \/ Splice(ls) \/ Whole(ls) \/ Query(ls)
lvars == <<links, done>>
ListSpec == links = AllInit(Lists) /\ done = <<>> /\ [][ListNext(Lists)]_lvars

----------------------------------------------------------------------------
(* Properties. *)

\* Every list of ls reads the same from both ends, and no element is in two
\* places: list_reverse() and list_splice() change links in an order that
\* must not read what they have changed (list.c:182-189, 314-317).
BothWays(ls) ==
    \A l \in ls :
        LET s == <<HeadOf(l)>> \o ElemsOf(links, l) \o <<TailOf(l)>> IN
        /\ \A i \in 2..Len(s) : links[s[i]].prev = s[i - 1]
        /\ \A i \in DOMAIN s : \A j \in 1..(i - 1) : s[i] # s[j]
        /\ \A m \in ls \ {l} : InList(l) \intersect InList(m) = {}
=======================================================================
