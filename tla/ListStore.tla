--------------------------- MODULE ListStore ---------------------------
(***************************************************************************)
(* What lib/kernel/list.c promises: what a call does to the sequences of   *)
(* elements that the lists are, and what it returns.  done is the last     *)
(* call, <<name, arguments, what it returned>>.                            *)
(***************************************************************************)
EXTENDS Naturals, Sequences, FiniteSets
LOCAL INSTANCE SequencesExt

CONSTANTS Value, Lists
VARIABLES seqs, done

Less(a, b) == Value[a] < Value[b]
Place(s, e) == CHOOSE i \in DOMAIN s : s[i] = e
InsertBefore(s, i, t) == SubSeq(s, 1, i - 1) \o t \o SubSeq(s, i, Len(s))
Cut(s, first, last) == SubSeq(s, 1, first - 1) \o SubSeq(s, last, Len(s))
Holder(s, e) == CHOOSE l \in Lists : \E i \in DOMAIN s[l] : s[l][i] = e

\* Elements first..last - 1 of m go before place i of l, outside of them.
Spliced(s, l, i, m, first, last) ==
    LET moved == SubSeq(s[m], first, last - 1)
        rest == Cut(s[m], first, last)
    IN  IF l # m THEN [s EXCEPT ![m] = rest, ![l] = InsertBefore(@, i, moved)]
        ELSE [s EXCEPT ![l] = InsertBefore(rest, IF i <= first THEN i ELSE i - Len(moved), moved)]

\* The one permutation of s that is sorted and keeps equal elements in order.
StableSort(s) ==
    LET rank(i) == Cardinality({j \in DOMAIN s : Less(s[j], s[i]) \/ (~Less(s[i], s[j]) /\ j <= i)})
    IN  [n \in DOMAIN s |-> s[CHOOSE i \in DOMAIN s : rank(i) = n]]

\* The elements of s at the places S.
Pick(s, S) == [n \in 1..Cardinality(S) |-> s[CHOOSE i \in S : Cardinality({j \in S : j <= i}) = n]]
Repeats(s) == {i \in 2..Len(s) : Value[s[i]] = Value[s[i - 1]]}

\* e is the first element of s that none is better than, or the tail.
IsFirst(e, l, s, better(_, _)) ==
    IF s = <<>> THEN e = <<"tail", l>>
    ELSE \E i \in DOMAIN s : e = s[i] /\ \A j \in DOMAIN s : ~better(s[j], e) /\ (~better(e, s[j]) => i <= j)

\* The call takes the sequences s to t.
Effect(s, call, t) ==
    LET name == call[1]
        l == call[2]
        IN  \/ name = "list_push_front" /\ t = [s EXCEPT ![l] = <<call[3]>> \o @]
            \/ name = "list_push_back" /\ t = [s EXCEPT ![l] = Append(@, call[3])]
            \/ /\ name = "list_insert_ordered"
               /\ t = [s EXCEPT ![l] = InsertBefore(@, Cardinality({i \in DOMAIN @ : ~Less(call[3], @[i])}) + 1, <<call[3]>>)]
            \/ name = "list_insert" /\ t = [s EXCEPT ![Holder(s, l)] = InsertBefore(@, Place(@, l), <<call[3]>>)]
            \/ name = "list_remove" /\ t = [s EXCEPT ![Holder(s, l)] = Cut(@, Place(@, l), Place(@, l) + 1)]
            \/ name = "list_pop_front" /\ call[3] = Head(s[l]) /\ t = [s EXCEPT ![l] = Tail(@)]
            \/ name = "list_pop_back" /\ t = [s EXCEPT ![l] = SubSeq(@, 1, Len(@) - 1)] /\ call[3] = s[l][Len(s[l])]
            \/ name = "list_splice" /\ t = Spliced(s, l, call[3], call[4], call[5], call[6])
            \/ name = "list_reverse" /\ t = [s EXCEPT ![l] = Reverse(@)]
            \/ name = "list_sort" /\ t = [s EXCEPT ![l] = StableSort(@)]
            \/ name = "list_unique" /\ t = [s EXCEPT ![l] = Pick(@, DOMAIN @ \ Repeats(@)),
                                                     ![call[3]] = @ \o Pick(s[l], Repeats(s[l]))]
            \/ t = s /\ \/ name = "list_size" /\ call[3] = Len(s[l])
                        \/ name = "list_max" /\ IsFirst(call[3], l, s[l], LAMBDA a, b : Less(b, a))
                        \/ name = "list_min" /\ IsFirst(call[3], l, s[l], Less)
                        \/ name = "list_front" /\ call[3] = Head(s[l])
                        \/ name = "list_back" /\ call[3] = s[l][Len(s[l])]

Init == seqs = [l \in Lists |-> <<>>]
Spec == Init /\ [][Effect(seqs, done', seqs')]_<<seqs, done>>
=======================================================================
