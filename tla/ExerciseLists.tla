------------------------- MODULE ExerciseLists -------------------------
(***************************************************************************)
(* The linked list, stack and queue exercises of Data-Structures: fourteen *)
(* programs, each a menu over lists, stacks and queues of integers, with   *)
(* the question functions as solved in tests/linked_list.c, stack.c and    *)
(* queue.c (the programs leave them empty for students).                   *)
(*                                                                         *)
(* Nodes are addresses of a heap, so that a node can be lost or freed      *)
(* twice.  A choice of the menu is one step; what it prints is the answer, *)
(* with the items it was computed from.  Stacks and queues are lists.      *)
(***************************************************************************)
EXTENDS Integers, Sequences, FiniteSets, SequencesExt, TLC

CONSTANTS Items,      \* the integers that are entered, positive
          Strings,    \* the expressions that are entered, of brackets
          MaxNodes    \* bound on the nodes allocated when an item is entered

VARIABLES
    program,   \* the program that runs, or "quit"
    mem,       \* the node at each allocated address
    lists,     \* ll, ll1 or s in 1, ll2, q or resultFrontList in 2, ...
    str,       \* str of Q7_C_SQ
    answer     \* what the last choice printed

listVars == <<program, mem, lists, str, answer>>

Nil == 0
Addresses == 1..(2 * MaxNodes)
EmptyList == [head |-> Nil, size |-> 0]
NoAnswer == [from |-> <<>>, given |-> 0, to |-> <<>>, ret |-> 0]

ListPrograms == {"Q1_A_LL", "Q2_A_LL", "Q3_A_LL", "Q4_A_LL", "Q5_A_LL",
                 "Q6_A_LL", "Q7_A_LL", "Q1_C_SQ", "Q2_C_SQ", "Q3_C_SQ",
                 "Q4_C_SQ", "Q5_C_SQ", "Q6_C_SQ", "Q7_C_SQ"}

----------------------------------------------------------------------------
(* The helpers that every program has a copy of.                           *)

\* The nodes from h on; one more than there are when the list is a cycle.
NodesFrom(m, h) ==
    LET node[i \in 1..(Cardinality(DOMAIN m) + 1)] ==
            IF i = 1 THEN h
            ELSE IF node[i - 1] \in DOMAIN m THEN m[node[i - 1]].next ELSE Nil
    IN  SelectSeq(node, LAMBDA a : a # Nil)

\* printList()
ItemsOf(m, l) == LET nodes == NodesFrom(m, l.head)
                 IN  [i \in DOMAIN nodes |-> m[nodes[i]].item]

FindNode(m, l, index) ==
    LET nodes == NodesFrom(m, l.head)
    IN  IF index + 1 \in DOMAIN nodes /\ index < l.size THEN nodes[index + 1]
        ELSE Nil

Malloc(m) == CHOOSE a \in Addresses \ DOMAIN m :
                \A b \in Addresses \ DOMAIN m : a <= b


InsertNode(m, l, index, value) ==
    LET new == Malloc(m)
        pre == FindNode(m, l, index - 1)
        longer(h) == [head |-> h, size |-> l.size + 1]
    IN  IF index \notin 0..(l.size + 1) THEN [m |-> m, l |-> l]
        ELSE IF l.head = Nil \/ index = 0
        THEN [m |-> m @@ (new :> [item |-> value, next |-> l.head]),
              l |-> longer(new)]
        ELSE IF pre = Nil THEN [m |-> m, l |-> l]
        ELSE [m |-> [m EXCEPT ![pre].next = new]
                    @@ (new :> [item |-> value, next |-> m[pre].next]),
              l |-> longer(l.head)]

FreeNodes(m, addresses) == [a \in DOMAIN m \ addresses |-> m[a]]

\* removeNode(l, 0), when the list is not empty: what pop() and dequeue() do.
RemoveHead(m, l) ==
    [m |-> FreeNodes(m, {l.head}),
     l |-> [head |-> m[l.head].next, size |-> l.size - 1]]

RemoveAllItems(m, ls) ==
    FreeNodes(m, UNION {Range(NodesFrom(m, ls[k].head)) : k \in DOMAIN ls})

\* enqueue() and push() of each item in turn.
EnqueueAll(m, l, items) ==
    FoldLeft(LAMBDA st, v : InsertNode(st.m, st.l, st.l.size, v),
             [m |-> m, l |-> l], items)
PushAll(m, l, items) ==
    FoldLeft(LAMBDA st, v : InsertNode(st.m, st.l, 0, v),
             [m |-> m, l |-> l], items)

\* pop() or dequeue(), n times.
RemoveFirsts(m, l, n) ==
    FoldLeft(LAMBDA st, i : RemoveHead(st.m, st.l), [m |-> m, l |-> l],
             [i \in 1..n |-> i])

----------------------------------------------------------------------------
(* The questions on linked lists.                                          *)

InsertSortedLL(m, l, item) ==
    LET items == ItemsOf(m, l)
        idx == Cardinality({i \in DOMAIN items :
                   \A j \in 1..i : items[j] < item})
        st == InsertNode(m, l, idx, item)
    IN  IF idx + 1 \in DOMAIN items /\ items[idx + 1] = item
        THEN [m |-> m, l |-> l, ret |-> -1]
        ELSE [m |-> st.m, l |-> st.l, ret |-> idx]

\* A turn of the loop of alternateMergeLinkedList(): second's item follows
\* first, and first goes past it.
MergeItem(st, i) ==
    IF st.first = Nil \/ st.second = Nil THEN st
    ELSE LET in == InsertNode(st.m, st.l1, 2 * i - 1, st.m[st.second].item)
             past == in.m[in.m[st.first].next].next
             out == RemoveHead(in.m, st.l2)
         IN  [m |-> out.m, l1 |-> in.l, l2 |-> out.l, first |-> past,
              second |-> out.l.head]

AlternateMergeLinkedList(m, l1, l2) ==
    FoldLeft(MergeItem, [m |-> m, l1 |-> l1, l2 |-> l2, first |-> l1.head,
                         second |-> l2.head],
             [i \in 1..l2.size |-> i])

\* A turn of the loop of moveOddItemsToBackLL() (r is 1) and of
\* moveEvenItemsToBackLL() (r is 0).
MoveTurn(r, st) ==
    LET next == st.m[st.cur].next
        cut == IF st.prev = Nil THEN st.m
               ELSE [st.m EXCEPT ![st.prev].next = next]
        linked == [cut EXCEPT ![st.tail].next = st.cur]
        ended == [linked EXCEPT ![st.cur].next = Nil]
    IN  IF st.m[st.cur].item % 2 = r
        THEN [m |-> ended, head |-> IF st.prev = Nil THEN next ELSE st.head,
              prev |-> st.prev, cur |-> next, tail |-> ended[st.tail].next]
        ELSE [st EXCEPT !.prev = st.cur, !.cur = next]

MoveItemsToBackLL(r, m, l) ==
    LET nodes == NodesFrom(m, l.head)
        start == [m |-> m, head |-> l.head, prev |-> Nil, cur |-> l.head,
                  tail |-> IF nodes = <<>> THEN Nil ELSE Last(nodes)]
        end == FoldLeft(LAMBDA st, i : MoveTurn(r, st), start, nodes)
    IN  IF Len(nodes) < 2 THEN [m |-> m, l |-> l]
        ELSE [m |-> end.m, l |-> [l EXCEPT !.head = end.head]]

FrontBackSplitLL(m, l, front, back) ==
    LET items == ItemsOf(m, l)
        half == (l.size + 1) \div 2
        one == EnqueueAll(m, front, SubSeq(items, 1, half))
        two == EnqueueAll(one.m, back, SubSeq(items, half + 1, Len(items)))
    IN  [m |-> two.m, front |-> one.l, back |-> two.l]

\* moveMaxToFront(&(ll.head)): the first of the greatest items.
MoveMaxToFront(m, l) ==
    LET nodes == NodesFrom(m, l.head)
        at == CHOOSE i \in DOMAIN nodes :
                 \A j \in DOMAIN nodes :
                    /\ m[nodes[j]].item <= m[nodes[i]].item
                    /\ m[nodes[j]].item = m[nodes[i]].item => i <= j
        max == nodes[at]
    IN  IF nodes = <<>> \/ at = 1 THEN [m |-> m, l |-> l]
        ELSE [m |-> [m EXCEPT ![nodes[at - 1]].next = m[max].next,
                              ![max].next = l.head],
              l |-> [l EXCEPT !.head = max]]

\* recursiveReverse(&(ll.head)): a call of recursiveListNode() for each node.
RecursiveReverse(m, l) ==
    LET end == FoldLeft(LAMBDA st, cur :
                   [m |-> [st.m EXCEPT ![cur].next = st.prev], prev |-> cur],
                   [m |-> m, prev |-> Nil], NodesFrom(m, l.head))
    IN  [m |-> end.m, l |-> [l EXCEPT !.head = end.prev]]

----------------------------------------------------------------------------
(* The questions on stacks and queues.                                     *)

\* createQueueFromLinkedList(), createStackFromLinkedList()
CreateQueue(m, l, q) ==
    LET emptied == RemoveFirsts(m, q, q.size)
    IN  EnqueueAll(emptied.m, emptied.l, ItemsOf(m, l))
CreateStack(m, l, s) ==
    LET emptied == RemoveFirsts(m, s, s.size)
    IN  PushAll(emptied.m, emptied.l, ItemsOf(m, l))

\* removeOddValues(): each item leaves the queue, and the even ones return.
RemoveOddValues(m, q) ==
    FoldLeft(LAMBDA st, i :
                LET item == st.m[st.l.head].item
                    out == RemoveHead(st.m, st.l)
                IN  IF item % 2 # 0 THEN out
                    ELSE InsertNode(out.m, out.l, out.l.size, item),
             [m |-> m, l |-> q], [i \in 1..q.size |-> i])

\* The items popped from one stack or queue go to a second one, and back.
ThroughStack(m, l, items) ==
    LET emptied == RemoveFirsts(m, l, l.size)
        tmp == PushAll(emptied.m, EmptyList, items)
    IN  [back |-> ItemsOf(tmp.m, tmp.l), l |-> emptied.l,
         m |-> RemoveFirsts(tmp.m, tmp.l, tmp.l.size).m]

RemoveEvenValues(m, s) ==
    LET st == ThroughStack(m, s, SelectSeq(ItemsOf(m, s),
                                           LAMBDA x : x % 2 # 0))
    IN  PushAll(st.m, st.l, st.back)

ReverseQueue(m, q) ==
    LET st == ThroughStack(m, q, ItemsOf(m, q))
    IN  EnqueueAll(st.m, st.l, st.back)

\* recursiveReverseQueue(): the items wait on the C stack.
RecursiveReverseQueue(m, q) ==
    EnqueueAll(RemoveFirsts(m, q, q.size).m, EmptyList,
               Reverse(ItemsOf(m, q)))

\* Items popped two at a time go to tmp up to the first pair that is not
\* consecutive; the function returns there, and tmp is lost.
IsStackPairwiseConsecutive(m, s) ==
    LET items == ItemsOf(m, s)
        Pair(k) == items[2 * k - 1] - items[2 * k] \in {-1, 1}
        good == Cardinality({k \in 1..(s.size \div 2) :
                    \A j \in 1..k : Pair(j)})
        popped == RemoveFirsts(m, s, 2 * good + 2)
    IN  IF s.size % 2 = 1 THEN [m |-> m, l |-> s, ret |-> 0]
        ELSE IF 2 * good = s.size
        THEN LET st == ThroughStack(m, s, items)
                 end == PushAll(st.m, st.l, st.back)
             IN  [m |-> end.m, l |-> end.l, ret |-> 1]
        ELSE [m |-> PushAll(popped.m, EmptyList, SubSeq(items, 1, 2 * good)).m,
              l |-> popped.l, ret |-> 0]

\* removeUntilStack()
RemoveUntil(m, s, value) ==
    LET items == ItemsOf(m, s)
        n == Cardinality({i \in DOMAIN items :
                 \A j \in 1..i : items[j] # value})
    IN  RemoveFirsts(m, s, n)

Closing(open) == IF open = "(" THEN ")" ELSE "]"

\* A character of balanced(); the function returns at one that fails.
BalanceTurn(st, c) ==
    IF st.failed THEN st
    ELSE IF c \in {"(", "["}
    THEN LET in == InsertNode(st.m, st.l, 0, c)
         IN  [st EXCEPT !.m = in.m, !.l = in.l]
    ELSE IF st.l.head = Nil \/ Closing(st.m[st.l.head].item) # c
    THEN [st EXCEPT !.failed = TRUE]
    ELSE LET out == RemoveHead(st.m, st.l)
         IN  [st EXCEPT !.m = out.m, !.l = out.l]

Balanced(m, expression) ==
    FoldLeft(BalanceTurn, [m |-> m, l |-> EmptyList, failed |-> FALSE],
             expression)

----------------------------------------------------------------------------
(* The programs.                                                           *)

NoLists == [k \in 1..3 |-> EmptyList]

ListInit ==
    /\ program \in ListPrograms
    /\ mem = << >>
    /\ lists = NoLists
    /\ str \in IF program = "Q7_C_SQ" THEN Strings ELSE {<<>>}
    /\ answer = NoAnswer

ListIdle ==
    /\ program = "quit" /\ mem = << >> /\ lists = NoLists
    /\ str = <<>> /\ answer = NoAnswer

Choice(m, ls, a) ==
    mem' = m /\ lists' = ls /\ answer' = a /\ UNCHANGED <<program, str>>

\* A question whose answer is printed before all lists are emptied.
Asked(m, ls, a) == Choice(RemoveAllItems(m, ls), NoLists, a)

Quit ==
    /\ mem' = RemoveAllItems(mem, lists)
    /\ lists' = NoLists
    /\ program' = "quit"
    /\ answer' = NoAnswer
    /\ UNCHANGED str

\* Choice 1 (or 2): an item enters list k, at its end or at its front.
Entered(st, k) == Choice(st.m, [lists EXCEPT ![k] = st.l], NoAnswer)
CanEnter == Cardinality(DOMAIN mem) < MaxNodes
Enqueue(k) == CanEnter /\ \E i \in Items :
    Entered(InsertNode(mem, lists[k], lists[k].size, i), k)
Push(k) == CanEnter /\ \E i \in Items : Entered(InsertNode(mem, lists[k], 0, i), k)

\* The result of a question on list k alone.
Changed(k, st, given, ret) ==
    Asked(st.m, [lists EXCEPT ![k] = st.l],
          [from |-> <<ItemsOf(mem, lists[k])>>, given |-> given,
           to |-> <<ItemsOf(st.m, st.l)>>, ret |-> ret])

Q1_A_LL ==
    /\ program = "Q1_A_LL"
    /\ \/ CanEnter /\ \E i \in Items :
            LET st == InsertSortedLL(mem, lists[1], i)
            IN  Choice(st.m, [lists EXCEPT ![1] = st.l],
                       [from |-> <<ItemsOf(mem, lists[1])>>, given |-> i,
                        to |-> <<ItemsOf(st.m, st.l)>>, ret |-> st.ret])
       \/ Asked(mem, lists, NoAnswer)
       \/ Quit

Q2_A_LL ==
    /\ program = "Q2_A_LL"
    /\ \/ Enqueue(1) \/ Enqueue(2)
       \/ LET st == AlternateMergeLinkedList(mem, lists[1], lists[2])
          IN  Asked(st.m, [lists EXCEPT ![1] = st.l1, ![2] = st.l2],
                    [from |-> <<ItemsOf(mem, lists[1]), ItemsOf(mem, lists[2])>>,
                     given |-> 0, ret |-> 0,
                     to |-> <<ItemsOf(st.m, st.l1), ItemsOf(st.m, st.l2)>>])
       \/ Quit

Q3_A_LL ==
    /\ program = "Q3_A_LL"
    /\ \/ Enqueue(1)
       \/ Changed(1, MoveItemsToBackLL(1, mem, lists[1]), 0, 0)
       \/ Quit

Q4_A_LL ==
    /\ program = "Q4_A_LL"
    /\ \/ Enqueue(1)
       \/ Changed(1, MoveItemsToBackLL(0, mem, lists[1]), 0, 0)
       \/ Quit

\* The loop tests c before it is set: the program may end at once.
Q5_A_LL ==
    /\ program = "Q5_A_LL"
    /\ \/ Enqueue(1)
       \/ LET st == FrontBackSplitLL(mem, lists[1], lists[2], lists[3])
          IN  Asked(st.m, [lists EXCEPT ![2] = st.front, ![3] = st.back],
                    [from |-> <<ItemsOf(mem, lists[1])>>, given |-> 0, ret |-> 0,
                     to |-> <<ItemsOf(st.m, st.front), ItemsOf(st.m, st.back)>>])
       \/ Quit

Q6_A_LL ==
    /\ program = "Q6_A_LL"
    /\ Enqueue(1) \/ Changed(1, MoveMaxToFront(mem, lists[1]), 0, 0) \/ Quit

Q7_A_LL ==
    /\ program = "Q7_A_LL"
    /\ Enqueue(1) \/ Changed(1, RecursiveReverse(mem, lists[1]), 0, 0) \/ Quit

Q1_C_SQ ==
    /\ program = "Q1_C_SQ"
    /\ \/ Enqueue(1)
       \/ Entered(CreateQueue(mem, lists[1], lists[2]), 2)
       \/ Changed(2, RemoveOddValues(mem, lists[2]), 0, 0)
       \/ Quit

Q2_C_SQ ==
    /\ program = "Q2_C_SQ"
    /\ \/ Enqueue(1)
       \/ Entered(CreateStack(mem, lists[1], lists[2]), 2)
       \/ Changed(2, RemoveEvenValues(mem, lists[2]), 0, 0)
       \/ Quit

Q3_C_SQ ==
    /\ program = "Q3_C_SQ"
    /\ \/ Push(1)
       \/ LET st == IsStackPairwiseConsecutive(mem, lists[1])
          IN  Changed(1, st, 0, st.ret)
       \/ Quit

Q4_C_SQ ==
    /\ program = "Q4_C_SQ"
    /\ Enqueue(1) \/ Changed(1, ReverseQueue(mem, lists[1]), 0, 0) \/ Quit

Q5_C_SQ ==
    /\ program = "Q5_C_SQ"
    /\ \/ Enqueue(1)
       \/ Changed(1, RecursiveReverseQueue(mem, lists[1]), 0, 0)
       \/ Quit

Q6_C_SQ ==
    /\ program = "Q6_C_SQ"
    /\ \/ Push(1)
       \/ \E i \in Items : Changed(1, RemoveUntil(mem, lists[1], i), i, 0)
       \/ Quit

\* balanced() keeps its stack to itself: what is left on it is lost.  (The
\* question is not asked again then: a bound.)
Q7_C_SQ ==
    /\ program = "Q7_C_SQ"
    /\ \/ \E s \in Strings :
            str' = s /\ answer' = NoAnswer /\ UNCHANGED <<program, mem, lists>>
       \/ LET st == Balanced(mem, str)
          IN  /\ mem = << >>
              /\ Choice(st.m, lists,
                   [from |-> <<str>>, given |-> 0, to |-> <<>>,
                    ret |-> IF st.failed \/ st.l.head # Nil THEN 0 ELSE 1])
       \/ Quit

ListNext ==
    \/ Q1_A_LL \/ Q2_A_LL \/ Q3_A_LL \/ Q4_A_LL \/ Q5_A_LL \/ Q6_A_LL
    \/ Q7_A_LL \/ Q1_C_SQ \/ Q2_C_SQ \/ Q3_C_SQ \/ Q4_C_SQ \/ Q5_C_SQ
    \/ Q6_C_SQ \/ Q7_C_SQ

----------------------------------------------------------------------------
(* What is true of them.                                                   *)

\* Each list has the nodes that its size says, of its own; nodes in no list
\* remain only where a question function returns early or loses one.
ListsOwnNodes ==
    LET nodes == [k \in 1..3 |-> NodesFrom(mem, lists[k].head)]
    IN  /\ \A k \in 1..3 :
              /\ lists[k].size = Len(nodes[k]) /\ IsInjective(nodes[k])
              /\ \A a \in Range(nodes[k]) : a \in DOMAIN mem
              /\ \A j \in 1..3 \ {k} : Range(nodes[j]) \cap Range(nodes[k]) = {}
        /\ program \notin {"Q3_A_LL", "Q4_A_LL", "Q3_C_SQ", "Q7_C_SQ", "quit"} =>
              DOMAIN mem = UNION {Range(nodes[k]) : k \in 1..3}

Odd(s) == SelectSeq(s, LAMBDA x : x % 2 # 0)
Even(s) == SelectSeq(s, LAMBDA x : x % 2 = 0)

\* The items to move go behind the others, each in their order; a last node
\* that is the only one to move, and not the only one, is lost.
MovedBack(s, stay, move) ==
    IF Len(s) > 1 /\ move = <<Last(s)>> THEN stay ELSE stay \o move

\* Each bracket that opens is closed by one of its kind.
BalancedString(s) ==
    LET n == Len(s)
        ok[i \in 1..(n + 1), j \in 0..n] ==
            \/ i > j
            \/ \E k \in (i + 1)..j :
                  /\ <<s[i], s[k]>> \in {<<"(", ")">>, <<"[", "]">>}
                  /\ ok[i + 1, k - 1] /\ ok[k + 1, j]
    IN  ok[1, n]

(***************************************************************************)
(* The answers are those that the questions ask for, but for the node that *)
(* moveOddItemsToBackLL() and moveEvenItemsToBackLL() lose.                *)
(***************************************************************************)
ListAnswers ==
    LET a == answer
        s == a.from[1]
        n == Len(s)
        half == (n + 1) \div 2
        merged == [i \in 1..(2 * Min({n, Len(a.from[2])})) |->
                      a.from[IF i % 2 = 1 THEN 1 ELSE 2][(i + 1) \div 2]]
    IN  answer # NoAnswer =>
          CASE program = "Q1_A_LL" ->
                 /\ \A i \in 1..(Len(a.to[1]) - 1) : a.to[1][i] < a.to[1][i + 1]
                 /\ Range(a.to[1]) = Range(s) \cup {a.given}
                 /\ a.ret = IF a.given \in Range(s) THEN -1
                            ELSE Cardinality({x \in Range(s) : x < a.given})
            [] program = "Q2_A_LL" ->
                 LET m == Len(merged) \div 2
                 IN  a.to = <<merged \o SubSeq(s, m + 1, n),
                              SubSeq(a.from[2], m + 1, Len(a.from[2]))>>
            [] program = "Q3_A_LL" -> a.to[1] = MovedBack(s, Even(s), Odd(s))
            [] program = "Q4_A_LL" -> a.to[1] = MovedBack(s, Odd(s), Even(s))
            [] program = "Q5_A_LL" ->
                 a.to = <<SubSeq(s, 1, half), SubSeq(s, half + 1, n)>>
            [] program = "Q6_A_LL" ->
                 IF n = 0 THEN a.to[1] = s
                 ELSE LET k == CHOOSE i \in DOMAIN s : s[i] = Max(Range(s))
                                  /\ \A j \in 1..(i - 1) : s[j] # s[i]
                      IN  a.to[1] = <<s[k]>> \o RemoveAt(s, k)
            [] program \in {"Q7_A_LL", "Q4_C_SQ", "Q5_C_SQ"} ->
                 a.to[1] = Reverse(s)
            [] program = "Q1_C_SQ" -> a.to[1] = Even(s)
            [] program = "Q2_C_SQ" -> a.to[1] = Odd(s)
            [] program = "Q3_C_SQ" ->
                 /\ a.ret = 1 <=> /\ n % 2 = 0
                                  /\ \A i \in 1..(n \div 2) :
                                        s[2 * i - 1] - s[2 * i] \in {-1, 1}
                 /\ a.ret = 1 => a.to[1] = s
            [] program = "Q6_C_SQ" ->
                 a.to[1] = IF a.given \notin Range(s) THEN <<>>
                           ELSE SubSeq(s, Min({i \in DOMAIN s : s[i] = a.given}), n)
            [] program = "Q7_C_SQ" -> a.ret = 1 <=> BalancedString(s)
=============================================================================
