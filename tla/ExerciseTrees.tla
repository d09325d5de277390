------------------------- MODULE ExerciseTrees -------------------------
(***************************************************************************)
(* The binary tree and binary search tree exercises of Data-Structures:    *)
(* twelve programs, each a menu over one or two trees, with the question   *)
(* functions as solved in tests/binary_tree.c and binary_search_tree.c,    *)
(* and the deletion from a search tree that only the tests call.           *)
(*                                                                         *)
(* createTree() is a loop over a stack of nodes that reads two children at *)
(* each turn: a turn is a step.  The iterative traversals are loops over a *)
(* stack or a queue inside a choice of the menu, folded over their turns.  *)
(***************************************************************************)
EXTENDS Integers, Sequences, FiniteSets, SequencesExt, TLC

CONSTANTS BTItems,       \* the integers entered into binary trees
          Keys,          \* and into binary search trees
          MaxTreeNodes   \* bound on the nodes of all trees when one is added

VARIABLES
    tprogram,  \* the program that runs, or "quit"
    tmem,      \* the node at each allocated address
    roots,     \* root1 (or root) and root2
    creating,  \* the tree that createTree() reads, or 0
    tstack,    \* stk of createTree(), its top first
    tanswer    \* what the last choice printed or did

treeVars == <<tprogram, tmem, roots, creating, tstack, tanswer>>

Null == 0
BTPrograms == {"Q1_E_BT", "Q2_E_BT", "Q3_E_BT", "Q4_E_BT", "Q6_E_BT",
               "Q7_E_BT", "Q8_E_BT"}
BSTPrograms == {"Q1_F_BST", "Q2_F_BST", "Q3_F_BST", "Q4_F_BST", "Q5_F_BST",
                "test_binary_search_tree"}

----------------------------------------------------------------------------
(* Trees in memory.                                                        *)

Nodes(m) == DOMAIN m \cup {Null}

NewNode(m) == CHOOSE a \in 1..(Cardinality(DOMAIN m) + 1) :
                 /\ a \notin DOMAIN m
                 /\ \A b \in 1..(a - 1) : b \in DOMAIN m

\* createBTNode() and the malloc() of insertBSTNode(): a leaf.
CreateBTNode(m, item) ==
    m @@ (NewNode(m) :> [item |-> item, left |-> Null, right |-> Null])

\* The items that a recursive function prints: before, between or after
\* those of the children.
PreOrder(m) == LET f[n \in Nodes(m)] ==
                      IF n = Null THEN <<>>
                      ELSE <<n>> \o f[m[n].left] \o f[m[n].right]
               IN  f
InOrder(m) == LET f[n \in Nodes(m)] ==
                     IF n = Null THEN <<>>
                     ELSE f[m[n].left] \o <<n>> \o f[m[n].right]
              IN  f
PostOrder(m) == LET f[n \in Nodes(m)] ==
                       IF n = Null THEN <<>>
                       ELSE f[m[n].left] \o f[m[n].right] \o <<n>>
                IN  f

ItemsAt(m, nodes) == [i \in DOMAIN nodes |-> m[nodes[i]].item]

\* removeAll(&root)
RemoveAll(m, root) ==
    [a \in DOMAIN m \ Range(PostOrder(m)[root]) |-> m[a]]

----------------------------------------------------------------------------
(* The questions on binary trees, as recursive functions of nodes.         *)

Identical(m, root1, root2) ==
    LET f[n1 \in Nodes(m), n2 \in Nodes(m)] ==
            IF n1 = Null \/ n2 = Null THEN n1 = n2
            ELSE /\ m[n1].item = m[n2].item
                 /\ f[m[n1].left, m[n2].left] /\ f[m[n1].right, m[n2].right]
    IN  f[root1, root2]

MaxHeight(m) ==
    LET f[n \in Nodes(m)] ==
            IF n = Null THEN -1
            ELSE LET l == f[m[n].left]
                     r == f[m[n].right]
                 IN  (IF l > r THEN l ELSE r) + 1
    IN  f

CountOneChildNodes(m, root) ==
    LET f[n \in Nodes(m)] ==
            IF n = Null \/ (m[n].left = Null /\ m[n].right = Null) THEN 0
            ELSE f[m[n].left] + f[m[n].right]
                 + IF Null \in {m[n].left, m[n].right} THEN 1 ELSE 0
    IN  f[root]

SumOfOddNodes(m, root) ==
    LET f[n \in Nodes(m)] ==
            IF n = Null THEN 0
            ELSE (IF m[n].item % 2 # 0 THEN m[n].item ELSE 0)
                 + f[m[n].left] + f[m[n].right]
    IN  f[root]

PrintSmallerValues(m, root, value) ==
    SelectSeq(ItemsAt(m, PreOrder(m)[root]), LAMBDA x : x < value)

SmallestValue(m, root) ==
    LET least(x, y) == IF x > y THEN y ELSE x
        f[n \in Nodes(m)] ==
            IF n = Null THEN 1000000
            ELSE least(m[n].item, least(f[m[n].left], f[m[n].right]))
    IN  f[root]

HasGreatGrandchild(m, root) ==
    ItemsAt(m, SelectSeq(PostOrder(m)[root], LAMBDA n : MaxHeight(m)[n] >= 3))

----------------------------------------------------------------------------
(* The questions on binary search trees, as loops over a stack or a queue. *)

\* insertBSTNode(&root, value): down to the empty link the value belongs at.
InsertBSTNode(m, root, value) ==
    LET new == NewNode(m)
        f[n \in DOMAIN m] ==
            LET side == IF value < m[n].item THEN "left" ELSE "right"
            IN  IF value = m[n].item THEN m
                ELSE IF m[n][side] # Null THEN f[m[n][side]]
                ELSE [CreateBTNode(m, value) EXCEPT ![n][side] = new]
    IN  IF root = Null THEN [m |-> CreateBTNode(m, value), root |-> new]
        ELSE [m |-> f[root], root |-> root]

\* removeNodeFromTree(root, value): a node with two children takes the item
\* of the least node on its right, and that node goes instead.
RemoveNodeFromTree(m, root, value) ==
    LET least[n \in DOMAIN m] ==
            IF m[n].left = Null THEN n ELSE least[m[n].left]
        at == {n \in Range(PreOrder(m)[root]) : m[n].item = value}
        node == CHOOSE n \in at : TRUE
        two == m[node].left # Null /\ m[node].right # Null
        gone == IF two THEN least[m[node].right] ELSE node
        child == IF m[gone].left # Null THEN m[gone].left ELSE m[gone].right
        link(n) == IF n = gone THEN child ELSE n
        kept == [n \in DOMAIN m \ {gone} |->
                    [item |-> IF n = node THEN m[gone].item ELSE m[n].item,
                     left |-> link(m[n].left), right |-> link(m[n].right)]]
    IN  IF at = {} THEN [m |-> m, root |-> root]
        ELSE [m |-> kept, root |-> link(root)]

\* So many turns of a loop, from start; each of its turns that finds its
\* condition false changes nothing.
Times(m, k) == [i \in 1..(k * Cardinality(DOMAIN m)) |-> i]

LevelOrderTraversal(m, root) ==
    LET Turn(st, i) ==
            IF st.q = <<>> THEN st
            ELSE LET n == Head(st.q)
                 IN  [out |-> Append(st.out, m[n].item),
                      q |-> Tail(st.q) \o SelectSeq(<<m[n].left, m[n].right>>,
                                                    LAMBDA c : c # Null)]
    IN  FoldLeft(Turn, [q |-> IF root = Null THEN <<>> ELSE <<root>>,
                        out |-> <<>>], Times(m, 1)).out

\* The loops "while (cur != NULL) { push(&s, cur); cur = cur->left; }"
PushLefts(m, s, cur) ==
    LET spine[n \in Nodes(m)] ==
            IF n = Null THEN <<>> ELSE Append(spine[m[n].left], n)
    IN  spine[cur] \o s

\* inOrderIterative() and, line for line, preOrderIterative().
InOrderIterative(m, root) ==
    LET Turn(st, i) ==
            IF st.cur = Null /\ st.s = <<>> THEN st
            ELSE LET s == PushLefts(m, st.s, st.cur)
                 IN  [s |-> Tail(s), cur |-> m[Head(s)].right,
                      out |-> Append(st.out, m[Head(s)].item)]
    IN  FoldLeft(Turn, [s |-> <<>>, cur |-> root, out |-> <<>>],
                 Times(m, 1)).out

PreOrderIterative(m, root) == InOrderIterative(m, root)

PostOrderIterativeS1(m, root) ==
    LET Turn(st, i) ==
            IF st.cur = Null /\ st.s = <<>> THEN st
            ELSE LET s == PushLefts(m, st.s, st.cur)
                     p == Head(s)
                 IN  IF m[p].right \notin {Null, st.lastVisited}
                     THEN [st EXCEPT !.s = s, !.cur = m[p].right]
                     ELSE [s |-> Tail(s), cur |-> Null, lastVisited |-> p,
                           out |-> Append(st.out, m[p].item)]
    IN  FoldLeft(Turn, [s |-> <<>>, cur |-> root, lastVisited |-> Null,
                        out |-> <<>>], Times(m, 2)).out

PostOrderIterativeS2(m, root) ==
    LET Turn(st, i) ==
            IF st.s1 = <<>> THEN st
            ELSE LET n == Head(st.s1)
                 IN  [s2 |-> <<n>> \o st.s2,
                      s1 |-> SelectSeq(<<m[n].right, m[n].left>>,
                                       LAMBDA c : c # Null) \o Tail(st.s1)]
        end == FoldLeft(Turn, [s1 |-> IF root = Null THEN <<>> ELSE <<root>>,
                               s2 |-> <<>>], Times(m, 1))
    IN  ItemsAt(m, end.s2)

----------------------------------------------------------------------------
(* The programs.                                                           *)

NothingPrinted == [asked |-> FALSE, given |-> 0, out |-> <<>>, ret |-> 0,
                   mem |-> << >>, roots |-> <<Null, Null>>, to |-> <<>>]

TreeStart(programs) ==
    /\ tprogram \in programs
    /\ tmem = << >>
    /\ roots = <<Null, Null>>
    /\ creating = 0 /\ tstack = <<>>
    /\ tanswer = NothingPrinted

TreeInit == TreeStart(BTPrograms \cup BSTPrograms)
TreeIdle == TreeStart({"quit"})

Menu == creating = 0

\* createTree(): its root, if an integer is read.  (Before it, removeAll().)
CreateTree(k) ==
    LET m == RemoveAll(tmem, roots[k])
    IN  /\ Menu
        /\ tanswer' = NothingPrinted
        /\ \/ /\ tmem' = m
              /\ roots' = [roots EXCEPT ![k] = Null]
              /\ UNCHANGED <<creating, tstack>>
           \/ \E item \in BTItems :
                 /\ Cardinality(DOMAIN m) < MaxTreeNodes
                 /\ tmem' = CreateBTNode(m, item)
                 /\ roots' = [roots EXCEPT ![k] = NewNode(m)]
                 /\ creating' = k
                 /\ tstack' = <<NewNode(m)>>
        /\ UNCHANGED tprogram

\* A child that is read, or no integer.
ReadChild(m, n, side) ==
    {m} \cup {[CreateBTNode(m, item) EXCEPT ![n][side] = NewNode(m)] :
                 item \in {i \in BTItems : Cardinality(DOMAIN m) < MaxTreeNodes}}

\* A turn of the loop of createTree(); with the stack empty it returns.
CreateChildren ==
    /\ creating # 0
    /\ LET temp == Head(tstack)
       IN  \E m1 \in ReadChild(tmem, temp, "left") :
           \E m2 \in ReadChild(m1, temp, "right") :
              /\ tmem' = m2
              /\ tstack' = SelectSeq(<<m2[temp].left, m2[temp].right>>,
                                     LAMBDA n : n # Null) \o Tail(tstack)
              /\ creating' = IF tstack' = <<>> THEN 0 ELSE creating
    /\ UNCHANGED <<tprogram, roots, tanswer>>

\* A question, after which the trees are removed.
Question(given, out, ret) ==
    /\ Menu
    /\ tanswer' = [NothingPrinted EXCEPT !.asked = TRUE, !.given = given,
                       !.out = out, !.ret = ret, !.mem = tmem, !.roots = roots]
    /\ tmem' = RemoveAll(RemoveAll(tmem, roots[1]), roots[2])
    /\ roots' = <<Null, Null>>
    /\ UNCHANGED <<creating, tstack>>

QuitTrees ==
    /\ Menu
    /\ tprogram' = "quit"
    /\ tmem' = RemoveAll(RemoveAll(tmem, roots[1]), roots[2])
    /\ roots' = <<Null, Null>>
    /\ tanswer' = NothingPrinted
    /\ UNCHANGED <<creating, tstack>>

Q1_E_BT ==
    /\ tprogram = "Q1_E_BT"
    /\ \/ CreateTree(1) \/ CreateTree(2) \/ CreateChildren \/ QuitTrees
       \/ /\ Question(0, <<>>, IF Identical(tmem, roots[1], roots[2]) THEN 1 ELSE 0)
          /\ UNCHANGED tprogram

\* The height goes into c, which the loop of the menu tests: the program ends
\* after a tree of one node.
Q2_E_BT ==
    /\ tprogram = "Q2_E_BT"
    /\ \/ CreateTree(1) \/ CreateChildren \/ QuitTrees
       \/ LET c == MaxHeight(tmem)[roots[1]]
          IN  /\ Question(0, <<>>, c)
              /\ tprogram' = IF c = 0 THEN "quit" ELSE tprogram

Q3_E_BT ==
    /\ tprogram = "Q3_E_BT"
    /\ \/ CreateTree(1) \/ CreateChildren \/ QuitTrees
       \/ /\ Question(0, <<>>, CountOneChildNodes(tmem, roots[1]))
          /\ UNCHANGED tprogram

Q4_E_BT ==
    /\ tprogram = "Q4_E_BT"
    /\ \/ CreateTree(1) \/ CreateChildren \/ QuitTrees
       \/ /\ Question(0, <<>>, SumOfOddNodes(tmem, roots[1]))
          /\ UNCHANGED tprogram

Q6_E_BT ==
    /\ tprogram = "Q6_E_BT"
    /\ \/ CreateTree(1) \/ CreateChildren \/ QuitTrees
       \/ \E value \in BTItems :
             /\ Question(value, PrintSmallerValues(tmem, roots[1], value), 0)
             /\ UNCHANGED tprogram

Q7_E_BT ==
    /\ tprogram = "Q7_E_BT"
    /\ \/ CreateTree(1) \/ CreateChildren \/ QuitTrees
       \/ /\ Question(0, <<>>, SmallestValue(tmem, roots[1]))
          /\ UNCHANGED tprogram

Q8_E_BT ==
    /\ tprogram = "Q8_E_BT"
    /\ \/ CreateTree(1) \/ CreateChildren \/ QuitTrees
       \/ /\ Question(0, HasGreatGrandchild(tmem, roots[1]), 0)
          /\ UNCHANGED tprogram

\* A value goes into the search tree, or out of it.
Searched(st, value) ==
    /\ tmem' = st.m
    /\ roots' = [roots EXCEPT ![1] = st.root]
    /\ tanswer' = [NothingPrinted EXCEPT
                     !.given = value,
                     !.out = ItemsAt(tmem, InOrder(tmem)[roots[1]]),
                     !.to = ItemsAt(st.m, InOrder(st.m)[st.root])]
    /\ UNCHANGED <<tprogram, creating, tstack>>

Insert == /\ Cardinality(DOMAIN tmem) < MaxTreeNodes
          /\ \E i \in Keys : Searched(InsertBSTNode(tmem, roots[1], i), i)

\* A traversal leaves the tree as it is.
Traversal(out) ==
    /\ tanswer' = [NothingPrinted EXCEPT !.asked = TRUE, !.out = out,
                       !.mem = tmem, !.roots = roots]
    /\ UNCHANGED <<tprogram, tmem, roots, creating, tstack>>

Q1_F_BST == /\ tprogram = "Q1_F_BST"
            /\ \/ Insert \/ QuitTrees
               \/ Traversal(LevelOrderTraversal(tmem, roots[1]))
Q2_F_BST == /\ tprogram = "Q2_F_BST"
            /\ \/ Insert \/ QuitTrees
               \/ Traversal(InOrderIterative(tmem, roots[1]))
Q3_F_BST == /\ tprogram = "Q3_F_BST"
            /\ \/ Insert \/ QuitTrees
               \/ Traversal(PreOrderIterative(tmem, roots[1]))
Q4_F_BST == /\ tprogram = "Q4_F_BST"
            /\ \/ Insert \/ QuitTrees
               \/ Traversal(PostOrderIterativeS1(tmem, roots[1]))
Q5_F_BST == /\ tprogram = "Q5_F_BST"
            /\ \/ Insert \/ QuitTrees
               \/ Traversal(PostOrderIterativeS2(tmem, roots[1]))

TestRemove ==
    /\ tprogram = "test_binary_search_tree"
    /\ \/ Insert
       \/ \E i \in Keys :
             Searched(RemoveNodeFromTree(tmem, roots[1], i), -i)

TreeNext ==
    \/ Q1_E_BT \/ Q2_E_BT \/ Q3_E_BT \/ Q4_E_BT \/ Q6_E_BT \/ Q7_E_BT
    \/ Q8_E_BT \/ Q1_F_BST \/ Q2_F_BST \/ Q3_F_BST \/ Q4_F_BST \/ Q5_F_BST
    \/ TestRemove

----------------------------------------------------------------------------
(* What is true of them.                                                   *)

\* Every node that is allocated is in one tree, at one place; createTree()
\* has on its stack leaves of the tree it reads, each once.
TreesOwnNodes ==
    LET links == {<<n, s>> \in (DOMAIN tmem) \X {"left", "right"} :
                     tmem[n][s] # Null}
        reached == Range(PreOrder(tmem)[roots[1]])
                   \cup Range(PreOrder(tmem)[roots[2]])
    IN  /\ reached = DOMAIN tmem
        /\ Cardinality(links) + Cardinality({k \in 1..2 : roots[k] # Null})
             = Cardinality(DOMAIN tmem)
        /\ IsInjective(tstack)
        /\ \A n \in Range(tstack) : tmem[n].left = Null /\ tmem[n].right = Null

\* The tree at a root as the set of its paths, each with the item there.
Paths(m, root) ==
    LET f[n \in Nodes(m)] ==
            IF n = Null THEN {}
            ELSE {<<<<>>, m[n].item>>}
                 \cup {<<<<"L">> \o p[1], p[2]>> : p \in f[m[n].left]}
                 \cup {<<<<"R">> \o p[1], p[2]>> : p \in f[m[n].right]}
    IN  f[root]

\* The values of a sequence are those of some paths, as often.
SameValues(s, paths) ==
    \A x \in Range(s) \cup {p[2] : p \in paths} :
       Cardinality({i \in DOMAIN s : s[i] = x})
         = Cardinality({p \in paths : p[2] = x})

Ascending(s) == \A i \in 1..(Len(s) - 1) : s[i] < s[i + 1]

(***************************************************************************)
(* The answers are those that the questions ask for, but for the pre-order *)
(* traversal, whose answer is the in-order one.  A search tree has the     *)
(* keys that were inserted and not removed, and they are in order.         *)
(***************************************************************************)
TreeAnswers ==
    LET a == tanswer
        one == Paths(a.mem, a.roots[1])
        two == Paths(a.mem, a.roots[2])
        places == {p[1] : p \in one}
        OneChild(p) == (Append(p, "L") \in places) # (Append(p, "R") \in places)
        place(i) == (CHOOSE p \in one : p[2] = a.out[i])[1]
        Below(p) == {q \in places : IsPrefix(p, q)}
    IN  /\ a.asked =>
          CASE tprogram = "Q1_E_BT" -> a.ret = 1 <=> one = two
            [] tprogram = "Q2_E_BT" ->
                 a.ret = Max({-1} \cup {Len(p) : p \in places})
            [] tprogram = "Q3_E_BT" ->
                 a.ret = Cardinality({p \in places : OneChild(p)})
            [] tprogram = "Q4_E_BT" ->
                 a.ret = MapThenSumSet(LAMBDA p : p[2] * (p[2] % 2), one)
            [] tprogram = "Q6_E_BT" ->
                 SameValues(a.out, {p \in one : p[2] < a.given})
            [] tprogram = "Q7_E_BT" ->
                 a.ret = Min({1000000} \cup {p[2] : p \in one})
            [] tprogram = "Q8_E_BT" ->
                 SameValues(a.out, {p \in one :
                    \E q \in Below(p[1]) : Len(q) = Len(p[1]) + 3})
            [] tprogram \in {"Q2_F_BST", "Q3_F_BST"} ->
                 SameValues(a.out, one) /\ Ascending(a.out)
            [] tprogram = "Q1_F_BST" ->
                 /\ SameValues(a.out, one)
                 /\ \A i, j \in DOMAIN a.out : i < j =>
                       \/ Len(place(i)) < Len(place(j))
                       \/ Len(place(i)) = Len(place(j)) /\ a.out[i] < a.out[j]
            [] tprogram \in {"Q4_F_BST", "Q5_F_BST"} ->
                 /\ SameValues(a.out, one)
                 /\ \A i, j \in DOMAIN a.out : i < j =>
                       \/ IsPrefix(place(j), place(i))
                       \/ ~IsPrefix(place(i), place(j)) /\ a.out[i] < a.out[j]
            [] OTHER -> TRUE
        /\ Ascending(a.to)
        /\ a.given > 0 /\ ~a.asked => Range(a.to) = Range(a.out) \cup {a.given}
        /\ a.given < 0 => Range(a.to) = Range(a.out) \ {-a.given}
=============================================================================
