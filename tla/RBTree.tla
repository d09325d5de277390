---------------------------- MODULE RBTree ----------------------------
(***************************************************************************)
(* The red-black tree of rbtree-lab (src/rbtree.c), built with SENTINEL: a *)
(* multiset of keys, whose nodes the client holds pointers to.  One call   *)
(* runs at a time; a turn of a loop is one step, so that what the loops    *)
(* keep true can be stated.                                                *)
(*                                                                         *)
(* The mirrored halves of the source are one definition with a side, which *)
(* is "left" in the half that is written first.                            *)
(***************************************************************************)
EXTENDS Integers, Sequences, FiniteSets, TLC

CONSTANTS
    Nodes,    \* addresses that malloc() gives nodes
    Keys,     \* the keys that the client uses, integers
    NIL,      \* the sentinel
    MaxMisread  \* bound on the calls made after the tree was damaged

VARIABLES
    node,       \* the fields of the sentinel and of each node
    root,
    allocated,  \* nodes that have not been freed
    pc,         \* the loop that is running
    z,          \* the node that is inserted or erased
    x, y,       \* locals of the running call
    sought,     \* what rbtree_find(), _min() or _max() looks for
    misread     \* history: 0 until rbtree_delete_fixup() reads the wrong w,
                \* and then 1 more than the calls made since

tree == <<node, root>>
vars == <<node, root, allocated, pc, z, x, y, sought, misread>>

Sides == {"left", "right"}
Other(side) == IF side = "left" THEN "right" ELSE "left"

\* The fields of the tree [node, root] t; a tree in the middle of a call is
\* such a record.
T == [node |-> node, root |-> root]
Left(t, n) == t.node[n].left
Right(t, n) == t.node[n].right
Parent(t, n) == t.node[n].parent
Colour(t, n) == t.node[n].color
Set(t, n, field, v) == [t EXCEPT !.node[n][field] = v]
Paint(t, n, c) == Set(t, n, "color", c)

Blank == [key |-> 0, color |-> "black", left |-> NIL, right |-> NIL,
          parent |-> NIL]

\* new_rbtree()
Init ==
    /\ node = [n \in Nodes \cup {NIL} |-> Blank]
    /\ root = NIL
    /\ allocated = {}
    /\ pc = "idle"
    /\ z = NIL /\ x = NIL /\ y = NIL
    /\ sought = <<>>
    /\ misread = 0

----------------------------------------------------------------------------
(***************************************************************************)
(* left_rotate(t, a) when the side is "left", and right_rotate(): nothing  *)
(* when there is no child to take a's place.                               *)
(***************************************************************************)
Rotate(t, a, side) ==
    LET b == t.node[a][Other(side)]
        inner == t.node[b][side]
        p == Parent(t, a)
        lowered == Set(t, a, Other(side), inner)
        adopted == IF inner = NIL THEN lowered
                   ELSE Set(lowered, inner, "parent", a)
        raised == Set(adopted, b, "parent", p)
        hung == IF p = NIL THEN [raised EXCEPT !.root = b]
                ELSE Set(raised, p, IF raised.node[p][side] = a THEN side
                                    ELSE Other(side), b)
    IN  IF b = NIL THEN t ELSE Set(Set(hung, b, side, a), a, "parent", b)

\* rbtree_transplant(t, u, v): v may be the sentinel, whose parent is set.
Transplant(t, u, v) ==
    LET p == Parent(t, u)
        hung == IF p = NIL THEN [t EXCEPT !.root = v]
                ELSE Set(t, p, IF u = Left(t, p) THEN "left" ELSE "right", v)
    IN  Set(hung, v, "parent", p)

Become(t) == node' = t.node /\ root' = t.root

\* The client makes a call.
Called ==
    /\ pc = "idle" /\ misread <= MaxMisread
    /\ misread' = IF misread = 0 THEN 0 ELSE misread + 1

----------------------------------------------------------------------------
\* rbtree_insert() takes a red node for key and starts at the root.
Insert(n, key) ==
    /\ Called /\ n \notin allocated
    /\ allocated' = allocated \cup {n}
    /\ node' = [node EXCEPT ![n] = [Blank EXCEPT !.key = key, !.color = "red"]]
    /\ z' = n /\ x' = root /\ y' = NIL
    /\ pc' = "descend"
    /\ UNCHANGED <<root, sought>>

\* Faulty: the comparison is the wrong way round.
BadSideOf(n) == IF node[z].key < node[n].key THEN "right" ELSE "left"

SideOf(n) == IF node[z].key < node[n].key THEN "left" ELSE "right"

Descend ==
    /\ pc = "descend" /\ x # NIL
    /\ y' = x
    /\ x' = node[x][SideOf(x)]
    /\ UNCHANGED <<tree, allocated, pc, z, sought, misread>>

Attach ==
    /\ pc = "descend" /\ x = NIL
    /\ LET placed == Set(T, z, "parent", y)
       IN  Become(IF y = NIL THEN [placed EXCEPT !.root = z]
                  ELSE Set(placed, y, SideOf(y), z))
    /\ pc' = "fixup"
    /\ UNCHANGED <<allocated, z, x, y, sought, misread>>

\* A turn of the loop of rbtree_fixup(): the side of z's parent, its uncle.
ParentSide == IF Parent(T, z) = Left(T, Parent(T, Parent(T, z)))
              THEN "left" ELSE "right"
Uncle == node[Parent(T, Parent(T, z))][Other(ParentSide)]

\* Faulty: the grandparent stays black.
BadFixupRecolor ==
    LET p == Parent(T, z)
    IN  /\ pc = "fixup" /\ Colour(T, p) = "red" /\ Colour(T, Uncle) = "red"
        /\ Become(Paint(Paint(T, p, "black"), Uncle, "black"))
        /\ z' = Parent(T, p)
        /\ UNCHANGED <<allocated, pc, x, y, sought, misread>>

\* Case 1: the uncle is red.
FixupRecolor ==
    LET p == Parent(T, z)
        g == Parent(T, p)
    IN  /\ pc = "fixup" /\ Colour(T, p) = "red" /\ Colour(T, Uncle) = "red"
        /\ Become(Paint(Paint(Paint(T, p, "black"), Uncle, "black"), g, "red"))
        /\ z' = g
        /\ UNCHANGED <<allocated, pc, x, y, sought, misread>>

\* Cases 2 and 3: the uncle is black, and z is turned outside first.
FixupRotate ==
    LET side == ParentSide
        inner == z = node[Parent(T, z)][Other(side)]
        c == IF inner THEN Parent(T, z) ELSE z
        t == IF inner THEN Rotate(T, c, side) ELSE T
        p == Parent(t, c)
        painted == Paint(Paint(t, p, "black"), Parent(t, p), "red")
    IN  /\ pc = "fixup" /\ Colour(T, Parent(T, z)) = "red"
        /\ Colour(T, Uncle) = "black"
        /\ Become(Rotate(painted, Parent(t, p), Other(side)))
        /\ z' = c
        /\ UNCHANGED <<allocated, pc, x, y, sought, misread>>

FixupEnd ==
    /\ pc = "fixup" /\ Colour(T, Parent(T, z)) # "red"
    /\ Become(Paint(T, root, "black"))
    /\ pc' = "idle"
    /\ z' = NIL /\ x' = NIL /\ y' = NIL
    /\ UNCHANGED <<allocated, sought, misread>>

----------------------------------------------------------------------------
\* rbtree_erase(t, n) of a node without one of its children.
EraseOuter(n) ==
    LET child == IF node[n].left = NIL THEN node[n].right ELSE node[n].left
    IN  /\ Called /\ n \in allocated
        /\ NIL \in {node[n].left, node[n].right}
        /\ Become(Transplant(T, n, child))
        /\ z' = n /\ x' = child /\ y' = n
        /\ pc' = IF node[n].color = "black" THEN "erase_fixup" ELSE "free"
        /\ UNCHANGED <<allocated, sought>>

\* rbtree_erase(t, n) of a node with two: tree_minimum() finds the next.
EraseInner(n) ==
    /\ Called /\ n \in allocated
    /\ NIL \notin {node[n].left, node[n].right}
    /\ z' = n /\ y' = node[n].right
    /\ pc' = "successor"
    /\ UNCHANGED <<tree, allocated, x, sought>>

Successor ==
    /\ pc = "successor" /\ node[y].left # NIL
    /\ y' = node[y].left
    /\ UNCHANGED <<tree, allocated, pc, z, x, sought, misread>>

\* The successor y takes the place of z.
Splice ==
    LET child == node[y].right
        taken == Set(Transplant(T, y, child), y, "right", node[z].right)
        out == IF y = node[z].right THEN Set(T, child, "parent", y)
               ELSE Set(taken, Right(taken, y), "parent", y)
        in == Set(Transplant(out, z, y), y, "left", node[z].left)
    IN  /\ pc = "successor" /\ node[y].left = NIL
        /\ Become(Paint(Set(in, node[z].left, "parent", y), y, node[z].color))
        /\ x' = child
        /\ pc' = IF node[y].color = "black" THEN "erase_fixup" ELSE "free"
        /\ UNCHANGED <<allocated, z, y, sought, misread>>

\* A turn of the loop of rbtree_delete_fixup().
Doubled == pc = "erase_fixup" /\ x # root /\ Colour(T, x) = "black"
XSide == IF x = Left(T, Parent(T, x)) THEN "left" ELSE "right"

(***************************************************************************)
(* The tree and the sibling w after the first if of a turn: a red sibling  *)
(* is turned above the parent.  Where x is a left child, the next w is     *)
(* read from the parent of the old one (w = w->parent->right), in the      *)
(* mirrored half from the parent of x.                                     *)
(***************************************************************************)
BlackSibling ==
    LET p == Parent(T, x)
        w == node[p][Other(XSide)]
        turned == Rotate(Paint(Paint(T, w, "black"), p, "red"), p, XSide)
    IN  IF Colour(T, w) = "black" THEN [t |-> T, w |-> w]
        ELSE [t |-> turned,
              w |-> IF XSide = "left" THEN Right(turned, Parent(turned, w))
                    ELSE Left(turned, Parent(turned, x))]

\* The case in which the two halves differ.
LeftRed == XSide = "left" /\ Colour(T, Right(T, Parent(T, x))) = "red"

BothBlack(s) == /\ Colour(s.t, Left(s.t, s.w)) = "black"
                /\ Colour(s.t, Right(s.t, s.w)) = "black"

EraseRecolor ==
    LET s == BlackSibling
    IN  /\ Doubled /\ BothBlack(s)
        /\ Become(Paint(s.t, s.w, "red"))
        /\ x' = Parent(s.t, x)
        /\ misread' = IF LeftRed /\ misread = 0 THEN 1 ELSE misread
        /\ UNCHANGED <<allocated, pc, z, y, sought>>

EraseRotate ==
    LET s == BlackSibling
        far == Other(XSide)
        near == s.t.node[s.w][XSide]
        inward == Colour(s.t, s.t.node[s.w][far]) = "black"
        t == IF inward
             THEN Rotate(Paint(Paint(s.t, near, "black"), s.w, "red"), s.w, far)
             ELSE s.t
        p == Parent(t, x)
        w == IF inward THEN t.node[p][far] ELSE s.w
        painted == Paint(Paint(t, w, Colour(t, p)), p, "black")
        done == Rotate(Paint(painted, painted.node[w][far], "black"), p, XSide)
    IN  /\ Doubled /\ ~BothBlack(s)
        /\ Become(done)
        /\ x' = done.root
        /\ misread' = IF LeftRed /\ misread = 0 THEN 1 ELSE misread
        /\ UNCHANGED <<allocated, pc, z, y, sought>>

EraseFixupEnd ==
    /\ pc = "erase_fixup" /\ ~Doubled
    /\ Become(Paint(T, x, "black"))
    /\ pc' = "free"
    /\ UNCHANGED <<allocated, z, x, y, sought, misread>>

\* rbtree_erase() frees z and returns.
Free ==
    /\ pc = "free"
    /\ allocated' = allocated \ {z}
    /\ node' = [node EXCEPT ![z] = Blank]
    /\ pc' = "idle"
    /\ z' = NIL /\ x' = NIL /\ y' = NIL
    /\ UNCHANGED <<root, sought, misread>>

----------------------------------------------------------------------------
\* rbtree_find(t, key), and rbtree_min() and rbtree_max() for the sides.
Find(key) ==
    /\ Called
    /\ pc' = "find" /\ sought' = <<key>> /\ x' = root
    /\ UNCHANGED <<tree, allocated, z, y>>

Extreme(side) ==
    /\ Called
    /\ pc' = "extreme" /\ sought' = <<side>> /\ x' = root
    /\ UNCHANGED <<tree, allocated, z, y>>

\* The node that the next turn of the loop goes on to.
Ahead == CASE pc = "find" -> IF node[x].key > sought[1] THEN node[x].left
                             ELSE node[x].right
           [] pc = "extreme" -> node[x][sought[1]]

Arrived == \/ pc \in {"find", "extreme"} /\ x = NIL
           \/ pc = "find" /\ node[x].key = sought[1]
           \/ pc = "extreme" /\ node[x][sought[1]] = NIL

Look ==
    /\ pc \in {"find", "extreme"} /\ ~Arrived
    /\ x' = Ahead
    /\ UNCHANGED <<tree, allocated, pc, z, y, sought, misread>>

Return ==
    /\ Arrived
    /\ pc' = "idle" /\ sought' = <<>> /\ x' = NIL
    /\ UNCHANGED <<tree, allocated, z, y, misread>>

----------------------------------------------------------------------------
\* The nodes under n, with n.
Under(n) ==
    LET step[i \in 0..Cardinality(Nodes)] ==
            IF i = 0 THEN {n}
            ELSE LET above == step[i - 1]
                 IN  above \cup {node[m].left : m \in above}
                           \cup {node[m].right : m \in above}
    IN  step[Cardinality(Nodes)] \ {NIL}

\* delete_rbtree(t) frees what hangs from the root, and new_rbtree() is called
\* once more.
Delete ==
    /\ pc = "idle"
    /\ allocated' = allocated \ Under(root)
    /\ node' = [n \in Nodes \cup {NIL} |-> Blank]
    /\ root' = NIL
    /\ misread' = 0
    /\ UNCHANGED <<pc, z, x, y, sought>>

----------------------------------------------------------------------------
Call ==
    \/ \E n \in Nodes, key \in Keys : Insert(n, key)
    \/ \E n \in Nodes : EraseOuter(n) \/ EraseInner(n)
    \/ \E key \in Keys : Find(key)
    \/ \E side \in Sides : Extreme(side)
    \/ Delete

Work ==
    \/ Descend \/ Attach \/ FixupRecolor \/ FixupRotate \/ FixupEnd
    \/ Successor \/ Splice \/ EraseRecolor \/ EraseRotate \/ EraseFixupEnd
    \/ Free \/ Look \/ Return

Next == Call \/ Work

Spec == Init /\ [][Next]_vars

----------------------------------------------------------------------------
\* The nodes that are in the tree: z has yet to be attached, or is out.
InTree == IF pc \in {"descend", "erase_fixup", "free"} THEN allocated \ {z}
          ELSE allocated

(***************************************************************************)
(* The nodes that the client holds, and no others, hang from the root,     *)
(* each from its parent and from one side of it.                           *)
(***************************************************************************)
Linked ==
    /\ Under(root) = InTree
    /\ root # NIL => node[root].parent = NIL
    /\ \A n \in InTree \ {root} :
          {s \in InTree \X Sides : node[s[1]][s[2]] = n} \in
              {{<<node[n].parent, side>>} : side \in Sides}

\* The keys are in order, as rbtree_to_array() lists them.
Ordered ==
    \A n \in InTree :
        /\ \A m \in Under(node[n].left) : node[m].key <= node[n].key
        /\ \A m \in Under(node[n].right) : node[m].key >= node[n].key

\* The numbers of black nodes on the paths down from each node, x counted twice
\* while rbtree_delete_fixup() looks for a place for its second black.
BlackHeights ==
    LET Blacks(m) ==
            (IF m # NIL /\ node[m].color = "black" THEN 1 ELSE 0)
            + (IF pc = "erase_fixup" /\ m = x THEN 1 ELSE 0)
        step[i \in 0..Cardinality(Nodes)] ==
            IF i = 0 THEN [m \in Nodes |-> {}]
            ELSE LET below == step[i - 1]
                     Paths(p, m) ==
                         IF m # NIL THEN {Blacks(m) + h : h \in below[m]}
                         ELSE {IF node[x].parent = p THEN Blacks(m) ELSE 0}
                 IN  [p \in Nodes |-> Paths(p, node[p].left) \cup
                                      Paths(p, node[p].right)]
    IN  step[Cardinality(Nodes)]

(***************************************************************************)
(* The constraints of test-rbtree.c, with what the loops may leave broken  *)
(* in between: the root is black, a red node's parent is black, and paths  *)
(* to the leaves have the same number of black nodes.                      *)
(***************************************************************************)
RedBlack ==
    LET exempt == CASE pc = "fixup" -> z [] pc = "erase_fixup" -> x
                    [] OTHER -> NIL
        Black(n) == node[n].color = "black" \/ (pc = "erase_fixup" /\ n = x)
    IN  /\ node[NIL].color = "black"
        /\ \A n \in InTree \ {exempt} :
              Black(n) \/ (n # root /\ Black(node[n].parent))
        /\ LET heights == BlackHeights
           IN  \A n \in InTree : Cardinality(heights[n]) = 1

\* The same, but for trees that rbtree_delete_fixup() has damaged where its
\* two halves differ.
RedBlackElsewhere == misread = 0 => RedBlack

\* A search that ends without a node leaves no such key behind, and the
\* ends of the tree have the least and the greatest key.
SearchCorrect ==
    Arrived =>
        CASE pc = "find" -> x = NIL => \A n \in allocated : node[n].key # sought[1]
          [] pc = "extreme" ->
                /\ x = NIL => allocated = {}
                /\ \A n \in allocated :
                      IF sought[1] = "left" THEN node[x].key <= node[n].key
                      ELSE node[x].key >= node[n].key

\* A client finds in the tree what it put there, whatever came before.
TreeSound == Linked /\ Ordered /\ SearchCorrect

\* For TLC: addresses are alike.
Symmetry == Permutations(Nodes)
=======================================================================
