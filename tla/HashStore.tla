--------------------------- MODULE HashStore ---------------------------
(***************************************************************************)
(* What lib/kernel/hash.c promises: a set of elements no two of which are  *)
(* equal, and an iteration that visits each of them once.  done is the     *)
(* last call, <<name, arguments, what it returned>>.                       *)
(***************************************************************************)
EXTENDS FiniteSets, Naturals, Sequences

CONSTANTS Value, NULL
VARIABLES members, left, done

\* The call takes the members m to n, and those an iteration has left to
\* visit from i to j.
Effect(m, i, call, n, j) ==
    LET name == call[1]
        equal == {e \in m : Value[e] = Value[call[2]]}
        old == call[3] = IF equal = {} THEN NULL ELSE CHOOSE e \in equal : TRUE
        same == n = m /\ j = i
    IN  \/ name = "hash_insert" /\ old /\ n = (IF equal = {} THEN m \union {call[2]} ELSE m) /\ j = {}
        \/ name = "hash_replace" /\ old /\ n = (m \ equal) \union {call[2]} /\ j = {}
        \/ name = "hash_delete" /\ old /\ n = m \ equal /\ j = {}
        \/ name = "hash_clear" /\ n = {} /\ j = {}
        \/ name = "hash_find" /\ old /\ same
        \/ name = "hash_size" /\ call[2] = Cardinality(m) /\ call[3] = (m = {}) /\ same
        \/ name = "hash_apply" /\ Len(call[2]) = Cardinality(m) /\ {call[2][k] : k \in DOMAIN call[2]} = m /\ same
        \/ name = "hash_first" /\ n = m /\ j = m
        \/ name = "hash_next" /\ n = m /\ IF i = {} THEN call[2] = NULL /\ j = {} ELSE call[2] \in i /\ j = i \ {call[2]}

Init == members = {} /\ left = {}
Spec == Init /\ [][Effect(members, left, done', members', left')]_<<members, left, done>>
=======================================================================
