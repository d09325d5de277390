SPECIFICATION Spec
CONSTANTS
    Nodes = {n1, n2, n3, n4, n5, n6}
    Keys = {1, 2, 3}
    NIL = NIL
    MaxMisread = 1
    n1 = n1
    n2 = n2
    n3 = n3
    n4 = n4
    n5 = n5
    n6 = n6
SYMMETRY Symmetry
INVARIANTS TreeSound RedBlackElsewhere
