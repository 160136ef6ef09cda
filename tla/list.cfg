SPECIFICATION Spec
CONSTANTS
    Nodes = {n1, n2, n3}
    NULL = NULL
SYMMETRY Symmetry
INVARIANTS
    TypeOK
    Linked
    NoDangling
    Counted
    AllServed
