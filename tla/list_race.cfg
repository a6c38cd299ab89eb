SPECIFICATION Spec
CONSTANTS
    n1 = n1
    n2 = n2
    n3 = n3
    Nodes <- ThreeNodes
    HEAD = HEAD
    POISON = POISON
SYMMETRY AnyNode
INVARIANTS
    DeletedIsOff
