SPECIFICATION Spec
CONSTANTS
    Allocator = {a1, a2}
    Node = {n1, n2, n3}
    Buffer = {b1, b2, b3, b4}
    Size = {1, 2}
    Word = 8
    Debug = FALSE
    NULL = NULL
SYMMETRY HeapSymmetry
INVARIANTS TypeOK ChainInv NoFault NoLeak
PROPERTIES Isolation DeinitReleasesAll RefinesAbs
CHECK_DEADLOCK FALSE
