SPECIFICATION FairSpec
CONSTANTS
    Allocator = {a1, a2}
    Node = {n1, n2}
    Buffer = {b1, b2, b3}
    Size = {1, 2}
    Word = 8
    Debug = FALSE
    NULL = NULL
PROPERTIES CallsDescend CallsReturn
CHECK_DEADLOCK FALSE
