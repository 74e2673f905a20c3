SPECIFICATION DocumentedSpec
CONSTANTS
    Allocator = {a1, a2}
    Node = {n1, n2}
    Buffer = {b1, b2, b3}
    Size = {1, 2}
    Word = 16
    Debug = FALSE
    NULL = NULL
INVARIANTS FreeTakesHeldBlock
CHECK_DEADLOCK FALSE
