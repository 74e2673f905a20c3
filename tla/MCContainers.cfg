SPECIFICATION MCSpec
CONSTANTS
    Item = {zero, x}
    Zero = zero
    Index = {0, 1, 2, 3}
    Word = 8
    NULL = NULL
    Node = {n1, n2, n3}
    MaxRoom = 4
    Junk = Junk
    Handle = {s1, s2}
    Owner = {a1, a2}
    Lengths = {0, 3}
    MAX_STR_ALLOC = 8
    INITIAL_STR_ALLOC = 4
    Arena = {A, B}
    Block = {b1, b2}
    ARENA_DEFAULT_SIZE = 2
    Padding = 0
    InitSize = {0, 1}
    Request = {1, 2, 3}
    MaxChunk = 2
    MaxUsed = 4
    MaxMisuse = 1
    SizeMod = 9
    NoBlock = NoBlock
SYMMETRY ArenaSymmetry
INVARIANTS
    ListTypeOK  
    VectorTypeOK VectorBuffer VectorFaults
    StringTypeOK StringSound
    ArenaTypeOK BlocksSound DataKept
PROPERTIES  VectorRefines
CHECK_DEADLOCK FALSE
