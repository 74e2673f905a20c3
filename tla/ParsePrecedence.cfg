SPECIFICATION Spec
CONSTANTS
    Source <- MCSource
    Table = 14
    BinOp = {"||", "&&", "==", "|"}
INVARIANT BindsAsTheTable
CHECK_DEADLOCK FALSE
