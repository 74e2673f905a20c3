SPECIFICATION Spec
CONSTANTS
    Source <- Globals
    Table = 14
    BinOp = {"-"}
INVARIANT GlobalsAccepted
CHECK_DEADLOCK FALSE
