SPECIFICATION FairSpec
CONSTANTS
    Source <- MCSource
    Table = 14
    BinOp = {"=", "..", "||", "&&", "==", "^", "&", "<<", "-", "*"}
INVARIANTS TypeOK NamesKept RoundTrip
PROPERTIES StepsDescend Terminates
CHECK_DEADLOCK FALSE
