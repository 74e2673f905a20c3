SPECIFICATION Spec
CONSTANTS
    Source <- Literals
    Keyword <- MCKeyword
    Request = {"next"}
    Key <- MCKey
    Word = 16
INVARIANT ExponentConsumed
CHECK_DEADLOCK FALSE
