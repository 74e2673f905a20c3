SPECIFICATION FairSpec
CONSTANTS
    Source <- Programs
    Keyword <- MCKeyword
    Request = {"next"}
    Key <- MCKey
    Word = 16
PROPERTY EveryCallReturns
CHECK_DEADLOCK FALSE
