SPECIFICATION MCSpec
CONSTANTS
    Source <- AllTexts
    Keyword <- MCKeyword
    Request = {"next", "peek", "scan"}
    Key <- MCKey
    Word = 16
INVARIANTS TypeOK InBounds TokensAreLexemes TokensTile PositionAgrees
PROPERTIES TurnsDescend Foresight CallsReturn
CHECK_DEADLOCK FALSE
