INIT MCInit
NEXT MCNext
CONSTANTS
    MAX_FINGERS = 2
    Ids = {1, 2, 3}
    Positions <- MCPositions
    Asks = TRUE
    AutoBoot = "usb"
    Cards = {"rom", "note"}
    Seconds = 1
CHECK_DEADLOCK FALSE
INVARIANTS
    TouchesAgree
    PlaceForEach
    HighlightFollows
    HandlerAsFlagged
    WaitsKnown
    AnswerMatches
