CONSTANTS
    Bytes = {"get11", "get10", "miss11", "badVersion", "close", "keep", "CRLF", "nul"}
    Zero = "nul"
    kCheapPrepend = 1
    kInitialSize = 3
    ExtraSize = 3
    Values = {"keep", "nul"}
    MaxChunk = 4
    MaxContent = 5
    Texts = {"get11", "get10", "miss11", "badVersion", "close", "keep"}
    MaxPieces = 8
    MaxSegment = 4
SPECIFICATION MCSpec
INVARIANTS IndicesInOrder AnswersInOrder ParserSurvives
PROPERTIES ImplementsByteQueue GrowsOnlyWhenFull MessageMakesProgress
CHECK_DEADLOCK FALSE
