SPECIFICATION FairSpec
CONSTANTS
    DATA_BUFFER_SIZE = 2
    MAXREDIRS = 1
    MaxChunk = 3
    Pages <- Documents
    Magnets <- Links
    Options <- SomeOptions
    Versions = {4, 5}
    MaxSessions = 2
    MaxOffers = 2
CHECK_DEADLOCK FALSE
INVARIANTS
    WritesFit
    AnswerIsWhole
    RefusedTwiceMeansRestart
    LimitIsSet
    EncodingFits
PROPERTIES
    HandsOverAsPromised
    CallsReturn
