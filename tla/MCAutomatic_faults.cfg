SPECIFICATION Spec
CONSTANTS
    Feeds <- OneFeed
    Items <- ItemsSome
    Stream <- SomeItems
    Window = 1
    Configs <- ConfigOne
    MaxFeeds = 1
    Argv <- AnyArgv
    Transmission = "1.3"
    UploadLimit = TRUE
    DefaultMaxBucket = 1
    Uint16 = 65536
    NoFile = NoFile
    NoGUID = NoGUID
    Torn = Torn
    Faults <- AllFaults
INVARIANTS
    TypeOK
    HistoryBounded
    HistoryIsTruthful
    NotifiedOnce
    NoDuplicateEntries
PROPERTY MatchOnlyChangesNothing
