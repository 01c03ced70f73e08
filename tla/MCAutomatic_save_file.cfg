SPECIFICATION Spec
CONSTANTS
    Feeds <- OneFeed
    Items <- ItemsTwo
    Stream <- TwoItems
    Window = 2
    Configs <- ConfigOne
    MaxFeeds = 1
    Argv <- Daemon
    Transmission = "none"
    UploadLimit = FALSE
    DefaultMaxBucket = 1
    Uint16 = 65536
    NoFile = NoFile
    NoGUID = NoGUID
    Torn = Torn
    Faults <- NoFaults
INVARIANT SavedIsHandedOver
