SPECIFICATION Spec
CONSTANTS
    Feeds <- TwoFeeds
    Items <- ItemsBoth
    Stream <- FourAndOne
    Window = 2
    Configs <- ConfigAny
    MaxFeeds = 2
    Argv <- Daemon
    Transmission = "none"
    UploadLimit = FALSE
    DefaultMaxBucket = 3
    Uint16 = 65536
    NoFile = NoFile
    NoGUID = NoGUID
    Torn = Torn
    Faults <- Kills
INVARIANT DiskMatchesMemory
PROPERTIES
    KeepsHistory
    ListedIsKept
