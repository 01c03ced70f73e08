CONSTANTS
    NodeSize = 4
    MAX_SUBST_LEN = 6
    ListSize = 3
    NoFeed = NoFeed
    torrent_folder <- MCFolder
    Inputs <- MCInputs
    Matches <- MCMatches
    Captures <- MCCaptures
    strcasecmp_eq <- MCSameId
    Answer <- MCAnswer
SPECIFICATION Spec
INVARIANTS
    ItemsAsWritten
    AbortsAreKnown
    CallsAreDue
    RewritesAsWritten
    FilesAreWhole
