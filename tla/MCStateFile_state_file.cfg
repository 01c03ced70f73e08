CONSTANTS
    Guids <- MCGuids
    MAX_LINE_LEN = 4
    Maxima = {0, 1, 2}
    Entries = 3
SPECIFICATION Spec
INVARIANTS
    HeapInOrder
    ListsAreSequences
    RestoredIsSaved
PROPERTIES
    KeepsBucket
