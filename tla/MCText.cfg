SPECIFICATION MCSpec
CONSTANTS
    NameCap = 4
    ValueCap = 4
    Fields <- MCFields
    Bodies <- MCBodies
    Keys <- MCKeys
    MaxKey = 3
    MaxList = 3
    DefaultLimit = 2
    Queries <- MCQueries
    RowSize <- MCRowSize
    NoteSizes = {0, 1, 3}
    Room = 4
    Wrap = 1
    MaxNotes = 5
INVARIANTS
    ParsesAsSpecified
    ReadsBack
    ListsWhatItServes
    PrefixListing
    WalkAddsUp
CHECK_DEADLOCK FALSE
