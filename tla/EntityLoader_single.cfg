\* One process, every feed of up to two valid records and one refused one.
CONSTANTS
    Procs = {p1}
    Ids = {i1, i2, i3}
    Values = {v1, v2}
    NoRow = NoRow
    NoWrite = NoWrite
    NoId = NoId
    NoProc = NoProc
    CanDisconnect = TRUE
    MaxValid = 2
    MaxRejected = 1
    Feeds <- RichFeeds
SYMMETRY IdSymmetry
SPECIFICATION Spec
INVARIANT TypeOK
PROPERTY EveryEntryAccounted
PROPERTY ActiveIsTheFeed
PROPERTY CountersExact
