\* Two processes, lock waits and deadlocks.
CONSTANTS
    Procs = {p1, p2}
    Ids = {i1, i2}
    Values = {v1}
    NoRow = NoRow
    NoWrite = NoWrite
    NoId = NoId
    NoProc = NoProc
    CanDisconnect = FALSE
    MaxValid = 2
    MaxRejected = 0
    Feeds <- WriteFeeds
SPECIFICATION FairSpec
PROPERTY LoadProgress
PROPERTY LoadEnds
