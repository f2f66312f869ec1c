\* Two processes load the same entity; feeds of up to two valid records.
CONSTANTS
    Procs = {p1, p2}
    Ids = {i1, i2, i3}
    Values = {v1, v2}
    NoRow = NoRow
    NoWrite = NoWrite
    NoId = NoId
    NoProc = NoProc
    CanDisconnect = TRUE
    MaxValid = 2
    MaxRejected = 0
    Feeds <- WriteFeeds
SYMMETRY Symmetry
SPECIFICATION Spec
INVARIANT NobodyStuck
PROPERTY NeverEmptied
PROPERTY CountersBracketEffect
PROPERTY LoadsFillTable
PROPERTY ImplementsContract
