\* One process; does every rejected record reach the quarantine table?
CONSTANTS
    Procs = {p1}
    Ids = {i1}
    Values = {v1}
    NoRow = NoRow
    NoWrite = NoWrite
    NoId = NoId
    NoProc = NoProc
    CanDisconnect = FALSE
    MaxValid = 1
    MaxRejected = 2
    Feeds <- RichFeeds
SPECIFICATION Spec
PROPERTY RejectedIsQuarantined
