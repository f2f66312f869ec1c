CONSTANTS
    Batches = {b1}
    NoBatch = NoBatch
    NoRow = NoRow
    NoTime = NoTime
    Day = 2
    ExpectedHour = 1
    Grace = 1
    RunningTimeout = 1
    StaleAfter = 3
    Webhook = TRUE
    MaxTime = 5
    MaxWrites = 2
    MaxFaults = 1
SPECIFICATION Spec
PROPERTY OldRowIsNoProof
