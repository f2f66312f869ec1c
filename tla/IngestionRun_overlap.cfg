\* Two attempts of one batch, either beside or after each other.
CONSTANTS
    NoRow = NoRow
    Attempts = {a1, a2}
    EntityCount = 2
    MaxRecords = 1
    Overlap = TRUE
    MayCrash = TRUE
SPECIFICATION FairSpec
INVARIANT TypeOK
INVARIANT ClosedRowTellsTheTruth
INVARIANT SuccessFillsEveryTable
PROPERTY AttemptEnds
PROPERTY ImplementsIngestion
