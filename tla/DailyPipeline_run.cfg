CONSTANTS
    Entities = {c, p}
    NoRow = NoRow
    Workers = {w1, w2}
    Nobody = Nobody
    Retries = 1
    MaxRound = 2
    MayLose = TRUE
    LateCallback = TRUE
SPECIFICATION Spec
INVARIANTS TypeOK RowFollowsRun SuccessIsBuilt IngestionSettled TablesStayFilled
PROPERTIES FailureIsWritten RunEnds
CHECK_DEADLOCK FALSE
