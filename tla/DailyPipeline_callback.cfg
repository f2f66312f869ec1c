CONSTANTS
    Entities = {c, p}
    NoRow = NoRow
    Workers = {w1}
    Nobody = Nobody
    Retries = 1
    MaxRound = 2
    MayLose = FALSE
    LateCallback = TRUE
SPECIFICATION Spec
INVARIANTS SuccessfulRunReadsSuccess
CHECK_DEADLOCK FALSE
