\* Two runs for one date, beside or after each other.
CONSTANTS
    NoRow = NoRow
    NoProduct = NoProduct
    Runs = {r1, r2}
    Seeds = {s1}
    Users = {u1}
    Products = {x, y}
    MaxOrders = 2
    MaxLines = 2
    MayCrash = TRUE
SPECIFICATION FairSpec
INVARIANT TypeOK
INVARIANT WholeOrders
INVARIANT AuditCountsRows
INVARIANT RerunInsertsNothing
INVARIANT RunsNeverStuck
PROPERTY ImplementsOrders
PROPERTY RunEnds
