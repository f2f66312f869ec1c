\* The same call twice, the catalogue changing in between.
CONSTANTS
    NoRow = NoRow
    NoProduct = NoProduct
    Runs = {r1, r2}
    Seeds = {s1}
    Users = {u1}
    Products = {x, y}
    MaxOrders = 1
    MaxLines = 2
    MayCrash = FALSE
SPECIFICATION Spec
INVARIANT NoDuplicateLine
