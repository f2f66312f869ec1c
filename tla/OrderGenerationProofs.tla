----------------------- MODULE OrderGenerationProofs ------------------------
(***************************************************************************)
(* Theorems about OrderGeneration for any number of runs, orders, lines    *)
(* and products.  The properties of the committed rows rest on what an     *)
(* open transaction holds: exactly the rows of its plan that it has passed *)
(* and that were not there, keys that nobody else holds.                   *)
(***************************************************************************)
EXTENDS OrderGeneration, FiniteSetTheorems, TLAPS

-----------------------------------------------------------------------------
(* The inductive invariant.                                                *)

\* Line j (the order row, if j = 0) of order k is among what r has to insert.
Planned(r, k, j) == k <= mem[r].count /\ j <= Len(Orders(r)[k])

\* r's loops have passed it.
Passed(r, k, j) ==
    k < mem[r].at[1] \/ (k = mem[r].at[1] /\ j < mem[r].at[2])

RowFor(r, k, j) ==
    [batch |-> r, product |-> IF j = 0 THEN NoProduct ELSE Orders(r)[k][j]]

Inserting(r) == pc[r] = "insert" /\ link[r]

\* Where r is, told by its memory.
Place(r) ==
    /\ pc[r] \in {"ready", "create", "users", "products", "generate"} =>
           mem[r].at = <<1, 0>> /\ mem[r].inserted = 0
    /\ pc[r] = "insert" =>
           /\ InputOf(r) \in DOMAIN known
           /\ mem[r].at[1] <= mem[r].count =>
                  mem[r].at[2] <= Len(Orders(r)[mem[r].at[1]])

\* An uncommitted row is one r has passed, stands nowhere in the table and is
\* held by r alone.
Holds(r) ==
    \A k \in 1..MaxOrders, j \in 0..MaxLines :
        pend[r][<<k, j>>] # NoRow =>
            /\ Inserting(r)
            /\ Planned(r, k, j) /\ Passed(r, k, j)
            /\ pend[r][<<k, j>>] = RowFor(r, k, j)
            /\ table[<<k, j>>] = NoRow
            /\ \A s \in Runs \ {r} : pend[s][<<k, j>>] = NoRow

\* Whatever r has passed is there, or held by r.
Covers(r) ==
    Inserting(r) =>
        \A k \in 1..MaxOrders, j \in 0..MaxLines :
            Planned(r, k, j) /\ Passed(r, k, j) =>
                table[<<k, j>>] # NoRow \/ pend[r][<<k, j>>] # NoRow

\* Of an order whose row it holds, r holds every line it has passed.
HoldsWhole(r) ==
    \A k \in 1..MaxOrders :
        pend[r][<<k, 0>>] # NoRow =>
            \A j \in 1..MaxLines :
                Planned(r, k, j) /\ Passed(r, k, j) => pend[r][<<k, j>>] # NoRow

\* What has been committed is a finished transaction's, and is all there.
Complete(p) ==
    /\ pc[p.batch] \in {"finish", "abort", "over"}
    /\ \A k \in 1..MaxOrders, j \in 0..MaxLines :
          k <= p.count /\ j <= Len(known[p.input][k]) => table[<<k, j>>] # NoRow

RunInv(r) == Place(r) /\ Holds(r) /\ Covers(r) /\ HoldsWhole(r)

OrdersInv ==
    /\ TypeOK
    /\ \A r \in Runs : RunInv(r)
    /\ \A p \in published : Complete(p)
    /\ WholeOrders

-----------------------------------------------------------------------------
(* The data.                                                               *)

\* An order has between one and MaxLines lines, of the given products.
LEMMA LinesType ==
    ASSUME NEW P, NEW s \in Lines(P)
    PROVE  Len(s) \in 1..MaxLines /\ Len(s) \in Nat /\ \A j \in 1..Len(s) : s[j] \in P
  <1>1. PICK n \in 1..MaxLines : s \in [1..n -> P]
    BY DEF Lines
  <1>2. n \in Nat
    BY MaxLinesAssumption
  <1>3. Len(s) = n
    BY <1>1, <1>2
  <1> QED BY <1>1, <1>2, <1>3

\* What the generator yields, order by order.
LEMMA PlanType ==
    ASSUME TypeOK, NEW i \in DOMAIN known, NEW k \in 1..MaxOrders
    PROVE  /\ Len(known[i][k]) \in 1..MaxLines
           /\ Len(known[i][k]) \in Nat
           /\ \A j \in 1..Len(known[i][k]) : known[i][k][j] \in Products
  <1>1. known[i][k] \in Lines(i.products) /\ i.products \subseteq Products
    BY DEF TypeOK, Plans, Inputs
  <1> QED BY <1>1, LinesType

\* The fields of a call's memory.
LEMMA MemoryType ==
    ASSUME TypeOK, NEW r \in Runs
    PROVE  /\ mem[r] \in Memory
           /\ mem[r].seed \in Seeds
           /\ mem[r].users \subseteq Users
           /\ mem[r].products \subseteq Products
           /\ mem[r].count \in 1..MaxOrders
           /\ mem[r].inserted \in Nat
           /\ mem[r].at = <<mem[r].at[1], mem[r].at[2]>>
           /\ mem[r].at[1] \in 1..MaxOrders + 1
           /\ mem[r].at[2] \in 0..MaxLines
           /\ MaxOrders \in Nat \ {0}
           /\ MaxLines \in Nat \ {0}
  BY MaxOrdersAssumption, MaxLinesAssumption DEF TypeOK, Memory

\* The memory of a call that has not begun, or has ended.
LEMMA BlankType ==
    /\ Blank \in Memory
    /\ Blank.at = <<1, 0>>
    /\ Blank.inserted = 0
  <1>1. (CHOOSE s \in Seeds : TRUE) \in Seeds
    BY SeedsAssumption
  <1>2. 1 \in 1..MaxOrders /\ <<1, 0>> \in (1..MaxOrders + 1) \X (0..MaxLines)
    BY MaxOrdersAssumption, MaxLinesAssumption
  <1> QED BY <1>1, <1>2 DEF Blank, Memory

\* A key is an order's number and a line's.
LEMMA KeyType ==
    /\ \A k \in 1..MaxOrders, j \in 0..MaxLines : <<k, j>> \in Keys
    /\ \A key \in Keys : /\ key = <<key[1], key[2]>>
                         /\ key[1] \in 1..MaxOrders
                         /\ key[2] \in 0..MaxLines
  BY DEF Keys

\* The rows of a transaction that holds none.
LEMMA NoRowsType ==
    /\ NoRows \in [Keys -> OrderRow \cup {NoRow}]
    /\ \A key \in Keys : NoRows[key] = NoRow
  BY DEF NoRows

\* The rows of ops.pipeline_runs the two statements write.
LEMMA AuditRowType ==
    /\ OpenedRow \in Row
    /\ \A row \in Row \cup {NoRow}, status \in Terminal, c \in Counts :
          ClosedRow(row, status, c) \in Row \cup {NoRow}
    /\ Zero \in Counts
    /\ \A n \in Nat : [Zero EXCEPT !.inserted = n] \in Counts
    /\ {"success", "failed"} \subseteq Terminal
  BY DEF OpenedRow, ClosedRow, Row, Zero, Counts, Terminal

-----------------------------------------------------------------------------
(* Frames: what a step of one run leaves alone.                            *)

Frame(s) == pc'[s] = pc[s] /\ mem'[s] = mem[s] /\ link'[s] = link[s] /\ pend'[s] = pend[s]

\* The generator is a function: what it has yielded it will yield again.
KnownGrows ==
    /\ DOMAIN known \subseteq DOMAIN known'
    /\ \A i \in DOMAIN known : known'[i] = known[i]

\* A committed row is never changed.
TableGrows == \A key \in Keys : table[key] # NoRow => table'[key] = table[key]

\* What s holds nobody else gets hold of, or commits.
Respects(s) ==
    \A k \in 1..MaxOrders, j \in 0..MaxLines :
        pend[s][<<k, j>>] # NoRow =>
            /\ table'[<<k, j>>] = NoRow
            /\ \A t \in Runs \ {s} : pend'[t][<<k, j>>] = NoRow

\* The invariant of a run outlives the steps of the others.
LEMMA OthersKeep ==
    ASSUME TypeOK, NEW s \in Runs, RunInv(s), Frame(s), KnownGrows, TableGrows,
           Respects(s)
    PROVE  RunInv(s)'
  <1>1. InputOf(s)' = InputOf(s) /\ Inserting(s)' = Inserting(s)
    BY DEF Frame, InputOf, Inserting
  <1>2. ASSUME pc[s] = "insert"
        PROVE  /\ InputOf(s) \in DOMAIN known
               /\ Orders(s)' = Orders(s)
    BY <1>1, <1>2 DEF RunInv, Place, Orders, KnownGrows
  <1>3. Place(s)'
    BY <1>1, <1>2 DEF RunInv, Place, Frame, KnownGrows
  <1>4. ASSUME NEW k \in 1..MaxOrders, NEW j \in 0..MaxLines, pc[s] = "insert"
        PROVE  /\ Planned(s, k, j)' = Planned(s, k, j)
               /\ Passed(s, k, j)' = Passed(s, k, j)
               /\ RowFor(s, k, j)' = RowFor(s, k, j)
    BY <1>2, <1>4 DEF Planned, Passed, RowFor, Frame
  <1>5. Holds(s)'
    <2> SUFFICES ASSUME NEW k \in 1..MaxOrders, NEW j \in 0..MaxLines,
                        pend[s][<<k, j>>] # NoRow
                 PROVE  /\ Inserting(s)'
                        /\ Planned(s, k, j)' /\ Passed(s, k, j)'
                        /\ pend[s][<<k, j>>] = RowFor(s, k, j)'
                        /\ table'[<<k, j>>] = NoRow
                        /\ \A t \in Runs \ {s} : pend'[t][<<k, j>>] = NoRow
      BY DEF Holds, Frame
    <2>1. Inserting(s) /\ Planned(s, k, j) /\ Passed(s, k, j)
          /\ pend[s][<<k, j>>] = RowFor(s, k, j)
      BY DEF RunInv, Holds
    <2> QED BY <1>1, <1>4, <2>1 DEF Inserting, Respects
  <1>6. Covers(s)'
    <2> SUFFICES ASSUME NEW k \in 1..MaxOrders, NEW j \in 0..MaxLines,
                        Inserting(s), Planned(s, k, j)', Passed(s, k, j)'
                 PROVE  table'[<<k, j>>] # NoRow \/ pend[s][<<k, j>>] # NoRow
      BY <1>1 DEF Covers, Frame
    <2>1. table[<<k, j>>] # NoRow \/ pend[s][<<k, j>>] # NoRow
      BY <1>4 DEF RunInv, Covers, Inserting
    <2> QED BY <2>1, KeyType DEF TableGrows
  <1>7. HoldsWhole(s)'
    <2> SUFFICES ASSUME NEW k \in 1..MaxOrders, NEW j \in 1..MaxLines,
                        pend[s][<<k, 0>>] # NoRow,
                        Planned(s, k, j)', Passed(s, k, j)'
                 PROVE  pend[s][<<k, j>>] # NoRow
      BY DEF HoldsWhole, Frame
    <2>1. 0 \in 0..MaxLines /\ j \in 0..MaxLines
      BY MaxLinesAssumption
    <2>2. pc[s] = "insert"
      BY <2>1 DEF RunInv, Holds, Inserting
    <2> QED BY <1>4, <2>1, <2>2 DEF RunInv, HoldsWhole
  <1> QED BY <1>3, <1>5, <1>6, <1>7 DEF RunInv

\* A run that holds nothing and is not inserting has little to keep.
LEMMA Outside ==
    ASSUME TypeOK, NEW r \in Runs, pend'[r] = NoRows, pc'[r] # "insert" \/ ~link'[r],
           Place(r)'
    PROVE  RunInv(r)'
  <1>1. \A k \in 1..MaxOrders, j \in 0..MaxLines : pend'[r][<<k, j>>] = NoRow
    BY KeyType, NoRowsType
  <1>2. 0 \in 0..MaxLines
    BY MaxLinesAssumption
  <1>3. Holds(r)' /\ HoldsWhole(r)'
    BY <1>1, <1>2 DEF Holds, HoldsWhole
  <1>4. Covers(r)'
    BY DEF Covers, Inserting
  <1> QED BY <1>3, <1>4 DEF RunInv

\* The committed rows keep their properties while they are what they were.
LEMMA TableKeeps ==
    ASSUME OrdersInv, table' = table, published' = published, KnownGrows,
           \A s \in Runs : pc[s] \in {"finish", "abort", "over"} =>
                               pc'[s] \in {"finish", "abort", "over"}
    PROVE  WholeOrders' /\ \A p \in published' : Complete(p)'
  <1>1. ASSUME NEW p \in published
        PROVE  known'[p.input] = known[p.input] /\ p.batch \in Runs
    BY DEF OrdersInv, TypeOK, KnownGrows
  <1>2. \A p \in published, key \in Keys : WrittenBy(p, key)' <=> WrittenBy(p, key)
    BY DEF WrittenBy
  <1>3. \A k \in 1..MaxOrders, j \in 1..MaxLines : <<k, 0>> \in Keys /\ <<k, j>> \in Keys
    <2>1. 0 \in 0..MaxLines /\ \A j \in 1..MaxLines : j \in 0..MaxLines
      BY MaxLinesAssumption
    <2> QED BY <2>1, KeyType
  <1>4. BatchesWhole'
    BY <1>1, <1>2, <1>3 DEF OrdersInv, WholeOrders, BatchesWhole
  <1>5. RowsPublished' /\ LinesContiguous'
    BY <1>2 DEF OrdersInv, WholeOrders, RowsPublished, LinesContiguous
  <1>6. ASSUME NEW p \in published PROVE Complete(p)'
    BY <1>1 DEF OrdersInv, Complete
  <1> QED BY <1>4, <1>5, <1>6 DEF WholeOrders

\* A step of r that commits nothing.
LEMMA Quiet ==
    ASSUME OrdersInv, NEW r \in Runs, TypeOK', table' = table, published' = published,
           KnownGrows, \A s \in Runs \ {r} : Frame(s),
           \A k \in 1..MaxOrders, j \in 0..MaxLines :
               pend'[r][<<k, j>>] # NoRow =>
                   \/ pend[r][<<k, j>>] # NoRow
                   \/ \A s \in Runs \ {r} : pend[s][<<k, j>>] = NoRow,
           pc[r] \in {"finish", "abort", "over"} => pc'[r] \in {"finish", "abort", "over"},
           RunInv(r)'
    PROVE  OrdersInv'
  <1>1. \A s \in Runs : pc[s] \in {"finish", "abort", "over"} =>
                            pc'[s] \in {"finish", "abort", "over"}
    BY DEF Frame
  <1>2. ASSUME NEW s \in Runs \ {r} PROVE RunInv(s)'
    <2>1. RunInv(s) /\ TypeOK
      BY DEF OrdersInv
    <2>2. Respects(s)
      <3> SUFFICES ASSUME NEW k \in 1..MaxOrders, NEW j \in 0..MaxLines,
                          pend[s][<<k, j>>] # NoRow
                   PROVE  /\ table'[<<k, j>>] = NoRow
                          /\ \A t \in Runs \ {s} : pend'[t][<<k, j>>] = NoRow
        BY DEF Respects
      <3>1. table[<<k, j>>] = NoRow /\ \A t \in Runs \ {s} : pend[t][<<k, j>>] = NoRow
        BY <2>1 DEF RunInv, Holds
      <3>2. \A t \in Runs \ {s, r} : pend'[t][<<k, j>>] = NoRow
        BY <3>1 DEF Frame
      <3>3. pend'[r][<<k, j>>] = NoRow
        BY <3>1
      <3> QED BY <3>1, <3>2, <3>3
    <2>3. TableGrows
      BY DEF TableGrows
    <2> QED BY <2>1, <2>2, <2>3, OthersKeep
  <1> QED BY <1>1, <1>2, TableKeeps DEF OrdersInv

-----------------------------------------------------------------------------
(* The steps.                                                              *)

\* Outside its transaction a run holds no row.
LEMMA HoldsNothing ==
    ASSUME TypeOK, NEW r \in Runs, RunInv(r), ~Inserting(r)
    PROVE  pend[r] = NoRows
  <1>1. \A key \in Keys : pend[r][key] = NoRow
    <2> SUFFICES ASSUME NEW key \in Keys PROVE pend[r][key] = NoRow
      OBVIOUS
    <2>1. key = <<key[1], key[2]>> /\ key[1] \in 1..MaxOrders /\ key[2] \in 0..MaxLines
      BY KeyType
    <2> QED BY <2>1 DEF RunInv, Holds
  <1>2. pend[r] \in [Keys -> OrderRow \cup {NoRow}]
    BY DEF TypeOK
  <1> QED BY <1>1, <1>2 DEF NoRows

\* A step after which r holds nothing.
LEMMA Aside ==
    ASSUME OrdersInv, NEW r \in Runs, TypeOK', table' = table, published' = published,
           KnownGrows, \A s \in Runs \ {r} : Frame(s),
           pend'[r] = NoRows, pc'[r] # "insert" \/ ~link'[r], Place(r)',
           pc[r] \in {"finish", "abort", "over"} => pc'[r] \in {"finish", "abort", "over"}
    PROVE  OrdersInv'
  <1>1. TypeOK
    BY DEF OrdersInv
  <1>2. RunInv(r)'
    BY <1>1, Outside
  <1>3. \A k \in 1..MaxOrders, j \in 0..MaxLines : pend'[r][<<k, j>>] = NoRow
    BY KeyType, NoRowsType
  <1> QED BY <1>2, <1>3, Quiet

\* Nobody has begun.
LEMMA InitEstablishes ==
    ASSUME Init
    PROVE  OrdersInv
  <1>1. TypeOK
    BY BlankType, NoRowsType DEF Init, TypeOK
  <1>2. ASSUME NEW r \in Runs PROVE RunInv(r)
    <2>1. \A k \in 1..MaxOrders, j \in 0..MaxLines : pend[r][<<k, j>>] = NoRow
      BY KeyType, NoRowsType DEF Init
    <2>2. 0 \in 0..MaxLines
      BY MaxLinesAssumption
    <2>3. pc[r] = "ready" /\ mem[r] = Blank
      BY DEF Init
    <2> QED BY <2>1, <2>2, <2>3, BlankType
            DEF RunInv, Place, Holds, Covers, HoldsWhole, Inserting
  <1>3. \A p \in published : Complete(p)
    BY DEF Init
  <1>4. WholeOrders
    <2>1. \A key \in Keys : table[key] = NoRow
      BY NoRowsType DEF Init
    <2>2. \A k \in 1..MaxOrders, j \in 0..MaxLines : table[<<k, j>>] = NoRow
      BY <2>1, KeyType
    <2>3. 0 \in 0..MaxLines
      BY MaxLinesAssumption
    <2> QED BY <2>1, <2>2, <2>3
            DEF WholeOrders, BatchesWhole, RowsPublished, LinesContiguous, Init
  <1> QED BY <1>1, <1>2, <1>3, <1>4 DEF OrdersInv

\* Up to the generator, nothing but r's memory and audit row changes.
LEMMA BeginningKeeps ==
    ASSUME OrdersInv, NEW r \in Runs,
           Connect(r) \/ ConnectFails(r) \/ CreateRun(r) \/ ReadUsers(r) \/ ReadProducts(r)
    PROVE  OrdersInv'
  <1> USE DEF OrdersInv
  <1>1. pend[r] = NoRows
    BY HoldsNothing DEF Connect, ConnectFails, CreateRun, ReadUsers, ReadProducts, Inserting
  <1>2. mem[r].at = <<1, 0>> /\ mem[r].inserted = 0 /\ mem[r] \in Memory
    BY MemoryType
       DEF RunInv, Place, Connect, ConnectFails, CreateRun, ReadUsers, ReadProducts
  <1>3. CASE Connect(r)
    <2>1. PICK s \in Seeds, n \in 1..MaxOrders :
             mem' = [mem EXCEPT ![r] = [Blank EXCEPT !.seed = s, !.count = n]]
      BY <1>3 DEF Connect
    <2>2. /\ [Blank EXCEPT !.seed = s, !.count = n] \in Memory
          /\ [Blank EXCEPT !.seed = s, !.count = n].at = <<1, 0>>
          /\ [Blank EXCEPT !.seed = s, !.count = n].inserted = 0
      BY BlankType DEF Memory
    <2>3. TypeOK'
      BY <1>3, <2>1, <2>2 DEF TypeOK, Connect
    <2>4. Place(r)' /\ pc'[r] = "create"
      BY <1>3, <2>1, <2>2 DEF TypeOK, Connect, Place
    <2> QED BY <1>1, <1>3, <2>1, <2>3, <2>4, Aside DEF Connect, Frame, KnownGrows, TypeOK
  <1>4. CASE ConnectFails(r)
    <2>1. TypeOK' /\ pc'[r] = "over"
      BY <1>4 DEF TypeOK, ConnectFails
    <2> QED BY <1>1, <1>4, <2>1, Aside DEF ConnectFails, Frame, KnownGrows, TypeOK, Place
  <1>5. CASE CreateRun(r)
    <2>1. TypeOK' /\ pc'[r] = "users"
      BY <1>5, AuditRowType DEF TypeOK, CreateRun
    <2> QED BY <1>1, <1>2, <1>5, <2>1, Aside DEF CreateRun, Frame, KnownGrows, TypeOK, Place
  <1>6. CASE ReadUsers(r)
    <2>1. PICK users \in SUBSET Users : mem' = [mem EXCEPT ![r].users = users]
      BY <1>6 DEF ReadUsers
    <2>2. mem'[r] \in Memory /\ mem'[r].at = <<1, 0>> /\ mem'[r].inserted = 0
      BY <1>2, <2>1 DEF TypeOK, Memory
    <2>3. TypeOK' /\ pc'[r] = "products"
      BY <1>6, <2>1, <2>2 DEF TypeOK, ReadUsers
    <2> QED BY <1>1, <1>6, <2>1, <2>2, <2>3, Aside
            DEF ReadUsers, Frame, KnownGrows, TypeOK, Place
  <1>7. CASE ReadProducts(r)
    <2>1. PICK products \in SUBSET Products : mem' = [mem EXCEPT ![r].products = products]
      BY <1>7 DEF ReadProducts
    <2>2. mem'[r] \in Memory /\ mem'[r].at = <<1, 0>> /\ mem'[r].inserted = 0
      BY <1>2, <2>1 DEF TypeOK, Memory
    <2>3. TypeOK' /\ pc'[r] = "generate"
      BY <1>7, <2>1, <2>2 DEF TypeOK, ReadProducts
    <2> QED BY <1>1, <1>7, <2>1, <2>2, <2>3, Aside
            DEF ReadProducts, Frame, KnownGrows, TypeOK, Place
  <1> QED BY <1>3, <1>4, <1>5, <1>6, <1>7

\* The generator runs, unless there is nothing to draw from.
LEMMA GenerateKeeps ==
    ASSUME OrdersInv, NEW r \in Runs, Generate(r)
    PROVE  OrdersInv'
  <1> USE DEF OrdersInv
  <1> DEFINE in == InputOf(r)
  <1>1. PICK plan \in Plans(mem[r].products) :
           /\ in \in DOMAIN known => plan = known[in]
           /\ known' = [i \in DOMAIN known \cup {in} |->
                           IF i = in THEN plan ELSE known[i]]
    BY DEF Generate
  <1>2. pc[r] = "generate" /\ in \in Inputs /\ pc' = [pc EXCEPT ![r] = "insert"]
    BY DEF Generate
  <1>3. /\ DOMAIN known' = DOMAIN known \cup {in}
        /\ known'[in] = plan
        /\ KnownGrows
    BY <1>1 DEF KnownGrows
  <1>4. \A i \in DOMAIN known' : known'[i] \in Plans(i.products)
    BY <1>1, <1>3 DEF TypeOK, KnownGrows, InputOf
  <1>5. TypeOK'
    <2>1. published \subseteq [batch : Runs, input : DOMAIN known', count : 1..MaxOrders]
      BY <1>3 DEF TypeOK
    <2>2. DOMAIN known' \subseteq Inputs
      BY <1>2, <1>3 DEF TypeOK
    <2> QED BY <1>2, <1>4, <2>1, <2>2 DEF TypeOK, Generate
  <1>6. pend[r] = NoRows
    BY <1>2, HoldsNothing DEF Inserting
  <1>7. /\ mem' = mem /\ link' = link /\ pend' = pend /\ pc'[r] = "insert"
        /\ table' = table /\ published' = published
        /\ \A s \in Runs \ {r} : Frame(s)
    BY DEF Generate, Frame, TypeOK
  <1>8. mem[r].at = <<1, 0>> /\ mem[r].at[1] = 1 /\ mem[r].at[2] = 0
    BY <1>2 DEF RunInv, Place
  <1>9. Place(r)'
    <2>1. InputOf(r)' = in /\ in \in DOMAIN known' /\ 1 \in 1..MaxOrders
      BY <1>3, <1>7, MaxOrdersAssumption DEF InputOf
    <2>2. Len(known'[in][1]) \in Nat
      <3>1. (Len(known[in][1]) \in Nat)'
        BY <1>5, <2>1, PlanType
      <3> QED BY <3>1, <1>7 DEF InputOf
    <2> QED BY <1>7, <1>8, <2>1, <2>2 DEF Place, Orders
  <1>10. RunInv(r)'
    <2>1. \A k \in 1..MaxOrders, j \in 0..MaxLines : pend'[r][<<k, j>>] = NoRow
      BY <1>6, <1>7, KeyType, NoRowsType
    <2>2. \A k \in 1..MaxOrders, j \in 0..MaxLines : ~Passed(r, k, j)'
      BY <1>7, <1>8 DEF Passed
    <2>3. 0 \in 0..MaxLines
      BY MaxLinesAssumption
    <2> QED BY <1>9, <2>1, <2>2, <2>3 DEF RunInv, Holds, Covers, HoldsWhole
  <1>11. \A k \in 1..MaxOrders, j \in 0..MaxLines :
            pend'[r][<<k, j>>] # NoRow => pend[r][<<k, j>>] # NoRow
    BY <1>7
  <1> QED BY <1>2, <1>3, <1>5, <1>7, <1>10, <1>11, Quiet

\* What raises, and what ends the call, commits nothing and holds nothing.
LEMMA EndingKeeps ==
    ASSUME OrdersInv, NEW r \in Runs,
           \/ NothingToDrawFrom(r) \/ Finish(r) \/ MarkFailed(r)
           \/ Raises(r) \/ Disconnect(r) \/ Crash(r)
    PROVE  OrdersInv'
  <1> USE DEF OrdersInv
  <1>1. ClosedRow(audit[r], "failed", Zero) \in Row \cup {NoRow}
    BY AuditRowType DEF TypeOK
  <1>2. SuccessRow(r) \in Row \cup {NoRow}
    BY MemoryType, AuditRowType DEF TypeOK, SuccessRow
  <1>3. /\ table' = table /\ published' = published /\ known' = known
        /\ \A s \in Runs \ {r} : Frame(s)
    BY DEF NothingToDrawFrom, Finish, MarkFailed, Raises, CreateRunRaises,
           TransactionRaises, FinishRaises, MarkFailedRaises, Disconnect, Crash,
           Leave, Frame, TypeOK
  <1>4. audit' \in [Runs -> Row \cup {NoRow}]
    BY <1>1, <1>2, AuditRowType
       DEF NothingToDrawFrom, Finish, MarkFailed, Raises, CreateRunRaises,
           TransactionRaises, FinishRaises, MarkFailedRaises, Disconnect, Crash, TypeOK
  <1>5. mem' \in [Runs -> Memory]
    BY BlankType
       DEF NothingToDrawFrom, Finish, MarkFailed, Raises, CreateRunRaises,
           TransactionRaises, FinishRaises, MarkFailedRaises, Disconnect, Crash,
           Leave, TypeOK
  <1>6. pend' \in [Runs -> [Keys -> OrderRow \cup {NoRow}]]
    BY NoRowsType
       DEF NothingToDrawFrom, Finish, MarkFailed, Raises, CreateRunRaises,
           TransactionRaises, FinishRaises, MarkFailedRaises, Disconnect, Crash,
           Leave, TypeOK
  <1>7. TypeOK'
    BY <1>3, <1>4, <1>5, <1>6
       DEF NothingToDrawFrom, Finish, MarkFailed, Raises, CreateRunRaises,
           TransactionRaises, FinishRaises, MarkFailedRaises, Disconnect, Crash,
           Leave, TypeOK
  <1>8. pend'[r] = NoRows
    <2>1. CASE NothingToDrawFrom(r)
      BY <2>1, HoldsNothing DEF NothingToDrawFrom, Inserting
    <2>2. CASE FinishRaises(r)
      BY <2>2, HoldsNothing DEF FinishRaises, Inserting
    <2> QED BY <2>1, <2>2
            DEF Finish, MarkFailed, Raises, CreateRunRaises, TransactionRaises,
                MarkFailedRaises, Disconnect, Crash, Leave, TypeOK
  <1>9. \/ pc'[r] \in {"abort", "over"}
        \/ pc' = pc /\ mem' = mem /\ ~link'[r]
    BY DEF NothingToDrawFrom, Finish, MarkFailed, Raises, CreateRunRaises,
           TransactionRaises, FinishRaises, MarkFailedRaises, Disconnect, Crash,
           Leave, TypeOK
  <1>10. Place(r)' /\ (pc'[r] # "insert" \/ ~link'[r])
    <2>1. Place(r)
      BY DEF RunInv
    <2> QED BY <1>3, <1>9, <2>1 DEF Place, InputOf, Orders
  <1>11. KnownGrows
    BY <1>3 DEF KnownGrows
  <1> QED BY <1>3, <1>7, <1>8, <1>9, <1>10, <1>11, Aside

\* Where the loops are, and what their next step is.
LEMMA LoopType ==
    ASSUME TypeOK, NEW r \in Runs, Place(r), pc[r] = "insert",
           mem[r].at[1] <= mem[r].count
    PROVE  /\ mem[r].at[1] \in 1..MaxOrders
           /\ mem[r].at \in Keys
           /\ Planned(r, mem[r].at[1], mem[r].at[2])
           /\ After(r) \in (1..MaxOrders + 1) \X (0..MaxLines)
           /\ Generated(r) = RowFor(r, mem[r].at[1], mem[r].at[2])
           /\ Generated(r) \in OrderRow
           /\ Generated(r) # NoRow
           /\ After(r)[1] <= mem[r].count =>
                  After(r)[2] <= Len(Orders(r)[After(r)[1]])
           /\ \A k \in 1..MaxOrders, j \in 0..MaxLines :
                  Planned(r, k, j) =>
                      (\/ k < After(r)[1]
                       \/ k = After(r)[1] /\ j < After(r)[2])
                        <=> Passed(r, k, j) \/ (k = mem[r].at[1] /\ j = mem[r].at[2])
  <1> DEFINE K == mem[r].at[1]
             J == mem[r].at[2]
             n == Len(Orders(r)[K])
  <1>1. K \in 1..MaxOrders /\ J \in 0..MaxLines /\ mem[r].at = <<K, J>>
    BY MemoryType
  <1>2. \A k \in 1..MaxOrders : /\ Len(Orders(r)[k]) \in 1..MaxLines
                                /\ Len(Orders(r)[k]) \in Nat
                                /\ \A j \in 1..Len(Orders(r)[k]) : Orders(r)[k][j] \in Products
    BY PlanType DEF Place, Orders
  <1>3. J <= n /\ n \in 1..MaxLines
    BY <1>1, <1>2 DEF Place
  <1>4. After(r) = IF J < n THEN <<K, J + 1>> ELSE <<K + 1, 0>>
    BY DEF After
  <1>5. mem[r].at \in Keys
    BY <1>1, KeyType
  <1>6. Planned(r, K, J)
    BY <1>3 DEF Planned
  <1>7. After(r) \in (1..MaxOrders + 1) \X (0..MaxLines)
    BY <1>1, <1>3, <1>4, MemoryType
  <1>8. Generated(r) = RowFor(r, K, J)
    BY DEF Generated, RowFor
  <1>9. Generated(r) \in OrderRow
    <2>1. J # 0 => Orders(r)[K][J] \in Products
      BY <1>1, <1>2, <1>3, MemoryType
    <2> QED BY <2>1 DEF Generated, OrderRow
  <1>10. Generated(r) # NoRow
    BY <1>9, MarksAssumption
  <1>11. After(r)[1] <= mem[r].count => After(r)[2] <= Len(Orders(r)[After(r)[1]])
    <2>1. CASE J < n
      <3>1. After(r)[1] = K /\ After(r)[2] = J + 1
        BY <1>4, <2>1
      <3> QED BY <1>1, <1>3, <2>1, <3>1, MemoryType
    <2>2. CASE ~(J < n)
      <3>1. After(r)[1] = K + 1 /\ After(r)[2] = 0
        BY <1>4, <2>2
      <3>2. K + 1 <= mem[r].count => K + 1 \in 1..MaxOrders
        BY <1>1, MemoryType
      <3> QED BY <1>2, <3>1, <3>2
    <2> QED BY <2>1, <2>2
  <1>12. ASSUME NEW k \in 1..MaxOrders, NEW j \in 0..MaxLines, Planned(r, k, j)
         PROVE  (k < After(r)[1] \/ (k = After(r)[1] /\ j < After(r)[2]))
                  <=> Passed(r, k, j) \/ (k = K /\ j = J)
    <2>1. k = K => j <= n
      BY <1>12 DEF Planned
    <2>2. CASE J < n
      <3>1. After(r)[1] = K /\ After(r)[2] = J + 1
        BY <1>4, <2>2
      <3> QED BY <1>1, <3>1, MemoryType DEF Passed
    <2>3. CASE ~(J < n)
      <3>1. After(r)[1] = K + 1 /\ After(r)[2] = 0
        BY <1>4, <2>3
      <3> QED BY <1>1, <1>3, <2>1, <2>3, <3>1, MemoryType DEF Passed
    <2> QED BY <2>2, <2>3
  <1> QED BY <1>1, <1>5, <1>6, <1>7, <1>8, <1>9, <1>10, <1>11, <1>12

\* One INSERT: the row is r's until the transaction ends, or was there already.
LEMMA InsertKeeps ==
    ASSUME OrdersInv, NEW r \in Runs, Insert(r)
    PROVE  OrdersInv'
  <1> USE DEF OrdersInv
  <1> DEFINE K == mem[r].at[1]
             J == mem[r].at[2]
             fresh == table[<<K, J>>] = NoRow
  <1>1. Place(r) /\ Holds(r) /\ Covers(r) /\ HoldsWhole(r)
    BY DEF RunInv
  <1>2. pc[r] = "insert" /\ link[r] /\ K <= mem[r].count /\ KeyFree(r, mem[r].at)
    BY DEF Insert
  <1>3. mem[r].at = <<K, J>> /\ <<K, J>> \in Keys /\ K \in 1..MaxOrders /\ J \in 0..MaxLines
    BY <1>1, <1>2, LoopType, MemoryType
  <1>4. /\ table' = table /\ known' = known /\ audit' = audit /\ pc' = pc
        /\ link' = link /\ published' = published
    BY DEF Insert
  <1>5. /\ mem' \in [Runs -> Memory]
        /\ mem'[r].at = After(r)
        /\ mem'[r].count = mem[r].count
        /\ InputOf(r)' = InputOf(r)
        /\ \A s \in Runs \ {r} : mem'[s] = mem[s]
    <2> DEFINE at == After(r)
    <2>1. at \in (1..MaxOrders + 1) \X (0..MaxLines)
      BY <1>1, <1>2, LoopType
    <2>2. mem[r].inserted + 1 \in Nat
      BY MemoryType
    <2>3. mem[r] \in Memory /\ mem \in [Runs -> Memory]
      BY DEF TypeOK
    <2>4. \/ mem' = [mem EXCEPT ![r].at = at, ![r].inserted = @ + 1]
          \/ mem' = [mem EXCEPT ![r].at = at]
      BY DEF Insert
    <2> HIDE DEF at
    <2>5. /\ mem'[r] \in Memory /\ mem'[r].at = at /\ mem'[r].count = mem[r].count
          /\ mem'[r].seed = mem[r].seed /\ mem'[r].users = mem[r].users
          /\ mem'[r].products = mem[r].products
      BY <2>1, <2>2, <2>3, <2>4 DEF Memory
    <2>6. mem' \in [Runs -> Memory] /\ \A s \in Runs \ {r} : mem'[s] = mem[s]
      BY <2>3, <2>4, <2>5
    <2> QED BY <2>5, <2>6 DEF InputOf, at
  <1>6. pend' = IF fresh THEN [pend EXCEPT ![r][<<K, J>>] = Generated(r)] ELSE pend
    BY <1>3 DEF Insert
  <1>7. /\ pend' \in [Runs -> [Keys -> OrderRow \cup {NoRow}]]
        /\ \A s \in Runs \ {r} : pend'[s] = pend[s]
        /\ \A key \in Keys : pend'[r][key] =
               IF fresh /\ key = <<K, J>> THEN Generated(r) ELSE pend[r][key]
    <2>1. Generated(r) \in OrderRow
      BY <1>1, <1>2, LoopType
    <2> QED BY <1>3, <1>6, <2>1 DEF TypeOK
  <1>8. TypeOK'
    BY <1>4, <1>5, <1>7 DEF TypeOK
  <1>9. Orders(r)' = Orders(r) /\ Inserting(r)' /\ Inserting(r)
    BY <1>2, <1>4, <1>5 DEF Orders, Inserting
  <1>10. Place(r)'
    <2>1. After(r)[1] <= mem[r].count => After(r)[2] <= Len(Orders(r)[After(r)[1]])
      BY <1>1, <1>2, LoopType
    <2> QED BY <1>1, <1>2, <1>4, <1>5, <1>9, <2>1 DEF Place
  <1>11. ASSUME NEW k \in 1..MaxOrders, NEW j \in 0..MaxLines
         PROVE  /\ Planned(r, k, j)' = Planned(r, k, j)
                /\ RowFor(r, k, j)' = RowFor(r, k, j)
                /\ Planned(r, k, j) =>
                      (Passed(r, k, j)' <=> Passed(r, k, j) \/ (k = K /\ j = J))
                /\ <<k, j>> \in Keys
    BY <1>1, <1>2, <1>5, <1>9, LoopType, KeyType DEF Planned, RowFor, Passed
  <1>12. Planned(r, K, J) /\ Generated(r) = RowFor(r, K, J) /\ Generated(r) # NoRow
    BY <1>1, <1>2, LoopType
  <1>13. \A s \in Runs \ {r} : pend[s][<<K, J>>] = NoRow
    BY <1>2, <1>3 DEF KeyFree
  <1>14. Holds(r)'
    <2> SUFFICES ASSUME NEW k \in 1..MaxOrders, NEW j \in 0..MaxLines,
                        pend'[r][<<k, j>>] # NoRow
                 PROVE  /\ Planned(r, k, j)' /\ Passed(r, k, j)'
                        /\ pend'[r][<<k, j>>] = RowFor(r, k, j)'
                        /\ table'[<<k, j>>] = NoRow
                        /\ \A s \in Runs \ {r} : pend'[s][<<k, j>>] = NoRow
      BY <1>9 DEF Holds
    <2> USE <1>4, <1>7
    <2>1. CASE fresh /\ <<k, j>> = <<K, J>>
      <3>1. k = K /\ j = J
        BY <2>1
      <3> QED BY <1>7, <1>11, <1>12, <1>13, <2>1, <3>1
    <2>2. CASE ~(fresh /\ <<k, j>> = <<K, J>>)
      <3>1. pend'[r][<<k, j>>] = pend[r][<<k, j>>]
        BY <1>7, <1>11, <2>2
      <3>2. /\ Planned(r, k, j) /\ Passed(r, k, j)
            /\ pend[r][<<k, j>>] = RowFor(r, k, j)
            /\ table[<<k, j>>] = NoRow
            /\ \A s \in Runs \ {r} : pend[s][<<k, j>>] = NoRow
        BY <1>1, <3>1 DEF Holds
      <3> QED BY <1>11, <3>1, <3>2
    <2> QED BY <2>1, <2>2
  <1>15. ASSUME NEW k \in 1..MaxOrders, NEW j \in 0..MaxLines, pend[r][<<k, j>>] # NoRow
         PROVE  pend'[r][<<k, j>>] # NoRow
    BY <1>7, <1>11, <1>12, <1>15
  <1>16. Covers(r)'
    <2> SUFFICES ASSUME NEW k \in 1..MaxOrders, NEW j \in 0..MaxLines,
                        Planned(r, k, j)', Passed(r, k, j)'
                 PROVE  table[<<k, j>>] # NoRow \/ pend'[r][<<k, j>>] # NoRow
      BY <1>4 DEF Covers
    <2>1. CASE Passed(r, k, j)
      BY <1>1, <1>9, <1>11, <1>15, <2>1 DEF Covers
    <2>2. CASE k = K /\ j = J
      BY <1>7, <1>11, <1>12, <2>2
    <2> QED BY <1>11, <2>1, <2>2
  <1>17. HoldsWhole(r)'
    <2> SUFFICES ASSUME NEW k \in 1..MaxOrders, NEW j \in 1..MaxLines,
                        pend'[r][<<k, 0>>] # NoRow,
                        Planned(r, k, j)', Passed(r, k, j)'
                 PROVE  pend'[r][<<k, j>>] # NoRow
      BY DEF HoldsWhole
    <2>1. 0 \in 0..MaxLines /\ j \in 0..MaxLines /\ j # 0 /\ 0 < j
      BY MaxLinesAssumption
    <2>2. Planned(r, k, j) /\ (Passed(r, k, j) \/ (k = K /\ j = J))
      BY <1>11, <2>1
    <2>3. pend[r][<<k, 0>>] # NoRow
      <3>1. CASE k = K /\ 0 = J
        <4>1. Passed(r, k, j)
          BY <2>1, <2>2, <3>1
        <4> QED BY <2>1, <3>1, <4>1, <1>3 DEF Passed
      <3>2. CASE ~(k = K /\ 0 = J)
        <4>1. <<k, 0>> # <<K, J>> /\ <<k, 0>> \in Keys
          BY <1>11, <2>1, <3>2
        <4> QED BY <1>7, <4>1
      <3> QED BY <3>1, <3>2
    <2>4. CASE Passed(r, k, j)
      BY <1>1, <1>15, <2>1, <2>2, <2>3, <2>4 DEF HoldsWhole
    <2>5. CASE k = K /\ j = J
      <3>1. table[<<k, 0>>] = NoRow
        BY <1>1, <2>1, <2>3 DEF Holds
      <3>2. table[<<k, j>>] = NoRow
        BY <2>1, <3>1 DEF WholeOrders, LinesContiguous
      <3> QED BY <1>7, <1>11, <1>12, <2>1, <2>5, <3>2
    <2> QED BY <2>2, <2>4, <2>5
  <1>18. RunInv(r)'
    BY <1>10, <1>14, <1>16, <1>17 DEF RunInv
  <1>19. \A s \in Runs \ {r} : Frame(s)
    BY <1>4, <1>5, <1>7 DEF Frame
  <1>20. ASSUME NEW k \in 1..MaxOrders, NEW j \in 0..MaxLines, pend'[r][<<k, j>>] # NoRow
         PROVE  \/ pend[r][<<k, j>>] # NoRow
                \/ \A s \in Runs \ {r} : pend[s][<<k, j>>] = NoRow
    BY <1>7, <1>11, <1>13, <1>20
  <1>21. KnownGrows
    BY <1>4 DEF KnownGrows
  <1> QED BY <1>4, <1>8, <1>18, <1>19, <1>20, <1>21, Quiet

\* No committed row carries the batch_id of a run amid its inserts.
LEMMA NothingYet ==
    ASSUME OrdersInv, NEW r \in Runs, pc[r] = "insert"
    PROVE  /\ \A p \in published : p.batch # r
           /\ \A key \in Keys : table[key] # NoRow => table[key].batch # r
  <1>1. \A p \in published : p.batch # r
    BY DEF OrdersInv, Complete
  <1>2. ASSUME NEW key \in Keys, table[key] # NoRow PROVE table[key].batch # r
    <2>1. PICK p \in published : WrittenBy(p, key)
      BY <1>2 DEF OrdersInv, WholeOrders, RowsPublished
    <2> QED BY <1>1, <2>1 DEF WrittenBy
  <1> QED BY <1>1, <1>2

\* COMMIT: the transaction's rows join the table, every order of them whole.
LEMMA PublishKeeps ==
    ASSUME OrdersInv, NEW r \in Runs, Commit(r) \/ CommitUnacknowledged(r)
    PROVE  OrdersInv'
  <1> USE DEF OrdersInv
  <1>0. PICK new : new = [batch |-> r, input |-> InputOf(r), count |-> mem[r].count]
    OBVIOUS
  <1>1. Place(r) /\ Holds(r) /\ Covers(r) /\ HoldsWhole(r)
    BY DEF RunInv
  <1>2. /\ pc[r] = "insert" /\ Inserting(r) /\ mem[r].at[1] > mem[r].count
        /\ Publish(r)
        /\ known' = known /\ audit' = audit /\ mem' = mem
    BY DEF Commit, CommitUnacknowledged, AllInserted, Inserting
  <1>3. /\ pc' \in [Runs -> {"ready", "create", "users", "products", "generate",
                             "insert", "finish", "abort", "over"}]
        /\ link' \in [Runs -> BOOLEAN]
        /\ pc'[r] \in {"finish", "abort"}
        /\ \A s \in Runs \ {r} : pc'[s] = pc[s] /\ link'[s] = link[s]
    BY DEF Commit, CommitUnacknowledged, TypeOK
  <1>4. /\ pend' = [pend EXCEPT ![r] = NoRows]
        /\ published' = published \cup {new}
    BY <1>0, <1>2 DEF Publish
  <1>5. \A key \in Keys :
           table'[key] = IF pend[r][key] = NoRow THEN table[key] ELSE pend[r][key]
    BY <1>2 DEF Publish
  <1>6. /\ InputOf(r) \in DOMAIN known
        /\ new \in [batch : Runs, input : DOMAIN known, count : 1..MaxOrders]
        /\ new.batch = r /\ known[new.input] = Orders(r) /\ new.count = mem[r].count
    BY <1>0, <1>1, <1>2, MemoryType DEF Place, Orders
  <1>7. TypeOK'
    <2>1. table' \in [Keys -> OrderRow \cup {NoRow}]
      BY <1>2 DEF Publish, TypeOK
    <2>2. pend' \in [Runs -> [Keys -> OrderRow \cup {NoRow}]]
      BY <1>4, NoRowsType DEF TypeOK
    <2>3. published' \subseteq [batch : Runs, input : DOMAIN known', count : 1..MaxOrders]
      BY <1>2, <1>4, <1>6 DEF TypeOK
    <2> QED BY <1>2, <1>3, <2>1, <2>2, <2>3 DEF TypeOK
  <1>8. ASSUME NEW k \in 1..MaxOrders, NEW j \in 0..MaxLines
        PROVE  /\ <<k, j>> \in Keys
               /\ Planned(r, k, j) <=> k <= mem[r].count /\ j <= Len(Orders(r)[k])
               /\ Planned(r, k, j) => Passed(r, k, j) /\ table'[<<k, j>>] # NoRow
               /\ pend[r][<<k, j>>] # NoRow =>
                      /\ Planned(r, k, j)
                      /\ pend[r][<<k, j>>] = RowFor(r, k, j)
                      /\ pend[r][<<k, j>>].batch = r
                      /\ table[<<k, j>>] = NoRow
               /\ table'[<<k, j>>] =
                      IF pend[r][<<k, j>>] = NoRow THEN table[<<k, j>>] ELSE pend[r][<<k, j>>]
    <2>1. <<k, j>> \in Keys
      BY KeyType
    <2>2. Planned(r, k, j) => Passed(r, k, j)
      BY <1>2, MemoryType DEF Planned, Passed
    <2>3. Planned(r, k, j) => table[<<k, j>>] # NoRow \/ pend[r][<<k, j>>] # NoRow
      BY <1>1, <1>2, <2>2 DEF Covers
    <2>4. RowFor(r, k, j).batch = r
      BY DEF RowFor
    <2>5. pend[r][<<k, j>>] # NoRow =>
             /\ Planned(r, k, j)
             /\ pend[r][<<k, j>>] = RowFor(r, k, j)
             /\ table[<<k, j>>] = NoRow
      BY <1>1 DEF Holds
    <2> QED BY <1>5, <2>1, <2>2, <2>3, <2>4, <2>5 DEF Planned
  <1>9. TableGrows
    <2> SUFFICES ASSUME NEW key \in Keys, table[key] # NoRow PROVE table'[key] = table[key]
      BY DEF TableGrows
    <2>1. key = <<key[1], key[2]>> /\ key[1] \in 1..MaxOrders /\ key[2] \in 0..MaxLines
      BY KeyType
    <2>2. pend[r][key] = NoRow
      BY <1>8, <2>1
    <2> QED BY <1>5, <2>2
  <1>10. KnownGrows
    BY <1>2 DEF KnownGrows
  <1>11. ASSUME NEW s \in Runs PROVE RunInv(s)'
    <2>1. CASE s = r
      <3>1. pend'[r] = NoRows
        BY <1>4 DEF TypeOK
      <3>2. Place(r)'
        BY <1>3 DEF Place
      <3> QED BY <1>3, <2>1, <3>1, <3>2, Outside
    <2>2. CASE s # r
      <3>1. Frame(s)
        BY <1>2, <1>3, <1>4, <2>2 DEF Frame, TypeOK
      <3>2. Respects(s)
        <4> SUFFICES ASSUME NEW k \in 1..MaxOrders, NEW j \in 0..MaxLines,
                            pend[s][<<k, j>>] # NoRow
                     PROVE  /\ table'[<<k, j>>] = NoRow
                            /\ \A t \in Runs \ {s} : pend'[t][<<k, j>>] = NoRow
          BY DEF Respects
        <4>1. table[<<k, j>>] = NoRow /\ \A t \in Runs \ {s} : pend[t][<<k, j>>] = NoRow
          BY DEF RunInv, Holds
        <4>2. table'[<<k, j>>] = NoRow
          BY <1>8, <2>2, <4>1
        <4>3. ASSUME NEW t \in Runs \ {s} PROVE pend'[t][<<k, j>>] = NoRow
          BY <1>4, <1>8, <4>1, NoRowsType DEF TypeOK
        <4> QED BY <4>2, <4>3
      <3> QED BY <1>9, <1>10, <3>1, <3>2, OthersKeep
    <2> QED BY <2>1, <2>2
  <1>12. ASSUME NEW p \in published' PROVE Complete(p)'
    <2>1. CASE p \in published
      <3>1. p.batch \in Runs /\ pc'[p.batch] \in {"finish", "abort", "over"}
        BY <1>3, <2>1 DEF Complete, TypeOK
      <3>2. ASSUME NEW k \in 1..MaxOrders, NEW j \in 0..MaxLines,
                   k <= p.count, j <= Len(known[p.input][k])
            PROVE  table'[<<k, j>>] # NoRow
        BY <1>8, <1>9, <2>1, <3>2 DEF Complete, TableGrows
      <3> QED BY <1>2, <3>1, <3>2 DEF Complete
    <2>2. CASE p = new
      <3>1. ASSUME NEW k \in 1..MaxOrders, NEW j \in 0..MaxLines,
                   k <= p.count, j <= Len(known[p.input][k])
            PROVE  table'[<<k, j>>] # NoRow
        BY <1>6, <1>8, <2>2, <3>1
      <3> QED BY <1>2, <1>3, <1>6, <2>2, <3>1 DEF Complete
    <2> QED BY <1>4, <2>1, <2>2
  <1>13. ASSUME NEW p \in published, NEW k \in 1..MaxOrders, NEW j \in 0..MaxLines
         PROVE  WrittenBy(p, <<k, j>>)' <=> WrittenBy(p, <<k, j>>)
    <2>1. p.batch # r
      BY <1>2, NothingYet
    <2>2. CASE pend[r][<<k, j>>] = NoRow
      BY <1>8, <2>2 DEF WrittenBy
    <2>3. CASE pend[r][<<k, j>>] # NoRow
      BY <1>8, <2>1, <2>3 DEF WrittenBy
    <2> QED BY <2>2, <2>3
  <1>14. ASSUME NEW k \in 1..MaxOrders, NEW j \in 0..MaxLines
         PROVE  WrittenBy(new, <<k, j>>)' <=> pend[r][<<k, j>>] # NoRow
    <2>1. CASE pend[r][<<k, j>>] = NoRow
      BY <1>2, <1>6, <1>8, <2>1, NothingYet DEF WrittenBy
    <2>2. CASE pend[r][<<k, j>>] # NoRow
      BY <1>6, <1>8, <2>2 DEF WrittenBy
    <2> QED BY <2>1, <2>2
  <1>15. 0 \in 0..MaxLines /\ 1 \in 0..MaxLines
         /\ \A j \in 1..MaxLines : j \in 0..MaxLines /\ j # 0
    BY MaxLinesAssumption
  <1>16. BatchesWhole'
    <2> SUFFICES ASSUME NEW p \in published', NEW k \in 1..MaxOrders,
                        WrittenBy(p, <<k, 0>>)', NEW j \in 1..MaxLines
                 PROVE  IF j <= Len(known[p.input][k])
                        THEN /\ WrittenBy(p, <<k, j>>)'
                             /\ table'[<<k, j>>].product = known[p.input][k][j]
                        ELSE ~WrittenBy(p, <<k, j>>)'
      BY <1>2 DEF BatchesWhole
    <2>1. CASE p \in published
      <3>1. WrittenBy(p, <<k, 0>>)
        BY <1>13, <1>15, <2>1
      <3>2. IF j <= Len(known[p.input][k])
            THEN WrittenBy(p, <<k, j>>) /\ table[<<k, j>>].product = known[p.input][k][j]
            ELSE ~WrittenBy(p, <<k, j>>)
        BY <2>1, <3>1 DEF WholeOrders, BatchesWhole
      <3>3. WrittenBy(p, <<k, j>>) => table'[<<k, j>>] = table[<<k, j>>]
        BY <1>8, <1>9, <1>15 DEF WrittenBy, TableGrows
      <3> QED BY <1>13, <1>15, <2>1, <3>2, <3>3
    <2>2. CASE p = new
      <3>1. pend[r][<<k, 0>>] # NoRow
        BY <1>14, <1>15, <2>2
      <3>2. k <= mem[r].count
        BY <1>8, <1>15, <3>1
      <3>3. CASE j <= Len(Orders(r)[k])
        <4>1. Planned(r, k, j) /\ Passed(r, k, j)
          BY <1>8, <1>15, <3>2, <3>3
        <4>2. pend[r][<<k, j>>] # NoRow
          BY <1>1, <3>1, <4>1 DEF HoldsWhole
        <4>3. table'[<<k, j>>] = RowFor(r, k, j)
          BY <1>8, <1>15, <4>2
        <4>4. table'[<<k, j>>].product = Orders(r)[k][j]
          BY <1>15, <4>3 DEF RowFor
        <4> QED BY <1>6, <1>14, <1>15, <2>2, <3>3, <4>2, <4>4
      <3>4. CASE ~(j <= Len(Orders(r)[k]))
        BY <1>6, <1>8, <1>14, <1>15, <2>2, <3>4
      <3> QED BY <3>3, <3>4
    <2> QED BY <1>4, <2>1, <2>2
  <1>17. RowsPublished'
    <2> SUFFICES ASSUME NEW key \in Keys, table'[key] # NoRow
                 PROVE  \E p \in published' : WrittenBy(p, key)'
      BY DEF RowsPublished
    <2>1. key = <<key[1], key[2]>> /\ key[1] \in 1..MaxOrders /\ key[2] \in 0..MaxLines
      BY KeyType
    <2>2. CASE pend[r][key] # NoRow
      <3>1. WrittenBy(new, key)'
        BY <1>14, <2>1, <2>2
      <3> QED BY <1>4, <3>1
    <2>3. CASE pend[r][key] = NoRow
      <3>1. table[key] # NoRow
        BY <1>5, <2>3
      <3>2. PICK p \in published : WrittenBy(p, key)
        BY <3>1 DEF WholeOrders, RowsPublished
      <3>3. WrittenBy(p, key)'
        BY <1>13, <2>1, <3>2
      <3> QED BY <1>4, <3>3
    <2> QED BY <2>2, <2>3
  <1>18. LinesContiguous'
    <2>1. ASSUME NEW k \in 1..MaxOrders, table'[<<k, 0>>] # NoRow
          PROVE  table'[<<k, 1>>] # NoRow
      <3>1. CASE table[<<k, 0>>] # NoRow
        <4>1. table[<<k, 1>>] # NoRow
          BY <3>1 DEF WholeOrders, LinesContiguous
        <4> QED BY <1>8, <1>9, <1>15, <4>1 DEF TableGrows
      <3>2. CASE table[<<k, 0>>] = NoRow
        <4>1. pend[r][<<k, 0>>] # NoRow
          BY <1>8, <1>15, <2>1, <3>2
        <4>2. k <= mem[r].count
          BY <1>8, <1>15, <4>1
        <4>3. Len(Orders(r)[k]) \in 1..MaxLines
          BY <1>6, PlanType DEF Orders
        <4>4. 1 <= Len(Orders(r)[k])
          BY <4>3, MaxLinesAssumption
        <4> QED BY <1>8, <1>15, <4>2, <4>4
      <3> QED BY <3>1, <3>2
    <2>2. ASSUME NEW k \in 1..MaxOrders, NEW i \in 0..MaxLines, NEW j \in 0..MaxLines,
                 i < j, table'[<<k, j>>] # NoRow
          PROVE  table'[<<k, i>>] # NoRow
      <3>1. CASE table[<<k, j>>] # NoRow
        <4>1. table[<<k, i>>] # NoRow
          BY <2>2, <3>1 DEF WholeOrders, LinesContiguous
        <4> QED BY <1>8, <1>9, <4>1 DEF TableGrows
      <3>2. CASE table[<<k, j>>] = NoRow
        <4>1. Planned(r, k, j)
          BY <1>8, <2>2, <3>2
        <4>2. Len(Orders(r)[k]) \in Nat
          BY <1>6, PlanType DEF Orders
        <4>3. Planned(r, k, i)
          BY <2>2, <4>1, <4>2, MaxLinesAssumption DEF Planned
        <4> QED BY <1>8, <4>3
      <3> QED BY <3>1, <3>2
    <2> QED BY <2>1, <2>2 DEF LinesContiguous
  <1> QED BY <1>7, <1>11, <1>12, <1>16, <1>17, <1>18 DEF WholeOrders

\* Every step of the program keeps the invariant.
LEMMA NextKeeps ==
    ASSUME OrdersInv, [Next]_vars
    PROVE  OrdersInv'
  <1>1. CASE UNCHANGED vars
    <2>1. TypeOK /\ TypeOK'
      BY <1>1 DEF vars, OrdersInv, TypeOK
    <2>2. KnownGrows /\ TableGrows
      BY <1>1 DEF vars, KnownGrows, TableGrows
    <2>3. ASSUME NEW s \in Runs PROVE RunInv(s)'
      <3>1. RunInv(s) /\ Frame(s)
        BY <1>1 DEF vars, OrdersInv, Frame
      <3>2. Respects(s)
        BY <1>1, <3>1 DEF vars, RunInv, Holds, Respects
      <3> QED BY <2>1, <2>2, <3>1, <3>2, OthersKeep
    <2>4. WholeOrders' /\ \A p \in published' : Complete(p)'
      BY <1>1, <2>2, TableKeeps DEF vars
    <2> QED BY <2>1, <2>3, <2>4 DEF OrdersInv
  <1>2. ASSUME NEW r \in Runs, Step(r) \/ Raises(r) \/ Disconnect(r) \/ Crash(r)
        PROVE  OrdersInv'
    <2>1. CASE Connect(r) \/ ConnectFails(r) \/ CreateRun(r) \/ ReadUsers(r) \/ ReadProducts(r)
      BY <2>1, BeginningKeeps
    <2>2. CASE Generate(r)
      BY <2>2, GenerateKeeps
    <2>3. CASE Insert(r)
      BY <2>3, InsertKeeps
    <2>4. CASE Commit(r) \/ CommitUnacknowledged(r)
      BY <2>4, PublishKeeps
    <2>5. CASE NothingToDrawFrom(r) \/ Finish(r) \/ MarkFailed(r)
               \/ Raises(r) \/ Disconnect(r) \/ Crash(r)
      BY <2>5, EndingKeeps
    <2> QED BY <1>2, <2>1, <2>2, <2>3, <2>4, <2>5 DEF Step
  <1> QED BY <1>1, <1>2 DEF Next, AllOver

-----------------------------------------------------------------------------
(* The theorems.                                                           *)

\* OrdersInv is an invariant of run_order_generation.
THEOREM OrdersInvariant == Spec => []OrdersInv
  <1>1. Init => OrdersInv
    BY InitEstablishes
  <1>2. OrdersInv /\ [Next]_vars => OrdersInv'
    BY NextKeeps
  <1> QED BY <1>1, <1>2, PTL DEF Spec

\* Every variable always has its type.
THEOREM OrdersTypeCorrect == Spec => []TypeOK
  <1>1. OrdersInv => TypeOK
    BY DEF OrdersInv
  <1> QED BY <1>1, OrdersInvariant, PTL

\* The batch that wrote an order row wrote the order's lines, all of them and as
\* generated, whatever crashes, breaks or overlaps (load_orders' transaction).
THEOREM OrdersAreWhole == Spec => []WholeOrders
  <1>1. OrdersInv => WholeOrders
    BY DEF OrdersInv
  <1> QED BY <1>1, OrdersInvariant, PTL

\* Generating a date's orders again from the same input inserts nothing, once
\* the first run has committed (ON CONFLICT DO NOTHING, deterministic ids).
THEOREM RerunIsIdle == Spec => []RerunInsertsNothing
  <1>1. ASSUME OrdersInv PROVE RerunInsertsNothing
    <2> SUFFICES ASSUME NEW r \in Runs, NEW p \in published, pc[r] = "insert",
                        p.input = InputOf(r), mem[r].count <= p.count
                 PROVE  pend[r] = NoRows
      BY DEF RerunInsertsNothing
    <2> USE <1>1 DEF OrdersInv
    <2>1. Holds(r) /\ Complete(p) /\ p.count \in 1..MaxOrders
      BY DEF RunInv, TypeOK
    <2>2. ASSUME NEW key \in Keys PROVE pend[r][key] = NoRow
      <3> DEFINE k == key[1]
                 j == key[2]
      <3>1. key = <<k, j>> /\ k \in 1..MaxOrders /\ j \in 0..MaxLines
        BY KeyType
      <3>2. Planned(r, k, j) => k <= p.count /\ j <= Len(known[p.input][k])
        BY <2>1, <3>1, MemoryType DEF Planned, Orders
      <3>3. Planned(r, k, j) => table[<<k, j>>] # NoRow
        BY <2>1, <3>1, <3>2 DEF Complete
      <3> QED BY <2>1, <3>1, <3>3 DEF Holds
    <2>3. pend[r] \in [Keys -> OrderRow \cup {NoRow}]
      BY DEF TypeOK
    <2> QED BY <2>2, <2>3 DEF NoRows
  <1>2. OrdersInv => RerunInsertsNothing
    BY <1>1
  <1> QED BY <1>2, OrdersInvariant, PTL

-----------------------------------------------------------------------------
(* What the audit row says.                                                *)

\* The keys of the rows r's open transaction holds.
Held(r) == {key \in Keys : pend[r][key] # NoRow}

\* The rowcounts add up to the rows, and only a finished run is marked successful.
Counting(r) ==
    /\ Inserting(r) => mem[r].inserted = Cardinality(Held(r))
    /\ pc[r] = "finish" => mem[r].inserted = Cardinality(RowsOf(r))
    /\ audit[r] # NoRow /\ pc[r] \notin {"abort", "over"} => audit[r].status = "running"

RowTells(r) ==
    audit[r] # NoRow =>
        IF audit[r].status = "success"
        THEN audit[r].counts.inserted = Cardinality(RowsOf(r))
        ELSE audit[r].counts = Zero

CountsInv == OrdersInv /\ \A r \in Runs : Counting(r) /\ RowTells(r)

\* What a transaction holds is a finite set.
LEMMA HeldFinite ==
    ASSUME NEW r \in Runs
    PROVE  IsFiniteSet(Held(r))
  <1>1. IsFiniteSet(1..MaxOrders) /\ IsFiniteSet(0..MaxLines)
    BY FS_Interval, MaxOrdersAssumption, MaxLinesAssumption
  <1>2. IsFiniteSet(Keys)
    BY <1>1, FS_Product DEF Keys
  <1> QED BY <1>2, FS_Subset DEF Held

\* A step that leaves the rows of s, its transaction and its audit row alone.
LEMMA CountingStays ==
    ASSUME NEW s \in Runs, Counting(s), RowTells(s), Frame(s), audit'[s] = audit[s],
           RowsOf(s)' = RowsOf(s)
    PROVE  Counting(s)' /\ RowTells(s)'
  <1>1. Held(s)' = Held(s)
    BY DEF Held, Frame
  <1> QED BY <1>1 DEF Counting, RowTells, Frame, Inserting

\* COMMIT makes the rows of r's transaction the rows of r's batch.
LEMMA PublishedRows ==
    ASSUME OrdersInv, NEW r \in Runs, Inserting(r), Publish(r)
    PROVE  RowsOf(r)' = Held(r) /\ \A s \in Runs \ {r} : RowsOf(s)' = RowsOf(s)
  <1>1. ASSUME NEW key \in Keys
        PROVE  /\ table'[key] = IF pend[r][key] = NoRow THEN table[key] ELSE pend[r][key]
               /\ pend[r][key] # NoRow => /\ pend[r][key].batch = r
                                         /\ table[key] = NoRow
               /\ table[key] # NoRow => table[key].batch # r
    <2>1. key = <<key[1], key[2]>> /\ key[1] \in 1..MaxOrders /\ key[2] \in 0..MaxLines
      BY KeyType
    <2>2. RowFor(r, key[1], key[2]).batch = r
      BY DEF RowFor
    <2>3. Holds(r)
      BY DEF OrdersInv, RunInv
    <2>4. pend[r][key] # NoRow => pend[r][key] = RowFor(r, key[1], key[2]) /\ table[key] = NoRow
      BY <2>1, <2>3 DEF Holds
    <2> QED BY <2>2, <2>4, NothingYet DEF Publish, Inserting
  <1>2. RowsOf(r)' = Held(r)
    BY <1>1 DEF RowsOf, Held
  <1>3. ASSUME NEW s \in Runs \ {r} PROVE RowsOf(s)' = RowsOf(s)
    BY <1>1 DEF RowsOf
  <1> QED BY <1>2, <1>3

\* A statement's rowcount is one if the row is new, zero if it was there.
LEMMA InsertCounts ==
    ASSUME OrdersInv, NEW r \in Runs, Counting(r), RowTells(r), Insert(r)
    PROVE  Counting(r)' /\ RowTells(r)'
  <1> DEFINE key == mem[r].at
  <1>1. TypeOK /\ Place(r) /\ Holds(r) /\ pc[r] = "insert" /\ link[r] /\ key[1] <= mem[r].count
    BY DEF OrdersInv, RunInv, Insert
  <1>2. key \in Keys /\ Generated(r) # NoRow /\ mem[r].inserted \in Nat
    BY <1>1, LoopType, MemoryType
  <1>3. mem[r].inserted = Cardinality(Held(r))
    BY <1>1 DEF Counting, Inserting
  <1>4. mem'[r].inserted = Cardinality(Held(r)')
    <2>1. CASE table[key] = NoRow
      <3>1. mem'[r].inserted = mem[r].inserted + 1
        BY <1>1, <2>1 DEF Insert, TypeOK, Memory
      <3>2. /\ pend' = [pend EXCEPT ![r][key] = Generated(r)]
            /\ pend[r] \in [Keys -> OrderRow \cup {NoRow}]
        BY <1>1, <2>1 DEF Insert, TypeOK
      <3>3. Held(r)' = Held(r) \cup {key}
        BY <1>1, <1>2, <3>2 DEF Held, TypeOK
      <3>4. key \notin Held(r)
        <4>1. /\ key = <<key[1], key[2]>> /\ key[1] \in 1..MaxOrders
              /\ key[2] \in 0..MaxLines
          BY <1>2, KeyType
        <4>2. ~Passed(r, key[1], key[2])
          BY <4>1, MemoryType, <1>1 DEF Passed
        <4> QED BY <1>1, <4>1, <4>2 DEF Held, Holds
      <3> QED BY <1>3, <3>1, <3>3, <3>4, HeldFinite, FS_AddElement
    <2>2. CASE table[key] # NoRow
      <3>1. pend' = pend /\ mem' = [mem EXCEPT ![r].at = After(r)]
        BY <2>2 DEF Insert
      <3>2. mem'[r].inserted = mem[r].inserted
        BY <1>1, <3>1 DEF TypeOK, Memory
      <3> QED BY <1>3, <3>1, <3>2 DEF Held
    <2> QED BY <2>1, <2>2
  <1>5. pc' = pc /\ audit' = audit /\ table' = table
    BY DEF Insert
  <1> QED BY <1>1, <1>4, <1>5 DEF Counting, RowTells, RowsOf

\* The other steps of r.
LEMMA OwnStepCounts ==
    ASSUME OrdersInv, NEW r \in Runs, Counting(r), RowTells(r),
           Step(r) \/ Raises(r) \/ Disconnect(r) \/ Crash(r), ~Insert(r)
    PROVE  Counting(r)' /\ RowTells(r)'
  <1>1. TypeOK /\ RunInv(r)
    BY DEF OrdersInv
  <1>2. /\ OpenedRow.status = "running" /\ OpenedRow.counts = Zero
        /\ \A row, status, c : ClosedRow(row, status, c) # NoRow =>
              /\ ClosedRow(row, status, c).status = status
              /\ ClosedRow(row, status, c).counts = c
        /\ [Zero EXCEPT !.inserted = mem[r].inserted].inserted = mem[r].inserted
    BY DEF OpenedRow, ClosedRow, Zero
  <1>3. CASE Connect(r) \/ ConnectFails(r) \/ ReadUsers(r) \/ ReadProducts(r) \/ NothingToDrawFrom(r)
             \/ TransactionRaises(r) \/ MarkFailedRaises(r) \/ Crash(r)
    <2>1. /\ audit' = audit /\ table' = table
          /\ pc[r] \in {"abort", "over"} => pc'[r] \in {"abort", "over"}
          /\ pc'[r] \notin {"insert", "finish"}
      BY <1>1, <1>3 DEF Connect, ConnectFails, ReadUsers, ReadProducts, NothingToDrawFrom,
            TransactionRaises, MarkFailedRaises, Crash, Leave, TypeOK
    <2>2. RowsOf(r)' = RowsOf(r)
      BY <2>1 DEF RowsOf
    <2> QED BY <2>1, <2>2 DEF Counting, RowTells, Inserting
  <1>4. CASE Generate(r)
    <2>1. Held(r)' = {}
      <3>1. pend[r] = NoRows /\ pend' = pend
        BY <1>1, <1>4, HoldsNothing DEF Generate, Inserting
      <3> QED BY <3>1, NoRowsType DEF Held
    <2>2. mem'[r].inserted = 0
      BY <1>1, <1>4 DEF Generate, RunInv, Place
    <2>3. RowsOf(r)' = RowsOf(r)
      BY <1>4 DEF Generate, RowsOf
    <2> QED BY <1>1, <1>4, <2>1, <2>2, <2>3, FS_EmptySet
            DEF Generate, Counting, RowTells, Inserting, TypeOK
  <1>5. CASE CreateRun(r) \/ CreateRunRaises(r)
    <2>1. /\ pc'[r] \in {"users", "over"} /\ table' = table /\ pc[r] = "create"
          /\ audit'[r] \in {audit[r], OpenedRow}
      BY <1>1, <1>5 DEF CreateRun, CreateRunRaises, Leave, TypeOK
    <2>2. RowsOf(r)' = RowsOf(r)
      BY <2>1 DEF RowsOf
    <2> QED BY <1>2, <2>1, <2>2 DEF Counting, RowTells, Inserting
  <1>6. CASE Commit(r) \/ CommitUnacknowledged(r)
    <2>1. /\ Inserting(r) /\ Publish(r) /\ audit' = audit /\ mem' = mem
          /\ pc'[r] \in {"finish", "abort"} /\ pc[r] = "insert"
      BY <1>1, <1>6 DEF Commit, CommitUnacknowledged, AllInserted, Inserting, TypeOK
    <2>2. RowsOf(r)' = Held(r)
      BY <2>1, PublishedRows
    <2> QED BY <2>1, <2>2 DEF Counting, RowTells, Inserting
  <1>7. CASE Finish(r) \/ FinishRaises(r)
    <2>1. /\ pc'[r] \in {"abort", "over"} /\ table' = table /\ pc[r] = "finish"
          /\ audit'[r] \in {audit[r], SuccessRow(r)}
      BY <1>1, <1>7 DEF Finish, FinishRaises, Leave, TypeOK
    <2>2. RowsOf(r)' = RowsOf(r)
      BY <2>1 DEF RowsOf
    <2>3. SuccessRow(r) # NoRow =>
             /\ SuccessRow(r).status = "success"
             /\ SuccessRow(r).counts.inserted = mem[r].inserted
      <3> DEFINE c == [Zero EXCEPT !.inserted = mem[r].inserted]
      <3>1. c.inserted = mem[r].inserted /\ SuccessRow(r) = ClosedRow(audit[r], "success", c)
        BY <1>2 DEF SuccessRow
      <3> HIDE DEF c
      <3> QED BY <1>2, <3>1
    <2>4. mem[r].inserted = Cardinality(RowsOf(r))
      BY <2>1 DEF Counting
    <2> QED BY <2>1, <2>2, <2>3, <2>4 DEF Counting, RowTells, Inserting
  <1>8. CASE MarkFailed(r)
    <2>1. /\ pc'[r] = "over" /\ table' = table
          /\ audit'[r] = ClosedRow(audit[r], "failed", Zero)
      BY <1>1, <1>8 DEF MarkFailed, Leave, TypeOK
    <2> QED BY <1>2, <2>1 DEF Counting, RowTells, Inserting
  <1>9. CASE Disconnect(r)
    <2>1. pc' = pc /\ ~link'[r] /\ audit' = audit /\ table' = table /\ mem' = mem
      BY <1>1, <1>9 DEF Disconnect, TypeOK
    <2>2. RowsOf(r)' = RowsOf(r)
      BY <2>1 DEF RowsOf
    <2> QED BY <2>1, <2>2 DEF Counting, RowTells, Inserting
  <1> QED BY <1>3, <1>4, <1>5, <1>6, <1>7, <1>8, <1>9 DEF Step, Raises

\* A step of r leaves what the others count alone.
LEMMA OthersCount ==
    ASSUME OrdersInv, NEW r \in Runs, NEW s \in Runs \ {r}, Counting(s), RowTells(s),
           Step(r) \/ Raises(r) \/ Disconnect(r) \/ Crash(r)
    PROVE  Counting(s)' /\ RowTells(s)'
  <1>1. Frame(s) /\ audit'[s] = audit[s]
    BY DEF OrdersInv, TypeOK, Frame, Step, Raises, Disconnect, Crash, Leave, Connect,
           ConnectFails, CreateRun, ReadUsers, ReadProducts, NothingToDrawFrom,
           Generate, Insert, Commit, CommitUnacknowledged, Publish, Finish, MarkFailed,
           CreateRunRaises, TransactionRaises, FinishRaises, MarkFailedRaises
  <1>2. RowsOf(s)' = RowsOf(s)
    <2>1. CASE Commit(r) \/ CommitUnacknowledged(r)
      BY <2>1, PublishedRows DEF Commit, CommitUnacknowledged, AllInserted, Inserting
    <2>2. CASE table' = table
      BY <2>2 DEF RowsOf
    <2> QED BY <2>1, <2>2
            DEF Step, Raises, Disconnect, Crash, Connect,
                ConnectFails, CreateRun, ReadUsers, ReadProducts, NothingToDrawFrom,
                Generate, Insert, Finish, MarkFailed, CreateRunRaises,
                TransactionRaises, FinishRaises, MarkFailedRaises
  <1> QED BY <1>1, <1>2, CountingStays

\* Every step keeps the counts.
LEMMA CountsKept ==
    ASSUME CountsInv, [Next]_vars
    PROVE  CountsInv'
  <1>1. OrdersInv'
    BY NextKeeps DEF CountsInv
  <1>2. ASSUME NEW s \in Runs PROVE Counting(s)' /\ RowTells(s)'
    <2>1. CASE UNCHANGED vars
      BY <2>1, CountingStays DEF CountsInv, vars, Frame, RowsOf
    <2>2. ASSUME NEW r \in Runs, Step(r) \/ Raises(r) \/ Disconnect(r) \/ Crash(r)
          PROVE  Counting(s)' /\ RowTells(s)'
      BY <2>2, InsertCounts, OwnStepCounts, OthersCount DEF CountsInv
    <2> QED BY <2>1, <2>2 DEF Next, AllOver
  <1> QED BY <1>1, <1>2 DEF CountsInv

\* ops.pipeline_runs never claims order rows that are not there: a successful run
\* reports as many as carry its batch_id, any other run none.
THEOREM AuditCountsTheRows == Spec => []AuditCountsRows
  <1>1. Init => CountsInv
    <2>1. Init => \A r \in Runs : audit[r] = NoRow /\ pc[r] = "ready"
      BY DEF Init
    <2> QED BY <2>1, InitEstablishes DEF CountsInv, Counting, RowTells, Inserting
  <1>2. CountsInv /\ [Next]_vars => CountsInv'
    BY CountsKept
  <1>3. CountsInv => AuditCountsRows
    BY DEF CountsInv, RowTells, AuditCountsRows
  <1> QED BY <1>1, <1>2, <1>3, PTL DEF Spec

-----------------------------------------------------------------------------
(* Row by row, the runs implement whole batches.                           *)

\* What r's transaction has to insert, as the contract's argument.
Batch(r) == [k \in 1..mem[r].count |-> Orders(r)[k]]

\* The batch is one the contract allows.
LEMMA BatchType ==
    ASSUME OrdersInv, NEW r \in Runs, pc[r] = "insert"
    PROVE  /\ mem[r].count \in 1..MaxOrders
           /\ Batch(r) \in [1..mem[r].count -> Contract!Order]
  <1>1. /\ TypeOK /\ InputOf(r) \in DOMAIN known
        /\ mem[r].count \in 1..MaxOrders /\ MaxOrders \in Nat
    BY MemoryType DEF OrdersInv, RunInv, Place
  <1>2. ASSUME NEW k \in 1..MaxOrders PROVE Orders(r)[k] \in Contract!Order
    <2>1. /\ Orders(r)[k] \in Lines(InputOf(r).products)
          /\ InputOf(r).products \subseteq Products
      BY <1>1 DEF TypeOK, Plans, Inputs, Orders
    <2>2. PICK n \in 1..MaxLines :
              /\ Orders(r)[k] \in [1..n -> InputOf(r).products]
              /\ \A i, j \in 1..n : Orders(r)[k][i] = Orders(r)[k][j] => i = j
      BY <2>1 DEF Lines
    <2>3. Orders(r)[k] \in [1..n -> Products]
      BY <2>1, <2>2
    <2> QED BY <2>2, <2>3 DEF Contract!Order
  <1> QED BY <1>1, <1>2 DEF Batch

\* A row is one of the batch's if it is among those r has to insert.
LEMMA BatchHas ==
    ASSUME OrdersInv, NEW r \in Runs, pc[r] = "insert",
           NEW k \in 1..MaxOrders, NEW j \in 0..MaxLines
    PROVE  /\ Contract!Has(Batch(r), <<k, j>>) <=> Planned(r, k, j)
           /\ Planned(r, k, j) =>
                 Contract!RowOf(r, Batch(r), <<k, j>>) = RowFor(r, k, j)
  <1>1. mem[r].count \in Nat /\ k \in Nat /\ k >= 1
    BY MemoryType DEF OrdersInv
  <1>2. k <= mem[r].count => Batch(r)[k] = Orders(r)[k]
    BY <1>1 DEF Batch
  <1>3. k \in DOMAIN Batch(r) <=> k <= mem[r].count
    BY <1>1 DEF Batch
  <1> QED BY <1>2, <1>3 DEF Contract!Has, Contract!RowOf, Planned, RowFor

\* A COMMIT writes the whole batch: what the transaction holds is exactly the
\* part of it whose keys are not in the tables.
LEMMA CommitWritesBatch ==
    ASSUME OrdersInv, NEW r \in Runs, AllInserted(r), link[r], Publish(r)
    PROVE  /\ table' = Contract!Written(r, Batch(r))
           /\ r \notin {p.batch : p \in published}
           /\ {p.batch : p \in published'} = {p.batch : p \in published} \cup {r}
  <1>1. /\ TypeOK /\ Holds(r) /\ Covers(r) /\ Inserting(r) /\ pc[r] = "insert"
        /\ mem[r].at[1] > mem[r].count
        /\ mem[r].at[1] \in Nat /\ mem[r].count \in Nat
    BY MemoryType DEF OrdersInv, RunInv, AllInserted, Inserting
  <1>2. ASSUME NEW key \in Keys
        PROVE  table'[key] = IF table[key] = NoRow /\ Contract!Has(Batch(r), key)
                             THEN Contract!RowOf(r, Batch(r), key)
                             ELSE table[key]
    <2>1. PICK k \in 1..MaxOrders, j \in 0..MaxLines : key = <<k, j>>
      BY KeyType
    <2>2. table'[key] = IF pend[r][key] = NoRow THEN table[key] ELSE pend[r][key]
      BY DEF Publish
    <2>3. CASE pend[r][key] # NoRow
      <3>1. /\ Planned(r, k, j) /\ pend[r][key] = RowFor(r, k, j)
            /\ table[key] = NoRow
        BY <1>1, <2>1, <2>3 DEF Holds
      <3> QED BY <1>1, <2>1, <2>2, <2>3, <3>1, BatchHas
    <2>4. CASE pend[r][key] = NoRow
      <3>1. Planned(r, k, j) => Passed(r, k, j)
        BY <1>1 DEF Planned, Passed
      <3>2. Planned(r, k, j) => table[key] # NoRow
        BY <1>1, <2>1, <2>4, <3>1 DEF Covers
      <3> QED BY <1>1, <2>1, <2>2, <2>4, <3>2, BatchHas
    <2> QED BY <2>3, <2>4
  <1>3. table' = Contract!Written(r, Batch(r))
    <2>1. table' = [key \in Keys |-> table'[key]]
      BY DEF Publish
    <2> QED BY <1>2, <2>1 DEF Contract!Written, Contract!Keys, Keys
  <1>4. r \notin {p.batch : p \in published}
    BY <1>1 DEF OrdersInv, Complete
  <1>5. {p.batch : p \in published'} = {p.batch : p \in published} \cup {r}
    <2> DEFINE new == [batch |-> r, input |-> InputOf(r), count |-> mem[r].count]
    <2>1. new.batch = r
      OBVIOUS
    <2>2. published' = published \cup {new}
      BY DEF Publish
    <2> HIDE DEF new
    <2> QED BY <2>1, <2>2
  <1> QED BY <1>3, <1>4, <1>5

\* Nothing but a COMMIT writes to the tables.
LEMMA OnlyCommitsWrite ==
    ASSUME [Next]_vars
    PROVE  \/ table' = table /\ published' = published
           \/ \E r \in Runs : AllInserted(r) /\ link[r] /\ Publish(r)
  <1>1. CASE UNCHANGED vars
    BY <1>1 DEF vars
  <1>2. ASSUME NEW r \in Runs, Commit(r) \/ CommitUnacknowledged(r)
        PROVE  AllInserted(r) /\ link[r] /\ Publish(r)
    BY <1>2 DEF Commit, CommitUnacknowledged
  <1>3. ASSUME NEW r \in Runs,
               Step(r) \/ Raises(r) \/ Disconnect(r) \/ Crash(r),
               ~(Commit(r) \/ CommitUnacknowledged(r))
        PROVE  table' = table /\ published' = published
    BY <1>3 DEF Step, Raises, Disconnect, Crash, Connect, ConnectFails, CreateRun,
       ReadUsers, ReadProducts, NothingToDrawFrom, Generate, Insert, Finish,
       MarkFailed, CreateRunRaises, TransactionRaises, FinishRaises,
       MarkFailedRaises
  <1> QED BY <1>1, <1>2, <1>3 DEF Next, AllOver

\* The runs of a business date, however interleaved, broken or repeated, write
\* whole batches, each at most once and as by one INSERT.
THEOREM OrdersImplementContract == Spec => ImplementsOrders
  <1> DEFINE batches == {p.batch : p \in published}
  <1>1. Init => Contract!Init
    BY DEF Init, Contract!Init, NoRows, Keys, Contract!Keys
  <1>2. ASSUME OrdersInv, [Next]_vars
        PROVE  [Contract!Next]_<<table, batches>>
    <2>1. CASE table' = table /\ published' = published
      BY <2>1
    <2>2. CASE \E r \in Runs : AllInserted(r) /\ link[r] /\ Publish(r)
      <3>1. PICK r \in Runs : AllInserted(r) /\ link[r] /\ Publish(r)
        BY <2>2
      <3>2. /\ mem[r].count \in 1..MaxOrders
            /\ Batch(r) \in [1..mem[r].count -> Contract!Order]
        BY <1>2, <3>1, BatchType DEF AllInserted
      <3>3. /\ table' = Contract!Written(r, Batch(r))
            /\ r \in Runs \ batches
            /\ batches' = batches \cup {r}
        BY <1>2, <3>1, CommitWritesBatch
      <3> QED BY <3>2, <3>3 DEF Contract!Next
    <2> QED BY <1>2, <2>1, <2>2, OnlyCommitsWrite
  <1> QED BY <1>1, <1>2, OrdersInvariant, PTL
          DEF Spec, ImplementsOrders, Contract!Spec

-----------------------------------------------------------------------------
(* No set of runs waits for each other.                                    *)

\* Of finitely many runs, one is furthest in the order of the keys.
LEMMA OneIsFurthest ==
    ASSUME TypeOK, NEW S \in SUBSET Runs, IsFiniteSet(S), S # {}
    PROVE  \E r \in S : \A s \in S : ~Ahead(r, s)
  <1> DEFINE Further(r) == {s \in S : Ahead(r, s)}
             F == {Further(r) : r \in S}
  <1>1. IsWellFoundedOn(StrictSubsetOrdering(S), SUBSET S)
    BY FS_StrictSubsetOrderingWellFounded, FS_FiniteSubsetsOfFinite
  <1>2. F \subseteq SUBSET S /\ F # {}
    OBVIOUS
  <1>3. PICK A \in F : \A B \in F : <<B, A>> \notin StrictSubsetOrdering(S)
    <2> HIDE DEF F
    <2> QED BY <1>1, <1>2, WFMin
  <1>4. PICK r \in S : A = Further(r)
    BY <1>3
  <1>5. ASSUME NEW s \in S, Ahead(r, s) PROVE FALSE
    <2>1. \A t \in S : mem[t].at[1] \in Nat /\ mem[t].at[2] \in Nat
      BY MemoryType
    <2>2. Further(s) \subseteq Further(r)
      BY <1>5, <2>1 DEF Ahead
    <2>3. s \in Further(r) /\ s \notin Further(s)
      BY <1>5, <2>1 DEF Ahead
    <2>4. Further(s) \in F /\ Further(s) \in SUBSET S /\ Further(r) \in SUBSET S
      OBVIOUS
    <2> HIDE DEF F, Further
    <2> QED BY <1>3, <1>4, <2>2, <2>3, <2>4 DEF StrictSubsetOrdering
  <1> QED BY <1>5

\* A run waits only for runs that are inserting and further on.
LEMMA WaitsAhead ==
    ASSUME OrdersInv, NEW r \in Runs, Waiting(r)
    PROVE  \E s \in Runs : WaitsFor(r, s) /\ Inserting(s) /\ Ahead(r, s)
  <1> DEFINE k == mem[r].at[1]
             j == mem[r].at[2]
  <1>1. /\ mem[r].at = <<k, j>> /\ k \in 1..MaxOrders /\ j \in 0..MaxLines
    BY MemoryType DEF OrdersInv, Waiting
  <1>2. PICK s \in Runs \ {r} : pend[s][<<k, j>>] # NoRow
    BY <1>1 DEF Waiting, KeyFree
  <1> HIDE DEF k, j
  <1>3. Inserting(s) /\ Passed(s, k, j)
    BY <1>1, <1>2 DEF OrdersInv, RunInv, Holds
  <1>4. WaitsFor(r, s)
    BY <1>1, <1>2 DEF WaitsFor
  <1>5. Ahead(r, s)
    BY <1>1, <1>3 DEF Passed, Ahead, k, j
  <1> QED BY <1>3, <1>4, <1>5

\* However many runs there are for a business date, PostgreSQL never has a
\* deadlock of theirs to break: of any runs that wait, one waits for a run outside
\* them that is inserting, further on in the order of the keys.
THEOREM RunsAreNeverStuck ==
    ASSUME IsFiniteSet(Runs)
    PROVE  Spec => []RunsNeverStuck
  <1>1. ASSUME OrdersInv
        PROVE  RunsNeverStuck
    <2>1. SUFFICES ASSUME NEW S \in SUBSET Runs, S # {}, \A r \in S : Waiting(r)
                   PROVE  \E r \in S, s \in Runs \ S :
                             WaitsFor(r, s) /\ pc[s] = "insert" /\ link[s]
                             /\ Ahead(r, s)
      BY DEF RunsNeverStuck
    <2>2. IsFiniteSet(S)
      BY FS_Subset
    <2>3. PICK r \in S : \A s \in S : ~Ahead(r, s)
      BY <1>1, <2>1, <2>2, OneIsFurthest DEF OrdersInv
    <2>4. PICK s \in Runs : WaitsFor(r, s) /\ Inserting(s) /\ Ahead(r, s)
      BY <1>1, <2>1, WaitsAhead
    <2> QED BY <2>3, <2>4 DEF Inserting
  <1> QED BY <1>1, OrdersInvariant, PTL

-----------------------------------------------------------------------------
(* How many steps a run has left.                                          *)

\* The inserts it has still to make, at most.
InsertsLeft(m) ==
    IF m.at[1] <= m.count
    THEN (m.count + 1 - m.at[1]) * (MaxLines + 1) - m.at[2]
    ELSE 0

MostInserts == MaxOrders * (MaxLines + 1)

\* At most, from a place and with a memory: an insert for each order and line,
\* and one step for each other place.
StepsFrom(place, m) ==
    CASE place = "ready" -> MostInserts + 8
      [] place = "create" -> MostInserts + 7
      [] place = "users" -> MostInserts + 6
      [] place = "products" -> MostInserts + 5
      [] place = "generate" -> MostInserts + 4
      [] place = "insert" -> InsertsLeft(m) + 3
      [] place = "finish" -> 2
      [] place = "abort" -> 1
      [] OTHER -> 0

StepsLeft(r) == StepsFrom(pc[r], mem[r])

Places == {"ready", "create", "users", "products", "generate", "insert", "finish",
           "abort", "over"}

\* A run's own steps, whatever raises, bring it nearer to its end; no other run,
\* though it hold keys this one waits for or commit rows this one meets, and no
\* broken connection, takes it away from there.
RunProgress ==
    [][\A r \in Runs :
         /\ StepsLeft(r)' <= StepsLeft(r)
         /\ Step(r) \/ Raises(r) \/ Crash(r) => StepsLeft(r)' < StepsLeft(r)]_vars

\* Orders times their rows.
LEMMA Rows ==
    ASSUME NEW n \in Nat \ {0}, NEW m \in Nat \ {0}, NEW j \in 0..m - 1
    PROVE  /\ n * m \in Nat /\ n * m - j \in Nat
           /\ n * m - j > 0
           /\ (n - 1) * m \in Nat
           /\ (n - 1) * m < n * m - j
  <1>1. n * m = (n - 1) * m + m
    <2>1. \A x \in Nat : (x + 1) * m = x * m + m
      OBVIOUS
    <2>2. n - 1 \in Nat /\ (n - 1) + 1 = n
      OBVIOUS
    <2> QED BY <2>1, <2>2
  <1>2. (n - 1) * m \in Nat
    OBVIOUS
  <1> QED BY <1>1, <1>2

\* The inserts left are a number, and at most all of them.
LEMMA InsertsLeftType ==
    ASSUME NEW m \in Memory
    PROVE  /\ InsertsLeft(m) \in Nat
           /\ InsertsLeft(m) <= MostInserts
           /\ MostInserts \in Nat
  <1>1. /\ m.count \in 1..MaxOrders /\ m.at[1] \in 1..MaxOrders + 1
        /\ m.at[2] \in 0..MaxLines
        /\ MaxOrders \in Nat \ {0} /\ MaxLines \in Nat \ {0}
    BY MaxOrdersAssumption, MaxLinesAssumption DEF Memory
  <1>2. \A x, y, a \in Nat : x <= y => x * a <= y * a
    OBVIOUS
  <1>3. MostInserts \in Nat
    BY <1>1 DEF MostInserts
  <1>4. CASE m.at[1] <= m.count
    <2> DEFINE n == m.count + 1 - m.at[1]
               l == MaxLines + 1
               j == m.at[2]
    <2>1. n \in Nat \ {0} /\ l \in Nat \ {0} /\ j \in 0..l - 1 /\ n <= MaxOrders
      BY <1>1, <1>4
    <2>2. InsertsLeft(m) = n * l - j
      BY <1>4 DEF InsertsLeft
    <2>3. MostInserts = MaxOrders * l
      BY DEF MostInserts
    <2> HIDE DEF n, l, j
    <2>4. n * l \in Nat /\ n * l - j \in Nat
      BY <2>1, Rows
    <2>5. n * l <= MaxOrders * l
      BY <1>1, <1>2, <2>1
    <2> QED BY <1>3, <2>1, <2>2, <2>3, <2>4, <2>5
  <1>5. CASE ~(m.at[1] <= m.count)
    BY <1>3, <1>5 DEF InsertsLeft
  <1> QED BY <1>4, <1>5

\* The number of steps is a natural number.
LEMMA StepsLeftType ==
    ASSUME NEW place \in Places, NEW m \in Memory
    PROVE  /\ StepsFrom(place, m) \in Nat
           /\ place # "over" => StepsFrom(place, m) > 0
           /\ StepsFrom(place, m) <= MostInserts + 8
  <1>1. /\ InsertsLeft(m) \in Nat /\ MostInserts \in Nat
        /\ InsertsLeft(m) <= MostInserts
    BY InsertsLeftType
  <1> QED BY <1>1 DEF StepsFrom, Places

\* An INSERT, of a row or of none, is one fewer to make.
LEMMA InsertProgress ==
    ASSUME OrdersInv, NEW r \in Runs, Insert(r)
    PROVE  StepsLeft(r)' < StepsLeft(r)
  <1> DEFINE c == mem[r].count
             k == mem[r].at[1]
             j == mem[r].at[2]
             m == MaxLines + 1
  <1>1. /\ TypeOK /\ Place(r) /\ pc[r] = "insert" /\ pc'[r] = "insert" /\ k <= c
        /\ mem'[r].at = After(r) /\ mem'[r].count = c
    <2>1. TypeOK /\ Place(r) /\ mem \in [Runs -> Memory]
      BY DEF OrdersInv, RunInv, TypeOK
    <2> QED BY <2>1 DEF Insert, Memory
  <1>2. /\ c \in 1..MaxOrders /\ k \in 1..MaxOrders + 1 /\ j \in 0..MaxLines
        /\ MaxOrders \in Nat \ {0} /\ MaxLines \in Nat \ {0}
    BY <1>1, MemoryType
  <1>3. \/ After(r)[1] = k /\ After(r)[2] = j + 1
        \/ After(r)[1] = k + 1 /\ After(r)[2] = 0
    BY DEF After
  <1>4. /\ c + 1 - k \in Nat \ {0} /\ m \in Nat \ {0} /\ j \in 0..m - 1
        /\ (c + 1 - k) * m \in Nat
        /\ ((c + 1 - k) - 1) * m \in Nat
        /\ (c + 1 - k) * m - j > 0
        /\ ((c + 1 - k) - 1) * m < (c + 1 - k) * m - j
    <2>1. c + 1 - k \in Nat \ {0} /\ m \in Nat \ {0} /\ j \in 0..m - 1
      BY <1>1, <1>2
    <2> QED BY <2>1, Rows
  <1>5. InsertsLeft(mem[r]) = (c + 1 - k) * m - j
    BY <1>1 DEF InsertsLeft
  <1>6. InsertsLeft(mem'[r]) = IF After(r)[1] <= c
                          THEN (c + 1 - After(r)[1]) * m - After(r)[2] ELSE 0
    BY <1>1 DEF InsertsLeft
  <1>7. StepsLeft(r) = InsertsLeft(mem[r]) + 3 /\ StepsLeft(r)' = InsertsLeft(mem'[r]) + 3
    BY <1>1 DEF StepsLeft, StepsFrom
  <1>8. CASE After(r)[1] = k /\ After(r)[2] = j + 1
    <2>1. InsertsLeft(mem'[r]) = (c + 1 - k) * m - (j + 1)
      BY <1>1, <1>6, <1>8
    <2> HIDE DEF c, k, j, m
    <2> QED BY <1>2, <1>4, <1>5, <1>7, <2>1
  <1>9. CASE After(r)[1] = k + 1 /\ After(r)[2] = 0 /\ k + 1 <= c
    <2>1. c + 1 - (k + 1) = (c + 1 - k) - 1
      BY <1>2
    <2>2. InsertsLeft(mem'[r]) = ((c + 1 - k) - 1) * m - 0
      BY <1>6, <1>9, <2>1
    <2> HIDE DEF c, k, j, m
    <2> QED BY <1>2, <1>4, <1>5, <1>7, <2>2
  <1>10. CASE After(r)[1] = k + 1 /\ ~(k + 1 <= c)
    <2>1. InsertsLeft(mem'[r]) = 0
      BY <1>6, <1>10
    <2> HIDE DEF c, k, j, m
    <2> QED BY <1>2, <1>4, <1>5, <1>7, <2>1
  <1> QED BY <1>3, <1>8, <1>9, <1>10

\* The loop begins with no more to insert than there can be.
LEMMA GenerateProgress ==
    ASSUME OrdersInv, TypeOK', NEW r \in Runs, Generate(r)
    PROVE  StepsLeft(r)' < StepsLeft(r)
  <1>1. pc[r] = "generate" /\ pc'[r] = "insert"
    BY DEF Generate, OrdersInv, TypeOK
  <1>2. /\ InsertsLeft(mem'[r]) \in Nat /\ InsertsLeft(mem'[r]) <= MostInserts
        /\ MostInserts \in Nat
    BY InsertsLeftType DEF TypeOK
  <1>3. StepsLeft(r) = MostInserts + 4 /\ StepsLeft(r)' = InsertsLeft(mem'[r]) + 3
    BY <1>1 DEF StepsLeft, StepsFrom
  <1> QED BY <1>2, <1>3

\* A run's own steps.
LEMMA OwnProgress ==
    ASSUME OrdersInv, TypeOK', NEW r \in Runs, Step(r) \/ Raises(r) \/ Crash(r)
    PROVE  StepsLeft(r)' < StepsLeft(r)
  <1>0. /\ TypeOK
        /\ pc \in [Runs -> {"ready", "create", "users", "products", "generate",
                            "insert", "finish", "abort", "over"}]
        /\ MostInserts \in Nat /\ InsertsLeft(mem[r]) \in Nat
    BY InsertsLeftType DEF OrdersInv, TypeOK
  <1>1. CASE \/ ConnectFails(r) \/ CreateRunRaises(r) \/ Finish(r) \/ MarkFailed(r)
             \/ MarkFailedRaises(r) \/ Crash(r)
    <2>1. pc'[r] = "over" /\ pc[r] # "over"
      BY <1>0, <1>1 DEF ConnectFails, CreateRunRaises, Finish, MarkFailed,
         MarkFailedRaises, Crash, Leave, Alive
    <2>2. StepsLeft(r)' = 0
      BY <2>1 DEF StepsLeft, StepsFrom
    <2>3. StepsLeft(r) > 0
      BY <1>0, <2>1, StepsLeftType DEF StepsLeft, Places, TypeOK
    <2> QED BY <2>2, <2>3
  <1>2. CASE \/ NothingToDrawFrom(r) \/ CommitUnacknowledged(r)
             \/ TransactionRaises(r) \/ FinishRaises(r)
    <2>1. /\ pc[r] \in {"users", "products", "generate", "insert", "finish"}
          /\ pc'[r] = "abort"
      BY <1>0, <1>2 DEF NothingToDrawFrom, CommitUnacknowledged, AllInserted,
         TransactionRaises, FinishRaises
    <2>2. StepsLeft(r)' = 1
      BY <2>1 DEF StepsLeft, StepsFrom
    <2>3. StepsLeft(r) > 1
      BY <1>0, <2>1 DEF StepsLeft, StepsFrom
    <2> QED BY <2>2, <2>3
  <1>3. CASE Connect(r) \/ CreateRun(r) \/ ReadUsers(r) \/ ReadProducts(r)
    <2>1. \/ pc[r] = "ready" /\ pc'[r] = "create"
          \/ pc[r] = "create" /\ pc'[r] = "users"
          \/ pc[r] = "users" /\ pc'[r] = "products"
          \/ pc[r] = "products" /\ pc'[r] = "generate"
      BY <1>0, <1>3 DEF Connect, CreateRun, ReadUsers, ReadProducts
    <2> QED BY <1>0, <2>1 DEF StepsLeft, StepsFrom
  <1>4. CASE Commit(r)
    <2>1. pc[r] = "insert" /\ pc'[r] = "finish"
      BY <1>0, <1>4 DEF Commit, AllInserted
    <2> QED BY <1>0, <2>1 DEF StepsLeft, StepsFrom
  <1> QED BY <1>1, <1>2, <1>3, <1>4, GenerateProgress, InsertProgress
          DEF Step, Raises

\* A run for any number of orders takes at most MaxOrders * (MaxLines + 1) + 8
\* steps of its own, beside any number of other runs: what RunEnds rests on, with
\* RunsAreNeverStuck.
THEOREM RunsProgress ==
    Spec => RunProgress /\ [](\A r \in Runs : StepsLeft(r) \in 0..MostInserts + 8)
  <1>1. ASSUME OrdersInv, OrdersInv', [Next]_vars
        PROVE  [\A r \in Runs :
                  /\ StepsLeft(r)' <= StepsLeft(r)
                  /\ Step(r) \/ Raises(r) \/ Crash(r)
                         => StepsLeft(r)' < StepsLeft(r)]_vars
    <2>1. SUFFICES ASSUME vars' # vars, NEW r \in Runs
                   PROVE  /\ StepsLeft(r)' <= StepsLeft(r)
                          /\ Step(r) \/ Raises(r) \/ Crash(r)
                                 => StepsLeft(r)' < StepsLeft(r)
      OBVIOUS
    <2>2. TypeOK /\ TypeOK'
      BY <1>1 DEF OrdersInv
    <2>3. StepsLeft(r) \in Nat
      BY <2>2, StepsLeftType DEF StepsLeft, Places, TypeOK
    <2>4. StepsLeft(r)' \in Nat
      BY <2>2, StepsLeftType DEF StepsLeft, Places, TypeOK
    <2>5. CASE Step(r) \/ Raises(r) \/ Crash(r)
      <3>1. StepsLeft(r)' < StepsLeft(r)
        BY <1>1, <2>2, <2>5, OwnProgress
      <3> HIDE DEF StepsLeft
      <3> QED BY <2>3, <2>4, <3>1
    <2>6. CASE ~(Step(r) \/ Raises(r) \/ Crash(r))
      <3>1. PICK s \in Runs : Step(s) \/ Raises(s) \/ Disconnect(s) \/ Crash(s)
        BY <1>1, <2>1 DEF Next, AllOver
      <3>2. pc'[r] = pc[r] /\ mem'[r] = mem[r]
        <4>1. CASE s = r
          BY <2>6, <3>1, <4>1 DEF Disconnect
        <4>2. CASE s # r
          BY <2>2, <3>1, <4>2
             DEF TypeOK, Step, Raises, Disconnect, Crash, Connect, ConnectFails,
                 CreateRun, CreateRunRaises, ReadUsers, ReadProducts,
                 NothingToDrawFrom, Generate, Insert, Commit, CommitUnacknowledged,
                 TransactionRaises, Finish, FinishRaises, MarkFailed,
                 MarkFailedRaises, Leave, Publish
        <4> QED BY <4>1, <4>2
      <3>3. StepsLeft(r)' = StepsLeft(r)
        BY <3>2 DEF StepsLeft
      <3> QED BY <2>3, <2>6, <3>3
    <2> QED BY <2>5, <2>6
  <1>2. OrdersInv => \A r \in Runs : StepsLeft(r) \in 0..MostInserts + 8
    <2>1. ASSUME OrdersInv, NEW r \in Runs PROVE StepsLeft(r) \in 0..MostInserts + 8
      <3>1. TypeOK
        BY <2>1 DEF OrdersInv
      <3>2. /\ StepsLeft(r) \in Nat /\ StepsLeft(r) <= MostInserts + 8
            /\ MostInserts \in Nat
        BY <3>1, StepsLeftType, InsertsLeftType DEF StepsLeft, Places, TypeOK
      <3> QED BY <3>2
    <2> QED BY <2>1
  <1> QED BY <1>1, <1>2, OrdersInvariant, PTL DEF Spec, RunProgress
=============================================================================
