--------------------------- MODULE OrderGeneration ---------------------------
(***************************************************************************)
(* run_order_generation (order_generation.py, synthetic_orders.py): the    *)
(* synthetic orders of one business date are generated from the active     *)
(* users and products and inserted, each order with its lines, in one      *)
(* transaction.  Order ids depend on the date and the order's number only, *)
(* so every run for the date meets the rows of the runs before it, or      *)
(* beside it: a retry of the Airflow task, a second DAG run for the day, a *)
(* call from the command line.                                             *)
(***************************************************************************)
EXTENDS AuditRow, Sequences, FiniteSets

CONSTANTS Runs,       \* calls of run_order_generation; each is its own batch
          Seeds,
          MaxOrders,  \* most orders a run may ask for
          Users,
          Products,
          MaxLines,   \* min(5, len(products)) in the code
          NoProduct,
          MayCrash

ASSUME MaxOrdersAssumption == MaxOrders \in Nat \ {0}
ASSUME MaxLinesAssumption == MaxLines \in Nat \ {0}
ASSUME SeedsAssumption == Seeds # {}
ASSUME MayCrashAssumption == MayCrash \in BOOLEAN

\* <<k, 0>> is order number k, <<k, j>> is its line number j.
Keys == (1..MaxOrders) \X (0..MaxLines)

\* A row of raw.orders or raw.order_items: who wrote it, and a line's product.
OrderRow == [batch : Runs, product : Products \cup {NoProduct}]

ASSUME MarksAssumption == NoProduct \notin Products /\ NoRow \notin OrderRow \cup Row

NoRows == [key \in Keys |-> NoRow]

\* What the generator draws from besides the date: the seed, the users, the
\* products.
Inputs == [seed : Seeds, users : SUBSET Users \ {{}},
           products : SUBSET Products \ {{}}]

\* The lines of an order: one product each, all different.
Lines(products) ==
    UNION {{s \in [1..n -> products] :
               \A i, j \in 1..n : s[i] = s[j] => i = j} : n \in 1..MaxLines}

Plans(products) == [1..MaxOrders -> Lines(products)]

\* A call's memory.
Memory == [seed : Seeds, count : 1..MaxOrders,
           users : SUBSET Users, products : SUBSET Products,
           at : (1..MaxOrders + 1) \X (0..MaxLines), inserted : Nat]

VARIABLES table,      \* the committed rows of raw.orders and raw.order_items
          pend,       \* pend[r]: the rows of r's open transaction
          known,      \* what the generator yields for the inputs met so far
          audit,      \* audit[r]: r's row in ops.pipeline_runs
          pc,         \* where a call is
          mem,        \* its memory
          link,       \* is its database connection alive
          published   \* history: which batches committed, and from what

vars == <<table, pend, known, audit, pc, mem, link, published>>

Alive(r) == pc[r] \notin {"ready", "over"}

InputOf(r) == [seed |-> mem[r].seed, users |-> mem[r].users,
               products |-> mem[r].products]

Orders(r) == known[InputOf(r)]

Blank == [seed |-> CHOOSE s \in Seeds : TRUE, count |-> 1, users |-> {},
          products |-> {}, at |-> <<1, 0>>, inserted |-> 0]

-----------------------------------------------------------------------------
Init ==
    /\ table = NoRows
    /\ pend = [r \in Runs |-> NoRows]
    /\ known = << >>
    /\ audit = [r \in Runs |-> NoRow]
    /\ pc = [r \in Runs |-> "ready"]
    /\ mem = [r \in Runs |-> Blank]
    /\ link = [r \in Runs |-> FALSE]
    /\ published = {}

\* connect_database; the caller has chosen how many orders, and the seed.
Connect(r) ==
    /\ pc[r] = "ready"
    /\ \E s \in Seeds, n \in 1..MaxOrders :
          mem' = [mem EXCEPT ![r] = [Blank EXCEPT !.seed = s, !.count = n]]
    /\ link' = [link EXCEPT ![r] = TRUE]
    /\ pc' = [pc EXCEPT ![r] = "create"]
    /\ UNCHANGED <<table, pend, known, audit, published>>

\* connect_database raises before the "try".
ConnectFails(r) ==
    /\ pc[r] = "ready"
    /\ pc' = [pc EXCEPT ![r] = "over"]
    /\ UNCHANGED <<table, pend, known, audit, mem, link, published>>

\* Variant: the connection is not closed, and its transaction stays open.
LeaveOpen(r) ==
    /\ pc' = [pc EXCEPT ![r] = "over"]
    /\ link' = [link EXCEPT ![r] = FALSE]
    /\ mem' = [mem EXCEPT ![r] = Blank]
    /\ UNCHANGED pend

\* The call ends; connection.close() rolls an open transaction back.
Leave(r) ==
    /\ pc' = [pc EXCEPT ![r] = "over"]
    /\ link' = [link EXCEPT ![r] = FALSE]
    /\ mem' = [mem EXCEPT ![r] = Blank]
    /\ pend' = [pend EXCEPT ![r] = NoRows]

\* create_pipeline_run, without a batch_id: always a new row.
CreateRun(r) ==
    /\ pc[r] = "create"
    /\ link[r]
    /\ audit' = [audit EXCEPT ![r] = OpenedRow]
    /\ pc' = [pc EXCEPT ![r] = "users"]
    /\ UNCHANGED <<table, pend, known, mem, link, published>>

\* create_pipeline_run raises, perhaps after its COMMIT took effect: the batch_id
\* is not known, so that the "except" clause marks nothing.
CreateRunRaises(r) ==
    /\ pc[r] = "create"
    /\ \/ UNCHANGED audit
       \/ link[r] /\ audit' = [audit EXCEPT ![r] = OpenedRow]
    /\ Leave(r)
    /\ UNCHANGED <<table, known, published>>

\* load_generation_inputs, first SELECT: the active users.  Ingestion may change
\* users and products before, between and after the two SELECTs.
ReadUsers(r) ==
    /\ pc[r] = "users"
    /\ link[r]
    /\ \E users \in SUBSET Users : mem' = [mem EXCEPT ![r].users = users]
    /\ pc' = [pc EXCEPT ![r] = "products"]
    /\ UNCHANGED <<table, pend, known, audit, link, published>>

\* Second SELECT: the active products.
ReadProducts(r) ==
    /\ pc[r] = "products"
    /\ link[r]
    /\ \E products \in SUBSET Products :
          mem' = [mem EXCEPT ![r].products = products]
    /\ pc' = [pc EXCEPT ![r] = "generate"]
    /\ UNCHANGED <<table, pend, known, audit, link, published>>

\* No active user, or no active product: a RuntimeError, and the transaction is
\* rolled back.
NothingToDrawFrom(r) ==
    /\ pc[r] = "generate"
    /\ mem[r].users = {} \/ mem[r].products = {}
    /\ pc' = [pc EXCEPT ![r] = "abort"]
    /\ UNCHANGED <<table, pend, known, audit, mem, link, published>>

\* Variant: the generator is not seeded (nobody else is amid the old plan).
GenerateUnseeded(r) ==
    /\ pc[r] = "generate"
    /\ \A s \in Runs \ {r} : pc[s] = "insert" => InputOf(s) # InputOf(r)
    /\ InputOf(r) \in Inputs
    /\ \E plan \in Plans(mem[r].products) :
          known' = [i \in DOMAIN known \cup {InputOf(r)} |->
                       IF i = InputOf(r) THEN plan ELSE known[i]]
    /\ pc' = [pc EXCEPT ![r] = "insert"]
    /\ UNCHANGED <<table, pend, audit, mem, link, published>>

\* Variant: nobody checks that there are users.
GenerateForNobody(r) ==
    /\ pc[r] = "generate"
    /\ mem[r].products # {}
    /\ \E plan \in Plans(mem[r].products) :
          known' = [i \in DOMAIN known \cup {InputOf(r)} |->
                       IF i \in DOMAIN known THEN known[i] ELSE plan]
    /\ pc' = [pc EXCEPT ![r] = "insert"]
    /\ UNCHANGED <<table, pend, audit, mem, link, published>>

\* generate_orders: the same input always yields the same orders, and order k
\* does not depend on how many are asked for.
Generate(r) ==
    LET in == InputOf(r) IN
    /\ pc[r] = "generate"
    /\ in \in Inputs
    /\ \E plan \in Plans(mem[r].products) :
          /\ in \in DOMAIN known => plan = known[in]
          /\ known' = [i \in DOMAIN known \cup {in} |->
                          IF i = in THEN plan ELSE known[i]]
    /\ pc' = [pc EXCEPT ![r] = "insert"]
    /\ UNCHANGED <<table, pend, audit, mem, link, published>>

\* After order number k and each of its lines comes the next order.
After(r) ==
    LET k == mem[r].at[1]  j == mem[r].at[2] IN
    IF j < Len(Orders(r)[k]) THEN <<k, j + 1>> ELSE <<k + 1, 0>>

Generated(r) ==
    LET k == mem[r].at[1]  j == mem[r].at[2] IN
    [batch |-> r, product |-> IF j = 0 THEN NoProduct ELSE Orders(r)[k][j]]

\* INSERT waits for the transaction that inserted the same key before it.
KeyFree(r, key) == \A s \in Runs \ {r} : pend[s][key] = NoRow

\* Variant: a row that was there already is counted as inserted.
InsertCountsConflicts(r) ==
    LET key == mem[r].at IN
    /\ pc[r] = "insert"
    /\ link[r]
    /\ key[1] <= mem[r].count
    /\ KeyFree(r, key)
    /\ IF table[key] = NoRow
       THEN pend' = [pend EXCEPT ![r][key] = Generated(r)]
       ELSE UNCHANGED pend
    /\ mem' = [mem EXCEPT ![r].at = After(r), ![r].inserted = @ + 1]
    /\ UNCHANGED <<table, known, audit, pc, link, published>>

\* Variant: there is no transaction around the statements.
InsertAutocommits(r) ==
    LET key == mem[r].at IN
    /\ pc[r] = "insert"
    /\ link[r]
    /\ key[1] <= mem[r].count
    /\ IF table[key] = NoRow
       THEN /\ table' = [table EXCEPT ![key] = Generated(r)]
            /\ mem' = [mem EXCEPT ![r].at = After(r), ![r].inserted = @ + 1]
       ELSE /\ mem' = [mem EXCEPT ![r].at = After(r)]
            /\ UNCHANGED table
    /\ UNCHANGED <<pend, known, audit, pc, link, published>>

\* load_orders, one INSERT ... ON CONFLICT DO NOTHING, and its rowcount.
Insert(r) ==
    LET key == mem[r].at IN
    /\ pc[r] = "insert"
    /\ link[r]
    /\ key[1] <= mem[r].count
    /\ KeyFree(r, key)
    /\ IF table[key] = NoRow
       THEN /\ pend' = [pend EXCEPT ![r][key] = Generated(r)]
            /\ mem' = [mem EXCEPT ![r].at = After(r), ![r].inserted = @ + 1]
       ELSE /\ mem' = [mem EXCEPT ![r].at = After(r)]
            /\ UNCHANGED pend
    /\ UNCHANGED <<table, known, audit, pc, link, published>>

\* The rows of an open transaction become visible.
Publish(r) ==
    /\ table' = [key \in Keys |->
                    IF pend[r][key] = NoRow THEN table[key] ELSE pend[r][key]]
    /\ pend' = [pend EXCEPT ![r] = NoRows]
    /\ published' = published \cup
                       {[batch |-> r, input |-> InputOf(r), count |-> mem[r].count]}

AllInserted(r) == pc[r] = "insert" /\ mem[r].at[1] > mem[r].count

\* COMMIT.
Commit(r) ==
    /\ AllInserted(r)
    /\ link[r]
    /\ Publish(r)
    /\ pc' = [pc EXCEPT ![r] = "finish"]
    /\ UNCHANGED <<known, audit, mem, link>>

\* COMMIT takes effect, but the connection breaks before the answer.
CommitUnacknowledged(r) ==
    /\ AllInserted(r)
    /\ link[r]
    /\ Publish(r)
    /\ link' = [link EXCEPT ![r] = FALSE]
    /\ pc' = [pc EXCEPT ![r] = "abort"]
    /\ UNCHANGED <<known, audit, mem>>

\* Variant: the transaction is tried again, on the connection there is.
TransactionRetried(r) ==
    /\ pc[r] \in {"users", "products", "insert"}
    /\ pend' = [pend EXCEPT ![r] = NoRows]
    /\ mem' = [mem EXCEPT ![r].at = <<1, 0>>, ![r].inserted = 0]
    /\ pc' = [pc EXCEPT ![r] = "users"]
    /\ UNCHANGED <<table, known, audit, link, published>>

\* A statement or the COMMIT of the transaction raises: it is rolled back.
TransactionRaises(r) ==
    /\ pc[r] \in {"users", "products", "insert"}
    /\ pend' = [pend EXCEPT ![r] = NoRows]
    /\ pc' = [pc EXCEPT ![r] = "abort"]
    /\ UNCHANGED <<table, known, audit, mem, link, published>>

SuccessRow(r) ==
    ClosedRow(audit[r], "success", [Zero EXCEPT !.inserted = mem[r].inserted])

\* finish_pipeline_run.
Finish(r) ==
    /\ pc[r] = "finish"
    /\ link[r]
    /\ audit' = [audit EXCEPT ![r] = SuccessRow(r)]
    /\ Leave(r)
    /\ UNCHANGED <<table, known, published>>

\* finish_pipeline_run raises, perhaps after its COMMIT took effect.
FinishRaises(r) ==
    /\ pc[r] = "finish"
    /\ \/ UNCHANGED <<audit, link>>
       \/ /\ link[r]
          /\ audit' = [audit EXCEPT ![r] = SuccessRow(r)]
          /\ link' = [link EXCEPT ![r] = FALSE]
    /\ pc' = [pc EXCEPT ![r] = "abort"]
    /\ UNCHANGED <<table, pend, known, mem, published>>

\* The "except" clause: the row is marked failed, with nothing inserted.
MarkFailed(r) ==
    /\ pc[r] = "abort"
    /\ link[r]
    /\ audit' = [audit EXCEPT ![r] = ClosedRow(@, "failed", Zero)]
    /\ Leave(r)
    /\ UNCHANGED <<table, known, published>>

\* That raises too; it is logged and forgotten.
MarkFailedRaises(r) ==
    /\ pc[r] = "abort"
    /\ Leave(r)
    /\ UNCHANGED <<table, known, audit, published>>

\* A statement raises whose connection is broken, or whose execution the server
\* cancels.
Raises(r) ==
    \/ CreateRunRaises(r) \/ TransactionRaises(r)
    \/ FinishRaises(r) \/ MarkFailedRaises(r)

\* The connection breaks; the server rolls an open transaction back.
Disconnect(r) ==
    /\ Alive(r)
    /\ link[r]
    /\ link' = [link EXCEPT ![r] = FALSE]
    /\ pend' = [pend EXCEPT ![r] = NoRows]
    /\ UNCHANGED <<table, known, audit, pc, mem, published>>

\* The process is killed.
Crash(r) ==
    /\ MayCrash
    /\ Alive(r)
    /\ Leave(r)
    /\ UNCHANGED <<table, known, audit, published>>

\* The steps the process takes by itself.
Step(r) ==
    \/ Connect(r) \/ ConnectFails(r) \/ CreateRun(r)
    \/ ReadUsers(r) \/ ReadProducts(r) \/ NothingToDrawFrom(r) \/ Generate(r)
    \/ Insert(r) \/ Commit(r) \/ CommitUnacknowledged(r)
    \/ Finish(r) \/ MarkFailed(r)
    \/ ~link[r] /\ Raises(r)

\* Every call has ended.
AllOver == (\A r \in Runs : pc[r] = "over") /\ UNCHANGED vars

Next == AllOver \/ \E r \in Runs : Step(r) \/ Raises(r) \/ Disconnect(r) \/ Crash(r)

Spec == Init /\ [][Next]_vars

FairSpec == Spec /\ \A r \in Runs : WF_vars(Step(r))

-----------------------------------------------------------------------------
(* Runs that wait for each other.                                          *)

WaitsFor(r, s) == r # s /\ pend[s][mem[r].at] # NoRow

\* r's next INSERT finds its key held by another transaction.
Waiting(r) == /\ pc[r] = "insert"
              /\ link[r]
              /\ mem[r].at[1] <= mem[r].count
              /\ ~KeyFree(r, mem[r].at)

\* s is further on in the order of the keys.
Ahead(r, s) == \/ mem[r].at[1] < mem[s].at[1]
               \/ mem[r].at[1] = mem[s].at[1] /\ mem[r].at[2] < mem[s].at[2]

-----------------------------------------------------------------------------
(* Properties.                                                             *)

\* Type invariant.
TypeOK ==
    /\ table \in [Keys -> OrderRow \cup {NoRow}]
    /\ pend \in [Runs -> [Keys -> OrderRow \cup {NoRow}]]
    /\ DOMAIN known \subseteq Inputs
    /\ \A i \in DOMAIN known : known[i] \in Plans(i.products)
    /\ audit \in [Runs -> Row \cup {NoRow}]
    /\ pc \in [Runs -> {"ready", "create", "users", "products", "generate",
                        "insert", "finish", "abort", "over"}]
    /\ mem \in [Runs -> Memory]
    /\ link \in [Runs -> BOOLEAN]
    /\ published \subseteq [batch : Runs, input : DOMAIN known, count : 1..MaxOrders]

WrittenBy(p, key) == table[key] # NoRow /\ table[key].batch = p.batch

\* The batch that wrote an order row wrote that order's lines, as generated.
BatchesWhole ==
    \A p \in published, k \in 1..MaxOrders :
        WrittenBy(p, <<k, 0>>) =>
            \A j \in 1..MaxLines :
                LET plan == known[p.input][k] IN
                IF j <= Len(plan)
                THEN WrittenBy(p, <<k, j>>) /\ table[<<k, j>>].product = plan[j]
                ELSE ~WrittenBy(p, <<k, j>>)

\* Every row is of a batch that committed.
RowsPublished ==
    \A key \in Keys : table[key] # NoRow => \E p \in published : WrittenBy(p, key)

\* The lines of an order are 1..m, with m > 0; no line stands without its order.
LinesContiguous ==
    \A k \in 1..MaxOrders :
        /\ table[<<k, 0>>] # NoRow => table[<<k, 1>>] # NoRow
        /\ \A i, j \in 0..MaxLines :
              i < j /\ table[<<k, j>>] # NoRow => table[<<k, i>>] # NoRow

\* An order is never torn.  Whatever crashes, breaks, overlaps or is run again,
\* the batch that wrote an order row wrote that order's lines too, all of them
\* and as generated; the line numbers of an order are 1..m without a gap, and no
\* line stands without its order.
WholeOrders == BatchesWhole /\ RowsPublished /\ LinesContiguous

RowsOf(r) == {key \in Keys : table[key] # NoRow /\ table[key].batch = r}

\* The audit row never claims rows that are not there: a run marked successful
\* inserted exactly as many rows as carry its batch_id, also when rows of other
\* runs, committed while it worked, turned its inserts into conflicts.
AuditCountsRows ==
    \A r \in Runs :
        audit[r] # NoRow =>
            IF audit[r].status = "success"
            THEN audit[r].counts.inserted = Cardinality(RowsOf(r))
            ELSE audit[r].counts = Zero

\* A second run from the same seed, users and products, for as many orders or
\* fewer, never inserts a row once the first has committed, not even when they
\* ran side by side.
RerunInsertsNothing ==
    \A r \in Runs, p \in published :
        pc[r] = "insert" /\ p.input = InputOf(r) /\ mem[r].count <= p.count
            => pend[r] = NoRows

\* The runs, however interleaved, act on the tables as whole batches, one INSERT
\* ... ON CONFLICT DO NOTHING each, that keep the promise of OrderContract: an
\* insert that met no row meets none at the COMMIT either, and one that met a row
\* need not look again.
Contract == INSTANCE OrderContract
            WITH table <- table, batches <- {p.batch : p \in published}
ImplementsOrders == Contract!Spec

\* No set of runs is stuck: if all of them wait for keys others hold, one waits
\* for a run outside the set that is still inserting.  All runs insert in the
\* order of the keys, so PostgreSQL never has a deadlock to break, and no key is
\* held by a call that is over (connection.close() rolls back).
RunsNeverStuck ==
    \A S \in SUBSET Runs :
        S # {} /\ (\A r \in S : Waiting(r)) =>
            \E r \in S, s \in Runs \ S :
                WaitsFor(r, s) /\ pc[s] = "insert" /\ link[s] /\ Ahead(r, s)

\* No two runs wait for each other's rows for ever: every call ends.
RunEnds == \A r \in Runs : Alive(r) ~> pc[r] = "over"

\* The claim of docs/portfolio-case-study.md that a retry creates no duplicate
\* order line: no order has the same product on two of its lines.
NoDuplicateLine ==
    \A k \in 1..MaxOrders, i, j \in 1..MaxLines :
        i # j /\ table[<<k, i>>] # NoRow /\ table[<<k, j>>] # NoRow
            => table[<<k, i>>].product # table[<<k, j>>].product
=============================================================================
