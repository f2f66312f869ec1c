---------------------------- MODULE OrderContract ----------------------------
(***************************************************************************)
(* What run_order_generation promises to everything that reads the orders  *)
(* of a business date (raw.orders, raw.order_items): the two tables change *)
(* only by whole batches, each as one INSERT ... ON CONFLICT DO NOTHING of *)
(* all of its orders and all of their lines; a batch is written once, and  *)
(* a row, once there, stays as it is.                                      *)
(*                                                                         *)
(* OrderGeneration.tla, where a batch is written row by row beside other   *)
(* batches, is shown to implement this specification.                      *)
(***************************************************************************)
EXTENDS Naturals, Sequences

CONSTANTS Runs,       \* batches
          MaxOrders,  \* most orders of a batch
          MaxLines,   \* most lines of an order
          Products,
          NoProduct,  \* an order row has no product
          NoRow       \* no row has the key

VARIABLES table,      \* the committed rows: [Keys -> row or NoRow]
          batches     \* the batches that have been written

\* <<k, 0>> is order number k, <<k, j>> is its line number j.
Keys == (1..MaxOrders) \X (0..MaxLines)

\* An order's lines: a product each, all different.
Order == UNION {{s \in [1..n -> Products] :
                    \A i, j \in 1..n : s[i] = s[j] => i = j} : n \in 1..MaxLines}

\* Line j of order k (the order row, if j = 0) is one of the batch's rows.
Has(orders, key) == key[1] \in DOMAIN orders /\ key[2] <= Len(orders[key[1]])

RowOf(r, orders, key) ==
    [batch |-> r, product |-> IF key[2] = 0 THEN NoProduct
                                            ELSE orders[key[1]][key[2]]]

Init ==
    /\ table = [key \in Keys |-> NoRow]
    /\ batches = {}

\* The tables once each of the batch's rows whose key was not there is.
Written(r, orders) ==
    [key \in Keys |-> IF table[key] = NoRow /\ Has(orders, key)
                      THEN RowOf(r, orders, key)
                      ELSE table[key]]

\* A batch is written.
Next == \E r \in Runs \ batches :
           /\ batches' = batches \cup {r}
           /\ \E n \in 1..MaxOrders : \E orders \in [1..n -> Order] :
                 table' = Written(r, orders)

Spec == Init /\ [][Next]_<<table, batches>>
=============================================================================
