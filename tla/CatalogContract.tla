-------------------------- MODULE CatalogContract --------------------------
(***************************************************************************)
(* What one load promises to everything that reads a raw catalogue table   *)
(* (raw.categories, raw.products, raw.users): the table changes only by    *)
(* whole loads, no row is ever removed, a row leaves the active catalogue  *)
(* only in a load that also put a row into it, and a row that leaves it    *)
(* keeps the value it had.                                                 *)
(*                                                                         *)
(* EntityLoader.tla is shown to implement this specification.              *)
(***************************************************************************)
CONSTANTS Ids,      \* source ids: the primary key of the table
          Values,   \* what record_hash tells apart
          NoRow     \* "no row has this id"

VARIABLE rows       \* the committed table

Row == [value : Values, active : BOOLEAN]

\* The rows a reader of the active catalogue sees.
Active(t) == {i \in Ids : t[i] # NoRow /\ t[i].active}

\* One committed load: "loaded" were upserted, "dropped" were deactivated.
LoadOf(loaded, dropped) ==
    /\ dropped # {} => loaded # {}
    /\ dropped \subseteq Active(rows) \ loaded
    /\ rows' \in [Ids -> Row \cup {NoRow}]
    /\ loaded \subseteq Active(rows')
    /\ \A i \in dropped : rows'[i] = [value |-> rows[i].value, active |-> FALSE]
    /\ \A i \in Ids \ (loaded \cup dropped) : rows'[i] = rows[i]

Init == rows = [i \in Ids |-> NoRow]

Next == \E loaded, dropped \in SUBSET Ids : LoadOf(loaded, dropped)

Spec == Init /\ [][Next]_rows
============================================================================
