-------------------------- MODULE IngestionContract --------------------------
(***************************************************************************)
(* What the processes of one ingestion batch do, however many there are    *)
(* and however they overlap, to the two things the daily pipeline looks    *)
(* at: the batch's status in ops.pipeline_runs, and which of the raw       *)
(* tables have active rows.  IngestionRun.tla is shown to implement this   *)
(* specification; DailyPipeline.tla is built on it.                        *)
(***************************************************************************)
CONSTANTS Entities,   \* the catalogue entities, each with its raw table
          NoRow       \* no row has this batch_id

VARIABLES status,     \* the status column of the batch's row, or NoRow
          active      \* active[e]: entity e's table has an active row

Verdicts == {"success", "partial", "failed"}

Init == status = NoRow /\ active \in [Entities -> BOOLEAN]

\* A process opens the row, or opens it again.
Open == status' = "running" /\ UNCHANGED active

\* A load puts rows into a table; no load takes the last one away.
Land(e) == active' = [active EXCEPT ![e] = TRUE] /\ UNCHANGED status

\* A process closes the row; it says success only of a full catalogue.
Close(v) ==
    /\ status # NoRow
    /\ v = "success" => \A e \in Entities : active[e]
    /\ status' = v
    /\ UNCHANGED active

Next == \/ Open
        \/ \E e \in Entities : Land(e)
        \/ \E v \in Verdicts : Close(v)

Spec == Init /\ [][Next]_<<status, active>>
=============================================================================
