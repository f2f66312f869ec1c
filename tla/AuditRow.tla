------------------------------ MODULE AuditRow ------------------------------
(***************************************************************************)
(* One row of ops.pipeline_runs and the two statements of database.py that *)
(* write it.  The modules of the pipelines that keep such a row extend     *)
(* this one.                                                               *)
(***************************************************************************)
EXTENDS Naturals

CONSTANT NoRow   \* there is no row with this batch_id

Terminal == {"success", "partial", "failed"}

\* The four record counters.
Counts == [extracted : Nat, inserted : Nat, updated : Nat, rejected : Nat]

Zero == [extracted |-> 0, inserted |-> 0, updated |-> 0, rejected |-> 0]

Row == [status : Terminal \cup {"running"}, counts : Counts]

\* create_pipeline_run: a new row, or the row of an earlier attempt with the
\* same batch_id, is (again) running with all counters at zero.
OpenedRow == [status |-> "running", counts |-> Zero]

\* finish_pipeline_run: an UPDATE by batch_id, whatever the row's status is; it
\* touches nothing when there is no row.
ClosedRow(row, status, counts) ==
    IF row = NoRow THEN NoRow ELSE [status |-> status, counts |-> counts]
=============================================================================
