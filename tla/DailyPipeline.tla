---------------------------- MODULE DailyPipeline ----------------------------
(***************************************************************************)
(* One run of the Airflow DAG ecommerce_daily_pipeline, from its first     *)
(* task to its row in ops.pipeline_runs: eight tasks in a row, each tried  *)
(* up to Retries + 1 times, a callback that writes the failure of the run, *)
(* and operators who clear tasks of an ended run, which starts a further   *)
(* round of it under the same run_id and so with the same two batch_ids.   *)
(*                                                                         *)
(* Airflow may give up on an attempt (its heartbeat is lost) that goes on  *)
(* beside the next one, and it runs the callback apart from the tasks, so  *)
(* that a callback may come after the run has been cleared.                *)
(***************************************************************************)
EXTENDS Naturals

CONSTANTS Entities,       \* the catalogue entities, each with its raw table
          NoRow,          \* there is no row with this batch_id
          Workers,        \* places where a task's attempt can run
          Nobody,         \* no worker
          Retries,        \* default_args: retries
          MaxRound,       \* bound: how often the run starts, clearings included
          MayLose,        \* may Airflow give up on an attempt that still runs
          LateCallback    \* may a callback run after the clearing

ASSUME NobodyAssumption == Nobody \notin Workers
ASSUME NoRowAssumption == NoRow \notin {"running", "success", "partial", "failed"}
ASSUME BoundsAssumption == Retries \in Nat /\ MaxRound \in Nat \ {0}
ASSUME FlagAssumption == MayLose \in BOOLEAN /\ LateCallback \in BOOLEAN

\* The tasks in the order of their wiring.
CreateTask == 1      \* create_pipeline_run
IngestTask == 2      \* ingest_source_data
ValidateTask == 3    \* validate_raw_data
OrdersTask == 4      \* generate_orders
SnapshotTask == 5    \* dbt_snapshot
ModelsTask == 6      \* dbt_run
TestsTask == 7       \* dbt_test
RecordTask == 8      \* record_pipeline_success
Tasks == 1..8

DbtTasks == {SnapshotTask, ModelsTask, TestsTask}
Stages == {OrdersTask} \cup DbtTasks

VARIABLES row,       \* status of the run's row in ops.pipeline_runs, or NoRow
          ingest,    \* status of the row of its ingestion batch, or NoRow
          active,    \* active[e]: entity e's raw table has an active row
          fresh,     \* the stages that have run to their end since the stages
                     \* before them last changed anything
          dag,       \* Airflow's state of the run
          round,     \* 1, and one more for each clearing
          at,        \* the task whose turn it is; 9 when all have succeeded
          tries,     \* attempts started for it
          owner,     \* the worker whose attempt Airflow waits for, or Nobody
          doing,     \* doing[w]: the task of the attempt at worker w, 0 for none
          pc,        \* where that attempt is in its task
          report,    \* the exit code of its ingestion process
          callback,  \* callback[r]: the failure callback of round r
          stray      \* history: has an attempt that was given up on, or a late
                     \* callback, written anything

flow == <<dag, round, at, tries, owner, callback>>
data == <<ingest, active, fresh>>
vars == <<row, data, flow, doing, pc, report, stray>>

Ingestion == INSTANCE IngestionContract WITH status <- ingest, active <- active

Rounds == 1..MaxRound

Init ==
    /\ row = NoRow
    /\ Ingestion!Init
    /\ fresh = {}
    /\ dag = "running"
    /\ round = 1
    /\ at = CreateTask
    /\ tries = 0
    /\ owner = Nobody
    /\ doing = [w \in Workers |-> 0]
    /\ pc = [w \in Workers |-> "idle"]
    /\ report = [w \in Workers |-> "none"]
    /\ callback = [r \in Rounds |-> "none"]
    /\ stray = FALSE

-----------------------------------------------------------------------------
(* What Airflow does with the tasks: external, from the DAG's settings. *)

\* Airflow starts an attempt of the task whose turn it is.
StartAttempt(w) ==
    /\ dag = "running"
    /\ owner = Nobody
    /\ doing[w] = 0
    /\ owner' = w
    /\ tries' = tries + 1
    /\ doing' = [doing EXCEPT ![w] = at]
    /\ pc' = [pc EXCEPT ![w] = "body"]
    /\ UNCHANGED <<row, data, dag, round, at, callback, report, stray>>

\* Variant: one failed try ends nothing, however many there were.
TryFailsForever ==
    /\ owner' = Nobody
    /\ tries' = 0
    /\ UNCHANGED <<dag, round, at, callback>>

\* Variant: one try too many.
TryFailsLate ==
    /\ owner' = Nobody
    /\ IF tries <= Retries + 1
       THEN UNCHANGED <<dag, callback>>
       ELSE /\ dag' = "failed"
            /\ callback' = [callback EXCEPT ![round] = "update"]
    /\ UNCHANGED <<round, at, tries>>

\* The attempt Airflow waits for has failed: the task is tried again, or the
\* run has failed and its callback is due.
TryFails ==
    /\ owner' = Nobody
    /\ IF tries <= Retries
       THEN UNCHANGED <<dag, callback>>
       ELSE /\ dag' = "failed"
            /\ callback' = [callback EXCEPT ![round] = "update"]
    /\ UNCHANGED <<round, at, tries>>

\* The attempt Airflow waits for has succeeded: it is the next task's turn, or
\* the run has succeeded.
TrySucceeds ==
    /\ owner' = Nobody
    /\ at' = at + 1
    /\ tries' = 0
    /\ dag' = IF at = RecordTask THEN "success" ELSE dag
    /\ UNCHANGED <<round, callback>>

\* The attempt at w is over.  Airflow has no use for the end of an attempt it
\* gave up on.
Over(w) ==
    /\ doing' = [doing EXCEPT ![w] = 0]
    /\ pc' = [pc EXCEPT ![w] = "idle"]
    /\ report' = [report EXCEPT ![w] = "none"]

Returns(w) ==
    Over(w) /\ (IF owner = w THEN TrySucceeds ELSE UNCHANGED flow)
Raises(w) ==
    Over(w) /\ (IF owner = w THEN TryFails ELSE UNCHANGED flow)

\* The attempt at w writes to the database.
Writes(w) == stray' = (stray \/ owner # w)

\* The heartbeat of an attempt is lost while the attempt lives on.
LoseAttempt(w) ==
    /\ MayLose
    /\ owner = w
    /\ TryFails
    /\ UNCHANGED <<row, data, doing, pc, report, stray>>

\* An operator clears task t and the tasks after it of an ended run.
Clear(t) ==
    /\ dag # "running"
    /\ round < MaxRound
    /\ t <= at
    /\ LateCallback \/ callback[round] \notin {"update", "insert"}
    /\ dag' = "running"
    /\ round' = round + 1
    /\ at' = t
    /\ tries' = 0
    /\ UNCHANGED <<row, data, owner, callback, doing, pc, report, stray>>

-----------------------------------------------------------------------------
(* The bodies of the tasks. *)

\* The attempt ends with an exception and has changed nothing since its last
\* step: it cannot connect, a statement is rolled back, it is killed.
AttemptFails(w) ==
    /\ doing[w] # 0
    /\ Raises(w)
    /\ UNCHANGED <<row, data, stray>>

\* create_pipeline_run: the row is inserted, or the row of an earlier attempt or
\* round is running again.  The answer to the COMMIT may be lost.
CreatePipelineRun(w) ==
    /\ doing[w] = CreateTask
    /\ row' = "running"
    /\ Writes(w)
    /\ Returns(w) \/ Raises(w)
    /\ UNCHANGED <<data>>

\* ingest_source_data starts ingest-platzi, which opens the batch's row.
StartIngestion(w) ==
    /\ doing[w] = IngestTask
    /\ pc[w] = "body"
    /\ Ingestion!Open
    /\ Writes(w)
    /\ pc' = [pc EXCEPT ![w] = "process"]
    /\ UNCHANGED <<row, fresh, flow, doing, report>>

\* A load of that process is committed: all that was made of the tables before
\* is out of date.
LandLoad(w) ==
    /\ pc[w] = "process"
    /\ \E e \in Entities : Ingestion!Land(e)
    /\ fresh' = {}
    /\ Writes(w)
    /\ UNCHANGED <<row, flow, doing, pc, report>>

ExitCode(verdict) == CASE verdict = "success" -> "0"
                       [] verdict = "partial" -> "1"
                       [] verdict = "failed" -> "2"

\* The process closes the row and reports its batch_id and status.
EndIngestion(w) ==
    /\ pc[w] = "process"
    /\ \E v \in Ingestion!Verdicts :
          /\ Ingestion!Close(v)
          /\ report' = [report EXCEPT ![w] = ExitCode(v)]
    /\ Writes(w)
    /\ pc' = [pc EXCEPT ![w] = "read"]
    /\ UNCHANGED <<row, fresh, flow, doing>>

\* The process closes the row, but ends without a report (it marked the row
\* failed after an exception, or the answer to the COMMIT was lost): the task
\* finds no batch_id in the output.
EndIngestionSilently(w) ==
    /\ pc[w] = "process"
    /\ \E v \in Ingestion!Verdicts : Ingestion!Close(v)
    /\ Writes(w)
    /\ Raises(w)
    /\ UNCHANGED <<row, fresh>>

\* What the task makes of the row it reads after the process has ended.  A
\* partial ingestion is let through whatever the exit code.
Accepts(w) == ingest = "partial" \/ (ingest = "success" /\ report[w] = "0")

\* Variant: the report of the process is enough.
ReadReport(w) ==
    /\ pc[w] = "read"
    /\ IF report[w] \in {"0", "1", "2"} THEN Returns(w) ELSE Raises(w)
    /\ UNCHANGED <<row, data, stray>>

ReadIngestion(w) ==
    /\ pc[w] = "read"
    /\ IF Accepts(w) THEN Returns(w) ELSE Raises(w)
    /\ UNCHANGED <<row, data, stray>>

\* Variant: one table with rows is enough.
ValidateAnyData(w) ==
    /\ doing[w] = ValidateTask
    /\ IF \E e \in Entities : active[e] THEN Returns(w) ELSE Raises(w)
    /\ UNCHANGED <<row, data, stray>>

\* validate_raw_data: every table has an active row.
ValidateRawData(w) ==
    /\ doing[w] = ValidateTask
    /\ IF \A e \in Entities : active[e] THEN Returns(w) ELSE Raises(w)
    /\ UNCHANGED <<row, data, stray>>

\* A stage has a new result: those of the later stages are out of date.
Renewed(k) == {s \in fresh : s < k} \cup {k}

\* A stage has failed, and may have left part of a result.
Spoiled(k) == {s \in fresh : s < k}

\* generate_orders: what is missing of the orders of the run's business date is
\* inserted in one transaction (OrderGeneration.tla).  The answer to its COMMIT
\* may be lost.
GenerateOrders(w) ==
    /\ doing[w] = OrdersTask
    /\ fresh' = Renewed(OrdersTask)
    /\ Writes(w)
    /\ Returns(w) \/ Raises(w)
    /\ UNCHANGED <<row, ingest, active>>

\* dbt_snapshot, dbt_run, dbt_test: the command's exit code is zero.
RunDbt(w) ==
    /\ doing[w] \in DbtTasks
    /\ fresh' = Renewed(doing[w])
    /\ Writes(w)
    /\ Returns(w)
    /\ UNCHANGED <<row, ingest, active>>

\* Variant: the exit code of dbt is not looked at.
IgnoreDbtExit(w) ==
    /\ doing[w] \in DbtTasks
    /\ fresh' = Spoiled(doing[w])
    /\ Writes(w)
    /\ Returns(w)
    /\ UNCHANGED <<row, ingest, active>>

\* It is not: models or tests have failed, others are done.
DbtFails(w) ==
    /\ doing[w] \in DbtTasks
    /\ fresh' = Spoiled(doing[w])
    /\ Writes(w)
    /\ Raises(w)
    /\ UNCHANGED <<row, ingest, active>>

\* Variant: success is recorded for a run that is still marked running only.
RecordIfRunning(w) ==
    /\ doing[w] = RecordTask
    /\ row # NoRow
    /\ row' = IF row = "running" THEN "success" ELSE row
    /\ Writes(w)
    /\ Returns(w) \/ Raises(w)
    /\ UNCHANGED <<data>>

\* record_pipeline_success: the row, whatever it says, is a success (without a
\* row the task raises).  The answer to the COMMIT may be lost.
RecordPipelineSuccess(w) ==
    /\ doing[w] = RecordTask
    /\ row # NoRow
    /\ row' = "success"
    /\ Writes(w)
    /\ Returns(w) \/ Raises(w)
    /\ UNCHANGED <<data>>

-----------------------------------------------------------------------------
(* _mark_dag_failed: an UPDATE, then an INSERT when there was no row. *)

CallbackEnds(r, how) ==
    /\ callback' = [callback EXCEPT ![r] = how]
    /\ UNCHANGED <<data, dag, round, at, tries, owner, doing, pc, report>>

CallbackUpdates(r) ==
    /\ callback[r] = "update"
    /\ row # NoRow
    /\ row' = "failed"
    /\ stray' = (stray \/ r # round)
    /\ CallbackEnds(r, "done")

CallbackFindsNoRow(r) ==
    /\ callback[r] = "update"
    /\ row = NoRow
    /\ CallbackEnds(r, "insert")
    /\ UNCHANGED <<row, stray>>

\* Variant: a row that has come in between is left alone.
CallbackInsertsOrNothing(r) ==
    /\ callback[r] = "insert"
    /\ row' = IF row = NoRow THEN "failed" ELSE row
    /\ stray' = (stray \/ r # round)
    /\ CallbackEnds(r, "done")

\* ON CONFLICT (batch_id) DO UPDATE: a row that has come in between is updated.
CallbackInserts(r) ==
    /\ callback[r] = "insert"
    /\ row' = "failed"
    /\ stray' = (stray \/ r # round)
    /\ CallbackEnds(r, "done")

\* An exception in the callback is logged and nothing else.
CallbackRaises(r) ==
    /\ callback[r] \in {"update", "insert"}
    /\ CallbackEnds(r, "lost")
    /\ UNCHANGED <<row, stray>>

Callback(r) == \/ CallbackUpdates(r) \/ CallbackFindsNoRow(r)
               \/ CallbackInserts(r) \/ CallbackRaises(r)

-----------------------------------------------------------------------------
\* A step of the attempt at w.
Step(w) ==
    \/ AttemptFails(w)
    \/ CreatePipelineRun(w)
    \/ StartIngestion(w) \/ LandLoad(w)
    \/ EndIngestion(w) \/ EndIngestionSilently(w) \/ ReadIngestion(w)
    \/ ValidateRawData(w)
    \/ GenerateOrders(w)
    \/ RunDbt(w) \/ DbtFails(w)
    \/ RecordPipelineSuccess(w)

Next ==
    \/ \E w \in Workers : StartAttempt(w) \/ Step(w) \/ LoseAttempt(w)
    \/ \E r \in Rounds : Callback(r)
    \/ \E t \in Tasks : Clear(t)

\* Every command and statement comes to an end, every callback is run, and
\* Airflow starts the attempts that are due while a worker is free.
Fairness ==
    /\ WF_vars(\E w \in Workers : StartAttempt(w))
    /\ \A w \in Workers : WF_vars(Step(w))
    /\ \A r \in Rounds : WF_vars(Callback(r))

Spec == Init /\ [][Next]_vars /\ Fairness

-----------------------------------------------------------------------------
\* The variables have their types.
TypeOK ==
    /\ row \in {NoRow, "running", "success", "failed"}
    /\ ingest \in {NoRow, "running", "success", "partial", "failed"}
    /\ active \in [Entities -> BOOLEAN]
    /\ fresh \in SUBSET Stages
    /\ dag \in {"running", "success", "failed"}
    /\ round \in Rounds
    /\ at \in 1..9
    /\ tries \in 0..Retries + 1
    /\ owner \in Workers \cup {Nobody}
    /\ doing \in [Workers -> 0..8]
    /\ pc \in [Workers -> {"idle", "body", "process", "read"}]
    /\ report \in [Workers -> {"none", "0", "1", "2"}]
    /\ callback \in [Rounds -> {"none", "update", "insert", "done", "lost"}]
    /\ stray \in BOOLEAN

\* The audit row of an ended run says how the run ended, also when the first
\* task never got through, when answers of the database were lost, and when the
\* run was cleared from any of its tasks and run again.  Two things can prevent
\* it: a callback that cannot write, and a write by an attempt Airflow has given
\* up on or by a callback that comes after the clearing.
RowFollowsRun ==
    ~stray => /\ dag = "success" => row = "success"
              /\ dag = "failed" /\ callback[round] = "done" => row = "failed"

\* When a run has succeeded, the tests have passed on models that were built
\* after the snapshot, the snapshot was taken after the orders were generated,
\* and nothing has been loaded since: retries, failures in the middle of a stage
\* and clearings leave no stage behind.
SuccessIsBuilt == dag = "success" /\ ~stray => fresh = Stages

\* A run that has got past its ingestion leaves no unfinished ingestion batch
\* behind: a process killed between opening and closing the row is followed by
\* another one on the same row, or the run has failed.
IngestionSettled ==
    at > IngestTask /\ ~stray => ingest \in {"success", "partial"}

\* Once the raw tables have been validated they have active rows for all the
\* tasks that follow, in every later round, whatever an ingestion that Airflow
\* has lost sight of still loads.
TablesStayFilled == at > ValidateTask => \A e \in Entities : active[e]

\* A callback that gets through to the database leaves the row failed, also when
\* the row appears between its UPDATE and its INSERT.
FailureIsWritten ==
    [][\A r \in Rounds :
          callback'[r] = "done" /\ callback[r] # "done" => row' = "failed"]_vars

\* Every round of the run ends, in success or in failure.
RunEnds == dag = "running" ~> dag # "running"

\* docs/operations-runbook.md: "successful run has non-null `finished_at` and
\* `status='success'`".
SuccessfulRunReadsSuccess == dag = "success" => row = "success"
=============================================================================
