# Verification of the e-commerce data platform

TLA+ models of the platform's pipelines, model-checked with TLC and proved with
TLAPS. The repository is a batch system: a public API's catalogue (categories,
products, users) is loaded into PostgreSQL, synthetic orders are generated from
it, dbt transforms both, and Airflow runs the whole daily and watches it. What is
hard in it is not the transformation of data but what happens to the tables and to
the audit rows when loads overlap, statements fail, commits are not acknowledged,
tasks are retried and processes die. That is what is modelled.

## 1. Inventory

| Component | Code | State it keeps | Operations | Module |
|---|---|---|---|---|
| Entity loader | `loader.py` | one raw table per entity (`is_active`, hash), `ops.rejected_records` | `load_entity`: quarantine, select, upsert in a savepoint, deactivate, commit | `EntityLoader`, `CatalogContract` |
| Validation | `validation.py`, `models.py` | none | `validate_records`: valid records and issues | inputs of `EntityLoader` |
| Audit rows | `database.py` | `ops.pipeline_runs` | `create_pipeline_run`, `finish_pipeline_run` | `AuditRow` |
| Catalogue ingestion | `ingestion.py`, `ingest_cli.py` | counters, one audit row, exit code | `run_ingestion` | `IngestionRun`, `IngestionContract` |
| Order generation | `synthetic_orders.py`, `order_generation.py`, `generate_orders_cli.py` | `raw.orders`, `raw.order_items`, one audit row per run | `run_order_generation` | `OrderGeneration`, `OrderContract` |
| API client | `api_client.py` | offset, pages seen, records yielded | paging, retries | `ProductFeed` |
| Daily DAG | `airflow/dags/ecommerce_daily_pipeline.py` | the orchestration's audit row, task states | tasks, retries, failure callback, clearing | `DailyPipeline` |
| Monitor DAG | `airflow/dags/ecommerce_pipeline_monitor.py`, the health view in `sql/init/03_create_monitoring_objects.sh` | `ops.pipeline_alerts` | health check, record, resolve, send | `PipelineMonitor` |
| dbt project | `dbt/ecommerce_dw` | views and tables derived from raw | run, test, snapshot | not modelled |
| Bootstrap, scripts, CI, dashboards | `sql/init`, `scripts`, `.github`, `dashboards`, `docs` | none at run time | one-shot | not modelled |

Interaction: `run_ingestion` reads each entity through the API client into a list
and hands it to `load_entity`; what the list lacks is deactivated. The DAG starts
`ingest-catalog` and `generate-orders` as processes and reads the ingestion's
audit row afterwards; it keeps an audit row of its own, which the monitor DAG
compares with the clock every 15 minutes. A process holds one connection; all
sharing is through PostgreSQL at READ COMMITTED. `run_ingestion` calls
`load_entity` once per entity; order generation reads the tables that
`load_entity` writes, without any coordination with it.

What makes each part correct:

- *Entity loader*: a committed load leaves exactly its feed active; it never
  empties the catalogue; its counters account for every record; loads that overlap
  behave like whole loads; each load ends.
- *Ingestion run*: the audit row, once closed, tells what was committed; `success`
  means every entity's table was filled; each attempt ends.
- *Order generation*: orders are stored whole, and readers see whole batches only;
  the audit row counts the rows of its batch; a repeated run inserts nothing; runs
  never wait for each other in a circle.
- *API client*: a catalogue that rests is delivered whole or not at all; no
  product comes twice; what is missed was moved by a removal; each reading ends.
- *Daily DAG*: its audit row says how the run ended; success means that every
  stage ran after what it reads; each run ends.
- *Monitor*: an alert is announced once; a missing run is missing; trouble that
  lasts opens its alert and health closes them; the dashboard's view agrees.

The hard behaviours (the list with lines is under `hazards` in `PROJECT.json`): a
row read before a lock wait and used after it; two loads that deadlock; a
quarantine statement that fails itself; a COMMIT whose answer is lost; a zombie
attempt that closes the row its successor has reopened; inserts of two runs with
the same keys; inputs that change between two runs that share their keys; a
catalogue that shifts between two pages; a task attempt Airflow has lost sight of;
a run cleared in the middle; a failure callback that comes late; a clock read
after the row it is compared with; an alert recorded and not sent.

## 2. Modules

### CatalogContract and EntityLoader

`CatalogContract` says what one load may do to a raw table, in one step: some
records are loaded and active with their values; some other active rows are
switched off and keep their values; nothing happens to the rest, and nothing is
switched off unless something was loaded.

`EntityLoader` is `load_entity` statement by statement, for a set `Procs` of
processes that load the same entity. One action stands for one statement:

| Action | Code |
|---|---|
| `Begin` | the call, and the outer `connection.transaction()` |
| `QuarantineIssue` | the loop over `result.rejected` |
| `SelectExisting` | `SELECT_EXISTING_SQL` for the next valid record |
| `Upsert` / `UpsertRefused` | the savepoint with `UPSERT_SQL`, then the counters or the `except` branch |
| `StartDeactivation`, `DeactivateRow` | `DEACTIVATE_SQL`: its snapshot, then one step per row |
| `Commit`, `CommitUnacknowledged` | the end of the `with` block |
| `QuarantineFails`, `DeactivationVictim`, `Disconnect` | the exceptions that leave the block |

PostgreSQL is modelled by what the code relies on. `pend[p]` holds the uncommitted
versions of the rows, `owner` the row locks, `Visible` what a statement reads. A
statement that needs a locked row waits; `DEACTIVATE_SQL` re-evaluates its WHERE
clause on the row version it finds after the wait; a process on a cycle of waits
may have its statement failed. `Waiting` and `StepsLeft`, used by properties only,
say that a load's next statement is held up and how much is left of its call. A
record is an id, a value (what the hash tells apart), whether the table's checks
accept it, and whether jsonb can store its payload at all (it cannot store
U+0000).

Left out: the conversion of fields (`prepare_record`), timestamps, error texts.

### AuditRow and IngestionRun

`AuditRow` is one row of `ops.pipeline_runs` and the two statements that write it.
`IngestionRun` is `run_ingestion` for a set of attempts that share a batch id, as
Airflow's retries do. Each statement may raise, before or after it took effect;
the loop catches what the code catches (`EntityFails`) and leaves the rest to the
`except` clause (`Unexpected`, then `MarkFailed`). `link` is the database
connection: once it is broken every later statement raises, because
`run_ingestion` never reconnects. A load is a single step here; what it returns is
any split of the records into inserted, updated, unchanged and rejected, which is
what `EntityLoader` establishes of an acknowledged load.

`landed` is a history variable: what each attempt committed, whether or not it was
told so.

`IngestionContract` is what the daily pipeline can rely on: of all the attempts
together it sees the status of the batch's row and which tables have active rows.
A process opens the row, loads land, a process closes the row, and `success` is
written of a full catalogue only. `ImplementsIngestion` maps `IngestionRun` to it:
the status is the column of the row (`StatusColumn`), the tables are the same.

### ProductFeed

`iter_all` for one entity. Categories and users come in one answer
(`ListAnswered`); products are asked for page by page. The source is external: a
sequence of product ids from which products are removed anywhere (`Remove`) and to
which they are added at the end (`Add`) between any two requests, and which may
ignore the offset (`OffsetIgnored`). What `_iter_paginated_products` does with a
page has one operator for each way out of the loop: `EmptyPage`, `RepeatedPage`,
`ShortPage`, and `FullPage`, which goes on or runs into `api_max_pages`. A request
fails and is repeated up to `api_max_attempts` (`RequestFails`), or is not worth
repeating (`AnswerUnusable`). A reading that fails delivers nothing, because
`run_ingestion` takes the records as a list.

`kept`, `gone` and `added` are history: which products were in the catalogue all
the time, and how often it changed.

### DailyPipeline

One run of the DAG and its clearings (`round`). The tasks are numbered in the
order of their wiring; `at` is the one whose turn it is. Airflow is external: it
starts an attempt (`StartAttempt`), tries a task again or fails the run
(`TryFails`), gives up on an attempt that goes on (`LoseAttempt`), and lets
operators clear any task of an ended run with those after it (`Clear`).
`StartIngestion`, `LandLoad`, `EndIngestion` are the process that
`ingest_source_data` starts, and the actions of `IngestionContract`, which is an
instance here; `ReadIngestion` is the SELECT on the row after its end. The stages
from `generate_orders` to `dbt_test` are reduced to `fresh`: which of them have
run to the end since what they read last changed. The callback is two statements,
an UPDATE and, if it met no row, an INSERT that updates on conflict, and runs
whenever it likes after the failure (`callback`).

`stray` is history: has anything been written by an attempt or a callback after
its time. No claim on the row is made of such runs; the finding below is about
one.

### PipelineMonitor

The clock, the rows of a few runs, and `check_pipeline_health`. `Pipeline` moves
the clock and writes rows as the daily DAG does: a run starts, or starts again
when it is cleared (which renews `started_at`), ends, ends in another way by a
late callback, or has only the fallback row. A check is three steps: `Look` reads
the latest row by `started_at`, `Judge` reads the clock and records the alert of
`Verdict` or resolves all, `Send` or `SendFails` is the webhook. An attempt may
also fail before it has recorded anything; its retry begins with `Look` again and
is a check like any other. `occurrence_count` is kept as what it decides: whether
the alert was open. `HealthStatus` is the CASE of the view
`ops.v_pipeline_run_health`.

`told`, `missed` and `lookedAt` are history: messages of the open alert, alerts
whose sending failed, and when the rows were read.

### OrderContract and OrderGeneration

`OrderContract` is what a reader of `raw.orders` and `raw.order_items` sees: each
batch is written once, in one step, as `INSERT ... ON CONFLICT DO NOTHING` of all
of its orders and lines, and a row never changes. `ImplementsOrders` maps
`OrderGeneration` to it: the table is the same, a batch is written when it is in
`published`.

`OrderGeneration` is `run_order_generation` for a set of runs of one business
date. `<<k, 0>>` is the row of order number `k`, `<<k, j>>` its line `j`; since
order ids are UUID5 of the date and `k`, all runs of the date share these keys.
The generator is seeded, hence a function; the model does not compute it but fixes
an arbitrary plan the first time an input (seed, users, products) occurs and uses
it again (`known`). Users and products are read by two statements, each of which
returns any subset: ingestion may change both tables at any time. Each `Insert` is
one `INSERT ... ON CONFLICT DO NOTHING`, which waits for a transaction that holds
the key uncommitted. The stored data are the batch that wrote a row and the
product of a line; quantities, prices, statuses and times are left out.

`published` is a history variable: the batches that committed and their inputs.

## 3. Runs

| Run | Bounds | Shows |
|---|---|---|
| `loader_single` | 1 process, 3 ids, 2 values, feeds of at most 2 valid records and 1 issue | the loaded table is the feed, every entry is accounted for, counters are exact |
| `loader_overlap` | 2 processes, 3 ids, 2 values, feeds of at most 2 loadable records | never emptied, counters bound the effect, loads are atomic (refinement of `CatalogContract`), a load fills its table as `IngestionRun` has it, no loads are stuck |
| `loader_liveness` | 2 processes, 2 ids | no step adds to what a load has left to do, every load ends |
| `loader_quarantine` | 1 process, 1 id, at most 2 issues | finding: rejected records are dropped with the load |
| `ingestion_overlap` | 2 attempts, 2 entities, at most 1 record each, overlap and crashes | a closed row tells the truth, success fills every table, attempts end, refinement of `IngestionContract` |
| `orders_runs` | 2 runs, 2 orders, 2 products, 2 lines, crashes | whole orders, exact counts, equal inputs insert nothing twice, no runs are stuck, refinement of `OrderContract`, runs end |
| `orders_rerun` | 2 runs, 1 order, 2 products | finding: a repeated call duplicates a line after the catalogue changed |
| `feed_changes` | pages of 2, at most 3 pages, 2 attempts, up to 7 products, 3 changes | a resting catalogue is whole, nothing comes twice, one product missed per removal at most, readings end |
| `daily_run` | 2 workers, 2 entities, 1 retry, 1 clearing, lost attempts, late callbacks | the row follows the run, success is built in order, ingestion settled, tables filled, runs end |
| `daily_callback` | 1 worker, 1 clearing | finding: a late callback marks a successful run failed |
| `monitor_checks` | 2 runs, 3 writes to their rows, days of 2 ticks, 3 days, 1 failed attempt | alerts told once, missing is missing, the view agrees, alerts settle |
| `monitor_oldrow` | 1 run, 2 writes | finding: a missing alert resolved on the proof of an old row |

Why the bounds are enough. *Loader*: an id can be in the feed, in the table or in
both, so two ids give every relation and the third leaves one row that a load
deactivates while another id is contended; two records are the least in which an
id repeats and the least with which two loads deadlock; two values are what the
hash comparison tells apart. *Ingestion*: two entities are the least with a
`partial` verdict by failure, one record the least with a rejected one; three
entities were run without a difference. *Orders*: two orders of two lines are the
least with a next order and a next line to be torn off; two runs are the least
that compete, and one of them may come after the other. *Feed*: seven products are
more than the six the pages allow, six fill the last allowed page exactly; three
changes put a removal before, in and behind the offset. *Daily run*: a second
worker is what a lost attempt needs to go on beside the next; one clearing is the
least in which a callback comes late. *Monitor*: days of two ticks have an hour at
which the run is expected and one behind the grace period; the third day is the
first on which an old run can be stale rather than missing; three writes are a run
that ends and another that starts, in any order, or one that is cleared.

`Symmetry` is used only in runs without liveness. Deadlock is checked in the
loader, ingestion, order and monitor runs; where those stop they have an explicit
stuttering action `AllOver`. A reading of the feed and a run of the DAG really
end: their runs do not check for deadlock, and `ReadingEnds` and `RunEnds` say
that they stop nowhere else.

### Fairness

- `EntityLoader`: strong fairness of the steps of each process. PostgreSQL queues
  the waiters of a row lock and its deadlock detector runs whenever a wait lasts,
  so a waiter is served infinitely often enabled or not; weak fairness would let a
  process be overtaken for ever by ever new loads of the other. No fairness is
  assumed for new calls, disconnections or lost answers.
- `IngestionRun`, `OrderGeneration`: weak fairness of the steps of each process;
  it is running sequential code. Crashes, lost answers and cancelled statements on
  a working connection are not assumed to happen; statements on a broken
  connection do raise.
- `ProductFeed`: weak fairness of `Request`: the HTTP client has a timeout.
  Nothing is assumed of the answers.
- `DailyPipeline`: weak fairness of starting due attempts, of each attempt's steps
  and of each callback: commands end, the scheduler lives. Nothing is assumed of
  clearings (bounded by `MaxRound`), and a lost attempt need not happen.
- `PipelineMonitor`: weak fairness of `Check`: the schedule starts checks again
  and again. Failed attempts are bounded by `MaxFaults`; the pipeline and the
  clock need not move. `AlertsSettle` speaks of the time after they have come to
  rest.

### Findings

1. `loader_quarantine`. `insert_rejected_record` runs in the load's transaction,
   outside any savepoint. A payload that jsonb refuses makes the statement raise,
   and the load is rolled back with all quarantine rows it had written.
   `docs/data-model.md` calls the table "the quarantine path rather than a silent
   drop".
2. `orders_rerun`. Order ids and line numbers depend on the date, the number of
   lines and their products on the active catalogue. A run repeated for the same
   date, seed and count after the set of active products changed inserts the lines
   beyond the stored ones into existing orders. The generator of the repository,
   called for 30 orders with seed 42, users 1..20 and products 1..48 and then
   1..51 for 2026-07-27, adds two lines, one of which repeats a product of its
   order. `docs/portfolio-case-study.md` promises that a retry creates no
   duplicate order line. With unchanged inputs the promise holds
   (`RerunInsertsNothing`).
3. `daily_callback`. `_update_orchestration_run` writes by `batch_id` and looks at
   nothing else, and the callback of a failed run is processed apart from its
   tasks. When an operator clears the run first, the callback can come after
   `record_pipeline_success`: the run has succeeded and its row says failed, where
   `docs/operations-runbook.md` expects `status='success'`. Without such a
   callback, and without lost attempts, the row follows the run (`RowFollowsRun`).
4. `monitor_oldrow`. From the hour a run is expected until its grace period is
   over the rule for missing runs does not apply to the day before either. With
   the default limits, a run started by hand in the evening, then a day without a
   run: the missing alert of that day is resolved at 02:00 of the next, as the
   evening's success is not yet 26 hours old, and a new one opens at 03:00.
   `docs/operations-runbook.md` says that the monitor "does not use an old
   successful row as proof that a new daily run happened".

## 4. Proofs

Every theorem holds for any number of processes, tasks' workers, pages or runs and
any size of the data. The proofs use the named `ASSUME`s of the modules: that
bounds are positive naturals, that markers such as `NoRow` are no data, that
`MayCrash` is a Boolean. TLC evaluates them in every run. Three theorems add that
the processes, the ids or the runs are finitely many, which they are. Each proof
module starts with the inductive invariant and ends with the theorems; in between
there is one lemma per group of actions.

| Module | Theorem | Property |
|---|---|---|
| `EntityLoaderProofs` | `LoaderInvariant`, `TypeCorrect` | `LoaderInv`, `TypeOK` |
| | `LoaderImplementsContract` | `ImplementsContract` (refines `CatalogContract`) |
| | `CatalogNeverEmptied` | `NeverEmptied` |
| `EntityLoaderCountProofs` | `EntriesAccountedFor` | `EveryEntryAccounted` |
| | `CountersBracket` | `CountersBracketEffect` |
| | `FeedIsActive` (one process) | `ActiveIsTheFeed` |
| | `LoadsFillTheTable` | `LoadsFillTable` |
| | `CountersAreExact` (one process) | `CountersExact` |
| `EntityLoaderProgressProofs` | `LoadsNeverStuck` (finitely many processes) | `NobodyStuck` |
| | `LoadsProgress` (finitely many ids) | `LoadProgress` |
| `IngestionRunProofs` | `RunInvariant`, `RunTypeCorrect` | `RunInv`, `TypeOK` |
| | `ClosedRowIsTrue` | `ClosedRowTellsTheTruth` |
| | `SuccessIsFull` | `SuccessFillsEveryTable` |
| | `RunImplementsIngestion` | `ImplementsIngestion` (refines `IngestionContract`) |
| | `AttemptsProgress` | `AttemptProgress` (stated there) |
| `OrderGenerationProofs` | `OrdersInvariant`, `OrdersTypeCorrect` | `OrdersInv`, `TypeOK` |
| | `OrdersAreWhole` | `WholeOrders` |
| | `RerunIsIdle` | `RerunInsertsNothing` |
| | `AuditCountsTheRows` | `AuditCountsRows` |
| | `OrdersImplementContract` | `ImplementsOrders` (refines `OrderContract`) |
| | `RunsAreNeverStuck` (finitely many runs) | `RunsNeverStuck` |
| | `RunsProgress` | `RunProgress` (stated there) |
| `DailyPipelineProofs` | `PipelineInvariant`, `PipelineTypeCorrect` | `PipelineInv`, `TypeOK` |
| | `RowFollows`, `SuccessBuilt` | `RowFollowsRun`, `SuccessIsBuilt` |
| | `IngestionIsSettled`, `TablesFilled` | `IngestionSettled`, `TablesStayFilled` |
| | `FailureWritten` | `FailureIsWritten` |
| | `AttemptsAreLimited` | `AttemptsLimited`, `AttemptsRunOut` (stated there) |
| `ProductFeedProofs` | `FeedInvariant`, `FeedTypeCorrect` | `FeedInv`, `TypeOK` |
| | `StableIsWhole`, `NothingTwice` | `StableSourceIsWhole`, `NoProductTwice` |
| | `MissedByShift` | `MissedOnlyByShift` |
| | `GuardInvariant` | `RepeatGuard`, on top of `FeedInv` |
| | `RequestsAreLimited` | `RequestsLimited`, `RequestsRunOut` (stated there) |
| `PipelineMonitorProofs` | `MonitorInvariant`, `MonitorTypeCorrect` | `MonitorInv`, `TypeOK` |
| | `AlertIsToldOnce`, `ViewAndMonitorAgree` | `AlertToldOnce`, `ViewAgrees` |
| | `MissingIsMissing` | `MissingIsTrue` |
| | `AlertsComeToRest` | `Settling` (stated there) |

*EntityLoader.* The promises of the table speak of committed rows, while a load
works on its own versions for many steps. `LoaderInv` adds what such a version may
be: `Locked` (a row is written only under its lock, so nobody's commit changes it
meanwhile), `Writes` (it is a record of the feed, active, or an active committed
row taken out as it is, something having been loaded) and `Activates` (what is
counted as loaded stands active in the transaction). A commit is then a whole load
of `CatalogContract`, and the other steps are stutters; since `Activates` gives
each load that deactivates an active row of its own, the catalogue is never
emptied.

What a load reports needs a second invariant, `CountInv`: the counters add up to
the prefix of the feed worked off (`Tallied`); the last kept entry of an id is
what the transaction has written (`Written`); no more rows are new to the table
than were counted as inserted (`Bracketed`), because a row once found is never
removed by another load (`Found`). The two properties of a process that loads
alone also need that what it has read is still so (`ReadIsCurrent`) and that the
snapshot of the deactivation misses no row (`NoneMissed`); both break when a
second process commits in between, which is why the theorems assume `Procs =
{only}`.

`LoadsFillTable` is the seam to `IngestionRun`, where a load is one step that
fills its table if it counts a record as loaded. That this is so of a load in many
steps beside others is `WritesLoaded`: what a transaction writes active it has
counted, and what it has counted it writes active.

`NobodyStuck` is a statement about every set of waiting loads. If none of them
waits for somebody outside, each waits for one inside; of the parts of the set
that contain with a load the one it waits for take a smallest: it is permuted by
the waits (`SomePartPermuted`), so its members are on cycles, which is what
`Deadlocked` says. That locks are held by running loads only is an invariant of
its own, `HoldersRun`. `LoadProgress` counts the steps: two for each entry left,
one for each row to be deactivated, one for the commit. It holds because an entry
once passed is never gone back to and because the snapshot of `DEACTIVATE_SQL`
does not grow.

*IngestionRun.* A closed row is written from an attempt's counters, which say less
than what was committed when a COMMIT is not acknowledged. `RunInv` states that
they agree as long as the connection lives (`Agrees`, `Complete`); when it is
broken the counters can no longer be written. `Told` keeps the witness: the
attempt whose counters stand in a closed row loads nothing more. The refinement of
`IngestionContract` needs `SuccessFillsEveryTable` of the state before for the one
step that closes a row with success; every other step opens, lands, closes, or
stutters. `AttemptsProgress` bounds an attempt's own steps by two for each entity
and four more, whatever fails.

*OrderGeneration.* `OrdersInv` says what an open transaction holds: rows of its
plan that it has passed, that stand nowhere in the table and that nobody else
holds (`Holds`); whatever it has passed is there or held (`Covers`); of an order
whose row it holds it holds every line passed (`HoldsWhole`). The last rests on
`LinesContiguous` of the table: if a line were there its order would be too.
`Complete` says that all a committed batch asked for is there. `AuditCountsRows`
needs a second invariant on top, `CountsInv`: the rowcounts added up are the
number of rows held, and become the number of rows of the batch when it commits.

The refinement of `OrderContract` says what none of these does: that a whole batch
can be put at the moment of its COMMIT, although its conflicts were decided insert
by insert long before. An insert that met no row meets none at the COMMIT
(`Holds`) and one that met a row needs no second look (`Covers`, and rows stay);
the batch's orders are the first `count` of the plan. `RunsNeverStuck` rests on
the order of the keys: whoever holds the key a run waits for has passed it, so it
is further on (`Ahead`), and of finitely many runs one is furthest. `RunsProgress`
bounds a run's own steps by an insert for each order and line and eight more.

*DailyPipeline.* The properties speak of the end of a run; the invariant says at
every task what the tasks before it have left: a row, a settled ingestion, the
stages that are fresh, as long as nothing stray has been written. Tables are
filled from the moment of validation on without that condition: no process takes a
last row away. `AttemptsAreLimited` bounds the attempts of a round by `Retries + 1`
for each task; an attempt that ends after Airflow has given it up moves nothing,
and as long as the run is running one more may start or one is waited for.

*ProductFeed.* The invariant follows the products `Ahead` of the next request.
While the source answers what it is asked, nothing in the feed is ahead, so no
page brings a product twice. `Lost` are the products that stayed in the catalogue
and are neither ahead nor in the feed: a page taken moves its products from ahead
into the feed, a removal lets one product at most slip over the offset, an
addition none. At the end nothing is ahead, and what the feed misses is what was
lost. A source that ignores the offset is dealt with by `RepeatGuard`: as long as
nothing was removed, its answer is the page taken first, which has been `served`,
so the reading fails; the three properties therefore hold of every source unless
it both ignores an offset and loses a product in between (`OnCourse`).
`RequestsAreLimited` counts the requests left: `api_max_attempts` for each page
left, less those that have failed for the current page.

*PipelineMonitor.* A check speaks of rows read a while ago. `LookInv` says what
remains true of them: whatever has started later than the row it holds has started
since it looked. `RowsInv` keeps the order of the rows, on which the choice of the
latest one rests; `ToldInv` that an alert not open, or on its way, has not been
told of. `AlertsComeToRest` follows a check while the pipeline and the clock rest:
what it reads is so, its judgement makes the alerts show it whatever they showed
before, and no later step takes them away from it.

Only model-checked: the liveness properties (`LoadEnds`, `AttemptEnds`, `RunEnds`
of two modules, `ReadingEnds`, `AlertsSettle`). Fairness and ENABLED are out of the
prover's reach. What is proved for each is the half that is not: steps of the
actors concerned lower a bound on the steps left, which nobody else raises
(`LoadProgress`, `AttemptProgress`, `RunProgress`, `RequestsRunOut`,
`AttemptsRunOut`, `Settling`), and where a step can be held up by others there is
no circle of such waits that nobody breaks (`NobodyStuck`, `RunsNeverStuck`). What
remains with TLC is that fairness makes the next step happen. The predicates marked
"stated there" are properties of the proof modules and of no run; TLC has found
them to hold on the bounds of the runs of their modules. Every safety property of
the runs that pass is proved.

## 5. Not modelled, and what could come next

Not modelled: dbt's SQL (set-oriented SELECTs without a protocol; what matters of
it here is the order in which it runs), bootstrap scripts, CI, dashboards and
documentation, the command line for looking at the API, the Pydantic rules and the
scrubbing of payloads (pure functions on data no property here looks into),
formatting of error texts and metadata, PostgreSQL's own recovery (a commit is
durable), Airflow's scheduler beyond what the DAGs' settings say of it.

Hazards without a property are listed in `PROJECT.json` with the reason:
quarantine rows repeated by a retry, the business date of an undated run that is
cleared after midnight, a source whose own page limit is below `api_page_size`,
and a failed or running row that keeps the monitor from reporting a missed day
(its own alert is open).

What could come next: the composition of `ProductFeed` with `EntityLoader`, which
would state the deactivation of a missed product in one module; the business date
in `DailyPipeline`.
