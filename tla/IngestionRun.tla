---------------------------- MODULE IngestionRun ----------------------------
(***************************************************************************)
(* run_ingestion (ingestion.py) and its exit code (ingest_cli.py): the     *)
(* catalogue entities are extracted and loaded one after the other, and    *)
(* one row of ops.pipeline_runs tells how it went.  Several attempts may   *)
(* run with the same batch_id: Airflow retries the task with the batch_id  *)
(* it derives from the DAG run, after the attempt before it has ended or,  *)
(* when that attempt is a zombie, beside it.                               *)
(*                                                                         *)
(* A load is one step here; EntityLoader.tla looks inside it, and what it  *)
(* returns and does to the table is what is proved there.                  *)
(***************************************************************************)
EXTENDS AuditRow

CONSTANTS Attempts,     \* calls of run_ingestion with this batch_id
          EntityCount,  \* the entities are 1..EntityCount, in the code's order
          MaxRecords,   \* most records an entity's source may return
          Overlap,      \* may an attempt start while another is alive
          MayCrash      \* may a process be killed

ASSUME EntityCountAssumption == EntityCount \in Nat \ {0}
ASSUME MaxRecordsAssumption == MaxRecords \in Nat
ASSUME FlagsAssumption == Overlap \in BOOLEAN /\ MayCrash \in BOOLEAN
ASSUME NoRowAssumption == NoRow \notin Row
ASSUME NoRowStatusAssumption == NoRow \notin Terminal \cup {"running"}

Entities == 1..EntityCount

\* The counters of LoadStats that run_ingestion looks at.  An acknowledged load
\* accounts for every record (EntityLoader's EveryEntryAccounted).
LoadResult == [inserted : 0..MaxRecords, updated : 0..MaxRecords,
               unchanged : 0..MaxRecords, rejected : 0..MaxRecords]
Size(r) == r.inserted + r.updated + r.unchanged + r.rejected
LoadResults == {r \in LoadResult : Size(r) <= MaxRecords}

Nothing == [inserted |-> 0, updated |-> 0, unchanged |-> 0, rejected |-> 0]

VARIABLES audit,    \* the row of this batch_id in ops.pipeline_runs, or NoRow
          active,   \* active[e]: entity e's table has an active row
          pc,       \* where an attempt is
          entity,   \* the entity its loop is at
          current,  \* what the load of that entity comes to
          totals,   \* extracted, inserted, updated, rejected
          good,     \* successful_entities
          link,     \* is its database connection alive
          exit,     \* the process's exit code
          landed    \* history: what the attempt's committed loads really did

vars == <<audit, active, pc, entity, current, totals, good, link, exit, landed>>

History == [counts : Counts, entities : SUBSET Entities]

Alive(a) == pc[a] \notin {"ready", "over"}

-----------------------------------------------------------------------------
Init ==
    /\ audit = NoRow
    /\ active \in [Entities -> BOOLEAN]
    /\ pc = [a \in Attempts |-> "ready"]
    /\ entity = [a \in Attempts |-> 1]
    /\ current = [a \in Attempts |-> Nothing]
    /\ totals = [a \in Attempts |-> Zero]
    /\ good = [a \in Attempts |-> 0]
    /\ link = [a \in Attempts |-> FALSE]
    /\ exit = [a \in Attempts |-> "none"]
    /\ landed = [a \in Attempts |-> [counts |-> Zero, entities |-> {}]]

\* connect_database.
Connect(a) ==
    /\ pc[a] = "ready"
    /\ Overlap \/ \A b \in Attempts : ~Alive(b)
    /\ link' = [link EXCEPT ![a] = TRUE]
    /\ pc' = [pc EXCEPT ![a] = "create"]
    /\ UNCHANGED <<audit, active, entity, current, totals, good, exit, landed>>

\* The process ends with this code, and its memory with it.
Exit(a, code) ==
    /\ pc' = [pc EXCEPT ![a] = "over"]
    /\ exit' = [exit EXCEPT ![a] = code]
    /\ link' = [link EXCEPT ![a] = FALSE]
    /\ entity' = [entity EXCEPT ![a] = 1]
    /\ current' = [current EXCEPT ![a] = Nothing]
    /\ totals' = [totals EXCEPT ![a] = Zero]
    /\ good' = [good EXCEPT ![a] = 0]

\* connect_database raises before the "try": no row is touched.
ConnectFails(a) ==
    /\ pc[a] = "ready"
    /\ Exit(a, "2")
    /\ UNCHANGED <<audit, active, landed>>

\* create_pipeline_run.
CreateRun(a) ==
    /\ pc[a] = "create"
    /\ link[a]
    /\ audit' = OpenedRow
    /\ pc' = [pc EXCEPT ![a] = "extract"]
    /\ UNCHANGED <<active, entity, current, totals, good, link, exit, landed>>

\* A statement that writes the audit row raises: it had no effect, or (the
\* connection breaks at COMMIT) it had "row" as its effect.
WriteRaises(a, row) ==
    /\ \/ UNCHANGED <<audit, link>>
       \/ link[a] /\ audit' = row /\ link' = [link EXCEPT ![a] = FALSE]
    /\ pc' = [pc EXCEPT ![a] = "abort"]
    /\ UNCHANGED <<active, entity, current, totals, good, exit, landed>>

CreateRunRaises(a) == pc[a] = "create" /\ WriteRaises(a, OpenedRow)

\* Variant: the check for zero records is missing.
ExtractAnything(a) ==
    /\ pc[a] = "extract"
    /\ \E r \in LoadResults :
          /\ current' = [current EXCEPT ![a] = r]
          /\ totals' = [totals EXCEPT ![a].extracted = @ + Size(r)]
    /\ pc' = [pc EXCEPT ![a] = "load"]
    /\ UNCHANGED <<audit, active, entity, good, link, exit, landed>>

\* iter_all and validate_records: the source returns at least one record.  What
\* will become of the records is chosen here.
Extract(a) ==
    /\ pc[a] = "extract"
    /\ \E r \in LoadResults \ {Nothing} :
          /\ current' = [current EXCEPT ![a] = r]
          /\ totals' = [totals EXCEPT ![a].extracted = @ + Size(r)]
    /\ pc' = [pc EXCEPT ![a] = "load"]
    /\ UNCHANGED <<audit, active, entity, good, link, exit, landed>>

\* Variant: the loop runs one entity too far.
NextEntityLate(a) ==
    /\ current' = [current EXCEPT ![a] = Nothing]
    /\ IF entity[a] > EntityCount
       THEN pc' = [pc EXCEPT ![a] = "finish"] /\ UNCHANGED entity
       ELSE /\ pc' = [pc EXCEPT ![a] = "extract"]
            /\ entity' = [entity EXCEPT ![a] = @ + 1]

\* The loop turns to the next entity, or ends.
NextEntity(a) ==
    /\ current' = [current EXCEPT ![a] = Nothing]
    /\ IF entity[a] = EntityCount
       THEN pc' = [pc EXCEPT ![a] = "finish"] /\ UNCHANGED entity
       ELSE /\ pc' = [pc EXCEPT ![a] = "extract"]
            /\ entity' = [entity EXCEPT ![a] = @ + 1]

\* Variant: a failed entity is tried again until it works.
EntityRetried(a) ==
    /\ pc[a] \in {"extract", "load"}
    /\ pc' = [pc EXCEPT ![a] = "extract"]
    /\ current' = [current EXCEPT ![a] = Nothing]
    /\ totals' = [totals EXCEPT ![a].extracted = @ - Size(current[a])]
    /\ UNCHANGED <<audit, active, entity, good, link, exit, landed>>

\* An error of the API client, EmptySourceError, or a psycopg.Error that rolled
\* the load back: the entity failed, the loop goes on.
EntityFails(a) ==
    /\ pc[a] \in {"extract", "load"}
    /\ NextEntity(a)
    /\ UNCHANGED <<audit, active, totals, good, link, exit, landed>>

\* Counters "c" after a load that came to "r".
Counted(c, r) == [extracted |-> c.extracted,
                  inserted |-> c.inserted + r.inserted,
                  updated |-> c.updated + r.updated,
                  rejected |-> c.rejected + r.rejected]

\* What a committed load of the current entity does to the table.
LoadLands(a) ==
    LET r == current[a] IN
    /\ active' = [active EXCEPT ![entity[a]] =
                     @ \/ r.inserted + r.updated + r.unchanged > 0]
    /\ landed' = [landed EXCEPT ![a] =
                     [counts |-> Counted(@.counts, r),
                      entities |-> @.entities \cup {entity[a]}]]

\* load_entity commits and returns.
Load(a) ==
    LET r == current[a] IN
    /\ pc[a] = "load"
    /\ link[a]
    /\ LoadLands(a)
    /\ totals' = [totals EXCEPT ![a] = Counted(@, r)]
    /\ good' = [good EXCEPT ![a] = @ + 1]
    /\ NextEntity(a)
    /\ UNCHANGED <<audit, link, exit>>

\* Variant: a broken connection is replaced and the run goes on.
LoadUnacknowledgedReconnects(a) ==
    /\ pc[a] = "load"
    /\ link[a]
    /\ LoadLands(a)
    /\ NextEntity(a)
    /\ UNCHANGED <<audit, totals, good, link, exit>>

\* load_entity commits, but the connection breaks before the answer: a
\* psycopg.Error for the loop, and every later statement raises too.
LoadUnacknowledged(a) ==
    /\ pc[a] = "load"
    /\ link[a]
    /\ LoadLands(a)
    /\ link' = [link EXCEPT ![a] = FALSE]
    /\ NextEntity(a)
    /\ UNCHANGED <<audit, totals, good, exit>>

\* An exception the loop does not catch (a payload that is no object, ...).
Unexpected(a) ==
    /\ pc[a] \in {"extract", "load"}
    /\ pc' = [pc EXCEPT ![a] = "abort"]
    /\ UNCHANGED <<audit, active, entity, current, totals, good, link, exit, landed>>

\* Variant: rejected records do not matter to the verdict.
VerdictOnLoads(a) ==
    IF good[a] = EntityCount THEN "success"
    ELSE IF good[a] = 0 THEN "failed" ELSE "partial"

\* The status rule at the end of the loop.
Verdict(a) ==
    IF good[a] = EntityCount /\ totals[a].rejected = 0 THEN "success"
    ELSE IF good[a] = 0 THEN "failed" ELSE "partial"

ExitCode(status) == CASE status = "success" -> "0"
                      [] status = "partial" -> "1"
                      [] OTHER -> "2"

\* finish_pipeline_run with the verdict; the CLI turns it into the exit code.
Finish(a) ==
    /\ pc[a] = "finish"
    /\ link[a]
    /\ audit' = ClosedRow(audit, Verdict(a), totals[a])
    /\ Exit(a, ExitCode(Verdict(a)))
    /\ UNCHANGED <<active, landed>>

FinishRaises(a) ==
    /\ pc[a] = "finish"
    /\ WriteRaises(a, ClosedRow(audit, Verdict(a), totals[a]))

\* The "except" clause: the row is marked failed and the exception raised on.
MarkFailed(a) ==
    /\ pc[a] = "abort"
    /\ link[a]
    /\ audit' = ClosedRow(audit, "failed", totals[a])
    /\ Exit(a, "2")
    /\ UNCHANGED <<active, landed>>

\* Marking the row failed raises too; that is logged and forgotten.
MarkFailedRaises(a) ==
    /\ pc[a] = "abort"
    /\ Exit(a, "2")
    /\ UNCHANGED <<audit, active, landed>>

\* The connection breaks between two statements, or within a transaction that
\* PostgreSQL then rolls back.
Disconnect(a) ==
    /\ Alive(a)
    /\ link[a]
    /\ link' = [link EXCEPT ![a] = FALSE]
    /\ UNCHANGED <<audit, active, pc, entity, current, totals, good, exit, landed>>

\* The process is killed.
Crash(a) ==
    /\ MayCrash
    /\ Alive(a)
    /\ Exit(a, "killed")
    /\ UNCHANGED <<audit, active, landed>>

\* The steps the process takes by itself.
Step(a) ==
    \/ Connect(a) \/ ConnectFails(a)
    \/ CreateRun(a) \/ CreateRunRaises(a)
    \/ Extract(a) \/ EntityFails(a) \/ Unexpected(a)
    \/ Load(a) \/ LoadUnacknowledged(a)
    \/ Finish(a) \/ FinishRaises(a)
    \/ MarkFailed(a) \/ MarkFailedRaises(a)

\* Every attempt has ended.
AllOver == (\A a \in Attempts : pc[a] = "over") /\ UNCHANGED vars

Next == AllOver \/ \E a \in Attempts : Step(a) \/ Disconnect(a) \/ Crash(a)

Spec == Init /\ [][Next]_vars

FairSpec == Spec /\ \A a \in Attempts : WF_vars(Step(a))

-----------------------------------------------------------------------------
(* Properties.                                                             *)

\* Type invariant.
TypeOK ==
    /\ audit \in Row \cup {NoRow}
    /\ active \in [Entities -> BOOLEAN]
    /\ pc \in [Attempts -> {"ready", "create", "extract", "load", "finish",
                            "abort", "over"}]
    /\ entity \in [Attempts -> Entities]
    /\ current \in [Attempts -> LoadResult]
    /\ totals \in [Attempts -> Counts]
    /\ good \in [Attempts -> 0..EntityCount]
    /\ link \in [Attempts -> BOOLEAN]
    /\ exit \in [Attempts -> {"none", "0", "1", "2", "killed"}]
    /\ landed \in [Attempts -> History]

\* What one attempt did to the tables, as the audit row tells it.
TellsOf(a) ==
    LET did == landed[a] IN
    /\ audit.counts.inserted = did.counts.inserted
    /\ audit.counts.updated = did.counts.updated
    /\ audit.counts.rejected = did.counts.rejected
    /\ audit.status = "success" =>
           did.entities = Entities /\ did.counts.rejected = 0
    /\ audit.status = "partial" =>
           /\ did.entities # {}
           /\ did.entities # Entities \/ did.counts.rejected > 0

\* A row that is not running tells exactly what one of the attempts committed:
\* no load that landed is missing from its counters (not even one whose COMMIT
\* was never acknowledged), none is counted that did not, and "success" and
\* "partial" mean what the status rule says, retries and zombies included.
ClosedRowTellsTheTruth ==
    audit # NoRow /\ audit.status \in Terminal => \E a \in Attempts : TellsOf(a)

\* A successful ingestion leaves an active catalogue in every entity's table,
\* whatever the tables held before: what validate_raw_data looks for next.
SuccessFillsEveryTable ==
    audit # NoRow /\ audit.status = "success" => \A e \in Entities : active[e]

\* What the daily pipeline sees of the batch: the status column and the tables.
StatusColumn == IF audit = NoRow THEN NoRow ELSE audit.status

\* The attempts of a batch, however they overlap, fail and are killed, keep the
\* contract the daily pipeline is built on: the row is opened and closed, loads
\* only fill tables, and "success" is written over a full catalogue only.
Ingestion == INSTANCE IngestionContract
             WITH status <- StatusColumn, active <- active,
                  Entities <- Entities, NoRow <- NoRow
ImplementsIngestion == Ingestion!Spec

\* Every attempt ends, whatever raises on its way.
AttemptEnds == \A a \in Attempts : Alive(a) ~> pc[a] = "over"
=============================================================================
