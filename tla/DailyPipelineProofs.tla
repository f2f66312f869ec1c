------------------------ MODULE DailyPipelineProofs ------------------------
(***************************************************************************)
(* Theorems about DailyPipeline for any number of workers, retries, rounds *)
(* and tables.  What Airflow does with the tasks (FlowInv) is an invariant *)
(* of its own; what the run has done to the data (DataInv) rests on it.    *)
(***************************************************************************)
EXTENDS DailyPipeline, Integers, TLAPS

-----------------------------------------------------------------------------
(* The inductive invariant.                                                *)

FlowType ==
    /\ dag \in {"running", "success", "failed"}
    /\ round \in Rounds
    /\ at \in 1..9
    /\ tries \in 0..Retries + 1
    /\ owner \in Workers \cup {Nobody}
    /\ doing \in [Workers -> 0..8]
    /\ pc \in [Workers -> {"idle", "body", "process", "read"}]
    /\ report \in [Workers -> {"none", "0", "1", "2"}]
    /\ callback \in [Rounds -> {"none", "update", "insert", "done", "lost"}]

\* The attempt Airflow waits for is one of the task whose turn it is.
OwnerIsAtWork == owner # Nobody => dag = "running" /\ doing[owner] = at

\* Between two tries another one is allowed.
TryLeft == dag = "running" /\ owner = Nobody => tries <= Retries

\* Only an attempt of the ingestion task has an ingestion process.
ProcessIsIngestion ==
    \A w \in Workers : pc[w] \in {"process", "read"} => doing[w] = IngestTask

\* A round has a callback only when it has failed.
CallbackIsDue ==
    \A r \in Rounds : callback[r] # "none" => r < round \/ (r = round /\ dag = "failed")

FlowInv ==
    /\ FlowType
    /\ OwnerIsAtWork
    /\ TryLeft
    /\ dag = "success" <=> at = 9
    /\ ProcessIsIngestion
    /\ CallbackIsDue

DataType ==
    /\ row \in {NoRow, "running", "success", "failed"}
    /\ ingest \in {NoRow, "running", "success", "partial", "failed"}
    /\ active \in [Entities -> BOOLEAN]
    /\ fresh \in SUBSET Stages
    /\ stray \in BOOLEAN

\* The stages the run is past are up to date.
StagesDone == ~stray => \A s \in Stages : s < at => s \in fresh

DataInv ==
    /\ DataType
    /\ at > CreateTask => row # NoRow
    /\ StagesDone
    /\ IngestionSettled
    /\ TablesStayFilled
    /\ RowFollowsRun

PipelineInv == FlowInv /\ DataInv

-----------------------------------------------------------------------------
(* What the end of an attempt means to the flow.                           *)

\* An attempt that returns moves the run on if Airflow waits for it.
LEMMA ReturnsMoves ==
    ASSUME FlowInv, NEW w \in Workers, Returns(w)
    PROVE  /\ round' = round /\ callback' = callback
           /\ owner = w => /\ doing[w] = at /\ at \in 1..8 /\ at' = at + 1
                           /\ dag = "running"
                           /\ dag' = IF at = 8 THEN "success" ELSE "running"
           /\ owner # w => at' = at /\ dag' = dag
  <1>1. w # Nobody /\ at \in 1..9
    BY NobodyAssumption DEF FlowInv, FlowType
  <1>2. CASE owner = w
    BY <1>1, <1>2 DEF Returns, TrySucceeds, FlowInv, OwnerIsAtWork, RecordTask
  <1>3. CASE owner # w
    BY <1>3 DEF Returns, flow
  <1> QED BY <1>2, <1>3

\* An attempt that raises never does; at most it fails the run.
LEMMA RaisesMoves ==
    ASSUME FlowInv, NEW w \in Workers, Raises(w)
    PROVE  /\ round' = round /\ at' = at
           /\ owner = w => /\ doing[w] = at /\ dag = "running"
                           /\ \/ dag' = "running" /\ callback' = callback
                              \/ dag' = "failed" /\ callback'[round] = "update"
           /\ owner # w => dag' = dag /\ callback' = callback
  <1>1. w # Nobody /\ round \in Rounds /\ DOMAIN callback = Rounds
    BY NobodyAssumption DEF FlowInv, FlowType
  <1>2. CASE owner = w
    BY <1>1, <1>2 DEF Raises, TryFails, FlowInv, OwnerIsAtWork
  <1>3. CASE owner # w
    BY <1>3 DEF Raises, flow
  <1> QED BY <1>2, <1>3

\* The end of an attempt keeps the invariant of the flow.
LEMMA OverKeepsFlow ==
    ASSUME FlowInv, NEW w \in Workers, Returns(w) \/ Raises(w)
    PROVE  FlowInv'
  <1>1. /\ doing' = [doing EXCEPT ![w] = 0]
        /\ pc' = [pc EXCEPT ![w] = "idle"]
        /\ report' = [report EXCEPT ![w] = "none"]
    BY DEF Returns, Raises, Over
  <1>2. /\ doing' \in [Workers -> 0..8]
        /\ pc' \in [Workers -> {"idle", "body", "process", "read"}]
        /\ report' \in [Workers -> {"none", "0", "1", "2"}]
    BY <1>1 DEF FlowInv, FlowType
  <1>3. ProcessIsIngestion'
    BY <1>1 DEF FlowInv, FlowType, ProcessIsIngestion, IngestTask
  <1>4. Retries \in Nat /\ w # Nobody
    BY BoundsAssumption, NobodyAssumption
  <1>5. CASE owner # w
    <2>1. UNCHANGED flow
      BY <1>5 DEF Returns, Raises
    <2>2. OwnerIsAtWork'
      BY <1>1, <1>5, <2>1 DEF FlowInv, FlowType, OwnerIsAtWork, flow
    <2> QED BY <1>2, <1>3, <2>1, <2>2
            DEF FlowInv, FlowType, TryLeft, CallbackIsDue, flow
  <1>6. CASE owner = w /\ Returns(w)
    <2>1. TrySucceeds /\ at \in 1..8 /\ dag = "running"
      BY <1>6, ReturnsMoves DEF Returns
    <2> QED BY <1>2, <1>3, <1>4, <2>1
            DEF FlowInv, FlowType, OwnerIsAtWork, TryLeft, CallbackIsDue,
                TrySucceeds, RecordTask, Rounds
  <1>7. CASE owner = w /\ Raises(w)
    <2>1. TryFails /\ at \in 1..8 /\ dag = "running"
      BY <1>4, <1>7 DEF Raises, FlowInv, FlowType, OwnerIsAtWork
    <2>2. callback' \in [Rounds -> {"none", "update", "insert", "done", "lost"}]
      BY <2>1 DEF TryFails, FlowInv, FlowType
    <2>3. CallbackIsDue'
      BY <2>1 DEF TryFails, FlowInv, FlowType, CallbackIsDue
    <2> QED BY <1>2, <1>3, <1>4, <2>1, <2>2, <2>3
            DEF FlowInv, FlowType, OwnerIsAtWork, TryLeft, TryFails
  <1> QED BY <1>5, <1>6, <1>7

-----------------------------------------------------------------------------
(* The flow.                                                               *)

\* A run that has not started satisfies it.
LEMMA InitFlow == Init => FlowInv
  BY BoundsAssumption, NobodyAssumption
  DEF Init, FlowInv, FlowType, OwnerIsAtWork, TryLeft, ProcessIsIngestion,
      CallbackIsDue, Rounds, CreateTask

\* Every step of an attempt keeps it.
LEMMA StepKeepsFlow ==
    ASSUME FlowInv, NEW w \in Workers, Step(w)
    PROVE  FlowInv'
  <1>1. CASE Returns(w) \/ Raises(w)
    BY <1>1, OverKeepsFlow
  <1>2. CASE StartIngestion(w) \/ LandLoad(w) \/ EndIngestion(w)
    <2>1. UNCHANGED <<flow, doing>>
      BY <1>2 DEF StartIngestion, LandLoad, EndIngestion
    <2>2. /\ pc' \in [Workers -> {"idle", "body", "process", "read"}]
          /\ ProcessIsIngestion'
      BY <1>2, <2>1 DEF StartIngestion, LandLoad, EndIngestion, FlowInv, FlowType,
                        ProcessIsIngestion
    <2>3. report' \in [Workers -> {"none", "0", "1", "2"}]
      <3>1. CASE EndIngestion(w)
        BY <3>1 DEF EndIngestion, ExitCode, Ingestion!Verdicts, FlowInv, FlowType
      <3>2. CASE StartIngestion(w) \/ LandLoad(w)
        BY <3>2 DEF StartIngestion, LandLoad, FlowInv, FlowType
      <3> QED BY <1>2, <3>1, <3>2
    <2> QED BY <2>1, <2>2, <2>3
            DEF FlowInv, FlowType, OwnerIsAtWork, TryLeft, CallbackIsDue, flow
  <1> QED BY <1>1, <1>2
          DEF Step, AttemptFails, CreatePipelineRun, EndIngestionSilently,
              ReadIngestion, ValidateRawData, GenerateOrders, RunDbt, DbtFails,
              RecordPipelineSuccess

\* Every step of Airflow and of the callbacks does.
LEMMA NextKeepsFlow ==
    ASSUME FlowInv, [Next]_vars
    PROVE  FlowInv'
  <1>0. Retries \in Nat /\ MaxRound \in Nat \ {0}
    BY BoundsAssumption
  <1>1. CASE UNCHANGED vars
    BY <1>1 DEF vars, flow, FlowInv, FlowType, OwnerIsAtWork, TryLeft,
                ProcessIsIngestion, CallbackIsDue
  <1>2. ASSUME NEW w \in Workers, StartAttempt(w) PROVE FlowInv'
    <2>1. /\ tries' \in 0..Retries + 1 /\ at \in 1..8
          /\ doing' \in [Workers -> 0..8]
          /\ pc' \in [Workers -> {"idle", "body", "process", "read"}]
      BY <1>0, <1>2 DEF StartAttempt, FlowInv, FlowType, TryLeft
    <2>2. OwnerIsAtWork' /\ TryLeft'
      BY <1>2, NobodyAssumption
      DEF StartAttempt, FlowInv, FlowType, OwnerIsAtWork, TryLeft
    <2>3. ProcessIsIngestion'
      BY <1>2 DEF StartAttempt, FlowInv, FlowType, ProcessIsIngestion
    <2> QED BY <1>2, <2>1, <2>2, <2>3
            DEF StartAttempt, FlowInv, FlowType, CallbackIsDue
  <1>3. ASSUME NEW w \in Workers, LoseAttempt(w) PROVE FlowInv'
    <2>1. dag = "running" /\ at \in 1..8
      BY <1>3, NobodyAssumption DEF LoseAttempt, FlowInv, FlowType, OwnerIsAtWork
    <2>2. /\ callback' \in [Rounds -> {"none", "update", "insert", "done", "lost"}]
          /\ CallbackIsDue'
      BY <1>3, <2>1 DEF LoseAttempt, TryFails, FlowInv, FlowType, CallbackIsDue
    <2> QED BY <1>0, <1>3, <2>1, <2>2
            DEF LoseAttempt, TryFails, FlowInv, FlowType, OwnerIsAtWork, TryLeft,
                ProcessIsIngestion
  <1>4. ASSUME NEW r \in Rounds, Callback(r) PROVE FlowInv'
    <2>1. PICK how \in {"insert", "done", "lost"} : CallbackEnds(r, how)
      BY <1>4 DEF Callback, CallbackUpdates, CallbackFindsNoRow, CallbackInserts,
                  CallbackRaises
    <2>2. callback[r] # "none"
      BY <1>4 DEF Callback, CallbackUpdates, CallbackFindsNoRow, CallbackInserts,
                  CallbackRaises
    <2>3. /\ callback' \in [Rounds -> {"none", "update", "insert", "done", "lost"}]
          /\ CallbackIsDue'
      BY <2>1, <2>2 DEF CallbackEnds, FlowInv, FlowType, CallbackIsDue
    <2> QED BY <2>1, <2>3 DEF CallbackEnds, FlowInv, FlowType, OwnerIsAtWork, TryLeft,
                              ProcessIsIngestion
  <1>5. ASSUME NEW t \in Tasks, Clear(t) PROVE FlowInv'
    <2>1. round \in Nat /\ round' = round + 1 /\ round' \in Rounds /\ t \in 1..8
      BY <1>0, <1>5 DEF Clear, FlowInv, FlowType, Rounds, Tasks
    <2>2. owner = Nobody
      BY <1>5 DEF Clear, FlowInv, FlowType, OwnerIsAtWork
    <2>3. CallbackIsDue'
      BY <1>5, <2>1 DEF Clear, FlowInv, CallbackIsDue, Rounds
    <2> QED BY <1>0, <1>5, <2>1, <2>2, <2>3
            DEF Clear, FlowInv, FlowType, OwnerIsAtWork, TryLeft, ProcessIsIngestion
  <1> QED BY <1>1, <1>2, <1>3, <1>4, <1>5, StepKeepsFlow DEF Next

-----------------------------------------------------------------------------
(* The data.                                                               *)


\* What every write of an attempt respects: the row stays, tables only fill, a
\* write of an attempt that was given up on is a stray one, and the results of
\* the stages before the current task and of its ingestion are left alone.
Respects(w) ==
    /\ DataType'
    /\ ~stray' => ~stray /\ owner = w
    /\ row # NoRow => row' # NoRow
    /\ \A e \in Entities : active[e] => active'[e]
    /\ ~stray' => \A s \in fresh : s < at => s \in fresh'
    /\ ~stray' /\ at > IngestTask => ingest' = ingest

\* An attempt that raises keeps the invariant, whatever it has written.
LEMMA RaiseKeepsData ==
    ASSUME FlowInv, DataInv, NEW w \in Workers, Respects(w), Raises(w)
    PROVE  DataInv'
  <1>1. /\ round' = round /\ at' = at
        /\ ~stray' => /\ dag' \in {"running", "failed"}
                      /\ dag' = "failed" => callback'[round] = "update"
    BY RaisesMoves DEF Respects
  <1>2. RowFollowsRun'
    BY <1>1 DEF RowFollowsRun
  <1>3. StagesDone'
    BY <1>1 DEF DataInv, StagesDone, Respects
  <1>4. IngestionSettled' /\ TablesStayFilled'
    BY <1>1 DEF DataInv, IngestionSettled, TablesStayFilled, Respects
  <1> QED BY <1>1, <1>2, <1>3, <1>4 DEF DataInv, Respects

\* An attempt that returns keeps it when the work of its task is done.
LEMMA ReturnKeepsData ==
    ASSUME FlowInv, DataInv, NEW w \in Workers, Respects(w), Returns(w),
           doing[w] = CreateTask => row' # NoRow,
           doing[w] = IngestTask /\ ~stray' => ingest' \in {"success", "partial"},
           doing[w] = ValidateTask => \A e \in Entities : active'[e],
           doing[w] \in Stages /\ ~stray' => doing[w] \in fresh',
           doing[w] = RecordTask => row' = "success"
    PROVE  DataInv'
  <1>1. CASE owner # w
    <2>1. at' = at /\ stray'
      BY <1>1, ReturnsMoves DEF Respects, DataType
    <2> QED BY <2>1 DEF DataInv, StagesDone, IngestionSettled, TablesStayFilled,
                        RowFollowsRun, Respects
  <1>2. CASE owner = w
    <2>1. /\ at' = at + 1 /\ doing[w] = at /\ at \in 1..8
          /\ dag' = IF at = 8 THEN "success" ELSE "running"
      BY <1>2, ReturnsMoves
    <2>2. RowFollowsRun'
      BY <2>1 DEF RowFollowsRun, RecordTask
    <2>3. (at > CreateTask => row # NoRow)'
      BY <2>1 DEF DataInv, Respects, CreateTask
    <2>4. StagesDone'
      <3> SUFFICES ASSUME ~stray', NEW s \in Stages, s < at' PROVE s \in fresh'
        BY DEF StagesDone
      <3>1. s \in 4..7
        BY DEF Stages, DbtTasks, OrdersTask, SnapshotTask, ModelsTask, TestsTask
      <3>2. CASE s = at
        BY <2>1, <3>2
      <3>3. CASE s < at
        BY <3>3 DEF DataInv, StagesDone, Respects
      <3> QED BY <2>1, <3>1, <3>2, <3>3
    <2>5. IngestionSettled'
      BY <2>1 DEF DataInv, IngestionSettled, Respects, IngestTask
    <2>6. TablesStayFilled'
      BY <2>1 DEF DataInv, TablesStayFilled, Respects, ValidateTask
    <2> QED BY <2>2, <2>3, <2>4, <2>5, <2>6 DEF DataInv, Respects
  <1> QED BY <1>1, <1>2

\* A step that changes none of what DataInv speaks of keeps it.
LEMMA FrameKeepsData ==
    ASSUME DataInv, UNCHANGED <<row, data, stray, dag, round, at, callback>>
    PROVE  DataInv'
  BY DEF DataInv, DataType, StagesDone, IngestionSettled, TablesStayFilled,
         RowFollowsRun, data

\* An attempt that writes nothing respects everything, if Airflow waits for it.
LEMMA ReadsRespect ==
    ASSUME DataInv, NEW w \in Workers, owner = w, UNCHANGED <<row, data, stray>>
    PROVE  Respects(w)
  BY DEF DataInv, DataType, Respects, data

\* The end of an attempt Airflow has given up on changes nothing.
LEMMA ForgottenEnds ==
    ASSUME NEW w \in Workers, owner # w, Returns(w) \/ Raises(w)
    PROVE  UNCHANGED <<dag, round, at, callback>>
  BY DEF Returns, Raises, flow

\* The steps that only read: failures, the ingestion's row, the validation.
LEMMA ReadingKeepsData ==
    ASSUME FlowInv, DataInv, NEW w \in Workers,
           AttemptFails(w) \/ ReadIngestion(w) \/ ValidateRawData(w)
    PROVE  DataInv'
  <1>1. UNCHANGED <<row, data, stray>> /\ (Returns(w) \/ Raises(w))
    BY DEF AttemptFails, ReadIngestion, ValidateRawData
  <1>2. CASE owner # w
    BY <1>1, <1>2, ForgottenEnds, FrameKeepsData
  <1>3. CASE owner = w
    <2>1. Respects(w)
      BY <1>1, <1>3, ReadsRespect
    <2>2. CASE Raises(w)
      BY <2>1, <2>2, RaiseKeepsData
    <2>3. CASE Returns(w) /\ ~Raises(w)
      <3>1. ReadIngestion(w) \/ ValidateRawData(w)
        BY <2>3 DEF AttemptFails
      <3>2. CASE ReadIngestion(w)
        <4>1. doing[w] = IngestTask /\ ingest \in {"success", "partial"}
          BY <2>3, <3>2 DEF ReadIngestion, Accepts, FlowInv, ProcessIsIngestion
        <4>2. ingest' \in {"success", "partial"}
          BY <1>1, <4>1 DEF data
        <4> QED BY <2>1, <2>3, <4>1, <4>2, ReturnKeepsData
                DEF CreateTask, IngestTask, ValidateTask, RecordTask, Stages, DbtTasks,
                    OrdersTask, SnapshotTask, ModelsTask, TestsTask
      <3>3. CASE ValidateRawData(w)
        <4>1. doing[w] = ValidateTask /\ \A e \in Entities : active'[e]
          BY <1>1, <2>3, <3>3 DEF ValidateRawData, data
        <4> QED BY <2>1, <2>3, <4>1, ReturnKeepsData
                DEF CreateTask, IngestTask, ValidateTask, RecordTask, Stages, DbtTasks,
                    OrdersTask, SnapshotTask, ModelsTask, TestsTask
      <3> QED BY <3>1, <3>2, <3>3
    <2> QED BY <1>1, <2>2, <2>3
  <1> QED BY <1>2, <1>3

\* The two tasks that write the run's row.
LEMMA RowTasksKeepData ==
    ASSUME FlowInv, DataInv, NEW w \in Workers,
           CreatePipelineRun(w) \/ RecordPipelineSuccess(w)
    PROVE  DataInv'
  <1>1. /\ row' \in {"running", "success"} /\ UNCHANGED data /\ Writes(w)
        /\ Returns(w) \/ Raises(w)
        /\ doing[w] \in {CreateTask, RecordTask}
        /\ doing[w] = RecordTask => row' = "success"
    BY DEF CreatePipelineRun, RecordPipelineSuccess, CreateTask, RecordTask
  <1>2. row' # NoRow
    BY <1>1, NoRowAssumption
  <1>3. Respects(w)
    BY <1>1, <1>2 DEF Respects, Writes, DataInv, DataType, data
  <1> QED BY <1>1, <1>2, <1>3, RaiseKeepsData, ReturnKeepsData
          DEF CreateTask, IngestTask, ValidateTask, RecordTask, Stages, DbtTasks,
              OrdersTask, SnapshotTask, ModelsTask, TestsTask

\* The tasks that build a stage.
LEMMA StagesKeepData ==
    ASSUME FlowInv, DataInv, NEW w \in Workers,
           GenerateOrders(w) \/ RunDbt(w) \/ DbtFails(w)
    PROVE  DataInv'
  <1>1. /\ UNCHANGED <<row, ingest, active>> /\ Writes(w)
        /\ doing[w] \in Stages
        /\ Returns(w) \/ Raises(w)
        /\ fresh' = Renewed(doing[w]) \/ (fresh' = Spoiled(doing[w]) /\ Raises(w))
    BY DEF GenerateOrders, RunDbt, DbtFails, Stages
  <1>2. owner = w => doing[w] = at
    BY NobodyAssumption DEF FlowInv, OwnerIsAtWork
  <1>3. Respects(w)
    BY <1>1, <1>2 DEF Respects, Writes, DataInv, DataType, Renewed, Spoiled
  <1>4. CASE Raises(w)
    BY <1>3, <1>4, RaiseKeepsData
  <1>5. CASE Returns(w) /\ ~Raises(w)
    <2>1. doing[w] \in fresh'
      BY <1>1, <1>5 DEF Renewed
    <2> QED BY <1>1, <1>3, <1>5, <2>1, ReturnKeepsData
            DEF CreateTask, IngestTask, ValidateTask, RecordTask, Stages, DbtTasks,
                OrdersTask, SnapshotTask, ModelsTask, TestsTask
  <1> QED BY <1>1, <1>4, <1>5

\* The steps of an ingestion process.
LEMMA IngestionKeepsData ==
    ASSUME FlowInv, DataInv, NEW w \in Workers,
           \/ StartIngestion(w) \/ LandLoad(w)
           \/ EndIngestion(w) \/ EndIngestionSilently(w)
    PROVE  DataInv'
  <1>1. doing[w] = IngestTask
    BY DEF StartIngestion, LandLoad, EndIngestion, EndIngestionSilently, FlowInv,
           ProcessIsIngestion
  <1>2. owner = w => at = IngestTask
    BY <1>1, NobodyAssumption DEF FlowInv, OwnerIsAtWork
  <1>3. /\ ingest' \in {NoRow, "running", "success", "partial", "failed"}
        /\ active' \in [Entities -> BOOLEAN]
        /\ \A e \in Entities : active[e] => active'[e]
    BY DEF StartIngestion, LandLoad, EndIngestion, EndIngestionSilently, DataInv,
           DataType, Ingestion!Open, Ingestion!Land, Ingestion!Close, Ingestion!Verdicts
  <1>4. row' = row /\ (fresh' = fresh \/ fresh' = {}) /\ Writes(w)
    BY DEF StartIngestion, LandLoad, EndIngestion, EndIngestionSilently
  <1>5. \A s \in Stages : s > IngestTask
    BY DEF IngestTask, Stages, DbtTasks, OrdersTask, SnapshotTask, ModelsTask, TestsTask
  <1>6. at \in 1..9
    BY DEF FlowInv, FlowType
  <1>7. Respects(w)
    <2>1. ~stray' => ~stray /\ owner = w
      BY <1>4 DEF Writes, DataInv, DataType
    <2>2. ~stray' => \A s \in fresh : s < at => s \in fresh'
      <3> SUFFICES ASSUME ~stray', NEW s \in fresh, s < at PROVE FALSE
        OBVIOUS
      <3>1. at = 2 /\ s \in 4..7
        BY <1>2, <2>1 DEF IngestTask, DataInv, DataType, Stages, DbtTasks, OrdersTask,
                          SnapshotTask, ModelsTask, TestsTask
      <3> QED BY <3>1
    <2>3. ~stray' /\ at > IngestTask => ingest' = ingest
      BY <1>2, <2>1 DEF IngestTask
    <2> QED BY <1>3, <1>4, <2>1, <2>2, <2>3 DEF Respects, DataInv, DataType, Writes
  <1>8. CASE EndIngestionSilently(w)
    BY <1>7, <1>8, RaiseKeepsData DEF EndIngestionSilently
  <1>9. CASE StartIngestion(w) \/ LandLoad(w) \/ EndIngestion(w)
    <2>1. UNCHANGED <<dag, round, at, callback>>
      BY <1>9 DEF StartIngestion, LandLoad, EndIngestion, flow
    <2>2. RowFollowsRun' /\ StagesDone'
      BY <1>4, <1>7, <2>1 DEF DataInv, RowFollowsRun, StagesDone, Respects
    <2>3. IngestionSettled' /\ TablesStayFilled'
      BY <1>7, <2>1 DEF DataInv, IngestionSettled, TablesStayFilled, Respects
    <2> QED BY <1>7, <2>1, <2>2, <2>3 DEF DataInv, Respects
  <1> QED BY <1>8, <1>9

\* The callbacks.
LEMMA CallbackKeepsData ==
    ASSUME FlowInv, DataInv, NEW r \in Rounds, Callback(r)
    PROVE  DataInv'
  <1>1. /\ UNCHANGED <<data, dag, round, at>>
        /\ callback[r] # "none" /\ callback' = [callback EXCEPT ![r] = callback'[r]]
    BY DEF Callback, CallbackUpdates, CallbackFindsNoRow, CallbackInserts,
           CallbackRaises, CallbackEnds, FlowInv, FlowType
  <1>2. \/ /\ row' = "failed" /\ stray' = (stray \/ r # round)
        \/ /\ UNCHANGED <<row, stray>> /\ callback'[r] # "done"
    BY DEF Callback, CallbackUpdates, CallbackFindsNoRow, CallbackInserts,
           CallbackRaises, CallbackEnds, FlowInv, FlowType
  <1>3. r < round \/ (r = round /\ dag = "failed")
    BY <1>1 DEF FlowInv, CallbackIsDue
  <1>4. round \in Rounds /\ callback \in [Rounds -> {"none", "update", "insert", "done", "lost"}]
    BY DEF FlowInv, FlowType
  <1>5. r # round => callback'[round] = callback[round]
    BY <1>1, <1>4
  <1>6. DataType' /\ (~stray' => ~stray) /\ (at > CreateTask => row # NoRow)'
    BY <1>1, <1>2, NoRowAssumption DEF DataInv, DataType, data
  <1>7. RowFollowsRun'
    <2>1. CASE r # round
      BY <1>1, <1>2, <1>5, <1>6, <2>1 DEF DataInv, DataType, RowFollowsRun
    <2>2. CASE r = round
      <3>1. dag = "failed" /\ round' = round /\ dag' = dag
        BY <1>1, <1>3, <1>4, <2>2 DEF Rounds
      <3> QED BY <1>2, <2>2, <3>1 DEF RowFollowsRun
    <2> QED BY <2>1, <2>2
  <1>8. StagesDone' /\ IngestionSettled' /\ TablesStayFilled'
    BY <1>1, <1>6 DEF DataInv, StagesDone, IngestionSettled, TablesStayFilled, data
  <1> QED BY <1>6, <1>7, <1>8 DEF DataInv

\* A clearing goes back to a task the run has reached.
LEMMA ClearKeepsData ==
    ASSUME FlowInv, DataInv, NEW t \in Tasks, Clear(t)
    PROVE  DataInv'
  <1>1. /\ at \in 1..9 /\ at' = t /\ t \in 1..8 /\ t <= at
        /\ dag' = "running" /\ UNCHANGED <<row, data, stray>>
    BY DEF Clear, Tasks, FlowInv, FlowType
  <1>2. DataType' /\ (at > CreateTask => row # NoRow)' /\ RowFollowsRun'
    BY <1>1 DEF DataInv, DataType, RowFollowsRun, CreateTask, data
  <1>3. StagesDone'
    <2> SUFFICES ASSUME ~stray', NEW s \in Stages, s < at' PROVE s \in fresh'
      BY DEF StagesDone
    <2>1. s \in 4..7
      BY DEF Stages, DbtTasks, OrdersTask, SnapshotTask, ModelsTask, TestsTask
    <2> QED BY <1>1, <2>1 DEF DataInv, StagesDone, data
  <1>4. IngestionSettled' /\ TablesStayFilled'
    BY <1>1 DEF DataInv, IngestionSettled, TablesStayFilled, IngestTask, ValidateTask,
                data
  <1> QED BY <1>2, <1>3, <1>4 DEF DataInv

\* The steps of Airflow that concern no data.
LEMMA AirflowKeepsData ==
    ASSUME FlowInv, DataInv, NEW w \in Workers, StartAttempt(w) \/ LoseAttempt(w)
    PROVE  DataInv'
  <1>1. CASE StartAttempt(w)
    BY <1>1, FrameKeepsData DEF StartAttempt
  <1>2. CASE LoseAttempt(w)
    <2>0. callback \in [Rounds -> {"none", "update", "insert", "done", "lost"}]
      BY DEF FlowInv, FlowType
    <2>1. UNCHANGED <<row, data, stray, round, at>>
      BY <1>2 DEF LoseAttempt, TryFails
    <2>2. \/ UNCHANGED <<dag, callback>>
          \/ dag' = "failed" /\ callback'[round] = "update"
      BY <1>2 DEF LoseAttempt, TryFails, FlowInv, FlowType
    <2>3. RowFollowsRun'
      BY <2>1, <2>2 DEF DataInv, RowFollowsRun
    <2> QED BY <2>1, <2>3 DEF DataInv, DataType, StagesDone, IngestionSettled,
                              TablesStayFilled, data
  <1> QED BY <1>1, <1>2

-----------------------------------------------------------------------------
(* The theorems.                                                           *)

\* A stage is a task after the validation.
LEMMA StagesAreTasks == Stages = 4..7
  BY DEF Stages, DbtTasks, OrdersTask, SnapshotTask, ModelsTask, TestsTask

\* A run that has not started satisfies the invariant.
LEMMA InitData == Init => DataInv
  <1> SUFFICES ASSUME Init PROVE DataInv
    OBVIOUS
  <1>1. at = 1 /\ dag = "running" /\ row = NoRow /\ fresh = {} /\ stray = FALSE
    BY DEF Init, CreateTask
  <1>2. ingest = NoRow /\ active \in [Entities -> BOOLEAN]
    BY DEF Init, Ingestion!Init
  <1>3. DataType
    BY <1>1, <1>2 DEF DataType
  <1>4. StagesDone
    BY <1>1, StagesAreTasks DEF StagesDone
  <1> QED BY <1>1, <1>3, <1>4 DEF DataInv, IngestionSettled, TablesStayFilled,
                                  RowFollowsRun, CreateTask, IngestTask, ValidateTask

\* Every step keeps it.
LEMMA NextKeeps == PipelineInv /\ [Next]_vars => PipelineInv'
  <1> SUFFICES ASSUME FlowInv, DataInv, [Next]_vars PROVE DataInv'
    BY NextKeepsFlow DEF PipelineInv
  <1>1. CASE UNCHANGED vars
    BY <1>1, FrameKeepsData DEF vars, flow
  <1>2. ASSUME NEW w \in Workers, StartAttempt(w) \/ Step(w) \/ LoseAttempt(w)
        PROVE  DataInv'
    BY <1>2, AirflowKeepsData, ReadingKeepsData, RowTasksKeepData, StagesKeepData,
       IngestionKeepsData DEF Step
  <1> QED BY <1>1, <1>2, CallbackKeepsData, ClearKeepsData DEF Next

\* The invariant holds of every behaviour.
THEOREM PipelineInvariant == Spec => []PipelineInv
  <1>1. Init => PipelineInv
    BY InitFlow, InitData DEF PipelineInv
  <1> QED BY <1>1, NextKeeps, PTL DEF Spec

\* Type correctness of a run of the daily pipeline.
THEOREM PipelineTypeCorrect == Spec => []TypeOK
  <1>1. PipelineInv => TypeOK
    BY DEF PipelineInv, FlowInv, FlowType, DataInv, DataType, TypeOK
  <1> QED BY <1>1, PipelineInvariant, PTL

\* The audit row of an ended run says how it ended, unless its callback could not
\* write or a stray write has changed the row.
THEOREM RowFollows == Spec => []RowFollowsRun
  <1>1. PipelineInv => RowFollowsRun
    BY DEF PipelineInv, DataInv
  <1> QED BY <1>1, PipelineInvariant, PTL

\* A run succeeds only with every stage built on the ones before it, and tested.
THEOREM SuccessBuilt == Spec => []SuccessIsBuilt
  <1>1. PipelineInv => SuccessIsBuilt
    <2> SUFFICES ASSUME PipelineInv, dag = "success", ~stray PROVE fresh = Stages
      BY DEF SuccessIsBuilt
    <2>1. at = 9 /\ fresh \subseteq Stages
      BY DEF PipelineInv, FlowInv, DataInv, DataType
    <2>2. \A s \in Stages : s \in fresh
      BY <2>1, StagesAreTasks DEF PipelineInv, DataInv, StagesDone
    <2> QED BY <2>1, <2>2
  <1> QED BY <1>1, PipelineInvariant, PTL

\* A run past its ingestion leaves no unfinished ingestion batch behind.
THEOREM IngestionIsSettled == Spec => []IngestionSettled
  <1>1. PipelineInv => IngestionSettled
    BY DEF PipelineInv, DataInv
  <1> QED BY <1>1, PipelineInvariant, PTL

\* Validated tables stay filled, whatever is loaded behind Airflow's back.
THEOREM TablesFilled == Spec => []TablesStayFilled
  <1>1. PipelineInv => TablesStayFilled
    BY DEF PipelineInv, DataInv
  <1> QED BY <1>1, PipelineInvariant, PTL

\* A callback that gets through leaves the row failed.
THEOREM FailureWritten == Spec => FailureIsWritten
  <1>1. ASSUME FlowInv, [Next]_vars, NEW r \in Rounds,
               callback'[r] = "done", callback[r] # "done"
        PROVE  row' = "failed"
    <2>1. callback' # callback /\ callback \in [Rounds -> {"none", "update", "insert", "done", "lost"}]
      BY <1>1 DEF FlowInv, FlowType
    <2>2. ASSUME NEW q \in Rounds, Callback(q) PROVE row' = "failed"
      BY <1>1, <2>1, <2>2 DEF Callback, CallbackUpdates, CallbackFindsNoRow,
                              CallbackInserts, CallbackRaises, CallbackEnds
    <2>3. ASSUME NEW w \in Workers, Returns(w) \/ Raises(w) \/ LoseAttempt(w) PROVE FALSE
      BY <1>1, <2>1, <2>3 DEF Returns, Raises, LoseAttempt, TrySucceeds, TryFails, flow,
                              FlowInv, FlowType
    <2>4. ASSUME NEW w \in Workers, StartAttempt(w) \/ Step(w) PROVE FALSE
      BY <2>1, <2>3, <2>4
      DEF StartAttempt, Step, AttemptFails, CreatePipelineRun, StartIngestion, LandLoad,
          EndIngestion, EndIngestionSilently, ReadIngestion, ValidateRawData,
          GenerateOrders, RunDbt, DbtFails, RecordPipelineSuccess, flow
    <2>5. \A t \in Tasks : ~Clear(t)
      BY <2>1 DEF Clear
    <2> QED BY <1>1, <2>1, <2>2, <2>3, <2>4, <2>5 DEF Next, vars, flow
  <1>2. PipelineInv /\ [Next]_vars =>
            [\A r \in Rounds : callback'[r] = "done" /\ callback[r] # "done"
                                   => row' = "failed"]_vars
    BY <1>1 DEF PipelineInv
  <1> QED BY <1>2, PipelineInvariant, PTL DEF Spec, FailureIsWritten

-----------------------------------------------------------------------------
(* How many attempts a round of the run makes.                             *)

Chances == Retries + 1

\* The attempts still to come in this round, at most.
AttemptsLeft == IF dag = "running" THEN (9 - at) * Chances - tries ELSE 0

\* Each attempt is one fewer, and nothing but a clearing brings any back: not the
\* attempts that go on after Airflow has given them up and end later, in success
\* or failure, nor the callback of an earlier round.  As long as the run is
\* running Airflow waits for an attempt or may start one.
AttemptsRunOut ==
    [][/\ AttemptsLeft' <= AttemptsLeft \/ \E t \in Tasks : Clear(t)
       /\ (\E w \in Workers : StartAttempt(w)) => AttemptsLeft' < AttemptsLeft]_vars

AttemptsLimited ==
    /\ AttemptsLeft \in 0..8 * Chances
    /\ dag = "running" /\ owner = Nobody => AttemptsLeft > 0

\* Chances of several tasks.
LEMMA TaskWorth ==
    ASSUME NEW k \in 1..9, NEW c \in Nat \ {0}, NEW t \in 0..c
    PROVE  /\ (9 - k) * c \in Nat
           /\ (9 - k) * c <= 8 * c
           /\ k < 9 => (9 - k) * c - t >= 0 /\ (9 - (k + 1)) * c <= (9 - k) * c - t
           /\ k < 9 /\ t < c => (9 - k) * c - t > 0
  OBVIOUS

\* What the flow says of them.
LEMMA AttemptsLeftType ==
    ASSUME FlowInv
    PROVE  /\ AttemptsLimited
           /\ Chances \in Nat \ {0} /\ 8 * Chances \in Nat
           /\ at \in 1..9 /\ tries \in 0..Chances
           /\ dag = "running" => at < 9
  <1>1. /\ Chances \in Nat \ {0} /\ at \in 1..9 /\ tries \in 0..Chances
        /\ dag = "running" => at < 9
        /\ dag = "running" /\ owner = Nobody => tries < Chances
    BY BoundsAssumption DEF FlowInv, FlowType, TryLeft, Chances
  <1> HIDE DEF Chances
  <1>2. 8 * Chances \in Nat
    BY <1>1
  <1>3. /\ (9 - at) * Chances \in Nat
        /\ (9 - at) * Chances <= 8 * Chances
        /\ at < 9 => (9 - at) * Chances - tries >= 0
        /\ at < 9 /\ tries < Chances => (9 - at) * Chances - tries > 0
    BY <1>1, TaskWorth
  <1>4. AttemptsLimited
    BY <1>1, <1>2, <1>3 DEF AttemptsLimited, AttemptsLeft
  <1> QED BY <1>1, <1>2, <1>4

\* What Airflow does when an attempt ends, or is given up on.
LEMMA TryEnds ==
    ASSUME FlowInv, TryFails \/ TrySucceeds, dag = "running"
    PROVE  AttemptsLeft' <= AttemptsLeft
  <1>1. /\ Chances \in Nat \ {0} /\ at \in 1..8 /\ tries \in 0..Chances
        /\ AttemptsLeft \in Nat /\ Chances' = Chances
    BY AttemptsLeftType DEF AttemptsLimited, Chances
  <1>2. (9 - at) * Chances - tries \in Int
    BY <1>1
  <1>3. CASE TryFails
    BY <1>1, <1>2, <1>3 DEF TryFails, AttemptsLeft
  <1>4. CASE TrySucceeds
    <2>1. /\ (9 - (at + 1)) * Chances <= (9 - at) * Chances - tries
          /\ (9 - (at + 1)) * Chances \in Nat
      <3>1. at + 1 \in 1..9 /\ at \in 1..9 /\ at < 9 /\ 0 \in 0..Chances
        BY <1>1
      <3> QED BY <1>1, <3>1, TaskWorth
    <2>2. at' = at + 1 /\ tries' = 0
      BY <1>4 DEF TrySucceeds
    <2>3. \/ dag' # "running"
          \/ AttemptsLeft' = (9 - (at + 1)) * Chances
      BY <1>1, <2>1, <2>2 DEF AttemptsLeft
    <2>4. AttemptsLeft = (9 - at) * Chances - tries
      BY DEF AttemptsLeft
    <2>5. dag' # "running" => AttemptsLeft' = 0
      BY DEF AttemptsLeft
    <2> QED BY <1>1, <2>1, <2>3, <2>4, <2>5
  <1> QED BY <1>3, <1>4

\* A round makes at most Retries + 1 attempts for each of the eight tasks, and the
\* run does not hang between two of them: what RunEnds rests on.
THEOREM AttemptsAreLimited == Spec => []AttemptsLimited /\ AttemptsRunOut
  <1>1. FlowInv => AttemptsLimited
    BY AttemptsLeftType
  <1>2. ASSUME FlowInv, [Next]_vars
        PROVE  [/\ AttemptsLeft' <= AttemptsLeft \/ \E t \in Tasks : Clear(t)
                /\ (\E w \in Workers : StartAttempt(w))
                       => AttemptsLeft' < AttemptsLeft]_vars
    <2>1. SUFFICES ASSUME Next
                   PROVE  /\ AttemptsLeft' <= AttemptsLeft \/ \E t \in Tasks : Clear(t)
                          /\ (\E w \in Workers : StartAttempt(w))
                                 => AttemptsLeft' < AttemptsLeft
      BY <1>2
    <2>2. /\ AttemptsLeft \in Nat /\ Chances \in Nat \ {0} /\ Chances' = Chances
          /\ at \in 1..9 /\ tries \in 0..Chances
      BY <1>2, AttemptsLeftType DEF AttemptsLimited, Chances
    <2>3. ASSUME NEW w \in Workers, StartAttempt(w)
          PROVE  AttemptsLeft' < AttemptsLeft
      <3>1. (9 - at) * Chances \in Int
        BY <2>2
      <3> QED BY <2>2, <2>3, <3>1 DEF StartAttempt, AttemptsLeft
    <2>4. ASSUME UNCHANGED <<dag, at, tries>>
          PROVE  AttemptsLeft' = AttemptsLeft
      BY <2>4 DEF AttemptsLeft, Chances
    <2>5. ASSUME NEW w \in Workers, Step(w) \/ LoseAttempt(w)
          PROVE  UNCHANGED <<dag, at, tries>>
                     \/ (dag = "running" /\ (TryFails \/ TrySucceeds))
      <3>1. w # Nobody /\ (owner = w => dag = "running")
        BY <1>2, NobodyAssumption DEF FlowInv, OwnerIsAtWork
      <3>2. Returns(w) \/ Raises(w) =>
                \/ UNCHANGED flow
                \/ dag = "running" /\ (TryFails \/ TrySucceeds)
        BY <3>1 DEF Returns, Raises
      <3> QED BY <2>5, <3>1, <3>2
              DEF Step, LoseAttempt, AttemptFails, CreatePipelineRun, StartIngestion,
                  LandLoad, EndIngestion, EndIngestionSilently, ReadIngestion,
                  ValidateRawData, GenerateOrders, RunDbt, DbtFails,
                  RecordPipelineSuccess, flow
    <2>6. ASSUME NEW r \in Rounds, Callback(r)
          PROVE  UNCHANGED <<dag, at, tries>>
      BY <2>6 DEF Callback, CallbackUpdates, CallbackFindsNoRow, CallbackInserts,
         CallbackRaises, CallbackEnds
    <2>7. ASSUME ~\E t \in Tasks : Clear(t)
          PROVE  AttemptsLeft' <= AttemptsLeft
      <3>1. \/ \E w \in Workers : StartAttempt(w)
            \/ \E w \in Workers : Step(w) \/ LoseAttempt(w)
            \/ \E r \in Rounds : Callback(r)
        BY <2>1, <2>7 DEF Next
      <3> HIDE DEF AttemptsLeft
      <3>2. CASE \E w \in Workers : StartAttempt(w)
        <4>1. PICK w \in Workers : StartAttempt(w)
          BY <3>2
        <4>2. AttemptsLeft' \in Int
          BY <2>2, <4>1 DEF StartAttempt, AttemptsLeft
        <4> QED BY <2>2, <2>3, <4>1, <4>2
      <3>3. CASE UNCHANGED <<dag, at, tries>>
        BY <2>2, <2>4, <3>3
      <3>4. CASE dag = "running" /\ (TryFails \/ TrySucceeds)
        BY <1>2, <3>4, TryEnds
      <3> QED BY <2>5, <2>6, <3>1, <3>2, <3>3, <3>4
    <2> QED BY <2>3, <2>7
  <1>3. PipelineInv => FlowInv
    BY DEF PipelineInv
  <1> QED BY <1>1, <1>2, <1>3, PipelineInvariant, PTL DEF Spec, AttemptsRunOut
=============================================================================
