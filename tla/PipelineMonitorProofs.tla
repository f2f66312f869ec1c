------------------------ MODULE PipelineMonitorProofs ------------------------
(***************************************************************************)
(* Theorems about PipelineMonitor for any set of runs, any limits and any  *)
(* length of the day.  A check that has read the latest row stays right    *)
(* about the rows of that moment; and an alert is announced by the step    *)
(* after the one that opened it, or never.                                 *)
(***************************************************************************)
EXTENDS PipelineMonitor, TLAPS

-----------------------------------------------------------------------------
(* The inductive invariant.                                                *)

\* The rows: their order is that of their starts, one of them is the latest, and
\* finished_at is there once the run has ended.
RowsInv ==
    /\ \A b, c \in Written : rows[c].nth <= rows[b].nth => rows[c].started <= rows[b].started
    /\ \A b \in Written : rows[b].nth <= writes /\ rows[b].started <= now
    /\ \A b \in Written : rows[b].status # "running" => rows[b].finished # NoTime
    /\ Written # {} => \E b \in Written : \A c \in Written : rows[c].nth <= rows[b].nth

\* A check that looks: what has started later than the row it has read has
\* started since.
LookInv ==
    pc = "looked" /\ seen # NoBatch =>
        /\ seenRow \in Rows
        /\ \A b \in Written : rows[b].started > seenRow.started => rows[b].started >= lookedAt

\* Nothing has been told of an alert that is not open or is about to be sent.
ToldInv ==
    /\ \A k \in Keys : alerts[k] # "open" => told[k] = 0 /\ k \notin missed
    /\ pc = "sending" => alerts[key] = "open" /\ told[key] = 0

MonitorInv == TypeOK /\ RowsInv /\ LookInv /\ ToldInv /\ AlertToldOnce

-----------------------------------------------------------------------------
(* The clock and the verdict.                                              *)

\* The run that is expected was expected before now.
LEMMA ExpectedIsPast ==
    ASSUME NEW t \in Times
    PROVE  ExpectedStart(t) \in Int /\ ExpectedStart(t) <= t
  <1>1. Day \in Nat \ {0} /\ ExpectedHour \in 0..Day - 1 /\ t \in Nat
    BY ClockAssumption, BoundsAssumption DEF Times
  <1>2. t % Day \in 0..Day - 1
    BY <1>1
  <1> QED BY <1>1, <1>2 DEF ExpectedStart

\* A verdict is a key or Healthy.
LEMMA VerdictIs ==
    ASSUME NEW b \in Batches \cup {NoBatch}, NEW row \in Rows \cup {NoRow},
           NEW t \in Times, b # NoBatch => row \in Rows
    PROVE  Verdict(b, row, t) \in Keys \cup {Healthy}
  <1>1. CASE b = NoBatch
    BY <1>1 DEF Verdict, Keys
  <1>2. CASE b # NoBatch /\ IsMissing(row, t)
    <2>1. row.started \in Nat /\ t \in Nat /\ MaxTime \in Nat /\ t <= MaxTime
      BY <1>2, BoundsAssumption DEF Rows, Times
    <2>2. ExpectedStart(t) \in Int /\ ExpectedStart(t) <= t
      BY ExpectedIsPast
    <2>3. row.started < ExpectedStart(t)
      BY <1>2 DEF IsMissing
    <2>4. ExpectedStart(t) \in Times
      BY <2>1, <2>2, <2>3 DEF Times
    <2>5. <<"missing", ExpectedStart(t)>> \in Keys
      BY <2>4 DEF Keys
    <2>6. <<"failed", b>> \in Keys /\ <<"stalled", b>> \in Keys
      BY <1>2 DEF Keys
    <2> QED BY <1>2, <2>5, <2>6 DEF Verdict
  <1>3. CASE b # NoBatch /\ ~IsMissing(row, t)
    <2>1. <<"failed", b>> \in Keys /\ <<"stalled", b>> \in Keys /\ <<"stale", b>> \in Keys
      BY <1>3 DEF Keys
    <2> QED BY <1>3, <2>1 DEF Verdict
  <1> QED BY <1>1, <1>2, <1>3

\* A verdict that the run is missing is about the row that was read.
LEMMA MissingVerdict ==
    ASSUME NEW b, NEW row, NEW t, NEW e, Verdict(b, row, t) = <<"missing", e>>
    PROVE  b # NoBatch /\ e = ExpectedStart(t) /\ row.started < e
  <1>1. /\ b # NoBatch /\ row.status # "failed" /\ ~RunsTooLong(row, t)
        /\ IsMissing(row, t) /\ Verdict(b, row, t) = <<"missing", ExpectedStart(t)>>
    BY DEF Verdict, Healthy
  <1>2. e = ExpectedStart(t)
    BY <1>1
  <1> QED BY <1>1, <1>2 DEF IsMissing

\* The latest run has a row, and none has started later.
LEMMA LatestIs ==
    ASSUME TypeOK, RowsInv
    PROVE  /\ LatestRun \in Batches \cup {NoBatch}
           /\ LatestRow \in Rows \cup {NoRow}
           /\ LatestRun = NoBatch => Written = {}
           /\ LatestRun # NoBatch =>
                  /\ LatestRun \in Written /\ LatestRow = rows[LatestRun]
                  /\ LatestRow \in Rows
                  /\ \A c \in Written : rows[c].started <= LatestRow.started
  <1>0. NoBatch \notin Written
    BY NullAssumption DEF Written
  <1>1. CASE Written = {}
    BY <1>1 DEF LatestRun, LatestRow
  <1>2. CASE Written # {}
    <2>1. /\ LatestRun \in Written
          /\ \A c \in Written : rows[c].nth <= rows[LatestRun].nth
      BY <1>2 DEF LatestRun, RowsInv
    <2>2. LatestRow = rows[LatestRun]
      BY <1>0, <2>1 DEF LatestRow
    <2>3. rows[LatestRun] \in Rows /\ LatestRun \in Batches
      BY <2>1 DEF Written, TypeOK
    <2>4. \A c \in Written : rows[c].started <= rows[LatestRun].started
      BY <2>1 DEF RowsInv
    <2> QED BY <1>0, <2>1, <2>2, <2>3, <2>4
  <1> QED BY <1>1, <1>2

-----------------------------------------------------------------------------
(* The steps of the pipeline.                                              *)

\* No row, no alert, no check: nothing to break.
LEMMA InitKeeps == Init => MonitorInv
  <1> SUFFICES ASSUME Init PROVE MonitorInv
    OBVIOUS
  <1>1. /\ rows = [b \in Batches |-> NoRow] /\ told = [k \in Keys |-> 0]
        /\ alerts = [k \in Keys |-> "none"] /\ missed = {} /\ pc = "idle"
        /\ writes = 0 /\ now = ExpectedHour /\ lookedAt = 0 /\ faults = 0
    BY DEF Init
  <1>2. Written = {}
    BY <1>1 DEF Written
  <1>3. NoKey \in Keys
    BY DEF NoKey, Keys
  <1>4. TypeOK
    BY <1>1, <1>3, ClockAssumption, BoundsAssumption DEF Init, TypeOK, Times
  <1>5. RowsInv /\ LookInv /\ ToldInv /\ AlertToldOnce
    BY <1>1, <1>2 DEF RowsInv, LookInv, ToldInv, AlertToldOnce
  <1> QED BY <1>4, <1>5 DEF MonitorInv

\* What the pipeline does leaves the alerts alone.
LEMMA AlertsAlone ==
    ASSUME MonitorInv, UNCHANGED monitor
    PROVE  ToldInv' /\ AlertToldOnce'
  BY DEF MonitorInv, monitor, ToldInv, AlertToldOnce

\* The clock goes on.
LEMMA TickKeeps ==
    ASSUME MonitorInv, Tick
    PROVE  MonitorInv'
  <1>1. /\ now' = now + 1 /\ now \in Nat /\ now < MaxTime /\ MaxTime \in Nat
        /\ UNCHANGED <<writes, rows, monitor>> /\ Written' = Written
    BY BoundsAssumption DEF Tick, MonitorInv, TypeOK, Times, Written
  <1>2. TypeOK'
    <2>1. now' \in Times
      BY <1>1 DEF Times
    <2>2. lookedAt' \in 0..now'
      BY <1>1 DEF MonitorInv, TypeOK, monitor
    <2> QED BY <1>1, <2>1, <2>2 DEF MonitorInv, TypeOK, monitor
  <1>3. \A b \in Written : rows[b].started \in Nat
    BY DEF MonitorInv, TypeOK, Written, Rows, Times
  <1>4. RowsInv'
    BY <1>1, <1>3 DEF MonitorInv, RowsInv
  <1>5. LookInv'
    BY <1>1 DEF MonitorInv, LookInv, monitor
  <1> QED BY <1>1, <1>2, <1>4, <1>5, AlertsAlone DEF MonitorInv

\* A row that is written anew is the latest one.
LEMMA NewRowKeeps ==
    ASSUME MonitorInv, NEW b \in Batches, NEW s, NEW f, UNCHANGED <<now, monitor>>,
           writes < MaxWrites, writes' = writes + 1,
           \/ s = "running" /\ f = NoTime
           \/ s = "failed" /\ f = now,
           rows' = [rows EXCEPT ![b] = Row(s, now, f, writes + 1)]
    PROVE  MonitorInv'
  <1>1. /\ now \in Times /\ now \in Nat /\ writes \in Nat /\ MaxWrites \in Nat
        /\ lookedAt \in 0..now /\ rows \in [Batches -> Rows \cup {NoRow}]
    BY BoundsAssumption DEF MonitorInv, TypeOK, Times
  <1>2. Row(s, now, f, writes + 1) \in Rows
    BY <1>1 DEF Row, Rows
  <1>3. rows'[b] = Row(s, now, f, writes + 1) /\ rows'[b] # NoRow
    BY <1>1, <1>2, NullAssumption
  <1>4. \A c \in Batches : c # b => rows'[c] = rows[c]
    BY <1>1
  <1>5. Written' = Written \cup {b}
    BY <1>3, <1>4 DEF Written
  <1>6. /\ rows'[b].nth = writes + 1 /\ rows'[b].started = now
        /\ rows'[b].status = s /\ rows'[b].finished = f
    BY <1>3 DEF Row
  <1>7. TypeOK'
    <2>1. rows' \in [Batches -> Rows \cup {NoRow}]
      BY <1>1, <1>2
    <2>2. writes' \in 0..MaxWrites
      BY <1>1
    <2> QED BY <2>1, <2>2 DEF MonitorInv, TypeOK, monitor
  <1>8. \A c \in Written : /\ rows[c].nth \in Nat /\ rows[c].started \in Nat
                           /\ rows[c].nth <= writes /\ rows[c].started <= now
    BY DEF MonitorInv, RowsInv, TypeOK, Rows, Times, Written
  <1>9. RowsInv'
    <2>0. \A c \in Written \ {b} : c \in Batches /\ rows'[c] = rows[c]
      BY <1>4 DEF Written
    <2>1. \A c \in Written' : rows'[c].nth <= writes' /\ rows'[c].started <= now'
      BY <1>1, <1>5, <1>6, <1>8, <2>0
    <2>2. \A c \in Written' : rows'[c].nth <= rows'[b].nth
      BY <1>5, <1>6, <2>1
    <2>3. ASSUME NEW c \in Written', NEW d \in Written', rows'[d].nth <= rows'[c].nth
          PROVE  rows'[d].started <= rows'[c].started
      <3>1. CASE c = b
        BY <1>6, <2>1, <3>1
      <3>2. CASE c # b /\ d = b
        <4>1. rows'[c].nth <= writes
          BY <1>5, <1>8, <2>0, <3>2
        <4> QED BY <1>1, <1>5, <1>6, <1>8, <2>0, <2>3, <3>2, <4>1
      <3>3. CASE c # b /\ d # b
        BY <1>5, <2>0, <2>3, <3>3 DEF MonitorInv, RowsInv
      <3> QED BY <3>1, <3>2, <3>3
    <2>4. \A c \in Written' : rows'[c].status # "running" => rows'[c].finished # NoTime
      <3>1. f = NoTime => s = "running"
        BY <1>1, NullAssumption
      <3> QED BY <1>5, <1>6, <2>0, <3>1 DEF MonitorInv, RowsInv
    <2>5. b \in Written'
      BY <1>5
    <2> QED BY <2>1, <2>2, <2>3, <2>4, <2>5 DEF RowsInv
  <1>10. LookInv'
    <2> SUFFICES ASSUME pc = "looked", seen # NoBatch, NEW c \in Written',
                        rows'[c].started > seenRow.started
                 PROVE  seenRow \in Rows /\ rows'[c].started >= lookedAt
      BY DEF MonitorInv, LookInv, monitor
    <2>1. CASE c = b
      BY <1>1, <1>6, <2>1 DEF MonitorInv, LookInv
    <2>2. CASE c # b
      <3>1. c \in Written /\ rows'[c] = rows[c]
        BY <1>4, <1>5, <2>2 DEF Written
      <3> QED BY <3>1 DEF MonitorInv, LookInv
    <2> QED BY <2>1, <2>2
  <1> QED BY <1>7, <1>9, <1>10, AlertsAlone DEF MonitorInv

\* A row that gets another end keeps its place.
LEMMA EndKeeps ==
    ASSUME MonitorInv, NEW b \in Batches, NEW s \in {"success", "failed"}, EndRun(b, s)
    PROVE  MonitorInv'
  <1>1. /\ now \in Times /\ now \in Nat /\ writes \in Nat /\ MaxWrites \in Nat
        /\ rows \in [Batches -> Rows \cup {NoRow}] /\ b \in Written /\ rows[b] \in Rows
        /\ writes' = writes + 1 /\ writes < MaxWrites /\ UNCHANGED <<now, monitor>>
        /\ rows' = [rows EXCEPT ![b] = Row(s, rows[b].started, now, rows[b].nth)]
    BY BoundsAssumption DEF MonitorInv, TypeOK, Times, EndRun, Written
  <1>2. Row(s, rows[b].started, now, rows[b].nth) \in Rows
    BY <1>1 DEF Row, Rows
  <1>3. rows'[b] = Row(s, rows[b].started, now, rows[b].nth) /\ rows'[b] # NoRow
    BY <1>1, <1>2, NullAssumption
  <1>4. \A c \in Batches : c # b => rows'[c] = rows[c]
    BY <1>1
  <1>5. Written' = Written
    BY <1>1, <1>3, <1>4 DEF Written
  <1>6. /\ rows'[b].nth = rows[b].nth /\ rows'[b].started = rows[b].started
        /\ rows'[b].finished = now
    BY <1>3 DEF Row
  <1>7. \A c \in Written : rows'[c].nth = rows[c].nth /\ rows'[c].started = rows[c].started
    BY <1>4, <1>6 DEF Written
  <1>8. TypeOK'
    <2>1. rows' \in [Batches -> Rows \cup {NoRow}]
      BY <1>1, <1>2
    <2>2. writes' \in 0..MaxWrites
      BY <1>1
    <2> QED BY <1>1, <2>1, <2>2 DEF MonitorInv, TypeOK, monitor
  <1>9. RowsInv'
    <2>1. \A c \in Written' : rows'[c].nth <= writes' /\ rows'[c].started <= now'
      <3>1. \A c \in Written : rows[c].nth \in Nat /\ rows[c].nth <= writes
        BY DEF MonitorInv, RowsInv, TypeOK, Rows, Written
      <3> QED BY <1>1, <1>5, <1>7, <3>1 DEF MonitorInv, RowsInv
    <2>2. \A c, d \in Written' :
              rows'[d].nth <= rows'[c].nth => rows'[d].started <= rows'[c].started
      BY <1>5, <1>7 DEF MonitorInv, RowsInv
    <2>3. \A c \in Written' : rows'[c].status # "running" => rows'[c].finished # NoTime
      <3>1. now # NoTime
        BY <1>1, NullAssumption
      <3>2. \A c \in Written : c # b => c \in Batches /\ rows'[c] = rows[c]
        BY <1>4 DEF Written
      <3> QED BY <1>5, <1>6, <3>1, <3>2 DEF MonitorInv, RowsInv
    <2>4. Written' # {} => \E c \in Written' : \A d \in Written' : rows'[d].nth <= rows'[c].nth
      BY <1>5, <1>7 DEF MonitorInv, RowsInv
    <2> QED BY <2>1, <2>2, <2>3, <2>4 DEF RowsInv
  <1>10. LookInv'
    BY <1>1, <1>5, <1>7 DEF MonitorInv, LookInv, monitor
  <1> QED BY <1>1, <1>8, <1>9, <1>10, AlertsAlone DEF MonitorInv

-----------------------------------------------------------------------------
(* The steps of a check.                                                   *)

\* What a check does leaves the rows alone.
LEMMA RowsAlone ==
    ASSUME MonitorInv, UNCHANGED pipeline
    PROVE  RowsInv' /\ Written' = Written
  <1>1. Written' = Written
    BY DEF Written, pipeline
  <1> QED BY <1>1 DEF MonitorInv, RowsInv, pipeline

\* A check reads the latest row: none has started later.
LEMMA LookKeeps ==
    ASSUME MonitorInv, Look
    PROVE  MonitorInv'
  <1>1. /\ seen' = LatestRun /\ seenRow' = LatestRow /\ lookedAt' = now /\ pc' = "looked"
        /\ pc = "idle" /\ UNCHANGED <<pipeline, alerts, key, faults, told, missed>>
    BY DEF Look
  <1>2. /\ LatestRun \in Batches \cup {NoBatch}
        /\ LatestRow \in Rows \cup {NoRow}
        /\ LatestRun # NoBatch =>
               /\ LatestRow \in Rows
               /\ \A c \in Written : rows[c].started <= LatestRow.started
    BY LatestIs DEF MonitorInv
  <1>3. RowsInv' /\ Written' = Written
    BY <1>1, RowsAlone
  <1>4. TypeOK'
    BY <1>1, <1>2 DEF MonitorInv, TypeOK, pipeline, Times
  <1>5. LookInv'
    <2> SUFFICES ASSUME LatestRun # NoBatch, NEW c \in Written,
                        rows[c].started > LatestRow.started
                 PROVE  FALSE
      BY <1>1, <1>2, <1>3 DEF LookInv, pipeline
    <2>1. rows[c].started \in Nat /\ LatestRow.started \in Nat
      BY <1>2 DEF MonitorInv, TypeOK, Written, Rows, Times
    <2> QED BY <1>2, <2>1
  <1>6. ToldInv' /\ AlertToldOnce'
    BY <1>1 DEF MonitorInv, ToldInv, AlertToldOnce, pipeline
  <1> QED BY <1>3, <1>4, <1>5, <1>6 DEF MonitorInv

\* All alerts are closed.
LEMMA ResolveKeeps ==
    ASSUME MonitorInv, pc = "looked", ResolveOpenAlerts, ForgetRow,
           UNCHANGED <<pipeline, faults>>
    PROVE  MonitorInv'
  <1>1. /\ alerts' = [k \in Keys |-> IF alerts[k] = "open" THEN "resolved" ELSE alerts[k]]
        /\ told' = [k \in Keys |-> 0] /\ missed' = {} /\ pc' = "idle" /\ key' = key
        /\ seen' = NoBatch /\ seenRow' = NoRow /\ lookedAt' = 0
    BY DEF ResolveOpenAlerts, ForgetRow
  <1>2. RowsInv'
    BY RowsAlone
  <1>3. \A k \in Keys : alerts'[k] # "open"
    BY <1>1
  <1>4. TypeOK'
    <2>1. alerts' \in [Keys -> {"none", "open", "resolved"}]
      BY <1>1 DEF MonitorInv, TypeOK
    <2> QED BY <1>1, <2>1 DEF MonitorInv, TypeOK, pipeline, Times
  <1>5. LookInv' /\ ToldInv' /\ AlertToldOnce'
    BY <1>1, <1>3 DEF LookInv, ToldInv, AlertToldOnce
  <1> QED BY <1>2, <1>4, <1>5 DEF MonitorInv

\* An alert is opened, and sent next, or was open.
LEMMA RecordKeeps ==
    ASSUME MonitorInv, pc = "looked", NEW k \in Keys, RecordAlert(k), ForgetRow,
           UNCHANGED <<pipeline, faults>>
    PROVE  MonitorInv'
  <1>1. /\ alerts' = [alerts EXCEPT ![k] = "open"] /\ UNCHANGED <<told, missed>>
        /\ seen' = NoBatch /\ seenRow' = NoRow /\ lookedAt' = 0
        /\ \/ alerts[k] # "open" /\ key' = k /\ pc' = "sending"
           \/ alerts[k] = "open" /\ key' = key /\ pc' = "idle"
    BY DEF RecordAlert, ForgetRow, Notifies
  <1>2. RowsInv'
    BY RowsAlone
  <1>3. /\ alerts \in [Keys -> {"none", "open", "resolved"}] /\ key \in Keys
        /\ alerts'[k] = "open" /\ \A j \in Keys : j # k => alerts'[j] = alerts[j]
    BY <1>1 DEF MonitorInv, TypeOK
  <1>4. TypeOK'
    <2>1. alerts' \in [Keys -> {"none", "open", "resolved"}]
      BY <1>1, <1>3
    <2> QED BY <1>1, <1>3, <2>1 DEF MonitorInv, TypeOK, pipeline, Times
  <1>5. LookInv'
    BY <1>1 DEF LookInv
  <1>6. ToldInv'
    BY <1>1, <1>3 DEF MonitorInv, ToldInv
  <1>7. AlertToldOnce'
    BY <1>1, <1>3 DEF MonitorInv, AlertToldOnce
  <1> QED BY <1>2, <1>4, <1>5, <1>6, <1>7 DEF MonitorInv

\* The verdict is recorded.
LEMMA JudgeKeeps ==
    ASSUME MonitorInv, Judge
    PROVE  MonitorInv'
  <1>1. /\ seen \in Batches \cup {NoBatch} /\ seenRow \in Rows \cup {NoRow}
        /\ now \in Times /\ pc = "looked"
        /\ seen # NoBatch => seenRow \in Rows
    BY DEF Judge, MonitorInv, TypeOK, LookInv
  <1>2. PICK v \in Keys \cup {Healthy} : v = Verdict(seen, seenRow, now)
    BY <1>1, VerdictIs
  <1>3. CASE v = Healthy
    BY <1>1, <1>2, <1>3, ResolveKeeps DEF Judge
  <1>4. CASE v # Healthy
    <2>1. v \in Keys /\ RecordAlert(v) /\ ForgetRow /\ UNCHANGED <<pipeline, faults>>
      BY <1>2, <1>4 DEF Judge
    <2> QED BY <1>1, <2>1, RecordKeeps
  <1> QED BY <1>3, <1>4

\* A message is sent, or its sending fails.
LEMMA SendKeeps ==
    ASSUME MonitorInv, Send \/ SendFails
    PROVE  MonitorInv'
  <1>1. /\ told \in [Keys -> Nat] /\ key \in Keys /\ NoKey \in Keys /\ faults \in 0..MaxFaults
        /\ MaxFaults \in Nat /\ missed \in SUBSET Keys /\ pc = "sending"
        /\ alerts[key] = "open" /\ told[key] = 0
    BY BoundsAssumption DEF MonitorInv, TypeOK, ToldInv, Send, SendFails, NoKey, Keys
  <1>2. PICK n \in 0..1 :
            /\ told' = [told EXCEPT ![key] = told[key] + n]
            /\ Webhook => n = 1 \/ key \in missed'
    BY WebhookAssumption DEF Send, SendFails, Messages
  <1>3. /\ key' = NoKey /\ pc' = "idle" /\ missed' \in {missed, missed \cup {key}}
        /\ faults' \in 0..MaxFaults
        /\ UNCHANGED <<pipeline, alerts, seen, seenRow, lookedAt>>
    BY <1>1 DEF Send, SendFails
  <1>4. told'[key] = n /\ \A j \in Keys : j # key => told'[j] = told[j]
    BY <1>1, <1>2
  <1>5. RowsInv'
    BY <1>3, RowsAlone
  <1>6. TypeOK'
    <2>1. told' \in [Keys -> Nat] /\ missed' \in SUBSET Keys
      BY <1>1, <1>2, <1>3
    <2> QED BY <1>1, <1>3, <2>1 DEF MonitorInv, TypeOK, pipeline, Times
  <1>7. LookInv'
    BY <1>3 DEF LookInv
  <1>8. ToldInv'
    BY <1>1, <1>3, <1>4 DEF MonitorInv, ToldInv
  <1>9. AlertToldOnce'
    <2>1. \A j \in Keys : told'[j] <= 1
      BY <1>4 DEF MonitorInv, AlertToldOnce
    <2>2. ASSUME Webhook, NEW j \in Keys, alerts[j] = "open"
          PROVE  told'[j] = 1 \/ j \in missed'
      BY <1>2, <1>3, <1>4, <2>2 DEF MonitorInv, AlertToldOnce
    <2> QED BY <1>3, <2>1, <2>2 DEF AlertToldOnce
  <1> QED BY <1>5, <1>6, <1>7, <1>8, <1>9 DEF MonitorInv

\* An attempt fails before it has recorded anything.
LEMMA AttemptFailsKeeps ==
    ASSUME MonitorInv, AttemptFails
    PROVE  MonitorInv'
  <1>1. /\ faults < MaxFaults /\ faults' = faults + 1 /\ pc' = "idle" /\ pc = "looked"
        /\ seen' = NoBatch /\ seenRow' = NoRow /\ lookedAt' = 0
        /\ UNCHANGED <<pipeline, alerts, key, told, missed>>
    BY DEF AttemptFails, ForgetRow
  <1>2. RowsInv'
    BY <1>1, RowsAlone
  <1>3. TypeOK'
    <2>1. faults' \in 0..MaxFaults
      BY <1>1, BoundsAssumption DEF MonitorInv, TypeOK
    <2> QED BY <1>1, <2>1 DEF MonitorInv, TypeOK, pipeline, Times
  <1>4. LookInv' /\ ToldInv' /\ AlertToldOnce'
    BY <1>1 DEF MonitorInv, LookInv, ToldInv, AlertToldOnce
  <1> QED BY <1>2, <1>3, <1>4 DEF MonitorInv

\* Every step keeps the invariant.
LEMMA NextKeeps == MonitorInv /\ [Next]_vars => MonitorInv'
  <1> SUFFICES ASSUME MonitorInv, [Next]_vars PROVE MonitorInv'
    OBVIOUS
  <1>1. CASE Tick
    BY <1>1, TickKeeps
  <1>2. ASSUME NEW b \in Batches, StartRun(b) PROVE MonitorInv'
    BY <1>2, NewRowKeeps DEF StartRun
  <1>3. ASSUME NEW b \in Batches, FallbackRow(b) PROVE MonitorInv'
    BY <1>3, NewRowKeeps DEF FallbackRow
  <1>4. ASSUME NEW b \in Batches, NEW s \in {"success", "failed"}, EndRun(b, s)
        PROVE  MonitorInv'
    BY <1>4, EndKeeps
  <1>5. CASE Check
    BY <1>5, LookKeeps, JudgeKeeps, SendKeeps, AttemptFailsKeeps DEF Check
  <1>6. CASE UNCHANGED vars
    BY <1>6 DEF vars, pipeline, MonitorInv, TypeOK, RowsInv, LookInv, ToldInv,
                AlertToldOnce, Written
  <1> QED BY <1>1, <1>2, <1>3, <1>4, <1>5, <1>6 DEF Next, Pipeline

-----------------------------------------------------------------------------
(* The theorems.                                                           *)

\* The rows have an order, and a check stays right about those it has looked at.
THEOREM MonitorInvariant == Spec => []MonitorInv
  <1> QED BY InitKeeps, NextKeeps, PTL DEF Spec

\* The variables of the monitor have their types.
THEOREM MonitorTypeCorrect == Spec => []TypeOK
  <1>1. MonitorInv => TypeOK
    BY DEF MonitorInv
  <1> QED BY MonitorInvariant, <1>1, PTL

\* An open alert has been announced once, or its one sending failed.
THEOREM AlertIsToldOnce == Spec => []AlertToldOnce
  <1>1. MonitorInv => AlertToldOnce
    BY DEF MonitorInv
  <1> QED BY MonitorInvariant, <1>1, PTL

\* The view of the dashboard and the monitor judge the latest row alike.
THEOREM ViewAndMonitorAgree == Spec => []ViewAgrees
  <1>1. ASSUME MonitorInv PROVE ViewAgrees
    <2> SUFFICES ASSUME LatestRun # NoBatch PROVE ViewAgrees
      BY DEF ViewAgrees
    <2> DEFINE row == LatestRow
               health == HealthStatus(row, now)
               kind == Verdict(LatestRun, row, now)[1]
    <2>1. /\ row \in Rows /\ now \in Nat /\ RunningTimeout \in Nat /\ StaleAfter \in Nat
          /\ row.status # "running" => row.finished # NoTime
      <3>1. LatestRun \in Written /\ row = rows[LatestRun] /\ row \in Rows
        BY <1>1, LatestIs DEF MonitorInv
      <3> QED BY <1>1, <3>1, ClockAssumption, BoundsAssumption
              DEF MonitorInv, RowsInv, TypeOK, Times
    <2>2. /\ row.status \in {"running", "success", "failed"} /\ row.started \in Nat
          /\ row.finished # NoTime => row.finished \in Nat
      BY <2>1, BoundsAssumption DEF Rows, Times
    <2>3. RunsTooLong(row, now) <=> RunsTooLongInView(row, now)
      BY <2>1, <2>2 DEF RunsTooLong, RunsTooLongInView
    <2>4. CASE row.status = "failed"
      BY <2>3, <2>4 DEF HealthStatus, Verdict, ViewAgrees, RunsTooLongInView
    <2>5. CASE row.status = "running"
      <3>1. ~IsMissing(row, now) /\ ~IsStale(row, now)
        BY <2>5 DEF IsMissing, IsStale, Ended
      <3>2. kind = IF RunsTooLong(row, now) THEN "stalled" ELSE "healthy"
        BY <2>5, <3>1 DEF Verdict, Healthy
      <3>3. health = IF RunsTooLong(row, now) THEN "critical" ELSE "healthy"
        BY <2>3, <2>5 DEF HealthStatus
      <3> QED BY <3>2, <3>3 DEF ViewAgrees
    <2>6. CASE row.status = "success"
      <3>1. IsStale(row, now) <=> now - row.finished > StaleAfter
        BY <2>1, <2>6 DEF IsStale, Ended
      <3>2. ~RunsTooLong(row, now) /\ ~RunsTooLongInView(row, now)
        BY <2>6 DEF RunsTooLong, RunsTooLongInView
      <3>3. kind = IF IsMissing(row, now) THEN "missing"
                   ELSE IF IsStale(row, now) THEN "stale" ELSE "healthy"
        BY <2>6, <3>2 DEF Verdict, Healthy
      <3>4. health = IF IsStale(row, now) THEN "warning" ELSE "healthy"
        BY <2>1, <2>6, <3>1, <3>2 DEF HealthStatus
      <3> QED BY <3>3, <3>4 DEF ViewAgrees
    <2> QED BY <2>2, <2>4, <2>5, <2>6
  <1> QED BY MonitorInvariant, <1>1, PTL

\* A run is reported missing only if there was none when the check looked.
THEOREM MissingIsMissing == Spec => MissingIsTrue
  <1> DEFINE Opens(e) == alerts[<<"missing", e>>] # "open" /\ alerts'[<<"missing", e>>] = "open"
             Absent(e) == \A b \in Written : rows[b].started >= e => rows[b].started >= lookedAt
  <1>1. ASSUME MonitorInv, [Next]_vars, NEW e \in Times, Opens(e)
        PROVE  Absent(e)
    <2>1. Judge
      BY <1>1 DEF Next, Pipeline, Check, Tick, StartRun, FallbackRow, EndRun, monitor, vars,
                  Look, Send, SendFails, AttemptFails
    <2>2. pc = "looked" /\ alerts \in [Keys -> {"none", "open", "resolved"}]
          /\ <<"missing", e>> \in Keys
      BY <1>1, <2>1 DEF Judge, MonitorInv, TypeOK, Keys
    <2>3. Verdict(seen, seenRow, now) = <<"missing", e>>
      <3>1. ~ResolveOpenAlerts
        BY <1>1, <2>2 DEF ResolveOpenAlerts
      <3>2. RecordAlert(Verdict(seen, seenRow, now))
        BY <2>1, <3>1 DEF Judge
      <3> QED BY <1>1, <2>2, <3>2 DEF RecordAlert
    <2>4. seen # NoBatch /\ seenRow.started < e
      BY <2>3, MissingVerdict
    <2>5. /\ seenRow \in Rows
          /\ \A b \in Written : rows[b].started > seenRow.started => rows[b].started >= lookedAt
      BY <1>1, <2>2, <2>4 DEF MonitorInv, LookInv
    <2>6. \A b \in Written : rows[b].started \in Nat
      BY <1>1 DEF MonitorInv, TypeOK, Written, Rows, Times
    <2>7. seenRow.started \in Nat /\ e \in Nat
      BY <2>5 DEF Rows, Times
    <2> QED BY <2>4, <2>5, <2>6, <2>7
  <1>2. MonitorInv /\ [Next]_vars => [\A e \in Times : Opens(e) => Absent(e)]_vars
    BY <1>1
  <1> QED BY MonitorInvariant, <1>2, PTL DEF Spec, MissingIsTrue

-----------------------------------------------------------------------------
(* How the alerts come to show the state of the pipeline.                  *)

\* What a check has read is still so.
LooksNow == pc = "looked" => seen = LatestRun /\ seenRow = LatestRow

\* Steps to the end of the check.
StepsLeft == CASE pc = "looked" -> 2 [] pc = "sending" -> 1 [] OTHER -> 0

\* While the pipeline and the clock rest, a check that looks sees things as they
\* are; its judgement makes the alerts show them, whatever they showed before;
\* and from then on no check, no failed webhook and no failed attempt takes them
\* away from it.  A check that has begun takes two more steps at most.
Settling ==
    [][/\ UNCHANGED pipeline =>
             /\ Look => LooksNow'
             /\ LooksNow /\ Judge => LooksNow' /\ AlertsShowVerdict'
             /\ LooksNow /\ AlertsShowVerdict => LooksNow' /\ AlertsShowVerdict'
       /\ Check => Look \/ StepsLeft' < StepsLeft]_vars

\* The verdict on the latest row rests with the pipeline.
LEMMA VerdictRests ==
    ASSUME UNCHANGED pipeline
    PROVE  /\ LatestRun' = LatestRun /\ LatestRow' = LatestRow
           /\ Verdict(LatestRun, LatestRow, now)' = Verdict(LatestRun, LatestRow, now)
  <1>1. rows' = rows /\ now' = now
    BY DEF pipeline
  <1>2. LatestRun' = LatestRun /\ LatestRow' = LatestRow
    BY <1>1 DEF LatestRun, LatestRow, Written
  <1> QED BY <1>1, <1>2

\* A judgement of what is so.
LEMMA JudgeShows ==
    ASSUME MonitorInv, LooksNow, Judge
    PROVE  LooksNow' /\ AlertsShowVerdict'
  <1> DEFINE verdict == Verdict(LatestRun, LatestRow, now)
  <1>1. UNCHANGED pipeline /\ pc = "looked"
    BY DEF Judge
  <1>2. verdict' = verdict
    BY <1>1, VerdictRests
  <1>3. verdict \in Keys \cup {Healthy}
    <2>1. now \in Times
      BY DEF MonitorInv, TypeOK
    <2> QED BY <2>1, LatestIs, VerdictIs DEF MonitorInv
  <1>4. /\ verdict = Healthy => ResolveOpenAlerts
        /\ verdict # Healthy => RecordAlert(verdict)
    BY <1>1 DEF Judge, LooksNow
  <1>5. alerts \in [Keys -> {"none", "open", "resolved"}]
    BY DEF MonitorInv, TypeOK
  <1> HIDE DEF verdict
  <1>6. CASE verdict = Healthy
    <2>1. pc' = "idle" /\ \A k \in Keys : alerts'[k] # "open"
      BY <1>4, <1>5, <1>6 DEF ResolveOpenAlerts
    <2> QED BY <1>2, <1>6, <2>1 DEF AlertsShowVerdict, LooksNow, verdict
  <1>7. CASE verdict # Healthy
    <2>1. pc' # "looked" /\ alerts'[verdict] = "open"
      BY <1>3, <1>4, <1>5, <1>7 DEF RecordAlert
    <2> QED BY <1>2, <1>7, <2>1 DEF AlertsShowVerdict, LooksNow, verdict
  <1> QED BY <1>6, <1>7

\* The alerts settle in one whole check: what AlertsSettle rests on.
THEOREM AlertsComeToRest == Spec => Settling
  <1>1. ASSUME MonitorInv, [Next]_vars
        PROVE  [/\ UNCHANGED pipeline =>
                     /\ Look => LooksNow'
                     /\ LooksNow /\ Judge => LooksNow' /\ AlertsShowVerdict'
                     /\ LooksNow /\ AlertsShowVerdict => LooksNow' /\ AlertsShowVerdict'
                /\ Check => Look \/ StepsLeft' < StepsLeft]_vars
    <2>1. SUFFICES ASSUME vars' # vars, Next
                   PROVE  /\ UNCHANGED pipeline =>
                               /\ Look => LooksNow'
                               /\ LooksNow /\ Judge => LooksNow' /\ AlertsShowVerdict'
                               /\ LooksNow /\ AlertsShowVerdict
                                      => LooksNow' /\ AlertsShowVerdict'
                          /\ Check => Look \/ StepsLeft' < StepsLeft
      BY <1>1
    <2>2. ASSUME UNCHANGED pipeline, Look
          PROVE  LooksNow'
      BY <2>2, VerdictRests DEF Look, LooksNow
    <2>3. ASSUME UNCHANGED pipeline, LooksNow, AlertsShowVerdict
          PROVE  LooksNow' /\ AlertsShowVerdict'
      <3>1. Check
        BY <2>1, <2>3 DEF Next, Pipeline, Tick, StartRun, FallbackRow, EndRun,
                          pipeline, monitor, vars
      <3>2. CASE Judge
        BY <1>1, <2>3, <3>2, JudgeShows
      <3>3. CASE Look \/ Send \/ SendFails \/ AttemptFails
        <4>1. alerts' = alerts
          BY <3>3 DEF Look, Send, SendFails, AttemptFails
        <4>2. AlertsShowVerdict'
          BY <2>3, <4>1, VerdictRests DEF AlertsShowVerdict
        <4>3. LooksNow'
          BY <2>2, <2>3, <3>3 DEF Send, SendFails, AttemptFails, LooksNow
        <4> QED BY <4>2, <4>3
      <3> QED BY <3>1, <3>2, <3>3 DEF Check
    <2>4. ASSUME Check, ~Look
          PROVE  StepsLeft' < StepsLeft
      BY <2>4 DEF Check, Judge, RecordAlert, ResolveOpenAlerts, Send, SendFails,
                  AttemptFails, StepsLeft
    <2> QED BY <1>1, <2>2, <2>3, <2>4, JudgeShows
  <1> QED BY <1>1, MonitorInvariant, PTL DEF Spec, Settling
=============================================================================
