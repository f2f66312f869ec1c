--------------------------- MODULE PipelineMonitor ---------------------------
(***************************************************************************)
(* The Airflow DAG ecommerce_pipeline_monitor: a check, every 15 minutes   *)
(* and one at a time, reads the latest orchestration row, compares it with *)
(* the clock, and opens an alert in ops.pipeline_alerts or resolves those  *)
(* that are open.  An alert that opens is sent to a webhook.  An attempt   *)
(* can fail anywhere, between recording and sending too, and is made once  *)
(* more.                                                                   *)
(*                                                                         *)
(* Time is counted in ticks: hours or any other fraction of a day.  The    *)
(* rows come from the runs of DailyPipeline; here they start and end at    *)
(* any time, more than once when a run is cleared.                         *)
(***************************************************************************)
EXTENDS Integers

CONSTANTS Batches,         \* batch_ids of pipeline runs
          NoBatch,         \* batch_id of the alert no_runs
          NoRow,           \* there is no row with this batch_id
          NoTime,          \* finished_at is null
          Day,             \* ticks of a day
          ExpectedHour,    \* MONITOR_EXPECTED_RUN_HOUR_UTC
          Grace,           \* MONITOR_EXPECTED_RUN_GRACE_MINUTES
          RunningTimeout,  \* MONITOR_RUNNING_TIMEOUT_MINUTES
          StaleAfter,      \* MONITOR_STALE_AFTER_HOURS
          Webhook,         \* is ALERT_WEBHOOK_URL set
          MaxTime,         \* bound: the last tick
          MaxWrites,       \* bound: writes of the pipeline to its rows
          MaxFaults        \* bound: attempts of a check that fail

ASSUME ClockAssumption ==
    /\ Day \in Nat \ {0}
    /\ ExpectedHour \in 0..Day - 1
    /\ Grace \in Nat /\ RunningTimeout \in Nat /\ StaleAfter \in Nat
ASSUME BoundsAssumption == MaxTime \in Nat /\ ExpectedHour <= MaxTime /\ MaxWrites \in Nat /\ MaxFaults \in Nat
ASSUME WebhookAssumption == Webhook \in BOOLEAN

Times == 0..MaxTime

\* What the pipeline writes in its row.
Rows == [status : {"running", "success", "failed"}, started : Times,
         finished : Times \cup {NoTime}, nth : 1..MaxWrites]

ASSUME NullAssumption == NoBatch \notin Batches /\ NoTime \notin Times /\ NoRow \notin Rows

\* alert_key without the pipeline's name.
Keys == ({"failed", "stalled", "stale"} \X Batches)
        \cup ({"missing"} \X Times)
        \cup {<<"no_runs", NoBatch>>}
NoKey == <<"no_runs", NoBatch>>

VARIABLES now,      \* the clock
          writes,   \* how often the pipeline has written a row
          rows,     \* rows[b]: its row in ops.pipeline_runs; nth is the rank of
                    \* its started_at, which is finer than the ticks
          alerts,   \* alerts[k]: status in ops.pipeline_alerts; "none" is no row
          pc,       \* of the check: "idle", "looked" or "sending"
          seen,     \* the batch whose row the check has read, or NoBatch
          seenRow,  \* that row
          key,      \* the alert to be sent; NoKey when there is none
          faults,   \* attempts that have failed
          told,     \* history: messages sent since the alert opened
          missed,   \* history: alerts whose sending failed since they opened
          lookedAt  \* history: when the check has read the rows

pipeline == <<now, writes, rows>>
vars == <<pipeline, alerts, pc, seen, seenRow, key, faults, told, missed, lookedAt>>

Row(status, started, finished, nth) ==
    [status |-> status, started |-> started, finished |-> finished, nth |-> nth]

\* The clock starts when the first daily run is expected.
Init ==
    /\ now = ExpectedHour
    /\ writes = 0
    /\ rows = [b \in Batches |-> NoRow]
    /\ alerts = [k \in Keys |-> "none"]
    /\ pc = "idle"
    /\ seen = NoBatch
    /\ seenRow = NoRow
    /\ key = NoKey
    /\ faults = 0
    /\ told = [k \in Keys |-> 0]
    /\ missed = {}
    /\ lookedAt = 0

-----------------------------------------------------------------------------
(* The clock and the runs of the pipeline. *)

monitor == <<alerts, pc, seen, seenRow, key, faults, told, missed, lookedAt>>

Tick ==
    /\ now < MaxTime
    /\ now' = now + 1
    /\ UNCHANGED <<writes, rows, monitor>>

\* create_pipeline_run writes a new row, or starts the row of a cleared run again.
StartRun(b) ==
    /\ writes < MaxWrites
    /\ writes' = writes + 1
    /\ rows' = [rows EXCEPT ![b] = Row("running", now, NoTime, writes + 1)]
    /\ UNCHANGED <<now, monitor>>

\* Variant: without started_at.
FallbackRowUnstarted(b) ==
    /\ writes < MaxWrites
    /\ rows[b] = NoRow
    /\ writes' = writes + 1
    /\ rows' = [rows EXCEPT ![b] = Row("failed", NoTime, now, writes + 1)]
    /\ UNCHANGED <<now, monitor>>

\* The callback of a run that has no row writes one.
FallbackRow(b) ==
    /\ writes < MaxWrites
    /\ rows[b] = NoRow
    /\ writes' = writes + 1
    /\ rows' = [rows EXCEPT ![b] = Row("failed", now, now, writes + 1)]
    /\ UNCHANGED <<now, monitor>>

\* _update_orchestration_run, of the last task or of the callback: the end of a
\* run, or another end of it.
EndRun(b, status) ==
    /\ rows[b] # NoRow
    /\ rows[b].status # status
    /\ writes < MaxWrites
    /\ writes' = writes + 1
    /\ rows' = [rows EXCEPT ![b] = Row(status, rows[b].started, now, rows[b].nth)]
    /\ UNCHANGED <<now, monitor>>

Pipeline ==
    \/ Tick
    \/ \E b \in Batches : StartRun(b) \/ FallbackRow(b)
    \/ \E b \in Batches, status \in {"success", "failed"} : EndRun(b, status)

-----------------------------------------------------------------------------
(* check_pipeline_health. *)

Written == {b \in Batches : rows[b] # NoRow}

\* Variant: the run that has ended last, or any if none has ended.
LatestFinished ==
    IF Written = {} THEN NoBatch
    ELSE LET ended == {b \in Written : rows[b].finished # NoTime}
         IN  IF ended = {} THEN CHOOSE b \in Written : TRUE
             ELSE CHOOSE b \in ended : \A c \in ended : rows[c].finished <= rows[b].finished

\* ORDER BY started_at DESC LIMIT 1.
LatestRun ==
    IF Written = {} THEN NoBatch
    ELSE CHOOSE b \in Written : \A c \in Written : rows[c].nth <= rows[b].nth

LatestRow == IF LatestRun = NoBatch THEN NoRow ELSE rows[LatestRun]

\* _expected_run_start: today's hour, or yesterday's before it.
ExpectedStart(t) ==
    t - (t % Day) + ExpectedHour - (IF t % Day < ExpectedHour THEN Day ELSE 0)

\* Variant: the timeout itself is too long.
RunsTooLongEarly(row, t) == row.status = "running" /\ t - row.started >= RunningTimeout

RunsTooLong(row, t) == row.status = "running" /\ t - row.started > RunningTimeout

\* The same limit in ops.v_pipeline_run_health.
RunsTooLongInView(row, t) == row.status = "running" /\ row.started < t - RunningTimeout

Ended(row) == row.status \in {"success", "partial"}

IsMissing(row, t) ==
    /\ Ended(row)
    /\ t >= ExpectedStart(t) + Grace
    /\ row.started < ExpectedStart(t)

IsStale(row, t) ==
    Ended(row) /\ t - (IF row.finished = NoTime THEN row.started ELSE row.finished) > StaleAfter

Healthy == <<"healthy", NoBatch>>

\* What the check makes of the latest row at time t: the key of an alert, or
\* Healthy.
Verdict(b, row, t) ==
    IF b = NoBatch THEN <<"no_runs", NoBatch>>
    ELSE IF row.status = "failed" THEN <<"failed", b>>
    ELSE IF RunsTooLong(row, t) THEN <<"stalled", b>>
    ELSE IF IsMissing(row, t) THEN <<"missing", ExpectedStart(t)>>
    ELSE IF IsStale(row, t) THEN <<"stale", b>> ELSE Healthy

\* A check reads the latest row; so does the retry of one whose attempt has failed.
Look ==
    /\ pc = "idle"
    /\ seen' = LatestRun
    /\ seenRow' = LatestRow
    /\ lookedAt' = now
    /\ pc' = "looked"
    /\ UNCHANGED <<pipeline, alerts, key, faults, told, missed>>

\* Variant: an alert is sent when its key is new.
NotifiesOnNewKey(k) == alerts[k] = "none"

\* _record_alert returns occurrence_count = 1: the row is new or was resolved.
Notifies(k) == alerts[k] # "open"

\* _record_alert, committed before anything is sent.
RecordAlert(k) ==
    /\ alerts' = [alerts EXCEPT ![k] = "open"]
    /\ IF Notifies(k) THEN key' = k /\ pc' = "sending" ELSE pc' = "idle" /\ UNCHANGED key
    /\ UNCHANGED <<told, missed>>

\* _resolve_open_alerts.
ResolveOpenAlerts ==
    /\ alerts' = [k \in Keys |-> IF alerts[k] = "open" THEN "resolved" ELSE alerts[k]]
    /\ told' = [k \in Keys |-> 0]
    /\ missed' = {}
    /\ pc' = "idle"
    /\ UNCHANGED key

\* What was read is gone with the end of the attempt.
ForgetRow ==
    /\ seen' = NoBatch
    /\ seenRow' = NoRow
    /\ lookedAt' = 0

\* Variant: a run that is running is taken for healthy, however long.
JudgeEndedOnly ==
    /\ pc = "looked"
    /\ LET verdict == Verdict(seen, seenRow, now)
       IN  IF verdict[1] \in {"healthy", "stalled"}
           THEN ResolveOpenAlerts ELSE RecordAlert(verdict)
    /\ ForgetRow
    /\ UNCHANGED <<pipeline, faults>>

\* The clock is read after the row; then the verdict is recorded.
Judge ==
    /\ pc = "looked"
    /\ LET verdict == Verdict(seen, seenRow, now)
       IN  IF verdict = Healthy THEN ResolveOpenAlerts ELSE RecordAlert(verdict)
    /\ ForgetRow
    /\ UNCHANGED <<pipeline, faults>>

Messages == IF Webhook THEN 1 ELSE 0

\* _send_webhook_alert; without a webhook it only writes to the log.
Send ==
    /\ pc = "sending"
    /\ told' = [told EXCEPT ![key] = told[key] + Messages]
    /\ key' = NoKey
    /\ pc' = "idle"
    /\ UNCHANGED <<pipeline, alerts, seen, seenRow, faults, missed, lookedAt>>

\* The webhook does not answer in time, or the attempt is killed: the message may
\* have arrived or not.
SendFails ==
    /\ pc = "sending"
    /\ faults < MaxFaults
    /\ faults' = faults + 1
    /\ \E arrived \in 0..Messages : told' = [told EXCEPT ![key] = told[key] + arrived]
    /\ missed' = missed \cup {key}
    /\ key' = NoKey
    /\ pc' = "idle"
    /\ UNCHANGED <<pipeline, alerts, seen, seenRow, lookedAt>>

\* The database is away, or the attempt is killed, before the alert is recorded.
AttemptFails ==
    /\ pc = "looked"
    /\ faults < MaxFaults
    /\ faults' = faults + 1
    /\ pc' = "idle"
    /\ ForgetRow
    /\ UNCHANGED <<pipeline, alerts, key, told, missed>>

Check == Look \/ Judge \/ Send \/ SendFails \/ AttemptFails

Next == Pipeline \/ Check

\* The schedule starts a check again and again, and a check goes on to its end.
Spec == Init /\ [][Next]_vars /\ WF_vars(Check)

-----------------------------------------------------------------------------
(* The view ops.v_pipeline_run_health on the same row; its fixed limits, 120  *)
(* minutes and 26 hours, are the defaults of the monitor's settings.          *)

HealthStatus(row, t) ==
    CASE row.status = "failed"  -> "critical"
      [] RunsTooLongInView(row, t) -> "critical"
      [] row.status = "partial" -> "warning"
      [] row.status = "success" /\ row.finished # NoTime /\ t - row.finished > StaleAfter
                                -> "warning"
      [] OTHER                  -> "healthy"

-----------------------------------------------------------------------------
\* The variables have their types.
TypeOK ==
    /\ now \in Times
    /\ writes \in 0..MaxWrites
    /\ rows \in [Batches -> Rows \cup {NoRow}]
    /\ alerts \in [Keys -> {"none", "open", "resolved"}]
    /\ pc \in {"idle", "looked", "sending"}
    /\ seen \in Batches \cup {NoBatch}
    /\ seenRow \in Rows \cup {NoRow}
    /\ key \in Keys
    /\ faults \in 0..MaxFaults
    /\ told \in [Keys -> Nat]
    /\ missed \in SUBSET Keys
    /\ lookedAt \in 0..now

\* An alert is announced once in the time it is open, however many checks find it
\* again: never twice, and it stays unannounced only if its one sending failed.
AlertToldOnce ==
    /\ \A k \in Keys : told[k] <= 1
    /\ Webhook => \A k \in Keys :
           alerts[k] = "open" /\ ~(pc = "sending" /\ key = k) => told[k] = 1 \/ k \in missed

\* The daily run is reported missing only when none had started since the hour it
\* was expected: a run that is there may at most have started since the check
\* read the rows.
MissingIsTrue ==
    [][\A e \in Times :
           alerts[<<"missing", e>>] # "open" /\ alerts'[<<"missing", e>>] = "open" =>
               \A b \in Written : rows[b].started >= e => rows[b].started >= lookedAt]_vars

\* The dashboard's view and the monitor judge the latest row alike: what is
\* critical in the view raises an alert for that run, a warning raises one too,
\* and the monitor calls a run stale only if the view warns of it.
ViewAgrees ==
    LatestRun # NoBatch =>
        LET health == HealthStatus(LatestRow, now)
            kind == Verdict(LatestRun, LatestRow, now)[1]
        IN  /\ health = "critical" <=> kind \in {"failed", "stalled"}
            /\ health = "warning" => kind \in {"stale", "missing"}
            /\ kind = "stale" => health = "warning"

\* The alert of the present verdict is open, or none is when there is no trouble.
AlertsShowVerdict ==
    LET verdict == Verdict(LatestRun, LatestRow, now)
    IN  IF verdict = Healthy
        THEN \A k \in Keys : alerts[k] # "open"
        ELSE alerts[verdict] = "open"

\* Trouble that lasts is noticed and health that lasts closes the alerts, whatever
\* a check had read before and whichever attempt failed: once the rows and the
\* clock's verdict on them rest, the alerts come to show it and stay so.
AlertsSettle == <>[][FALSE]_pipeline => <>[]AlertsShowVerdict

\* docs/operations-runbook.md:106, "The monitor does not use an old successful row
\* as proof that a new daily run happened": the alert of a missing run is closed
\* only when a run has started since it was expected.
OldRowIsNoProof ==
    [][\A e \in Times :
           alerts[<<"missing", e>>] = "open" /\ alerts'[<<"missing", e>>] # "open" =>
               \E b \in Written : rows[b].started >= e]_vars
=============================================================================
