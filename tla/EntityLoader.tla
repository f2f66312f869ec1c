---------------------------- MODULE EntityLoader ----------------------------
(***************************************************************************)
(* load_entity (loader.py): one validated feed of one entity is written to *)
(* its raw table in one transaction.  Several processes may load the same  *)
(* entity at once (the daily DAG, the command line, a retry whose first    *)
(* attempt is still alive), each in its own READ COMMITTED transaction.    *)
(*                                                                         *)
(* A statement of the code is an action.  PostgreSQL is modelled by what   *)
(* the loader relies on: a statement reads the last committed version of a *)
(* row or the transaction's own, a written row stays locked until the      *)
(* transaction ends, a deadlock is broken by failing the statement of one  *)
(* of its members, and nothing of a transaction is seen before it commits. *)
(***************************************************************************)
EXTENDS Naturals, Sequences, FiniteSets

CONSTANTS Procs,    \* processes that run load_entity for this entity
          Ids,      \* positive source ids
          Values,   \* business values, as far as record_hash tells them apart
          Feeds,    \* validation results a load may be called with
          NoRow,    \* fetchone() gave None: no row has the id
          NoWrite,  \* this transaction has not written the row
          NoId,     \* source_record_id is None or int() refuses it
          NoProc,   \* nobody holds the row's lock
          CanDisconnect  \* may the connection to the database be lost

Row == [value : Values, active : BOOLEAN]

\* A record that passed validation.  "fits": the table's types and CHECKs accept
\* it; "storable": its payload can be stored as jsonb at all (U+0000 cannot).
Record == [id : Ids, value : Values, fits : BOOLEAN, storable : BOOLEAN]

\* A record that validation refused, with the id it could be told by.
Issue == [id : Ids \cup {NoId}, storable : BOOLEAN]

Feed == [valid : Seq(Record), rejected : Seq(Issue)]

ASSUME FeedsAssumption == Feeds \subseteq Feed

ASSUME MarksAssumption == /\ NoRow \notin Row
                          /\ NoWrite \notin Row
                          /\ NoProc \notin Procs
                          /\ NoId \notin Ids

ASSUME DisconnectAssumption == CanDisconnect \in BOOLEAN

VARIABLES rows,      \* the committed table: [Ids -> Row or NoRow]
          owner,     \* who holds the row lock of an id
          pc,        \* where each process is in load_entity
          feed,      \* the "result" argument of the call
          pos,       \* how many entries of the feed are dealt with
          existing,  \* what SELECT_EXISTING_SQL returned for the current record
          pend,      \* the transaction's uncommitted versions of the rows
          held,      \* entries this load has put into ops.rejected_records
          todo,      \* rows the running DEACTIVATE_SQL has still to visit
          stats,     \* LoadStats
          result     \* how the process's last call ended

vars == <<rows, owner, pc, feed, pos, existing, pend, held, todo, stats, result>>

-----------------------------------------------------------------------------
(* The data of a call.                                                     *)

\* Entries are numbered in the order the code meets them: the issues, then the
\* valid records.
Total(f) == Len(f.rejected) + Len(f.valid)
IsIssue(f, k) == k <= Len(f.rejected)
Entry(f, k) == IF IsIssue(f, k) THEN f.rejected[k]
                                ELSE f.valid[k - Len(f.rejected)]

\* Variant: only the valid records are observed.
ObservedValid(f) == {i \in Ids : \E k \in 1..Len(f.valid) : f.valid[k].id = i}

\* record_observed_ids
Observed(f) == {i \in Ids : \E k \in 1..Total(f) : Entry(f, k).id = i}

LoadStats == [inserted : Nat, updated : Nat, rejected : Nat,
              unchanged : Nat, deactivated : Nat]

NoStats == [inserted |-> 0, updated |-> 0, rejected |-> 0,
            unchanged |-> 0, deactivated |-> 0]

\* successfully_loaded
Loaded(s) == s.inserted + s.updated + s.unchanged

NoWrites == [i \in Ids |-> NoWrite]
NoFeed == [valid |-> <<>>, rejected |-> <<>>]

\* The table as transaction writes "w" over committed rows "t" would leave it.
Merge(t, w) == [i \in Ids |-> IF w[i] = NoWrite THEN t[i] ELSE w[i]]

\* What a statement of p reads: committed rows under its own writes.
Visible(p) == Merge(rows, pend[p])

\* UPSERT_SQL: whatever the row was, it takes the record's values and is active.
UpsertedRow(r) == [value |-> r.value, active |-> TRUE]

\* DEACTIVATE_SQL: only is_active changes.
DeactivatedRow(old) == [value |-> old.value, active |-> FALSE]

IsActive(t, i) == t[i] # NoRow /\ t[i].active
Active(t) == {i \in Ids : IsActive(t, i)}

Current(p) == Entry(feed[p], pos[p] + 1)

-----------------------------------------------------------------------------
(* Row locks.                                                              *)

LockFree(p, i) == owner[i] \in {p, NoProc}

\* The rows p's running statement may be waiting for.  The scan of an UPDATE
\* meets the rows in no particular order.
Wants(p) == CASE pc[p] = "upsert" -> {Current(p).id}
              [] pc[p] = "deactivate" -> todo[p]
              [] OTHER -> {}

WaitsFor(p, q) == p # q /\ \E i \in Wants(p) : owner[i] = q

\* p is on a cycle of waiting processes.
Deadlocked(p) ==
    \E S \in SUBSET Procs :
        /\ p \in S
        /\ \E f \in [S -> S] : /\ \A q \in S : WaitsFor(q, f[q])
                               /\ \A q, r \in S : f[q] = f[r] => q = r

-----------------------------------------------------------------------------
Init ==
    /\ rows = [i \in Ids |-> NoRow]
    /\ owner = [i \in Ids |-> NoProc]
    /\ pc = [p \in Procs |-> "idle"]
    /\ feed = [p \in Procs |-> NoFeed]
    /\ pos = [p \in Procs |-> 0]
    /\ existing = [p \in Procs |-> NoRow]
    /\ pend = [p \in Procs |-> NoWrites]
    /\ held = [p \in Procs |-> {}]
    /\ todo = [p \in Procs |-> {}]
    /\ stats = [p \in Procs |-> NoStats]
    /\ result = [p \in Procs |-> "none"]

\* load_entity is called and opens its transaction.
Begin(p) ==
    /\ pc[p] = "idle"
    /\ \E f \in Feeds : feed' = [feed EXCEPT ![p] = f]
    /\ pc' = [pc EXCEPT ![p] = "load"]
    /\ result' = [result EXCEPT ![p] = "none"]
    /\ UNCHANGED <<rows, owner, pos, existing, pend, held, todo, stats>>

\* The current entry "k" is put into ops.rejected_records and the loop moves on.
Quarantine(p, k) ==
    /\ held' = [held EXCEPT ![p] = @ \cup {k}]
    /\ stats' = [stats EXCEPT ![p].rejected = @ + 1]
    /\ pos' = [pos EXCEPT ![p] = k]
    /\ pc' = [pc EXCEPT ![p] = "load"]
    /\ existing' = [existing EXCEPT ![p] = NoRow]
    /\ UNCHANGED <<rows, owner, feed, pend, todo, result>>

\* Variant: the counter moves but the quarantine row is forgotten.
RejectSilently(p) ==
    /\ stats' = [stats EXCEPT ![p].rejected = @ + 1]
    /\ pos' = [pos EXCEPT ![p] = @ + 1]
    /\ pc' = [pc EXCEPT ![p] = "load"]
    /\ existing' = [existing EXCEPT ![p] = NoRow]
    /\ UNCHANGED <<rows, owner, feed, pend, held, todo, result>>

\* Variant: the entry after the refused one is skipped.
RejectAndSkip(p) == Current(p).storable /\ Quarantine(p, pos[p] + 2)

\* insert_rejected_record, then stats.rejected += 1.
Reject(p) == Current(p).storable /\ Quarantine(p, pos[p] + 1)

\* The loop over result.rejected.
QuarantineIssue(p) ==
    /\ pc[p] = "load"
    /\ pos[p] < Len(feed[p].rejected)
    /\ Reject(p)

\* The loop over result.valid: SELECT_EXISTING_SQL for the next record.
SelectExisting(p) ==
    /\ pc[p] = "load"
    /\ pos[p] >= Len(feed[p].rejected)
    /\ pos[p] < Total(feed[p])
    /\ existing' = [existing EXCEPT ![p] = Visible(p)[Current(p).id]]
    /\ pc' = [pc EXCEPT ![p] = "upsert"]
    /\ UNCHANGED <<rows, owner, feed, pos, pend, held, todo, stats, result>>

\* Variant: the hash alone decides, is_active is not looked at.
CountByHash(s, old, new) ==
    CASE old = NoRow -> [s EXCEPT !.inserted = @ + 1]
      [] old # NoRow /\ old.value # new -> [s EXCEPT !.updated = @ + 1]
      [] OTHER -> [s EXCEPT !.unchanged = @ + 1]

\* The counter the code bumps for a record it has upserted, judged by the row
\* "old" that it had read before.
CountLoaded(s, old, new) ==
    CASE old = NoRow -> [s EXCEPT !.inserted = @ + 1]
      [] old # NoRow /\ (old.value # new \/ ~old.active) ->
             [s EXCEPT !.updated = @ + 1]
      [] OTHER -> [s EXCEPT !.unchanged = @ + 1]

\* Variant: the statement commits by itself.
UpsertAutocommits(p) ==
    LET r == Current(p) IN
    /\ pc[p] = "upsert"
    /\ r.fits /\ r.storable
    /\ LockFree(p, r.id)
    /\ rows' = [rows EXCEPT ![r.id] = UpsertedRow(r)]
    /\ stats' = [stats EXCEPT ![p] = CountLoaded(@, existing[p], r.value)]
    /\ pos' = [pos EXCEPT ![p] = @ + 1]
    /\ pc' = [pc EXCEPT ![p] = "load"]
    /\ existing' = [existing EXCEPT ![p] = NoRow]
    /\ UNCHANGED <<owner, feed, pend, held, todo, result>>

\* Variant: ON CONFLICT DO UPDATE leaves is_active as it was.
UpsertLeavesInactive(p) ==
    LET r == Current(p)
        old == Visible(p)[r.id]
    IN
    /\ pc[p] = "upsert"
    /\ r.fits /\ r.storable
    /\ LockFree(p, r.id)
    /\ owner' = [owner EXCEPT ![r.id] = p]
    /\ pend' = [pend EXCEPT ![p][r.id] =
                   [value |-> r.value, active |-> old = NoRow \/ old.active]]
    /\ stats' = [stats EXCEPT ![p] = CountLoaded(@, existing[p], r.value)]
    /\ pos' = [pos EXCEPT ![p] = @ + 1]
    /\ pc' = [pc EXCEPT ![p] = "load"]
    /\ existing' = [existing EXCEPT ![p] = NoRow]
    /\ UNCHANGED <<rows, feed, held, todo, result>>

\* UPSERT_SQL in its savepoint succeeds: the row is locked, takes the record's
\* value and is active.
Upsert(p) ==
    LET r == Current(p) IN
    /\ pc[p] = "upsert"
    /\ r.fits /\ r.storable
    /\ LockFree(p, r.id)
    /\ owner' = [owner EXCEPT ![r.id] = p]
    /\ pend' = [pend EXCEPT ![p][r.id] = UpsertedRow(r)]
    /\ stats' = [stats EXCEPT ![p] = CountLoaded(@, existing[p], r.value)]
    /\ pos' = [pos EXCEPT ![p] = @ + 1]
    /\ pc' = [pc EXCEPT ![p] = "load"]
    /\ existing' = [existing EXCEPT ![p] = NoRow]
    /\ UNCHANGED <<rows, feed, held, todo, result>>

\* Variant: the record is tried again for as long as the statement raises.
UpsertRetried(p) ==
    /\ pc[p] = "upsert"
    /\ ~Current(p).fits \/ Deadlocked(p)
    /\ pc' = [pc EXCEPT ![p] = "load"]
    /\ UNCHANGED <<rows, owner, feed, pos, existing, pend, held, todo, stats, result>>

\* UPSERT_SQL raises psycopg.Error (a constraint, or p is the deadlock's
\* victim); its savepoint is undone and the record is quarantined instead.
UpsertRefused(p) ==
    /\ pc[p] = "upsert"
    /\ ~Current(p).fits \/ Deadlocked(p)
    /\ Reject(p)

\* Variant: the rows missing from the feed go even if nothing was loaded.
StartDeactivationAnyway(p) ==
    /\ pc[p] = "load"
    /\ pos[p] = Total(feed[p])
    /\ todo' = [todo EXCEPT ![p] = Active(Visible(p)) \ Observed(feed[p])]
    /\ pc' = [pc EXCEPT ![p] = "deactivate"]
    /\ UNCHANGED <<rows, owner, feed, pos, existing, pend, held, stats, result>>

\* DEACTIVATE_SQL takes its snapshot; it runs only if a record was loaded.
StartDeactivation(p) ==
    /\ pc[p] = "load"
    /\ pos[p] = Total(feed[p])
    /\ Loaded(stats[p]) > 0
    /\ Observed(feed[p]) # {}
    /\ todo' = [todo EXCEPT ![p] = Active(Visible(p)) \ Observed(feed[p])]
    /\ pc' = [pc EXCEPT ![p] = "deactivate"]
    /\ UNCHANGED <<rows, owner, feed, pos, existing, pend, held, stats, result>>

\* Variant: the row is judged by the snapshot, not by the version found.
DeactivateRowUnchecked(p, i) ==
    /\ pc[p] = "deactivate"
    /\ i \in todo[p]
    /\ LockFree(p, i)
    /\ owner' = [owner EXCEPT ![i] = p]
    /\ todo' = [todo EXCEPT ![p] = @ \ {i}]
    /\ pend' = [pend EXCEPT ![p][i] = DeactivatedRow(Visible(p)[i])]
    /\ stats' = [stats EXCEPT ![p].deactivated = @ + 1]
    /\ UNCHANGED <<rows, pc, feed, pos, existing, held, result>>

\* DEACTIVATE_SQL reaches row i and locks it.  The WHERE clause is evaluated
\* again on the version it finds; a row it no longer matches stays as it is.
DeactivateRow(p, i) ==
    /\ pc[p] = "deactivate"
    /\ i \in todo[p]
    /\ LockFree(p, i)
    /\ owner' = [owner EXCEPT ![i] = p]
    /\ todo' = [todo EXCEPT ![p] = @ \ {i}]
    /\ IF IsActive(Visible(p), i)
       THEN /\ pend' = [pend EXCEPT ![p][i] = DeactivatedRow(Visible(p)[i])]
            /\ stats' = [stats EXCEPT ![p].deactivated = @ + 1]
       ELSE UNCHANGED <<pend, stats>>
    /\ UNCHANGED <<rows, pc, feed, pos, existing, held, result>>

\* The end of the "with" block.
ReadyToCommit(p) ==
    \/ /\ pc[p] = "load"
       /\ pos[p] = Total(feed[p])
       /\ Loaded(stats[p]) = 0 \/ Observed(feed[p]) = {}
    \/ /\ pc[p] = "deactivate"
       /\ todo[p] = {}

\* Variant: a failed transaction is left open and keeps its row locks.
EndCallLeaks(p, how) ==
    /\ owner' = [i \in Ids |-> IF how = "ok" /\ owner[i] = p THEN NoProc
                                                         ELSE owner[i]]
    /\ pc' = [pc EXCEPT ![p] = "idle"]
    /\ feed' = [feed EXCEPT ![p] = NoFeed]
    /\ pos' = [pos EXCEPT ![p] = 0]
    /\ existing' = [existing EXCEPT ![p] = NoRow]
    /\ pend' = [pend EXCEPT ![p] = NoWrites]
    /\ held' = [held EXCEPT ![p] = {}]
    /\ todo' = [todo EXCEPT ![p] = {}]
    /\ stats' = [stats EXCEPT ![p] = NoStats]
    /\ result' = [result EXCEPT ![p] = how]

\* The transaction is over, its locks are released and load_entity is left.
EndCall(p, how) ==
    /\ owner' = [i \in Ids |-> IF owner[i] = p THEN NoProc ELSE owner[i]]
    /\ pc' = [pc EXCEPT ![p] = "idle"]
    /\ feed' = [feed EXCEPT ![p] = NoFeed]
    /\ pos' = [pos EXCEPT ![p] = 0]
    /\ existing' = [existing EXCEPT ![p] = NoRow]
    /\ pend' = [pend EXCEPT ![p] = NoWrites]
    /\ held' = [held EXCEPT ![p] = {}]
    /\ todo' = [todo EXCEPT ![p] = {}]
    /\ stats' = [stats EXCEPT ![p] = NoStats]
    /\ result' = [result EXCEPT ![p] = how]

\* COMMIT succeeds; load_entity returns stats[p], and held[p] stays in
\* ops.rejected_records.
Commit(p) ==
    /\ ReadyToCommit(p)
    /\ rows' = Visible(p)
    /\ EndCall(p, "ok")

\* COMMIT succeeds but its answer is lost: the caller sees an exception.
CommitUnacknowledged(p) ==
    /\ CanDisconnect
    /\ ReadyToCommit(p)
    /\ rows' = Visible(p)
    /\ EndCall(p, "error")

\* An exception leaves the "with" block: PostgreSQL undoes the transaction.
Rollback(p) ==
    /\ UNCHANGED rows
    /\ EndCall(p, "error")

\* The payload cannot be stored in ops.rejected_records either: the quarantine
\* statement itself raises, outside any savepoint.
QuarantineFails(p) ==
    /\ \/ pc[p] = "load" /\ pos[p] < Len(feed[p].rejected)
       \/ pc[p] = "upsert"
    /\ ~Current(p).storable
    /\ Rollback(p)

\* DEACTIVATE_SQL is the deadlock's victim.
DeactivationVictim(p) ==
    /\ pc[p] = "deactivate"
    /\ Deadlocked(p)
    /\ Rollback(p)

\* The connection, or the process, is lost at any point of the transaction.
Disconnect(p) ==
    /\ CanDisconnect
    /\ pc[p] # "idle"
    /\ Rollback(p)

\* The steps the process takes by itself once the call has begun.
Step(p) ==
    \/ QuarantineIssue(p)
    \/ SelectExisting(p)
    \/ Upsert(p)
    \/ UpsertRefused(p)
    \/ StartDeactivation(p)
    \/ \E i \in Ids : DeactivateRow(p, i)
    \/ Commit(p)
    \/ QuarantineFails(p)
    \/ DeactivationVictim(p)

Next == \E p \in Procs : \/ Begin(p)
                         \/ Step(p)
                         \/ CommitUnacknowledged(p)
                         \/ Disconnect(p)

Spec == Init /\ [][Next]_vars

\* PostgreSQL queues the waiters of a row lock, so a waiter is not overtaken
\* for ever: strong fairness.
FairSpec == Spec /\ \A p \in Procs : SF_vars(Step(p))

-----------------------------------------------------------------------------
(* How far a call is from its end.                                         *)

\* p's statement can go on with no row it is at: others hold the locks.
Waiting(p) == /\ Wants(p) # {}
              /\ \A i \in Wants(p) : ~LockFree(p, i)
              /\ pc[p] = "upsert" => Current(p).fits /\ Current(p).storable

\* At most how many steps p's call has still to take: a lookup and a write for
\* every entry left, a visit to every row to be deactivated, the commit.
StepsLeft(p) ==
    LET entries == 2 * (Total(feed[p]) - pos[p]) IN
    CASE pc[p] = "load" -> entries + Cardinality(Ids) + 2
      [] pc[p] = "upsert" -> entries + Cardinality(Ids) + 1
      [] pc[p] = "deactivate" -> Cardinality(todo[p]) + 1
      [] OTHER -> 0

-----------------------------------------------------------------------------
(* Properties.                                                             *)

\* Type invariant.
TypeOK ==
    /\ rows \in [Ids -> Row \cup {NoRow}]
    /\ owner \in [Ids -> Procs \cup {NoProc}]
    /\ pc \in [Procs -> {"idle", "load", "upsert", "deactivate"}]
    /\ feed \in [Procs -> Feed]
    /\ pos \in [Procs -> Nat]
    /\ \A p \in Procs : pos[p] <= Total(feed[p])
    /\ existing \in [Procs -> Row \cup {NoRow}]
    /\ pend \in [Procs -> [Ids -> Row \cup {NoWrite}]]
    /\ held \in [Procs -> SUBSET Nat]
    /\ todo \in [Procs -> SUBSET Ids]
    /\ stats \in [Procs -> LoadStats]
    /\ result \in [Procs -> {"none", "ok", "error"}]

\* A load never empties the active catalogue: an empty or refused feed, or two
\* loads that deactivate each other's rows, leave some row active (the guard
\* before DEACTIVATE_SQL and the comment above it).
NeverEmptied == [][Active(rows) # {} => Active(rows') # {}]_vars

\* Every entry of a committed load is accounted for: it is in quarantine, or it
\* is a record whose id is active with the value of the last record loaded for
\* it; and the counters the audit row will show add up to the feed.
EveryEntryAccounted ==
    [][\A p \in Procs : Commit(p) =>
        LET loaded == 1..Total(feed[p]) \ held[p]
            Id(k) == Entry(feed[p], k).id
        IN /\ \A k \in loaded : ~IsIssue(feed[p], k)
           /\ \A k \in loaded : (\A j \in loaded : Id(j) = Id(k) => j <= k) =>
                 rows'[Id(k)] = UpsertedRow(Entry(feed[p], k))
           /\ Cardinality(held[p]) = stats[p].rejected
           /\ Loaded(stats[p]) + stats[p].rejected = Total(feed[p])]_vars

\* The counters bracket what the commit does to the table, other loads running
\* or not: every row it creates is counted as inserted (a row read as absent may
\* have been created by another load meanwhile, never the reverse) and
\* "deactivated" is exactly the number of rows that leave the catalogue.
CountersBracketEffect ==
    [][\A p \in Procs : Commit(p) =>
        /\ Cardinality({i \in Ids : rows[i] = NoRow /\ rows'[i] # NoRow})
               <= stats[p].inserted
        /\ Cardinality(Active(rows) \ Active(rows')) = stats[p].deactivated]_vars

\* With nobody else loading, a committed load leaves exactly the records it
\* upserted active, plus the rows of quarantined entries that were active before:
\* a record the source still has is not switched off for being refused.
ActiveIsTheFeed ==
    [][\A p \in Procs : Commit(p) /\ Loaded(stats[p]) > 0 =>
        Active(rows') =
            LET Id(k) == Entry(feed[p], k).id IN
            {Id(k) : k \in 1..Total(feed[p]) \ held[p]}
              \cup (Active(rows) \cap {Id(k) : k \in held[p]})]_vars

\* With nobody else loading, the counters tell the truth to the record: rows
\* counted as inserted are new, and a load that reports only "unchanged" (and
\* rejected) records leaves the table as it was.
CountersExact ==
    [][\A p \in Procs : Commit(p) =>
        /\ stats[p].inserted =
               Cardinality({i \in Ids : rows[i] = NoRow /\ rows'[i] # NoRow})
        /\ stats[p].inserted + stats[p].updated + stats[p].deactivated = 0
               => rows' = rows]_vars

\* The loads of one entity, however interleaved, act on the table as whole
\* loads that keep the promise of CatalogContract.
Contract == INSTANCE CatalogContract
            WITH rows <- rows, Ids <- Ids, Values <- Values, NoRow <- NoRow
ImplementsContract == Contract!Spec

\* A load is to its table what IngestionRun's LoadLands takes it for, however
\* many of them overlap: only a commit, acknowledged or not, changes the table,
\* and after it the table has active rows exactly if it had some before or the
\* load counts a record as loaded.
LoadsFillTable ==
    [][/\ \A p \in Procs : Commit(p) \/ CommitUnacknowledged(p) =>
             (Active(rows') # {} <=> Active(rows) # {} \/ Loaded(stats[p]) > 0)
       /\ rows' # rows =>
             \E p \in Procs : Commit(p) \/ CommitUnacknowledged(p)]_vars

\* No set of loads is stuck: if all of them wait for row locks, one is on a
\* cycle, which PostgreSQL breaks, or waits for a load outside the set that is
\* still running.  A lock is never waited for whose holder is gone (the "with"
\* block ends every transaction, however load_entity is left).
NobodyStuck ==
    \A S \in SUBSET Procs :
        S # {} /\ (\A p \in S : Waiting(p)) =>
            \/ \E p \in S : Deadlocked(p)
            \/ \E p \in S, q \in Procs \ S : WaitsFor(p, q) /\ pc[q] # "idle"

\* Every step of a load brings its own end nearer and takes no other load away
\* from its end: a refused record is not tried again, and the rows a running
\* DEACTIVATE_SQL has to visit do not grow while others insert and activate.
LoadProgress ==
    [][\A p \in Procs :
         /\ pc[p] # "idle" => StepsLeft(p)' <= StepsLeft(p)
         /\ Step(p) => StepsLeft(p)' < StepsLeft(p)]_vars

\* Every call of load_entity ends, lock waits and deadlocks included.
LoadEnds == \A p \in Procs : pc[p] # "idle" ~> pc[p] = "idle"

\* A record that validation rejected reaches the quarantine table by the time
\* its load has ended: docs/data-model.md calls ops.rejected_records "the
\* quarantine path rather than a silent drop".
RejectedIsQuarantined ==
    [][\A p \in Procs : pc[p] # "idle" /\ pc'[p] = "idle" =>
        1..Len(feed[p].rejected) \subseteq
            (IF result'[p] = "ok" THEN held[p] ELSE {})]_vars
=============================================================================
