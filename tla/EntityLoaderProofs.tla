------------------------ MODULE EntityLoaderProofs -------------------------
(***************************************************************************)
(* Theorems about EntityLoader for any number of processes, ids, values    *)
(* and feeds.  TypeOK and the safety properties are not inductive: the     *)
(* invariant below adds what a transaction has done so far and what its    *)
(* row locks protect.                                                      *)
(***************************************************************************)
EXTENDS EntityLoader, FiniteSetTheorems, TLAPS

-----------------------------------------------------------------------------
(* The inductive invariant.                                                *)

\* Where p is in load_entity, told by the rest of its state.
Place(p) ==
    /\ pc[p] = "idle" => /\ pend[p] = NoWrites
                         /\ held[p] = {}
                         /\ todo[p] = {}
                         /\ pos[p] = 0
                         /\ stats[p] = NoStats
    /\ pc[p] = "upsert" => /\ pos[p] >= Len(feed[p].rejected)
                           /\ pos[p] < Total(feed[p])
    /\ pc[p] = "deactivate" => /\ pos[p] = Total(feed[p])
                               /\ Loaded(stats[p]) > 0

\* A row is written only under its lock.
Locked(p) == \A i \in Ids : pend[p][i] # NoWrite => owner[i] = p

\* A row p has written is active and in p's feed, or is an active committed row
\* that p takes out of the catalogue as it is, p having loaded something.
Writes(p) ==
    /\ todo[p] \cap Observed(feed[p]) = {}
    /\ \A i \in Ids : pend[p][i] # NoWrite =>
          \/ /\ pend[p][i].active
             /\ i \in Observed(feed[p])
          \/ /\ pend[p][i] = [value |-> rows[i].value, active |-> FALSE]
             /\ IsActive(rows, i)
             /\ i \notin Observed(feed[p])
             /\ Loaded(stats[p]) > 0

\* What p counts as loaded is there, active, in its transaction.
Activates(p) ==
    Loaded(stats[p]) > 0 =>
        \E i \in Ids : pend[p][i] # NoWrite /\ pend[p][i].active

LoaderInv ==
    /\ TypeOK
    /\ \A p \in Procs : Place(p) /\ Locked(p) /\ Writes(p) /\ Activates(p)

-----------------------------------------------------------------------------
(* The data of a call.                                                     *)

\* The lengths of a feed and of its two lists are natural numbers.
LEMMA FeedLengths ==
    ASSUME NEW f \in Feed
    PROVE  /\ Len(f.rejected) \in Nat
           /\ Len(f.valid) \in Nat
           /\ Total(f) \in Nat
           /\ Len(f.rejected) <= Total(f)
  <1>1. f.valid \in Seq(Record) /\ f.rejected \in Seq(Issue)
    BY DEF Feed
  <1>2. Len(f.valid) \in Nat /\ Len(f.rejected) \in Nat
    BY <1>1
  <1>3. Total(f) \in Nat /\ Len(f.rejected) <= Total(f)
    BY <1>1, <1>2 DEF Total, Feed
  <1> QED BY <1>2, <1>3

\* An entry of a feed is an issue or a record, as its number tells.
LEMMA EntryType ==
    ASSUME NEW f \in Feed, NEW k \in 1..Total(f)
    PROVE  /\ IsIssue(f, k) => Entry(f, k) \in Issue
           /\ ~IsIssue(f, k) => Entry(f, k) \in Record
           /\ Entry(f, k).id \in Ids => Entry(f, k).id \in Observed(f)
  <1>1. f.valid \in Seq(Record) /\ f.rejected \in Seq(Issue)
    BY DEF Feed
  <1>2. Len(f.valid) \in Nat /\ Len(f.rejected) \in Nat
    BY FeedLengths
  <1>3. ASSUME IsIssue(f, k) PROVE Entry(f, k) \in Issue
    BY <1>1, <1>2, <1>3 DEF IsIssue, Entry, Total
  <1>4. ASSUME ~IsIssue(f, k) PROVE Entry(f, k) \in Record
    <2>1. k - Len(f.rejected) \in 1..Len(f.valid)
      BY <1>1, <1>2, <1>4, SMT DEF IsIssue, Total, Feed
    <2> QED BY <1>1, <1>4, <2>1 DEF Entry
  <1>5. Entry(f, k).id \in Ids => Entry(f, k).id \in Observed(f)
    BY DEF Observed
  <1> QED BY <1>3, <1>4, <1>5

\* A record upserted is counted once, under one of the three counters.
LEMMA CountLoadedOne ==
    ASSUME NEW s \in LoadStats, NEW old, NEW new
    PROVE  /\ CountLoaded(s, old, new) \in LoadStats
           /\ Loaded(CountLoaded(s, old, new)) = Loaded(s) + 1
           /\ CountLoaded(s, old, new).rejected = s.rejected
  <1> DEFINE c == CountLoaded(s, old, new)
  <1>1. \/ c = [s EXCEPT !.inserted = @ + 1]
        \/ c = [s EXCEPT !.updated = @ + 1]
        \/ c = [s EXCEPT !.unchanged = @ + 1]
    <2>1. CASE old = NoRow
      BY <2>1 DEF CountLoaded
    <2>2. CASE old # NoRow /\ (old.value # new \/ ~old.active)
      BY <2>2 DEF CountLoaded
    <2>3. CASE old # NoRow /\ ~(old.value # new \/ ~old.active)
      BY <2>3 DEF CountLoaded
    <2> QED BY <2>1, <2>2, <2>3
  <1> HIDE DEF c
  <1>2. /\ c \in LoadStats
        /\ Loaded(c) = Loaded(s) + 1
        /\ c.rejected = s.rejected
    BY <1>1 DEF LoadStats, Loaded
  <1> QED BY <1>2 DEF c

\* The counters of a call that has counted nothing.
LEMMA NoStatsType == NoStats \in LoadStats /\ Loaded(NoStats) = 0
  BY DEF NoStats, LoadStats, Loaded

\* The writes of a transaction that has written nothing.
LEMMA NoWritesType == NoWrites \in [Ids -> Row \cup {NoWrite}]
  BY DEF NoWrites

\* The feed of a process between two calls.
LEMMA NoFeedType == NoFeed \in Feed /\ Total(NoFeed) = 0
  BY DEF NoFeed, Feed, Total

\* A committed transaction leaves rows.
LEMMA MergeType ==
    ASSUME NEW t \in [Ids -> Row \cup {NoRow}],
           NEW w \in [Ids -> Row \cup {NoWrite}]
    PROVE  Merge(t, w) \in [Ids -> Row \cup {NoRow}]
  BY DEF Merge

-----------------------------------------------------------------------------
(* The invariant is inductive: one lemma per group of actions.             *)

\* What LoaderInv says of one process.
ProcInv(p) == Place(p) /\ Locked(p) /\ Writes(p) /\ Activates(p)

\* q's part of the invariant survives a step of another process that leaves
\* q's own state, the rows q has written and their locks alone.
LEMMA OthersKeep ==
    ASSUME LoaderInv, NEW q \in Procs,
           pc'[q] = pc[q], feed'[q] = feed[q], pos'[q] = pos[q],
           pend'[q] = pend[q], held'[q] = held[q], todo'[q] = todo[q],
           stats'[q] = stats[q],
           \A i \in Ids : pend[q][i] # NoWrite =>
               rows'[i] = rows[i] /\ owner'[i] = owner[i]
    PROVE  ProcInv(q)'
  <1>1. Place(q) /\ Locked(q) /\ Writes(q) /\ Activates(q)
    BY DEF LoaderInv
  <1>2. Place(q)'
    BY <1>1 DEF Place
  <1>3. Locked(q)'
    BY <1>1 DEF Locked
  <1>4. Writes(q)'
    BY <1>1 DEF Writes, IsActive
  <1>5. Activates(q)'
    BY <1>1 DEF Activates
  <1> QED BY <1>2, <1>3, <1>4, <1>5 DEF ProcInv

\* A row locked for p, or by nobody, is not one another process has written.
LEMMA LockExcludes ==
    ASSUME LoaderInv, NEW p \in Procs, NEW q \in Procs, q # p,
           NEW i \in Ids, LockFree(p, i)
    PROVE  pend[q][i] = NoWrite
  BY MarksAssumption DEF LoaderInv, Locked, LockFree

\* The invariant holds initially.
LEMMA InitEstablishes == Init => LoaderInv
  <1> SUFFICES ASSUME Init PROVE LoaderInv
    OBVIOUS
  <1>1. TypeOK
    BY NoStatsType, NoWritesType, NoFeedType DEF Init, TypeOK
  <1>2. ASSUME NEW p \in Procs
        PROVE  Place(p) /\ Locked(p) /\ Writes(p) /\ Activates(p)
    BY NoStatsType DEF Init, Place, Locked, Writes, Activates, NoWrites
  <1> QED BY <1>1, <1>2 DEF LoaderInv

\* A call begins: it has written, locked and counted nothing.
LEMMA BeginKeeps ==
    ASSUME LoaderInv, NEW p \in Procs, Begin(p)
    PROVE  LoaderInv'
  <1> USE DEF LoaderInv
  <1>1. PICK f \in Feeds : feed' = [feed EXCEPT ![p] = f]
    BY DEF Begin
  <1>2. f \in Feed /\ pos[p] = 0
    BY FeedsAssumption DEF Begin, Place
  <1>3. Total(f) \in Nat
    BY <1>2, FeedLengths
  <1>4. TypeOK'
    BY <1>1, <1>2, <1>3 DEF TypeOK, Begin
  <1>5. ASSUME NEW q \in Procs PROVE ProcInv(q)'
    <2>1. CASE q # p
      BY <2>1, OthersKeep DEF Begin, TypeOK
    <2>2. CASE q = p
      <3>1. /\ pend'[p] = NoWrites /\ todo'[p] = {} /\ pc'[p] = "load"
            /\ stats'[p] = NoStats
        BY DEF Begin, Place, TypeOK
      <3> QED BY <2>2, <3>1, NoStatsType
              DEF ProcInv, Place, Locked, Writes, Activates, NoWrites
    <2> QED BY <2>1, <2>2
  <1> QED BY <1>4, <1>5 DEF ProcInv

\* Both loops quarantine the current entry this way.
LEMMA RejectKeeps ==
    ASSUME LoaderInv, NEW p \in Procs, Reject(p),
           pc[p] \in {"load", "upsert"}, pos[p] < Total(feed[p])
    PROVE  LoaderInv'
  <1> USE DEF LoaderInv, Reject, Quarantine
  <1>1. pos[p] \in Nat /\ Total(feed[p]) \in Nat /\ stats[p] \in LoadStats
    BY FeedLengths DEF TypeOK
  <1>2. pos[p] + 1 <= Total(feed[p])
    BY <1>1
  <1>3. /\ [stats[p] EXCEPT !.rejected = @ + 1] \in LoadStats
        /\ Loaded([stats[p] EXCEPT !.rejected = @ + 1]) = Loaded(stats[p])
    BY <1>1 DEF LoadStats, Loaded
  <1>4. stats' = [stats EXCEPT ![p] = [stats[p] EXCEPT !.rejected = @ + 1]]
    OBVIOUS
  <1>5. TypeOK'
    BY <1>1, <1>2, <1>3, <1>4 DEF TypeOK
  <1>6. ASSUME NEW q \in Procs PROVE ProcInv(q)'
    <2>1. CASE q # p
      BY <2>1, OthersKeep DEF TypeOK
    <2>2. CASE q = p
      <3>1. pc'[p] = "load" /\ Loaded(stats'[p]) = Loaded(stats[p])
        BY <1>3, <1>4 DEF TypeOK
      <3>2. Place(p)'
        BY <3>1 DEF Place
      <3>3. Locked(p)'
        BY DEF Locked
      <3>4. Writes(p)'
        BY <3>1 DEF Writes, IsActive
      <3>5. Activates(p)'
        BY <3>1 DEF Activates
      <3> QED BY <2>2, <3>2, <3>3, <3>4, <3>5 DEF ProcInv
    <2> QED BY <2>1, <2>2
  <1> QED BY <1>5, <1>6 DEF ProcInv

\* A row is looked up; only the process itself moves.
LEMMA SelectExistingKeeps ==
    ASSUME LoaderInv, NEW p \in Procs, SelectExisting(p)
    PROVE  LoaderInv'
  <1> USE DEF LoaderInv, SelectExisting
  <1>1. Current(p).id \in Ids
    <2>1. /\ feed[p] \in Feed /\ pos[p] \in Nat
          /\ Len(feed[p].rejected) \in Nat /\ Total(feed[p]) \in Nat
      BY FeedLengths DEF TypeOK
    <2>2. pos[p] + 1 \in 1..Total(feed[p]) /\ ~IsIssue(feed[p], pos[p] + 1)
      BY <2>1 DEF IsIssue
    <2>3. Current(p) \in Record
      BY <2>1, <2>2, EntryType DEF Current
    <2> QED BY <2>3 DEF Record
  <1>2. Visible(p) \in [Ids -> Row \cup {NoRow}]
    BY MergeType DEF TypeOK, Visible
  <1>3. TypeOK'
    BY <1>1, <1>2 DEF TypeOK
  <1>4. ASSUME NEW q \in Procs PROVE ProcInv(q)'
    <2>1. CASE q # p
      BY <2>1, OthersKeep DEF TypeOK
    <2>2. CASE q = p
      <3>1. pc'[p] = "upsert"
        BY DEF TypeOK
      <3>2. Place(p)'
        BY <3>1 DEF Place
      <3> QED BY <2>2, <3>2
              DEF ProcInv, Locked, Writes, Activates, IsActive
    <2> QED BY <2>1, <2>2
  <1> QED BY <1>3, <1>4 DEF ProcInv

\* What Upsert relies on: it is at a record of the feed.
LEMMA AtRecord ==
    ASSUME LoaderInv, NEW p \in Procs, pc[p] = "upsert"
    PROVE  /\ Current(p) \in Record
           /\ Current(p).id \in Observed(feed[p])
           /\ pos[p] + 1 <= Total(feed[p])
  <1>1. /\ feed[p] \in Feed /\ pos[p] \in Nat
        /\ Len(feed[p].rejected) \in Nat /\ Total(feed[p]) \in Nat
    BY FeedLengths DEF LoaderInv, TypeOK
  <1>2. pos[p] >= Len(feed[p].rejected) /\ pos[p] < Total(feed[p])
    BY DEF LoaderInv, Place
  <1>3. pos[p] + 1 \in 1..Total(feed[p]) /\ ~IsIssue(feed[p], pos[p] + 1)
    BY <1>1, <1>2 DEF IsIssue
  <1>4. Current(p) \in Record
    BY <1>1, <1>3, EntryType DEF Current
  <1>5. Current(p).id \in Observed(feed[p])
    BY <1>1, <1>3, <1>4, EntryType DEF Current, Record
  <1> QED BY <1>1, <1>3, <1>4, <1>5

\* A record is written: its row is locked, and its counter incremented.
LEMMA UpsertKeeps ==
    ASSUME LoaderInv, NEW p \in Procs, Upsert(p)
    PROVE  LoaderInv'
  <1> DEFINE r == Current(p)
             new == UpsertedRow(r)
  <1>1. /\ r \in Record
        /\ r.id \in Observed(feed[p])
        /\ pos[p] + 1 <= Total(feed[p])
        /\ r.id \in Ids
    BY AtRecord DEF Upsert, Record
  <1>2. /\ pc[p] = "upsert"
        /\ LockFree(p, r.id)
        /\ owner' = [owner EXCEPT ![r.id] = p]
        /\ pend' = [pend EXCEPT ![p] = [pend[p] EXCEPT ![r.id] = new]]
        /\ stats' = [stats EXCEPT ![p] = CountLoaded(stats[p], existing[p], r.value)]
        /\ pos' = [pos EXCEPT ![p] = @ + 1]
        /\ pc' = [pc EXCEPT ![p] = "load"]
        /\ existing' = [existing EXCEPT ![p] = NoRow]
        /\ UNCHANGED <<rows, feed, held, todo, result>>
    BY DEF Upsert
  <1>3. new \in Row /\ new.active
    BY <1>1 DEF Row, Record, UpsertedRow
  <1>4. /\ CountLoaded(stats[p], existing[p], r.value) \in LoadStats
        /\ Loaded(CountLoaded(stats[p], existing[p], r.value)) = Loaded(stats[p]) + 1
        /\ Loaded(stats[p]) \in Nat
    BY CountLoadedOne DEF LoaderInv, TypeOK, LoadStats, Loaded
  <1> HIDE DEF r, new
  <1>5. TypeOK'
    BY <1>1, <1>2, <1>3, <1>4 DEF LoaderInv, TypeOK
  <1>6. ASSUME NEW q \in Procs PROVE ProcInv(q)'
    <2>1. CASE q # p
      <3>1. pend[q][r.id] = NoWrite
        BY <1>1, <1>2, <2>1, LockExcludes
      <3>2. \A i \in Ids : pend[q][i] # NoWrite =>
                rows'[i] = rows[i] /\ owner'[i] = owner[i]
        BY <1>2, <3>1 DEF LoaderInv, TypeOK
      <3> QED BY <1>2, <2>1, <3>2, OthersKeep DEF LoaderInv, TypeOK
    <2>2. CASE q = p
      <3>1. /\ pc'[p] = "load"
            /\ Loaded(stats'[p]) > 0
            /\ pend'[p] = [pend[p] EXCEPT ![r.id] = new]
            /\ pend'[p][r.id] = new
            /\ \A i \in Ids \ {r.id} : pend'[p][i] = pend[p][i]
            /\ owner'[r.id] = p
        BY <1>1, <1>2, <1>4 DEF LoaderInv, TypeOK
      <3>2. Place(p)'
        BY <3>1 DEF Place
      <3>3. Locked(p)'
        BY <1>1, <1>2, <3>1 DEF LoaderInv, TypeOK, Locked
      <3>4. Writes(p)'
        BY <1>1, <1>2, <1>3, <3>1 DEF LoaderInv, TypeOK, Writes, IsActive
      <3>5. Activates(p)'
        BY <1>1, <1>3, <3>1, MarksAssumption DEF Activates
      <3> QED BY <2>2, <3>2, <3>3, <3>4, <3>5 DEF ProcInv
    <2> QED BY <2>1, <2>2
  <1> QED BY <1>5, <1>6 DEF LoaderInv, ProcInv

\* The deactivation begins, after a record was loaded.
LEMMA StartDeactivationKeeps ==
    ASSUME LoaderInv, NEW p \in Procs, StartDeactivation(p)
    PROVE  LoaderInv'
  <1> USE DEF StartDeactivation
  <1>1. TypeOK'
    BY DEF LoaderInv, TypeOK, Active
  <1>2. ASSUME NEW q \in Procs PROVE ProcInv(q)'
    <2>1. CASE q # p
      BY <2>1, OthersKeep DEF LoaderInv, TypeOK
    <2>2. CASE q = p
      <3>1. /\ pc'[p] = "deactivate"
            /\ todo'[p] \cap Observed(feed[p]) = {}
        BY DEF LoaderInv, TypeOK
      <3>2. Place(p)'
        BY <3>1 DEF Place
      <3>3. Writes(p)'
        BY <3>1 DEF LoaderInv, Writes, IsActive
      <3> QED BY <2>2, <3>2, <3>3
              DEF LoaderInv, ProcInv, Locked, Activates
    <2> QED BY <2>1, <2>2
  <1> QED BY <1>1, <1>2 DEF LoaderInv, ProcInv

\* A row DEACTIVATE_SQL finds active is the committed one: p has not written it.
LEMMA DeactivatesCommitted ==
    ASSUME LoaderInv, NEW p \in Procs, NEW i \in Ids, i \in todo[p],
           IsActive(Visible(p), i)
    PROVE  /\ pend[p][i] = NoWrite
           /\ Visible(p)[i] = rows[i]
           /\ IsActive(rows, i)
           /\ rows[i] \in Row
           /\ i \notin Observed(feed[p])
  <1>1. i \notin Observed(feed[p])
    BY DEF LoaderInv, Writes
  <1>2. ASSUME pend[p][i] # NoWrite PROVE ~pend[p][i].active
    <2>1. Writes(p)
      BY DEF LoaderInv
    <2>2. pend[p][i] = [value |-> rows[i].value, active |-> FALSE]
      BY <1>1, <1>2, <2>1 DEF Writes
    <2> QED BY <2>2
  <1>3. Visible(p)[i] = IF pend[p][i] = NoWrite THEN rows[i] ELSE pend[p][i]
    BY DEF Visible, Merge
  <1>4. pend[p][i] = NoWrite /\ Visible(p)[i] = rows[i] /\ IsActive(rows, i)
    BY <1>2, <1>3 DEF IsActive
  <1> QED BY <1>1, <1>4 DEF LoaderInv, TypeOK, IsActive

\* A row is switched off, of an id the feed has not shown.
LEMMA DeactivateRowKeeps ==
    ASSUME LoaderInv, NEW p \in Procs, NEW i \in Ids, DeactivateRow(p, i)
    PROVE  LoaderInv'
  <1> DEFINE off == DeactivatedRow(rows[i])
  <1>1. /\ pc[p] = "deactivate"
        /\ i \in todo[p]
        /\ LockFree(p, i)
        /\ owner' = [owner EXCEPT ![i] = p]
        /\ todo' = [todo EXCEPT ![p] = @ \ {i}]
        /\ UNCHANGED <<rows, pc, feed, pos, existing, held, result>>
    BY DEF DeactivateRow
  <1>2. i \notin Observed(feed[p]) /\ Loaded(stats[p]) > 0
    BY <1>1 DEF LoaderInv, Writes, Place
  <1>3. \/ /\ IsActive(Visible(p), i)
           /\ pend' = [pend EXCEPT ![p][i] = DeactivatedRow(Visible(p)[i])]
           /\ stats' = [stats EXCEPT ![p].deactivated = @ + 1]
        \/ UNCHANGED <<pend, stats>>
    BY DEF DeactivateRow
  <1>4. \/ /\ IsActive(rows, i) /\ pend[p][i] = NoWrite /\ off \in Row
           /\ pend' = [pend EXCEPT ![p] = [pend[p] EXCEPT ![i] = off]]
           /\ stats' = [stats EXCEPT ![p] = [stats[p] EXCEPT !.deactivated = @ + 1]]
        \/ UNCHANGED <<pend, stats>>
    <2>1. CASE IsActive(Visible(p), i)
      <3>1. /\ pend[p][i] = NoWrite /\ Visible(p)[i] = rows[i]
            /\ IsActive(rows, i) /\ rows[i] \in Row
        BY <1>1, <2>1, DeactivatesCommitted
      <3>2. off \in Row
        BY <3>1 DEF Row, DeactivatedRow
      <3> QED BY <1>3, <3>1, <3>2
    <2>2. CASE ~IsActive(Visible(p), i)
      BY <1>3, <2>2
    <2> QED BY <2>1, <2>2
  <1>5. /\ [stats[p] EXCEPT !.deactivated = @ + 1] \in LoadStats
        /\ Loaded([stats[p] EXCEPT !.deactivated = @ + 1]) = Loaded(stats[p])
    <2>1. stats[p] \in LoadStats
      BY DEF LoaderInv, TypeOK
    <2> QED BY <2>1 DEF LoadStats, Loaded
  <1> HIDE DEF off
  <1>6. TypeOK'
    <2>1. pend' \in [Procs -> [Ids -> Row \cup {NoWrite}]]
      <3>1. pend \in [Procs -> [Ids -> Row \cup {NoWrite}]]
        BY DEF LoaderInv, TypeOK
      <3>2. CASE off \in Row /\ pend' = [pend EXCEPT ![p] = [pend[p] EXCEPT ![i] = off]]
        <4>1. [pend[p] EXCEPT ![i] = off] \in [Ids -> Row \cup {NoWrite}]
          BY <3>1, <3>2
        <4> QED BY <3>1, <3>2, <4>1
      <3> QED BY <1>4, <3>1, <3>2
    <2>2. stats' \in [Procs -> LoadStats]
      BY <1>4, <1>5 DEF LoaderInv, TypeOK
    <2> QED BY <1>1, <2>1, <2>2 DEF LoaderInv, TypeOK
  <1>7. ASSUME NEW q \in Procs PROVE ProcInv(q)'
    <2>1. CASE q # p
      <3>1. pend[q][i] = NoWrite
        BY <1>1, <2>1, LockExcludes
      <3>2. \A j \in Ids : pend[q][j] # NoWrite =>
                rows'[j] = rows[j] /\ owner'[j] = owner[j]
        BY <1>1, <3>1 DEF LoaderInv, TypeOK
      <3>3. pend'[q] = pend[q] /\ stats'[q] = stats[q]
        BY <1>4, <2>1 DEF LoaderInv, TypeOK
      <3> QED BY <1>1, <2>1, <3>2, <3>3, OthersKeep DEF LoaderInv, TypeOK
    <2>2. CASE q = p
      <3>1. Loaded(stats'[p]) = Loaded(stats[p])
        BY <1>4, <1>5 DEF LoaderInv, TypeOK
      <3>2. /\ owner'[i] = p
            /\ \A j \in Ids \ {i} : pend'[p][j] = pend[p][j] /\ owner'[j] = owner[j]
            /\ \/ pend'[p][i] = pend[p][i]
               \/ /\ pend'[p][i] = off /\ pend[p][i] = NoWrite
                  /\ IsActive(rows, i)
            /\ todo'[p] = todo[p] \ {i}
        BY <1>1, <1>4 DEF LoaderInv, TypeOK
      <3>3. Place(p)'
        BY <1>1, <3>1 DEF LoaderInv, Place
      <3>4. Locked(p)'
        BY <3>2 DEF LoaderInv, Locked
      <3>5. Writes(p)'
        <4>1. feed'[p] = feed[p] /\ rows' = rows
          BY <1>1
        <4>2. todo'[p] \cap Observed(feed'[p]) = {}
          BY <3>2, <4>1 DEF LoaderInv, Writes
        <4>3. ASSUME NEW j \in Ids, pend'[p][j] # NoWrite
              PROVE  \/ /\ pend'[p][j].active
                        /\ j \in Observed(feed[p])
                     \/ /\ pend'[p][j] = [value |-> rows[j].value, active |-> FALSE]
                        /\ IsActive(rows, j)
                        /\ j \notin Observed(feed[p])
                        /\ Loaded(stats[p]) > 0
          <5>1. CASE pend'[p][j] = pend[p][j]
            BY <4>3, <5>1 DEF LoaderInv, Writes
          <5>2. CASE j = i /\ pend'[p][i] = off /\ IsActive(rows, i)
            BY <1>2, <5>2 DEF off, DeactivatedRow
          <5> QED BY <3>2, <5>1, <5>2
        <4> QED BY <3>1, <4>1, <4>2, <4>3 DEF Writes, IsActive
      <3>6. Activates(p)'
        BY <3>1, <3>2 DEF LoaderInv, Activates
      <3> QED BY <2>2, <3>3, <3>4, <3>5, <3>6 DEF ProcInv
    <2> QED BY <2>1, <2>2
  <1> QED BY <1>6, <1>7 DEF LoaderInv, ProcInv

\* However a call ends, p starts afresh, and what another process has written
\* is neither changed nor unlocked.
LEMMA EndCallKeeps ==
    ASSUME LoaderInv, NEW p \in Procs, NEW how \in {"ok", "error"},
           EndCall(p, how), rows' = rows \/ rows' = Visible(p)
    PROVE  LoaderInv'
  <1> USE DEF EndCall
  <1>1. rows' \in [Ids -> Row \cup {NoRow}]
    <2>1. rows \in [Ids -> Row \cup {NoRow}] /\ pend[p] \in [Ids -> Row \cup {NoWrite}]
      BY DEF LoaderInv, TypeOK
    <2>2. Visible(p) \in [Ids -> Row \cup {NoRow}]
      BY <2>1, MergeType DEF Visible
    <2> QED BY <2>1, <2>2
  <1>2. TypeOK'
    BY <1>1, NoStatsType, NoWritesType, NoFeedType DEF LoaderInv, TypeOK
  <1>3. ASSUME NEW q \in Procs PROVE ProcInv(q)'
    <2>1. CASE q # p
      <3>1. ASSUME NEW i \in Ids, pend[q][i] # NoWrite
            PROVE  rows'[i] = rows[i] /\ owner'[i] = owner[i]
        <4>1. owner[i] = q
          BY <3>1 DEF LoaderInv, Locked
        <4>2. pend[p][i] = NoWrite
          BY <2>1, <4>1 DEF LoaderInv, Locked
        <4>3. Visible(p)[i] = rows[i]
          BY <4>2 DEF Visible, Merge
        <4> QED BY <2>1, <4>1, <4>3 DEF LoaderInv, TypeOK
      <3> QED BY <2>1, <3>1, OthersKeep DEF LoaderInv, TypeOK
    <2>2. CASE q = p
      <3>1. /\ pc'[p] = "idle" /\ pend'[p] = NoWrites /\ held'[p] = {}
            /\ todo'[p] = {} /\ pos'[p] = 0 /\ stats'[p] = NoStats
        BY DEF LoaderInv, TypeOK
      <3> QED BY <2>2, <3>1, NoStatsType
              DEF ProcInv, Place, Locked, Writes, Activates, NoWrites
    <2> QED BY <2>1, <2>2
  <1> QED BY <1>2, <1>3 DEF LoaderInv, ProcInv

\* Every step keeps the invariant.
LEMMA NextKeeps == LoaderInv /\ [Next]_vars => LoaderInv'
  <1> SUFFICES ASSUME LoaderInv, [Next]_vars PROVE LoaderInv'
    OBVIOUS
  <1>1. CASE UNCHANGED vars
    <2>1. TypeOK'
      BY <1>1 DEF LoaderInv, TypeOK, vars
    <2>2. ASSUME NEW p \in Procs PROVE ProcInv(p)'
      BY <1>1, OthersKeep DEF vars
    <2> QED BY <2>1, <2>2 DEF LoaderInv, ProcInv
  <1>2. ASSUME NEW p \in Procs,
               Begin(p) \/ Step(p) \/ CommitUnacknowledged(p) \/ Disconnect(p)
        PROVE  LoaderInv'
    <2>1. CASE Begin(p)
      BY <2>1, BeginKeeps
    <2>2. CASE QuarantineIssue(p)
      <3>1. pos[p] < Total(feed[p])
        <4>1. feed[p] \in Feed /\ pos[p] \in Nat
          BY DEF LoaderInv, TypeOK
        <4>2. /\ Len(feed[p].rejected) \in Nat /\ Total(feed[p]) \in Nat
              /\ Len(feed[p].rejected) <= Total(feed[p])
              /\ pos[p] < Len(feed[p].rejected)
          BY <2>2, <4>1, FeedLengths DEF QuarantineIssue
        <4> QED BY <4>1, <4>2
      <3> QED BY <2>2, <3>1, RejectKeeps DEF QuarantineIssue
    <2>3. CASE SelectExisting(p)
      BY <2>3, SelectExistingKeeps
    <2>4. CASE Upsert(p)
      BY <2>4, UpsertKeeps
    <2>5. CASE UpsertRefused(p)
      BY <2>5, RejectKeeps DEF UpsertRefused, LoaderInv, Place
    <2>6. CASE StartDeactivation(p)
      BY <2>6, StartDeactivationKeeps
    <2>7. ASSUME NEW i \in Ids, DeactivateRow(p, i) PROVE LoaderInv'
      BY <2>7, DeactivateRowKeeps
    <2>8. CASE Commit(p)
      BY <2>8, EndCallKeeps DEF Commit
    <2>9. CASE QuarantineFails(p)
      BY <2>9, EndCallKeeps DEF QuarantineFails, Rollback
    <2>10. CASE DeactivationVictim(p)
      BY <2>10, EndCallKeeps DEF DeactivationVictim, Rollback
    <2>11. CASE CommitUnacknowledged(p)
      BY <2>11, EndCallKeeps DEF CommitUnacknowledged
    <2>12. CASE Disconnect(p)
      BY <2>12, EndCallKeeps DEF Disconnect, Rollback
    <2> QED BY <1>2, <2>1, <2>2, <2>3, <2>4, <2>5, <2>6, <2>7, <2>8, <2>9,
               <2>10, <2>11, <2>12 DEF Step
  <1> QED BY <1>1, <1>2 DEF Next

\* The invariant holds of every behaviour.
THEOREM LoaderInvariant == Spec => []LoaderInv
  BY InitEstablishes, NextKeeps, PTL DEF Spec

\* Type correctness of load_entity's state.
THEOREM TypeCorrect == Spec => []TypeOK
  <1>1. LoaderInv => TypeOK
    BY DEF LoaderInv
  <1> QED BY <1>1, LoaderInvariant, PTL

-----------------------------------------------------------------------------
(* The loads implement CatalogContract, and so never empty the catalogue.  *)

\* What p's commit puts into the active catalogue, and what it takes out.
Activated(p) == {i \in Ids : pend[p][i] # NoWrite /\ pend[p][i].active}
Deactivated(p) == {i \in Ids : pend[p][i] # NoWrite /\ ~pend[p][i].active}

\* A commit, acknowledged or not, is one load of the contract.
LEMMA CommitIsLoad ==
    ASSUME LoaderInv, NEW p \in Procs, rows' = Visible(p)
    PROVE  Contract!LoadOf(Activated(p), Deactivated(p))
  <1>1. /\ rows \in [Ids -> Row \cup {NoRow}]
        /\ pend[p] \in [Ids -> Row \cup {NoWrite}]
        /\ Writes(p) /\ Activates(p)
    BY DEF LoaderInv, TypeOK
  <1>2. rows' \in [Ids -> Row \cup {NoRow}]
    BY <1>1, MergeType DEF Visible
  <1>3. \A i \in Ids : rows'[i] = IF pend[p][i] = NoWrite THEN rows[i] ELSE pend[p][i]
    BY DEF Visible, Merge
  <1>4. ASSUME NEW i \in Deactivated(p)
        PROVE  /\ pend[p][i] = [value |-> rows[i].value, active |-> FALSE]
               /\ IsActive(rows, i)
               /\ Loaded(stats[p]) > 0
    BY <1>1 DEF Deactivated, Writes
  <1>5. Deactivated(p) # {} => Activated(p) # {}
    BY <1>1, <1>4 DEF Activates, Activated
  <1>6. Deactivated(p) \subseteq Contract!Active(rows) \ Activated(p)
    BY <1>4 DEF Deactivated, Activated, IsActive, Contract!Active
  <1>7. Activated(p) \subseteq Contract!Active(rows')
    <2>1. ASSUME NEW i \in Activated(p)
          PROVE  i \in Ids /\ rows'[i] # NoRow /\ rows'[i].active
      <3>1. i \in Ids /\ pend[p][i] \in Row /\ pend[p][i].active
        BY <1>1 DEF Activated
      <3>2. rows'[i] = pend[p][i]
        BY <1>3, <3>1, MarksAssumption
      <3> QED BY <3>1, <3>2, MarksAssumption
    <2> QED BY <2>1 DEF Contract!Active
  <1>8. \A i \in Deactivated(p) :
            rows'[i] = [value |-> rows[i].value, active |-> FALSE]
    BY <1>3, <1>4 DEF Deactivated
  <1>9. \A i \in Ids \ (Activated(p) \cup Deactivated(p)) : rows'[i] = rows[i]
    BY <1>3 DEF Activated, Deactivated
  <1>10. Contract!Row = Row
    BY DEF Row, Contract!Row
  <1> QED BY <1>2, <1>5, <1>6, <1>7, <1>8, <1>9, <1>10 DEF Contract!LoadOf

\* Only a commit changes the table.
LEMMA OnlyCommits ==
    ASSUME LoaderInv, [Next]_vars, rows' # rows
    PROVE  \E p \in Procs : rows' = Visible(p)
  <1>1. PICK p \in Procs :
            Begin(p) \/ Step(p) \/ CommitUnacknowledged(p) \/ Disconnect(p)
    BY DEF Next, vars
  <1>2. CASE Commit(p) \/ CommitUnacknowledged(p)
    BY <1>2 DEF Commit, CommitUnacknowledged
  <1>3. CASE ~Commit(p) /\ ~CommitUnacknowledged(p)
    BY <1>1, <1>3 DEF Step, Begin, QuarantineIssue, Reject, Quarantine,
       SelectExisting, Upsert, UpsertRefused, StartDeactivation, DeactivateRow,
       QuarantineFails, DeactivationVictim, Disconnect, Rollback
  <1> QED BY <1>2, <1>3

\* Every step is a load of the contract or leaves the rows alone.
LEMMA StepIsLoad ==
    ASSUME LoaderInv, [Next]_vars
    PROVE  [Contract!Next]_rows
  <1>1. CASE rows' = rows
    BY <1>1
  <1>2. CASE rows' # rows
    <2>1. PICK p \in Procs : rows' = Visible(p)
      BY <1>2, OnlyCommits
    <2>2. Contract!LoadOf(Activated(p), Deactivated(p))
      BY <2>1, CommitIsLoad
    <2>3. Activated(p) \in SUBSET Ids /\ Deactivated(p) \in SUBSET Ids
      BY DEF Activated, Deactivated
    <2> QED BY <2>2, <2>3 DEF Contract!Next
  <1> QED BY <1>1, <1>2

\* Whole loads only, no row removed, none deactivated by a load that brings
\* nothing: load_entity implements the contract of a raw catalogue table.
THEOREM LoaderImplementsContract == Spec => ImplementsContract
  <1>1. Init => Contract!Init
    BY DEF Init, Contract!Init
  <1> QED BY <1>1, StepIsLoad, LoaderInvariant, PTL
          DEF Spec, ImplementsContract, Contract!Spec

\* No load, however interleaved, leaves the active catalogue empty.
THEOREM CatalogNeverEmptied == Spec => NeverEmptied
  <1>1. ASSUME LoaderInv, [Next]_vars
        PROVE  [Active(rows) # {} => Active(rows') # {}]_vars
    <2>1. SUFFICES ASSUME rows' # rows, Active(rows) # {}
                   PROVE  Active(rows') # {}
      OBVIOUS
    <2>2. PICK loaded, dropped \in SUBSET Ids : Contract!LoadOf(loaded, dropped)
      BY <1>1, <2>1, StepIsLoad DEF Contract!Next
    <2>3. /\ Active(rows') = Contract!Active(rows')
          /\ Active(rows) = Contract!Active(rows)
      BY DEF Active, IsActive, Contract!Active
    <2>4. CASE loaded # {}
      BY <2>2, <2>3, <2>4 DEF Contract!LoadOf
    <2>5. CASE loaded = {}
      <3>1. dropped = {}
        BY <2>2, <2>5 DEF Contract!LoadOf
      <3>2. \A i \in Ids : rows'[i] = rows[i]
        BY <2>2, <2>5, <3>1 DEF Contract!LoadOf
      <3> QED BY <2>1, <3>2 DEF Active, IsActive
    <2> QED BY <2>4, <2>5
  <1> QED BY <1>1, LoaderInvariant, PTL DEF Spec, NeverEmptied
=============================================================================
