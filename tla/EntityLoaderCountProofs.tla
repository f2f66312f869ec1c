----------------------- MODULE EntityLoaderCountProofs ----------------------
(***************************************************************************)
(* What load_entity reports of a committed load, for any number of         *)
(* processes, ids, values and feeds: every entry of the feed is accounted  *)
(* for, and the counters bracket what the commit does to the table.        *)
(***************************************************************************)
EXTENDS EntityLoaderProofs

-----------------------------------------------------------------------------
(* The inductive invariant, on top of LoaderInv.                           *)

\* The entries dealt with that were not quarantined.
Kept(p) == 1..pos[p] \ held[p]
Id(p, k) == Entry(feed[p], k).id

\* k is the last of the kept entries with its id.
Latest(p, k) == \A j \in Kept(p) : Id(p, j) = Id(p, k) => j <= k

\* Every entry dealt with is counted once, and those counted as rejected are held.
Tallied(p) ==
    /\ held[p] \subseteq 1..pos[p]
    /\ Cardinality(held[p]) = stats[p].rejected
    /\ Loaded(stats[p]) + stats[p].rejected = pos[p]

\* A kept entry is a record, and the last one of an id is what p has written.
Written(p) ==
    \A k \in Kept(p) :
        /\ ~IsIssue(feed[p], k)
        /\ Latest(p, k) => pend[p][Id(p, k)] = UpsertedRow(Entry(feed[p], k))

\* The rows p's commit would create.
Created(p) == {i \in Ids : pend[p][i] # NoWrite /\ rows[i] = NoRow}

\* The counters of new and of deactivated rows against p's writes.
Bracketed(p) ==
    /\ IsFiniteSet(Created(p))
    /\ Cardinality(Created(p)) <= stats[p].inserted
    /\ IsFiniteSet(Deactivated(p))
    /\ Cardinality(Deactivated(p)) = stats[p].deactivated

\* A row that was found is still there when the record is written.
Found(p) ==
    pc[p] = "upsert" /\ existing[p] # NoRow => Visible(p)[Current(p).id] # NoRow

Accounts(p) == Tallied(p) /\ Written(p) /\ Bracketed(p) /\ Found(p)

CountInv == \A p \in Procs : Accounts(p)

-----------------------------------------------------------------------------
(* What one step leaves alone.                                             *)

\* No step removes a row from the table.
LEMMA RowsStay ==
    ASSUME LoaderInv, [Next]_vars, NEW i \in Ids, rows[i] # NoRow
    PROVE  rows'[i] # NoRow
  <1>1. CASE rows' = rows
    BY <1>1
  <1>2. CASE rows' # rows
    <2>1. PICK p \in Procs : rows' = Visible(p)
      BY <1>2, OnlyCommits
    <2>2. pend[p][i] \in Row \cup {NoWrite}
      BY DEF LoaderInv, TypeOK
    <2> QED BY <2>1, <2>2, MarksAssumption DEF Visible, Merge
  <1> QED BY <1>1, <1>2

\* What q has counted and written stays true when only others have moved.
LEMMA OthersAccount ==
    ASSUME LoaderInv, CountInv, [Next]_vars, NEW q \in Procs,
           pc'[q] = pc[q], feed'[q] = feed[q], pos'[q] = pos[q],
           existing'[q] = existing[q], pend'[q] = pend[q], held'[q] = held[q],
           stats'[q] = stats[q]
    PROVE  Accounts(q)'
  <1>1. Tallied(q) /\ Written(q) /\ Bracketed(q) /\ Found(q)
    BY DEF CountInv, Accounts
  <1>2. Tallied(q)'
    BY <1>1 DEF Tallied
  <1>3. Written(q)'
    BY <1>1 DEF Written, Kept, Latest, Id
  <1>4. Bracketed(q)'
    <2>1. Created(q)' \subseteq Created(q)
      BY RowsStay DEF Created
    <2>2. Deactivated(q)' = Deactivated(q)
      BY DEF Deactivated
    <2>3. /\ IsFiniteSet(Created(q)')
          /\ Cardinality(Created(q)') <= Cardinality(Created(q))
          /\ Cardinality(Created(q)') \in Nat /\ Cardinality(Created(q)) \in Nat
      BY <1>1, <2>1, FS_Subset, FS_CardinalityType DEF Bracketed
    <2>4. stats[q].inserted \in Nat
      BY DEF LoaderInv, TypeOK, LoadStats
    <2> QED BY <1>1, <2>2, <2>3, <2>4 DEF Bracketed
  <1>5. Found(q)'
    <2>1. SUFFICES ASSUME pc[q] = "upsert", existing[q] # NoRow
                   PROVE  Visible(q)'[Current(q).id] # NoRow
      BY DEF Found, Current
    <2>2. Current(q).id \in Ids
      BY <2>1, AtRecord DEF Record
    <2>3. Visible(q)[Current(q).id] # NoRow
      BY <1>1, <2>1 DEF Found
    <2> QED BY <2>2, <2>3, RowsStay DEF Visible, Merge
  <1> QED BY <1>2, <1>3, <1>4, <1>5 DEF Accounts

\* A transaction that has done nothing has nothing to account for.
LEMMA AfreshAccounts ==
    ASSUME NEW p \in Procs, pos'[p] = 0, held'[p] = {}, stats'[p] = NoStats,
           pend'[p] = NoWrites, pc'[p] # "upsert"
    PROVE  Accounts(p)'
  <1>1. Kept(p)' = {}
    BY DEF Kept
  <1>2. Tallied(p)'
    BY FS_EmptySet DEF Tallied, NoStats, Loaded
  <1>3. Written(p)'
    BY <1>1 DEF Written
  <1>4. Created(p)' = {} /\ Deactivated(p)' = {}
    BY DEF Created, Deactivated, NoWrites
  <1>5. Bracketed(p)'
    BY <1>4, FS_EmptySet DEF Bracketed, NoStats
  <1>6. Found(p)'
    BY DEF Found
  <1> QED BY <1>2, <1>3, <1>5, <1>6 DEF Accounts

-----------------------------------------------------------------------------
(* The accounts of the process that moves: one lemma per group of actions. *)

\* A quarantined entry is held and counted, and no kept entry.
LEMMA RejectAccounts ==
    ASSUME LoaderInv, CountInv, NEW p \in Procs, Reject(p)
    PROVE  Accounts(p)'
  <1> DEFINE k == pos[p] + 1
  <1>1. Tallied(p) /\ Written(p) /\ Bracketed(p)
    BY DEF CountInv, Accounts
  <1>2. /\ pos[p] \in Nat /\ stats[p] \in LoadStats
        /\ pos'[p] = k /\ held'[p] = held[p] \cup {k} /\ pc'[p] = "load"
        /\ stats'[p] = [stats[p] EXCEPT !.rejected = @ + 1]
        /\ feed'[p] = feed[p] /\ pend'[p] = pend[p] /\ rows' = rows
    BY DEF LoaderInv, TypeOK, Reject, Quarantine
  <1>3. /\ Loaded(stats'[p]) = Loaded(stats[p]) /\ Loaded(stats[p]) \in Nat
        /\ stats'[p].rejected = stats[p].rejected + 1
        /\ stats'[p].inserted = stats[p].inserted
        /\ stats'[p].deactivated = stats[p].deactivated
    BY <1>2 DEF LoadStats, Loaded
  <1>4. held[p] \subseteq 1..pos[p] /\ k \notin held[p] /\ 1..k = 1..pos[p] \cup {k}
    BY <1>1, <1>2 DEF Tallied
  <1>5. Tallied(p)'
    <2>1. IsFiniteSet(held[p])
      <3>1. IsFiniteSet(1..pos[p])
        <4>1. 1 \in Int /\ pos[p] \in Int
          BY <1>2
        <4> QED BY <4>1, FS_Interval
      <3> QED BY <1>4, <3>1, FS_Subset
    <2>2. Cardinality(held'[p]) = Cardinality(held[p]) + 1
      <3>1. Cardinality(held[p] \cup {k}) =
                IF k \in held[p] THEN Cardinality(held[p]) ELSE Cardinality(held[p]) + 1
        BY <2>1, FS_AddElement
      <3> QED BY <1>2, <1>4, <3>1
    <2>3. Loaded(stats'[p]) + stats'[p].rejected = pos'[p]
      BY <1>1, <1>2, <1>3 DEF Tallied, LoadStats
    <2> QED BY <1>1, <1>2, <1>3, <1>4, <2>2, <2>3 DEF Tallied
  <1>6. Kept(p)' = Kept(p)
    BY <1>2, <1>4 DEF Kept
  <1>7. Written(p)'
    BY <1>1, <1>2, <1>6 DEF Written, Latest, Id
  <1>8. Bracketed(p)'
    BY <1>1, <1>2, <1>3 DEF Bracketed, Created, Deactivated
  <1>9. Found(p)'
    BY <1>2 DEF Found
  <1> QED BY <1>5, <1>7, <1>8, <1>9 DEF Accounts

\* A row that is read is there, if it was found, when the record's turn comes.
LEMMA SelectExistingAccounts ==
    ASSUME LoaderInv, CountInv, NEW p \in Procs, SelectExisting(p)
    PROVE  Accounts(p)'
  <1>1. Tallied(p) /\ Written(p) /\ Bracketed(p)
    BY DEF CountInv, Accounts
  <1>2. /\ pos' = pos /\ held' = held /\ stats' = stats /\ feed' = feed
        /\ pend' = pend /\ rows' = rows
        /\ existing'[p] = Visible(p)[Current(p).id]
    BY DEF LoaderInv, TypeOK, SelectExisting
  <1>3. Tallied(p)' /\ Written(p)' /\ Bracketed(p)'
    BY <1>1, <1>2 DEF Tallied, Written, Kept, Latest, Id, Bracketed, Created,
       Deactivated
  <1>4. Found(p)'
    BY <1>2 DEF Found, Visible, Current
  <1> QED BY <1>3, <1>4 DEF Accounts

\* The snapshot of the deactivation is taken.
LEMMA StartDeactivationAccounts ==
    ASSUME LoaderInv, CountInv, NEW p \in Procs, StartDeactivation(p)
    PROVE  Accounts(p)'
  <1>1. Tallied(p) /\ Written(p) /\ Bracketed(p)
    BY DEF CountInv, Accounts
  <1>2. /\ pos' = pos /\ held' = held /\ stats' = stats /\ feed' = feed
        /\ pend' = pend /\ rows' = rows /\ pc'[p] = "deactivate"
    BY DEF LoaderInv, TypeOK, StartDeactivation
  <1>3. Tallied(p)' /\ Written(p)' /\ Bracketed(p)'
    BY <1>1, <1>2 DEF Tallied, Written, Kept, Latest, Id, Bracketed, Created,
       Deactivated
  <1>4. Found(p)'
    BY <1>2 DEF Found
  <1> QED BY <1>3, <1>4 DEF Accounts

\* A record whose row is new was read as absent, and is counted as inserted.
LEMMA CountsInserted ==
    ASSUME NEW s \in LoadStats, NEW old, NEW new
    PROVE  LET c == CountLoaded(s, old, new) IN
           /\ c.inserted \in Nat /\ c.inserted >= s.inserted
           /\ old = NoRow => c.inserted = s.inserted + 1
           /\ c.deactivated = s.deactivated
  <1>1. CASE old = NoRow
    BY <1>1 DEF CountLoaded, LoadStats
  <1>2. CASE old # NoRow /\ (old.value # new \/ ~old.active)
    BY <1>2 DEF CountLoaded, LoadStats
  <1>3. CASE old # NoRow /\ ~(old.value # new \/ ~old.active)
    BY <1>3 DEF CountLoaded, LoadStats
  <1> QED BY <1>1, <1>2, <1>3

\* A record is written: it is kept, the last one of its id, and its row is a
\* new one only if none was found.
LEMMA UpsertAccounts ==
    ASSUME LoaderInv, CountInv, NEW p \in Procs, Upsert(p)
    PROVE  Accounts(p)'
  <1> DEFINE k == pos[p] + 1
             r == Current(p)
             new == UpsertedRow(r)
             c == CountLoaded(stats[p], existing[p], r.value)
  <1>1. Tallied(p) /\ Written(p) /\ Bracketed(p) /\ Found(p)
    BY DEF CountInv, Accounts
  <1>2. /\ pc[p] = "upsert" /\ pos[p] \in Nat /\ stats[p] \in LoadStats
        /\ pos'[p] = k /\ held'[p] = held[p] /\ pc'[p] = "load"
        /\ stats'[p] = c
        /\ feed'[p] = feed[p] /\ rows' = rows
        /\ pend'[p] = [pend[p] EXCEPT ![r.id] = new]
        /\ pend[p] \in [Ids -> Row \cup {NoWrite}]
    BY DEF LoaderInv, TypeOK, Upsert
  <1>3. r \in Record /\ r.id \in Ids /\ new \in Row /\ new.active
    BY <1>2, AtRecord DEF Record, UpsertedRow, Row
  <1>4. /\ Loaded(c) = Loaded(stats[p]) + 1
        /\ c.rejected = stats[p].rejected /\ c.deactivated = stats[p].deactivated
        /\ c.inserted \in Nat /\ c.inserted >= stats[p].inserted
        /\ existing[p] = NoRow => c.inserted = stats[p].inserted + 1
    BY <1>2, CountLoadedOne, CountsInserted
  <1>5. /\ r = Entry(feed[p], k) /\ r.id = Id(p, k)
        /\ pend'[p][r.id] = new
        /\ \A i \in Ids : i # r.id => pend'[p][i] = pend[p][i]
    BY <1>2, <1>3 DEF Current, Id
  <1> HIDE DEF c, r, new
  <1>6. held[p] \subseteq 1..pos[p] /\ k \notin held[p] /\ 1..k = 1..pos[p] \cup {k}
    BY <1>1, <1>2 DEF Tallied
  <1>7. Tallied(p)'
    <2>1. Loaded(stats[p]) \in Nat /\ stats[p].rejected \in Nat
      BY <1>2 DEF LoadStats, Loaded
    <2>2. Loaded(c) + c.rejected = k
      BY <1>1, <1>2, <1>4, <2>1 DEF Tallied
    <2> QED BY <1>1, <1>2, <1>4, <1>6, <2>2 DEF Tallied
  <1>8. Written(p)'
    <2>1. Kept(p)' = Kept(p) \cup {k}
      BY <1>2, <1>6 DEF Kept
    <2>2. Kept(p) \subseteq 1..pos[p]
      BY DEF Kept
    <2>3. ~IsIssue(feed[p], k)
      <3>1. Len(feed[p].rejected) \in Nat /\ pos[p] >= Len(feed[p].rejected)
        BY <1>2, FeedLengths DEF LoaderInv, TypeOK, Place
      <3> QED BY <1>2, <3>1 DEF IsIssue
    <2>4. ASSUME NEW j \in Kept(p)'
          PROVE  /\ ~IsIssue(feed[p], j)
                 /\ Latest(p, j)' => pend'[p][Id(p, j)] = UpsertedRow(Entry(feed[p], j))
      <3>1. CASE j = k
        BY <1>5, <2>3, <3>1 DEF new
      <3>2. CASE j \in Kept(p)
        <4>1. ~IsIssue(feed[p], j)
          BY <1>1, <3>2 DEF Written
        <4>2. ASSUME Latest(p, j)'
              PROVE  pend'[p][Id(p, j)] = UpsertedRow(Entry(feed[p], j))
          <5>1. Id(p, k) # Id(p, j)
            BY <1>2, <2>1, <2>2, <3>2, <4>2 DEF Latest, Id
          <5>2. Latest(p, j)
            BY <1>2, <2>1, <4>2 DEF Latest, Id
          <5>3. pend[p][Id(p, j)] = UpsertedRow(Entry(feed[p], j))
            BY <1>1, <3>2, <5>2 DEF Written
          <5>4. pend'[p][Id(p, j)] = pend[p][Id(p, j)]
            BY <1>2, <1>5, <5>1
          <5> QED BY <5>3, <5>4
        <4> QED BY <4>1, <4>2
      <3> QED BY <2>1, <3>1, <3>2
    <2> QED BY <1>2, <2>4 DEF Written, Id
  <1>9. Bracketed(p)'
    <2>1. Deactivated(p)' = Deactivated(p) \ {r.id}
      BY <1>3, <1>5 DEF Deactivated
    <2>2. r.id \notin Deactivated(p)
      <3>1. r.id \in Observed(feed[p]) /\ Writes(p)
        BY <1>2, AtRecord DEF LoaderInv, r
      <3> QED BY <3>1 DEF Writes, Deactivated
    <2>3. Deactivated(p)' = Deactivated(p)
      BY <2>1, <2>2
    <2>4. Created(p)' \subseteq Created(p) \cup {r.id}
      BY <1>2, <1>5 DEF Created
    <2>5. IsFiniteSet(Created(p)') /\ Cardinality(Created(p)') <= c.inserted
      <3>0. /\ IsFiniteSet(Created(p)) /\ Cardinality(Created(p)) \in Nat
            /\ Cardinality(Created(p)) <= stats[p].inserted
            /\ stats[p].inserted \in Nat
        BY <1>1, <1>2, FS_CardinalityType DEF Bracketed, LoadStats
      <3>1. CASE existing[p] = NoRow
        <4>1. /\ IsFiniteSet(Created(p) \cup {r.id})
              /\ Cardinality(Created(p) \cup {r.id}) <= Cardinality(Created(p)) + 1
              /\ Cardinality(Created(p) \cup {r.id}) \in Nat
          <5>1. /\ IsFiniteSet(Created(p) \cup {r.id})
                /\ Cardinality(Created(p) \cup {r.id}) =
                       IF r.id \in Created(p) THEN Cardinality(Created(p))
                                              ELSE Cardinality(Created(p)) + 1
            BY <3>0, FS_AddElement
          <5> QED BY <3>0, <5>1
        <4>2. /\ IsFiniteSet(Created(p)')
              /\ Cardinality(Created(p)') <= Cardinality(Created(p) \cup {r.id})
              /\ Cardinality(Created(p)') \in Nat
          BY <2>4, <4>1, FS_Subset, FS_CardinalityType
        <4> QED BY <1>4, <3>0, <3>1, <4>1, <4>2
      <3>2. CASE existing[p] # NoRow
        <4>1. Visible(p)[r.id] # NoRow
          BY <1>1, <1>2, <3>2 DEF Found, r
        <4>2. pend[p][r.id] # NoWrite \/ rows[r.id] # NoRow
          BY <1>3, <4>1 DEF Visible, Merge
        <4>3. Created(p)' \subseteq Created(p)
          BY <1>2, <1>5, <2>4, <4>2 DEF Created
        <4>4. /\ IsFiniteSet(Created(p)')
              /\ Cardinality(Created(p)') <= Cardinality(Created(p))
              /\ Cardinality(Created(p)') \in Nat
          BY <3>0, <4>3, FS_Subset, FS_CardinalityType
        <4> QED BY <1>4, <3>0, <4>4
      <3> QED BY <3>1, <3>2
    <2> QED BY <1>1, <1>2, <1>4, <2>3, <2>5 DEF Bracketed
  <1>10. Found(p)'
    BY <1>2 DEF Found
  <1> QED BY <1>7, <1>8, <1>9, <1>10 DEF Accounts

\* A row is switched off and counted, or left alone; it is none of the feed's.
LEMMA DeactivateRowAccounts ==
    ASSUME LoaderInv, CountInv, NEW p \in Procs, NEW i \in Ids, DeactivateRow(p, i)
    PROVE  Accounts(p)'
  <1> DEFINE off == DeactivatedRow(rows[i])
  <1>1. Tallied(p) /\ Written(p) /\ Bracketed(p)
    BY DEF CountInv, Accounts
  <1>2. /\ pc[p] = "deactivate" /\ i \in todo[p] /\ LockFree(p, i)
        /\ pos[p] \in Nat /\ stats[p] \in LoadStats /\ feed[p] \in Feed
        /\ pend[p] \in [Ids -> Row \cup {NoWrite}]
        /\ UNCHANGED <<rows, pc, feed, pos, existing, held>>
    BY DEF LoaderInv, TypeOK, DeactivateRow
  <1>3. CASE ~IsActive(Visible(p), i)
    <2>1. pend' = pend /\ stats' = stats
      BY <1>3 DEF DeactivateRow
    <2>2. Tallied(p)' /\ Written(p)' /\ Bracketed(p)'
      BY <1>1, <1>2, <2>1 DEF Tallied, Written, Kept, Latest, Id, Bracketed,
         Created, Deactivated
    <2> QED BY <1>2, <2>2 DEF Accounts, Found
  <1>4. CASE IsActive(Visible(p), i)
    <2>1. /\ pend[p][i] = NoWrite /\ Visible(p)[i] = rows[i]
          /\ IsActive(rows, i) /\ rows[i] \in Row
      BY <1>2, <1>4, DeactivatesCommitted
    <2>2. /\ pend'[p] = [pend[p] EXCEPT ![i] = off]
          /\ stats'[p] = [stats[p] EXCEPT !.deactivated = @ + 1]
      BY <1>4, <2>1 DEF DeactivateRow, LoaderInv, TypeOK
    <2>3. off \in Row /\ ~off.active /\ off # NoWrite
      <3>1. off \in Row /\ ~off.active
        BY <2>1 DEF Row, DeactivatedRow
      <3> QED BY <3>1, MarksAssumption
    <2> HIDE DEF off
    <2>4. /\ pend'[p][i] = off
          /\ \A j \in Ids : j # i => pend'[p][j] = pend[p][j]
      BY <1>2, <2>2
    <2>5. /\ stats'[p].inserted = stats[p].inserted
          /\ stats'[p].deactivated = stats[p].deactivated + 1
          /\ stats'[p].rejected = stats[p].rejected
          /\ Loaded(stats'[p]) = Loaded(stats[p])
      BY <1>2, <2>2 DEF LoadStats, Loaded
    <2>6. Tallied(p)'
      BY <1>1, <1>2, <2>5 DEF Tallied
    <2>7. Written(p)'
      <3>1. Kept(p)' = Kept(p)
        BY <1>2 DEF Kept
      <3>2. ASSUME NEW k \in Kept(p) PROVE Id(p, k) \in Ids /\ Id(p, k) # i
        <4>1. k \in 1..Total(feed[p]) /\ ~IsIssue(feed[p], k)
          BY <1>1, <1>2, FeedLengths DEF Kept, Written, LoaderInv, TypeOK
        <4>2. Id(p, k) \in Ids /\ Id(p, k) \in Observed(feed[p])
          BY <1>2, <4>1, EntryType DEF Id, Record
        <4>3. i \notin Observed(feed[p])
          BY <1>2 DEF LoaderInv, Writes
        <4> QED BY <4>2, <4>3
      <3> QED BY <1>1, <1>2, <2>4, <3>1, <3>2 DEF Written, Latest, Id
    <2>8. Bracketed(p)'
      <3>1. Created(p)' = Created(p)
        BY <1>2, <2>1, <2>4 DEF Created, IsActive
      <3>2. Deactivated(p)' = Deactivated(p) \cup {i} /\ i \notin Deactivated(p)
        BY <2>1, <2>3, <2>4 DEF Deactivated
      <3>3. /\ IsFiniteSet(Deactivated(p) \cup {i})
            /\ Cardinality(Deactivated(p) \cup {i}) =
                   IF i \in Deactivated(p) THEN Cardinality(Deactivated(p))
                                           ELSE Cardinality(Deactivated(p)) + 1
        BY <1>1, FS_AddElement DEF Bracketed
      <3> QED BY <1>1, <2>5, <3>1, <3>2, <3>3 DEF Bracketed
    <2> QED BY <1>2, <2>6, <2>7, <2>8 DEF Accounts, Found
  <1> QED BY <1>3, <1>4

\* A call that begins has counted nothing.
LEMMA BeginAccounts ==
    ASSUME LoaderInv, CountInv, NEW p \in Procs, Begin(p)
    PROVE  Accounts(p)'
  <1>1. /\ pos'[p] = 0 /\ held'[p] = {} /\ stats'[p] = NoStats
        /\ pend'[p] = NoWrites /\ pc'[p] = "load"
    BY DEF Begin, LoaderInv, TypeOK, Place
  <1> QED BY <1>1, AfreshAccounts

\* A call that has ended has nothing left to account for.
LEMMA EndCallAccounts ==
    ASSUME LoaderInv, NEW p \in Procs, NEW how, EndCall(p, how)
    PROVE  Accounts(p)'
  <1>1. /\ pos'[p] = 0 /\ held'[p] = {} /\ stats'[p] = NoStats
        /\ pend'[p] = NoWrites /\ pc'[p] = "idle"
    BY DEF EndCall, LoaderInv, TypeOK
  <1> QED BY <1>1, AfreshAccounts

\* A step of p moves the accounts of no other process.
LEMMA StepIsOwn ==
    ASSUME LoaderInv, NEW p \in Procs, NEW q \in Procs, q # p,
           Begin(p) \/ Step(p) \/ CommitUnacknowledged(p) \/ Disconnect(p)
    PROVE  /\ pc'[q] = pc[q] /\ feed'[q] = feed[q] /\ pos'[q] = pos[q]
           /\ existing'[q] = existing[q] /\ pend'[q] = pend[q]
           /\ held'[q] = held[q] /\ stats'[q] = stats[q]
  <1> USE DEF LoaderInv, TypeOK
  <1>1. CASE Begin(p)
    BY <1>1 DEF Begin
  <1>2. CASE QuarantineIssue(p) \/ UpsertRefused(p)
    BY <1>2 DEF QuarantineIssue, UpsertRefused, Reject, Quarantine
  <1>3. CASE SelectExisting(p)
    BY <1>3 DEF SelectExisting
  <1>4. CASE Upsert(p)
    BY <1>4 DEF Upsert
  <1>5. CASE StartDeactivation(p)
    BY <1>5 DEF StartDeactivation
  <1>6. CASE \E i \in Ids : DeactivateRow(p, i)
    BY <1>6 DEF DeactivateRow
  <1>7. CASE \/ Commit(p) \/ CommitUnacknowledged(p) \/ QuarantineFails(p)
             \/ DeactivationVictim(p) \/ Disconnect(p)
    BY <1>7 DEF Commit, CommitUnacknowledged, QuarantineFails,
       DeactivationVictim, Disconnect, Rollback, EndCall
  <1> QED BY <1>1, <1>2, <1>3, <1>4, <1>5, <1>6, <1>7 DEF Step

\* Every step keeps the accounts.
LEMMA NextKeepsCounts == LoaderInv /\ CountInv /\ [Next]_vars => CountInv'
  <1> SUFFICES ASSUME LoaderInv, CountInv, [Next]_vars, NEW q \in Procs
               PROVE  Accounts(q)'
    BY DEF CountInv
  <1>1. CASE UNCHANGED vars
    BY <1>1, OthersAccount DEF vars
  <1>2. ASSUME NEW p \in Procs, p # q,
               Begin(p) \/ Step(p) \/ CommitUnacknowledged(p) \/ Disconnect(p)
        PROVE  Accounts(q)'
    BY <1>2, StepIsOwn, OthersAccount
  <1>3. ASSUME Begin(q) \/ Step(q) \/ CommitUnacknowledged(q) \/ Disconnect(q)
        PROVE  Accounts(q)'
    <2>1. CASE Begin(q)
      BY <2>1, BeginAccounts
    <2>2. CASE QuarantineIssue(q) \/ UpsertRefused(q)
      BY <2>2, RejectAccounts DEF QuarantineIssue, UpsertRefused
    <2>3. CASE SelectExisting(q)
      BY <2>3, SelectExistingAccounts
    <2>4. CASE Upsert(q)
      BY <2>4, UpsertAccounts
    <2>5. CASE StartDeactivation(q)
      BY <2>5, StartDeactivationAccounts
    <2>6. ASSUME NEW i \in Ids, DeactivateRow(q, i) PROVE Accounts(q)'
      BY <2>6, DeactivateRowAccounts
    <2>7. CASE Commit(q) \/ CommitUnacknowledged(q)
      BY <2>7, EndCallAccounts DEF Commit, CommitUnacknowledged
    <2>8. CASE QuarantineFails(q) \/ DeactivationVictim(q) \/ Disconnect(q)
      BY <2>8, EndCallAccounts DEF QuarantineFails, DeactivationVictim,
         Disconnect, Rollback
    <2> QED BY <1>3, <2>1, <2>2, <2>3, <2>4, <2>5, <2>6, <2>7, <2>8 DEF Step
  <1> QED BY <1>1, <1>2, <1>3 DEF Next

\* The accounts are right in every behaviour.
THEOREM CountInvariant == Spec => [](LoaderInv /\ CountInv)
  <1>1. Init => CountInv
    <2>1. SUFFICES ASSUME Init, NEW p \in Procs PROVE Accounts(p)
      BY DEF CountInv
    <2>2. Kept(p) = {} /\ Created(p) = {} /\ Deactivated(p) = {}
      BY <2>1 DEF Init, Kept, Created, Deactivated, NoWrites
    <2> QED BY <2>1, <2>2, FS_EmptySet
            DEF Init, Accounts, Tallied, Written, Bracketed, Found, NoStats, Loaded
  <1> QED BY <1>1, InitEstablishes, NextKeeps, NextKeepsCounts, PTL DEF Spec

-----------------------------------------------------------------------------
(* What a committed load reports.                                          *)

\* Whoever commits has dealt with the whole feed, and what it has written is
\* what the commit leaves in the table.
LEMMA AtCommit ==
    ASSUME LoaderInv, NEW p \in Procs, Commit(p)
    PROVE  /\ pos[p] = Total(feed[p])
           /\ \A i \in Ids : rows'[i] = IF pend[p][i] = NoWrite THEN rows[i]
                                                                ELSE pend[p][i]
  <1>1. pos[p] = Total(feed[p])
    BY DEF Commit, ReadyToCommit, LoaderInv, Place
  <1> QED BY <1>1 DEF Commit, Visible, Merge

\* Every entry of a committed feed is in quarantine or in the table, and the
\* counters of the audit row add up to the feed.
THEOREM EntriesAccountedFor == Spec => EveryEntryAccounted
  <1>1. ASSUME LoaderInv, CountInv, NEW p \in Procs, Commit(p)
        PROVE  LET loaded == 1..Total(feed[p]) \ held[p]
                   I(k) == Entry(feed[p], k).id
               IN /\ \A k \in loaded : ~IsIssue(feed[p], k)
                  /\ \A k \in loaded :
                        (\A j \in loaded : I(j) = I(k) => j <= k) =>
                            rows'[I(k)] = UpsertedRow(Entry(feed[p], k))
                  /\ Cardinality(held[p]) = stats[p].rejected
                  /\ Loaded(stats[p]) + stats[p].rejected = Total(feed[p])
    <2>1. Tallied(p) /\ Written(p)
      BY <1>1 DEF CountInv, Accounts
    <2>2. Kept(p) = 1..Total(feed[p]) \ held[p]
      BY <1>1, AtCommit DEF Kept
    <2>3. ASSUME NEW k \in Kept(p), Latest(p, k)
          PROVE  rows'[Id(p, k)] = UpsertedRow(Entry(feed[p], k))
      <3>1. feed[p] \in Feed /\ k \in 1..Total(feed[p]) /\ ~IsIssue(feed[p], k)
        <4>1. feed[p] \in Feed
          BY <1>1 DEF LoaderInv, TypeOK
        <4>2. k \in 1..Total(feed[p]) /\ ~IsIssue(feed[p], k)
          BY <2>1, <2>2, <2>3 DEF Written
        <4> QED BY <4>1, <4>2
      <3>2. Entry(feed[p], k) \in Record
        BY <3>1, EntryType
      <3>3. Id(p, k) \in Ids /\ UpsertedRow(Entry(feed[p], k)) \in Row
        BY <3>2 DEF Id, Record, UpsertedRow, Row
      <3>4. pend[p][Id(p, k)] = UpsertedRow(Entry(feed[p], k))
        BY <2>1, <2>3 DEF Written
      <3> QED BY <1>1, <3>3, <3>4, AtCommit, MarksAssumption
    <2>4. \A k \in Kept(p) : ~IsIssue(feed[p], k)
      BY <2>1 DEF Written
    <2>5. /\ Cardinality(held[p]) = stats[p].rejected
          /\ Loaded(stats[p]) + stats[p].rejected = Total(feed[p])
      BY <1>1, <2>1, AtCommit DEF Tallied
    <2> QED BY <2>2, <2>3, <2>4, <2>5 DEF Latest, Id
  <1>2. LoaderInv /\ CountInv /\ [Next]_vars =>
          [\A p \in Procs : Commit(p) =>
              LET loaded == 1..Total(feed[p]) \ held[p]
                  I(k) == Entry(feed[p], k).id
              IN /\ \A k \in loaded : ~IsIssue(feed[p], k)
                 /\ \A k \in loaded :
                       (\A j \in loaded : I(j) = I(k) => j <= k) =>
                           rows'[I(k)] = UpsertedRow(Entry(feed[p], k))
                 /\ Cardinality(held[p]) = stats[p].rejected
                 /\ Loaded(stats[p]) + stats[p].rejected = Total(feed[p])]_vars
    BY <1>1
  <1> QED BY <1>2, CountInvariant, PTL DEF Spec, EveryEntryAccounted

\* No row is created that is not counted as inserted, and "deactivated" is the
\* number of rows that leave the catalogue, whoever else is loading.
THEOREM CountersBracket == Spec => CountersBracketEffect
  <1>1. ASSUME LoaderInv, CountInv, NEW p \in Procs, Commit(p)
        PROVE  /\ Cardinality({i \in Ids : rows[i] = NoRow /\ rows'[i] # NoRow})
                      <= stats[p].inserted
               /\ Cardinality(Active(rows) \ Active(rows')) = stats[p].deactivated
    <2>1. Bracketed(p) /\ Writes(p) /\ pend[p] \in [Ids -> Row \cup {NoWrite}]
      BY <1>1 DEF CountInv, Accounts, LoaderInv, TypeOK
    <2>2. {i \in Ids : rows[i] = NoRow /\ rows'[i] # NoRow} = Created(p)
      BY <1>1, <2>1, AtCommit, MarksAssumption DEF Created
    <2>3. Active(rows) \ Active(rows') = Deactivated(p)
      <3>1. ASSUME NEW i \in Ids
            PROVE  (IsActive(rows, i) /\ ~IsActive(rows', i)) <=> i \in Deactivated(p)
        <4>1. rows'[i] = IF pend[p][i] = NoWrite THEN rows[i] ELSE pend[p][i]
          BY <1>1, AtCommit
        <4>2. CASE pend[p][i] = NoWrite
          BY <4>1, <4>2 DEF Deactivated, IsActive
        <4>3. CASE pend[p][i] # NoWrite
          <5>1. rows'[i] = pend[p][i] /\ rows'[i] # NoRow
            BY <2>1, <4>1, <4>3, MarksAssumption
          <5>2. ~pend[p][i].active => IsActive(rows, i)
            BY <2>1, <4>3 DEF Writes
          <5> QED BY <4>3, <5>1, <5>2 DEF Deactivated, IsActive
        <4> QED BY <4>2, <4>3
      <3> QED BY <3>1 DEF Active, Deactivated
    <2> QED BY <2>1, <2>2, <2>3 DEF Bracketed
  <1>2. LoaderInv /\ CountInv /\ [Next]_vars =>
          [\A p \in Procs : Commit(p) =>
              /\ Cardinality({i \in Ids : rows[i] = NoRow /\ rows'[i] # NoRow})
                     <= stats[p].inserted
              /\ Cardinality(Active(rows) \ Active(rows')) = stats[p].deactivated]_vars
    BY <1>1
  <1> QED BY <1>2, CountInvariant, PTL DEF Spec, CountersBracketEffect

-----------------------------------------------------------------------------
(* What a load is to its table, seen from run_ingestion.                   *)

\* A transaction that has loaded nothing has written nothing.
WritesLoaded ==
    \A p \in Procs : \A i \in Ids : pend[p][i] # NoWrite => Loaded(stats[p]) > 0

\* A row is written with a record that is counted, or after one was.
LEMMA NextKeepsWritesLoaded ==
    LoaderInv /\ WritesLoaded /\ [Next]_vars => WritesLoaded'
  <1> SUFFICES ASSUME LoaderInv, WritesLoaded, [Next]_vars, NEW q \in Procs
               PROVE  \A i \in Ids : pend'[q][i] # NoWrite => Loaded(stats'[q]) > 0
    BY DEF WritesLoaded, Loaded
  <1> DEFINE Says(w, s) == \A i \in Ids : w[i] # NoWrite => Loaded(s) > 0
  <1>1. Says(pend[q], stats[q])
    BY DEF WritesLoaded
  <1>2. /\ stats[q] \in LoadStats
        /\ pc \in [Procs -> {"idle", "load", "upsert", "deactivate"}]
        /\ stats \in [Procs -> LoadStats]
        /\ pend \in [Procs -> [Ids -> Row \cup {NoWrite}]]
    BY DEF LoaderInv, TypeOK
  <1>3. CASE pend'[q] = pend[q] /\ Loaded(stats'[q]) = Loaded(stats[q])
    BY <1>1, <1>3
  <1>4. CASE UNCHANGED vars
    BY <1>3, <1>4 DEF vars
  <1>5. ASSUME NEW p \in Procs, p # q,
               Begin(p) \/ Step(p) \/ CommitUnacknowledged(p) \/ Disconnect(p)
        PROVE  Says(pend'[q], stats'[q])
    BY <1>3, <1>5, StepIsOwn
  <1>6. ASSUME Begin(q) \/ Step(q) \/ CommitUnacknowledged(q) \/ Disconnect(q)
        PROVE  Says(pend'[q], stats'[q])
    <2>1. CASE Begin(q) \/ SelectExisting(q) \/ StartDeactivation(q)
      BY <1>3, <2>1 DEF Begin, SelectExisting, StartDeactivation
    <2>2. CASE QuarantineIssue(q) \/ UpsertRefused(q)
      <3>1. /\ pend' = pend
            /\ stats' = [stats EXCEPT ![q] = [stats[q] EXCEPT !.rejected = @ + 1]]
        BY <2>2 DEF QuarantineIssue, UpsertRefused, Reject, Quarantine
      <3>2. Loaded([stats[q] EXCEPT !.rejected = @ + 1]) = Loaded(stats[q])
        BY <1>2 DEF LoadStats, Loaded
      <3> QED BY <1>2, <1>3, <3>1, <3>2
    <2>3. CASE Upsert(q)
      <3>1. stats'[q] = CountLoaded(stats[q], existing[q], Current(q).value)
        BY <1>2, <2>3 DEF Upsert
      <3>2. Loaded(stats'[q]) = Loaded(stats[q]) + 1 /\ Loaded(stats[q]) \in Nat
        BY <1>2, <3>1, CountLoadedOne DEF LoadStats, Loaded
      <3> QED BY <3>2
    <2>4. ASSUME NEW i \in Ids, DeactivateRow(q, i) PROVE Says(pend'[q], stats'[q])
      <3>1. Loaded(stats[q]) > 0
        BY <2>4 DEF DeactivateRow, LoaderInv, Place
      <3>2. \/ stats' = stats
            \/ stats' = [stats EXCEPT ![q] = [stats[q] EXCEPT !.deactivated = @ + 1]]
        BY <2>4 DEF DeactivateRow
      <3>3. Loaded([stats[q] EXCEPT !.deactivated = @ + 1]) = Loaded(stats[q])
        BY <1>2 DEF LoadStats, Loaded
      <3> QED BY <1>2, <3>1, <3>2, <3>3
    <2>5. CASE \E how \in {"ok", "error"} : EndCall(q, how)
      <3>1. pend'[q] = NoWrites
        BY <1>2, <2>5 DEF EndCall
      <3> QED BY <3>1 DEF NoWrites
    <2> QED BY <1>6, <2>1, <2>2, <2>3, <2>4, <2>5
            DEF Step, Commit, CommitUnacknowledged, QuarantineFails,
                DeactivationVictim, Disconnect, Rollback
  <1> QED BY <1>4, <1>5, <1>6 DEF Next

\* A load changes its table by its commit only, and leaves active rows exactly if
\* there were some or it counts a record as loaded: what the model of
\* run_ingestion takes a load for.
THEOREM LoadsFillTheTable == Spec => LoadsFillTable
  <1>1. Init => WritesLoaded
    BY DEF Init, WritesLoaded, NoWrites
  <1>2. ASSUME LoaderInv, WritesLoaded, NEW p \in Procs,
               Commit(p) \/ CommitUnacknowledged(p)
        PROVE  Active(rows') # {} <=> Active(rows) # {} \/ Loaded(stats[p]) > 0
    <2>1. rows' = Visible(p)
      BY <1>2 DEF Commit, CommitUnacknowledged
    <2>2. CASE Loaded(stats[p]) > 0
      <3>1. Activated(p) # {}
        BY <1>2, <2>2 DEF LoaderInv, Activates, Activated
      <3>2. Activated(p) \subseteq Contract!Active(rows')
        BY <1>2, <2>1, CommitIsLoad DEF Contract!LoadOf
      <3>3. Contract!Active(rows') = Active(rows')
        BY DEF Active, IsActive, Contract!Active
      <3> QED BY <2>2, <3>1, <3>2, <3>3
    <2>3. CASE ~(Loaded(stats[p]) > 0)
      <3>1. \A i \in Ids : rows'[i] = rows[i]
        BY <1>2, <2>1, <2>3 DEF WritesLoaded, Visible, Merge
      <3> QED BY <2>3, <3>1 DEF Active, IsActive
    <2> QED BY <2>2, <2>3
  <1>3. ASSUME [Next]_vars, rows' # rows
        PROVE  \E p \in Procs : Commit(p) \/ CommitUnacknowledged(p)
    <2>1. PICK p \in Procs :
              Begin(p) \/ Step(p) \/ CommitUnacknowledged(p) \/ Disconnect(p)
      BY <1>3 DEF Next, vars
    <2> QED BY <1>3, <2>1 DEF Step, Begin, QuarantineIssue, Reject, Quarantine,
            SelectExisting, Upsert, UpsertRefused, StartDeactivation,
            DeactivateRow, QuarantineFails, DeactivationVictim, Disconnect,
            Rollback
  <1>4. LoaderInv /\ WritesLoaded /\ [Next]_vars =>
          [/\ \A p \in Procs : Commit(p) \/ CommitUnacknowledged(p) =>
                 (Active(rows') # {} <=> Active(rows) # {} \/ Loaded(stats[p]) > 0)
           /\ rows' # rows =>
                 \E p \in Procs : Commit(p) \/ CommitUnacknowledged(p)]_vars
    BY <1>2, <1>3
  <1>5. LoaderInv /\ WritesLoaded /\ [Next]_vars => (LoaderInv /\ WritesLoaded)'
    BY NextKeeps, NextKeepsWritesLoaded
  <1>6. Spec => [](LoaderInv /\ WritesLoaded)
    BY <1>1, <1>5, InitEstablishes, PTL DEF Spec
  <1> QED BY <1>4, <1>6, PTL DEF Spec, LoadsFillTable

-----------------------------------------------------------------------------
(* A process that loads alone.  What it has read stays true, so its counters *)
(* and the set of active rows are exact.                                     *)

\* What has been written as active are the kept entries.
ActiveWrites(p) ==
    \A i \in Ids : (pend[p][i] # NoWrite /\ pend[p][i].active)
                       <=> \E k \in Kept(p) : Id(p, k) = i

\* What has been read is still so.
ReadIsCurrent(p) == pc[p] = "upsert" => existing[p] = Visible(p)[Current(p).id]

\* The deactivation misses no row.
NoneMissed(p) ==
    pc[p] = "deactivate" => Active(Visible(p)) \subseteq todo[p] \cup Observed(feed[p])

\* New rows are counted exactly; without a count nothing is to change.
Exact(p) ==
    /\ Cardinality(Created(p)) = stats[p].inserted
    /\ stats[p].inserted + stats[p].updated + stats[p].deactivated = 0 =>
           \A i \in Ids : pend[p][i] # NoWrite => pend[p][i] = rows[i]

AloneInv(p) == ActiveWrites(p) /\ ReadIsCurrent(p) /\ NoneMissed(p) /\ Exact(p)

WhenAlone == \A p \in Procs : Procs = {p} => AloneInv(p)

\* A transaction that has done nothing.
LEMMA AfreshAlone ==
    ASSUME NEW p \in Procs, pos'[p] = 0, held'[p] = {}, stats'[p] = NoStats,
           pend'[p] = NoWrites, pc'[p] \in {"idle", "load"}
    PROVE  AloneInv(p)'
  <1>1. Kept(p)' = {} /\ Created(p)' = {}
    BY DEF Kept, Created, NoWrites
  <1>2. Exact(p)'
    BY <1>1, FS_EmptySet DEF Exact, NoStats, NoWrites
  <1>3. ActiveWrites(p)'
    BY <1>1 DEF ActiveWrites, NoWrites
  <1> QED BY <1>2, <1>3 DEF AloneInv, ReadIsCurrent, NoneMissed

\* A quarantined entry writes nothing.
LEMMA RejectAlone ==
    ASSUME LoaderInv, CountInv, NEW p \in Procs, AloneInv(p), Reject(p)
    PROVE  AloneInv(p)'
  <1>1. /\ pos[p] \in Nat /\ stats[p] \in LoadStats
        /\ pos'[p] = pos[p] + 1 /\ held'[p] = held[p] \cup {pos[p] + 1}
        /\ pc'[p] = "load"
        /\ stats'[p] = [stats[p] EXCEPT !.rejected = @ + 1]
        /\ feed'[p] = feed[p] /\ pend'[p] = pend[p] /\ rows' = rows
    BY DEF LoaderInv, TypeOK, Reject, Quarantine
  <1>2. Kept(p)' = Kept(p)
    BY <1>1 DEF Kept, CountInv, Accounts, Tallied
  <1>3. /\ stats'[p].inserted = stats[p].inserted
        /\ stats'[p].updated = stats[p].updated
        /\ stats'[p].deactivated = stats[p].deactivated
    BY <1>1 DEF LoadStats
  <1>4. Created(p)' = Created(p)
    BY <1>1 DEF Created
  <1>5. ActiveWrites(p)'
    BY <1>1, <1>2 DEF AloneInv, ActiveWrites, Id
  <1>6. Exact(p)'
    BY <1>1, <1>3, <1>4 DEF AloneInv, Exact
  <1> QED BY <1>1, <1>5, <1>6 DEF AloneInv, ReadIsCurrent, NoneMissed

\* The two steps that write nothing: the lookup, and the snapshot.
LEMMA ReadsAlone ==
    ASSUME LoaderInv, NEW p \in Procs, AloneInv(p),
           SelectExisting(p) \/ StartDeactivation(p)
    PROVE  AloneInv(p)'
  <1>1. /\ pos' = pos /\ held' = held /\ stats' = stats /\ feed' = feed
        /\ pend' = pend /\ rows' = rows
    BY DEF SelectExisting, StartDeactivation
  <1>2. ActiveWrites(p)' /\ Exact(p)'
    BY <1>1 DEF AloneInv, ActiveWrites, Exact, Kept, Id, Created
  <1>3. CASE SelectExisting(p)
    <2>1. pc'[p] = "upsert" /\ existing'[p] = Visible(p)[Current(p).id]
      BY <1>3 DEF SelectExisting, LoaderInv, TypeOK
    <2> QED BY <1>1, <1>2, <2>1
            DEF AloneInv, ReadIsCurrent, NoneMissed, Visible, Current
  <1>4. CASE StartDeactivation(p)
    <2>1. pc'[p] = "deactivate" /\ todo'[p] = Active(Visible(p)) \ Observed(feed[p])
      BY <1>4 DEF StartDeactivation, LoaderInv, TypeOK
    <2> QED BY <1>1, <1>2, <2>1
            DEF AloneInv, ReadIsCurrent, NoneMissed, Visible
  <1> QED BY <1>3, <1>4

\* What the three counters of a loaded record say of the row that was read.
LEMMA CountsByRow ==
    ASSUME NEW s \in LoadStats, NEW old \in Row \cup {NoRow}, NEW new
    PROVE  LET c == CountLoaded(s, old, new) IN
           /\ c.inserted = s.inserted + (IF old = NoRow THEN 1 ELSE 0)
           /\ c.inserted + c.updated + c.deactivated = 0 =>
                  /\ s.inserted + s.updated + s.deactivated = 0
                  /\ old \in Row /\ old.value = new /\ old.active
  <1>1. CASE old = NoRow
    BY <1>1 DEF CountLoaded, LoadStats
  <1>2. CASE old # NoRow /\ (old.value # new \/ ~old.active)
    BY <1>2 DEF CountLoaded, LoadStats
  <1>3. CASE old # NoRow /\ ~(old.value # new \/ ~old.active)
    BY <1>3 DEF CountLoaded, LoadStats
  <1> QED BY <1>1, <1>2, <1>3

\* A record is written over the row that was read.
LEMMA UpsertAlone ==
    ASSUME LoaderInv, CountInv, NEW p \in Procs, AloneInv(p), Upsert(p)
    PROVE  AloneInv(p)'
  <1> DEFINE k == pos[p] + 1
             r == Current(p)
             new == UpsertedRow(r)
             c == CountLoaded(stats[p], existing[p], r.value)
  <1>1. /\ pc[p] = "upsert" /\ pos[p] \in Nat /\ stats[p] \in LoadStats
        /\ existing[p] \in Row \cup {NoRow}
        /\ pos'[p] = k /\ held'[p] = held[p] /\ pc'[p] = "load"
        /\ stats'[p] = c
        /\ feed'[p] = feed[p] /\ rows' = rows
        /\ pend'[p] = [pend[p] EXCEPT ![r.id] = new]
        /\ pend[p] \in [Ids -> Row \cup {NoWrite}]
        /\ rows \in [Ids -> Row \cup {NoRow}]
    BY DEF LoaderInv, TypeOK, Upsert
  <1>2. r \in Record /\ r.id \in Ids /\ new \in Row
    BY <1>1, AtRecord DEF Record, UpsertedRow, Row
  <1>3. new.active /\ new = [value |-> r.value, active |-> TRUE]
    BY DEF UpsertedRow
  <1>4. /\ r.id = Id(p, k)
        /\ pend'[p][r.id] = new
        /\ \A i \in Ids : i # r.id => pend'[p][i] = pend[p][i]
    BY <1>1, <1>2 DEF Current, Id
  <1>5. existing[p] = IF pend[p][r.id] = NoWrite THEN rows[r.id] ELSE pend[p][r.id]
    BY <1>1, <1>2 DEF AloneInv, ReadIsCurrent, Visible, Merge
  <1>6. /\ c.inserted = stats[p].inserted + (IF existing[p] = NoRow THEN 1 ELSE 0)
        /\ c.inserted + c.updated + c.deactivated = 0 =>
               /\ stats[p].inserted + stats[p].updated + stats[p].deactivated = 0
               /\ existing[p] \in Row /\ existing[p].value = r.value
               /\ existing[p].active
    BY <1>1, CountsByRow
  <1> HIDE DEF c, r, new
  <1>7. ActiveWrites(p)'
    <2>1. Kept(p)' = Kept(p) \cup {k}
      <3>1. held[p] \subseteq 1..pos[p] /\ 1..k = 1..pos[p] \cup {k} /\ k \notin 1..pos[p]
        BY <1>1 DEF CountInv, Accounts, Tallied
      <3> QED BY <1>1, <3>1 DEF Kept
    <2>2. new # NoWrite
      BY <1>2, MarksAssumption
    <2>3. ASSUME NEW i \in Ids
          PROVE  (pend'[p][i] # NoWrite /\ pend'[p][i].active)
                     <=> \E j \in Kept(p)' : Id(p, j) = i
      <3>1. CASE i = r.id
        BY <1>3, <1>4, <2>1, <2>2, <3>1
      <3>2. CASE i # r.id
        BY <1>4, <2>1, <3>2 DEF AloneInv, ActiveWrites
      <3> QED BY <3>1, <3>2
    <2> QED BY <1>1, <2>3 DEF ActiveWrites, Id
  <1>8. Cardinality(Created(p)') = c.inserted
    <2>1. /\ IsFiniteSet(Created(p)) /\ Cardinality(Created(p)) \in Nat
          /\ Cardinality(Created(p)) = stats[p].inserted
      BY FS_CardinalityType DEF CountInv, Accounts, Bracketed, AloneInv, Exact
    <2>2. CASE existing[p] = NoRow
      <3>1. pend[p][r.id] = NoWrite /\ rows[r.id] = NoRow
        BY <1>1, <1>2, <1>5, <2>2, MarksAssumption
      <3>2. r.id \notin Created(p)
        BY <3>1 DEF Created
      <3>3. Created(p)' = Created(p) \cup {r.id}
        BY <1>1, <1>2, <1>4, <3>1, MarksAssumption DEF Created
      <3>4. Cardinality(Created(p) \cup {r.id}) =
                IF r.id \in Created(p) THEN Cardinality(Created(p))
                                       ELSE Cardinality(Created(p)) + 1
        BY <2>1, FS_AddElement
      <3> QED BY <1>6, <2>1, <2>2, <3>2, <3>3, <3>4
    <2>3. CASE existing[p] # NoRow
      <3>1. Created(p)' = Created(p)
        BY <1>1, <1>2, <1>4, <1>5, <2>3, MarksAssumption DEF Created
      <3> QED BY <1>1, <1>6, <2>1, <2>3, <3>1 DEF LoadStats
    <2> QED BY <2>2, <2>3
  <1>9. ASSUME c.inserted + c.updated + c.deactivated = 0,
               NEW i \in Ids, pend'[p][i] # NoWrite
        PROVE  pend'[p][i] = rows[i]
    <2>1. \A j \in Ids : pend[p][j] # NoWrite => pend[p][j] = rows[j]
      BY <1>6, <1>9 DEF AloneInv, Exact
    <2>2. CASE i # r.id
      BY <1>4, <1>9, <2>1, <2>2
    <2>3. CASE i = r.id
      <3>1. existing[p] = rows[r.id]
        BY <1>2, <1>5, <2>1
      <3>2. existing[p] = [value |-> r.value, active |-> TRUE]
        BY <1>6, <1>9 DEF Row
      <3> QED BY <1>3, <1>4, <2>3, <3>1, <3>2
    <2> QED BY <2>2, <2>3
  <1>10. Exact(p)'
    BY <1>1, <1>8, <1>9 DEF Exact
  <1> QED BY <1>1, <1>7, <1>10 DEF AloneInv, ReadIsCurrent, NoneMissed

\* A row is switched off: an active one, that the feed has not shown.
LEMMA DeactivateRowAlone ==
    ASSUME LoaderInv, NEW p \in Procs, AloneInv(p), NEW i \in Ids,
           DeactivateRow(p, i)
    PROVE  AloneInv(p)'
  <1> DEFINE off == DeactivatedRow(rows[i])
  <1>1. /\ pc[p] = "deactivate" /\ i \in todo[p] /\ LockFree(p, i)
        /\ stats[p] \in LoadStats
        /\ pend[p] \in [Ids -> Row \cup {NoWrite}]
        /\ todo'[p] = todo[p] \ {i}
        /\ UNCHANGED <<rows, pc, feed, pos, existing, held>>
    BY DEF LoaderInv, TypeOK, DeactivateRow
  <1>2. CASE ~IsActive(Visible(p), i)
    <2>1. pend' = pend /\ stats' = stats
      BY <1>2 DEF DeactivateRow
    <2>2. ActiveWrites(p)' /\ Exact(p)'
      BY <1>1, <2>1 DEF AloneInv, ActiveWrites, Exact, Kept, Id, Created
    <2>3. Visible(p)' = Visible(p)
      BY <1>1, <2>1 DEF Visible
    <2>4. NoneMissed(p)'
      BY <1>1, <1>2, <2>3 DEF AloneInv, NoneMissed, Active
    <2> QED BY <1>1, <2>2, <2>4 DEF AloneInv, ReadIsCurrent
  <1>3. CASE IsActive(Visible(p), i)
    <2>1. /\ pend[p][i] = NoWrite /\ IsActive(rows, i) /\ rows[i] \in Row
      BY <1>1, <1>3, DeactivatesCommitted
    <2>2. /\ pend'[p] = [pend[p] EXCEPT ![i] = off]
          /\ stats'[p] = [stats[p] EXCEPT !.deactivated = @ + 1]
      BY <1>1, <1>3, <2>1, DeactivatesCommitted DEF DeactivateRow, LoaderInv, TypeOK
    <2>3. off \in Row /\ ~off.active
      BY <2>1 DEF Row, DeactivatedRow
    <2> HIDE DEF off
    <2>4. off # NoWrite /\ off # NoRow
      BY <2>3, MarksAssumption
    <2>5. /\ pend'[p][i] = off
          /\ \A j \in Ids : j # i => pend'[p][j] = pend[p][j]
      BY <1>1, <2>2
    <2>6. /\ stats'[p].inserted = stats[p].inserted
          /\ stats'[p].inserted + stats'[p].updated + stats'[p].deactivated # 0
      BY <1>1, <2>2 DEF LoadStats
    <2>7. ActiveWrites(p)'
      <3>1. Kept(p)' = Kept(p) /\ \A k : Id(p, k)' = Id(p, k)
        BY <1>1 DEF Kept, Id
      <3> QED BY <2>1, <2>3, <2>5, <3>1 DEF AloneInv, ActiveWrites
    <2>8. Exact(p)'
      <3>1. Created(p)' = Created(p)
        BY <1>1, <2>1, <2>5 DEF Created, IsActive
      <3> QED BY <2>6, <3>1 DEF AloneInv, Exact
    <2>9. NoneMissed(p)'
      <3>1. ASSUME NEW j \in Ids, IsActive(Visible(p)', j)
            PROVE  j # i /\ IsActive(Visible(p), j)
        <4>1. Visible(p)'[j] = IF pend'[p][j] = NoWrite THEN rows[j] ELSE pend'[p][j]
          BY <1>1 DEF Visible, Merge
        <4>2. j # i
          BY <2>3, <2>4, <2>5, <3>1, <4>1 DEF IsActive
        <4>3. Visible(p)[j] = Visible(p)'[j]
          BY <2>5, <4>1, <4>2 DEF Visible, Merge
        <4> QED BY <3>1, <4>2, <4>3 DEF IsActive
      <3> QED BY <1>1, <3>1 DEF AloneInv, NoneMissed, Active
    <2> QED BY <1>1, <2>7, <2>8, <2>9 DEF AloneInv, ReadIsCurrent
  <1> QED BY <1>2, <1>3

\* Every step of a process that is alone keeps this.
LEMMA NextKeepsAlone ==
    ASSUME LoaderInv, CountInv, NEW p, Procs = {p}, AloneInv(p), [Next]_vars
    PROVE  AloneInv(p)'
  <1>0. p \in Procs
    OBVIOUS
  <1>1. CASE UNCHANGED vars
    <2>1. /\ Kept(p)' = Kept(p) /\ Created(p)' = Created(p)
          /\ Visible(p)' = Visible(p) /\ Current(p)' = Current(p)
          /\ \A k : Id(p, k)' = Id(p, k)
      BY <1>1 DEF vars, Kept, Created, Visible, Current, Id
    <2> QED BY <1>1, <2>1
            DEF vars, AloneInv, ActiveWrites, ReadIsCurrent, NoneMissed, Exact
  <1>2. CASE Begin(p)
    <2>1. /\ pos'[p] = 0 /\ held'[p] = {} /\ stats'[p] = NoStats
          /\ pend'[p] = NoWrites /\ pc'[p] = "load"
      BY <1>0, <1>2 DEF Begin, LoaderInv, TypeOK, Place
    <2> QED BY <1>0, <2>1, AfreshAlone
  <1>3. CASE QuarantineIssue(p) \/ UpsertRefused(p)
    BY <1>0, <1>3, RejectAlone DEF QuarantineIssue, UpsertRefused
  <1>4. CASE SelectExisting(p) \/ StartDeactivation(p)
    BY <1>0, <1>4, ReadsAlone
  <1>5. CASE Upsert(p)
    BY <1>0, <1>5, UpsertAlone
  <1>6. ASSUME NEW i \in Ids, DeactivateRow(p, i) PROVE AloneInv(p)'
    BY <1>0, <1>6, DeactivateRowAlone
  <1>7. ASSUME NEW how, EndCall(p, how) PROVE AloneInv(p)'
    <2>1. /\ pos'[p] = 0 /\ held'[p] = {} /\ stats'[p] = NoStats
          /\ pend'[p] = NoWrites /\ pc'[p] = "idle"
      BY <1>0, <1>7 DEF EndCall, LoaderInv, TypeOK
    <2> QED BY <1>0, <2>1, AfreshAlone
  <1>8. CASE \/ Commit(p) \/ CommitUnacknowledged(p) \/ QuarantineFails(p)
             \/ DeactivationVictim(p) \/ Disconnect(p)
    BY <1>7, <1>8 DEF Commit, CommitUnacknowledged, QuarantineFails,
       DeactivationVictim, Disconnect, Rollback
  <1> QED BY <1>1, <1>2, <1>3, <1>4, <1>5, <1>6, <1>8 DEF Next, Step

\* Where a process loads alone, what it knows of the table is right.
LEMMA AloneInvariant == Spec => [](LoaderInv /\ CountInv /\ WhenAlone)
  <1>1. Init => WhenAlone
    <2>1. SUFFICES ASSUME Init, NEW p \in Procs PROVE AloneInv(p)
      BY DEF WhenAlone
    <2>2. Kept(p) = {} /\ Created(p) = {}
      BY <2>1 DEF Init, Kept, Created, NoWrites
    <2>3. ActiveWrites(p)
      BY <2>1, <2>2 DEF Init, ActiveWrites, NoWrites
    <2>4. Exact(p)
      BY <2>1, <2>2, FS_EmptySet DEF Init, Exact, NoStats, NoWrites
    <2> QED BY <2>1, <2>3, <2>4 DEF Init, AloneInv, ReadIsCurrent, NoneMissed
  <1>2. LoaderInv /\ CountInv /\ WhenAlone /\ [Next]_vars => WhenAlone'
    BY NextKeepsAlone DEF WhenAlone
  <1> QED BY <1>1, <1>2, CountInvariant, PTL DEF Spec

\* With nobody else loading, exactly the kept entries are active afterwards, and
\* the rows of quarantined entries that were active before.
THEOREM FeedIsActive ==
    ASSUME NEW CONSTANT only, Procs = {only}
    PROVE  Spec => ActiveIsTheFeed
  <1>1. ASSUME LoaderInv, CountInv, AloneInv(only), Commit(only), Loaded(stats[only]) > 0
        PROVE  Active(rows') =
                   {Id(only, k) : k \in 1..Total(feed[only]) \ held[only]}
                     \cup (Active(rows) \cap {Id(only, k) : k \in held[only]})
    <2>0. /\ only \in Procs /\ feed[only] \in Feed
          /\ rows \in [Ids -> Row \cup {NoRow}]
          /\ pend[only] \in [Ids -> Row \cup {NoWrite}]
      BY <1>1 DEF LoaderInv, TypeOK
    <2>1. /\ Kept(only) = 1..Total(feed[only]) \ held[only]
          /\ held[only] \subseteq 1..Total(feed[only])
      BY <1>1, <2>0, AtCommit DEF Kept, CountInv, Accounts, Tallied
    <2>2. \A i \in Ids : rows'[i] = IF pend[only][i] = NoWrite THEN rows[i]
                                                            ELSE pend[only][i]
      BY <1>1, <2>0, AtCommit
    <2>3. \A i \in Ids : IsActive(rows', i) <=>
              \/ pend[only][i] # NoWrite /\ pend[only][i].active
              \/ pend[only][i] = NoWrite /\ IsActive(rows, i)
      BY <2>0, <2>2, MarksAssumption DEF IsActive
    <2>4. \A i \in Ids : (pend[only][i] # NoWrite /\ pend[only][i].active)
                             <=> \E k \in Kept(only) : Id(only, k) = i
      BY <1>1 DEF AloneInv, ActiveWrites
    <2>5. ASSUME NEW i \in Ids, pend[only][i] = NoWrite, IsActive(rows, i)
          PROVE  \E k \in held[only] : Id(only, k) = i
      <3>1. i \in Observed(feed[only])
        <4>1. pc[only] = "deactivate" /\ todo[only] = {}
          <5>1. Observed(feed[only]) # {}
            <6>1. PICK j \in Ids : pend[only][j] # NoWrite /\ pend[only][j].active
              BY <1>1, <2>0 DEF LoaderInv, Activates
            <6>2. Writes(only)
              BY <1>1, <2>0 DEF LoaderInv
            <6>3. pend[only][j] # [value |-> rows[j].value, active |-> FALSE]
              BY <6>1
            <6>4. j \in Observed(feed[only])
              BY <6>1, <6>2, <6>3 DEF Writes
            <6> QED BY <6>4
          <5> QED BY <1>1, <5>1 DEF Commit, ReadyToCommit
        <4>2. IsActive(Visible(only), i)
          BY <2>5 DEF Visible, Merge, IsActive
        <4> QED BY <1>1, <4>1, <4>2 DEF AloneInv, NoneMissed, Active
      <3>2. PICK k \in 1..Total(feed[only]) : Id(only, k) = i
        BY <3>1 DEF Observed, Id
      <3>3. k \notin Kept(only)
        BY <2>4, <2>5, <3>2
      <3> QED BY <2>1, <3>2, <3>3
    <2>6. ASSUME NEW k \in Kept(only) PROVE Id(only, k) \in Ids
      <3>1. k \in 1..Total(feed[only]) /\ ~IsIssue(feed[only], k)
        BY <1>1, <2>0, <2>1 DEF CountInv, Accounts, Written
      <3> QED BY <2>0, <3>1, EntryType DEF Id, Record
    <2>7. ASSUME NEW i \in Ids, IsActive(rows, i), NEW k \in held[only], Id(only, k) = i
          PROVE  IsActive(rows', i)
      <3>1. i \in Observed(feed[only])
        BY <2>1, <2>7 DEF Observed, Id
      <3>2. pend[only][i] # NoWrite => pend[only][i].active
        BY <1>1, <2>0, <3>1 DEF LoaderInv, Writes
      <3> QED BY <2>3, <2>7, <3>2
    <2>8. ASSUME NEW i \in Ids
          PROVE  IsActive(rows', i) <=>
                     \/ \E k \in Kept(only) : Id(only, k) = i
                     \/ IsActive(rows, i) /\ \E k \in held[only] : Id(only, k) = i
      BY <2>3, <2>4, <2>5, <2>7
    <2> QED BY <2>1, <2>6, <2>8 DEF Active
  <1>2. LoaderInv /\ CountInv /\ WhenAlone /\ [Next]_vars =>
          [\A p \in Procs : Commit(p) /\ Loaded(stats[p]) > 0 =>
              Active(rows') =
                  LET I(k) == Entry(feed[p], k).id IN
                  {I(k) : k \in 1..Total(feed[p]) \ held[p]}
                    \cup (Active(rows) \cap {I(k) : k \in held[p]})]_vars
    BY <1>1 DEF Id, WhenAlone
  <1> QED BY <1>2, AloneInvariant, PTL DEF Spec, ActiveIsTheFeed

\* With nobody else loading, "inserted" counts the new rows, and a load that
\* reports no change makes none.
THEOREM CountersAreExact ==
    ASSUME NEW CONSTANT only, Procs = {only}
    PROVE  Spec => CountersExact
  <1>1. ASSUME LoaderInv, CountInv, AloneInv(only), Commit(only)
        PROVE  /\ stats[only].inserted =
                      Cardinality({i \in Ids : rows[i] = NoRow /\ rows'[i] # NoRow})
               /\ stats[only].inserted + stats[only].updated + stats[only].deactivated = 0
                      => rows' = rows
    <2>0. /\ only \in Procs
          /\ rows \in [Ids -> Row \cup {NoRow}]
          /\ pend[only] \in [Ids -> Row \cup {NoWrite}]
      BY <1>1 DEF LoaderInv, TypeOK
    <2>1. rows' \in [Ids -> Row \cup {NoRow}]
      BY <1>1, <2>0, MergeType DEF Commit, Visible
    <2>2. \A i \in Ids : rows'[i] = IF pend[only][i] = NoWrite THEN rows[i]
                                                            ELSE pend[only][i]
      BY <1>1, <2>0, AtCommit
    <2>3. {i \in Ids : rows[i] = NoRow /\ rows'[i] # NoRow} = Created(only)
      BY <2>0, <2>2, MarksAssumption DEF Created
    <2>4. ASSUME stats[only].inserted + stats[only].updated + stats[only].deactivated = 0
          PROVE  rows' = rows
      <3>1. \A i \in Ids : rows'[i] = rows[i]
        BY <1>1, <2>2, <2>4 DEF AloneInv, Exact
      <3> QED BY <2>0, <2>1, <3>1
    <2> QED BY <1>1, <2>3, <2>4 DEF AloneInv, Exact
  <1>2. LoaderInv /\ CountInv /\ WhenAlone /\ [Next]_vars =>
          [\A p \in Procs : Commit(p) =>
              /\ stats[p].inserted =
                     Cardinality({i \in Ids : rows[i] = NoRow /\ rows'[i] # NoRow})
              /\ stats[p].inserted + stats[p].updated + stats[p].deactivated = 0
                     => rows' = rows]_vars
    BY <1>1 DEF WhenAlone
  <1> QED BY <1>2, AloneInvariant, PTL DEF Spec, CountersExact
=============================================================================
