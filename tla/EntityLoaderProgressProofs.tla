--------------------- MODULE EntityLoaderProgressProofs ---------------------
(***************************************************************************)
(* What can be proved, for any finite number of processes and ids, of the  *)
(* claim that every call of load_entity ends: no set of loads waits for    *)
(* each other without a deadlock PostgreSQL breaks, and every step brings  *)
(* the call that takes it nearer to its end.                               *)
(***************************************************************************)
EXTENDS EntityLoaderProofs

-----------------------------------------------------------------------------
(* Cycles.                                                                 *)

\* A function from a finite set to itself permutes some part of it: follow it
\* from anywhere, and you end up on a cycle.
LEMMA SomePartPermuted ==
    ASSUME NEW S, IsFiniteSet(S), S # {}, NEW f \in [S -> S]
    PROVE  \E T \in SUBSET S :
              /\ T # {}
              /\ \A x \in T : f[x] \in T
              /\ \A x, y \in T : f[x] = f[y] => x = y
  <1> DEFINE Closed == {T \in SUBSET S : T # {} /\ \A x \in T : f[x] \in T}
  <1>1. S \in Closed
    OBVIOUS
  <1>2. IsWellFoundedOn(StrictSubsetOrdering(S), SUBSET S)
    BY FS_StrictSubsetOrderingWellFounded, FS_FiniteSubsetsOfFinite
  <1>3. Closed \subseteq SUBSET S /\ Closed # {}
    BY <1>1
  <1> HIDE DEF Closed
  <1>4. PICK T \in Closed :
            \A U \in Closed : <<U, T>> \notin StrictSubsetOrdering(S)
    BY <1>2, <1>3, WFMin
  <1>5. T \in SUBSET S /\ T # {} /\ \A x \in T : f[x] \in T
    BY DEF Closed
  <1> DEFINE U == {f[x] : x \in T}
             g == [x \in T |-> f[x]]
  <1>6. U \in Closed
    BY <1>5 DEF Closed
  <1>7. U = T
    <2>1. U \subseteq T /\ U \in SUBSET S
      BY <1>5
    <2> HIDE DEF U
    <2> QED BY <1>4, <1>5, <1>6, <2>1 DEF StrictSubsetOrdering
  <1>8. g \in Surjection(T, T)
    BY <1>5, <1>7 DEF Surjection
  <1>9. IsFiniteSet(T)
    BY <1>5, FS_Subset
  <1>10. g \in Injection(T, T)
    <2> HIDE DEF g
    <2> QED BY <1>8, <1>9, FS_SurjSameCardinalityImpliesInj
  <1>11. \A x, y \in T : f[x] = f[y] => x = y
    BY <1>10 DEF Injection, IsInjective
  <1> QED BY <1>5, <1>11

\* Processes that each wait for one of them are not all free of a deadlock.
LEMMA WaitingInACircle ==
    ASSUME IsFiniteSet(Procs), NEW S \in SUBSET Procs, S # {},
           \A p \in S : \E q \in S : WaitsFor(p, q)
    PROVE  \E p \in S : Deadlocked(p)
  <1> DEFINE f == [p \in S |-> CHOOSE q \in S : WaitsFor(p, q)]
  <1>1. f \in [S -> S] /\ \A p \in S : WaitsFor(p, f[p])
    OBVIOUS
  <1>2. IsFiniteSet(S)
    BY FS_Subset
  <1> HIDE DEF f
  <1>3. PICK T \in SUBSET S : /\ T # {}
                              /\ \A x \in T : f[x] \in T
                              /\ \A x, y \in T : f[x] = f[y] => x = y
    BY <1>1, <1>2, SomePartPermuted
  <1> DEFINE g == [x \in T |-> f[x]]
  <1>4. /\ g \in [T -> T]
        /\ \A q \in T : WaitsFor(q, g[q])
        /\ \A q, r \in T : g[q] = g[r] => q = r
    BY <1>1, <1>3
  <1> HIDE DEF g
  <1>5. T \in SUBSET Procs
    BY <1>3
  <1>6. PICK p \in T : p \in S
    BY <1>3
  <1>7. Deadlocked(p)
    BY <1>4, <1>5 DEF Deadlocked
  <1> QED BY <1>6, <1>7

-----------------------------------------------------------------------------
(* A lock is held by a load that is running.                               *)

HoldersRun == \A i \in Ids : owner[i] \in Procs => pc[owner[i]] # "idle"

\* A lock is taken by the process that moves, in a call, and all of a call's
\* locks are released when it ends.
LEMMA HoldersKeepRunning ==
    ASSUME LoaderInv, HoldersRun, [Next]_vars
    PROVE  HoldersRun'
  <1> USE DEF HoldersRun
  <1>1. CASE UNCHANGED vars
    BY <1>1 DEF vars
  <1>2. CASE Next
    <2>1. PICK p \in Procs :
              Begin(p) \/ Step(p) \/ CommitUnacknowledged(p) \/ Disconnect(p)
      BY <1>2 DEF Next
    <2>2. /\ owner \in [Ids -> Procs \cup {NoProc}]
          /\ pc \in [Procs -> {"idle", "load", "upsert", "deactivate"}]
      BY DEF LoaderInv, TypeOK
    <2>3. CASE /\ owner' = owner
               /\ \E w \in {"load", "upsert", "deactivate"} :
                     pc' = [pc EXCEPT ![p] = w]
      BY <2>2, <2>3
    <2>4. CASE \E i \in Ids : /\ owner' = [owner EXCEPT ![i] = p]
                              /\ pc[p] # "idle"
                              /\ pc' = pc \/ pc' = [pc EXCEPT ![p] = "load"]
      BY <2>2, <2>4
    <2>5. CASE \E how \in {"ok", "error"} : EndCall(p, how)
      <3>1. /\ owner' = [i \in Ids |-> IF owner[i] = p THEN NoProc ELSE owner[i]]
            /\ pc' = [pc EXCEPT ![p] = "idle"]
        BY <2>5 DEF EndCall
      <3> QED BY <2>2, <3>1, MarksAssumption
    <2>6. CASE Begin(p) \/ QuarantineIssue(p) \/ SelectExisting(p)
               \/ UpsertRefused(p) \/ StartDeactivation(p)
      BY <2>3, <2>6 DEF Begin, QuarantineIssue, SelectExisting, UpsertRefused,
         StartDeactivation, Reject, Quarantine
    <2>7. CASE Upsert(p)
      <3>1. Current(p).id \in Ids
        BY <2>7, AtRecord DEF Upsert, Record
      <3> QED BY <2>4, <2>7, <3>1 DEF Upsert
    <2>8. CASE \E i \in Ids : DeactivateRow(p, i)
      BY <2>4, <2>8 DEF DeactivateRow
    <2>9. CASE Commit(p) \/ QuarantineFails(p) \/ DeactivationVictim(p)
               \/ CommitUnacknowledged(p) \/ Disconnect(p)
      BY <2>5, <2>9 DEF Commit, QuarantineFails, DeactivationVictim,
         CommitUnacknowledged, Disconnect, Rollback
    <2> QED BY <2>1, <2>6, <2>7, <2>8, <2>9 DEF Step
  <1> QED BY <1>1, <1>2

\* The invariant holds of every behaviour.
LEMMA HoldersInvariant == Spec => [](LoaderInv /\ HoldersRun)
  <1>1. Init => LoaderInv /\ HoldersRun
    BY InitEstablishes, MarksAssumption DEF Init, HoldersRun
  <1>2. LoaderInv /\ HoldersRun /\ [Next]_vars => (LoaderInv /\ HoldersRun)'
    BY NextKeeps, HoldersKeepRunning
  <1> QED BY <1>1, <1>2, PTL DEF Spec

\* The rows a statement may be waiting for are rows of the table.
LEMMA WantsRows ==
    ASSUME LoaderInv, NEW p \in Procs
    PROVE  Wants(p) \subseteq Ids
  <1>1. CASE pc[p] = "upsert"
    BY <1>1, AtRecord DEF Wants, Record
  <1>2. CASE pc[p] = "deactivate"
    BY <1>2 DEF Wants, LoaderInv, TypeOK
  <1>3. CASE pc[p] \notin {"upsert", "deactivate"}
    BY <1>3 DEF Wants
  <1> QED BY <1>1, <1>2, <1>3

\* However many loads run at once, no set of them is stuck on row locks: one of
\* the set is on a cycle, which PostgreSQL breaks, or waits for a running load
\* outside the set.
THEOREM LoadsNeverStuck ==
    ASSUME IsFiniteSet(Procs)
    PROVE  Spec => []NobodyStuck
  <1>1. ASSUME LoaderInv, HoldersRun
        PROVE  NobodyStuck
    <2>1. SUFFICES ASSUME NEW S \in SUBSET Procs, S # {},
                          \A p \in S : Waiting(p),
                          ~\E p \in S, q \in Procs \ S :
                                WaitsFor(p, q) /\ pc[q] # "idle"
                   PROVE  \E p \in S : Deadlocked(p)
      BY DEF NobodyStuck
    <2>2. ASSUME NEW p \in S PROVE \E q \in S : WaitsFor(p, q)
      <3>1. PICK i \in Wants(p) : ~LockFree(p, i)
        BY <2>1 DEF Waiting
      <3>2. i \in Ids /\ owner[i] \in Procs \cup {NoProc}
        BY <1>1, WantsRows DEF LoaderInv, TypeOK
      <3>3. owner[i] \in Procs /\ owner[i] # p
        BY <3>1, <3>2 DEF LockFree
      <3>4. WaitsFor(p, owner[i])
        BY <3>1, <3>3 DEF WaitsFor
      <3>5. pc[owner[i]] # "idle"
        BY <1>1, <3>2, <3>3 DEF HoldersRun
      <3> QED BY <2>1, <3>3, <3>4, <3>5
    <2> QED BY <2>1, <2>2, WaitingInACircle
  <1> QED BY <1>1, HoldersInvariant, PTL

-----------------------------------------------------------------------------
(* Every step brings a load nearer to its end.                             *)

\* Where a call is, without its locks and rows, told from what StepsLeft reads.
LEMMA StepsLeftValues ==
    ASSUME LoaderInv, IsFiniteSet(Ids), NEW p \in Procs
    PROVE  /\ Cardinality(Ids) \in Nat
           /\ Cardinality(todo[p]) \in Nat
           /\ Cardinality(todo[p]) <= Cardinality(Ids)
           /\ pos[p] \in Nat /\ Total(feed[p]) \in Nat
           /\ pos[p] <= Total(feed[p])
           /\ IsFiniteSet(todo[p])
  <1>1. /\ todo[p] \in SUBSET Ids /\ pos[p] \in Nat /\ feed[p] \in Feed
        /\ pos[p] <= Total(feed[p])
    BY DEF LoaderInv, TypeOK
  <1>2. /\ Cardinality(Ids) \in Nat
        /\ IsFiniteSet(todo[p])
        /\ Cardinality(todo[p]) <= Cardinality(Ids)
    BY <1>1, FS_Subset, FS_CardinalityType
  <1>3. Cardinality(todo[p]) \in Nat
    BY <1>2, FS_CardinalityType
  <1> QED BY <1>1, <1>2, <1>3, FeedLengths

\* A process moves itself and no other one.
LEMMA MovesItself ==
    ASSUME LoaderInv, NEW p \in Procs, NEW q \in Procs, q # p,
           Begin(p) \/ Step(p) \/ CommitUnacknowledged(p) \/ Disconnect(p)
    PROVE  StepsLeft(q)' = StepsLeft(q)
  <1>1. /\ pc'[q] = pc[q] /\ feed'[q] = feed[q]
        /\ pos'[q] = pos[q] /\ todo'[q] = todo[q]
    <2>1. CASE Begin(p) \/ SelectExisting(p) \/ Upsert(p) \/ StartDeactivation(p)
               \/ QuarantineIssue(p) \/ UpsertRefused(p)
      BY <2>1 DEF Begin, SelectExisting, Upsert, StartDeactivation,
         QuarantineIssue, UpsertRefused, Reject, Quarantine, LoaderInv, TypeOK
    <2>2. CASE \E i \in Ids : DeactivateRow(p, i)
      BY <2>2 DEF DeactivateRow, LoaderInv, TypeOK
    <2>3. CASE \E how \in {"ok", "error"} : EndCall(p, how)
      BY <2>3 DEF EndCall, LoaderInv, TypeOK
    <2>4. CASE Commit(p) \/ QuarantineFails(p) \/ DeactivationVictim(p)
               \/ CommitUnacknowledged(p) \/ Disconnect(p)
      BY <2>3, <2>4 DEF Commit, QuarantineFails, DeactivationVictim,
         CommitUnacknowledged, Disconnect, Rollback
    <2> QED BY <2>1, <2>2, <2>4 DEF Step
  <1> QED BY <1>1 DEF StepsLeft

\* A call that ends has nothing left to do.
LEMMA EndingIsProgress ==
    ASSUME LoaderInv, IsFiniteSet(Ids), NEW p \in Procs, pc[p] # "idle",
           NEW how, EndCall(p, how)
    PROVE  /\ StepsLeft(p)' < StepsLeft(p)
           /\ StepsLeft(p)' <= StepsLeft(p)
  <1>1. pc'[p] = "idle"
    BY DEF EndCall, LoaderInv, TypeOK
  <1>2. StepsLeft(p)' = 0
    BY <1>1 DEF StepsLeft
  <1>3. pc[p] \in {"load", "upsert", "deactivate"}
    BY DEF LoaderInv, TypeOK
  <1>4. StepsLeft(p) \in Nat /\ StepsLeft(p) > 0
    BY <1>3, StepsLeftValues DEF StepsLeft
  <1> QED BY <1>2, <1>4

\* An entry dealt with is two steps less.
LEMMA EntryIsProgress ==
    ASSUME LoaderInv, IsFiniteSet(Ids), NEW p \in Procs,
           pc[p] \in {"load", "upsert"}, pos[p] < Total(feed[p]),
           pc' = [pc EXCEPT ![p] = "load"],
           pos' = [pos EXCEPT ![p] = pos[p] + 1], feed' = feed
    PROVE  /\ StepsLeft(p)' < StepsLeft(p)
           /\ StepsLeft(p)' <= StepsLeft(p)
  <1>1. pc'[p] = "load" /\ pos'[p] = pos[p] + 1 /\ feed'[p] = feed[p]
    BY DEF LoaderInv, TypeOK
  <1>2. StepsLeft(p)' = 2 * (Total(feed[p]) - (pos[p] + 1)) + Cardinality(Ids) + 2
    BY <1>1 DEF StepsLeft
  <1>3. \/ StepsLeft(p) = 2 * (Total(feed[p]) - pos[p]) + Cardinality(Ids) + 1
        \/ StepsLeft(p) = 2 * (Total(feed[p]) - pos[p]) + Cardinality(Ids) + 2
    BY DEF StepsLeft
  <1>4. ASSUME NEW t \in Nat, NEW k \in Nat, NEW n \in Nat,
               NEW before \in {2 * (t - k) + n + 1, 2 * (t - k) + n + 2}
        PROVE  /\ 2 * (t - (k + 1)) + n + 2 < before
               /\ 2 * (t - (k + 1)) + n + 2 <= before
    BY <1>4
  <1> QED BY <1>2, <1>3, <1>4, StepsLeftValues

\* Each step of a call leaves it fewer steps.
LEMMA StepIsProgress ==
    ASSUME LoaderInv, IsFiniteSet(Ids), NEW p \in Procs, Step(p)
    PROVE  /\ StepsLeft(p)' < StepsLeft(p)
           /\ StepsLeft(p)' <= StepsLeft(p)
  <1>1. /\ pc \in [Procs -> {"idle", "load", "upsert", "deactivate"}]
        /\ todo \in [Procs -> SUBSET Ids]
    BY DEF LoaderInv, TypeOK
  <1>2. CASE QuarantineIssue(p)
    <2>1. pos[p] < Total(feed[p])
      BY <1>2, FeedLengths, StepsLeftValues DEF QuarantineIssue, LoaderInv, TypeOK
    <2> QED BY <1>2, <2>1, EntryIsProgress DEF QuarantineIssue, Reject, Quarantine
  <1>3. CASE SelectExisting(p)
    <2>1. pc[p] = "load" /\ pc'[p] = "upsert" /\ feed' = feed /\ pos' = pos
      BY <1>1, <1>3 DEF SelectExisting
    <2>2. StepsLeft(p)' = StepsLeft(p) - 1
      BY <2>1, StepsLeftValues DEF StepsLeft
    <2>3. StepsLeft(p) \in Nat
      BY <2>1, StepsLeftValues DEF StepsLeft
    <2> QED BY <2>2, <2>3
  <1>4. CASE Upsert(p)
    <2>1. pc[p] = "upsert" /\ pos[p] < Total(feed[p])
      BY <1>4 DEF Upsert, LoaderInv, Place
    <2> QED BY <1>4, <2>1, EntryIsProgress DEF Upsert
  <1>5. CASE UpsertRefused(p)
    <2>1. pc[p] = "upsert" /\ pos[p] < Total(feed[p])
      BY <1>5 DEF UpsertRefused, LoaderInv, Place
    <2> QED BY <1>5, <2>1, EntryIsProgress DEF UpsertRefused, Reject, Quarantine
  <1>6. CASE StartDeactivation(p)
    <2>1. /\ pc[p] = "load" /\ pc'[p] = "deactivate"
          /\ todo'[p] \in SUBSET Ids
      BY <1>1, <1>6 DEF StartDeactivation, Active
    <2>2. Cardinality(todo'[p]) <= Cardinality(Ids) /\ Cardinality(todo'[p]) \in Nat
      BY <2>1, FS_Subset, FS_CardinalityType
    <2>3. StepsLeft(p)' = Cardinality(todo'[p]) + 1
      BY <2>1 DEF StepsLeft
    <2>4. StepsLeft(p) >= Cardinality(Ids) + 2
      BY <2>1, StepsLeftValues DEF StepsLeft
    <2>5. StepsLeft(p) \in Nat
      BY <2>1, StepsLeftValues DEF StepsLeft
    <2> QED BY <2>2, <2>3, <2>4, <2>5, StepsLeftValues
  <1>7. CASE \E i \in Ids : DeactivateRow(p, i)
    <2>1. PICK i \in todo[p] : /\ pc[p] = "deactivate" /\ pc' = pc
                               /\ todo'[p] = todo[p] \ {i}
      BY <1>1, <1>7 DEF DeactivateRow
    <2>2. Cardinality(todo'[p]) = Cardinality(todo[p]) - 1
      BY <2>1, StepsLeftValues, FS_RemoveElement
    <2>3. /\ StepsLeft(p)' = Cardinality(todo'[p]) + 1
          /\ StepsLeft(p) = Cardinality(todo[p]) + 1
      BY <2>1 DEF StepsLeft
    <2> QED BY <2>2, <2>3, StepsLeftValues
  <1>8. CASE Commit(p) \/ QuarantineFails(p) \/ DeactivationVictim(p)
    <2>1. pc[p] # "idle" /\ \E how : EndCall(p, how)
      BY <1>8 DEF Commit, ReadyToCommit, QuarantineFails, DeactivationVictim,
         Rollback
    <2> QED BY <2>1, EndingIsProgress
  <1> QED BY <1>2, <1>3, <1>4, <1>5, <1>6, <1>7, <1>8 DEF Step

\* Every step of a load brings its own end nearer and none takes another load
\* away from its end, however many rows there are.
THEOREM LoadsProgress ==
    ASSUME IsFiniteSet(Ids)
    PROVE  Spec => LoadProgress
  <1>1. ASSUME LoaderInv, [Next]_vars
        PROVE  [\A p \in Procs :
                  /\ pc[p] # "idle" => StepsLeft(p)' <= StepsLeft(p)
                  /\ Step(p) => StepsLeft(p)' < StepsLeft(p)]_vars
    <2>1. SUFFICES ASSUME vars' # vars, NEW p \in Procs
                   PROVE  /\ pc[p] # "idle" => StepsLeft(p)' <= StepsLeft(p)
                          /\ Step(p) => StepsLeft(p)' < StepsLeft(p)
      OBVIOUS
    <2>2. ASSUME Step(p) PROVE StepsLeft(p)' < StepsLeft(p)
      BY <1>1, <2>2, StepIsProgress
    <2>3. ASSUME pc[p] # "idle" PROVE StepsLeft(p)' <= StepsLeft(p)
      <3>1. PICK q \in Procs :
                Begin(q) \/ Step(q) \/ CommitUnacknowledged(q) \/ Disconnect(q)
        BY <1>1, <2>1 DEF Next
      <3>2. CASE q # p
        <4>1. StepsLeft(p)' = StepsLeft(p)
          BY <1>1, <3>1, <3>2, MovesItself
        <4>2. pc[p] \in {"load", "upsert", "deactivate"}
          BY <1>1, <2>3 DEF LoaderInv, TypeOK
        <4>3. StepsLeft(p) \in Int
          BY <1>1, <4>2, StepsLeftValues DEF StepsLeft
        <4> QED BY <4>1, <4>3
      <3>3. CASE q = p
        <4>1. CASE Step(p)
          BY <1>1, <4>1, StepIsProgress
        <4>2. CASE CommitUnacknowledged(p) \/ Disconnect(p)
          <5>1. EndCall(p, "error")
            BY <4>2 DEF CommitUnacknowledged, Disconnect, Rollback
          <5> QED BY <1>1, <2>3, <5>1, EndingIsProgress
        <4> QED BY <2>3, <3>1, <3>3, <4>1, <4>2 DEF Begin
      <3> QED BY <3>2, <3>3
    <2> QED BY <2>2, <2>3
  <1> QED BY <1>1, LoaderInvariant, PTL DEF Spec, LoadProgress
=============================================================================
