------------------------- MODULE IngestionRunProofs -------------------------
(***************************************************************************)
(* Theorems about IngestionRun for any number of attempts and entities.    *)
(* The audit row is written from an attempt's counters, so the properties  *)
(* rest on what relates the counters to what was committed: they agree as  *)
(* long as the connection lives, and once it is broken the counters can no *)
(* longer be written anywhere.                                             *)
(***************************************************************************)
EXTENDS IngestionRun, TLAPS

-----------------------------------------------------------------------------
(* The inductive invariant.                                                *)

InLoop(a) == pc[a] \in {"create", "extract", "load", "finish"}

\* How many entities the loop is through with.
Done(a) == IF pc[a] = "finish" THEN EntityCount ELSE entity[a] - 1

\* good[a] counts entities of the past only, and an attempt about to load has
\* records.
Counting(a) ==
    /\ InLoop(a) => good[a] <= Done(a)
    /\ pc[a] \in {"ready", "create"} => entity[a] = 1
    /\ pc[a] = "load" => current[a] # Nothing

\* While the connection lives, the counters are those of the committed loads.
Agrees(a) ==
    /\ totals[a].inserted = landed[a].counts.inserted
    /\ totals[a].updated = landed[a].counts.updated
    /\ totals[a].rejected = landed[a].counts.rejected

\* While the connection lives, good[a] tells whether every entity so far, or
\* none, has landed.
Complete(a) ==
    /\ landed[a].entities \subseteq 1..Done(a)
    /\ good[a] = Done(a) <=> landed[a].entities = 1..Done(a)
    /\ good[a] = 0 <=> landed[a].entities = {}

Unstarted(a) ==
    /\ landed[a] = [counts |-> Zero, entities |-> {}]
    /\ totals[a] = Zero
    /\ good[a] = 0

AttemptInv(a) ==
    /\ Counting(a)
    /\ pc[a] = "ready" => Unstarted(a) /\ ~link[a]
    /\ link[a] => Agrees(a)
    /\ link[a] /\ InLoop(a) => Complete(a)
    /\ landed[a].counts.rejected = 0 => \A e \in landed[a].entities : active[e]

\* The attempt whose counters are in a closed row will load nothing more.
Told == audit # NoRow /\ audit.status \in Terminal =>
            \E a \in Attempts : pc[a] \in {"abort", "over"} /\ TellsOf(a)

RunInv == TypeOK /\ Told /\ \A a \in Attempts : AttemptInv(a)

-----------------------------------------------------------------------------
(* Frames: what a step of one attempt leaves alone.                        *)

\* b's own state is as it was.
Frame(b) ==
    /\ pc'[b] = pc[b] /\ entity'[b] = entity[b] /\ current'[b] = current[b]
    /\ totals'[b] = totals[b] /\ good'[b] = good[b]
    /\ link'[b] = link[b] /\ landed'[b] = landed[b]

\* No load empties a table.
Grows == \A e \in Entities : active[e] => active'[e]

\* The invariant of an attempt outlives the steps of the others.
LEMMA OthersKeep ==
    ASSUME NEW b \in Attempts, TypeOK, AttemptInv(b), Frame(b), Grows
    PROVE  AttemptInv(b)'
  <1>1. landed[b].entities \subseteq Entities
    BY DEF TypeOK, History
  <1>2. Done(b)' = Done(b) /\ InLoop(b)' = InLoop(b)
    BY DEF Frame, Done, InLoop
  <1>3. Counting(b)'
    BY <1>2 DEF AttemptInv, Counting, Frame
  <1>4. (pc[b] = "ready" => Unstarted(b) /\ ~link[b])'
    BY DEF AttemptInv, Unstarted, Frame
  <1>5. (link[b] => Agrees(b))'
    BY DEF AttemptInv, Agrees, Frame
  <1>6. (link[b] /\ InLoop(b) => Complete(b))'
    BY <1>2 DEF AttemptInv, Complete, Frame
  <1>7. (landed[b].counts.rejected = 0 => \A e \in landed[b].entities : active[e])'
    BY <1>1 DEF AttemptInv, Frame, Grows
  <1> QED BY <1>3, <1>4, <1>5, <1>6, <1>7 DEF AttemptInv

\* A closed row keeps its witness while nobody writes the row.
LEMMA ToldKeeps ==
    ASSUME Told, audit' = audit,
           \A b \in Attempts : pc[b] \in {"abort", "over"} =>
               pc'[b] \in {"abort", "over"} /\ landed'[b] = landed[b]
    PROVE  Told'
  BY DEF Told, TellsOf

\* An open row needs no witness.
LEMMA OpenedTells ==
    ASSUME audit' = OpenedRow
    PROVE  Told'
  BY DEF Told, OpenedRow, Terminal

\* The counters of a typed state are natural numbers.
LEMMA CountsType ==
    ASSUME TypeOK, NEW a \in Attempts
    PROVE  /\ totals[a] \in Counts
           /\ totals[a].extracted \in Nat /\ totals[a].inserted \in Nat
           /\ totals[a].updated \in Nat /\ totals[a].rejected \in Nat
           /\ landed[a] \in History
           /\ landed[a].counts \in Counts
           /\ landed[a].entities \subseteq Entities
           /\ landed[a].counts.inserted \in Nat
           /\ landed[a].counts.updated \in Nat
           /\ landed[a].counts.rejected \in Nat
           /\ good[a] \in 0..EntityCount
           /\ entity[a] \in 1..EntityCount
           /\ EntityCount \in Nat \ {0}
  BY EntityCountAssumption DEF TypeOK, Counts, History, Entities

\* A row written by either statement is a row.
LEMMA ClosedRowType ==
    ASSUME NEW row \in Row \cup {NoRow}, NEW status \in Terminal, NEW c \in Counts
    PROVE  ClosedRow(row, status, c) \in Row \cup {NoRow}
  BY DEF ClosedRow, Row

\* The opened row is one, too.
LEMMA OpenedRowType == OpenedRow \in Row
  BY DEF OpenedRow, Row, Zero, Counts

-----------------------------------------------------------------------------
(* The invariant is inductive.                                             *)

\* It holds initially.
LEMMA InitEstablishes == Init => RunInv
  <1> SUFFICES ASSUME Init PROVE RunInv
    OBVIOUS
  <1>1. 1 \in Entities /\ 0 \in 0..EntityCount
    BY EntityCountAssumption DEF Entities
  <1>2. Nothing \in LoadResult
    BY MaxRecordsAssumption DEF Nothing, LoadResult
  <1>3. Zero \in Counts
    BY DEF Zero, Counts
  <1>4. TypeOK
    BY <1>1, <1>2, <1>3 DEF Init, TypeOK, History
  <1>5. Told
    BY DEF Init, Told
  <1>6. ASSUME NEW a \in Attempts PROVE AttemptInv(a)
    BY DEF Init, AttemptInv, Counting, Unstarted, InLoop
  <1> QED BY <1>4, <1>5, <1>6 DEF RunInv

\* The process ends: its counters are gone, what it committed stays.
LEMMA ExitKeeps ==
    ASSUME RunInv, NEW a \in Attempts,
           NEW code \in {"0", "1", "2", "killed"},
           Exit(a, code), UNCHANGED <<active, landed>>,
           audit' \in Row \cup {NoRow}, Told'
    PROVE  RunInv'
  <1>1. TypeOK'
    <2>1. 1 \in Entities /\ 0 \in 0..EntityCount
      BY EntityCountAssumption DEF Entities
    <2>2. Nothing \in LoadResult
      BY MaxRecordsAssumption DEF Nothing, LoadResult
    <2>3. Zero \in Counts
      BY DEF Zero, Counts
    <2> QED BY <2>1, <2>2, <2>3 DEF RunInv, TypeOK, Exit
  <1>2. AttemptInv(a)'
    <2>1. pc'[a] = "over" /\ ~link'[a] /\ landed'[a] = landed[a] /\ active' = active
      BY DEF RunInv, TypeOK, Exit
    <2>2. AttemptInv(a)
      BY DEF RunInv
    <2> QED BY <2>1, <2>2 DEF AttemptInv, Counting, InLoop
  <1>3. ASSUME NEW b \in Attempts, b # a PROVE AttemptInv(b)'
    <2>1. Frame(b) /\ Grows
      BY <1>3 DEF RunInv, TypeOK, Exit, Frame, Grows
    <2> QED BY <2>1, OthersKeep DEF RunInv
  <1> QED BY <1>1, <1>2, <1>3 DEF RunInv

\* The process goes on: the others are framed, its own part is to be shown.
LEMMA GoesOn ==
    ASSUME RunInv, NEW a \in Attempts, TypeOK', Told', AttemptInv(a)', Grows,
           \A b \in Attempts \ {a} : Frame(b)
    PROVE  RunInv'
  BY OthersKeep DEF RunInv

\* Connecting, and opening the row.
LEMMA StartKeeps ==
    ASSUME RunInv, NEW a \in Attempts, Connect(a) \/ CreateRun(a)
    PROVE  RunInv'
  <1>0. TypeOK /\ Told /\ AttemptInv(a)
    BY DEF RunInv
  <1>1. Grows /\ \A b \in Attempts \ {a} : Frame(b)
    BY <1>0 DEF Connect, CreateRun, TypeOK, Grows, Frame
  <1>2. CASE Connect(a)
    <2>1. TypeOK'
      BY <1>0, <1>2 DEF TypeOK, Connect
    <2>2. Told'
      BY <1>0, <1>2, ToldKeeps DEF TypeOK, Connect
    <2>3. pc'[a] = "create" /\ pc[a] = "ready" /\ entity'[a] = 1
          /\ good'[a] = 0 /\ landed'[a] = [counts |-> Zero, entities |-> {}]
          /\ totals'[a] = Zero
      BY <1>0, <1>2 DEF TypeOK, Connect, AttemptInv, Counting, Unstarted
    <2>4. Agrees(a)' /\ Counting(a)'
      BY <2>3 DEF Agrees, Counting, Zero, Done
    <2>5. Complete(a)'
      BY <2>3 DEF Complete, Done
    <2>6. AttemptInv(a)'
      BY <2>3, <2>4, <2>5 DEF AttemptInv
    <2> QED BY <1>1, <2>1, <2>2, <2>6, GoesOn
  <1>3. CASE CreateRun(a)
    <2>1. TypeOK'
      BY <1>0, <1>3, OpenedRowType DEF TypeOK, CreateRun
    <2>2. Told'
      BY <1>3, OpenedTells DEF CreateRun
    <2>3. pc[a] = "create" /\ pc'[a] = "extract"
      BY <1>0, <1>3 DEF TypeOK, CreateRun
    <2>4. Done(a)' = Done(a) /\ InLoop(a) /\ InLoop(a)'
      BY <1>3, <2>3 DEF CreateRun, Done, InLoop
    <2>5. AttemptInv(a)'
      BY <1>0, <1>3, <2>3, <2>4
         DEF AttemptInv, CreateRun, Counting, Agrees, Complete
    <2> QED BY <1>1, <2>1, <2>2, <2>5, GoesOn
  <1> QED BY <1>2, <1>3

\* A write of the audit row raises; what it may have written is typed and told.
LEMMA WriteRaisesKeeps ==
    ASSUME RunInv, NEW a \in Attempts, NEW row \in Row \cup {NoRow},
           pc[a] \in {"create", "finish"}, WriteRaises(a, row),
           audit' = row => Told'
    PROVE  RunInv'
  <1>0. TypeOK /\ Told /\ AttemptInv(a)
    BY DEF RunInv
  <1>1. Grows /\ \A b \in Attempts \ {a} : Frame(b)
    BY <1>0 DEF WriteRaises, TypeOK, Grows, Frame
  <1>2. TypeOK'
    BY <1>0 DEF TypeOK, WriteRaises
  <1>3. pc'[a] = "abort" /\ landed' = landed /\ totals' = totals /\ active' = active
        /\ (link'[a] => link[a])
    BY <1>0 DEF TypeOK, WriteRaises
  <1>4. Told'
    <2>1. CASE audit' = audit
      BY <1>0, <1>3, <2>1, ToldKeeps DEF WriteRaises, TypeOK
    <2> QED BY <2>1 DEF WriteRaises
  <1>5. AttemptInv(a)'
    BY <1>0, <1>3 DEF AttemptInv, Counting, Agrees, InLoop
  <1> QED BY <1>1, <1>2, <1>4, <1>5, GoesOn

\* A source is read: there is something to load.
LEMMA ExtractKeeps ==
    ASSUME RunInv, NEW a \in Attempts, Extract(a)
    PROVE  RunInv'
  <1>0. TypeOK /\ Told /\ AttemptInv(a)
    BY DEF RunInv
  <1>1. PICK r \in LoadResults \ {Nothing} :
            /\ current' = [current EXCEPT ![a] = r]
            /\ totals' = [totals EXCEPT ![a].extracted = @ + Size(r)]
    BY DEF Extract
  <1>2. Grows /\ \A b \in Attempts \ {a} : Frame(b)
    BY <1>0, <1>1 DEF Extract, TypeOK, Grows, Frame
  <1>3. r \in LoadResult /\ Size(r) \in Nat
    BY MaxRecordsAssumption DEF LoadResults, LoadResult, Size
  <1>4. totals' \in [Attempts -> Counts]
    <2>1. [totals[a] EXCEPT !.extracted = @ + Size(r)] \in Counts
      BY <1>0, <1>3, CountsType DEF Counts
    <2> QED BY <1>0, <1>1, <2>1 DEF TypeOK
  <1>5. TypeOK'
    BY <1>0, <1>1, <1>3, <1>4 DEF TypeOK, Extract
  <1>6. Told'
    BY <1>0, ToldKeeps DEF Extract, TypeOK
  <1>7. /\ pc[a] = "extract" /\ pc'[a] = "load" /\ current'[a] = r
        /\ totals'[a].inserted = totals[a].inserted
        /\ totals'[a].updated = totals[a].updated
        /\ totals'[a].rejected = totals[a].rejected
    BY <1>0, <1>1, CountsType DEF TypeOK, Extract, Counts
  <1>8. Done(a)' = Done(a) /\ InLoop(a) /\ InLoop(a)'
    BY <1>7 DEF Extract, Done, InLoop
  <1>9. AttemptInv(a)'
    BY <1>0, <1>7, <1>8 DEF AttemptInv, Extract, Counting, Agrees, Complete
  <1> QED BY <1>2, <1>5, <1>6, <1>9, GoesOn

\* Where the loop is after an entity: one entity further.
LEMMA NextEntityMoves ==
    ASSUME TypeOK, NEW a \in Attempts, NextEntity(a),
           pc[a] \in {"extract", "load"}
    PROVE  /\ pc' \in [Attempts -> {"ready", "create", "extract", "load",
                                    "finish", "abort", "over"}]
           /\ entity' \in [Attempts -> Entities]
           /\ current' \in [Attempts -> LoadResult]
           /\ pc'[a] \in {"extract", "finish"}
           /\ Done(a) = entity[a] - 1
           /\ Done(a)' = entity[a]
           /\ \A b \in Attempts \ {a} : /\ pc'[b] = pc[b]
                                        /\ entity'[b] = entity[b]
                                        /\ current'[b] = current[b]
  <1>1. entity[a] \in 1..EntityCount /\ EntityCount \in Nat
    BY CountsType
  <1>2. Nothing \in LoadResult
    BY MaxRecordsAssumption DEF Nothing, LoadResult
  <1>3. current' \in [Attempts -> LoadResult]
        /\ \A b \in Attempts \ {a} : current'[b] = current[b]
    BY <1>2 DEF NextEntity, TypeOK
  <1>4. CASE entity[a] = EntityCount
    BY <1>1, <1>3, <1>4 DEF NextEntity, TypeOK, Done
  <1>5. CASE entity[a] # EntityCount
    <2>1. entity[a] + 1 \in Entities
      BY <1>1, <1>5 DEF Entities
    <2> QED BY <1>1, <1>3, <1>5, <2>1 DEF NextEntity, TypeOK, Done
  <1> QED BY <1>4, <1>5

\* An entity fails: nothing landed for it, and good stays behind for ever.
LEMMA EntityFailsKeeps ==
    ASSUME RunInv, NEW a \in Attempts, EntityFails(a)
    PROVE  RunInv'
  <1>0. TypeOK /\ Told /\ AttemptInv(a) /\ NextEntity(a) /\ InLoop(a)
    BY DEF RunInv, EntityFails, InLoop
  <1>1. Grows /\ \A b \in Attempts \ {a} : Frame(b)
    BY <1>0, NextEntityMoves DEF EntityFails, Grows, Frame
  <1>2. TypeOK'
    BY <1>0, NextEntityMoves DEF EntityFails, TypeOK
  <1>3. Told'
    BY <1>0, ToldKeeps, NextEntityMoves DEF EntityFails
  <1>4. pc'[a] \in {"extract", "finish"} /\ Done(a)' = Done(a) + 1 /\ Done(a) \in Nat
    <2>1. pc'[a] \in {"extract", "finish"} /\ Done(a) = entity[a] - 1 /\ Done(a)' = entity[a]
      BY <1>0, NextEntityMoves DEF EntityFails
    <2>2. entity[a] \in 1..EntityCount /\ EntityCount \in Nat
      BY <1>0, CountsType
    <2> QED BY <2>1, <2>2
  <1>5. good[a] \in Nat /\ good[a] <= Done(a)
    BY <1>0, CountsType DEF AttemptInv, Counting
  <1>6. Counting(a)'
    BY <1>4, <1>5 DEF Counting, EntityFails
  <1>7. ASSUME link[a] PROVE Complete(a)'
    <2>1. Complete(a)
      BY <1>0, <1>7 DEF AttemptInv
    <2>2. landed[a].entities \subseteq 1..(Done(a) + 1) /\ (Done(a) + 1) \notin landed[a].entities
      BY <1>4, <2>1 DEF Complete
    <2>3. landed[a].entities # 1..(Done(a) + 1) /\ good[a] # Done(a) + 1
      BY <1>4, <1>5, <2>2
    <2> QED BY <1>4, <2>1, <2>2, <2>3 DEF Complete, EntityFails
  <1>8. AttemptInv(a)'
    BY <1>0, <1>4, <1>6, <1>7 DEF AttemptInv, EntityFails, Agrees
  <1> QED BY <1>1, <1>2, <1>3, <1>8, GoesOn

\* What a committed load does to the history and the tables.
LEMMA LoadLandsType ==
    ASSUME TypeOK, NEW a \in Attempts, LoadLands(a)
    PROVE  /\ landed' \in [Attempts -> History]
           /\ active' \in [Entities -> BOOLEAN]
           /\ Grows
           /\ \A b \in Attempts \ {a} : landed'[b] = landed[b]
           /\ landed'[a].counts.inserted = landed[a].counts.inserted + current[a].inserted
           /\ landed'[a].counts.updated = landed[a].counts.updated + current[a].updated
           /\ landed'[a].counts.rejected = landed[a].counts.rejected + current[a].rejected
           /\ landed'[a].entities = landed[a].entities \cup {entity[a]}
  <1>1. /\ current[a].inserted \in Nat /\ current[a].updated \in Nat
        /\ current[a].unchanged \in Nat /\ current[a].rejected \in Nat
        /\ entity[a] \in Entities
    BY MaxRecordsAssumption DEF TypeOK, LoadResult
  <1> DEFINE c == landed[a].counts
             d == Counted(c, current[a])
             h == [counts |-> d, entities |-> landed[a].entities \cup {entity[a]}]
  <1>2. d \in Counts /\ d.inserted = c.inserted + current[a].inserted
        /\ d.updated = c.updated + current[a].updated
        /\ d.rejected = c.rejected + current[a].rejected
    BY <1>1, CountsType DEF Counts, Counted
  <1> HIDE DEF d
  <1>4. landed' = [landed EXCEPT ![a] = h]
    BY DEF LoadLands, d
  <1>5. h \in History
    BY <1>1, <1>2, CountsType DEF History
  <1> HIDE DEF h
  <1>6. landed' \in [Attempts -> History] /\ landed'[a] = h
        /\ \A b \in Attempts \ {a} : landed'[b] = landed[b]
    BY <1>4, <1>5 DEF TypeOK
  <1>7. active' \in [Entities -> BOOLEAN] /\ Grows
    <2>1. (current[a].inserted + current[a].updated + current[a].unchanged > 0) \in BOOLEAN
      OBVIOUS
    <2>2. active \in [Entities -> BOOLEAN]
      BY DEF TypeOK
    <2> QED BY <2>1, <2>2 DEF LoadLands, Grows
  <1> QED BY <1>2, <1>6, <1>7 DEF h

\* A load without a rejected record fills its table.
LEMMA LoadFills ==
    ASSUME TypeOK, NEW a \in Attempts, LoadLands(a), AttemptInv(a), pc[a] = "load"
    PROVE  landed'[a].counts.rejected = 0 => \A e \in landed'[a].entities : active'[e]
  <1>1. /\ current[a] \in LoadResult
        /\ current[a].inserted \in Nat /\ current[a].updated \in Nat
        /\ current[a].unchanged \in Nat /\ current[a].rejected \in Nat
        /\ entity[a] \in Entities
        /\ active \in [Entities -> BOOLEAN]
    BY MaxRecordsAssumption DEF TypeOK, LoadResult
  <1>2. current[a] # Nothing
    BY DEF AttemptInv, Counting
  <1> SUFFICES ASSUME landed'[a].counts.rejected = 0 PROVE \A e \in landed'[a].entities : active'[e]
    OBVIOUS
  <1>3. landed[a].counts.rejected = 0 /\ current[a].rejected = 0
    BY <1>1, LoadLandsType, CountsType
  <1>4. current[a].inserted + current[a].updated + current[a].unchanged > 0
    <2>1. ~(current[a].inserted = 0 /\ current[a].updated = 0 /\ current[a].unchanged = 0)
      BY <1>1, <1>2, <1>3 DEF Nothing, LoadResult
    <2> QED BY <1>1, <2>1
  <1>5. active'[entity[a]]
    BY <1>1, <1>4 DEF LoadLands
  <1>6. \A e \in landed[a].entities : active'[e]
    BY <1>3, LoadLandsType, CountsType DEF AttemptInv, Grows
  <1> QED BY <1>5, <1>6, LoadLandsType

\* A load lands and is counted.
LEMMA LoadKeeps ==
    ASSUME RunInv, NEW a \in Attempts, Load(a)
    PROVE  RunInv'
  <1>0. /\ TypeOK /\ Told /\ AttemptInv(a) /\ NextEntity(a) /\ LoadLands(a)
        /\ InLoop(a) /\ link[a] /\ pc[a] = "load"
    BY DEF RunInv, Load, InLoop
  <1>1. /\ current[a].inserted \in Nat /\ current[a].updated \in Nat
        /\ current[a].unchanged \in Nat /\ current[a].rejected \in Nat
    BY <1>0, MaxRecordsAssumption DEF TypeOK, LoadResult
  <1>2. /\ totals' \in [Attempts -> Counts]
        /\ totals'[a].inserted = totals[a].inserted + current[a].inserted
        /\ totals'[a].updated = totals[a].updated + current[a].updated
        /\ totals'[a].rejected = totals[a].rejected + current[a].rejected
        /\ \A b \in Attempts \ {a} : totals'[b] = totals[b]
    <2> DEFINE d == Counted(totals[a], current[a])
    <2>1. /\ d \in Counts
          /\ d.inserted = totals[a].inserted + current[a].inserted
          /\ d.updated = totals[a].updated + current[a].updated
          /\ d.rejected = totals[a].rejected + current[a].rejected
      BY <1>0, <1>1, CountsType DEF Counts, Counted
    <2>2. totals' = [totals EXCEPT ![a] = d]
      BY DEF Load
    <2> HIDE DEF d
    <2> QED BY <1>0, <2>1, <2>2 DEF TypeOK
  <1>3. /\ entity[a] \in 1..EntityCount /\ EntityCount \in Nat
        /\ good[a] \in Nat /\ good[a] <= entity[a] - 1
        /\ pc'[a] \in {"extract", "finish"}
        /\ Done(a) = entity[a] - 1 /\ Done(a)' = entity[a]
    <2>1. entity[a] \in 1..EntityCount /\ EntityCount \in Nat /\ good[a] \in Nat
      BY <1>0, CountsType
    <2>2. pc'[a] \in {"extract", "finish"} /\ Done(a) = entity[a] - 1 /\ Done(a)' = entity[a]
      BY <1>0, NextEntityMoves
    <2>3. good[a] <= Done(a)
      BY <1>0 DEF AttemptInv, Counting
    <2> QED BY <2>1, <2>2, <2>3
  <1>4. good' \in [Attempts -> 0..EntityCount] /\ good'[a] = good[a] + 1
        /\ \A b \in Attempts \ {a} : good'[b] = good[b]
    <2>1. good[a] + 1 \in 0..EntityCount
      BY <1>3
    <2> QED BY <1>0, <2>1 DEF TypeOK, Load
  <1>5. Grows /\ \A b \in Attempts \ {a} : Frame(b)
    BY <1>0, <1>2, <1>4, NextEntityMoves, LoadLandsType DEF Load, Frame
  <1>6. TypeOK'
    BY <1>0, <1>2, <1>4, NextEntityMoves, LoadLandsType DEF Load, TypeOK
  <1>7. Told'
    BY <1>0, <1>5, ToldKeeps DEF Load, Frame
  <1>8. Counting(a)'
    BY <1>3, <1>4 DEF Counting
  <1>9. Agrees(a)'
    BY <1>0, <1>2, LoadLandsType DEF AttemptInv, Agrees
  <1>10. Complete(a)'
    <2>1. Complete(a)
      BY <1>0 DEF AttemptInv
    <2>2. landed'[a].entities = landed[a].entities \cup {entity[a]}
      BY <1>0, LoadLandsType
    <2>3. landed[a].entities \subseteq 1..(entity[a] - 1)
      BY <1>3, <2>1 DEF Complete
    <2>4. landed'[a].entities \subseteq 1..entity[a] /\ landed'[a].entities # {}
      BY <1>3, <2>2, <2>3
    <2>5. ASSUME good'[a] = entity[a] PROVE landed'[a].entities = 1..entity[a]
      <3>1. landed[a].entities = 1..(entity[a] - 1)
        BY <1>3, <1>4, <2>1, <2>5 DEF Complete
      <3> QED BY <1>3, <2>2, <3>1
    <2>6. ASSUME landed'[a].entities = 1..entity[a] PROVE good'[a] = entity[a]
      <3>1. \A e \in 1..(entity[a] - 1) : e \in 1..entity[a] /\ e # entity[a]
        BY <1>3
      <3>2. 1..(entity[a] - 1) \subseteq landed[a].entities
        BY <2>2, <2>6, <3>1
      <3>3. landed[a].entities = 1..(entity[a] - 1)
        BY <2>3, <3>2
      <3> QED BY <1>3, <1>4, <2>1, <3>3 DEF Complete
    <2>7. good'[a] # 0
      BY <1>3, <1>4
    <2> QED BY <1>3, <2>4, <2>5, <2>6, <2>7 DEF Complete
  <1>11. AttemptInv(a)'
    BY <1>0, <1>3, <1>8, <1>9, <1>10, LoadFills DEF AttemptInv
  <1> QED BY <1>5, <1>6, <1>7, <1>11, GoesOn

\* A load lands and the connection breaks: the counters are lost with it.
LEMMA LoadUnacknowledgedKeeps ==
    ASSUME RunInv, NEW a \in Attempts, LoadUnacknowledged(a)
    PROVE  RunInv'
  <1>0. /\ TypeOK /\ Told /\ AttemptInv(a) /\ NextEntity(a) /\ LoadLands(a)
        /\ pc[a] = "load" /\ InLoop(a)
    BY DEF RunInv, LoadUnacknowledged, InLoop
  <1>1. Grows /\ \A b \in Attempts \ {a} : Frame(b)
    BY <1>0, NextEntityMoves, LoadLandsType DEF LoadUnacknowledged, Frame, TypeOK
  <1>2. TypeOK'
    BY <1>0, NextEntityMoves, LoadLandsType DEF LoadUnacknowledged, TypeOK
  <1>3. Told'
    BY <1>0, <1>1, ToldKeeps DEF LoadUnacknowledged, Frame
  <1>4. pc'[a] \in {"extract", "finish"} /\ Done(a)' = Done(a) + 1 /\ Done(a) \in Nat
    <2>1. pc'[a] \in {"extract", "finish"} /\ Done(a) = entity[a] - 1 /\ Done(a)' = entity[a]
      BY <1>0, NextEntityMoves
    <2>2. entity[a] \in 1..EntityCount /\ EntityCount \in Nat
      BY <1>0, CountsType
    <2> QED BY <2>1, <2>2
  <1>5. Counting(a)'
    <2>1. good[a] \in Nat /\ good[a] <= Done(a)
      BY <1>0, CountsType DEF AttemptInv, Counting
    <2> QED BY <1>4, <2>1 DEF Counting, LoadUnacknowledged
  <1>6. ~link'[a]
    BY <1>0 DEF LoadUnacknowledged, TypeOK
  <1>7. AttemptInv(a)'
    BY <1>0, <1>4, <1>5, <1>6, LoadFills DEF AttemptInv
  <1> QED BY <1>1, <1>2, <1>3, <1>7, GoesOn

\* An exception leaves the loop, or the connection breaks between statements.
LEMMA LeavingKeeps ==
    ASSUME RunInv, NEW a \in Attempts, Unexpected(a) \/ Disconnect(a)
    PROVE  RunInv'
  <1>0. TypeOK /\ Told /\ AttemptInv(a)
    BY DEF RunInv
  <1>1. Grows /\ \A b \in Attempts \ {a} : Frame(b)
    BY <1>0 DEF Unexpected, Disconnect, TypeOK, Grows, Frame
  <1>2. TypeOK'
    BY <1>0 DEF Unexpected, Disconnect, TypeOK
  <1>3. Told'
    BY <1>0, ToldKeeps DEF Unexpected, Disconnect, TypeOK
  <1>4. CASE Unexpected(a)
    <2>1. pc'[a] = "abort"
      BY <1>0, <1>4 DEF Unexpected, TypeOK
    <2> QED BY <1>0, <1>1, <1>2, <1>3, <1>4, <2>1, GoesOn
            DEF Unexpected, AttemptInv, Counting, InLoop, Agrees
  <1>5. CASE Disconnect(a)
    <2>1. ~link'[a] /\ pc[a] # "ready"
      BY <1>0, <1>5 DEF Disconnect, TypeOK, Alive
    <2>2. Done(a)' = Done(a)
      BY <1>5 DEF Disconnect, Done
    <2> QED BY <1>0, <1>1, <1>2, <1>3, <1>5, <2>1, <2>2, GoesOn
            DEF Disconnect, AttemptInv, Counting, InLoop
  <1> QED BY <1>4, <1>5

\* A verdict is a closed status, with one of the three exit codes.
LEMMA VerdictType ==
    ASSUME NEW a \in Attempts
    PROVE  /\ Verdict(a) \in Terminal
           /\ ExitCode(Verdict(a)) \in {"0", "1", "2", "killed"}
  BY DEF Verdict, ExitCode, Terminal

\* The verdict on a connection that lives tells what has landed.
LEMMA VerdictTells ==
    ASSUME RunInv, NEW a \in Attempts, pc[a] = "finish", link[a],
           audit' = ClosedRow(audit, Verdict(a), totals[a]),
           landed' = landed, pc'[a] \in {"abort", "over"}
    PROVE  Told'
  <1>1. CASE audit = NoRow
    BY <1>1 DEF ClosedRow, Told
  <1>2. CASE audit # NoRow
    <2>1. audit' = [status |-> Verdict(a), counts |-> totals[a]]
      BY <1>2 DEF ClosedRow
    <2>2. Agrees(a) /\ Complete(a) /\ good[a] <= EntityCount /\ Done(a) = EntityCount
      BY DEF RunInv, AttemptInv, Counting, InLoop, Done
    <2>3. (audit.counts.inserted = landed[a].counts.inserted)'
          /\ (audit.counts.updated = landed[a].counts.updated)'
          /\ (audit.counts.rejected = landed[a].counts.rejected)'
      BY <2>1, <2>2 DEF Agrees
    <2>4. landed[a].counts.rejected = totals[a].rejected
          /\ totals[a].rejected \in Nat /\ good[a] \in Nat /\ EntityCount \in Nat \ {0}
      BY <2>2, CountsType DEF Agrees, RunInv
    <2>5. Verdict(a) = "success" =>
              landed[a].entities = Entities /\ landed[a].counts.rejected = 0
      BY <2>2, <2>4 DEF Verdict, Complete, Entities
    <2>6. Verdict(a) = "partial" =>
              /\ landed[a].entities # {}
              /\ landed[a].entities # Entities \/ landed[a].counts.rejected > 0
      <3>1. Verdict(a) = "partial" => good[a] # 0
        BY <2>4 DEF Verdict
      <3>2. Verdict(a) = "partial" => good[a] # EntityCount \/ totals[a].rejected # 0
        BY <2>4 DEF Verdict
      <3> QED BY <2>2, <2>4, <3>1, <3>2 DEF Complete, Entities
    <2>7. TellsOf(a)'
      BY <2>1, <2>3, <2>5, <2>6 DEF TellsOf
    <2> QED BY <2>7 DEF Told
  <1> QED BY <1>1, <1>2

\* The "except" clause writes the counters of what has landed, too.
LEMMA FailureTells ==
    ASSUME RunInv, NEW a \in Attempts, link[a],
           audit' = ClosedRow(audit, "failed", totals[a]),
           landed' = landed, pc'[a] \in {"abort", "over"}
    PROVE  Told'
  <1>1. CASE audit = NoRow
    BY <1>1 DEF ClosedRow, Told
  <1>2. CASE audit # NoRow
    <2>1. audit' = [status |-> "failed", counts |-> totals[a]]
      BY <1>2 DEF ClosedRow
    <2>2. Agrees(a)
      BY DEF RunInv, AttemptInv
    <2>3. TellsOf(a)'
      BY <2>1, <2>2 DEF TellsOf, Agrees
    <2> QED BY <2>3 DEF Told
  <1> QED BY <1>1, <1>2

\* Whatever ends the process keeps the invariant.
LEMMA EndingKeeps ==
    ASSUME RunInv, NEW a \in Attempts,
           \/ ConnectFails(a) \/ Finish(a) \/ MarkFailed(a)
           \/ MarkFailedRaises(a) \/ Crash(a)
    PROVE  RunInv'
  <1>0. /\ TypeOK /\ Told /\ totals[a] \in Counts /\ audit \in Row \cup {NoRow}
        /\ Verdict(a) \in Terminal /\ "failed" \in Terminal
        /\ ExitCode(Verdict(a)) \in {"0", "1", "2", "killed"}
    BY VerdictType DEF RunInv, TypeOK, Terminal
  <1>1. CASE audit' = audit /\ \E code \in {"2", "killed"} : Exit(a, code)
    <2>1. UNCHANGED <<active, landed>>
      BY DEF ConnectFails, Finish, MarkFailed, MarkFailedRaises, Crash
    <2>2. Told'
      BY <1>0, <1>1, <2>1, ToldKeeps DEF Exit, TypeOK
    <2> QED BY <1>0, <1>1, <2>1, <2>2, ExitKeeps
  <1>2. CASE Finish(a)
    <2>1. pc'[a] = "over"
      BY <1>0, <1>2 DEF Finish, Exit, TypeOK
    <2>2. Told'
      BY <1>2, <2>1, VerdictTells DEF Finish
    <2>3. audit' \in Row \cup {NoRow}
      BY <1>0, <1>2, ClosedRowType DEF Finish
    <2> QED BY <1>0, <1>2, <2>2, <2>3, ExitKeeps DEF Finish
  <1>3. CASE MarkFailed(a)
    <2>1. pc'[a] = "over"
      BY <1>0, <1>3 DEF MarkFailed, Exit, TypeOK
    <2>2. Told'
      BY <1>3, <2>1, FailureTells DEF MarkFailed
    <2>3. audit' \in Row \cup {NoRow}
      BY <1>0, <1>3, ClosedRowType DEF MarkFailed
    <2> QED BY <1>3, <2>2, <2>3, ExitKeeps DEF MarkFailed
  <1> QED BY <1>1, <1>2, <1>3 DEF ConnectFails, MarkFailedRaises, Crash

\* create_pipeline_run or finish_pipeline_run raises.
LEMMA RaisingKeeps ==
    ASSUME RunInv, NEW a \in Attempts, CreateRunRaises(a) \/ FinishRaises(a)
    PROVE  RunInv'
  <1>1. CASE CreateRunRaises(a)
    BY <1>1, WriteRaisesKeeps, OpenedTells, OpenedRowType DEF CreateRunRaises
  <1>2. CASE FinishRaises(a)
    <2>1. ClosedRow(audit, Verdict(a), totals[a]) \in Row \cup {NoRow}
      BY ClosedRowType, VerdictType, CountsType DEF RunInv, TypeOK
    <2>2. pc'[a] = "abort" /\ landed' = landed /\ pc[a] = "finish"
      BY <1>2 DEF FinishRaises, WriteRaises, RunInv, TypeOK
    <2>3. ASSUME audit' = ClosedRow(audit, Verdict(a), totals[a]) PROVE Told'
      <3>1. CASE audit' = audit
        BY <2>2, <3>1, <1>2, ToldKeeps DEF FinishRaises, WriteRaises, RunInv, TypeOK
      <3>2. CASE link[a]
        BY <2>2, <2>3, <3>2, VerdictTells
      <3> QED BY <1>2, <3>1, <3>2 DEF FinishRaises, WriteRaises
    <2> QED BY <1>2, <2>1, <2>2, <2>3, WriteRaisesKeeps DEF FinishRaises
  <1> QED BY <1>1, <1>2

\* Every step keeps the invariant.
LEMMA NextKeeps == RunInv /\ [Next]_vars => RunInv'
  <1> SUFFICES ASSUME RunInv, [Next]_vars PROVE RunInv'
    OBVIOUS
  <1>1. CASE UNCHANGED vars
    BY <1>1 DEF vars, RunInv, TypeOK, Told, TellsOf, AttemptInv, Counting, Unstarted,
                Agrees, Complete, InLoop, Done
  <1>2. ASSUME NEW a \in Attempts, Step(a) PROVE RunInv'
    BY <1>2, StartKeeps, RaisingKeeps, ExtractKeeps, EntityFailsKeeps, LoadKeeps,
       LoadUnacknowledgedKeeps, LeavingKeeps, EndingKeeps DEF Step
  <1>3. ASSUME NEW a \in Attempts, Disconnect(a) \/ Crash(a) PROVE RunInv'
    BY <1>3, LeavingKeeps, EndingKeeps
  <1> QED BY <1>1, <1>2, <1>3 DEF Next, AllOver

-----------------------------------------------------------------------------
(* The theorems.                                                           *)

\* The invariant holds of every behaviour.
THEOREM RunInvariant == Spec => []RunInv
  BY InitEstablishes, NextKeeps, PTL DEF Spec

\* Type correctness of run_ingestion's state.
THEOREM RunTypeCorrect == Spec => []TypeOK
  <1>1. RunInv => TypeOK
    BY DEF RunInv
  <1> QED BY <1>1, RunInvariant, PTL

\* However many attempts share a batch, a row of ops.pipeline_runs that is not
\* running tells exactly what one of them committed.
THEOREM ClosedRowIsTrue == Spec => []ClosedRowTellsTheTruth
  <1>1. RunInv => ClosedRowTellsTheTruth
    BY DEF RunInv, Told, ClosedRowTellsTheTruth
  <1> QED BY <1>1, RunInvariant, PTL

\* An audit row says "success" only when every entity's table is active.
THEOREM SuccessIsFull == Spec => []SuccessFillsEveryTable
  <1>1. RunInv => SuccessFillsEveryTable
    <2> SUFFICES ASSUME RunInv, audit # NoRow, audit.status = "success"
                 PROVE  \A e \in Entities : active[e]
      BY DEF SuccessFillsEveryTable
    <2>1. PICK a \in Attempts : TellsOf(a)
      BY DEF RunInv, Told, Terminal
    <2>2. landed[a].entities = Entities /\ landed[a].counts.rejected = 0
      BY <2>1 DEF TellsOf
    <2> QED BY <2>2 DEF RunInv, AttemptInv
  <1> QED BY <1>1, RunInvariant, PTL

-----------------------------------------------------------------------------
(* The refinement.                                                         *)

\* A step that leaves the row alone, opens it or closes it, and leaves the tables
\* alone, is a step of the contract.
LEMMA RowStep ==
    ASSUME TypeOK, SuccessFillsEveryTable', UNCHANGED active,
           NEW v \in Terminal, NEW c \in Counts,
           \/ UNCHANGED audit
           \/ audit' = OpenedRow
           \/ audit' = ClosedRow(audit, v, c)
    PROVE  [Ingestion!Next]_<<StatusColumn, active>>
  <1>1. CASE UNCHANGED audit
    BY <1>1 DEF StatusColumn
  <1>2. CASE audit' = OpenedRow
    <2>1. OpenedRow # NoRow /\ OpenedRow.status = "running"
      BY NoRowAssumption, OpenedRowType DEF OpenedRow
    <2> QED BY <1>2, <2>1 DEF StatusColumn, Ingestion!Next, Ingestion!Open
  <1>3. CASE audit' = ClosedRow(audit, v, c)
    <2>1. CASE audit = NoRow
      BY <1>3, <2>1 DEF ClosedRow, StatusColumn
    <2>2. CASE audit # NoRow
      <3>1. audit' = [status |-> v, counts |-> c] /\ audit' \in Row
        BY <1>3, <2>2 DEF ClosedRow, Row
      <3>2. audit' # NoRow /\ audit'.status = v
        BY <3>1, NoRowAssumption
      <3>3. StatusColumn' = v
        BY <3>2 DEF StatusColumn
      <3>4. audit \in Row /\ audit.status \in Terminal \cup {"running"}
        BY <2>2 DEF TypeOK, Row
      <3>5. StatusColumn # NoRow
        BY <2>2, <3>4, NoRowStatusAssumption DEF StatusColumn, Terminal
      <3>6. v = "success" => \A e \in Entities : active[e]
        BY <3>2 DEF SuccessFillsEveryTable
      <3>7. v \in Ingestion!Verdicts
        BY DEF Terminal, Ingestion!Verdicts
      <3> QED BY <3>3, <3>5, <3>6, <3>7 DEF Ingestion!Next, Ingestion!Close
    <2> QED BY <2>1, <2>2
  <1> QED BY <1>1, <1>2, <1>3

\* A load that lands is a step of the contract.
LEMMA LoadStep ==
    ASSUME TypeOK, NEW a \in Attempts, UNCHANGED audit, LoadLands(a)
    PROVE  [Ingestion!Next]_<<StatusColumn, active>>
  <1>1. StatusColumn' = StatusColumn
    BY DEF StatusColumn
  <1>2. entity[a] \in Entities
    BY DEF TypeOK
  <1> DEFINE filled == current[a].inserted + current[a].updated + current[a].unchanged > 0
  <1>3. active' = [active EXCEPT ![entity[a]] = @ \/ filled]
    BY DEF LoadLands
  <1>4. CASE active' = active
    BY <1>1, <1>4
  <1>5. CASE active' = [active EXCEPT ![entity[a]] = TRUE]
    BY <1>1, <1>2, <1>5 DEF Ingestion!Next, Ingestion!Land
  <1>6. CASE ~filled
    <2>1. active' = [active EXCEPT ![entity[a]] = active[entity[a]]]
      BY <1>2, <1>3, <1>6, Zenon DEF TypeOK
    <2> QED BY <1>2, <1>4, <2>1 DEF TypeOK
  <1>7. CASE filled
    BY <1>3, <1>5, <1>7
  <1> QED BY <1>6, <1>7

\* Every step of an attempt is one of the contract, or none.
LEMMA StepKeepsContract ==
    ASSUME RunInv, RunInv', [Next]_vars, SuccessFillsEveryTable'
    PROVE  [Ingestion!Next]_<<StatusColumn, active>>
  <1>0. TypeOK
    BY DEF RunInv
  <1>1. "failed" \in Terminal /\ Zero \in Counts
    BY DEF Terminal, Zero, Counts
  <1>2. CASE UNCHANGED <<audit, active>>
    BY <1>2 DEF StatusColumn
  <1>3. ASSUME NEW a \in Attempts, CreateRun(a) \/ CreateRunRaises(a)
        PROVE  [Ingestion!Next]_<<StatusColumn, active>>
    <2>1. UNCHANGED active /\ (UNCHANGED audit \/ audit' = OpenedRow)
      BY <1>3 DEF CreateRun, CreateRunRaises, WriteRaises
    <2> QED BY <1>0, <1>1, <2>1, RowStep
  <1>4. ASSUME NEW a \in Attempts, Finish(a) \/ FinishRaises(a) \/ MarkFailed(a)
        PROVE  [Ingestion!Next]_<<StatusColumn, active>>
    <2>1. Verdict(a) \in Terminal /\ totals[a] \in Counts
      BY <1>0, VerdictType, CountsType
    <2>2. UNCHANGED active /\ \/ UNCHANGED audit
                              \/ audit' = ClosedRow(audit, Verdict(a), totals[a])
                              \/ audit' = ClosedRow(audit, "failed", totals[a])
      BY <1>4 DEF Finish, FinishRaises, MarkFailed, WriteRaises
    <2> QED BY <1>0, <1>1, <2>1, <2>2, RowStep
  <1>5. ASSUME NEW a \in Attempts, Load(a) \/ LoadUnacknowledged(a)
        PROVE  [Ingestion!Next]_<<StatusColumn, active>>
    BY <1>0, <1>5, LoadStep DEF Load, LoadUnacknowledged
  <1>6. ASSUME NEW a \in Attempts,
               \/ Connect(a) \/ ConnectFails(a) \/ Extract(a) \/ EntityFails(a)
               \/ Unexpected(a) \/ MarkFailedRaises(a) \/ Disconnect(a) \/ Crash(a)
        PROVE  UNCHANGED <<audit, active>>
    BY <1>6 DEF Connect, ConnectFails, Extract, EntityFails, Unexpected,
                MarkFailedRaises, Disconnect, Crash
  <1> QED BY <1>2, <1>3, <1>4, <1>5, <1>6 DEF Next, Step, AllOver, vars

\* run_ingestion keeps the contract of an ingestion batch.
THEOREM RunImplementsIngestion == Spec => ImplementsIngestion
  <1>1. Init => Ingestion!Init
    BY DEF Init, Ingestion!Init, StatusColumn
  <1> QED BY <1>1, StepKeepsContract, RunInvariant, SuccessIsFull, PTL
          DEF Spec, ImplementsIngestion, Ingestion!Spec

-----------------------------------------------------------------------------
(* How many steps an attempt has left.                                     *)

\* At most: two for each entity the loop has still to come to, and the way out.
StepsLeft(a) ==
    LET entities == 2 * (EntityCount - entity[a]) IN
    CASE pc[a] = "ready" -> 2 * EntityCount + 4
      [] pc[a] = "create" -> 2 * EntityCount + 3
      [] pc[a] = "extract" -> entities + 4
      [] pc[a] = "load" -> entities + 3
      [] pc[a] = "finish" -> 2
      [] pc[a] = "abort" -> 1
      [] OTHER -> 0

\* Whatever fails, raises or is killed, an attempt's own steps bring it nearer to
\* its end, and no step of another attempt with the same batch_id, and no broken
\* connection, takes it away from there: nothing is tried again.
AttemptProgress ==
    [][\A a \in Attempts :
         /\ StepsLeft(a)' <= StepsLeft(a)
         /\ Step(a) \/ Crash(a) => StepsLeft(a)' < StepsLeft(a)]_vars

\* The number of steps is a natural number, read off the attempt's own state.
LEMMA StepsLeftType ==
    ASSUME RunInv, NEW a \in Attempts
    PROVE  /\ StepsLeft(a) \in Nat
           /\ pc[a] # "over" => StepsLeft(a) > 0
           /\ entity[a] \in 1..EntityCount /\ EntityCount \in Nat \ {0}
           /\ pc[a] = "create" => entity[a] = 1
           /\ StepsLeft(a) <= 2 * EntityCount + 4
  <1>1. /\ entity[a] \in 1..EntityCount /\ EntityCount \in Nat \ {0}
        /\ pc[a] = "create" => entity[a] = 1
        /\ pc[a] \in {"ready", "create", "extract", "load", "finish", "abort", "over"}
    BY EntityCountAssumption
       DEF RunInv, TypeOK, Entities, AttemptInv, Counting
  <1> QED BY <1>1 DEF StepsLeft

\* The loop goes on with fewer entities, or ends.
LEMMA LoopProgress ==
    ASSUME RunInv, NEW a \in Attempts, NextEntity(a), pc[a] \in {"extract", "load"}
    PROVE  StepsLeft(a)' < StepsLeft(a)
  <1>1. /\ entity[a] \in 1..EntityCount /\ EntityCount \in Nat \ {0}
        /\ StepsLeft(a) >= 2 * (EntityCount - entity[a]) + 3
    BY StepsLeftType DEF StepsLeft
  <1>2. CASE entity[a] = EntityCount
    <2>1. pc'[a] = "finish"
      BY <1>2 DEF NextEntity, RunInv, TypeOK
    <2>2. StepsLeft(a)' = 2
      BY <2>1 DEF StepsLeft
    <2> QED BY <1>1, <1>2, <2>2, StepsLeftType
  <1>3. CASE entity[a] # EntityCount
    <2>1. pc'[a] = "extract" /\ entity'[a] = entity[a] + 1
      BY <1>3 DEF NextEntity, RunInv, TypeOK
    <2>2. StepsLeft(a)' = 2 * (EntityCount - (entity[a] + 1)) + 4
      BY <2>1 DEF StepsLeft
    <2> QED BY <1>1, <2>2, StepsLeftType
  <1> QED BY <1>2, <1>3

\* An attempt's own steps.
LEMMA OwnProgress ==
    ASSUME RunInv, NEW a \in Attempts, Step(a) \/ Crash(a)
    PROVE  StepsLeft(a)' < StepsLeft(a)
  <1>0. /\ StepsLeft(a) \in Nat /\ pc[a] # "over" => StepsLeft(a) > 0
        /\ entity[a] \in 1..EntityCount /\ EntityCount \in Nat \ {0}
        /\ pc[a] = "create" => entity[a] = 1
        /\ pc \in [Attempts -> {"ready", "create", "extract", "load", "finish",
                                "abort", "over"}]
    BY StepsLeftType DEF RunInv, TypeOK
  <1>1. CASE ConnectFails(a) \/ Finish(a) \/ MarkFailed(a) \/ MarkFailedRaises(a)
             \/ Crash(a)
    <2>1. pc'[a] = "over" /\ pc[a] # "over"
      BY <1>0, <1>1 DEF ConnectFails, Finish, MarkFailed, MarkFailedRaises, Crash,
         Exit, Alive
    <2>2. StepsLeft(a)' = 0
      BY <2>1 DEF StepsLeft
    <2>3. StepsLeft(a) > 0
      BY <2>1, StepsLeftType
    <2> QED BY <2>2, <2>3
  <1>2. CASE Connect(a)
    <2>1. pc[a] = "ready" /\ pc'[a] = "create"
      BY <1>0, <1>2 DEF Connect
    <2> QED BY <1>0, <2>1 DEF StepsLeft
  <1>3. CASE CreateRun(a)
    <2>1. pc[a] = "create" /\ pc'[a] = "extract" /\ entity'[a] = entity[a]
      BY <1>0, <1>3 DEF CreateRun
    <2> QED BY <1>0, <2>1 DEF StepsLeft
  <1>4. CASE CreateRunRaises(a) \/ FinishRaises(a) \/ Unexpected(a)
    <2>1. pc[a] \in {"create", "extract", "load", "finish"} /\ pc'[a] = "abort"
      BY <1>0, <1>4 DEF CreateRunRaises, FinishRaises, WriteRaises, Unexpected
    <2>2. StepsLeft(a)' = 1
      BY <2>1 DEF StepsLeft
    <2>3. StepsLeft(a) > 1
      BY <1>0, <2>1 DEF StepsLeft
    <2> QED BY <2>2, <2>3
  <1>5. CASE Extract(a)
    <2>1. pc[a] = "extract" /\ pc'[a] = "load" /\ entity'[a] = entity[a]
      BY <1>0, <1>5 DEF Extract
    <2> QED BY <1>0, <2>1 DEF StepsLeft
  <1>6. CASE EntityFails(a) \/ Load(a) \/ LoadUnacknowledged(a)
    BY <1>6, LoopProgress DEF EntityFails, Load, LoadUnacknowledged
  <1> QED BY <1>1, <1>2, <1>3, <1>4, <1>5, <1>6 DEF Step

\* An attempt with any number of entities takes at most 2 * EntityCount + 4 steps
\* of its own, beside any number of other attempts: what AttemptEnds rests on.
THEOREM AttemptsProgress ==
    Spec => AttemptProgress
                /\ [](\A a \in Attempts : StepsLeft(a) \in 0..2 * EntityCount + 4)
  <1>1. ASSUME RunInv, [Next]_vars
        PROVE  [\A a \in Attempts :
                  /\ StepsLeft(a)' <= StepsLeft(a)
                  /\ Step(a) \/ Crash(a) => StepsLeft(a)' < StepsLeft(a)]_vars
    <2>1. SUFFICES ASSUME vars' # vars, NEW a \in Attempts
                   PROVE  /\ StepsLeft(a)' <= StepsLeft(a)
                          /\ Step(a) \/ Crash(a) => StepsLeft(a)' < StepsLeft(a)
      OBVIOUS
    <2>2. RunInv'
      BY <1>1, NextKeeps
    <2>3. StepsLeft(a) \in Nat
      BY <1>1, StepsLeftType
    <2>4. StepsLeft(a)' \in Nat
      <3>1. /\ entity'[a] \in 1..EntityCount /\ EntityCount \in Nat \ {0}
        BY <2>2, EntityCountAssumption DEF RunInv, TypeOK, Entities
      <3> QED BY <3>1 DEF StepsLeft
    <2>5. CASE Step(a) \/ Crash(a)
      BY <1>1, <2>3, <2>4, <2>5, OwnProgress
    <2>6. CASE ~(Step(a) \/ Crash(a))
      <3>1. PICK b \in Attempts : Step(b) \/ Disconnect(b) \/ Crash(b)
        BY <1>1, <2>1 DEF Next, AllOver
      <3>2. pc'[a] = pc[a] /\ entity'[a] = entity[a]
        BY <1>1, <2>6, <3>1
           DEF RunInv, TypeOK, Step, Disconnect, Crash, Connect, ConnectFails,
               CreateRun, CreateRunRaises, Extract, EntityFails, Unexpected, Load,
               LoadUnacknowledged, Finish, FinishRaises, MarkFailed,
               MarkFailedRaises, WriteRaises, NextEntity, Exit
      <3>3. StepsLeft(a)' = StepsLeft(a)
        BY <3>2 DEF StepsLeft
      <3> QED BY <2>3, <2>6, <3>3
    <2> QED BY <2>5, <2>6
  <1>2. RunInv => \A a \in Attempts : StepsLeft(a) \in 0..2 * EntityCount + 4
    BY StepsLeftType
  <1> QED BY <1>1, <1>2, RunInvariant, PTL DEF Spec, AttemptProgress
=============================================================================
