-------------------------- MODULE ProductFeedProofs --------------------------
(***************************************************************************)
(* Theorems about ProductFeed for pages of any size, any limits, and any   *)
(* catalogue.  The argument follows the products that are ahead of the     *)
(* next request: as long as the source answers what it is asked, each      *)
(* product of the feed has left them for good, and a product that has left *)
(* them without getting into the feed was moved by a removal.              *)
(***************************************************************************)
EXTENDS ProductFeed, SequenceTheorems, FiniteSetTheorems, TLAPS

-----------------------------------------------------------------------------
(* The inductive invariant.                                                *)

\* The products the next requests can still come to.
Ahead == {source[j] : j \in offset + 1..Len(source)}

\* Those that never left the catalogue, are behind the offset, and not in the feed.
Lost == kept \ (Elements(feed) \cup Ahead)

\* The catalogue has no product twice, and new ids are new.
SourceInv ==
    /\ \A i, j \in 1..Len(source) : source[i] = source[j] => i = j
    /\ \A i \in 1..Len(source) : source[i] <= newest
    /\ \A i \in 1..Len(feed) : feed[i] <= newest
    /\ kept \subseteq Elements(source)
    /\ IsFiniteSet(kept)

ReadingInv ==
    state = "reading" /\ faithful =>
        /\ \A i \in 1..Len(feed) : \A j \in offset + 1..Len(source) :
               feed[i] # source[j]
        /\ gone + added = 0 =>
               offset <= Len(source) /\ feed = SubSeq(source, 1, offset)
        /\ Cardinality(Lost) <= gone

\* While the source is read another page is allowed.
PageLeft == state = "reading" => pages < MaxPages

\* The properties, of a source that answers what it is asked.
FaithfulIsWhole ==
    state = "done" /\ faithful /\ gone + added = 0 => feed = source

FaithfulOnce ==
    faithful /\ state # "failed" =>
        \A i, j \in 1..Len(feed) : feed[i] = feed[j] => i = j

FaithfulMisses ==
    state = "done" /\ faithful => Cardinality(kept \ Elements(feed)) <= gone

FeedInv == /\ TypeOK /\ SourceInv /\ ReadingInv /\ PageLeft
           /\ FaithfulIsWhole /\ FaithfulOnce /\ FaithfulMisses

-----------------------------------------------------------------------------
(* Pages and sequences.                                                    *)

\* A page is the part of the catalogue behind its offset; one that is not full
\* reaches the end.
LEMMA PageIs ==
    ASSUME source \in Seq(Nat), NEW n \in Nat
    PROVE  /\ PageAt(n) \in Seq(Nat)
           /\ Len(PageAt(n)) \in 0..PageSize
           /\ PageAt(n) # <<>> => n + Len(PageAt(n)) <= Len(source)
           /\ \A k \in 1..Len(PageAt(n)) : PageAt(n)[k] = source[n + k]
           /\ Len(PageAt(n)) < PageSize => n + Len(PageAt(n)) >= Len(source)
           /\ PageAt(n) # <<>> => PageAt(n) = SubSeq(source, n + 1, n + Len(PageAt(n)))
  <1> DEFINE L == Len(source)
             m == IF n + PageSize <= L THEN n + PageSize ELSE L
  <1>1. L \in Nat /\ PageSize \in Nat \ {0} /\ m \in Int /\ n + 1 \in Int /\ m <= L
    BY SettingsAssumption
  <1>2. PageAt(n) = SubSeq(source, n + 1, m)
    BY DEF PageAt
  <1>3. \A i \in n + 1..m : source[i] \in Nat
    BY <1>1
  <1>4. /\ PageAt(n) \in Seq(Nat)
        /\ Len(PageAt(n)) = IF n + 1 <= m THEN m - (n + 1) + 1 ELSE 0
        /\ \A i \in 1..m - (n + 1) + 1 : PageAt(n)[i] = source[n + 1 + i - 1]
    BY <1>1, <1>2, <1>3, SubSeqProperties
  <1>5. ASSUME NEW k \in 1..Len(PageAt(n)) PROVE PageAt(n)[k] = source[n + k]
    <2>1. k \in 1..m - (n + 1) + 1 /\ n + 1 + k - 1 = n + k
      BY <1>1, <1>4
    <2>2. PageAt(n)[k] = source[n + 1 + k - 1]
      BY <1>4, <2>1
    <2> QED BY <2>1, <2>2
  <1>6. PageAt(n) # <<>> => n + 1 <= m
    BY <1>1, <1>2, SubSeqEmpty
  <1>7. PageAt(n) # <<>> => m = n + Len(PageAt(n))
    BY <1>1, <1>4, <1>6
  <1> QED BY <1>1, <1>2, <1>4, <1>5, <1>6, <1>7

\* What a feed with one more page holds.
LEMMA FeedGrows ==
    ASSUME NEW f \in Seq(Nat), NEW p \in Seq(Nat)
    PROVE  /\ f \o p \in Seq(Nat)
           /\ Len(f \o p) = Len(f) + Len(p)
           /\ \A i \in 1..Len(f) : (f \o p)[i] = f[i]
           /\ \A i \in Len(f) + 1..Len(f) + Len(p) : (f \o p)[i] = p[i - Len(f)]
           /\ Elements(f \o p) = Elements(f) \cup Elements(p)
  <1>1. /\ f \o p \in Seq(Nat)
        /\ Len(f \o p) = Len(f) + Len(p)
        /\ \A i \in 1..Len(f) + Len(p) :
               (f \o p)[i] = IF i <= Len(f) THEN f[i] ELSE p[i - Len(f)]
    BY ConcatProperties
  <1>2. Len(f) \in Nat /\ Len(p) \in Nat
    OBVIOUS
  <1>3. Elements(f \o p) \subseteq Elements(f) \cup Elements(p)
    BY <1>1, <1>2 DEF Elements
  <1>4. Elements(f) \subseteq Elements(f \o p)
    BY <1>1, <1>2 DEF Elements
  <1>5. ASSUME NEW x \in Elements(p) PROVE x \in Elements(f \o p)
    <2>1. PICK k \in 1..Len(p) : x = p[k]
      BY DEF Elements
    <2>2. Len(f) + k \in 1..Len(f) + Len(p) /\ (f \o p)[Len(f) + k] = p[k]
      BY <1>1, <1>2
    <2> QED BY <1>1, <2>1, <2>2 DEF Elements
  <1> QED BY <1>1, <1>2, <1>3, <1>4, <1>5

-----------------------------------------------------------------------------
(* The steps of the source.                                                *)

\* The catalogue without one of its products.
LEMMA WithoutIs ==
    ASSUME source \in Seq(Nat), NEW i \in 1..Len(source)
    PROVE  /\ Without(source, i) \in Seq(Nat)
           /\ Len(Without(source, i)) = Len(source) - 1
           /\ \A j \in 1..Len(source) - 1 :
                  Without(source, i)[j] = IF j < i THEN source[j] ELSE source[j + 1]
  <1>1. Len(source) \in Nat /\ Len(source) - 1 \in Nat
    OBVIOUS
  <1>2. \A j \in 1..Len(source) - 1 :
            (IF j < i THEN source[j] ELSE source[j + 1]) \in Nat
    BY <1>1
  <1>3. Without(source, i) \in [1..Len(source) - 1 -> Nat]
    BY <1>2 DEF Without
  <1> QED BY <1>1, <1>3 DEF Without

\* A removal loses at most one product: the first one ahead.
LEMMA RemoveKeeps ==
    ASSUME FeedInv, Remove
    PROVE  FeedInv'
  <1>1. PICK i \in 1..Len(source) :
            /\ source' = Without(source, i)
            /\ kept' = kept \ {source[i]}
    BY DEF Remove
  <1>2. /\ gone' = gone + 1 /\ state = "reading"
        /\ UNCHANGED <<newest, added, paged, offset, pages, served, tries, feed, state,
                       faithful>>
    BY DEF Remove
  <1>3. /\ source \in Seq(Nat) /\ Len(source) \in Nat /\ offset \in Nat
        /\ gone \in Nat /\ added \in Nat /\ feed \in Seq(Nat) /\ kept \in SUBSET Nat
    BY DEF FeedInv, TypeOK
  <1>4. /\ source' \in Seq(Nat) /\ Len(source') = Len(source) - 1
        /\ \A j \in 1..Len(source) - 1 :
               source'[j] = IF j < i THEN source[j] ELSE source[j + 1]
    BY <1>1, <1>3, WithoutIs
  <1>0. \A j \in 1..Len(source') :
            \E k \in {j, j + 1} : k \in 1..Len(source) /\ source'[j] = source[k]
    <2> SUFFICES ASSUME NEW j \in 1..Len(source')
                 PROVE  \E k \in {j, j + 1} :
                            k \in 1..Len(source) /\ source'[j] = source[k]
      OBVIOUS
    <2>1. j \in 1..Len(source) - 1 /\ j \in 1..Len(source) /\ j + 1 \in 1..Len(source)
      BY <1>3, <1>4
    <2>2. source'[j] = IF j < i THEN source[j] ELSE source[j + 1]
      BY <1>4, <2>1
    <2> QED BY <2>1, <2>2
  <1>5. TypeOK' /\ PageLeft'
    <2>1. kept' \subseteq kept
      BY <1>1
    <2>2. kept' \in SUBSET Nat
      BY <1>3, <2>1
    <2>3. gone' \in Nat
      BY <1>2, <1>3
    <2> QED BY <1>2, <1>4, <2>2, <2>3 DEF FeedInv, TypeOK, PageLeft
  <1>6. \A x \in 1..Len(source'), y \in 1..Len(source') : source'[x] = source'[y] => x = y
    <2> SUFFICES ASSUME NEW x \in 1..Len(source'), NEW y \in 1..Len(source'),
                        source'[x] = source'[y]
                 PROVE  x = y
      OBVIOUS
    <2> DEFINE ox == IF x < i THEN x ELSE x + 1
               oy == IF y < i THEN y ELSE y + 1
    <2>0. /\ x \in 1..Len(source) - 1 /\ y \in 1..Len(source) - 1
          /\ i \in Nat /\ Len(source) \in Nat
      BY <1>3, <1>4
    <2>1. ox \in 1..Len(source) /\ oy \in 1..Len(source)
      BY <2>0
    <2>2. source'[x] = source[ox] /\ source'[y] = source[oy]
      BY <1>4, <2>0
    <2>3. ox = oy
      BY <2>1, <2>2 DEF FeedInv, SourceInv
    <2> QED BY <1>3, <1>4, <2>3
  <1>7. kept' \subseteq Elements(source')
    <2> SUFFICES ASSUME NEW p \in kept, p # source[i] PROVE p \in Elements(source')
      BY <1>1
    <2>1. PICK j \in 1..Len(source) : p = source[j]
      BY DEF FeedInv, SourceInv, Elements
    <2>2. CASE j < i
      <3>1. j \in 1..Len(source') /\ source'[j] = p
        BY <1>3, <1>4, <2>1, <2>2
      <3> QED BY <3>1 DEF Elements
    <2>3. CASE j > i
      <3>1. j - 1 \in 1..Len(source') /\ source'[j - 1] = p
        BY <1>3, <1>4, <2>1, <2>3
      <3> QED BY <3>1 DEF Elements
    <2> QED BY <2>1, <2>2, <2>3
  <1>8. IsFiniteSet(kept')
    BY <1>1, FS_RemoveElement DEF FeedInv, SourceInv
  <1>9. SourceInv'
    <2>1. \A j \in 1..Len(source') : source'[j] <= newest'
      BY <1>0, <1>2 DEF FeedInv, SourceInv
    <2> QED BY <1>2, <1>6, <1>7, <1>8, <2>1 DEF FeedInv, SourceInv
  <1>10. ReadingInv'
    <2> SUFFICES ASSUME faithful PROVE ReadingInv'
      BY <1>2 DEF ReadingInv
    <2>1. \A x \in 1..Len(feed) : \A j \in offset + 1..Len(source') : feed[x] # source'[j]
      <3> SUFFICES ASSUME NEW x \in 1..Len(feed), NEW j \in offset + 1..Len(source')
                   PROVE  feed[x] # source'[j]
        OBVIOUS
      <3>1. PICK k \in {j, j + 1} : k \in 1..Len(source) /\ source'[j] = source[k]
        BY <1>0, <1>3, <1>4
      <3>2. k \in offset + 1..Len(source)
        BY <1>3, <3>1
      <3> QED BY <1>2, <3>1, <3>2 DEF FeedInv, ReadingInv
    <2>2. Lost' \subseteq Lost \cup {source[offset + 1]}
      <3> SUFFICES ASSUME NEW p \in kept, p # source[i], p \notin Elements(feed),
                          p \notin Ahead', p \in Ahead
                   PROVE  p = source[offset + 1]
        BY <1>1, <1>2 DEF Lost
      <3>1. PICK j \in offset + 1..Len(source) : p = source[j]
        BY DEF Ahead
      <3>2. Ahead' = {source'[k] : k \in offset + 1..Len(source')}
        BY <1>2 DEF Ahead
      <3>3. CASE j < i
        <4>1. j \in offset + 1..Len(source') /\ source'[j] = p
          BY <1>3, <1>4, <3>1, <3>3
        <4> QED BY <3>2, <4>1
      <3>4. CASE j > i /\ j # offset + 1
        <4>1. j - 1 \in offset + 1..Len(source') /\ source'[j - 1] = p
          BY <1>3, <1>4, <3>1, <3>4
        <4> QED BY <3>2, <4>1
      <3> QED BY <1>3, <3>1, <3>3, <3>4
    <2>3. IsFiniteSet(Lost) /\ Cardinality(Lost) \in Nat /\ Cardinality(Lost) <= gone
      BY <1>2, FS_Subset, FS_CardinalityType DEF FeedInv, SourceInv, ReadingInv, Lost
    <2>4. /\ IsFiniteSet(Lost \cup {source[offset + 1]})
          /\ Cardinality(Lost \cup {source[offset + 1]}) <= gone + 1
      <3> DEFINE more == Lost \cup {source[offset + 1]}
      <3>1. /\ IsFiniteSet(more)
            /\ \/ Cardinality(more) = Cardinality(Lost)
               \/ Cardinality(more) = Cardinality(Lost) + 1
        BY <2>3, FS_AddElement
      <3> QED BY <1>3, <2>3, <3>1
    <2>5. Cardinality(Lost') <= gone + 1
      <3>1. Lost' \in SUBSET (Lost \cup {source[offset + 1]})
        BY <2>2
      <3>2. /\ Cardinality(Lost') <= Cardinality(Lost \cup {source[offset + 1]})
            /\ Cardinality(Lost') \in Nat
            /\ Cardinality(Lost \cup {source[offset + 1]}) \in Nat
        BY <2>4, <3>1, FS_Subset, FS_CardinalityType
      <3> QED BY <1>3, <2>4, <3>2
    <2> QED BY <1>2, <1>3, <2>1, <2>5 DEF ReadingInv
  <1>11. FaithfulIsWhole' /\ FaithfulMisses'
    BY <1>2 DEF FaithfulIsWhole, FaithfulMisses
  <1>12. FaithfulOnce'
    BY <1>2 DEF FeedInv, FaithfulOnce
  <1> QED BY <1>5, <1>9, <1>10, <1>11, <1>12 DEF FeedInv

\* A product added behind the others loses none.
LEMMA AddKeeps ==
    ASSUME FeedInv, Add
    PROVE  FeedInv'
  <1>1. /\ newest' = newest + 1 /\ source' = Append(source, newest + 1)
        /\ added' = added + 1 /\ state = "reading"
        /\ UNCHANGED <<kept, gone, paged, offset, pages, served, tries, feed, state,
                       faithful>>
    BY DEF Add
  <1>2. /\ source \in Seq(Nat) /\ Len(source) \in Nat /\ offset \in Nat /\ newest \in Nat
        /\ gone \in Nat /\ added \in Nat /\ feed \in Seq(Nat)
    BY DEF FeedInv, TypeOK
  <1>3. /\ source' \in Seq(Nat) /\ Len(source') = Len(source) + 1
        /\ \A j \in 1..Len(source) : source'[j] = source[j]
        /\ source'[Len(source) + 1] = newest + 1
    BY <1>1, <1>2, AppendProperties
  <1>4. TypeOK' /\ PageLeft'
    BY <1>1, <1>2, <1>3 DEF FeedInv, TypeOK, PageLeft
  <1>5. SourceInv'
    <2>0. \A i \in 1..Len(source) : source[i] \in Nat /\ source[i] <= newest
      BY <1>2 DEF FeedInv, SourceInv
    <2>1. \A i, j \in 1..Len(source') : source'[i] = source'[j] => i = j
      <3> SUFFICES ASSUME NEW i \in 1..Len(source'), NEW j \in 1..Len(source'),
                          source'[i] = source'[j]
                   PROVE  i = j
        OBVIOUS
      <3>1. CASE i \in 1..Len(source) /\ j \in 1..Len(source)
        BY <1>3, <3>1 DEF FeedInv, SourceInv
      <3>2. \A k \in 1..Len(source) : source'[k] \in Nat /\ source'[k] <= newest
        BY <1>3, <2>0
      <3>3. CASE i = Len(source) + 1
        <4>1. source'[j] = newest + 1
          BY <1>3, <3>3
        <4>2. j \notin 1..Len(source)
          BY <1>2, <3>2, <4>1
        <4> QED BY <1>2, <1>3, <3>3, <4>2
      <3>4. CASE j = Len(source) + 1
        <4>1. source'[i] = newest + 1
          BY <1>3, <3>4
        <4>2. i \notin 1..Len(source)
          BY <1>2, <3>2, <4>1
        <4> QED BY <1>2, <1>3, <3>4, <4>2
      <3> QED BY <1>2, <1>3, <3>1, <3>3, <3>4
    <2>2. \A i \in 1..Len(source') : source'[i] <= newest'
      BY <1>1, <1>2, <1>3, <2>0
    <2>3. \A i \in 1..Len(feed') : feed'[i] <= newest'
      <3>1. \A i \in 1..Len(feed) : feed[i] \in Nat
        BY <1>2
      <3> QED BY <1>1, <1>2, <3>1 DEF FeedInv, SourceInv
    <2>4. kept' \subseteq Elements(source')
      BY <1>1, <1>2, <1>3 DEF FeedInv, SourceInv, Elements
    <2> QED BY <1>1, <2>1, <2>2, <2>3, <2>4 DEF FeedInv, SourceInv
  <1>6. ReadingInv'
    <2> SUFFICES ASSUME faithful PROVE ReadingInv'
      BY <1>1 DEF ReadingInv
    <2>1. \A x \in 1..Len(feed) : \A j \in offset + 1..Len(source') : feed[x] # source'[j]
      <3> SUFFICES ASSUME NEW x \in 1..Len(feed), NEW j \in offset + 1..Len(source')
                   PROVE  feed[x] # source'[j]
        OBVIOUS
      <3>1. feed[x] \in Nat /\ feed[x] <= newest
        BY <1>2 DEF FeedInv, SourceInv
      <3>2. CASE j = Len(source) + 1
        BY <1>2, <1>3, <3>1, <3>2
      <3>3. CASE j \in offset + 1..Len(source)
        BY <1>1, <1>2, <1>3, <3>3 DEF FeedInv, ReadingInv
      <3> QED BY <1>2, <1>3, <3>2, <3>3
    <2>2. Ahead \subseteq Ahead'
      BY <1>1, <1>2, <1>3 DEF Ahead
    <2>3. Lost' \in SUBSET Lost
      BY <1>1, <2>2 DEF Lost
    <2>4. IsFiniteSet(Lost) /\ Cardinality(Lost) <= gone
      BY <1>1, FS_Subset DEF FeedInv, SourceInv, ReadingInv, Lost
    <2>5. /\ Cardinality(Lost') <= Cardinality(Lost)
          /\ Cardinality(Lost') \in Nat /\ Cardinality(Lost) \in Nat
      BY <2>3, <2>4, FS_Subset, FS_CardinalityType
    <2> QED BY <1>1, <1>2, <2>1, <2>4, <2>5 DEF ReadingInv
  <1>7. FaithfulIsWhole' /\ FaithfulMisses'
    BY <1>1 DEF FaithfulIsWhole, FaithfulMisses
  <1>8. FaithfulOnce'
    BY <1>1 DEF FeedInv, FaithfulOnce
  <1> QED BY <1>4, <1>5, <1>6, <1>7, <1>8 DEF FeedInv

-----------------------------------------------------------------------------
(* The steps of the client.                                                *)

\* A reading that has not started satisfies the invariant.
LEMMA InitKeeps == Init => FeedInv
  <1> SUFFICES ASSUME Init PROVE FeedInv
    OBVIOUS
  <1>1. PICK n \in 0..MaxSize : newest = n /\ source = [i \in 1..n |-> i]
    BY DEF Init
  <1>2. n \in Nat /\ MaxPages \in Nat \ {0} /\ MaxAttempts \in Nat \ {0}
    BY BoundsAssumption, SettingsAssumption
  <1>3. source \in Seq(Nat) /\ Len(source) = n /\ \A i \in 1..n : source[i] = i
    BY <1>1, <1>2
  <1>4. /\ feed = <<>> /\ Len(feed) = 0 /\ Elements(feed) = {} /\ offset = 0
        /\ kept = 1..n /\ gone = 0 /\ added = 0 /\ state = "reading" /\ pages = 0
    BY <1>1 DEF Init, Elements
  <1>5. TypeOK
    BY <1>1, <1>2, <1>3, <1>4 DEF Init, TypeOK
  <1>6. Elements(source) = 1..n
    BY <1>3 DEF Elements
  <1>7. SourceInv
    <2>1. IsFiniteSet(kept)
      BY <1>2, <1>4, FS_Interval
    <2>2. \A i, j \in 1..Len(source) : source[i] = source[j] => i = j
      BY <1>3
    <2>3. \A i \in 1..Len(source) : source[i] <= newest
      BY <1>1, <1>2, <1>3
    <2>4. \A i \in 1..Len(feed) : feed[i] <= newest
      BY <1>4
    <2> QED BY <1>4, <1>6, <2>1, <2>2, <2>3, <2>4 DEF SourceInv
  <1>8. ReadingInv
    <2>1. Ahead = Elements(source)
      BY <1>2, <1>3, <1>4 DEF Ahead, Elements
    <2>2. Lost = {} /\ Cardinality(Lost) = 0
      BY <1>4, <1>6, <2>1, FS_EmptySet DEF Lost
    <2>3. SubSeq(source, 1, 0) = <<>>
      BY SubSeqEmpty
    <2> QED BY <1>2, <1>3, <1>4, <2>2, <2>3 DEF ReadingInv
  <1> QED BY <1>2, <1>4, <1>5, <1>7, <1>8
          DEF FeedInv, PageLeft, FaithfulIsWhole, FaithfulOnce, FaithfulMisses

\* Steps that neither take a page nor end the reading well: requests that fail,
\* pages that are refused.
LEMMA FailureKeeps ==
    ASSUME FeedInv, UNCHANGED <<catalogue, paged, offset, pages, served, feed>>,
           tries' \in 0..MaxAttempts - 1, faithful' \in BOOLEAN, faithful' => faithful,
           state' = "failed" \/ (state' = state /\ state = "reading")
    PROVE  FeedInv'
  <1>1. TypeOK' /\ PageLeft'
    BY DEF FeedInv, TypeOK, PageLeft, catalogue
  <1>2. SourceInv'
    BY DEF FeedInv, SourceInv, catalogue
  <1>3. ReadingInv'
    BY DEF FeedInv, ReadingInv, catalogue, Lost, Ahead
  <1>4. FaithfulIsWhole' /\ FaithfulMisses'
    BY DEF FaithfulIsWhole, FaithfulMisses
  <1>5. FaithfulOnce'
    BY DEF FeedInv, FaithfulOnce
  <1> QED BY <1>1, <1>2, <1>3, <1>4, <1>5 DEF FeedInv

\* A page that is taken: its products are the first ones ahead.
LEMMA TakenPage ==
    ASSUME FeedInv, state = "reading", NEW n \in Nat, NEW page, page = PageAt(n),
           UNCHANGED catalogue, feed' = feed \o page, page # <<>>
    PROVE  /\ feed' \in Seq(Nat)
           /\ SourceInv'
           /\ Elements(feed') = Elements(feed) \cup {source[j] : j \in n + 1..n + Len(page)}
           /\ faithful /\ n = offset => FaithfulOnce'
           /\ faithful /\ n = offset /\ gone + added = 0 =>
                  feed' = SubSeq(source, 1, offset + Len(page))
  <1>1. /\ source \in Seq(Nat) /\ feed \in Seq(Nat) /\ Len(feed) \in Nat
        /\ Len(source) \in Nat /\ offset \in Nat
    BY DEF FeedInv, TypeOK
  <1>2. /\ page \in Seq(Nat) /\ Len(page) \in Nat
        /\ n + Len(page) <= Len(source)
        /\ \A k \in 1..Len(page) : page[k] = source[n + k]
        /\ page = SubSeq(source, n + 1, n + Len(page))
    <2>1. /\ PageAt(n) \in Seq(Nat)
          /\ Len(PageAt(n)) \in 0..PageSize
          /\ PageAt(n) # <<>> => n + Len(PageAt(n)) <= Len(source)
          /\ \A k \in 1..Len(PageAt(n)) : PageAt(n)[k] = source[n + k]
          /\ PageAt(n) # <<>> => PageAt(n) = SubSeq(source, n + 1, n + Len(PageAt(n)))
      BY <1>1, PageIs
    <2>2. Len(PageAt(n)) \in Nat
      BY <2>1, SettingsAssumption
    <2> QED BY <2>1, <2>2
  <1>3. /\ feed' \in Seq(Nat) /\ Len(feed') = Len(feed) + Len(page)
        /\ \A i \in 1..Len(feed) : feed'[i] = feed[i]
        /\ \A i \in Len(feed) + 1..Len(feed') : feed'[i] = page[i - Len(feed)]
        /\ Elements(feed') = Elements(feed) \cup Elements(page)
    BY <1>1, <1>2, FeedGrows
  <1>4. Elements(page) = {source[j] : j \in n + 1..n + Len(page)}
    <2>1. ASSUME NEW x \in Elements(page)
          PROVE  x \in {source[j] : j \in n + 1..n + Len(page)}
      <3>1. PICK k \in 1..Len(page) : x = page[k]
        BY DEF Elements
      <3>2. n + k \in n + 1..n + Len(page) /\ x = source[n + k]
        BY <1>2, <3>1
      <3> QED BY <3>2
    <2>2. ASSUME NEW j \in n + 1..n + Len(page) PROVE source[j] \in Elements(page)
      <3>1. j - n \in 1..Len(page) /\ n + (j - n) = j
        BY <1>2
      <3>2. page[j - n] = source[n + (j - n)]
        BY <1>2, <3>1
      <3> QED BY <3>1, <3>2 DEF Elements
    <2> QED BY <2>1, <2>2
  <1>5. \A i \in Len(feed) + 1..Len(feed') :
            /\ n + (i - Len(feed)) \in n + 1..Len(source)
            /\ feed'[i] = source[n + (i - Len(feed))]
    <2> SUFFICES ASSUME NEW i \in Len(feed) + 1..Len(feed')
                 PROVE  /\ n + (i - Len(feed)) \in n + 1..Len(source)
                        /\ feed'[i] = source[n + (i - Len(feed))]
      OBVIOUS
    <2>1. i - Len(feed) \in 1..Len(page)
      BY <1>1, <1>2, <1>3
    <2>2. page[i - Len(feed)] = source[n + (i - Len(feed))]
      BY <1>2, <2>1
    <2>3. n + (i - Len(feed)) \in n + 1..Len(source)
      BY <1>1, <1>2, <2>1
    <2> QED BY <1>3, <2>2, <2>3
  <1>6. SourceInv'
    <2>1. \A i \in 1..Len(feed') : feed'[i] <= newest'
      <3> SUFFICES ASSUME NEW i \in 1..Len(feed') PROVE feed'[i] <= newest
        BY DEF catalogue
      <3>1. CASE i \in 1..Len(feed)
        BY <1>3, <3>1 DEF FeedInv, SourceInv
      <3>2. CASE i \in Len(feed) + 1..Len(feed')
        <4>1. n + (i - Len(feed)) \in 1..Len(source)
          BY <1>1, <1>5, <3>2
        <4> QED BY <1>5, <3>2, <4>1 DEF FeedInv, SourceInv
      <3> QED BY <1>1, <1>2, <1>3, <3>1, <3>2
    <2> QED BY <2>1 DEF FeedInv, SourceInv, catalogue
  <1>7. ASSUME faithful, n = offset PROVE FaithfulOnce'
    <2> SUFFICES ASSUME NEW i \in 1..Len(feed'), NEW j \in 1..Len(feed'),
                        feed'[i] = feed'[j]
                 PROVE  i = j
      BY DEF FaithfulOnce
    <2>0. \A x \in 1..Len(feed) : \A y \in offset + 1..Len(source) : feed[x] # source[y]
      BY <1>7 DEF FeedInv, ReadingInv
    <2>1. CASE i \in 1..Len(feed) /\ j \in 1..Len(feed)
      BY <1>3, <1>7, <2>1 DEF FeedInv, FaithfulOnce
    <2>2. CASE i \in 1..Len(feed) /\ j \in Len(feed) + 1..Len(feed')
      BY <1>3, <1>5, <1>7, <2>0, <2>2
    <2>3. CASE j \in 1..Len(feed) /\ i \in Len(feed) + 1..Len(feed')
      BY <1>3, <1>5, <1>7, <2>0, <2>3
    <2>4. CASE i \in Len(feed) + 1..Len(feed') /\ j \in Len(feed) + 1..Len(feed')
      <3>1. /\ n + (i - Len(feed)) \in 1..Len(source)
            /\ n + (j - Len(feed)) \in 1..Len(source)
        BY <1>1, <1>5, <2>4
      <3>2. source[n + (i - Len(feed))] = source[n + (j - Len(feed))]
        BY <1>5, <2>4
      <3>3. n + (i - Len(feed)) = n + (j - Len(feed))
        BY <3>1, <3>2 DEF FeedInv, SourceInv
      <3> QED BY <1>1, <2>4, <3>3
    <2> QED BY <1>1, <1>2, <1>3, <2>1, <2>2, <2>3, <2>4
  <1>8. ASSUME faithful, n = offset, gone + added = 0
        PROVE  feed' = SubSeq(source, 1, offset + Len(page))
    <2>1. offset <= Len(source) /\ feed = SubSeq(source, 1, offset)
      BY <1>8 DEF FeedInv, ReadingInv
    <2>2. /\ 1 \in 1..Len(source) + 1 /\ offset \in 1 - 1..Len(source)
          /\ offset + Len(page) \in offset..Len(source)
      BY <1>1, <1>2, <1>8, <2>1
    <2>3. SubSeq(source, 1, offset) \o SubSeq(source, offset + 1, offset + Len(page))
              = SubSeq(source, 1, offset + Len(page))
      BY <1>1, <2>2, ConcatAdjacentSubSeq
    <2> QED BY <1>2, <1>8, <2>1, <2>3
  <1> QED BY <1>3, <1>4, <1>6, <1>7, <1>8

\* The empty page: nothing is ahead, and the feed is what it was.
LEMMA EmptyPageKeeps ==
    ASSUME FeedInv, state = "reading", NEW n \in Nat, EmptyPage(PageAt(n)),
           UNCHANGED <<catalogue, paged>>, faithful' \in BOOLEAN,
           faithful' => faithful /\ n = offset
    PROVE  FeedInv'
  <1>1. /\ PageAt(n) = <<>> /\ state' = "done"
        /\ UNCHANGED <<feed, offset, pages, served, tries>>
    BY DEF EmptyPage
  <1>2. /\ source \in Seq(Nat) /\ Len(source) \in Nat /\ offset \in Nat
    BY DEF FeedInv, TypeOK
  <1>3. n >= Len(source)
    <2>1. Len(PageAt(n)) < PageSize => n + Len(PageAt(n)) >= Len(source)
      BY <1>2, PageIs
    <2>2. Len(PageAt(n)) = 0
      BY <1>1
    <2> QED BY <1>2, <2>1, <2>2, SettingsAssumption
  <1>4. TypeOK' /\ PageLeft'
    BY <1>1 DEF FeedInv, TypeOK, PageLeft, catalogue
  <1>5. SourceInv'
    BY <1>1 DEF FeedInv, SourceInv, catalogue
  <1>6. ReadingInv'
    BY <1>1 DEF ReadingInv
  <1>7. FaithfulIsWhole'
    <2> SUFFICES ASSUME faithful, n = offset, gone + added = 0 PROVE feed = source
      BY <1>1 DEF FaithfulIsWhole, catalogue
    <2>1. offset <= Len(source) /\ feed = SubSeq(source, 1, offset)
      BY DEF FeedInv, ReadingInv
    <2>2. offset = Len(source)
      BY <1>2, <1>3, <2>1
    <2> QED BY <1>2, <2>1, <2>2
  <1>8. FaithfulOnce'
    BY <1>1 DEF FeedInv, FaithfulOnce
  <1>9. FaithfulMisses'
    <2> SUFFICES ASSUME faithful, n = offset
                 PROVE  Cardinality(kept \ Elements(feed)) <= gone
      BY <1>1 DEF FaithfulMisses, catalogue
    <2>1. Ahead = {}
      BY <1>2, <1>3 DEF Ahead
    <2>2. Lost = kept \ Elements(feed)
      BY <2>1 DEF Lost
    <2> QED BY <2>2 DEF FeedInv, ReadingInv
  <1> QED BY <1>4, <1>5, <1>6, <1>7, <1>8, <1>9 DEF FeedInv

\* A page that is not full: with it all that was ahead is in the feed.
LEMMA ShortPageKeeps ==
    ASSUME FeedInv, state = "reading", NEW n \in Nat, ShortPage(PageAt(n)),
           UNCHANGED <<catalogue, paged>>, faithful' \in BOOLEAN,
           faithful' => faithful /\ n = offset
    PROVE  FeedInv'
  <1> DEFINE page == PageAt(n)
  <1>1. /\ page # <<>> /\ Len(page) < PageSize /\ feed' = feed \o page
        /\ state' = "done" /\ UNCHANGED <<offset, pages, served, tries>>
    BY DEF ShortPage
  <1>2. /\ source \in Seq(Nat) /\ Len(source) \in Nat /\ offset \in Nat
    BY DEF FeedInv, TypeOK
  <1>3. n + Len(page) = Len(source) /\ Len(page) \in Nat
    <2>1. /\ Len(page) \in 0..PageSize
          /\ page # <<>> => n + Len(page) <= Len(source)
          /\ Len(page) < PageSize => n + Len(page) >= Len(source)
      BY <1>2, PageIs
    <2> QED BY <1>1, <1>2, <2>1, SettingsAssumption
  <1>4. UNCHANGED catalogue
    OBVIOUS
  <1>5. /\ feed' \in Seq(Nat)
        /\ SourceInv'
        /\ Elements(feed') = Elements(feed) \cup {source[j] : j \in n + 1..n + Len(page)}
        /\ faithful /\ n = offset => FaithfulOnce'
        /\ faithful /\ n = offset /\ gone + added = 0 =>
               feed' = SubSeq(source, 1, offset + Len(page))
    BY <1>1, <1>4, TakenPage
  <1>6. TypeOK' /\ PageLeft'
    BY <1>1, <1>5 DEF FeedInv, TypeOK, PageLeft, catalogue
  <1>7. ReadingInv'
    BY <1>1 DEF ReadingInv
  <1>8. FaithfulIsWhole'
    <2> SUFFICES ASSUME faithful, n = offset, gone + added = 0 PROVE feed' = source
      BY <1>1 DEF FaithfulIsWhole, catalogue
    <2>1. feed' = SubSeq(source, 1, Len(source))
      BY <1>3, <1>5
    <2> QED BY <1>2, <2>1
  <1>9. FaithfulOnce'
    BY <1>5 DEF FaithfulOnce
  <1>10. FaithfulMisses'
    <2> SUFFICES ASSUME faithful, n = offset
                 PROVE  Cardinality(kept \ Elements(feed')) <= gone
      BY <1>1 DEF FaithfulMisses, catalogue
    <2>1. Ahead = {source[j] : j \in n + 1..n + Len(page)}
      BY <1>3 DEF Ahead
    <2>2. Lost = kept \ Elements(feed')
      BY <1>5, <2>1 DEF Lost
    <2> QED BY <2>2 DEF FeedInv, ReadingInv
  <1> QED BY <1>5, <1>6, <1>7, <1>8, <1>9, <1>10 DEF FeedInv

\* A full page: its products go from ahead of the offset into the feed, and the
\* offset passes these and no others.
LEMMA FullPageKeeps ==
    ASSUME FeedInv, state = "reading", NEW n \in Nat, FullPage(PageAt(n)),
           UNCHANGED <<catalogue, paged>>, faithful' \in BOOLEAN,
           faithful' => faithful /\ n = offset
    PROVE  FeedInv'
  <1> DEFINE page == PageAt(n)
  <1>0. PageSize \in Nat \ {0} /\ MaxPages \in Nat \ {0} /\ MaxAttempts \in Nat \ {0}
    BY SettingsAssumption
  <1>1. /\ page \notin served /\ Len(page) = PageSize /\ feed' = feed \o page
        /\ offset' = offset + PageSize /\ served' = served \cup {page}
        /\ pages' = pages + 1 /\ tries' = 0
        /\ state' = IF pages + 1 = MaxPages THEN "failed" ELSE "reading"
    BY DEF FullPage
  <1>2. /\ source \in Seq(Nat) /\ Len(source) \in Nat /\ offset \in Nat
        /\ pages \in Nat /\ pages < MaxPages /\ served \in SUBSET Seq(Nat)
        /\ gone \in Nat /\ added \in Nat
    BY <1>0 DEF FeedInv, TypeOK, PageLeft
  <1>3. page # <<>> /\ page \in Seq(Nat) /\ n + PageSize <= Len(source)
    <2>1. /\ page \in Seq(Nat)
          /\ page # <<>> => n + Len(page) <= Len(source)
      BY <1>2, PageIs
    <2>2. page # <<>>
      BY <1>0, <1>1
    <2> QED BY <1>1, <2>1, <2>2
  <1>4. UNCHANGED catalogue
    OBVIOUS
  <1>5. /\ feed' \in Seq(Nat)
        /\ SourceInv'
        /\ Elements(feed') = Elements(feed) \cup {source[j] : j \in n + 1..n + Len(page)}
        /\ faithful /\ n = offset => FaithfulOnce'
        /\ faithful /\ n = offset /\ gone + added = 0 =>
               feed' = SubSeq(source, 1, offset + Len(page))
    BY <1>1, <1>3, <1>4, TakenPage
  <1>6. TypeOK'
    <2>1. offset' \in Nat /\ pages' \in 0..MaxPages /\ tries' \in 0..MaxAttempts - 1
      BY <1>0, <1>1, <1>2
    <2>2. served' \in SUBSET Seq(Nat)
      BY <1>1, <1>2, <1>3
    <2>3. state' \in {"reading", "done", "failed"}
      BY <1>1
    <2> QED BY <1>5, <2>1, <2>2, <2>3 DEF FeedInv, TypeOK, catalogue
  <1>7. PageLeft'
    BY <1>0, <1>1, <1>2 DEF PageLeft
  <1>8. FaithfulOnce'
    BY <1>5 DEF FaithfulOnce
  <1>9. ReadingInv'
    <2> SUFFICES ASSUME faithful, n = offset PROVE ReadingInv'
      BY DEF ReadingInv
    <2>1. \A x \in 1..Len(feed') : \A j \in offset' + 1..Len(source') :
              feed'[x] # source'[j]
      <3> SUFFICES ASSUME NEW x \in 1..Len(feed'), NEW j \in offset + PageSize + 1..Len(source)
                   PROVE  feed'[x] # source[j]
        BY <1>1, <1>4 DEF catalogue
      <3>1. j \in offset + 1..Len(source) /\ j \in 1..Len(source)
        BY <1>0, <1>2
      <3>2. feed'[x] \in Elements(feed')
        BY DEF Elements
      <3>3. CASE feed'[x] \in Elements(feed)
        BY <3>1, <3>3 DEF FeedInv, ReadingInv, Elements
      <3>4. ASSUME NEW k \in n + 1..n + Len(page), feed'[x] = source[k]
            PROVE  feed'[x] # source[j]
        <4>1. k \in 1..Len(source) /\ k # j
          BY <1>0, <1>1, <1>2, <1>3
        <4> QED BY <3>1, <3>4, <4>1 DEF FeedInv, SourceInv
      <3> QED BY <1>5, <3>2, <3>3, <3>4
    <2>2. gone + added = 0 =>
              offset' <= Len(source') /\ feed' = SubSeq(source', 1, offset')
      BY <1>1, <1>3, <1>5 DEF catalogue
    <2>3. Ahead' = {source[j] : j \in offset + PageSize + 1..Len(source)}
      BY <1>1, <1>4 DEF Ahead, catalogue
    <2>4. Ahead \subseteq {source[j] : j \in n + 1..n + Len(page)} \cup Ahead'
      <3> SUFFICES ASSUME NEW j \in offset + 1..Len(source)
                   PROVE  source[j] \in {source[k] : k \in n + 1..n + Len(page)} \cup Ahead'
        BY DEF Ahead
      <3>1. j \in n + 1..n + Len(page) \/ j \in offset + PageSize + 1..Len(source)
        BY <1>0, <1>1, <1>2
      <3> QED BY <2>3, <3>1
    <2>5. Lost' \in SUBSET Lost
      <3>1. Lost' = kept \ (Elements(feed') \cup Ahead')
        BY <1>4 DEF Lost, catalogue
      <3> QED BY <1>5, <2>4, <3>1 DEF Lost
    <2>6. IsFiniteSet(Lost) /\ Cardinality(Lost) <= gone
      BY FS_Subset DEF FeedInv, SourceInv, ReadingInv, Lost
    <2>7. /\ Cardinality(Lost') <= Cardinality(Lost)
          /\ Cardinality(Lost') \in Nat /\ Cardinality(Lost) \in Nat
      BY <2>5, <2>6, FS_Subset, FS_CardinalityType
    <2>8. Cardinality(Lost') <= gone'
      BY <1>2, <1>4, <2>6, <2>7 DEF catalogue
    <2>9. gone' = gone /\ added' = added
      BY DEF catalogue
    <2> QED BY <2>1, <2>2, <2>8, <2>9 DEF ReadingInv
  <1>10. FaithfulIsWhole' /\ FaithfulMisses'
    BY <1>1 DEF FaithfulIsWhole, FaithfulMisses
  <1> QED BY <1>5, <1>6, <1>7, <1>8, <1>9, <1>10 DEF FeedInv

\* A page, asked for or not, keeps the invariant.
LEMMA PageKeeps ==
    ASSUME FeedInv, state = "reading", NEW n \in Nat, TakePage(PageAt(n)),
           UNCHANGED <<catalogue, paged>>, faithful' \in BOOLEAN,
           faithful' => faithful /\ n = offset
    PROVE  FeedInv'
  <1>1. CASE EmptyPage(PageAt(n))
    BY <1>1, EmptyPageKeeps
  <1>2. CASE RepeatedPage(PageAt(n))
    <2>1. tries' \in 0..MaxAttempts - 1
      BY <1>2 DEF RepeatedPage, FeedInv, TypeOK
    <2> QED BY <1>2, <2>1, FailureKeeps DEF RepeatedPage
  <1>3. CASE ShortPage(PageAt(n))
    BY <1>3, ShortPageKeeps
  <1>4. CASE FullPage(PageAt(n))
    BY <1>4, FullPageKeeps
  <1> QED BY <1>1, <1>2, <1>3, <1>4 DEF TakePage

\* The answer with the whole catalogue.
LEMMA ListKeeps ==
    ASSUME FeedInv, ListAnswered
    PROVE  FeedInv'
  <1>1. /\ feed' = source /\ state' = "done"
        /\ UNCHANGED <<catalogue, paged, offset, pages, served, tries, faithful>>
    BY DEF ListAnswered
  <1>2. TypeOK' /\ PageLeft'
    BY <1>1 DEF FeedInv, TypeOK, PageLeft, catalogue
  <1>3. SourceInv'
    BY <1>1 DEF FeedInv, SourceInv, catalogue
  <1>4. ReadingInv'
    BY <1>1 DEF ReadingInv
  <1>5. FaithfulIsWhole' /\ FaithfulOnce'
    BY <1>1 DEF FeedInv, SourceInv, FaithfulIsWhole, FaithfulOnce, catalogue
  <1>6. FaithfulMisses'
    <2>1. kept' \ Elements(feed') = {}
      BY <1>1 DEF FeedInv, SourceInv, catalogue
    <2>2. gone' \in Nat
      BY <1>2 DEF TypeOK
    <2>3. Cardinality(kept' \ Elements(feed')) = 0
      BY <2>1, FS_EmptySet
    <2> QED BY <2>2, <2>3 DEF FaithfulMisses
  <1> QED BY <1>2, <1>3, <1>4, <1>5, <1>6 DEF FeedInv

\* A failed request and an answer that is of no use.
LEMMA FailedRequestKeeps ==
    ASSUME FeedInv, RequestFails \/ AnswerUnusable
    PROVE  FeedInv'
  <1>1. tries \in 0..MaxAttempts - 1 /\ MaxAttempts \in Nat \ {0} /\ faithful \in BOOLEAN
    BY SettingsAssumption DEF FeedInv, TypeOK
  <1>2. /\ tries' \in 0..MaxAttempts - 1
        /\ state' = "failed" \/ (state' = state /\ state = "reading")
    BY <1>1 DEF RequestFails, AnswerUnusable
  <1>3. UNCHANGED <<catalogue, paged, offset, pages, served, feed, faithful>>
    BY DEF RequestFails, AnswerUnusable
  <1> QED BY <1>1, <1>2, <1>3, FailureKeeps

\* Every step keeps the invariant.
LEMMA NextKeeps == FeedInv /\ [Next]_vars => FeedInv'
  <1> SUFFICES ASSUME FeedInv, [Next]_vars PROVE FeedInv'
    OBVIOUS
  <1>0. offset \in Nat /\ 0 \in Nat /\ faithful \in BOOLEAN
    BY DEF FeedInv, TypeOK
  <1>1. CASE ProductsAnswered
    BY <1>0, <1>1, PageKeeps DEF ProductsAnswered
  <1>2. CASE OffsetIgnored
    BY <1>0, <1>2, PageKeeps DEF OffsetIgnored
  <1>3. CASE ListAnswered
    BY <1>3, ListKeeps
  <1>4. CASE RequestFails \/ AnswerUnusable
    BY <1>4, FailedRequestKeeps
  <1>5. CASE Remove
    BY <1>5, RemoveKeeps
  <1>6. CASE Add
    BY <1>6, AddKeeps
  <1>7. CASE UNCHANGED vars
    BY <1>7 DEF vars, catalogue, FeedInv, TypeOK, SourceInv, ReadingInv, PageLeft, Lost,
                Ahead, FaithfulIsWhole, FaithfulOnce, FaithfulMisses
  <1> QED BY <1>1, <1>2, <1>3, <1>4, <1>5, <1>6, <1>7 DEF Next, Request

-----------------------------------------------------------------------------
(* The theorems.                                                           *)

\* What is said of the products ahead of the offset holds in every reading.
THEOREM FeedInvariant == Spec => []FeedInv
  <1> QED BY InitKeeps, NextKeeps, PTL DEF Spec

\* The variables of the reader have their types.
THEOREM FeedTypeCorrect == Spec => []TypeOK
  <1>1. FeedInv => TypeOK
    BY DEF FeedInv
  <1> QED BY FeedInvariant, <1>1, PTL

-----------------------------------------------------------------------------
(* A source that ignores the offset.                                       *)

\* While no product is removed the first page stays as it was seen, so that its
\* coming again ends the reading.
RepeatGuard ==
    /\ gone = 0 /\ offset > 0 =>
           PageSize <= Len(source) /\ PageAt(0) \in served
    /\ gone = 0 /\ ~faithful => state = "failed"

\* The first page is that of a catalogue with a product more behind it.
LEMMA FirstPageStays ==
    ASSUME FeedInv, Add, PageSize <= Len(source)
    PROVE  PageAt(0)' = PageAt(0) /\ PageSize <= Len(source')
  <1>1. /\ source \in Seq(Nat) /\ newest + 1 \in Nat /\ PageSize \in Nat
        /\ source' = Append(source, newest + 1)
    BY SettingsAssumption DEF FeedInv, TypeOK, Add
  <1>2. /\ Len(source') = Len(source) + 1
        /\ \A i \in 1..Len(source) : source'[i] = source[i]
    BY <1>1
  <1>3. PageAt(0) = [i \in 1..PageSize |-> source[i]]
    BY <1>1 DEF PageAt
  <1>4. PageAt(0)' = [i \in 1..PageSize |-> source'[i]]
    BY <1>1, <1>2 DEF PageAt
  <1> QED BY <1>1, <1>2, <1>3, <1>4

\* A full page is remembered; if it is not the first one, the first one was
\* before it.
LEMMA PageKeepsGuard ==
    ASSUME FeedInv, RepeatGuard, state = "reading",
           NEW n \in {0, offset}, n = 0 \/ faithful' = faithful,
           TakePage(PageAt(n)), UNCHANGED catalogue,
           faithful' = faithful \/ offset > 0
    PROVE  RepeatGuard'
  <1> DEFINE page == PageAt(n)
  <1>1. /\ source \in Seq(Nat) /\ offset \in Nat /\ gone \in Nat
        /\ PageSize \in Nat \ {0}
        /\ source' = source /\ gone' = gone /\ PageAt(0)' = PageAt(0)
    BY SettingsAssumption DEF FeedInv, TypeOK, catalogue, PageAt
  <1>2. gone = 0 => faithful
    BY DEF RepeatGuard
  <1>3. /\ page \in Seq(Nat)
        /\ page # <<>> => n + Len(page) <= Len(source)
    BY <1>1, PageIs
  <1>4. CASE EmptyPage(page) \/ RepeatedPage(page) \/ ShortPage(page)
    <2>1. offset' = offset /\ served' = served
      BY <1>4 DEF EmptyPage, RepeatedPage, ShortPage
    <2>2. CASE faithful' = faithful
      BY <1>1, <1>2, <2>1, <2>2 DEF RepeatGuard
    <2>3. CASE offset > 0 /\ n = 0 /\ gone = 0
      <3>1. page \in served /\ PageSize <= Len(source)
        BY <2>3 DEF RepeatGuard
      <3>2. page # <<>>
        BY <1>1, <3>1, <2>3 DEF PageAt
      <3>3. state' = "failed"
        BY <1>4, <3>1, <3>2 DEF EmptyPage, RepeatedPage, ShortPage
      <3> QED BY <1>1, <2>1, <3>3 DEF RepeatGuard
    <2>4. CASE gone # 0
      BY <1>1, <2>4 DEF RepeatGuard
    <2> QED BY <2>2, <2>3, <2>4
  <1>5. CASE FullPage(page)
    <2>1. /\ page \notin served /\ Len(page) = PageSize
          /\ offset' = offset + PageSize /\ served' = served \cup {page}
      BY <1>5 DEF FullPage
    <2>2. page # <<>> /\ PageSize <= Len(source)
      BY <1>1, <1>3, <2>1
    <2>3. CASE gone = 0
      <3>1. n = 0 => offset = 0
        BY <1>1, <2>1, <2>3 DEF RepeatGuard
      <3>2. faithful' = faithful
        BY <1>1, <3>1
      <3>3. PageAt(0) \in served'
        BY <1>1, <2>1, <2>3, <3>1 DEF RepeatGuard
      <3> QED BY <1>1, <1>2, <2>2, <2>3, <3>2, <3>3 DEF RepeatGuard
    <2>4. CASE gone # 0
      BY <1>1, <2>4 DEF RepeatGuard
    <2> QED BY <2>3, <2>4
  <1> QED BY <1>4, <1>5 DEF TakePage

\* Every step keeps it.
LEMMA NextKeepsGuard == FeedInv /\ RepeatGuard /\ [Next]_vars => RepeatGuard'
  <1> SUFFICES ASSUME FeedInv, RepeatGuard, [Next]_vars PROVE RepeatGuard'
    OBVIOUS
  <1>0. offset \in Nat /\ gone \in Nat /\ faithful \in BOOLEAN
    BY DEF FeedInv, TypeOK
  <1>1. CASE ProductsAnswered
    BY <1>0, <1>1, PageKeepsGuard DEF ProductsAnswered
  <1>2. CASE OffsetIgnored
    BY <1>0, <1>2, PageKeepsGuard DEF OffsetIgnored
  <1>3. CASE ListAnswered \/ RequestFails \/ AnswerUnusable
    <2>1. UNCHANGED <<catalogue, offset, served, faithful>>
      BY <1>3 DEF ListAnswered, RequestFails, AnswerUnusable
    <2>2. state = "reading"
      BY <1>3 DEF ListAnswered, RequestFails, AnswerUnusable
    <2> QED BY <2>1, <2>2 DEF RepeatGuard, PageAt, catalogue
  <1>4. CASE Remove
    BY <1>0, <1>4 DEF Remove, RepeatGuard
  <1>5. CASE Add
    <2>1. UNCHANGED <<offset, served, faithful, gone, state>>
      BY <1>5 DEF Add
    <2> QED BY <1>5, <2>1, FirstPageStays DEF RepeatGuard
  <1>6. CASE UNCHANGED vars
    BY <1>6 DEF vars, catalogue, RepeatGuard, PageAt
  <1> QED BY <1>1, <1>2, <1>3, <1>4, <1>5, <1>6 DEF Next, Request

\* A source that ignores the offset is found out, unless products are removed.
THEOREM GuardInvariant == Spec => [](FeedInv /\ RepeatGuard)
  <1>1. Init => RepeatGuard
    BY DEF Init, RepeatGuard
  <1> QED BY <1>1, InitKeeps, NextKeeps, NextKeepsGuard, PTL DEF Spec

-----------------------------------------------------------------------------
(* What is delivered.                                                      *)

\* Neither the pages nor their limit nor a repeated page cut off or lengthen a
\* catalogue that stays as it is.
THEOREM StableIsWhole == Spec => []StableSourceIsWhole
  <1>1. FeedInv /\ RepeatGuard => StableSourceIsWhole
    BY DEF FeedInv, TypeOK, RepeatGuard, FaithfulIsWhole, StableSourceIsWhole
  <1> QED BY GuardInvariant, <1>1, PTL

\* No product comes twice, whatever happens to the catalogue; nor from a source
\* that ignores the offset, unless products are removed.
THEOREM NothingTwice == Spec => []NoProductTwice
  <1>1. FeedInv /\ RepeatGuard => NoProductTwice
    BY DEF FeedInv, RepeatGuard, FaithfulOnce, NoProductTwice, OnCourse
  <1> QED BY GuardInvariant, <1>1, PTL

\* The products wrongly left out are no more than the removals.
THEOREM MissedByShift == Spec => []MissedOnlyByShift
  <1>1. FeedInv /\ RepeatGuard => MissedOnlyByShift
    BY DEF FeedInv, RepeatGuard, FaithfulMisses, MissedOnlyByShift, OnCourse
  <1> QED BY GuardInvariant, <1>1, PTL

-----------------------------------------------------------------------------
(* How many requests a reading makes.                                      *)

\* At most how many requests are still to come: MaxAttempts for each page left,
\* less the attempts that have failed for the current one.
RequestsLeft ==
    IF state = "reading" THEN (MaxPages - pages) * MaxAttempts - tries ELSE 0

\* Every request is one less, and changes of the catalogue give the reader no
\* request more, however many there are.
RequestsRunOut ==
    [][/\ Request => RequestsLeft' < RequestsLeft
       /\ Remove \/ Add => RequestsLeft' = RequestsLeft]_vars

RequestsLimited == RequestsLeft \in 0..MaxPages * MaxAttempts

\* A page taken is worth more than the attempts that failed for it.
LEMMA PageWorth ==
    ASSUME NEW left \in Nat \ {0}, NEW a \in Nat \ {0}, NEW t \in 0..a - 1
    PROVE  /\ left * a \in Nat
           /\ left * a - t > 0
           /\ (left - 1) * a < left * a - t
  <1>1. left * a = (left - 1) * a + a
    <2>1. \A x \in Nat : (x + 1) * a = x * a + a
      OBVIOUS
    <2>2. left - 1 \in Nat /\ (left - 1) + 1 = left
      OBVIOUS
    <2> QED BY <2>1, <2>2
  <1>2. (left - 1) * a \in Nat
    OBVIOUS
  <1> QED BY <1>1, <1>2

\* What is left, from the invariant.
LEMMA RequestsLeftType ==
    ASSUME FeedInv
    PROVE  /\ RequestsLeft \in Nat
           /\ RequestsLeft <= MaxPages * MaxAttempts
           /\ state = "reading" => RequestsLeft > 0
  <1>1. /\ MaxPages \in Nat \ {0} /\ MaxAttempts \in Nat \ {0}
        /\ pages \in 0..MaxPages /\ tries \in 0..MaxAttempts - 1
        /\ state = "reading" => pages < MaxPages
    BY SettingsAssumption DEF FeedInv, TypeOK, PageLeft
  <1>2. MaxPages * MaxAttempts \in Nat
    BY <1>1
  <1>3. CASE state = "reading"
    <2>1. MaxPages - pages \in Nat \ {0} /\ MaxPages - pages <= MaxPages
      BY <1>1, <1>3
    <2>2. /\ (MaxPages - pages) * MaxAttempts \in Nat
          /\ (MaxPages - pages) * MaxAttempts - tries > 0
      BY <1>1, <2>1, PageWorth
    <2>3. \A x, y, a \in Nat : x <= y => x * a <= y * a
      OBVIOUS
    <2>4. (MaxPages - pages) * MaxAttempts <= MaxPages * MaxAttempts
      BY <1>1, <2>1, <2>3
    <2>5. RequestsLeft = (MaxPages - pages) * MaxAttempts - tries
      BY <1>3 DEF RequestsLeft
    <2> HIDE DEF RequestsLeft
    <2> QED BY <1>1, <1>2, <2>2, <2>4, <2>5
  <1>4. CASE state # "reading"
    BY <1>2, <1>4 DEF RequestsLeft
  <1> QED BY <1>3, <1>4

\* A request is spent, whatever becomes of it.
LEMMA RequestSpent ==
    ASSUME FeedInv, Request
    PROVE  RequestsLeft' < RequestsLeft
  <1>1. /\ MaxPages \in Nat \ {0} /\ MaxAttempts \in Nat \ {0}
        /\ pages \in 0..MaxPages /\ tries \in 0..MaxAttempts - 1
        /\ state = "reading" /\ pages < MaxPages
    BY SettingsAssumption
       DEF FeedInv, TypeOK, PageLeft, Request, ProductsAnswered, OffsetIgnored,
           ListAnswered, RequestFails, AnswerUnusable
  <1>2. RequestsLeft \in Nat /\ RequestsLeft > 0
    BY <1>1, RequestsLeftType
  <1>3. CASE state' # "reading"
    BY <1>2, <1>3 DEF RequestsLeft
  <1>4. CASE state' = "reading" /\ pages' = pages + 1 /\ tries' = 0
    <2>1. MaxPages - pages \in Nat \ {0}
      BY <1>1
    <2>2. ((MaxPages - pages) - 1) * MaxAttempts
              < (MaxPages - pages) * MaxAttempts - tries
      BY <1>1, <2>1, PageWorth
    <2>3. (MaxPages - pages) - 1 = MaxPages - pages'
      BY <1>1, <1>4
    <2>4. RequestsLeft' = ((MaxPages - pages) - 1) * MaxAttempts
      <3>1. ((MaxPages - pages) - 1) * MaxAttempts \in Nat
        BY <1>1, <2>1
      <3> QED BY <1>4, <2>3, <3>1 DEF RequestsLeft
    <2> QED BY <1>1, <2>2, <2>4 DEF RequestsLeft
  <1>5. CASE state' = "reading" /\ pages' = pages /\ tries' = tries + 1
    <2>1. (MaxPages - pages) * MaxAttempts \in Int
      BY <1>1
    <2> QED BY <1>1, <1>5, <2>1 DEF RequestsLeft
  <1>6. \/ state' # "reading"
        \/ pages' = pages + 1 /\ tries' = 0
        \/ pages' = pages /\ tries' = tries + 1
    BY DEF Request, ProductsAnswered, OffsetIgnored, ListAnswered, RequestFails,
       AnswerUnusable, TakePage, EmptyPage, RepeatedPage, ShortPage, FullPage
  <1> QED BY <1>3, <1>4, <1>5, <1>6

\* A reading makes at most api_max_pages * api_max_attempts requests: what
\* ReadingEnds rests on, for any limits and however the catalogue changes.
THEOREM RequestsAreLimited == Spec => []RequestsLimited /\ RequestsRunOut
  <1>1. FeedInv => RequestsLimited
    BY RequestsLeftType, SettingsAssumption DEF RequestsLimited
  <1>2. FeedInv /\ [Next]_vars =>
          [/\ Request => RequestsLeft' < RequestsLeft
           /\ Remove \/ Add => RequestsLeft' = RequestsLeft]_vars
    <2>1. Remove \/ Add => RequestsLeft' = RequestsLeft
      BY DEF Remove, Add, RequestsLeft
    <2> QED BY <2>1, RequestSpent
  <1> QED BY <1>1, <1>2, FeedInvariant, PTL DEF Spec, RequestsRunOut
=============================================================================
