--------------------------- MODULE MCEntityLoader ---------------------------
(***************************************************************************)
(* Instances of EntityLoader for TLC: the feeds a load may be called with. *)
(***************************************************************************)
EXTENDS EntityLoader, TLC, SequencesExt

CONSTANTS MaxValid,     \* longest list of valid records of a feed
          MaxRejected   \* longest list of records validation refused

\* A refused or unstorable record needs no choice of value.
OneValue == CHOOSE v \in Values : TRUE

Loadable == [id : Ids, value : Values, fits : {TRUE}, storable : {TRUE}]
Refused == [id : Ids, value : {OneValue}, fits : {FALSE}, storable : {TRUE}]
Poison == [id : Ids, value : {OneValue}, fits : {FALSE}, storable : {FALSE}]

\* Every feed of one process: duplicates, refused records, unparsable ids.
RichFeeds ==
    [valid : BoundedSeq(Loadable \cup Refused \cup Poison, MaxValid),
     rejected : BoundedSeq(Issue, MaxRejected)]

\* Feeds for competing loads: what interferes is what is written, so every
\* record can be loaded and no id comes twice.
WriteFeeds ==
    [valid : {s \in BoundedSeq(Loadable, MaxValid) :
                 \A j, k \in 1..Len(s) : s[j].id = s[k].id => j = k},
     rejected : {<<>>}]

IdSymmetry == Permutations(Ids)
Symmetry == Permutations(Procs) \cup Permutations(Ids)
=============================================================================
