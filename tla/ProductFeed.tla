----------------------------- MODULE ProductFeed -----------------------------
(***************************************************************************)
(* PlatziApiClient.iter_all (api_client.py) as run_ingestion uses it: one  *)
(* entity is read from the source API into a list.  Categories and users   *)
(* come in one answer; products come page by page, at growing offsets, and *)
(* the catalogue may change between two requests.  A request that fails is *)
(* repeated or ends the reading; a reading that fails delivers nothing.    *)
(*                                                                         *)
(* What the feed lacks, load_entity takes for gone and deactivates.        *)
(***************************************************************************)
EXTENDS Naturals, Sequences, FiniteSets

CONSTANTS PageSize,      \* api_page_size
          MaxPages,      \* api_max_pages
          MaxAttempts,   \* api_max_attempts
          MaxSize,       \* bound: products at the start of the reading
          MaxChanges,    \* bound: changes of the catalogue while it is read
          MayRepeat      \* may the source answer with the first page again

ASSUME SettingsAssumption ==
    /\ PageSize \in Nat \ {0}
    /\ MaxPages \in Nat \ {0}
    /\ MaxAttempts \in Nat \ {0}
ASSUME BoundsAssumption == MaxSize \in Nat /\ MaxChanges \in Nat
ASSUME FlagAssumption == MayRepeat \in BOOLEAN

VARIABLES source,    \* the catalogue: product ids in the order of the API
          newest,    \* the id given last
          paged,     \* is the entity "products"
          offset,    \* of the next request
          pages,     \* full pages taken
          served,    \* seen_page_signatures
          tries,     \* failed attempts of the current request
          feed,      \* the records yielded so far
          state,     \* "reading", "done" or "failed"
          kept,      \* history: products in the catalogue all the time
          gone,      \* history: products removed since the reading began
          added,     \* history: products added since
          faithful   \* history: every answer was what had been asked for

catalogue == <<source, newest, kept, gone, added>>
vars == <<catalogue, paged, offset, pages, served, tries, feed, state, faithful>>

Elements(s) == {s[i] : i \in 1..Len(s)}

Init ==
    /\ \E n \in 0..MaxSize : newest = n /\ source = [i \in 1..n |-> i]
    /\ kept = 1..newest
    /\ gone = 0
    /\ added = 0
    /\ paged \in BOOLEAN
    /\ offset = 0
    /\ pages = 0
    /\ served = {}
    /\ tries = 0
    /\ feed = <<>>
    /\ state = "reading"
    /\ faithful = TRUE

-----------------------------------------------------------------------------
(* The source: external. *)

Without(s, i) == [j \in 1..Len(s) - 1 |-> IF j < i THEN s[j] ELSE s[j + 1]]

\* A product is removed; those behind it move up.
Remove ==
    /\ state = "reading"
    /\ gone + added < MaxChanges
    /\ \E i \in 1..Len(source) :
          /\ source' = Without(source, i)
          /\ kept' = kept \ {source[i]}
    /\ gone' = gone + 1
    /\ UNCHANGED <<newest, added, paged, offset, pages, served, tries, feed, state,
                   faithful>>

\* A product is added behind the others.
Add ==
    /\ state = "reading"
    /\ gone + added < MaxChanges
    /\ newest' = newest + 1
    /\ source' = Append(source, newest')
    /\ added' = added + 1
    /\ UNCHANGED <<kept, gone, paged, offset, pages, served, tries, feed, state,
                   faithful>>

\* The answer to a request with this offset.
PageAt(n) ==
    SubSeq(source, n + 1, IF n + PageSize <= Len(source) THEN n + PageSize ELSE Len(source))

-----------------------------------------------------------------------------
(* _iter_paginated_products: what is made of a page. *)

\* The empty page ends the catalogue.
EmptyPage(page) ==
    /\ page = <<>>
    /\ state' = "done"
    /\ UNCHANGED <<feed, offset, pages, served, tries>>

\* Variant: a page is not compared with the pages before it.
RepeatedPageTaken(page) ==
    /\ page # <<>>
    /\ page \in served
    /\ feed' = feed \o page
    /\ offset' = offset + PageSize
    /\ pages' = pages + 1
    /\ tries' = 0
    /\ state' = IF pages + 1 = MaxPages THEN "failed" ELSE "reading"
    /\ UNCHANGED served

\* A page seen before: PaginationError.
RepeatedPage(page) ==
    /\ page # <<>>
    /\ page \in served
    /\ state' = "failed"
    /\ UNCHANGED <<feed, offset, pages, served, tries>>

\* A page that is not full is the last one.
ShortPage(page) ==
    /\ page # <<>>
    /\ page \notin served
    /\ Len(page) < PageSize
    /\ feed' = feed \o page
    /\ state' = "done"
    /\ UNCHANGED <<offset, pages, served, tries>>

\* Variant: the limit of pages ends the reading as the end of the catalogue does.
FullPageOrEnough(page) ==
    /\ page \notin served
    /\ Len(page) = PageSize
    /\ feed' = feed \o page
    /\ offset' = offset + PageSize
    /\ served' = served \cup {page}
    /\ pages' = pages + 1
    /\ tries' = 0
    /\ state' = IF pages + 1 = MaxPages THEN "done" ELSE "reading"

\* Variant: the next offset leaves a gap.
FullPageGap(page) ==
    /\ page \notin served
    /\ Len(page) = PageSize
    /\ feed' = feed \o page
    /\ offset' = offset + PageSize + 1
    /\ served' = served \cup {page}
    /\ pages' = pages + 1
    /\ tries' = 0
    /\ state' = IF pages + 1 = MaxPages THEN "failed" ELSE "reading"

\* After a full page there may be another one; after the last page allowed the
\* reading fails, also when the catalogue has ended with it.
FullPage(page) ==
    /\ page \notin served
    /\ Len(page) = PageSize
    /\ feed' = feed \o page
    /\ offset' = offset + PageSize
    /\ served' = served \cup {page}
    /\ pages' = pages + 1
    /\ tries' = 0
    /\ state' = IF pages + 1 = MaxPages THEN "failed" ELSE "reading"

TakePage(page) ==
    EmptyPage(page) \/ RepeatedPage(page) \/ ShortPage(page) \/ FullPage(page)

\* The page that was asked for.
ProductsAnswered ==
    /\ state = "reading"
    /\ paged
    /\ TakePage(PageAt(offset))
    /\ UNCHANGED <<catalogue, paged, faithful>>

\* A source that ignores the offset answers with its first page.
OffsetIgnored ==
    /\ MayRepeat
    /\ state = "reading"
    /\ paged
    /\ offset > 0
    /\ TakePage(PageAt(0))
    /\ faithful' = FALSE
    /\ UNCHANGED <<catalogue, paged>>

\* The other entities: the one answer is the feed.
ListAnswered ==
    /\ state = "reading"
    /\ ~paged
    /\ feed' = source
    /\ state' = "done"
    /\ UNCHANGED <<catalogue, paged, offset, pages, served, tries, faithful>>

\* Variant: the attempts are not counted.
RequestRetried ==
    /\ state = "reading"
    /\ tries' = (IF tries = 0 THEN 1 ELSE 0)
    /\ UNCHANGED <<catalogue, paged, offset, pages, served, feed, state, faithful>>

\* Variant: one attempt too many.
RequestFailsLate ==
    /\ state = "reading"
    /\ IF tries < MaxAttempts
       THEN tries' = tries + 1 /\ UNCHANGED state
       ELSE state' = "failed" /\ UNCHANGED tries
    /\ UNCHANGED <<catalogue, paged, offset, pages, served, feed, faithful>>

\* _request_list: a transport error, a 429 or a 5xx.  The request is repeated,
\* or it was the last attempt and the error is raised.
RequestFails ==
    /\ state = "reading"
    /\ IF tries + 1 < MaxAttempts
       THEN tries' = tries + 1 /\ UNCHANGED state
       ELSE state' = "failed" /\ UNCHANGED tries
    /\ UNCHANGED <<catalogue, paged, offset, pages, served, feed, faithful>>

\* _request_list_once: another HTTP error, or an answer that is no list of
\* objects.  It is not repeated.
AnswerUnusable ==
    /\ state = "reading"
    /\ state' = "failed"
    /\ UNCHANGED <<catalogue, paged, offset, pages, served, tries, feed, faithful>>

\* A request of the client comes to an end.
Request == \/ ProductsAnswered \/ OffsetIgnored \/ ListAnswered
           \/ RequestFails \/ AnswerUnusable

Next == Request \/ Remove \/ Add

\* Every request is answered or times out.
Spec == Init /\ [][Next]_vars /\ WF_vars(Request)

-----------------------------------------------------------------------------
\* The variables have their types.
TypeOK ==
    /\ source \in Seq(Nat)
    /\ newest \in Nat
    /\ paged \in BOOLEAN
    /\ offset \in Nat
    /\ pages \in 0..MaxPages
    /\ served \in SUBSET Seq(Nat)
    /\ tries \in 0..MaxAttempts - 1
    /\ feed \in Seq(Nat)
    /\ state \in {"reading", "done", "failed"}
    /\ kept \in SUBSET Nat
    /\ gone \in Nat
    /\ added \in Nat
    /\ faithful \in BOOLEAN

\* Nothing the source answers moves the reading away from what it was asked for,
\* as long as the answers fit the offsets or no product was removed: a repeated
\* first page is then recognised.
OnCourse == faithful \/ gone = 0

\* A catalogue that does not change while it is read is delivered whole, each
\* product once and in order, or the reading fails: neither the end of the
\* pagination nor its limits cut it off, and a source that ignores the offset is
\* found out.
StableSourceIsWhole ==
    state = "done" /\ gone + added = 0 => feed = source

\* No product is delivered twice, whatever is removed and added between the
\* pages; nor by a source that ignores the offset, unless products are removed.
NoProductTwice ==
    OnCourse /\ state # "failed" =>
        \A i, j \in 1..Len(feed) : feed[i] = feed[j] => i = j

\* A product that was in the catalogue all the time can be missing from the
\* feed, and then be deactivated though it is still sold: a removal moves one
\* product from the next page to one already taken.  It is one for each removal
\* and no more, and none without a removal, whatever the source answers.
MissedOnlyByShift ==
    state = "done" /\ OnCourse => Cardinality(kept \ Elements(feed)) <= gone

\* Every reading ends, whatever the source answers.
ReadingEnds == state = "reading" ~> state # "reading"
=============================================================================
