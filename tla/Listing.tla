------------------------------ MODULE Listing ------------------------------
(***************************************************************************)
(* The paged listings, read page after page while rows come and go.        *)
(* handleAppsQuery (internal/api/rest/admin_routes.go) and handleUserLookup *)
(* (internal/api/rest/users_lookup.go) page with a cursor, the rows of the *)
(* page shown; UserRepository.ListByOrg and the List of the audit trail    *)
(* page with LIMIT and OFFSET.                                             *)
(*                                                                         *)
(* A row is its place in the order of the listing: created_at, newest      *)
(* first, or username, and the id where the query breaks ties with it.     *)
(* The queries with an OFFSET break none, so rows of one instant are in no *)
(* fixed order there; the places stand for distinct instants.  The search  *)
(* text and the filters are the same all through a walk, so only rows that *)
(* match are modelled.                                                     *)
(***************************************************************************)
EXTENDS Naturals, FiniteSets, SequencesExt

CONSTANTS
    MaxPlace,       \* bound on the rows there can ever be
    Asked,          \* the page size asked for
    Most, Default,  \* the largest page size, and the size of those that ask for more
    Dialect,        \* "apps", "lookup", "users" or "audit"
    MaxChanges      \* bound on the rows inserted and deleted

ListingAssumption ==
    /\ {MaxPlace, Asked, Most, Default} \subseteq Nat \ {0} /\ MaxChanges \in Nat
    /\ Dialect \in {"apps", "lookup", "users", "audit"}

VARIABLES
    rows,       \* the places of the rows in the table
    gone,       \* the places of deleted rows: ids are not used again
    page,       \* the last answer
    ask,        \* a request that has counted the rows and not read the page
    walk,       \* what the reader has been through (history)
    changes     \* the rows inserted and deleted

vars == <<rows, gone, page, ask, walk, changes>>

Places == 1 .. MaxPlace
Cursor == Dialect \in {"apps", "lookup"}
NoPage == [data |-> <<>>, next |-> FALSE, prev |-> FALSE, offset |-> 0]
NoAsk == [pending |-> FALSE, offset |-> 0, total |-> 0]
\* forward: only next pages since the first one; listed: how often each row
\* was shown since then; stable: the rows that were there all the time; steady:
\* no row came or went; deleted: one went; split: one came between a count and
\* its page.
NoWalk == [forward |-> FALSE, listed |-> [k \in Places |-> 0], stable |-> {},
           steady |-> FALSE, deleted |-> FALSE, split |-> FALSE]

Init ==
    /\ rows \in SUBSET Places
    /\ gone = {} /\ page = NoPage /\ ask = NoAsk /\ walk = NoWalk /\ changes = 0

-----------------------------------------------------------------------------
(* The queries.                                                            *)

\* A page size beyond the largest is replaced by the default one, by the largest
\* one in List, and taken as it is by ListByOrg.
PageSize ==
    CASE Asked <= Most \/ Dialect = "users" -> Asked
      [] Asked > Most /\ Cursor -> Default
      [] Asked > Most /\ Dialect = "audit" -> Most

Upto(q, n) == SubSeq(q, 1, IF n < Len(q) THEN n ELSE Len(q))
Ascending(s) == SetToSortSeq(s, LAMBDA a, b : a < b)
Descending(s) == SetToSortSeq(s, LAMBDA a, b : a > b)

\* The cursor: rows after the bottom row of the page, or before its top row.
\* An empty page has neither, and the condition is left out.
After == IF page.data = <<>> THEN rows ELSE {k \in rows : k > Last(page.data)}
Before == IF page.data = <<>> THEN rows ELSE {k \in rows : k < Head(page.data)}

\* Mutant: the query asks for no more than the page.
FetchExact(q) == [data |-> Upto(q, PageSize), extra |-> Len(Upto(q, PageSize)) > PageSize]
\* LIMIT is one row more than the page, which says whether there are others.
Fetch(q) == [data |-> Upto(q, PageSize), extra |-> Len(Upto(q, PageSize + 1)) > PageSize]

Answer(data, next, prev) == [data |-> data, next |-> next, prev |-> prev, offset |-> 0]

AppsQuery(type) ==
    CASE type = "next" -> LET f == Fetch(Ascending(After)) IN Answer(f.data, f.extra, TRUE)
      [] type = "prev" -> LET f == Fetch(Descending(Before)) IN
                             Answer(Reverse(f.data), TRUE, f.extra)
      [] type = "first" -> LET f == Fetch(Ascending(rows)) IN Answer(f.data, f.extra, FALSE)

\* A previous page says "next" when there are rows before it, and always "prev".
UserLookup(type) ==
    CASE type = "next" -> LET f == Fetch(Ascending(After)) IN Answer(f.data, f.extra, TRUE)
      [] type = "prev" -> LET f == Fetch(Descending(Before)) IN
                             Answer(Reverse(f.data), f.extra, TRUE)
      [] type = "last" -> LET f == Fetch(Descending(rows)) IN
                             Answer(Reverse(f.data), FALSE, TRUE)
      [] type = "first" -> LET f == Fetch(Ascending(rows)) IN Answer(f.data, f.extra, FALSE)

\* LIMIT PageSize OFFSET offset; a reader goes on while rows are left of the
\* total of the same answer.
Window(offset, total) ==
    LET q == Ascending(rows)
        data == SubSeq(q, offset + 1, IF offset + PageSize < Len(q) THEN offset + PageSize ELSE Len(q))
    IN [data |-> data, next |-> data # <<>> /\ offset + Len(data) < total, prev |-> offset > 0,
        offset |-> offset]

-----------------------------------------------------------------------------
(* The reader.                                                             *)

Shown(data) == [k \in Places |-> IF Contains(data, k) THEN 1 ELSE 0]
\* A walk that begins, and one that goes on, at the answer data.
Begun(data) == [NoWalk EXCEPT !.forward = TRUE, !.listed = Shown(data), !.stable = rows,
                              !.steady = TRUE]
Gone(data) == [walk EXCEPT !.listed = [k \in Places |->
                  IF walk.forward /\ @[k] < 2 THEN @[k] + Shown(data)[k] ELSE @[k]]]

Query(type) == IF Dialect = "apps" THEN AppsQuery(type) ELSE UserLookup(type)

FirstPage ==
    /\ Cursor
    /\ page' = Query("first") /\ walk' = Begun(page'.data)
    /\ UNCHANGED <<rows, gone, ask, changes>>

NextPage ==
    /\ Cursor /\ page.next
    /\ page' = Query("next") /\ walk' = Gone(page'.data)
    /\ UNCHANGED <<rows, gone, ask, changes>>

PrevPage ==
    /\ Cursor /\ page.prev
    /\ page' = Query("prev") /\ walk' = [walk EXCEPT !.forward = FALSE]
    /\ UNCHANGED <<rows, gone, ask, changes>>

\* Only handleUserLookup knows "last".
LastPage ==
    /\ Dialect = "lookup"
    /\ page' = Query("last") /\ walk' = [walk EXCEPT !.forward = FALSE]
    /\ UNCHANGED <<rows, gone, ask, changes>>

\* The COUNT of ListByOrg and of List: a walk begins at offset 0 and goes on
\* behind the rows it was given.
Count(offset) ==
    /\ ~Cursor /\ ~ask.pending
    /\ offset > 0 => page.next
    /\ ask' = [pending |-> TRUE, offset |-> offset, total |-> Cardinality(rows)]
    /\ walk' = IF offset = 0 THEN Begun(<<>>) ELSE walk
    /\ UNCHANGED <<rows, gone, page, changes>>

\* The SELECT, a statement of its own.
List ==
    /\ ask.pending /\ ask' = NoAsk
    /\ page' = Window(ask.offset, ask.total) /\ walk' = Gone(page'.data)
    /\ UNCHANGED <<rows, gone, changes>>

-----------------------------------------------------------------------------
(* The table.                                                              *)

Insert(k) ==
    /\ changes < MaxChanges /\ changes' = changes + 1
    /\ k \notin rows \cup gone
    /\ rows' = rows \cup {k}
    /\ walk' = [walk EXCEPT !.steady = FALSE, !.split = @ \/ ask.pending]
    /\ UNCHANGED <<gone, page, ask>>

Delete(k) ==
    /\ changes < MaxChanges /\ changes' = changes + 1
    /\ k \in rows
    /\ rows' = rows \ {k} /\ gone' = gone \cup {k}
    /\ walk' = [walk EXCEPT !.steady = FALSE, !.deleted = TRUE, !.stable = @ \ {k}]
    /\ UNCHANGED <<page, ask>>

Next ==
    \/ FirstPage \/ NextPage \/ PrevPage \/ LastPage
    \/ \E offset \in {0, page.offset + Len(page.data)} : Count(offset)
    \/ List
    \/ \E k \in Places : Insert(k) \/ Delete(k)

Spec == Init /\ [][Next]_vars

-----------------------------------------------------------------------------
\* A walk by cursor from the first page to the one that allows no next shows
\* every row that was there all the time exactly once, and no row twice,
\* whatever rows come and go (handleAppsQuery, handleUserLookup).  A walk by
\* offset does so while the table rests, and misses no such row unless one is
\* deleted meanwhile or inserted between a count and its page (ListByOrg, List).
WalkComplete ==
    walk.forward /\ ~ask.pending =>
        /\ Cursor \/ walk.steady => \A k \in Places : walk.listed[k] <= 1
        /\ ~page.next /\ (Cursor \/ ~(walk.deleted \/ walk.split)) =>
              \A k \in walk.stable : walk.listed[k] >= 1

\* While the table does not change, a page of handleAppsQuery is a stretch of
\* the listing without gaps, and its flags say whether rows follow and whether
\* rows come before, in whichever order the pages are read.
FlagsTrue ==
    walk.steady /\ Dialect = "apps" =>
        LET shown == ToSet(page.data)
            outside == rows \ shown
        IN /\ shown \subseteq rows
           /\ page.next <=> \E k \in outside : \A s \in shown : s < k
           /\ page.prev <=> \E k \in outside : \A s \in shown : k < s
           /\ \A k \in outside : (\A s \in shown : s < k) \/ (\A s \in shown : k < s)
=============================================================================
