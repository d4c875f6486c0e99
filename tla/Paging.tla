------------------------------- MODULE Paging --------------------------------
(***************************************************************************)
(* A client that walks a list page by page while rows are written: the     *)
(* list endpoint (src/src/resource/hook.ts) over keyset cursors            *)
(* (src/src/resource/pagination.ts). The order is the database's; the      *)
(* condition that continues it behind a cursor is the code's, and the two  *)
(* must mean the same, ties and missing values included.                   *)
(***************************************************************************)
EXTENDS Integers, Sequences, FiniteSets

CONSTANTS
    Dialects,       \* the database: "sqlite" puts NULL below every value, "postgres" above
    NullsAt,        \* pagination.nullsPosition: "first" or "last"
    Sorts,          \* what a client may order by: sequences of [field, dir]
    Keys,           \* the primary keys
    Contents,       \* what rows hold, [x, y], by the number of sort fields
    Limits,         \* the limits asked for; the resource's maximum is MaxLimit
    MaxLimit,
    MaxChanges      \* bound: writes during a walk, by the number of sort fields

ASSUME PagingAssumption ==
    /\ Dialects \subseteq {"sqlite", "postgres"} /\ NullsAt \subseteq {"first", "last"}
    /\ Sorts \subseteq Seq([field : {"x", "y"}, dir : {"asc", "desc"}])
    /\ Keys \subseteq Nat \ {0} /\ IsFiniteSet(Keys)
    /\ \A order \in Sorts : Contents[Len(order)] \subseteq [x : Nat, y : Nat]
    /\ Limits \subseteq Int /\ MaxLimit \in Nat \ {0}

VARIABLES
    database, nullsAt,
    sortedBy,       \* the ordering of the walk
    table,          \* the rows in the reader's scope
    cursor,         \* what the last page's cursor encodes, or none
    pages,          \* the items of all pages, in the order they came
    walking,        \* has the client got the last page?
    touched         \* ghost: the rows written since the walk began

pagingVars == <<database, nullsAt, sortedBy, table, cursor, pages, walking, touched>>

Blank == 0      \* NULL
NoCursor == [id |-> 0, v |-> <<>>, order |-> <<>>]

\* The database's order: NULL below or above all values, descending the other way round, then
\* the primary key.
Below(v, w) == IF v = Blank THEN database = "sqlite" /\ w # Blank
               ELSE IF w = Blank THEN database = "postgres" ELSE v < w
Sooner(v, w, dir) == IF dir = "desc" THEN Below(w, v) ELSE Below(v, w)
Precedes(order, r, s) ==
    \/ \E i \in DOMAIN order :
          /\ Sooner(r[order[i].field], s[order[i].field], order[i].dir)
          /\ \A j \in 1..(i - 1) : r[order[j].field] = s[order[j].field]
    \/ /\ \A i \in DOMAIN order : r[order[i].field] = s[order[i].field]
       /\ r.pk < s.pk

-----------------------------------------------------------------------------
(* buildCursorCondition, forward *)

\* A SQL comparison with NULL is not true; drizzle's value of the cursor is not NULL here.
Compares(dir, v, w) == v # Blank /\ (IF dir = "desc" THEN v < w ELSE v > w)

\* Mutant of Effective: the position of nulls does not depend on the direction.
EffectiveAsIs(dir) == nullsAt

Effective(dir) == IF dir = "asc" THEN nullsAt
                  ELSE IF nullsAt = "last" THEN "first" ELSE "last"

Behind(dir, v, atCursor) ==
    IF atCursor = Blank THEN Effective(dir) = "first" /\ dir = "asc" /\ v # Blank
    ELSE \/ Compares(dir, v, atCursor)
         \/ v = Blank /\ (Effective(dir) = "last") = (dir = "asc")

CursorCondition(order, r) ==
    LET same(n) == \A j \in 1..n : r[order[j].field] = cursor.v[j] IN
    \/ \E i \in DOMAIN order : same(i - 1) /\ Behind(order[i].dir, r[order[i].field], cursor.v[i])
    \/ same(Len(order)) /\ r.pk > cursor.id

-----------------------------------------------------------------------------

\* normalizePaginationParams
Clamped(limit) == IF limit < 1 THEN 1 ELSE IF limit > MaxLimit THEN MaxLimit ELSE limit

\* extractCursorValues and encodeCursor: the fingerprint of the ordering goes with the values,
CursorOf(order, r) == [id |-> r.pk, v |-> [i \in DOMAIN order |-> r[order[i].field]], order |-> order]
\* and a cursor that was issued under another ordering is refused.
Accepted(order) == cursor = NoCursor \/ cursor.order = order

\* What a query for these rows returns.
InOrder(rows, order) ==
    {found \in [1..Cardinality(rows) -> rows] :
        /\ \A i, j \in DOMAIN found : i < j => Precedes(order, found[i], found[j])
        /\ \A r \in rows : \E i \in DOMAIN found : found[i] = r}

\* GET of the list. One row more than the limit is read to know whether there is another page.
FetchPage(order, limit) ==
    /\ walking /\ Accepted(order)
    /\ cursor = NoCursor => order = sortedBy
    /\ \E found \in InOrder({r \in table : cursor = NoCursor \/ CursorCondition(order, r)}, order) :
          LET more == Len(found) > Clamped(limit)
              items == IF more THEN SubSeq(found, 1, Clamped(limit)) ELSE found
          IN /\ pages' = pages \o items
             /\ cursor' = IF more THEN CursorOf(order, items[Len(items)]) ELSE NoCursor
             /\ walking' = more
    /\ UNCHANGED <<database, nullsAt, sortedBy, table, touched>>

Changes == Cardinality(touched) < MaxChanges[Len(sortedBy)]

RowOf(id, v) == [pk |-> id, x |-> v.x, y |-> v.y]

\* Others' creates and updates, and deletes.
Save(r) ==
    /\ walking /\ Changes
    /\ table' = {s \in table : s.pk # r.pk} \cup {r} /\ table' # table
    /\ touched' = touched \cup {r.pk}
    /\ UNCHANGED <<database, nullsAt, sortedBy, cursor, pages, walking>>

Erase(r) ==
    /\ walking /\ Changes /\ r \in table
    /\ table' = table \ {r} /\ touched' = touched \cup {r.pk}
    /\ UNCHANGED <<database, nullsAt, sortedBy, cursor, pages, walking>>

PagingInit ==
    /\ database \in Dialects /\ nullsAt \in NullsAt /\ sortedBy \in Sorts
    /\ \E held \in [Keys -> Contents[Len(sortedBy)]] : table = {RowOf(id, held[id]) : id \in Keys}
    /\ cursor = NoCursor /\ pages = <<>> /\ walking = TRUE /\ touched = {}

PagingNext ==
    \/ \E order \in Sorts, limit \in Limits : FetchPage(order, limit)
    \/ \E id \in Keys, v \in Contents[Len(sortedBy)] : Save(RowOf(id, v))
    \/ \E r \in table : Erase(r)

PagingSpec == PagingInit /\ [][PagingNext]_pagingVars

-----------------------------------------------------------------------------

\* The database puts NULL where the cursor condition supposes it: last in both directions by
\* default, which is SQLite's descending and PostgreSQL's ascending order.
NullsFit(dir) ==
    IF dir = "asc" THEN (database = "sqlite") = (nullsAt = "first")
    ELSE database = "sqlite" /\ nullsAt = "last"

Seen == {pages[i] : i \in DOMAIN pages}

Suits == \A i \in DOMAIN sortedBy :
    \/ NullsFit(sortedBy[i].dir)
    \/ \A r \in table \cup Seen : r[sortedBy[i].field] # Blank

\* "Paginating through a static dataset returns each item exactly once ... all items"
\* (website/docs/contracts/pagination.md:15-16): what is returned is in strict order over all
\* pages, whoever writes meanwhile, and rows that nobody writes are all there in the end; where
\* the database orders NULL otherwise than the cursor supposes this fails, and is not asked.
PagesWhole ==
    Suits =>
      /\ \A i, j \in DOMAIN pages : i < j => Precedes(sortedBy, pages[i], pages[j])
      /\ ~walking => {r \in table : r.pk \notin touched} \subseteq Seen
=============================================================================
