------------------------------ MODULE ListProofs ------------------------------
(***************************************************************************)
(* Theorems about lists, where the server makes them and where the client  *)
(* shows them.                                                             *)
(*                                                                         *)
(* Paging: for every set of rows, of orderings and of limits, what a walk  *)
(* returns is in the database's order, and nothing that stays untouched    *)
(* is missed. LiveStore: for every number of rows, of mutations and of     *)
(* lost connections, what a live query shows at rest is what the server    *)
(* has.                                                                    *)
(***************************************************************************)
EXTENDS Paging, LiveStore, FiniteSetTheorems, TLAPS

-----------------------------------------------------------------------------
(* Paging: the inductive invariant *)

Rows == [pk : Keys, x : Nat, y : Nat]
Sorting == [field : {"x", "y"}, dir : {"asc", "desc"}]
Orders == Seq(Sorting)
Dbs == {"sqlite", "postgres"}
Ends == {"first", "last"}

PagingTyped ==
    /\ database \in Dbs /\ nullsAt \in Ends /\ sortedBy \in Sorts \cap Orders
    /\ table \subseteq Rows /\ IsFiniteSet(table)
    /\ pages \in Seq(Rows) /\ walking \in BOOLEAN

\* The cursor is that of the last row the client got, and it is there while the walk goes on.
CursorIsLast ==
    IF cursor = NoCursor THEN walking => pages = <<>>
    ELSE walking /\ pages # <<>> /\ cursor = CursorOf(sortedBy, pages[Len(pages)])

\* The database puts this row where the cursor's condition looks for it.
Fits(r) == \A i \in DOMAIN sortedBy :
    NullsFit(sortedBy[i].dir) \/ r[sortedBy[i].field] # Blank

AllFit == \A i \in DOMAIN pages : Fits(pages[i])

Sorted == AllFit =>
    \A i, j \in DOMAIN pages : i < j => Precedes(sortedBy, pages[i], pages[j])

\* What was not written since the walk began has been returned, or is still behind the cursor.
Covered == AllFit =>
    \A r \in table : Fits(r) /\ r.pk \notin touched =>
        \/ \E i \in DOMAIN pages : pages[i] = r
        \/ walking /\ (pages # <<>> => Precedes(sortedBy, pages[Len(pages)], r))

Inv == PagingTyped /\ CursorIsLast /\ Sorted /\ Covered

-----------------------------------------------------------------------------
(* The order, and the cursor's statement of it *)

\* A row's primary key is a number, and not the one that says there is no cursor.
LEMMA KeysAreNumbers == \A r \in Rows : r.pk \in Nat \ {0}
BY PagingAssumption DEF PagingAssumption, Rows

\* What a row holds in a field that one may sort by is a value or NULL, and that is a number here.
LEMMA FieldOf ==
    ASSUME NEW order \in Orders, NEW r \in Rows, NEW i \in DOMAIN order
    PROVE  r[order[i].field] \in Nat
<1>0. order[i] \in Sorting
  BY DEF Orders
<1>1. order[i].field \in {"x", "y"}
  BY <1>0 DEF Sorting
<1>2. r.x \in Nat /\ r.y \in Nat
  BY DEF Rows
<1>3. CASE order[i].field = "x"
  BY <1>2, <1>3
<1>4. CASE order[i].field = "y"
  BY <1>2, <1>4
<1> QED BY <1>1, <1>3, <1>4

LEMMA SoonerTransitive ==
    ASSUME database \in Dbs, NEW u \in Nat, NEW v \in Nat, NEW w \in Nat, NEW dir,
           Sooner(u, v, dir), Sooner(v, w, dir)
    PROVE  Sooner(u, w, dir)
BY DEF Sooner, Below, Blank, Dbs

\* The database's order is transitive, whatever it does with NULL.
LEMMA PrecedesTransitive ==
    ASSUME database \in Dbs, NEW order \in Orders,
           NEW r \in Rows, NEW s \in Rows, NEW t \in Rows,
           Precedes(order, r, s), Precedes(order, s, t)
    PROVE  Precedes(order, r, t)
<1> DEFINE F(u, i) == u[order[i].field]
           Same(u, v, n) == \A j \in 1..n : F(u, j) = F(v, j)
           Splits(u, v, i) == Sooner(F(u, i), F(v, i), order[i].dir) /\ Same(u, v, i - 1)
<1>0. DOMAIN order = 1..Len(order) /\ Len(order) \in Nat
  BY DEF Orders
<1>1. \A u, v \in Rows : Precedes(order, u, v) <=>
        (\E i \in DOMAIN order : Splits(u, v, i)) \/ (Same(u, v, Len(order)) /\ u.pk < v.pk)
  BY <1>0 DEF Precedes
<1>2. \A u \in Rows, i \in DOMAIN order : F(u, i) \in Nat
  BY FieldOf
<1> HIDE DEF F
<1>3. CASE Same(r, s, Len(order)) /\ r.pk < s.pk
  <2>1. CASE Same(s, t, Len(order)) /\ s.pk < t.pk
    <3>1. Same(r, t, Len(order))
      BY <1>3, <2>1
    <3>2. r.pk < t.pk
      BY <1>3, <2>1, KeysAreNumbers
    <3> QED
      <4> HIDE DEF Same, Splits
      <4> QED BY <1>1, <3>1, <3>2
  <2>2. ASSUME NEW k \in DOMAIN order, Splits(s, t, k)
        PROVE  Splits(r, t, k)
    <3>1. F(r, k) = F(s, k) /\ Same(r, s, k - 1)
      BY <1>0, <1>3
    <3> QED BY <2>2, <3>1
  <2> QED BY <1>1, <2>1, <2>2
<1>4. ASSUME NEW i \in DOMAIN order, Splits(r, s, i)
      PROVE  Precedes(order, r, t)
  <2>1. CASE Same(s, t, Len(order)) /\ s.pk < t.pk
    <3>1. F(s, i) = F(t, i) /\ Same(s, t, i - 1)
      BY <1>0, <2>1
    <3>2. Splits(r, t, i)
      BY <1>4, <3>1
    <3> QED BY <1>1, <3>2
  <2>2. ASSUME NEW k \in DOMAIN order, Splits(s, t, k)
        PROVE  Precedes(order, r, t)
    <3>0. i \in Int /\ k \in Int
      BY <1>0
    <3>1. CASE i < k
      <4>1. F(s, i) = F(t, i) /\ Same(s, t, i - 1)
        BY <1>0, <2>2, <3>0, <3>1
      <4>2. Splits(r, t, i)
        BY <1>4, <4>1
      <4> QED BY <1>1, <4>2
    <3>2. CASE k < i
      <4>1. F(r, k) = F(s, k) /\ Same(r, s, k - 1)
        BY <1>0, <1>4, <3>0, <3>2
      <4>2. Splits(r, t, k)
        BY <2>2, <4>1
      <4> QED BY <1>1, <4>2
    <3>3. CASE i = k
      <4>1. Sooner(F(r, i), F(t, i), order[i].dir)
        BY <1>2, <1>4, <2>2, <3>3, SoonerTransitive
      <4>2. Same(r, t, i - 1)
        BY <1>4, <2>2, <3>3
      <4> QED BY <1>1, <4>1, <4>2
    <3> QED BY <3>0, <3>1, <3>2, <3>3
  <2> QED BY <1>1, <2>1, <2>2
<1> QED BY <1>1, <1>3, <1>4

\* Nor does it put a row before itself.
LEMMA PrecedesIrreflexive ==
    ASSUME database \in Dbs, NEW order \in Orders, NEW r \in Rows
    PROVE  ~Precedes(order, r, r)
<1>1. \A i \in DOMAIN order : ~Sooner(r[order[i].field], r[order[i].field], order[i].dir)
  BY FieldOf DEF Sooner, Below, Blank
<1> QED BY <1>1, KeysAreNumbers DEF Precedes

\* Where NULL is where the clause supposes it, or is not at all, being behind the cursor's value
\* is coming after it in the database.
LEMMA BehindIsAfter ==
    ASSUME database \in Dbs, nullsAt \in Ends,
           NEW dir \in {"asc", "desc"}, NEW v \in Nat, NEW c \in Nat,
           NullsFit(dir) \/ (v # Blank /\ c # Blank)
    PROVE  Behind(dir, v, c) <=> Sooner(c, v, dir)
BY DEF Behind, Compares, Effective, Sooner, Below, NullsFit, Blank, Dbs, Ends

\* So the clause finds exactly the rows after the cursor's.
LEMMA CursorIsOrder ==
    ASSUME PagingTyped, NEW c \in Rows, NEW r \in Rows, Fits(c), Fits(r),
           cursor = CursorOf(sortedBy, c)
    PROVE  CursorCondition(sortedBy, r) <=> Precedes(sortedBy, c, r)
<1>0. /\ sortedBy \in Orders /\ database \in Dbs /\ nullsAt \in Ends
      /\ DOMAIN sortedBy = 1..Len(sortedBy) /\ Len(sortedBy) \in Nat
  BY DEF PagingTyped, Orders
<1>1. cursor.id = c.pk /\ \A i \in DOMAIN sortedBy : cursor.v[i] = c[sortedBy[i].field]
  BY DEF CursorOf
<1>2. ASSUME NEW i \in DOMAIN sortedBy
      PROVE  Behind(sortedBy[i].dir, r[sortedBy[i].field], cursor.v[i])
               <=> Sooner(c[sortedBy[i].field], r[sortedBy[i].field], sortedBy[i].dir)
  <2>1. sortedBy[i].dir \in {"asc", "desc"}
    <3>1. sortedBy[i] \in Sorting
      BY <1>0 DEF Orders
    <3> QED BY <3>1 DEF Sorting
  <2>2. r[sortedBy[i].field] \in Nat /\ c[sortedBy[i].field] \in Nat
    BY <1>0, FieldOf
  <2>3. \/ NullsFit(sortedBy[i].dir)
        \/ r[sortedBy[i].field] # Blank /\ c[sortedBy[i].field] # Blank
    BY DEF Fits
  <2> QED BY <1>0, <1>1, <2>1, <2>2, <2>3, BehindIsAfter
<1> DEFINE Same(n) == \A j \in 1..n : r[sortedBy[j].field] = cursor.v[j]
           Same2(n) == \A j \in 1..n : c[sortedBy[j].field] = r[sortedBy[j].field]
<1>3. \A n \in 0..Len(sortedBy) : Same(n) <=> Same2(n)
  BY <1>0, <1>1
<1>4. CursorCondition(sortedBy, r) <=>
        \/ \E i \in DOMAIN sortedBy : Same(i - 1)
              /\ Behind(sortedBy[i].dir, r[sortedBy[i].field], cursor.v[i])
        \/ Same(Len(sortedBy)) /\ r.pk > cursor.id
  BY DEF CursorCondition
<1>5. Precedes(sortedBy, c, r) <=>
        \/ \E i \in DOMAIN sortedBy :
              Sooner(c[sortedBy[i].field], r[sortedBy[i].field], sortedBy[i].dir) /\ Same2(i - 1)
        \/ Same2(Len(sortedBy)) /\ c.pk < r.pk
  BY <1>0 DEF Precedes
<1>6. \A i \in DOMAIN sortedBy : i - 1 \in 0..Len(sortedBy)
  BY <1>0
<1>7. r.pk > cursor.id <=> c.pk < r.pk
  BY <1>1, KeysAreNumbers
<1> HIDE DEF Same, Same2
<1>8. Same(Len(sortedBy)) <=> Same2(Len(sortedBy))
  BY <1>0, <1>3
<1> QED BY <1>2, <1>3, <1>4, <1>5, <1>6, <1>7, <1>8

-----------------------------------------------------------------------------
(* Types *)

LEMMA Sortings == \A order \in Sorts : order \in Orders
BY PagingAssumption DEF PagingAssumption, Orders, Sorting

LEMMA QueryTyped ==
    ASSUME PagingTyped, NEW scope \in SUBSET table, NEW order, NEW found \in InOrder(scope, order)
    PROVE  found \in Seq(Rows) /\ \A i \in DOMAIN found : found[i] \in scope
<1>1. IsFiniteSet(scope)
  BY FS_Subset DEF PagingTyped
<1>2. Cardinality(scope) \in Nat
  BY <1>1, FS_CardinalityType
<1>3. found \in [1..Cardinality(scope) -> scope]
  BY DEF InOrder
<1>4. scope \subseteq Rows
  BY DEF PagingTyped
<1> QED BY <1>2, <1>3, <1>4

LEMMA InitInv == PagingInit => Inv
<1> SUFFICES ASSUME PagingInit PROVE Inv
  OBVIOUS
<1>1. sortedBy \in Sorts \cap Orders /\ database \in Dbs /\ nullsAt \in Ends /\ walking \in BOOLEAN
  BY Sortings, PagingAssumption DEF PagingInit, PagingAssumption, Dbs, Ends
<1>2. PICK held \in [Keys -> Contents[Len(sortedBy)]] : table = {RowOf(id, held[id]) : id \in Keys}
  BY DEF PagingInit
<1>3. IsFiniteSet(table)
  <2> DEFINE f == [id \in Keys |-> RowOf(id, held[id])]
  <2>1. f \in Surjection(Keys, table)
    BY <1>2 DEF Surjection
  <2>2. IsFiniteSet(Keys)
    BY PagingAssumption DEF PagingAssumption
  <2> QED BY <2>1, <2>2, FS_Surjection
<1>4. Contents[Len(sortedBy)] \subseteq [x : Nat, y : Nat]
  BY PagingAssumption DEF PagingAssumption, PagingInit
<1>5. table \subseteq Rows
  BY <1>2, <1>4 DEF RowOf, Rows
<1>6. cursor = NoCursor /\ pages = <<>> /\ walking
  BY DEF PagingInit
<1>7. PagingTyped
  BY <1>1, <1>3, <1>5, <1>6 DEF PagingTyped
<1>8. CursorIsLast /\ Sorted /\ Covered
  BY <1>6 DEF CursorIsLast, Sorted, Covered
<1> QED BY <1>7, <1>8 DEF Inv

-----------------------------------------------------------------------------
(* A page *)

\* What a fetch adds: rows that the cursor admits, in order, and of these either all or, if
\* there is more, those before the new cursor.
Page(items) ==
    /\ items \in Seq(Rows) /\ pages' = pages \o items
    /\ \A i \in DOMAIN items : cursor = NoCursor \/ CursorCondition(sortedBy, items[i])
    /\ \A i, j \in DOMAIN items : i < j => Precedes(sortedBy, items[i], items[j])
    /\ \A r \in table : cursor = NoCursor \/ CursorCondition(sortedBy, r) =>
          \/ \E i \in DOMAIN items : items[i] = r
          \/ walking' /\ Precedes(sortedBy, items[Len(items)], r)
    /\ IF walking' THEN items # <<>> /\ cursor' = CursorOf(sortedBy, items[Len(items)])
       ELSE cursor' = NoCursor

LEMMA FetchIsPage ==
    ASSUME Inv, NEW order \in Sorts, NEW limit \in Limits, FetchPage(order, limit)
    PROVE  walking' \in BOOLEAN /\ \E items : Page(items)
<1>1. order = sortedBy
  <2>1. CASE cursor = NoCursor
    BY <2>1 DEF FetchPage
  <2>2. CASE cursor # NoCursor
    BY <2>2 DEF FetchPage, Accepted, Inv, CursorIsLast, CursorOf
  <2> QED BY <2>1, <2>2
<1> DEFINE scope == {r \in table : cursor = NoCursor \/ CursorCondition(sortedBy, r)}
           most == Clamped(limit)
<1>2. PICK found \in InOrder(scope, sortedBy) :
          LET more == Len(found) > most
              items == IF more THEN SubSeq(found, 1, most) ELSE found
          IN /\ pages' = pages \o items
             /\ cursor' = IF more THEN CursorOf(sortedBy, items[Len(items)]) ELSE NoCursor
             /\ walking' = more
  BY <1>1 DEF FetchPage
<1>3. most \in Nat \ {0}
  BY PagingAssumption DEF PagingAssumption, Clamped
<1>4. found \in Seq(Rows) /\ \A i \in DOMAIN found : found[i] \in scope
  <2>1. PagingTyped /\ scope \in SUBSET table
    BY DEF Inv
  <2> HIDE DEF scope
  <2> QED BY <2>1, QueryTyped
<1>5. /\ \A i, j \in DOMAIN found : i < j => Precedes(sortedBy, found[i], found[j])
      /\ \A r \in scope : \E i \in DOMAIN found : found[i] = r
  BY DEF InOrder
<1> HIDE DEF most
<1>6. CASE Len(found) > most
  <2> DEFINE items == SubSeq(found, 1, most)
  <2>1. /\ items \in Seq(Rows) /\ Len(items) = most /\ items # <<>>
        /\ \A i \in DOMAIN items : i \in DOMAIN found /\ items[i] = found[i]
    BY <1>3, <1>4, <1>6
  <2>2. pages' = pages \o items /\ walking' = TRUE /\ cursor' = CursorOf(sortedBy, items[Len(items)])
    BY <1>2, <1>6
  <2>3. DOMAIN items = 1..most /\ DOMAIN found = 1..Len(found) /\ most \in 1..Len(found)
    BY <1>3, <1>4, <1>6, <2>1
  <2> HIDE DEF items
  <2>4. ASSUME NEW r \in scope
        PROVE  \/ \E i \in DOMAIN items : items[i] = r
               \/ Precedes(sortedBy, items[Len(items)], r)
    <3>1. PICK i \in DOMAIN found : found[i] = r
      BY <1>5
    <3>2. CASE i \in 1..most
      BY <2>1, <2>3, <3>1, <3>2
    <3>3. CASE most < i
      <4>1. Precedes(sortedBy, found[most], found[i])
        BY <1>5, <2>3, <3>3
      <4>2. items[Len(items)] = found[most]
        BY <1>3, <2>1, <2>3
      <4> QED BY <3>1, <4>1, <4>2
    <3> QED BY <1>3, <2>3, <3>1, <3>2, <3>3
  <2>5. Page(items)
    <3>1. \A i \in DOMAIN items : cursor = NoCursor \/ CursorCondition(sortedBy, items[i])
      BY <1>4, <2>1
    <3>2. \A i, j \in DOMAIN items : i < j => Precedes(sortedBy, items[i], items[j])
      BY <1>5, <2>1
    <3>3. \A r \in table : cursor = NoCursor \/ CursorCondition(sortedBy, r) =>
              \/ \E i \in DOMAIN items : items[i] = r
              \/ walking' /\ Precedes(sortedBy, items[Len(items)], r)
      BY <2>2, <2>4
    <3> QED BY <2>1, <2>2, <3>1, <3>2, <3>3 DEF Page
  <2> QED BY <2>2, <2>5
<1>7. CASE ~(Len(found) > most)
  <2>1. pages' = pages \o found /\ walking' = FALSE /\ cursor' = NoCursor
    <3> DEFINE more == Len(found) > most
    <3>1. more = FALSE
      BY <1>7
    <3>2. /\ pages' = pages \o (IF more THEN SubSeq(found, 1, most) ELSE found)
          /\ cursor' = IF more THEN CursorOf(sortedBy, SubSeq(found, 1, most)[Len(SubSeq(found, 1, most))])
                       ELSE NoCursor
          /\ walking' = more
      BY <1>2
    <3> HIDE DEF more
    <3> QED BY <3>1, <3>2
  <2>2. Page(found)
    <3>1. \A i \in DOMAIN found : cursor = NoCursor \/ CursorCondition(sortedBy, found[i])
      BY <1>4
    <3>2. \A r \in table : cursor = NoCursor \/ CursorCondition(sortedBy, r) =>
              \E i \in DOMAIN found : found[i] = r
      BY <1>5
    <3> QED BY <1>4, <1>5, <2>1, <3>1, <3>2 DEF Page
  <2> QED BY <2>1, <2>2
<1> QED BY <1>6, <1>7

\* Neither the database nor what the walk is sorted by changes, and so the order does not.
LEMMA SameOrder ==
    ASSUME UNCHANGED <<database, nullsAt, sortedBy>>
    PROVE  /\ \A r, s : Precedes(sortedBy, r, s)' <=> Precedes(sortedBy, r, s)
           /\ \A r : Fits(r)' <=> Fits(r)
<1>1. ASSUME NEW r, NEW s PROVE Precedes(sortedBy, r, s)' <=> Precedes(sortedBy, r, s)
  BY DEF Precedes, Sooner, Below
<1>2. ASSUME NEW r PROVE Fits(r)' <=> Fits(r)
  BY DEF Fits, NullsFit
<1> QED BY <1>1, <1>2

\* What is where in two sequences put together.
LEMMA Joined ==
    ASSUME NEW s \in Seq(Rows), NEW t \in Seq(Rows)
    PROVE  /\ s \o t \in Seq(Rows) /\ Len(s \o t) = Len(s) + Len(t)
           /\ \A i \in DOMAIN s : i \in DOMAIN (s \o t) /\ (s \o t)[i] = s[i]
           /\ \A i \in DOMAIN t : i + Len(s) \in DOMAIN (s \o t) /\ (s \o t)[i + Len(s)] = t[i]
           /\ \A i \in DOMAIN (s \o t) : i \in DOMAIN s \/ i - Len(s) \in DOMAIN t
OBVIOUS

LEMMA FetchInv ==
    ASSUME Inv, NEW order \in Sorts, NEW limit \in Limits, FetchPage(order, limit)
    PROVE  Inv'
<1>1. PICK items : Page(items) /\ walking' \in BOOLEAN
  BY FetchIsPage
<1>2. /\ walking /\ UNCHANGED <<database, nullsAt, sortedBy, table, touched>>
      /\ PagingTyped /\ pages \in Seq(Rows) /\ items \in Seq(Rows) /\ pages' = pages \o items
  BY <1>1 DEF FetchPage, Inv, PagingTyped, Page
<1> DEFINE last == pages[Len(pages)]
           next == items[Len(items)]
<1>3. /\ \A r, s : Precedes(sortedBy, r, s)' <=> Precedes(sortedBy, r, s)
      /\ \A r : Fits(r)' <=> Fits(r)
  BY <1>2, SameOrder
<1>4. /\ pages' \in Seq(Rows) /\ Len(pages') = Len(pages) + Len(items)
      /\ \A i \in DOMAIN pages : i \in DOMAIN pages' /\ pages'[i] = pages[i]
      /\ \A i \in DOMAIN items : i + Len(pages) \in DOMAIN pages' /\ pages'[i + Len(pages)] = items[i]
      /\ \A i \in DOMAIN pages' : i \in DOMAIN pages \/ i - Len(pages) \in DOMAIN items
  BY <1>2, Joined
<1>5. /\ DOMAIN pages = 1..Len(pages) /\ Len(pages) \in Nat /\ (pages # <<>> => Len(pages) # 0)
      /\ DOMAIN items = 1..Len(items) /\ Len(items) \in Nat /\ (items # <<>> => Len(items) # 0)
      /\ DOMAIN pages' = 1..Len(pages')
      /\ \A i \in DOMAIN pages : pages[i] \in Rows
      /\ \A i \in DOMAIN items : items[i] \in Rows
  BY <1>2, <1>4
<1>6. items # <<>> => next = pages'[Len(pages')] /\ pages' # <<>>
  <2>1. items # <<>> => Len(items) \in DOMAIN items
    BY <1>5
  <2>2. items # <<>> => next = pages'[Len(items) + Len(pages)] /\ Len(pages') # 0
    BY <1>4, <1>5, <2>1
  <2> QED BY <1>4, <1>5, <2>2
<1>7. PagingTyped'
  BY <1>1, <1>2, <1>4 DEF PagingTyped
<1>8. CursorIsLast'
  <2>1. CASE walking'
    <3>1. items # <<>> /\ cursor' = CursorOf(sortedBy, next)
      BY <1>1, <2>1 DEF Page
    <3>2. next.pk # 0
      BY <1>5, <3>1, KeysAreNumbers
    <3>3. cursor' # NoCursor
      BY <3>1, <3>2 DEF CursorOf, NoCursor
    <3>4. cursor' = CursorOf(sortedBy, pages[Len(pages)])'
      BY <1>2, <1>6, <3>1 DEF CursorOf
    <3> QED BY <1>6, <2>1, <3>1, <3>3, <3>4 DEF CursorIsLast
  <2>2. CASE ~walking'
    BY <1>1, <2>2 DEF Page, CursorIsLast
  <2> QED BY <2>1, <2>2
\* The cursor continues where the pages ended.
<1>9. ASSUME NEW r \in Rows, Fits(r), AllFit, pages # <<>>
      PROVE  cursor # NoCursor /\ (CursorCondition(sortedBy, r) <=> Precedes(sortedBy, last, r))
  <2>1. cursor # NoCursor /\ cursor = CursorOf(sortedBy, last)
    BY <1>2, <1>9 DEF Inv, CursorIsLast
  <2>2. last \in Rows /\ Fits(last)
    BY <1>5, <1>9 DEF AllFit
  <2> QED BY <1>2, <1>9, <2>1, <2>2, CursorIsOrder
<1>10. ASSUME AllFit'
       PROVE  AllFit /\ \A i \in DOMAIN items : Fits(items[i])
  BY <1>3, <1>4, <1>10 DEF AllFit
<1>11. Sorted'
  <2>1. SUFFICES ASSUME AllFit', NEW i \in DOMAIN pages', NEW j \in DOMAIN pages', i < j
                 PROVE  Precedes(sortedBy, pages'[i], pages'[j])
    BY <1>2, <1>3 DEF Sorted
  <2>2. AllFit /\ \A k \in DOMAIN items : Fits(items[k])
    BY <1>10, <2>1
  <2>3. CASE i \in DOMAIN pages /\ j \in DOMAIN pages
    BY <1>4, <2>1, <2>2, <2>3 DEF Inv, Sorted
  <2>4. CASE i \notin DOMAIN pages
    <3>1. /\ i - Len(pages) \in DOMAIN items /\ j - Len(pages) \in DOMAIN items
          /\ i - Len(pages) < j - Len(pages) /\ i \in Int /\ j \in Int
      BY <1>4, <1>5, <2>1, <2>4
    <3>2. pages'[i] = items[i - Len(pages)] /\ pages'[j] = items[j - Len(pages)]
      BY <1>4, <1>5, <3>1
    <3>3. \A k, l \in DOMAIN items : k < l => Precedes(sortedBy, items[k], items[l])
      BY <1>1 DEF Page
    <3> QED BY <3>1, <3>2, <3>3
  <2>5. CASE i \in DOMAIN pages /\ j \notin DOMAIN pages
    <3>1. j - Len(pages) \in DOMAIN items /\ j \in Int
      BY <1>4, <1>5, <2>5
    <3>2. PICK k \in DOMAIN items : pages'[j] = items[k]
      BY <1>4, <1>5, <3>1
    <3>3. pages # <<>> /\ Len(pages) \in DOMAIN pages
      BY <1>5, <2>5
    <3>4. Precedes(sortedBy, last, items[k])
      BY <1>1, <1>5, <1>9, <2>2, <3>3 DEF Page
    <3>5. pages[i] = last \/ Precedes(sortedBy, pages[i], last)
      BY <1>5, <2>2, <2>5, <3>3 DEF Inv, Sorted
    <3>6. pages[i] \in Rows /\ last \in Rows /\ items[k] \in Rows /\ pages'[i] = pages[i]
      BY <1>4, <1>5, <2>5, <3>3
    <3>7. sortedBy \in Orders /\ database \in Dbs
      BY <1>2 DEF PagingTyped
    <3> HIDE DEF last
    <3> QED BY <3>2, <3>4, <3>5, <3>6, <3>7, PrecedesTransitive
  <2> QED BY <2>3, <2>4, <2>5
<1>12. Covered'
  <2>1. SUFFICES ASSUME AllFit', NEW r \in table, Fits(r), r.pk \notin touched
                 PROVE  \/ \E i \in DOMAIN pages' : pages'[i] = r
                        \/ walking' /\ (pages' # <<>> => Precedes(sortedBy, pages'[Len(pages')], r))
    BY <1>2, <1>3 DEF Covered
  <2>2. AllFit /\ r \in Rows
    BY <1>2, <1>10, <2>1 DEF PagingTyped
  <2>3. \/ \E i \in DOMAIN pages : pages[i] = r
        \/ pages # <<>> => Precedes(sortedBy, last, r)
    BY <2>1, <2>2 DEF Inv, Covered
  <2>4. CASE \E i \in DOMAIN pages : pages[i] = r
    BY <1>4, <2>4
  <2>5. CASE pages # <<>> => Precedes(sortedBy, last, r)
    <3>1. cursor = NoCursor \/ CursorCondition(sortedBy, r)
      <4>1. CASE pages # <<>>
        BY <1>9, <2>1, <2>2, <2>5, <4>1
      <4>2. CASE pages = <<>>
        BY <4>2 DEF Inv, CursorIsLast
      <4> QED BY <4>1, <4>2
    <3>2. \/ \E i \in DOMAIN items : items[i] = r
          \/ walking' /\ Precedes(sortedBy, next, r)
      BY <1>1, <3>1 DEF Page
    <3>3. CASE \E i \in DOMAIN items : items[i] = r
      BY <1>4, <3>3
    <3>4. CASE walking' /\ Precedes(sortedBy, next, r)
      BY <1>1, <1>6, <3>4 DEF Page
    <3> QED BY <3>2, <3>3, <3>4
  <2> QED BY <2>3, <2>4, <2>5
<1> QED BY <1>7, <1>8, <1>11, <1>12 DEF Inv

\* A write by somebody else, which makes no row that was not touched.
LEMMA WriteInv ==
    ASSUME Inv, UNCHANGED <<database, nullsAt, sortedBy, cursor, pages, walking>>,
           table' \subseteq Rows, IsFiniteSet(table'),
           \A r \in table' : r.pk \notin touched' => r \in table /\ r.pk \notin touched
    PROVE  Inv'
<1>1. /\ \A r, s : Precedes(sortedBy, r, s)' <=> Precedes(sortedBy, r, s)
      /\ \A r : Fits(r)' <=> Fits(r)
  BY SameOrder
<1>2. PagingTyped'
  BY DEF Inv, PagingTyped
<1>3. CursorIsLast'
  BY DEF Inv, CursorIsLast, CursorOf
<1>4. AllFit' <=> AllFit
  BY <1>1 DEF AllFit
<1>5. Sorted'
  BY <1>1, <1>4 DEF Inv, Sorted
<1>6. Covered'
  BY <1>1, <1>4 DEF Inv, Covered
<1> QED BY <1>2, <1>3, <1>5, <1>6 DEF Inv

LEMMA SaveInv ==
    ASSUME Inv, NEW id \in Keys, NEW v \in Contents[Len(sortedBy)],
           Save(RowOf(id, v))
    PROVE  Inv'
<1> DEFINE r == RowOf(id, v)
<1>1. r \in Rows
  <2>1. v \in [x : Nat, y : Nat]
    BY PagingAssumption DEF PagingAssumption, Inv, PagingTyped
  <2> QED BY <2>1 DEF RowOf, Rows
<1> HIDE DEF r
<1>2. /\ table' = {s \in table : s.pk # r.pk} \cup {r} /\ touched' = touched \cup {r.pk}
      /\ UNCHANGED <<database, nullsAt, sortedBy, cursor, pages, walking>>
  BY DEF Save, r
<1>3. table \subseteq Rows /\ IsFiniteSet(table)
  BY DEF Inv, PagingTyped
<1>4. IsFiniteSet(table')
  <2> DEFINE rest == {s \in table : s.pk # r.pk}
  <2>1. IsFiniteSet(rest)
    BY <1>3, FS_Subset
  <2> HIDE DEF rest
  <2>2. IsFiniteSet(rest \cup {r})
    BY <2>1, FS_AddElement
  <2> QED BY <1>2, <2>2 DEF rest
<1> QED BY <1>1, <1>2, <1>3, <1>4, WriteInv

LEMMA EraseInv ==
    ASSUME Inv, NEW r \in table, Erase(r)
    PROVE  Inv'
<1>1. /\ table' = table \ {r} /\ touched' = touched \cup {r.pk}
      /\ UNCHANGED <<database, nullsAt, sortedBy, cursor, pages, walking>>
  BY DEF Erase
<1>2. table \subseteq Rows /\ IsFiniteSet(table)
  BY DEF Inv, PagingTyped
<1>3. IsFiniteSet(table')
  BY <1>1, <1>2, FS_RemoveElement
<1> QED BY <1>1, <1>2, <1>3, WriteInv

LEMMA StepInv == Inv /\ [PagingNext]_pagingVars => Inv'
<1> SUFFICES ASSUME Inv, [PagingNext]_pagingVars PROVE Inv'
  OBVIOUS
<1>1. ASSUME NEW order \in Sorts, NEW limit \in Limits, FetchPage(order, limit)
      PROVE  Inv'
  BY <1>1, FetchInv
<1>2. ASSUME NEW id \in Keys, NEW v \in Contents[Len(sortedBy)], Save(RowOf(id, v))
      PROVE  Inv'
  BY <1>2, SaveInv
<1>3. ASSUME NEW r \in table, Erase(r)
      PROVE  Inv'
  BY <1>3, EraseInv
<1>4. CASE UNCHANGED pagingVars
  <2>1. /\ UNCHANGED <<database, nullsAt, sortedBy, cursor, pages, walking, table, touched>>
        /\ table \subseteq Rows /\ IsFiniteSet(table)
    BY <1>4 DEF pagingVars, Inv, PagingTyped
  <2> QED BY <2>1, WriteInv
<1> QED BY <1>1, <1>2, <1>3, <1>4 DEF PagingNext

LEMMA InvWhole == Inv => PagesWhole
<1> SUFFICES ASSUME Inv, Suits
             PROVE  /\ \A i, j \in DOMAIN pages : i < j => Precedes(sortedBy, pages[i], pages[j])
                    /\ ~walking => {r \in table : r.pk \notin touched} \subseteq Seen
  BY DEF PagesWhole
<1>1. AllFit /\ \A r \in table : Fits(r)
  BY DEF Suits, AllFit, Fits, Seen
<1>2. \A i, j \in DOMAIN pages : i < j => Precedes(sortedBy, pages[i], pages[j])
  BY <1>1 DEF Inv, Sorted
<1>3. ~walking => {r \in table : r.pk \notin touched} \subseteq Seen
  BY <1>1 DEF Inv, Covered, Seen
<1> QED BY <1>2, <1>3

\* Where the database orders NULL as the cursor supposes, or there is none, the pages that a
\* client gets are in the database's order, ties and descending fields included, with no row
\* twice, whoever writes meanwhile; and when the walk ends, every row that nobody wrote since
\* it began has been returned (the list endpoint's query and buildCursorCondition).
THEOREM WalkWhole == PagingSpec => []PagesWhole
<1>1. PagingInit => Inv
  BY InitInv
<1>2. Inv /\ [PagingNext]_pagingVars => Inv'
  BY StepInv
<1>3. Inv => PagesWhole
  BY InvWhole
<1> QED BY <1>1, <1>2, <1>3, PTL DEF PagingSpec

\* A row that nobody moves on is returned once: the same row is never at two places of the
\* pages ("returns each item exactly once", website/docs/contracts/pagination.md:15).
ReturnedOnce == Suits => \A i, j \in DOMAIN pages : pages[i] = pages[j] => i = j

\* Strict order, and so no repetition, for all rows, orderings and limits.
THEOREM NoRowTwice == PagingSpec => []ReturnedOnce
<1>1. Inv => ReturnedOnce
  <2>1. SUFFICES ASSUME Inv, Suits, NEW i \in DOMAIN pages, NEW j \in DOMAIN pages,
                        pages[i] = pages[j], i # j
                 PROVE  FALSE
    BY DEF ReturnedOnce
  <2>2. AllFit
    BY <2>1 DEF Suits, AllFit, Fits, Seen
  <2>3. i \in Int /\ j \in Int /\ pages[i] \in Rows /\ sortedBy \in Orders /\ database \in Dbs
    BY <2>1 DEF Inv, PagingTyped
  <2>4. Precedes(sortedBy, pages[i], pages[i])
    BY <2>1, <2>2, <2>3 DEF Inv, Sorted
  <2> QED BY <2>3, <2>4, PrecedesIrreflexive
<1> QED BY <1>1, InitInv, StepInv, PTL DEF PagingSpec

-----------------------------------------------------------------------------
(* LiveStore: the inductive invariant *)

Events == [kind : {"added", "changed", "removed", "invalidate"}, id : RowIds \cup {0}, value : Values]
Ops == [kind : {"create", "update", "delete"}, id : Entries, value : Values \ {0}, row : RowIds \cup {0}]
Lists == [pc : {"none", "asked", "read"}, more : BOOLEAN, page : [RowIds -> Values], total : Nat,
          cursor : RowIds \cup {0}]
Views == [cache : [Entries -> Values], optimistic : SUBSET Shadows, deleting : SUBSET Entries,
          updating : [Entries -> Values], remote : [RowIds -> Values], mapped : [Shadows -> RowIds \cup {0}],
          total : Nat \cup {Uncounted}, cursor : RowIds \cup {0}]

StoreTyped ==
    /\ mode \in StoreModes /\ rows \in [RowIds -> Values] /\ feed \in {"none", "opening", "on", "lost"}
    /\ stream \in Seq(Events) /\ ops \subseteq Ops /\ list \in Lists /\ view \in Views
    /\ astray \subseteq RowIds /\ drifted \in BOOLEAN /\ failed \subseteq Shadows
    /\ count \in [Steps -> Nat]

Carried(e) == IF e.kind = "removed" THEN 0 ELSE e.value
Lost == [kind |-> "invalidate", id |-> 0, value |-> 0]

\* An event of a row, by a live subscription.
OfRow(e) == e.kind # "invalidate" /\ e.id \in RowIds /\ (e.kind # "removed" => e.value # 0)

\* The last event of each row tells what the row is.
Streamed ==
    /\ feed \in {"none", "opening"} => stream = <<>>
    /\ feed = "lost" => stream = <<Lost>>
    /\ feed = "on" => \A i \in DOMAIN stream :
          /\ OfRow(stream[i])
          /\ (\A j \in DOMAIN stream : i < j => stream[j].id # stream[i].id) => Carried(stream[i]) = rows[stream[i].id]

\* Row ids that were not given out yet,
FreshRow(id) ==
    /\ rows[id] = 0 /\ view.cache[id] = 0 /\ id \notin view.deleting /\ list.page[id] = 0
    /\ ~ Later(id)
    /\ \A op \in ops : op.row # id

\* and optimistic ids.
FreshShadow(o) ==
    /\ view.cache[o] = 0 /\ view.mapped[o] = 0 /\ o \notin view.deleting /\ o \notin failed
    /\ \A op \in ops : op.id # o

Fresh ==
    /\ \A id \in RowIds : count["row"] < id => FreshRow(id)
    /\ \A n \in 1..MaxCreates : count["create"] < n => FreshShadow(-n)

\* Each create is under way once.
Called ==
    /\ \A op \in ops : op.kind # "create" => op.row = 0
    /\ \A op \in ops : op.kind = "create" =>
          /\ op.id \in Shadows /\ view.mapped[op.id] = 0 /\ op.id \notin failed
          /\ \A other \in ops : other.kind = "create" /\ other.id = op.id => other = op
          /\ \A other \in ops : op.row # 0 /\ other.row = op.row => other = op

Pending(kind, id) == \E op \in ops : op.kind = kind /\ op.id = id

\* An optimistic row stands for a create that is not answered yet, or never will be.
Standing ==
    \A o \in Shadows :
        /\ o \in view.optimistic <=> view.cache[o] # 0
        /\ o \in view.optimistic => o \notin view.deleting /\ view.mapped[o] = 0
        /\ o \in view.optimistic => o \in failed \/ Pending("create", o)

Begun ==
    /\ feed = "none" => list.pc # "none" /\ ~list.more
    /\ feed = "none" <=> view.total = Uncounted
    /\ mode = "live" => view.cursor = 0 /\ list.cursor = 0 /\ ~list.more

Reading == list.pc = "read" /\ ~list.more

\* The cache of a row none of whose events is on its way. While a refresh has
\* its answer on the way, the page takes the cache's place.
CacheTells(id) ==
    \/ view.cache[id] = rows[id]
    \/ view.cache[id] = 0 /\ (mode = "strict" \/ Hidden(id))
    \/ rows[id] # 0 /\ Pending("update", id)
Cached == feed # "none" /\ ~Reading => \A id \in RowIds \ astray : ~Later(id) => CacheTells(id)

PageTells(id) ==
    /\ Reading => list.page[id] = rows[id] \/ (mode = "strict" /\ list.page[id] = 0)
    /\ list.pc = "read" /\ list.more /\ list.page[id] # 0 =>
          list.page[id] = rows[id] \/ (view.remote[id] = rows[id] /\ rows[id] # 0)
Paged == \A id \in RowIds \ astray : ~Later(id) => PageTells(id)

\* While nothing has put the total out, a row is held to be deleted only when it is,
\* or will be; and the total is that of the page that was read, or of the rows shown.
Countable == mode = "live" /\ ~drifted

Deleted == \A id \in RowIds \cap view.deleting :
               rows[id] = 0 \/ Pending("delete", id) \/ (Reading /\ list.page[id] # 0)
PageCounted == Reading =>
    /\ list.total = Cardinality({id \in RowIds : list.page[id] # 0})
    /\ \A id \in RowIds : ~Later(id) => (list.page[id] # 0 <=> rows[id] # 0)

Shown == {k \in Entries : view.cache[k] # 0}
RowCounted(id) == (view.cache[id] # 0 <=> rows[id] # 0) \/ (view.cache[id] = 0 /\ Pending("delete", id))
CacheCounted == ~Reading /\ feed # "none" =>
    /\ \A id \in RowIds : ~Later(id) => RowCounted(id)
    /\ view.total = Cardinality(Shown \ failed)
    /\ \A op \in ops : op.row # 0 => view.cache[op.row] = 0 /\ op.row \notin view.deleting

Counted == Countable => Deleted /\ PageCounted /\ CacheCounted

StoreInv == StoreTyped /\ Streamed /\ Fresh /\ Called /\ Standing /\ Begun /\ Cached /\ Paged /\ Counted
-----------------------------------------------------------------------------
(* Names, types and sequences *)

LEMMA Names ==
    /\ \A id \in RowIds : id \in Nat /\ id # 0 /\ id \notin Shadows /\ id \in Entries
    /\ \A o \in Shadows : o \in Int /\ o # 0 /\ o \notin RowIds /\ o \in Entries
    /\ \A k \in Entries : k # 0 /\ (k \in RowIds \/ k \in Shadows)
    /\ 0 \notin RowIds /\ 0 \notin Shadows
BY LiveStoreAssumption DEF RowIds, Shadows, Entries

LEMMA ShadowNames ==
    /\ \A o \in Shadows : \E n \in 1..MaxCreates : o = -n
    /\ \A n \in 1..MaxCreates : -n \in Shadows /\ -n \in Entries
BY LiveStoreAssumption DEF Shadows, Entries

LEMMA FiniteNames == IsFiniteSet(RowIds) /\ IsFiniteSet(Entries)
<1>1. IsFiniteSet(RowIds)
  <2>1. MaxRows \in Nat
    BY LiveStoreAssumption
  <2> QED BY <2>1, FS_Interval DEF RowIds
<1>2. IsFiniteSet(Shadows)
  <2>1. MaxCreates \in Nat
    BY LiveStoreAssumption
  <2>2. IsFiniteSet(1..MaxCreates)
    BY <2>1, FS_Interval
  <2> DEFINE f == [n \in 1..MaxCreates |-> -n]
  <2>3. f \in Surjection(1..MaxCreates, Shadows)
    BY <2>1 DEF Surjection, Shadows
  <2> QED BY <2>2, <2>3, FS_Surjection
<1> QED BY <1>1, <1>2, FS_Union DEF Entries

LEMMA Parts ==
    ASSUME StoreTyped
    PROVE  /\ mode \in StoreModes /\ rows \in [RowIds -> Values] /\ feed \in {"none", "opening", "on", "lost"}
           /\ stream \in Seq(Events) /\ ops \subseteq Ops /\ list \in Lists /\ view \in Views
           /\ astray \subseteq RowIds /\ drifted \in BOOLEAN /\ failed \subseteq Shadows
           /\ count \in [Steps -> Nat]
BY DEF StoreTyped

LEMMA Modes == mode \in StoreModes => mode = "live" \/ mode = "strict"
BY LiveStoreAssumption

LEMMA ViewParts ==
    ASSUME NEW v \in Views
    PROVE  /\ v.cache \in [Entries -> Nat] /\ v.optimistic \subseteq Shadows /\ v.deleting \subseteq Entries
           /\ v.updating \in [Entries -> Nat] /\ v.remote \in [RowIds -> Nat]
           /\ v.mapped \in [Shadows -> RowIds \cup {0}]
           /\ v.total \in Nat \cup {-1} /\ v.cursor \in RowIds \cup {0}
BY DEF Views, Values, Uncounted

LEMMA ListParts ==
    ASSUME NEW l \in Lists
    PROVE  /\ l.pc \in {"none", "asked", "read"} /\ l.more \in BOOLEAN /\ l.page \in [RowIds -> Nat]
           /\ l.total \in Nat /\ l.cursor \in RowIds \cup {0}
BY DEF Lists, Values

LEMMA OpParts ==
    ASSUME NEW op \in Ops
    PROVE  /\ op.kind \in {"create", "update", "delete"} /\ op.id \in Entries
           /\ op.value \in Nat /\ op.value # 0 /\ op.row \in RowIds \cup {0}
BY DEF Ops, Values

LEMMA EventParts ==
    ASSUME NEW e \in Events
    PROVE  /\ e.kind \in {"added", "changed", "removed", "invalidate"} /\ e.id \in RowIds \cup {0}
           /\ e.value \in Nat
BY DEF Events, Values

\* A row of the view that holds no stand-in: every mapped optimistic row has gone.
LEMMA NoStandIns ==
    ASSUME StoreTyped, Standing, NEW id \in RowIds
    PROVE  StandIns(view, id) = {}
<1> SUFFICES ASSUME NEW o \in Shadows, view.mapped[o] = id, view.cache[o] # 0
             PROVE  FALSE
  BY DEF StandIns
<1> QED BY Names DEF Standing

-----------------------------------------------------------------------------
(* What the handlers make of a view *)

LEMMA OverlaidTyped ==
    ASSUME NEW v \in Views, NEW key \in Entries, NEW value \in Nat
    PROVE  /\ Overlaid(v, key, value) \in Nat
           /\ value # 0 => Overlaid(v, key, value) # 0
BY ViewParts DEF Overlaid

LEMMA Bumped ==
    ASSUME NEW t \in Nat \cup {-1}, NEW by \in {-1, 0, 1}
    PROVE  /\ Bump(t, by) \in Nat \cup {-1}
           /\ Bump(t, by) = -1 <=> t = -1
           /\ t # -1 /\ t + by >= 0 => Bump(t, by) = t + by
BY DEF Bump, Uncounted

\* The total of a view w that shows id, or no longer does, after the view v.
Adds(w, v, id) ==
    /\ v.cache[id] = 0 => w.total = Bump(v.total, 1)
    /\ v.cache[id] # 0 => w.total = Bump(v.total, 0)
Takes(w, v, id) ==
    /\ v.cache[id] # 0 => w.total = Bump(v.total, -1)
    /\ v.cache[id] = 0 => w.total = Bump(v.total, 0)

\* An added event: without an optimistic id, and where no stand-in is.
LEMMA Added ==
    ASSUME NEW v \in Views, NEW id \in RowIds, NEW value \in Nat, value # 0, StandIns(v, id) = {}
    PROVE  /\ id \in v.deleting \/ mode = "strict" => HandleAdd(v, id, value, 0) = v
           /\ ~ (id \in v.deleting \/ mode = "strict") =>
                 HandleAdd(v, id, value, 0)
                     = [v EXCEPT !.cache = [v.cache EXCEPT ![id] = Overlaid(v, id, value)],
                                 !.total = Bump(v.total, IF v.cache[id] = 0 THEN 1 ELSE 0)]
<1>1. 0 \notin v.optimistic /\ 0 \notin v.deleting
  BY ViewParts, Names
<1>2. v.deleting \ {0} = v.deleting
  BY <1>1
<1>3. [k \in Entries |-> IF k = id THEN Overlaid(v, id, value) ELSE IF k \in {} THEN 0 ELSE v.cache[k]]
         = [v.cache EXCEPT ![id] = Overlaid(v, id, value)]
  BY ViewParts
<1>4. [v EXCEPT !.deleting = v.deleting,
                !.cache = [v.cache EXCEPT ![id] = Overlaid(v, id, value)],
                !.total = Bump(v.total, IF v.cache[id] = 0 THEN 1 ELSE 0)]
      = [v EXCEPT !.cache = [v.cache EXCEPT ![id] = Overlaid(v, id, value)],
                  !.total = Bump(v.total, IF v.cache[id] = 0 THEN 1 ELSE 0)]
  BY DEF Views
<1>5. ~ (id \in v.deleting \/ mode = "strict") =>
         HandleAdd(v, id, value, 0)
           = [v EXCEPT !.deleting = v.deleting \ {0},
                !.cache = [k \in Entries |-> IF k = id THEN Overlaid(v, id, value) ELSE IF k \in {} THEN 0 ELSE v.cache[k]],
                !.total = Bump(v.total, IF v.cache[id] = 0 THEN 1 ELSE 0)]
  BY <1>1 DEF HandleAdd
<1>6. id \in v.deleting \/ mode = "strict" => HandleAdd(v, id, value, 0) = v
  BY DEF HandleAdd
<1> QED BY <1>2, <1>3, <1>4, <1>5, <1>6

LEMMA AddedParts ==
    ASSUME NEW v \in Views, NEW id \in RowIds, NEW value \in Nat, value # 0, StandIns(v, id) = {},
           NEW w, w = HandleAdd(v, id, value, 0)
    PROVE  /\ w \in Views
           /\ w.optimistic = v.optimistic /\ w.deleting = v.deleting /\ w.updating = v.updating
           /\ w.remote = v.remote /\ w.mapped = v.mapped /\ w.cursor = v.cursor
           /\ \A k \in Entries : k # id => w.cache[k] = v.cache[k]
           /\ id \in v.deleting \/ mode = "strict" => w = v
           /\ ~ (id \in v.deleting \/ mode = "strict") =>
                 w.cache[id] # 0 /\ Adds(w, v, id)
<1>1. CASE id \in v.deleting \/ mode = "strict"
  BY <1>1, Added
<1>2. CASE ~ (id \in v.deleting \/ mode = "strict")
  <2>1. PICK x : x = Overlaid(v, id, value)
    OBVIOUS
  <2>2. id \in Entries
    BY Names
  <2>3. x \in Nat /\ x # 0
    BY <2>1, <2>2, OverlaidTyped
  <2>4. PICK c : c = [v.cache EXCEPT ![id] = x]
    OBVIOUS
  <2>5. v.cache \in [Entries -> Nat] /\ v.total \in Nat \cup {-1}
    BY ViewParts
  <2>6. c \in [Entries -> Nat] /\ c[id] = x /\ \A k \in Entries : k # id => c[k] = v.cache[k]
    BY <2>2, <2>3, <2>4, <2>5
  <2>7. PICK t : t = Bump(v.total, IF v.cache[id] = 0 THEN 1 ELSE 0)
    OBVIOUS
  <2>8. t \in Nat \cup {-1}
    BY <2>5, <2>7, Bumped
  <2>9. w = [v EXCEPT !.cache = c, !.total = t]
    BY <1>2, <2>1, <2>4, <2>7, Added
  <2>10. /\ w \in Views /\ w.cache = c /\ w.total = t
         /\ w.optimistic = v.optimistic /\ w.deleting = v.deleting /\ w.updating = v.updating
         /\ w.remote = v.remote /\ w.mapped = v.mapped /\ w.cursor = v.cursor
    BY <2>6, <2>8, <2>9 DEF Views, Values, Uncounted
  <2> QED BY <1>2, <2>3, <2>6, <2>7, <2>10 DEF Adds
<1> QED BY <1>1, <1>2

\* A changed event. A strict query keeps the change of a row it does not show.
LEMMA ChangedParts ==
    ASSUME NEW v \in Views, NEW id \in RowIds, NEW value \in Nat, StandIns(v, id) = {},
           NEW w, w = HandleChange(v, id, value)
    PROVE  /\ w \in Views
           /\ w.optimistic = v.optimistic /\ w.deleting = v.deleting /\ w.updating = v.updating
           /\ w.mapped = v.mapped /\ w.cursor = v.cursor /\ w.total = v.total
           /\ \A k \in Entries : k # id => w.cache[k] = v.cache[k]
           /\ \A k \in RowIds : k # id => w.remote[k] = v.remote[k]
           /\ \/ mode = "strict" /\ v.cache[id] = 0 /\ w.cache[id] = 0 /\ w.remote[id] = value
              \/ w.cache[id] = value
<1>1. /\ v.cache \in [Entries -> Nat] /\ v.remote \in [RowIds -> Nat] /\ v.optimistic \subseteq Shadows
      /\ id \in Entries
  BY ViewParts, Names
<1>2. CASE mode = "strict" /\ v.cache[id] = 0
  <2>1. PICK r : r = [v.remote EXCEPT ![id] = value]
    OBVIOUS
  <2>2. r \in [RowIds -> Nat] /\ r[id] = value /\ \A k \in RowIds : k # id => r[k] = v.remote[k]
    BY <1>1, <2>1
  <2>3. w = [v EXCEPT !.remote = r]
    BY <1>2, <2>1 DEF HandleChange
  <2>4. /\ w \in Views /\ w.cache = v.cache /\ w.total = v.total /\ w.remote = r
        /\ w.optimistic = v.optimistic /\ w.deleting = v.deleting /\ w.updating = v.updating
        /\ w.mapped = v.mapped /\ w.cursor = v.cursor
    BY <2>2, <2>3 DEF Views, Values, Uncounted
  <2> QED BY <1>2, <2>2, <2>4
<1>3. CASE ~ (mode = "strict" /\ v.cache[id] = 0)
  <2>1. PICK c : c = [k \in Entries |-> IF k = id THEN value ELSE IF k \in {} THEN 0 ELSE v.cache[k]]
    OBVIOUS
  <2>2. c \in [Entries -> Nat] /\ c[id] = value /\ \A k \in Entries : k # id => c[k] = v.cache[k]
    BY <1>1, <2>1
  <2>3. w = [v EXCEPT !.cache = c, !.optimistic = v.optimistic \ {}]
    BY <1>3, <2>1 DEF HandleChange
  <2>4. v.optimistic \ {} = v.optimistic
    OBVIOUS
  <2>5. /\ w \in Views /\ w.cache = c /\ w.total = v.total /\ w.remote = v.remote
        /\ w.optimistic = v.optimistic /\ w.deleting = v.deleting /\ w.updating = v.updating
        /\ w.mapped = v.mapped /\ w.cursor = v.cursor
    BY <2>2, <2>3, <2>4 DEF Views, Values, Uncounted
  <2> QED BY <2>2, <2>5
<1> QED BY <1>2, <1>3

LEMMA RemovedParts ==
    ASSUME NEW v \in Views, NEW id \in RowIds, NEW w, w = HandleRemove(v, id)
    PROVE  /\ w \in Views
           /\ w.optimistic = v.optimistic /\ w.updating = v.updating /\ w.deleting = v.deleting \ {id}
           /\ w.remote = v.remote /\ w.mapped = v.mapped /\ w.cursor = v.cursor
           /\ \A k \in Entries : k # id => w.cache[k] = v.cache[k]
           /\ w.cache[id] = 0 /\ Takes(w, v, id)
<1>1. /\ v.cache \in [Entries -> Nat] /\ v.total \in Nat \cup {-1} /\ v.deleting \subseteq Entries
      /\ id \in Entries
  BY ViewParts, Names
<1>2. PICK c : c = [v.cache EXCEPT ![id] = 0]
  OBVIOUS
<1>3. c \in [Entries -> Nat] /\ c[id] = 0 /\ \A k \in Entries : k # id => c[k] = v.cache[k]
  BY <1>1, <1>2
<1>4. PICK t : t = Bump(v.total, IF v.cache[id] # 0 THEN -1 ELSE 0)
  OBVIOUS
<1>5. t \in Nat \cup {-1}
  BY <1>1, <1>4, Bumped
<1>6. PICK d : d = v.deleting \ {id}
  OBVIOUS
<1>7. d \subseteq Entries
  BY <1>1, <1>6
<1>8. w = [v EXCEPT !.total = t, !.cache[id] = 0, !.deleting = d]
  BY <1>4, <1>6 DEF HandleRemove
<1>9. w = [v EXCEPT !.total = t, !.cache = c, !.deleting = d]
  BY <1>2, <1>8 DEF Views
<1>10. /\ w \in Views /\ w.cache = c /\ w.total = t /\ w.deleting = d
       /\ w.optimistic = v.optimistic /\ w.updating = v.updating
       /\ w.remote = v.remote /\ w.mapped = v.mapped /\ w.cursor = v.cursor
  BY <1>3, <1>5, <1>7, <1>9 DEF Views, Values, Uncounted
<1> QED BY <1>3, <1>4, <1>6, <1>10 DEF Takes

\* The answer of a create. The optimistic row goes, if it is still there, and the row comes.
LEMMA AnsweredParts ==
    ASSUME NEW v \in Views, NEW id \in RowIds, NEW value \in Nat, value # 0, NEW o \in Shadows,
           v.cache[o] = 0 <=> o \notin v.optimistic,
           \A s \in Shadows : v.cache[s] # 0 => v.mapped[s] # id,
           NEW w, w = HandleAdd(v, id, value, o)
    PROVE  /\ w \in Views
           /\ w.remote = v.remote /\ w.cursor = v.cursor
           /\ id \in v.deleting => w = v
           /\ id \notin v.deleting =>
                 /\ w.cache[id] # 0 /\ w.cache[o] = 0 /\ \A k \in Entries : k # id /\ k # o => w.cache[k] = v.cache[k]
                 /\ w.optimistic = v.optimistic \ {o} /\ w.deleting = v.deleting \ {o}
                 /\ \A s \in Shadows : s # o => w.mapped[s] = v.mapped[s]
                 /\ w.mapped[o] \in {id, v.mapped[o]}
                 /\ o \notin v.optimistic => Adds(w, v, id)
                 /\ o \in v.optimistic => w.total = Bump(v.total, 0)
<1>1. CASE id \in v.deleting
  BY <1>1 DEF HandleAdd
<1>2. CASE id \notin v.deleting
  <2>1. /\ v.cache \in [Entries -> Nat] /\ v.optimistic \subseteq Shadows /\ v.deleting \subseteq Entries
        /\ v.updating \in [Entries -> Nat] /\ v.mapped \in [Shadows -> RowIds \cup {0}]
        /\ v.total \in Nat \cup {-1}
    BY ViewParts
  <2>2. id \in Entries /\ o \in Entries /\ o # id /\ o # 0 /\ id # 0
    BY Names
  <2> DEFINE reconciles == o \in v.optimistic
  <2>3. PICK up : up = IF v.updating[o] = 0 THEN v.updating ELSE [v.updating EXCEPT ![o] = 0, ![id] = v.updating[o]]
    OBVIOUS
  <2>4. up \in [Entries -> Nat]
    BY <2>1, <2>2, <2>3
  <2>5. PICK cu : cu = [v.cache EXCEPT ![o] = 0]
    OBVIOUS
  <2>6. cu \in [Entries -> Nat] /\ cu[o] = 0 /\ \A k \in Entries : k # o => cu[k] = v.cache[k]
    BY <2>1, <2>2, <2>5
  <2>7. PICK mu : mu = [v.mapped EXCEPT ![o] = id]
    OBVIOUS
  <2>8. mu \in [Shadows -> RowIds \cup {0}] /\ mu[o] = id /\ \A s \in Shadows : s # o => mu[s] = v.mapped[s]
    BY <2>1, <2>7
  <2>9. PICK ou : ou = v.optimistic \ {o}
    OBVIOUS
  <2>10. ou \subseteq Shadows
    BY <2>1, <2>9
  <2>11. PICK u : u = IF ~reconciles THEN v
                      ELSE [v EXCEPT !.cache = cu, !.optimistic = ou, !.mapped = mu, !.updating = up]
    OBVIOUS
  <2>12. /\ u \in Views /\ u.remote = v.remote /\ u.cursor = v.cursor /\ u.deleting = v.deleting /\ u.total = v.total
         /\ u.cache[o] = 0 /\ \A k \in Entries : k # o => u.cache[k] = v.cache[k]
         /\ u.optimistic = ou /\ \A s \in Shadows : s # o => u.mapped[s] = v.mapped[s]
         /\ u.mapped[o] \in {id, v.mapped[o]}
    <3>1. CASE reconciles
      <4>1. u = [v EXCEPT !.cache = cu, !.optimistic = ou, !.mapped = mu, !.updating = up]
        BY <2>11, <3>1
      <4>2. /\ u \in Views /\ u.remote = v.remote /\ u.cursor = v.cursor /\ u.deleting = v.deleting /\ u.total = v.total
            /\ u.cache = cu /\ u.optimistic = ou /\ u.mapped = mu
        BY <2>4, <2>6, <2>8, <2>10, <4>1 DEF Views, Values, Uncounted
      <4> QED BY <2>6, <2>8, <4>2
    <3>2. CASE ~reconciles
      <4>1. u = v /\ ou = v.optimistic
        BY <2>9, <2>11, <3>2
      <4> QED BY <3>2, <4>1
    <3> QED BY <3>1, <3>2
  <2>13. StandIns(u, id) = {}
    <3> SUFFICES ASSUME NEW s \in Shadows, u.mapped[s] = id, u.cache[s] # 0
                 PROVE  FALSE
      BY DEF StandIns
    <3>1. s # o
      BY <2>12
    <3>2. s \in Entries
      BY Names
    <3> QED BY <2>12, <3>1, <3>2
  <2>14. PICK x : x = Overlaid(u, id, value)
    OBVIOUS
  <2>15. x \in Nat /\ x # 0
    BY <2>2, <2>12, <2>14, OverlaidTyped
  <2>16. PICK c : c = [k \in Entries |-> IF k = id THEN x ELSE IF k \in {} THEN 0 ELSE u.cache[k]]
    OBVIOUS
  <2>17. c \in [Entries -> Nat] /\ c[id] = x /\ \A k \in Entries : k # id => c[k] = u.cache[k]
    <3>1. u.cache \in [Entries -> Nat]
      BY <2>12, ViewParts
    <3> QED BY <2>2, <2>15, <2>16, <3>1
  <2>18. PICK d : d = u.deleting \ {o}
    OBVIOUS
  <2>19. d \subseteq Entries /\ d = v.deleting \ {o}
    BY <2>1, <2>12, <2>18
  <2>20. PICK t : t = Bump(u.total, IF ~reconciles /\ {} = {} /\ v.cache[id] = 0 THEN 1 ELSE 0)
    OBVIOUS
  <2>21. t \in Nat \cup {-1} /\ t = Bump(v.total, IF o \notin v.optimistic /\ v.cache[id] = 0 THEN 1 ELSE 0)
    <3>1. t = Bump(v.total, IF o \notin v.optimistic /\ v.cache[id] = 0 THEN 1 ELSE 0)
      BY <2>12, <2>20
    <3> QED BY <2>1, <3>1, Bumped
  <2>22. w = [u EXCEPT !.deleting = d, !.cache = c, !.total = t]
    <3>1. u = (IF ~reconciles THEN v
               ELSE [v EXCEPT !.cache[o] = 0, !.optimistic = @ \ {o}, !.mapped[o] = id,
                              !.updating = IF v.updating[o] = 0 THEN @
                                           ELSE [v.updating EXCEPT ![o] = 0, ![id] = v.updating[o]]])
      <4>1. CASE ~reconciles
        BY <2>11, <4>1
      <4>2. CASE reconciles
        <5>1. [v EXCEPT !.cache[o] = 0, !.optimistic = v.optimistic \ {o}, !.mapped[o] = id,
                              !.updating = IF v.updating[o] = 0 THEN v.updating
                                           ELSE [v.updating EXCEPT ![o] = 0, ![id] = v.updating[o]]]
              = [v EXCEPT !.cache = cu, !.optimistic = ou, !.mapped = mu, !.updating = up]
          BY <2>3, <2>5, <2>7, <2>9 DEF Views
        <5> QED BY <2>11, <4>2, <5>1
      <4> QED BY <4>1, <4>2
    <3>2. w = [u EXCEPT !.deleting = u.deleting \ {o},
                        !.cache = [k \in Entries |-> IF k = id THEN Overlaid(u, id, value)
                                                     ELSE IF k \in StandIns(u, id) THEN 0 ELSE u.cache[k]],
                        !.total = Bump(u.total, IF ~reconciles /\ StandIns(u, id) = {} /\ v.cache[id] = 0 THEN 1 ELSE 0)]
      BY <1>2, <2>2, <3>1 DEF HandleAdd
    <3> QED BY <2>13, <2>14, <2>16, <2>18, <2>20, <3>2
  <2>23. /\ w \in Views /\ w.cache = c /\ w.total = t /\ w.deleting = d
         /\ w.optimistic = u.optimistic /\ w.remote = u.remote /\ w.mapped = u.mapped /\ w.cursor = u.cursor
    <3>1. u \in Views
      BY <2>12
    <3>2. c \in [Entries -> Nat] /\ d \subseteq Entries /\ t \in Nat \cup {-1}
      BY <2>1, <2>17, <2>19, <2>21
    <3>3. w \in Views
      BY <2>22, <3>1, <3>2 DEF Views, Values, Uncounted
    <3>4. w.cache = c /\ w.total = t /\ w.deleting = d
      BY <2>22, <3>1 DEF Views
    <3>5. w.optimistic = u.optimistic /\ w.remote = u.remote /\ w.mapped = u.mapped /\ w.cursor = u.cursor
      BY <2>22, <3>1 DEF Views
    <3> QED BY <3>3, <3>4, <3>5
  <2>24. w.cache[id] # 0 /\ w.cache[o] = 0 /\ \A k \in Entries : k # id /\ k # o => w.cache[k] = v.cache[k]
    BY <2>2, <2>12, <2>15, <2>17, <2>23
  <2>25. /\ o \notin v.optimistic => Adds(w, v, id)
         /\ o \in v.optimistic => w.total = Bump(v.total, 0)
    BY <2>21, <2>23 DEF Adds
  <2> QED BY <1>2, <2>9, <2>12, <2>19, <2>23, <2>24, <2>25
<1> QED BY <1>1, <1>2

\* The answer of a refresh.
LEMMA RefreshedParts ==
    ASSUME NEW v \in Views, list \in Lists, NEW w, w = Refreshed(v)
    PROVE  /\ w \in Views
           /\ w.optimistic = v.optimistic /\ w.deleting = v.deleting /\ w.updating = v.updating
           /\ w.remote = v.remote /\ w.mapped = v.mapped /\ w.total = list.total /\ w.cursor = list.cursor
           /\ \A id \in RowIds :
                 w.cache[id] = 0 <=> \/ list.page[id] = 0
                                     \/ ({o \in Shadows : v.mapped[o] = id} \cup {id}) \cap v.deleting # {}
           /\ \A o \in Shadows : w.cache[o] = IF o \in v.optimistic \ v.deleting THEN v.cache[o] ELSE 0
<1> DEFINE mine(id) == {o \in Shadows : v.mapped[o] = id}
           hidden(id) == (mine(id) \cup {id}) \cap v.deleting # {}
           shown(id) == IF list.page[id] = 0 \/ hidden(id) THEN 0
                        ELSE LET over == {o \in mine(id) : v.updating[o] # 0}
                             IN IF over # {} THEN v.updating[CHOOSE o \in over : TRUE] ELSE Overlaid(v, id, list.page[id])
<1>1. /\ v.cache \in [Entries -> Nat] /\ v.updating \in [Entries -> Nat] /\ list.page \in [RowIds -> Nat]
      /\ list.total \in Nat /\ list.cursor \in RowIds \cup {0}
  BY ViewParts, ListParts
<1>2. \A id \in RowIds : shown(id) \in Nat /\ (shown(id) = 0 <=> list.page[id] = 0 \/ hidden(id))
  <2> SUFFICES ASSUME NEW id \in RowIds
               PROVE  shown(id) \in Nat /\ (shown(id) = 0 <=> list.page[id] = 0 \/ hidden(id))
    OBVIOUS
  <2> DEFINE over == {o \in mine(id) : v.updating[o] # 0}
  <2>1. CASE list.page[id] = 0 \/ hidden(id)
    BY <2>1
  <2>2. CASE ~ (list.page[id] = 0 \/ hidden(id)) /\ over # {}
    <3>1. PICK o : o = CHOOSE x \in over : TRUE
      OBVIOUS
    <3>2. o \in over
      BY <2>2, <3>1
    <3>3. o \in Entries /\ v.updating[o] # 0
      BY <3>2, Names
    <3>4. shown(id) = v.updating[o]
      BY <2>2, <3>1
    <3> QED BY <1>1, <2>2, <3>3, <3>4
  <2>3. CASE ~ (list.page[id] = 0 \/ hidden(id)) /\ over = {}
    <3>1. shown(id) = Overlaid(v, id, list.page[id])
      BY <2>3
    <3>2. id \in Entries /\ list.page[id] \in Nat /\ list.page[id] # 0
      BY <1>1, <2>3, Names
    <3>3. Overlaid(v, id, list.page[id]) \in Nat /\ Overlaid(v, id, list.page[id]) # 0
      BY <3>2, OverlaidTyped
    <3> QED BY <2>3, <3>1, <3>3
  <2> QED BY <2>1, <2>2, <2>3
<1>3. PICK c : c = [k \in Entries |-> IF k \in RowIds THEN shown(k)
                                      ELSE IF k \in v.optimistic \ v.deleting THEN v.cache[k] ELSE 0]
  OBVIOUS
<1>4. w = [v EXCEPT !.cache = c, !.total = list.total, !.cursor = list.cursor]
  BY <1>3 DEF Refreshed
<1> HIDE DEF shown, hidden
<1>5. /\ \A id \in RowIds : c[id] = shown(id)
      /\ \A o \in Shadows : c[o] = IF o \in v.optimistic \ v.deleting THEN v.cache[o] ELSE 0
  BY <1>3, Names
<1>6. c \in [Entries -> Nat]
  BY <1>1, <1>2, <1>3
<1>7. /\ w \in Views /\ w.cache = c /\ w.total = list.total /\ w.cursor = list.cursor
      /\ w.optimistic = v.optimistic /\ w.deleting = v.deleting /\ w.updating = v.updating
      /\ w.remote = v.remote /\ w.mapped = v.mapped
  BY <1>1, <1>4, <1>6 DEF Views, Values, Uncounted
<1> QED BY <1>2, <1>5, <1>7 DEF hidden

\* The answer of loadMore.
LEMMA LoadedParts ==
    ASSUME NEW v \in Views, list \in Lists, NEW w, w = Loaded(v)
    PROVE  /\ w \in Views
           /\ w.optimistic = v.optimistic /\ w.deleting = v.deleting /\ w.updating = v.updating
           /\ w.mapped = v.mapped /\ w.total = v.total /\ w.cursor = list.cursor
           /\ \A k \in Shadows : w.cache[k] = v.cache[k]
           /\ \A id \in RowIds :
                 /\ list.page[id] = 0 \/ id \in v.deleting => w.cache[id] = v.cache[id]
                 /\ list.page[id] # 0 /\ id \notin v.deleting =>
                       w.cache[id] # 0 /\ (v.remote[id] # 0 => w.cache[id] = v.remote[id])
<1> DEFINE taken == {id \in RowIds : list.page[id] # 0 /\ id \notin v.deleting}
           put(k) == IF v.remote[k] # 0 THEN v.remote[k] ELSE Overlaid(v, k, list.page[k])
<1>1. /\ v.cache \in [Entries -> Nat] /\ v.remote \in [RowIds -> Nat] /\ list.page \in [RowIds -> Nat]
      /\ list.cursor \in RowIds \cup {0}
  BY ViewParts, ListParts
<1>2. \A id \in taken : put(id) \in Nat /\ put(id) # 0 /\ (v.remote[id] # 0 => put(id) = v.remote[id])
  <2> SUFFICES ASSUME NEW id \in taken
               PROVE  put(id) \in Nat /\ put(id) # 0 /\ (v.remote[id] # 0 => put(id) = v.remote[id])
    OBVIOUS
  <2>1. id \in Entries /\ id \in RowIds /\ list.page[id] \in Nat /\ list.page[id] # 0
    BY <1>1, Names
  <2>2. Overlaid(v, id, list.page[id]) \in Nat /\ Overlaid(v, id, list.page[id]) # 0
    BY <2>1, OverlaidTyped
  <2> QED BY <1>1, <2>1, <2>2
<1>3. PICK c : c = [k \in Entries |-> IF k \notin taken THEN v.cache[k] ELSE put(k)]
  OBVIOUS
<1>4. PICK r : r = [id \in RowIds |-> IF id \in taken THEN 0 ELSE v.remote[id]]
  OBVIOUS
<1>5. w = [v EXCEPT !.cache = c, !.remote = r, !.cursor = list.cursor]
  BY <1>3, <1>4 DEF Loaded
<1> HIDE DEF put
<1>6. c \in [Entries -> Nat]
  BY <1>1, <1>2, <1>3
<1>7. r \in [RowIds -> Nat]
  BY <1>1, <1>4
<1>8. /\ \A k \in Shadows : c[k] = v.cache[k]
      /\ \A id \in RowIds : c[id] = IF id \notin taken THEN v.cache[id] ELSE put(id)
  BY <1>3, Names
<1>9. /\ w \in Views /\ w.cache = c /\ w.total = v.total /\ w.cursor = list.cursor
      /\ w.optimistic = v.optimistic /\ w.deleting = v.deleting /\ w.updating = v.updating
      /\ w.mapped = v.mapped
  BY <1>1, <1>5, <1>6, <1>7 DEF Views, Values, Uncounted
<1> QED BY <1>2, <1>8, <1>9

-----------------------------------------------------------------------------
(* Events on their way *)

LEMMA Appended ==
    ASSUME NEW s \in Seq(Events), NEW e \in Events, NEW t, t = Append(s, e)
    PROVE  /\ t \in Seq(Events) /\ Len(s) \in Nat /\ DOMAIN s = 1..Len(s)
           /\ DOMAIN t = 1..(Len(s) + 1) /\ t[Len(s) + 1] = e
           /\ \A i \in 1..Len(s) : t[i] = s[i] /\ i \in DOMAIN t
<1>1. /\ t \in Seq(Events) /\ Len(s) \in Nat /\ DOMAIN s = 1..Len(s)
      /\ DOMAIN t = 1..(Len(s) + 1) /\ t[Len(s) + 1] = e
      /\ \A i \in 1..Len(s) : t[i] = s[i]
  OBVIOUS
<1>2. \A i \in 1..Len(s) : i \in 1..(Len(s) + 1)
  BY <1>1
<1> QED BY <1>1, <1>2

LEMMA Taken ==
    ASSUME NEW s \in Seq(Events), s # <<>>, NEW t, t = Tail(s), NEW e, e = Head(s)
    PROVE  /\ t \in Seq(Events) /\ e \in Events /\ s[1] = e /\ 1 \in DOMAIN s
           /\ DOMAIN s \subseteq Nat \ {0} /\ DOMAIN t \subseteq Nat \ {0}
           /\ \A i \in DOMAIN t : i + 1 \in DOMAIN s /\ t[i] = s[i + 1]
           /\ \A i \in DOMAIN s : i = 1 \/ (i - 1 \in DOMAIN t /\ t[i - 1] = s[i])
<1>1. /\ t \in Seq(Events) /\ e \in Events /\ s[1] = e /\ Len(s) \in Nat \ {0} /\ Len(t) = Len(s) - 1
      /\ DOMAIN s = 1..Len(s) /\ DOMAIN t = 1..Len(t)
      /\ \A i \in 1..(Len(s) - 1) : t[i] = s[i + 1]
  OBVIOUS
<1>2. \A i \in DOMAIN t : i + 1 \in DOMAIN s /\ t[i] = s[i + 1]
  BY <1>1
<1>3. \A i \in DOMAIN s : i = 1 \/ (i - 1 \in DOMAIN t /\ t[i - 1] = s[i])
  <2> SUFFICES ASSUME NEW i \in DOMAIN s, i # 1
               PROVE  i - 1 \in DOMAIN t /\ t[i - 1] = s[i]
    OBVIOUS
  <2>1. i \in Int /\ i - 1 \in 1..(Len(s) - 1)
    BY <1>1
  <2>2. t[i - 1] = s[(i - 1) + 1] /\ (i - 1) + 1 = i
    BY <1>1, <2>1
  <2> QED BY <1>1, <2>1, <2>2
<1>4. 1 \in DOMAIN s /\ DOMAIN s \subseteq Nat \ {0} /\ DOMAIN t \subseteq Nat \ {0}
  BY <1>1
<1> QED BY <1>1, <1>2, <1>3, <1>4

-----------------------------------------------------------------------------
(* A write of a row *)

LEMMA Pushed ==
    ASSUME StoreTyped, Streamed, NEW kind \in {"added", "changed", "removed"}, NEW id \in RowIds, NEW value \in Nat,
           kind # "removed" => value # 0,
           NEW w \in Nat, w = IF kind = "removed" THEN 0 ELSE value, rows' = [rows EXCEPT ![id] = w],
           feed' = feed, Push(kind, id, value)
    PROVE  /\ rows' \in [RowIds -> Nat] /\ rows'[id] = w /\ \A x \in RowIds : x # id => rows'[x] = rows[x]
           /\ stream' \in Seq(Events) /\ astray' \subseteq RowIds /\ drifted' \in BOOLEAN
           /\ Streamed'
           /\ \A x : x # id => (Later(x)' <=> Later(x)) /\ (x \in astray' <=> x \in astray)
           /\ Later(id)' \/ id \in astray'
           /\ ~drifted' => ~drifted /\ Later(id)'
<1>1. /\ rows \in [RowIds -> Nat] /\ feed \in {"none", "opening", "on", "lost"}
      /\ stream \in Seq(Events) /\ astray \subseteq RowIds /\ drifted \in BOOLEAN
  BY Parts DEF Values
<1>2. rows' \in [RowIds -> Nat] /\ rows'[id] = w /\ \A x \in RowIds : x # id => rows'[x] = rows[x]
  BY <1>1
<1>3. CASE feed = "on"
  <2>1. PICK e : e = [kind |-> kind, id |-> id, value |-> value]
    OBVIOUS
  <2>2. e \in Events /\ e.kind = kind /\ e.id = id /\ e.value = value
    BY <2>1 DEF Events, Values
  <2>3. stream' = Append(stream, e) /\ astray' = astray /\ drifted' = drifted
    BY <1>3, <2>1 DEF Push
  <2>4. PICK s : s = stream
    OBVIOUS
  <2>5. PICK t : t = stream'
    OBVIOUS
  <2>6. /\ t \in Seq(Events) /\ Len(s) \in Nat /\ DOMAIN s = 1..Len(s)
        /\ DOMAIN t = 1..(Len(s) + 1) /\ t[Len(s) + 1] = e
        /\ \A i \in 1..Len(s) : t[i] = s[i] /\ i \in DOMAIN t
        /\ \A x : (\E i \in DOMAIN t : t[i].id = x) <=> ((\E i \in DOMAIN s : s[i].id = x) \/ e.id = x)
    <3>1. s \in Seq(Events) /\ e \in Events /\ t = Append(s, e)
      BY <1>1, <2>2, <2>3, <2>4, <2>5
    <3>2. /\ t \in Seq(Events) /\ Len(s) \in Nat /\ DOMAIN s = 1..Len(s)
          /\ DOMAIN t = 1..(Len(s) + 1) /\ t[Len(s) + 1] = e
          /\ \A i \in 1..Len(s) : t[i] = s[i] /\ i \in DOMAIN t
      BY <3>1, Appended
    <3>3. \A x : (\E i \in DOMAIN t : t[i].id = x) <=> ((\E i \in DOMAIN s : s[i].id = x) \/ e.id = x)
      <4> SUFFICES ASSUME NEW x
                   PROVE  (\E i \in DOMAIN t : t[i].id = x) <=> ((\E i \in DOMAIN s : s[i].id = x) \/ e.id = x)
        OBVIOUS
      <4>1. Len(s) + 1 \in DOMAIN t /\ \A i \in DOMAIN t : i \in DOMAIN s \/ i = Len(s) + 1
        BY <3>2
      <4>2. CASE e.id = x
        BY <3>2, <4>1, <4>2
      <4>3. CASE e.id # x
        <5>1. \A i \in DOMAIN t : t[i].id = x => i \in DOMAIN s /\ s[i].id = x
          BY <3>2, <4>1, <4>3
        <5>2. \A i \in DOMAIN s : i \in DOMAIN t /\ t[i].id = s[i].id
          BY <3>2
        <5> QED BY <4>3, <5>1, <5>2
      <4> QED BY <4>2, <4>3
    <3> QED BY <3>2, <3>3
  <2>7. /\ \A x : Later(x) <=> \E i \in DOMAIN s : s[i].id = x
        /\ \A x : Later(x)' <=> \E i \in DOMAIN t : t[i].id = x
    BY <2>4, <2>5 DEF Later
  <2>8. \A i \in DOMAIN t : i \in DOMAIN s \/ i = Len(s) + 1
    BY <2>6
  <2>9. Len(s) + 1 \in DOMAIN t /\ \A i \in DOMAIN s : i < Len(s) + 1
    BY <2>6
  <2>10. ASSUME NEW i \in DOMAIN t
         PROVE  /\ OfRow(t[i])
                /\ (\A j \in DOMAIN t : i < j => t[j].id # t[i].id) => Carried(t[i]) = rows'[t[i].id]
    <3>1. CASE i = Len(s) + 1
      <4>1. t[i] = e
        BY <2>6, <3>1
      <4>2. OfRow(e) /\ Carried(e) = w
        BY <2>2 DEF OfRow, Carried
      <4> QED BY <1>2, <2>2, <4>1, <4>2
    <3>2. CASE i \in DOMAIN s
      <4>1. t[i] = s[i]
        BY <2>6, <3>2
      <4>2. OfRow(s[i]) /\ ((\A j \in DOMAIN s : i < j => s[j].id # s[i].id) => Carried(s[i]) = rows[s[i].id])
        BY <1>3, <2>4, <3>2 DEF Streamed
      <4>3. SUFFICES ASSUME \A j \in DOMAIN t : i < j => t[j].id # t[i].id
                     PROVE  Carried(t[i]) = rows'[t[i].id]
        BY <4>1, <4>2
      <4>4. s[i].id # id
        BY <2>2, <2>6, <2>9, <3>2, <4>1, <4>3
      <4>5. \A j \in DOMAIN s : i < j => s[j].id # s[i].id
        BY <2>6, <4>1, <4>3
      <4>6. s[i].id \in RowIds
        BY <4>2 DEF OfRow
      <4> QED BY <1>2, <4>1, <4>2, <4>4, <4>5, <4>6
    <3> QED BY <2>8, <3>1, <3>2
  <2>11. Streamed'
    BY <1>3, <2>5, <2>10 DEF Streamed
  <2> QED BY <1>1, <1>2, <2>2, <2>3, <2>5, <2>6, <2>7, <2>11
<1>4. CASE feed # "on"
  <2>1. stream' = stream /\ astray' = astray \cup {id} /\ drifted' = TRUE
    BY <1>4 DEF Push
  <2>2. Streamed'
    BY <1>1, <1>4, <2>1 DEF Streamed
  <2>3. \A x : Later(x)' <=> Later(x)
    BY <2>1 DEF Later
  <2> QED BY <1>1, <1>2, <2>1, <2>2, <2>3
<1> QED BY <1>3, <1>4

\* What a write leaves true. The mutations may change: one of this row may have
\* ended, and a create may have been given its row.
LEMMA Written ==
    ASSUME StoreInv, NEW kind \in {"added", "changed", "removed"}, NEW id \in RowIds, NEW value \in Nat,
           kind # "removed" => value # 0,
           NEW w \in Nat, w = IF kind = "removed" THEN 0 ELSE value, rows' = [rows EXCEPT ![id] = w],
           Push(kind, id, value), mode' = mode, feed' = feed, list' = list, view' = view, failed' = failed,
           rows[id] = 0 /\ w # 0 => id \notin view.deleting,
           \A x \in RowIds : x # id /\ Pending("update", x) => Pending("update", x)',
           \A x \in RowIds : rows'[x] # 0 /\ Pending("delete", x) => Pending("delete", x)',
           \A op \in ops' : op.row # 0 => op \in ops \/ (view.cache[op.row] = 0 /\ op.row \notin view.deleting)
    PROVE  Cached' /\ Paged' /\ Counted'
<1>1. /\ rows' \in [RowIds -> Nat] /\ rows'[id] = w /\ \A x \in RowIds : x # id => rows'[x] = rows[x]
      /\ \A x : x # id => (Later(x)' <=> Later(x)) /\ (x \in astray' <=> x \in astray)
      /\ Later(id)' \/ id \in astray'
      /\ ~drifted' => ~drifted /\ Later(id)'
  BY Pushed DEF StoreInv
<1>2. \A x : Hidden(x)' <=> Hidden(x)
  BY DEF Hidden
<1>3. Reading' <=> Reading
  BY DEF Reading
<1>4. Cached'
  <2>1. SUFFICES ASSUME feed' # "none", ~Reading', NEW x \in RowIds, x \notin astray', ~Later(x)'
                 PROVE  CacheTells(x)'
    BY DEF Cached
  <2>2. x # id /\ x \notin astray /\ ~Later(x)
    BY <1>1, <2>1
  <2>3. CacheTells(x)
    BY <1>3, <2>1, <2>2 DEF StoreInv, Cached
  <2> QED BY <1>1, <1>2, <2>2, <2>3 DEF CacheTells
<1>5. Paged'
  <2>1. SUFFICES ASSUME NEW x \in RowIds, x \notin astray', ~Later(x)'
                 PROVE  PageTells(x)'
    BY DEF Paged
  <2>2. x # id /\ x \notin astray /\ ~Later(x)
    BY <1>1, <2>1
  <2>3. PageTells(x)
    BY <2>1, <2>2 DEF StoreInv, Paged
  <2> QED BY <1>1, <1>3, <2>2, <2>3 DEF PageTells
<1>6. Counted'
  <2>1. SUFFICES ASSUME Countable' PROVE Deleted' /\ PageCounted' /\ CacheCounted'
    BY DEF Counted
  <2>2. Countable /\ Later(id)' /\ Deleted /\ PageCounted /\ CacheCounted
    BY <1>1, <2>1 DEF Countable, StoreInv, Counted
  <2>3. Deleted'
    <3>1. SUFFICES ASSUME NEW x \in RowIds, x \in view.deleting
                   PROVE  rows'[x] = 0 \/ Pending("delete", x)' \/ (Reading' /\ list'.page[x] # 0)
      BY DEF Deleted
    <3>2. rows[x] = 0 \/ Pending("delete", x) \/ (Reading /\ list.page[x] # 0)
      BY <2>2, <3>1 DEF Deleted
    <3> QED BY <1>1, <1>3, <3>1, <3>2
  <2>4. PageCounted'
    <3>1. SUFFICES ASSUME Reading'
                   PROVE  /\ list'.total = Cardinality({x \in RowIds : list'.page[x] # 0})
                          /\ \A x \in RowIds : ~Later(x)' => (list'.page[x] # 0 <=> rows'[x] # 0)
      BY DEF PageCounted
    <3>2. /\ list.total = Cardinality({x \in RowIds : list.page[x] # 0})
          /\ \A x \in RowIds : ~Later(x) => (list.page[x] # 0 <=> rows[x] # 0)
      BY <1>3, <2>2, <3>1 DEF PageCounted
    <3> QED BY <1>1, <2>2, <3>2
  <2>5. CacheCounted'
    <3>1. SUFFICES ASSUME ~Reading', feed' # "none"
                   PROVE  /\ \A x \in RowIds : ~Later(x)' => RowCounted(x)'
                          /\ view'.total = Cardinality(Shown' \ failed')
                          /\ \A op \in ops' : op.row # 0 => view'.cache[op.row] = 0 /\ op.row \notin view'.deleting
      BY DEF CacheCounted
    <3>2. /\ \A x \in RowIds : ~Later(x) => RowCounted(x)
          /\ view.total = Cardinality(Shown \ failed)
          /\ \A op \in ops : op.row # 0 => view.cache[op.row] = 0 /\ op.row \notin view.deleting
      BY <1>3, <2>2, <3>1 DEF CacheCounted
    <3>3. Shown' = Shown
      BY DEF Shown
    <3>4. \A x \in RowIds : ~Later(x)' => RowCounted(x)'
      <4>1. SUFFICES ASSUME NEW x \in RowIds, ~Later(x)'
                     PROVE  RowCounted(x)'
        OBVIOUS
      <4>2. x # id /\ ~Later(x) /\ rows'[x] = rows[x] /\ RowCounted(x)
        BY <1>1, <2>2, <3>2, <4>1
      <4>3. CASE rows[x] # 0
        BY <4>2, <4>3 DEF RowCounted
      <4>4. CASE rows[x] = 0
        BY <4>2, <4>4 DEF RowCounted
      <4> QED BY <4>3, <4>4
    <3> QED BY <3>2, <3>3, <3>4
  <2> QED BY <2>3, <2>4, <2>5
<1> QED BY <1>4, <1>5, <1>6

LEMMA Counts ==
    ASSUME StoreTyped, NEW some, Counting(some)
    PROVE  /\ count' \in [Steps -> Nat] /\ count \in [Steps -> Nat]
           /\ \A s \in Steps : count'[s] = (IF s \in some THEN count[s] + 1 ELSE count[s]) /\ count[s] <= count'[s]
           /\ {"row", "create", "value"} \subseteq Steps
<1>1. count \in [Steps -> Nat]
  BY Parts
<1>2. \A s \in Steps : count[s] \in Nat /\ count[s] + 1 \in Nat
  BY <1>1
<1>3. \A s \in Steps : count'[s] = IF s \in some THEN count[s] + 1 ELSE count[s]
  BY DEF Counting
<1>4. count' \in [Steps -> Nat]
  BY <1>2 DEF Counting
<1> QED BY <1>1, <1>2, <1>3, <1>4 DEF Steps

\* The row that a create is given.
LEMMA NextRow ==
    ASSUME StoreInv, May("row"), NEW id, id = count["row"] + 1
    PROVE  id \in RowIds /\ FreshRow(id)
<1>1. count["row"] \in Nat /\ MaxRows \in Nat
  BY Parts, LiveStoreAssumption DEF StoreInv, Steps
<1>2. count["row"] < MaxRows
  BY DEF May, Bounds
<1>3. id \in RowIds /\ count["row"] < id
  BY <1>1, <1>2 DEF RowIds
<1> QED BY <1>3 DEF StoreInv, Fresh

LEMMA NewValues ==
    ASSUME StoreTyped
    PROVE  NewValue \in Nat /\ NewValue # 0
<1>1. count["value"] \in Nat
  BY Parts DEF Steps
<1> QED BY <1>1 DEF NewValue

\* A write, of any row but those not given out, keeps these fresh.
LEMMA FreshWritten ==
    ASSUME StoreInv, NEW id \in RowIds, view' = view, list' = list, failed' = failed,
           count["row"] \in Nat, count'["row"] \in Nat,
           count'["create"] = count["create"], count["row"] <= count'["row"], id <= count'["row"],
           \A x \in RowIds : x # id => rows'[x] = rows[x] /\ (Later(x)' <=> Later(x)),
           \A op \in ops' : \E old \in ops : op.id = old.id /\ (op.row = old.row \/ op.row = id)
    PROVE  Fresh'
<1>1. ASSUME NEW x \in RowIds, count'["row"] < x
      PROVE  FreshRow(x)'
  <2>1. x # id /\ count["row"] < x
    BY <1>1, Names
  <2>2. FreshRow(x)
    BY <2>1 DEF StoreInv, Fresh
  <2>3. \A op \in ops' : op.row # x
    BY <2>1, <2>2 DEF FreshRow
  <2> QED BY <2>1, <2>2, <2>3 DEF FreshRow
<1>2. ASSUME NEW n \in 1..MaxCreates, count'["create"] < n
      PROVE  FreshShadow(-n)'
  <2>1. FreshShadow(-n)
    BY <1>2 DEF StoreInv, Fresh
  <2>2. \A op \in ops' : op.id # -n
    BY <2>1 DEF FreshShadow
  <2> QED BY <2>1, <2>2 DEF FreshShadow
<1> QED BY <1>1, <1>2 DEF Fresh

\* A row that is there was given out.
LEMMA GivenOut ==
    ASSUME StoreInv, NEW id \in RowIds, rows[id] # 0 \/ Later(id) \/ view.cache[id] # 0 \/ list.page[id] # 0
    PROVE  id <= count["row"]
<1>1. ~ (count["row"] < id)
  BY DEF StoreInv, Fresh, FreshRow
<1>2. count["row"] \in Nat /\ id \in Nat
  BY Parts, Names DEF StoreInv, Steps
<1> QED BY <1>1, <1>2

LEMMA OtherKeeps ==
    ASSUME StoreInv, OtherWrite
    PROVE  StoreInv'
<1>1. /\ mode' = mode /\ feed' = feed /\ ops' = ops /\ list' = list /\ view' = view /\ failed' = failed
  BY DEF OtherWrite
<1>2. StoreTyped /\ Streamed
  BY DEF StoreInv
<1>3. NewValue \in Nat /\ NewValue # 0
  BY <1>2, NewValues
<1>4. /\ rows \in [RowIds -> Nat] /\ rows \in [RowIds -> Values]
  BY <1>2, Parts DEF Values
<1>5. \E kind \in {"added", "changed", "removed"}, id \in RowIds, value \in Nat, w \in Nat, some \in SUBSET Steps :
        /\ kind # "removed" => value # 0
        /\ w = IF kind = "removed" THEN 0 ELSE value
        /\ rows' = [rows EXCEPT ![id] = w] /\ Push(kind, id, value) /\ Counting(some)
        /\ "create" \notin some
        /\ \/ rows[id] # 0
           \/ id = count["row"] + 1 /\ "row" \in some /\ FreshRow(id)
  <2>1. \/ May("row") /\ Counting({"other", "row", "value"})
           /\ rows' = [rows EXCEPT ![count["row"] + 1] = NewValue] /\ Push("added", count["row"] + 1, NewValue)
        \/ /\ Counting({"other", "value"})
           /\ \E id \in RowIds : rows[id] # 0 /\ rows' = [rows EXCEPT ![id] = NewValue] /\ Push("changed", id, NewValue)
        \/ /\ Counting({"other"})
           /\ \E id \in RowIds : rows[id] # 0 /\ rows' = [rows EXCEPT ![id] = 0] /\ Push("removed", id, 0)
    BY DEF OtherWrite
  <2>2. /\ {"other", "row", "value"} \in SUBSET Steps /\ {"other", "value"} \in SUBSET Steps
        /\ {"other"} \in SUBSET Steps
    BY DEF Steps
  <2>3. CASE May("row") /\ Counting({"other", "row", "value"})
             /\ rows' = [rows EXCEPT ![count["row"] + 1] = NewValue] /\ Push("added", count["row"] + 1, NewValue)
    <3>1. PICK id : id = count["row"] + 1
      OBVIOUS
    <3>2. id \in RowIds /\ FreshRow(id)
      BY <2>3, <3>1, NextRow
    <3>3. PICK nv : nv = NewValue
      OBVIOUS
    <3>4. nv \in Nat /\ nv # 0
      BY <1>3, <3>3
    <3>5. rows' = [rows EXCEPT ![id] = nv] /\ Push("added", id, nv) /\ Counting({"other", "row", "value"})
      BY <2>3, <3>1, <3>3
    <3>6. "create" \notin {"other", "row", "value"} /\ "row" \in {"other", "row", "value"}
      OBVIOUS
    <3>7. nv = IF "added" = "removed" THEN 0 ELSE nv
      OBVIOUS
    <3> QED BY <2>2, <3>1, <3>2, <3>4, <3>5, <3>6, <3>7
  <2>4. CASE /\ Counting({"other", "value"})
             /\ \E id \in RowIds : rows[id] # 0 /\ rows' = [rows EXCEPT ![id] = NewValue] /\ Push("changed", id, NewValue)
    <3>1. PICK id \in RowIds : rows[id] # 0 /\ rows' = [rows EXCEPT ![id] = NewValue] /\ Push("changed", id, NewValue)
      BY <2>4
    <3>2. PICK nv : nv = NewValue
      OBVIOUS
    <3>3. nv \in Nat /\ nv # 0 /\ nv = IF "changed" = "removed" THEN 0 ELSE nv
      BY <1>3, <3>2
    <3>4. rows' = [rows EXCEPT ![id] = nv] /\ Push("changed", id, nv) /\ "create" \notin {"other", "value"}
      BY <3>1, <3>2
    <3> QED BY <2>2, <2>4, <3>1, <3>3, <3>4
  <2>5. CASE /\ Counting({"other"})
             /\ \E id \in RowIds : rows[id] # 0 /\ rows' = [rows EXCEPT ![id] = 0] /\ Push("removed", id, 0)
    <3>1. PICK id \in RowIds : rows[id] # 0 /\ rows' = [rows EXCEPT ![id] = 0] /\ Push("removed", id, 0)
      BY <2>5
    <3>2. 0 = (IF "removed" = "removed" THEN 0 ELSE 0) /\ 0 \in Nat /\ "create" \notin {"other"}
      OBVIOUS
    <3> QED BY <2>2, <2>5, <3>1, <3>2
  <2> QED BY <2>1, <2>3, <2>4, <2>5
<1>6. PICK kind \in {"added", "changed", "removed"}, id \in RowIds, value \in Nat, w \in Nat, some \in SUBSET Steps :
        /\ kind # "removed" => value # 0
        /\ w = IF kind = "removed" THEN 0 ELSE value
        /\ rows' = [rows EXCEPT ![id] = w] /\ Push(kind, id, value) /\ Counting(some)
        /\ "create" \notin some
        /\ \/ rows[id] # 0
           \/ id = count["row"] + 1 /\ "row" \in some /\ FreshRow(id)
  BY <1>5
<1>7. /\ rows' \in [RowIds -> Nat] /\ rows'[id] = w /\ \A x \in RowIds : x # id => rows'[x] = rows[x]
      /\ stream' \in Seq(Events) /\ astray' \subseteq RowIds /\ drifted' \in BOOLEAN
      /\ Streamed'
      /\ \A x : x # id => (Later(x)' <=> Later(x)) /\ (x \in astray' <=> x \in astray)
  BY <1>1, <1>2, <1>6, Pushed
<1>8. /\ count' \in [Steps -> Nat] /\ count \in [Steps -> Nat]
      /\ \A s \in Steps : count'[s] = (IF s \in some THEN count[s] + 1 ELSE count[s]) /\ count[s] <= count'[s]
      /\ {"row", "create", "value"} \subseteq Steps
  BY <1>2, <1>6, Counts
<1>9. StoreTyped'
  BY <1>1, <1>2, <1>7, <1>8 DEF StoreTyped, Values
<1>10. \A kin, x : Pending(kin, x)' <=> Pending(kin, x)
  BY <1>1 DEF Pending
<1>11. Fresh'
  <2>1. id <= count'["row"]
    <3>1. id \in Nat /\ count["row"] \in Nat /\ count'["row"] \in Nat /\ count["row"] <= count'["row"]
      BY <1>8, Names
    <3>2. CASE rows[id] # 0
      BY <3>1, <3>2, GivenOut
    <3>3. CASE id = count["row"] + 1 /\ "row" \in some
      BY <1>8, <3>1, <3>3
    <3> QED BY <1>6, <3>2, <3>3
  <2>2. \A op \in ops' : \E old \in ops : op.id = old.id /\ (op.row = old.row \/ op.row = id)
    BY <1>1
  <2>3. count["row"] \in Nat /\ count'["row"] \in Nat /\ count'["create"] = count["create"] /\ count["row"] <= count'["row"]
    BY <1>6, <1>8
  <2> QED BY <1>1, <1>7, <2>1, <2>2, <2>3, FreshWritten
<1>12. Called' /\ Standing' /\ Begun'
  <2>1. Called /\ Standing /\ Begun
    BY DEF StoreInv
  <2>2. Called'
    BY <1>1, <2>1 DEF Called
  <2>3. Standing'
    BY <1>1, <1>10, <2>1 DEF Standing
  <2>4. Begun'
    BY <1>1, <2>1 DEF Begun
  <2> QED BY <2>2, <2>3, <2>4
<1>13. Cached' /\ Paged' /\ Counted'
  <2>1. rows[id] = 0 /\ w # 0 => id \notin view.deleting
    BY <1>6 DEF FreshRow
  <2>2. \A op \in ops' : op.row # 0 => op \in ops \/ (view.cache[op.row] = 0 /\ op.row \notin view.deleting)
    BY <1>1
  <2> QED BY <1>1, <1>6, <1>10, <2>1, <2>2, Written
<1> QED BY <1>7, <1>9, <1>11, <1>12, <1>13 DEF StoreInv

-----------------------------------------------------------------------------
(* The store's own writes, at the server *)

\* A mutation that is over leaves the others as they were.
LEMMA PendingLess ==
    ASSUME NEW op \in ops, ops' = ops \ {op}, NEW kind, NEW x, op.kind # kind \/ op.id # x
    PROVE  Pending(kind, x)' <=> Pending(kind, x)
BY DEF Pending

LEMMA CalledLess ==
    ASSUME Called, NEW op \in ops, ops' = ops \ {op}, view'.mapped = view.mapped, failed' = failed
    PROVE  Called'
BY DEF Called

LEMMA CreateKeeps ==
    ASSUME StoreInv, NEW op \in ops, op.row = 0, op.kind = "create", ServerWrite(op)
    PROVE  StoreInv'
<1>1. /\ mode' = mode /\ feed' = feed /\ list' = list /\ view' = view /\ failed' = failed
      /\ May("row") /\ Counting({"row"})
      /\ rows' = [rows EXCEPT ![count["row"] + 1] = op.value]
      /\ Push("added", count["row"] + 1, op.value)
      /\ ops' = (ops \ {op}) \cup {[op EXCEPT !.row = count["row"] + 1]}
  BY DEF ServerWrite
<1>2. StoreTyped /\ Streamed /\ Fresh /\ Called /\ Standing /\ Begun
  BY DEF StoreInv
<1>3. PICK id : id = count["row"] + 1
  OBVIOUS
<1>4. id \in RowIds /\ FreshRow(id)
  BY <1>1, <1>3, NextRow
<1>5. PICK new : new = [op EXCEPT !.row = id]
  OBVIOUS
<1>6. ops \subseteq Ops
  BY <1>2, Parts
<1>7. /\ new \in Ops /\ new.id = op.id /\ new.kind = "create" /\ new.row = id
      /\ op.value \in Nat /\ op.value # 0 /\ op.id \in Shadows
  <2>1. op.id \in Shadows
    BY <1>2 DEF Called
  <2> QED BY <1>4, <1>5, <1>6, <2>1 DEF Ops, Values
<1>8. ops' = (ops \ {op}) \cup {new} /\ rows' = [rows EXCEPT ![id] = op.value] /\ Push("added", id, op.value)
  BY <1>1, <1>3, <1>5
<1>9. PICK val \in Nat : val = op.value
  BY <1>7
<1>10. /\ rows' \in [RowIds -> Nat] /\ \A x \in RowIds : x # id => rows'[x] = rows[x]
       /\ stream' \in Seq(Events) /\ astray' \subseteq RowIds /\ drifted' \in BOOLEAN
       /\ Streamed'
       /\ \A x : x # id => (Later(x)' <=> Later(x))
  <2>1. /\ rows' = [rows EXCEPT ![id] = val] /\ Push("added", id, val) /\ val # 0
        /\ val = IF "added" = "removed" THEN 0 ELSE val
    BY <1>7, <1>8, <1>9
  <2>2. "added" \in {"added", "changed", "removed"} /\ id \in RowIds /\ feed' = feed
    BY <1>1, <1>4
  <2> QED BY <1>2, <2>1, <2>2, Pushed
<1>11. /\ count' \in [Steps -> Nat] /\ count \in [Steps -> Nat]
       /\ \A s \in Steps : count'[s] = (IF s \in {"row"} THEN count[s] + 1 ELSE count[s]) /\ count[s] <= count'[s]
       /\ {"row", "create", "value"} \subseteq Steps
  BY <1>1, <1>2, Counts
<1>12. StoreTyped'
  <2>1. ops' \subseteq Ops
    BY <1>6, <1>7, <1>8
  <2> QED BY <1>1, <1>2, <1>10, <1>11, <2>1 DEF StoreTyped, Values
<1>13. Fresh'
  <2>1. \A other \in ops' : \E old \in ops : other.id = old.id /\ (other.row = old.row \/ other.row = id)
    BY <1>7, <1>8
  <2>2. /\ count["row"] \in Nat /\ count'["row"] \in Nat /\ count'["create"] = count["create"]
        /\ count["row"] <= count'["row"] /\ count'["row"] = count["row"] + 1
    BY <1>11
  <2>3. id <= count'["row"]
    BY <1>3, <2>2
  <2> QED BY <1>1, <1>4, <1>10, <2>1, <2>2, <2>3, FreshWritten
<1>14. Called'
  <2>1. \A other \in ops : other.row # id
    BY <1>4 DEF FreshRow
  <2>2. \A other \in ops' : other.kind # "create" => other.row = 0
    BY <1>2, <1>7, <1>8 DEF Called
  <2>3. ASSUME NEW a \in ops', a.kind = "create"
        PROVE  /\ a.id \in Shadows /\ view.mapped[a.id] = 0 /\ a.id \notin failed
               /\ \A b \in ops' : b.kind = "create" /\ b.id = a.id => b = a
               /\ \A b \in ops' : a.row # 0 /\ b.row = a.row => b = a
    <3>1. PICK old \in ops : old.kind = "create" /\ old.id = a.id /\ (a = new => old = op) /\ (a # new => old = a /\ a # op)
      BY <1>7, <1>8, <2>3
    <3>2. /\ a.id \in Shadows /\ view.mapped[a.id] = 0 /\ a.id \notin failed
          /\ \A other \in ops : other.kind = "create" /\ other.id = a.id => other = old
          /\ \A other \in ops : old.row # 0 /\ other.row = old.row => other = old
      BY <1>2, <3>1 DEF Called
    <3>3. ASSUME NEW b \in ops', b.kind = "create", b.id = a.id PROVE b = a
      <4>1. CASE a = new
        BY <1>7, <1>8, <3>1, <3>2, <3>3, <4>1
      <4>2. CASE a # new
        BY <1>7, <1>8, <3>1, <3>2, <3>3, <4>2
      <4> QED BY <4>1, <4>2
    <3>4. ASSUME NEW b \in ops', a.row # 0, b.row = a.row PROVE b = a
      <4>1. CASE a = new
        BY <1>7, <1>8, <2>1, <3>4, <4>1
      <4>2. CASE a # new
        BY <1>7, <1>8, <2>1, <3>1, <3>2, <3>4, <4>2
      <4> QED BY <4>1, <4>2
    <3> QED BY <3>2, <3>3, <3>4
  <2> QED BY <1>1, <2>2, <2>3 DEF Called
<1>15. \A kind, x : Pending(kind, x)' <=> Pending(kind, x)
  <2> SUFFICES ASSUME NEW kind, NEW x PROVE Pending(kind, x)' <=> Pending(kind, x)
    OBVIOUS
  <2>1. (\E a \in ops' : a.kind = kind /\ a.id = x) <=> (\E a \in ops : a.kind = kind /\ a.id = x)
    BY <1>7, <1>8
  <2> QED BY <2>1 DEF Pending
<1>16. Standing'
  BY <1>1, <1>2, <1>15 DEF Standing
<1>17. Begun'
  BY <1>1, <1>2 DEF Begun
<1>18. Cached' /\ Paged' /\ Counted'
  <2>1. rows[id] = 0 /\ val # 0 => id \notin view.deleting
    BY <1>4 DEF FreshRow
  <2>2. \A other \in ops' : other.row # 0 => other \in ops \/ (view.cache[other.row] = 0 /\ other.row \notin view.deleting)
    BY <1>4, <1>7, <1>8 DEF FreshRow
  <2>3. val = (IF "added" = "removed" THEN 0 ELSE val) /\ val # 0
    BY <1>7, <1>9
  <2>4. rows' = [rows EXCEPT ![id] = val] /\ Push("added", id, val)
    BY <1>8, <1>9
  <2> QED BY <1>1, <1>4, <1>15, <2>1, <2>2, <2>3, <2>4, Written
<1> QED BY <1>10, <1>12, <1>13, <1>14, <1>16, <1>17, <1>18 DEF StoreInv

LEMMA WriteKeeps ==
    ASSUME StoreInv, NEW op \in ops, op.row = 0, op.kind # "create", op.id \in RowIds, rows[op.id] # 0, ServerWrite(op)
    PROVE  StoreInv'
<1>1. PICK id \in RowIds : id = op.id
  OBVIOUS
<1>2. /\ mode' = mode /\ feed' = feed /\ list' = list /\ view' = view /\ failed' = failed
      /\ rows' = [rows EXCEPT ![id] = IF op.kind = "update" THEN op.value ELSE 0]
      /\ Push(IF op.kind = "update" THEN "changed" ELSE "removed", id, op.value)
      /\ ops' = ops \ {op} /\ count' = count
  BY <1>1 DEF ServerWrite
<1>3. StoreTyped /\ Streamed /\ Fresh /\ Called /\ Standing /\ Begun
  BY DEF StoreInv
<1>4. ops \subseteq Ops /\ count \in [Steps -> Nat]
  BY <1>3, Parts
<1>5. op.kind \in {"update", "delete"} /\ op.value \in Nat /\ op.value # 0
  BY <1>4, OpParts
<1>6. PICK kind \in {"added", "changed", "removed"} :
        kind = IF op.kind = "update" THEN "changed" ELSE "removed"
  OBVIOUS
<1>7. PICK val \in Nat : val = op.value
  BY <1>5
<1>8. PICK w \in Nat : w = IF kind = "removed" THEN 0 ELSE val
  OBVIOUS
<1>9. rows' = [rows EXCEPT ![id] = w] /\ Push(kind, id, val) /\ (kind # "removed" => val # 0)
      /\ (w # 0 => op.kind = "update")
  BY <1>2, <1>5, <1>6, <1>7, <1>8
<1>10. /\ mode' = mode /\ feed' = feed /\ list' = list /\ view' = view /\ failed' = failed
       /\ ops' = ops \ {op} /\ count' = count
  BY <1>2
<1>11. /\ rows' \in [RowIds -> Nat] /\ rows'[id] = w /\ \A x \in RowIds : x # id => rows'[x] = rows[x]
       /\ stream' \in Seq(Events) /\ astray' \subseteq RowIds /\ drifted' \in BOOLEAN
       /\ Streamed'
       /\ \A x : x # id => (Later(x)' <=> Later(x))
  BY <1>10, <1>3, <1>8, <1>9, Pushed
<1>12. StoreTyped'
  BY <1>2, <1>3, <1>4, <1>11 DEF StoreTyped, Values
<1>13. Fresh'
  <2>1. \A other \in ops' : \E old \in ops : other.id = old.id /\ (other.row = old.row \/ other.row = id)
    BY <1>2
  <2>2. id <= count["row"]
    BY <1>1, GivenOut
  <2>3. count["row"] \in Nat
    BY <1>4 DEF Steps
  <2>4. count'["row"] \in Nat /\ count["row"] <= count'["row"] /\ count'["create"] = count["create"] /\ id <= count'["row"]
    BY <1>2, <2>2, <2>3
  <2> QED BY <1>2, <1>11, <2>1, <2>3, <2>4, FreshWritten
<1>14. Called'
  BY <1>2, <1>3, CalledLess
<1>15. \A x : Pending("create", x)' <=> Pending("create", x)
  BY <1>2, PendingLess
<1>16. Standing'
  BY <1>2, <1>3, <1>15 DEF Standing
<1>17. Begun'
  BY <1>2, <1>3 DEF Begun
<1>18. Cached' /\ Paged' /\ Counted'
  <2>1. rows[id] = 0 /\ w # 0 => id \notin view.deleting
    BY <1>1
  <2>2. \A other \in ops' : other.row # 0 => other \in ops \/ (view.cache[other.row] = 0 /\ other.row \notin view.deleting)
    BY <1>2
  <2>3. \A x \in RowIds : x # id /\ Pending("update", x) => Pending("update", x)'
    <3> SUFFICES ASSUME NEW x \in RowIds, x # id, Pending("update", x) PROVE Pending("update", x)'
      OBVIOUS
    <3> QED BY <1>1, <1>2, PendingLess
  <2>4. \A x \in RowIds : rows'[x] # 0 /\ Pending("delete", x) => Pending("delete", x)'
    <3> SUFFICES ASSUME NEW x \in RowIds, rows'[x] # 0, Pending("delete", x) PROVE Pending("delete", x)'
      OBVIOUS
    <3>1. op.kind # "delete" \/ op.id # x
      BY <1>1, <1>9, <1>11
    <3> QED BY <1>2, <3>1, PendingLess
  <2> QED BY <1>10, <1>8, <1>9, <2>1, <2>2, <2>3, <2>4, Written
<1> QED BY <1>11, <1>12, <1>13, <1>14, <1>16, <1>17, <1>18 DEF StoreInv

\* A mutation that is over, without a write: it failed, or there was nothing to write.
LEMMA OverKeeps ==
    ASSUME StoreInv, NEW op \in ops, op.row = 0, ops' = ops \ {op},
           UNCHANGED <<mode, rows, stream, feed, list, view>>,
           failed' = IF op.kind = "create" THEN failed \cup {op.id} ELSE failed,
           astray \subseteq astray', astray' \subseteq RowIds, drifted' \in BOOLEAN, drifted => drifted',
           op.kind = "create" => drifted',
           op.kind = "update" /\ op.id \in RowIds => op.id \in astray' \/ rows[op.id] = 0,
           op.kind = "delete" /\ op.id \in RowIds => drifted' \/ rows[op.id] = 0,
           count' \in [Steps -> Nat], count'["row"] = count["row"], count'["create"] = count["create"]
    PROVE  StoreInv'
<1>1. /\ mode' = mode /\ rows' = rows /\ stream' = stream /\ feed' = feed /\ list' = list /\ view' = view
  OBVIOUS
<1>2. StoreTyped /\ Streamed /\ Fresh /\ Called /\ Standing /\ Begun /\ Cached /\ Paged /\ Counted
  BY DEF StoreInv
<1>3. StoreTyped'
  <2>1. op.kind = "create" => op.id \in Shadows
    BY <1>2 DEF Called
  <2>2. failed' \subseteq Shadows
    BY <1>2, <2>1 DEF StoreTyped
  <2> QED BY <1>1, <1>2, <2>2 DEF StoreTyped
<1>4. Streamed'
  BY <1>1, <1>2 DEF Streamed
<1>5. /\ \A x : Later(x)' <=> Later(x)
      /\ \A x : Hidden(x)' <=> Hidden(x)
      /\ Reading' <=> Reading
  BY <1>1 DEF Later, Hidden, Reading
<1>6. Fresh'
  <2>1. ASSUME NEW x \in RowIds, count'["row"] < x PROVE FreshRow(x)'
    <3>1. FreshRow(x)
      BY <1>2, <2>1 DEF Fresh
    <3> QED BY <1>1, <1>5, <3>1 DEF FreshRow
  <2>2. ASSUME NEW n \in 1..MaxCreates, count'["create"] < n PROVE FreshShadow(-n)'
    <3>1. FreshShadow(-n)
      BY <1>2, <2>2 DEF Fresh
    <3>2. op.id # -n
      BY <3>1 DEF FreshShadow
    <3> QED BY <1>1, <3>1, <3>2 DEF FreshShadow
  <2> QED BY <2>1, <2>2 DEF Fresh
<1>7. Called'
  <2>1. \A a \in ops' : a.kind = "create" => a.id \notin failed'
    <3> SUFFICES ASSUME NEW a \in ops', a.kind = "create" PROVE a.id \notin failed'
      OBVIOUS
    <3>1. a \in ops /\ a # op /\ a.id \notin failed
      BY <1>2 DEF Called
    <3>2. op.kind = "create" => a.id # op.id
      BY <1>2, <3>1 DEF Called
    <3> QED BY <3>1, <3>2
  <2>2. \A a \in ops' : a \in ops
    OBVIOUS
  <2> QED BY <1>1, <1>2, <2>1, <2>2 DEF Called
<1>8. Standing'
  <2> SUFFICES ASSUME NEW o \in Shadows, o \in view.optimistic
               PROVE  o \in failed' \/ Pending("create", o)'
    BY <1>1, <1>2 DEF Standing
  <2>1. CASE o \in failed
    BY <2>1
  <2>2. CASE o \notin failed
    <3>1. Pending("create", o)
      BY <1>2, <2>2 DEF Standing
    <3>2. CASE op.kind = "create" /\ op.id = o
      BY <3>2
    <3>3. CASE ~ (op.kind = "create" /\ op.id = o)
      BY <3>1, <3>3, PendingLess
    <3> QED BY <3>2, <3>3
  <2> QED BY <2>1, <2>2
<1>9. Begun'
  BY <1>1, <1>2 DEF Begun
<1>10. Cached'
  <2>1. SUFFICES ASSUME feed' # "none", ~Reading', NEW x \in RowIds, x \notin astray', ~Later(x)'
                 PROVE  CacheTells(x)'
    BY DEF Cached
  <2>2. CacheTells(x)
    BY <1>1, <1>2, <1>5, <2>1 DEF Cached
  <2>3. rows[x] # 0 /\ Pending("update", x) => Pending("update", x)'
    <3> SUFFICES ASSUME rows[x] # 0, Pending("update", x) PROVE Pending("update", x)'
      OBVIOUS
    <3>1. op.kind # "update" \/ op.id # x
      BY <2>1
    <3> QED BY <3>1, PendingLess
  <2> QED BY <1>1, <1>5, <2>2, <2>3 DEF CacheTells
<1>11. Paged'
  <2>1. SUFFICES ASSUME NEW x \in RowIds, x \notin astray', ~Later(x)' PROVE PageTells(x)'
    BY DEF Paged
  <2>2. PageTells(x)
    BY <1>2, <1>5, <2>1 DEF Paged
  <2> QED BY <1>1, <1>5, <2>2 DEF PageTells
<1>12. Counted'
  <2>1. SUFFICES ASSUME Countable' PROVE Deleted' /\ PageCounted' /\ CacheCounted'
    BY DEF Counted
  <2>2. Countable /\ ~drifted' /\ Deleted /\ PageCounted /\ CacheCounted
    BY <1>1, <1>2, <2>1 DEF Countable, Counted
  <2>3. ASSUME NEW x \in RowIds, rows[x] # 0, Pending("delete", x) PROVE Pending("delete", x)'
    <3>1. op.kind # "delete" \/ op.id # x
      BY <2>2, <2>3
    <3> QED BY <2>3, <3>1, PendingLess
  <2>4. Deleted'
    BY <1>1, <1>5, <2>2, <2>3 DEF Deleted
  <2>5. PageCounted'
    BY <1>1, <1>5, <2>2 DEF PageCounted
  <2>6. CacheCounted'
    <3>1. SUFFICES ASSUME ~Reading', feed' # "none"
                   PROVE  /\ \A x \in RowIds : ~Later(x)' => RowCounted(x)'
                          /\ view'.total = Cardinality(Shown' \ failed')
                          /\ \A a \in ops' : a.row # 0 => view'.cache[a.row] = 0 /\ a.row \notin view'.deleting
      BY DEF CacheCounted
    <3>2. /\ \A x \in RowIds : ~Later(x) => RowCounted(x)
          /\ view.total = Cardinality(Shown \ failed)
          /\ \A a \in ops : a.row # 0 => view.cache[a.row] = 0 /\ a.row \notin view.deleting
      BY <1>1, <1>5, <2>2, <3>1 DEF CacheCounted
    <3>3. Shown' = Shown /\ failed' = failed
      BY <1>1, <2>2 DEF Shown
    <3>4. \A x \in RowIds : ~Later(x)' => RowCounted(x)'
      BY <1>1, <1>5, <2>3, <3>2 DEF RowCounted
    <3> QED BY <1>1, <3>2, <3>3, <3>4
  <2> QED BY <2>4, <2>5, <2>6
<1> QED BY <1>3, <1>4, <1>6, <1>7, <1>8, <1>9, <1>10, <1>11, <1>12 DEF StoreInv

LEMMA ServerKeeps ==
    ASSUME StoreInv, NEW op \in ops, ServerWrite(op)
    PROVE  StoreInv'
<1>1. op.row = 0
  BY DEF ServerWrite
<1>2. CASE op.kind = "create"
  BY <1>1, <1>2, CreateKeeps
<1>3. CASE op.kind # "create" /\ op.id \in RowIds /\ rows[op.id] # 0
  BY <1>1, <1>3, WriteKeeps
<1>4. CASE op.kind # "create" /\ ~ (op.id \in RowIds /\ rows[op.id] # 0)
  <2>1. /\ ops' = ops \ {op} /\ UNCHANGED <<rows, stream, astray, drifted, count>>
        /\ UNCHANGED <<mode, feed, list, view, failed>>
    BY <1>4 DEF ServerWrite
  <2>2. astray \subseteq RowIds /\ drifted \in BOOLEAN /\ count \in [Steps -> Nat]
    BY Parts DEF StoreInv
  <2> QED BY <1>1, <1>4, <2>1, <2>2, OverKeeps
<1> QED BY <1>2, <1>3, <1>4

LEMMA FailKeeps ==
    ASSUME StoreInv, NEW op \in ops, Fail(op)
    PROVE  StoreInv'
<1>1. /\ op.row = 0 /\ Counting({"incident"}) /\ ops' = ops \ {op}
      /\ failed' = IF op.kind = "create" THEN failed \cup {op.id} ELSE failed
      /\ astray' = IF op.kind = "update" /\ op.id \in RowIds THEN astray \cup {op.id} ELSE astray
      /\ drifted' = (drifted \/ op.kind # "update")
      /\ UNCHANGED <<mode, rows, stream, feed, list, view>>
  BY DEF Fail
<1>2. StoreTyped /\ astray \subseteq RowIds /\ drifted \in BOOLEAN
  BY Parts DEF StoreInv
<1>3. /\ count' \in [Steps -> Nat]
      /\ \A s \in Steps : count'[s] = IF s \in {"incident"} THEN count[s] + 1 ELSE count[s]
      /\ {"row", "create", "value"} \subseteq Steps
  BY <1>1, <1>2, Counts
<1>4. count'["row"] = count["row"] /\ count'["create"] = count["create"]
  BY <1>3
<1>5. astray \subseteq astray' /\ astray' \subseteq RowIds
  BY <1>1, <1>2
<1>6. drifted' \in BOOLEAN /\ (drifted => drifted') /\ (op.kind # "update" => drifted')
  BY <1>1
<1>7. op.kind = "update" /\ op.id \in RowIds => op.id \in astray'
  BY <1>1
<1> QED BY <1>1, <1>3, <1>4, <1>5, <1>6, <1>7, OverKeeps

-----------------------------------------------------------------------------
(* The subscription and the list request, when nothing reaches the store *)

\* A step of the subscription, or of the list request before its answer: what
\* reads the cache goes on as it was. Events may be lost when their rows go astray.
LEMMA SteadyKeeps ==
    ASSUME StoreInv, UNCHANGED <<mode, rows, ops, view, failed>>,
           StoreTyped', Streamed', Begun', Reading' <=> Reading, feed # "none",
           list' = list \/ (list'.pc # "read" /\ \A id \in RowIds : list'.page[id] = 0),
           \A x \in RowIds : Later(x)' => Later(x),
           \A x \in RowIds : Later(x) => Later(x)' \/ (x \in astray' /\ drifted'),
           astray \subseteq astray', drifted => drifted',
           count'["row"] = count["row"], count'["create"] = count["create"]
    PROVE  StoreInv'
<1>1. /\ mode' = mode /\ rows' = rows /\ ops' = ops /\ view' = view /\ failed' = failed
  OBVIOUS
<1>2. StoreTyped /\ Streamed /\ Fresh /\ Called /\ Standing /\ Cached /\ Paged /\ Counted
  BY DEF StoreInv
<1>3. /\ \A x : Hidden(x)' <=> Hidden(x)
      /\ \A kind, x : Pending(kind, x)' <=> Pending(kind, x)
  BY <1>1 DEF Hidden, Pending
<1>4. Fresh'
  <2>1. ASSUME NEW x \in RowIds, count'["row"] < x PROVE FreshRow(x)'
    <3>1. FreshRow(x)
      BY <1>2, <2>1 DEF Fresh
    <3>2. ~ Later(x)' /\ list'.page[x] = 0
      BY <3>1 DEF FreshRow
    <3> QED BY <1>1, <3>1, <3>2 DEF FreshRow
  <2>2. ASSUME NEW n \in 1..MaxCreates, count'["create"] < n PROVE FreshShadow(-n)'
    <3>1. FreshShadow(-n)
      BY <1>2, <2>2 DEF Fresh
    <3> QED BY <1>1, <3>1 DEF FreshShadow
  <2> QED BY <2>1, <2>2 DEF Fresh
<1>5. Called'
  BY <1>1, <1>2 DEF Called
<1>6. Standing'
  BY <1>1, <1>2, <1>3 DEF Standing
<1>7. Cached'
  <2>1. SUFFICES ASSUME ~Reading', NEW x \in RowIds, x \notin astray', ~Later(x)' PROVE CacheTells(x)'
    BY DEF Cached
  <2>2. x \notin astray /\ ~Later(x)
    BY <2>1
  <2>3. CacheTells(x)
    BY <1>2, <2>1, <2>2 DEF Cached
  <2> QED BY <1>1, <1>3, <2>3 DEF CacheTells
<1>8. Paged'
  <2>1. SUFFICES ASSUME NEW x \in RowIds, x \notin astray', ~Later(x)' PROVE PageTells(x)'
    BY DEF Paged
  <2>2. x \notin astray /\ ~Later(x)
    BY <2>1
  <2>3. PageTells(x)
    BY <1>2, <2>2 DEF Paged
  <2>4. CASE list' = list
    BY <1>1, <2>3, <2>4 DEF PageTells, Reading
  <2>5. CASE list'.pc # "read"
    BY <2>5 DEF PageTells, Reading
  <2> QED BY <2>4, <2>5
<1>9. Counted'
  <2>1. SUFFICES ASSUME Countable' PROVE Deleted' /\ PageCounted' /\ CacheCounted'
    BY DEF Counted
  <2>2. ~drifted' /\ Deleted /\ PageCounted /\ CacheCounted
    BY <1>1, <1>2, <2>1 DEF Countable, Counted
  <2>3. \A x \in RowIds : Later(x)' <=> Later(x)
    BY <2>2
  <2>4. Reading => list' = list
    BY DEF Reading
  <2>5. Deleted'
    BY <1>1, <1>3, <2>2, <2>4 DEF Deleted
  <2>6. PageCounted'
    <3>1. SUFFICES ASSUME Reading
                   PROVE  /\ list'.total = Cardinality({x \in RowIds : list'.page[x] # 0})
                          /\ \A x \in RowIds : ~Later(x)' => (list'.page[x] # 0 <=> rows'[x] # 0)
      BY DEF PageCounted
    <3>2. /\ list.total = Cardinality({x \in RowIds : list.page[x] # 0})
          /\ \A x \in RowIds : ~Later(x) => (list.page[x] # 0 <=> rows[x] # 0)
      BY <2>2, <3>1 DEF PageCounted
    <3> QED BY <1>1, <2>3, <2>4, <3>1, <3>2
  <2>7. CacheCounted'
    <3>1. SUFFICES ASSUME ~Reading
                   PROVE  /\ \A x \in RowIds : ~Later(x)' => RowCounted(x)'
                          /\ view'.total = Cardinality(Shown' \ failed')
                          /\ \A a \in ops' : a.row # 0 => view'.cache[a.row] = 0 /\ a.row \notin view'.deleting
      BY DEF CacheCounted
    <3>2. /\ \A x \in RowIds : ~Later(x) => RowCounted(x)
          /\ view.total = Cardinality(Shown \ failed)
          /\ \A a \in ops : a.row # 0 => view.cache[a.row] = 0 /\ a.row \notin view.deleting
      BY <2>2, <3>1 DEF CacheCounted
    <3>3. Shown' = Shown
      BY <1>1 DEF Shown
    <3>4. \A x \in RowIds : ~Later(x)' => RowCounted(x)'
      BY <1>1, <1>3, <2>3, <3>2 DEF RowCounted
    <3> QED BY <1>1, <3>2, <3>3, <3>4
  <2> QED BY <2>5, <2>6, <2>7
<1> QED BY <1>4, <1>5, <1>6, <1>7, <1>8, <1>9 DEF StoreInv

LEMMA SubscribeKeeps == ASSUME StoreInv, Subscribe PROVE StoreInv'
<1>1. /\ UNCHANGED <<mode, rows, ops, view, failed>>
      /\ stream' = stream /\ list' = list /\ astray' = astray /\ drifted' = drifted /\ count' = count
      /\ feed = "opening" /\ feed' = "on"
  BY DEF Subscribe
<1>2. StoreTyped'
  BY <1>1 DEF StoreInv, StoreTyped
<1>3. Streamed'
  <2>1. stream = <<>>
    BY <1>1 DEF StoreInv, Streamed
  <2>2. stream' = <<>> /\ DOMAIN stream' = {}
    BY <1>1, <2>1
  <2> QED BY <1>1, <2>2 DEF Streamed
<1>4. Begun'
  BY <1>1 DEF StoreInv, Begun
<1>5. (Reading' <=> Reading) /\ \A x : Later(x)' <=> Later(x)
  BY <1>1 DEF Reading, Later
<1> QED BY <1>1, <1>2, <1>3, <1>4, <1>5, SteadyKeeps

LEMMA GapKeeps == ASSUME StoreInv, Gap PROVE StoreInv'
<1>1. /\ UNCHANGED <<mode, rows, ops, view, failed>> /\ list' = list
      /\ feed = "on" /\ Counting({"incident"}) /\ feed' = "lost"
      /\ stream' = <<[kind |-> "invalidate", id |-> 0, value |-> 0]>>
      /\ astray' = astray \cup {stream[i].id : i \in DOMAIN stream} \cup {id \in RowIds : view.remote[id] # 0}
      /\ drifted' = (drifted \/ stream # <<>>)
  BY DEF Gap
<1>2. StoreTyped /\ Streamed /\ Begun
  BY DEF StoreInv
<1>3. stream' = <<Lost>> /\ Lost \in Events
  BY <1>1 DEF Lost, Events, Values
<1>4. /\ count' \in [Steps -> Nat]
      /\ \A s \in Steps : count'[s] = IF s \in {"incident"} THEN count[s] + 1 ELSE count[s]
      /\ {"row", "create", "value"} \subseteq Steps
  BY <1>1, <1>2, Counts
<1>5. astray \subseteq RowIds /\ drifted \in BOOLEAN /\ stream \in Seq(Events)
  BY <1>2, Parts
<1>6. \A i \in DOMAIN stream : stream[i].id \in RowIds
  BY <1>1, <1>2 DEF Streamed, OfRow
<1>7. astray' \subseteq RowIds /\ drifted' \in BOOLEAN
  BY <1>1, <1>5, <1>6
<1>8. StoreTyped'
  <2>1. stream' \in Seq(Events)
    BY <1>3
  <2> QED BY <1>1, <1>2, <1>4, <1>7, <2>1 DEF StoreTyped
<1>9. Streamed'
  BY <1>1, <1>3 DEF Streamed
<1>10. Begun'
  BY <1>1, <1>2 DEF Begun
<1>11. \A x \in RowIds : ~ Later(x)'
  <2>1. DOMAIN stream' = {1} /\ stream'[1].id = 0
    BY <1>3 DEF Lost
  <2> QED BY <2>1, Names DEF Later
<1>12. \A x \in RowIds : Later(x) => x \in astray' /\ drifted'
  <2> SUFFICES ASSUME NEW x \in RowIds, Later(x) PROVE x \in astray' /\ drifted'
    OBVIOUS
  <2>1. PICK i \in DOMAIN stream : stream[i].id = x
    BY DEF Later
  <2>2. stream # <<>>
    BY <2>1
  <2> QED BY <1>1, <2>1, <2>2
<1>13. (Reading' <=> Reading) /\ feed # "none" /\ astray \subseteq astray' /\ (drifted => drifted')
  BY <1>1 DEF Reading
<1>14. count'["row"] = count["row"] /\ count'["create"] = count["create"]
  BY <1>4
<1> QED BY <1>1, <1>8, <1>9, <1>10, <1>11, <1>12, <1>13, <1>14, SteadyKeeps

LEMMA AskedParts ==
    ASSUME NEW more \in BOOLEAN, NEW l, l = Asked(more)
    PROVE  /\ l \in Lists /\ l.pc = "asked" /\ l.more = more /\ l.cursor = 0
           /\ \A id \in RowIds : l.page[id] = 0
BY DEF Asked, NoList, Lists, Values

LEMMA InvalidateKeeps == ASSUME StoreInv, Invalidate PROVE StoreInv'
<1>1. /\ UNCHANGED <<mode, rows, ops, view, failed>> /\ astray' = astray /\ drifted' = drifted /\ count' = count
      /\ stream # <<>> /\ Head(stream).kind = "invalidate" /\ list.pc = "none"
      /\ list' = Asked(FALSE) /\ feed' = "opening" /\ stream' = Tail(stream)
  BY DEF Invalidate
<1>2. StoreTyped /\ Streamed /\ Begun
  BY DEF StoreInv
<1>3. stream \in Seq(Events) /\ feed \in {"none", "opening", "on", "lost"} /\ 1 \in DOMAIN stream /\ Head(stream) = stream[1]
  <2>1. stream \in Seq(Events) /\ feed \in {"none", "opening", "on", "lost"}
    BY <1>2, Parts
  <2> QED BY <1>1, <2>1
<1>4. feed = "lost"
  <2>1. feed # "on"
    BY <1>1, <1>2, <1>3 DEF Streamed, OfRow
  <2> QED BY <1>1, <1>2, <1>3, <2>1 DEF Streamed
<1>5. stream = <<Lost>>
  BY <1>2, <1>4 DEF Streamed
<1>6. stream' = <<>>
  BY <1>1, <1>5
<1>7. /\ list' \in Lists /\ list'.pc = "asked" /\ list'.more = FALSE /\ list'.cursor = 0
      /\ \A id \in RowIds : list'.page[id] = 0
  <2>1. PICK l : l = list'
    OBVIOUS
  <2> QED BY <1>1, <2>1, AskedParts
<1>8. StoreTyped'
  <2>1. <<>> \in Seq(Events)
    OBVIOUS
  <2>2. stream' \in Seq(Events)
    BY <1>6, <2>1
  <2> QED BY <1>1, <1>2, <1>7, <2>2 DEF StoreTyped
<1>9. Streamed'
  BY <1>1, <1>6 DEF Streamed
<1>10. Begun'
  BY <1>1, <1>2, <1>4, <1>7 DEF Begun
<1>11. \A x \in RowIds : ~ Later(x)' /\ ~ Later(x)
  <2>1. DOMAIN stream = {1} /\ stream[1].id = 0 /\ DOMAIN stream' = {}
    BY <1>5, <1>6 DEF Lost
  <2> QED BY <2>1, Names DEF Later
<1>12. ~Reading' /\ ~Reading /\ feed # "none"
  BY <1>1, <1>4, <1>7 DEF Reading
<1> QED BY <1>1, <1>7, <1>8, <1>9, <1>10, <1>11, <1>12, SteadyKeeps

\* refresh and loadMore, until they read.
LEMMA AskKeeps ==
    ASSUME StoreInv, NEW more \in BOOLEAN, list.pc = "none", more => view.cursor # 0, list' = Asked(more),
           Counting({"incident"}), UNCHANGED <<mode, rows, stream, feed, ops, view, astray, drifted, failed>>
    PROVE  StoreInv'
<1>1. /\ UNCHANGED <<mode, rows, ops, view, failed>>
      /\ stream' = stream /\ feed' = feed /\ astray' = astray /\ drifted' = drifted
  OBVIOUS
<1>2. StoreTyped /\ Streamed /\ Begun
  BY DEF StoreInv
<1>3. /\ list' \in Lists /\ list'.pc = "asked" /\ list'.more = more /\ list'.cursor = 0
      /\ \A id \in RowIds : list'.page[id] = 0
  <2>1. PICK l : l = list'
    OBVIOUS
  <2> QED BY <2>1, AskedParts
<1>4. /\ count' \in [Steps -> Nat]
      /\ \A s \in Steps : count'[s] = IF s \in {"incident"} THEN count[s] + 1 ELSE count[s]
      /\ {"row", "create", "value"} \subseteq Steps
  BY <1>2, Counts
<1>5. StoreTyped'
  BY <1>1, <1>2, <1>3, <1>4 DEF StoreTyped
<1>6. Streamed'
  BY <1>1, <1>2 DEF Streamed
<1>7. feed # "none"
  BY <1>2 DEF Begun
<1>8. Begun'
  BY <1>1, <1>2, <1>3, <1>7 DEF Begun
<1>9. ~Reading' /\ ~Reading /\ \A x : Later(x)' <=> Later(x)
  BY <1>1, <1>3 DEF Reading, Later
<1>10. count'["row"] = count["row"] /\ count'["create"] = count["create"]
  BY <1>4
<1> QED BY <1>1, <1>3, <1>5, <1>6, <1>7, <1>8, <1>9, <1>10, SteadyKeeps

LEMMA RefreshKeeps == ASSUME StoreInv, Refresh PROVE StoreInv'
BY AskKeeps DEF Refresh

LEMMA LoadMoreKeeps == ASSUME StoreInv, LoadMore PROVE StoreInv'
BY AskKeeps DEF LoadMore

-----------------------------------------------------------------------------
(* What the list request reads *)

\* A finite set of numbers has a least one: how many are below tells them apart, so
\* one of them has none below.
LEMMA LeastNumber ==
    ASSUME NEW N, N \subseteq Nat, IsFiniteSet(N), N # {}
    PROVE  \E n \in N : \A m \in N : n <= m
<1> DEFINE under(n) == {m \in N : m < n}
<1>1. \A n \in N : IsFiniteSet(under(n)) /\ Cardinality(under(n)) \in Nat /\ under(n) \subseteq N
  <2> SUFFICES ASSUME NEW n \in N
               PROVE  IsFiniteSet(under(n)) /\ Cardinality(under(n)) \in Nat /\ under(n) \subseteq N
    OBVIOUS
  <2> QED BY FS_Subset, FS_CardinalityType
<1>2. Cardinality(N) \in Nat
  BY FS_CardinalityType
<1>3. ASSUME NEW n \in N PROVE Cardinality(under(n)) < Cardinality(N)
  <2>1. under(n) # N
    BY <1>3
  <2>2. Cardinality(under(n)) <= Cardinality(N) /\ Cardinality(under(n)) # Cardinality(N)
    BY <1>1, <2>1, FS_Subset
  <2> QED BY <1>1, <1>2, <2>2
<1>4. ASSUME NEW n \in N, NEW m \in N, n < m
      PROVE  Cardinality(under(n)) < Cardinality(under(m))
  <2>1. n \in Nat /\ m \in Nat
    OBVIOUS
  <2>2. under(n) \subseteq under(m)
    <3> SUFFICES ASSUME NEW x \in N, x < n PROVE x < m
      OBVIOUS
    <3>1. x \in Nat
      OBVIOUS
    <3> QED BY <1>4, <2>1, <3>1
  <2>3. n \in under(m) /\ n \notin under(n)
    BY <1>4, <2>1
  <2>4. Cardinality(under(n)) <= Cardinality(under(m)) /\ Cardinality(under(n)) # Cardinality(under(m))
    BY <1>1, <2>2, <2>3, FS_Subset
  <2> QED BY <1>1, <2>4
<1> HIDE DEF under
<1>5. PICK r : r = [n \in N |-> Cardinality(under(n))]
  OBVIOUS
<1> DEFINE T == 0..(Cardinality(N) - 1)
<1>6. IsFiniteSet(T) /\ Cardinality(T) = Cardinality(N)
  <2>1. PICK k \in Nat : k = Cardinality(N)
    BY <1>2
  <2>2. IsFiniteSet(0..(k - 1)) /\ Cardinality(0..(k - 1)) = k
    BY FS_Interval
  <2> QED BY <2>1, <2>2
<1>7. r \in [N -> T]
  <2>1. \A n \in N : Cardinality(under(n)) \in T
    BY <1>1, <1>2, <1>3
  <2> QED BY <1>5, <2>1
<1>8. \A n, m \in N : r[n] = r[m] => n = m
  <2> SUFFICES ASSUME NEW n \in N, NEW m \in N, r[n] = r[m] PROVE n = m
    OBVIOUS
  <2>1. Cardinality(under(n)) = Cardinality(under(m)) /\ Cardinality(under(n)) \in Nat
    BY <1>1, <1>5
  <2>2. ~ (n < m) /\ ~ (m < n)
    BY <1>4, <2>1
  <2> QED BY <2>2
<1>9. r \in Surjection(N, T)
  <2>1. r \in Injection(N, T)
    BY <1>7, <1>8 DEF Injection, IsInjective
  <2> QED BY <1>6, <2>1, FS_Injection
<1>10. 0 \in T
  <2>1. Cardinality(N) # 0
    BY FS_EmptySet
  <2> QED BY <1>2, <2>1
<1>11. PICK n \in N : r[n] = 0
  BY <1>9, <1>10 DEF Surjection
<1>12. under(n) = {}
  BY <1>1, <1>5, <1>11, FS_EmptySet
<1> QED BY <1>12 DEF under

LEMMA GreatestRow ==
    ASSUME NEW N, N \subseteq RowIds, N # {}
    PROVE  \E n \in N : \A m \in N : m <= n
<1>1. MaxRows \in Nat /\ \A x \in N : x \in Nat /\ x <= MaxRows
  BY LiveStoreAssumption DEF RowIds
<1>2. IsFiniteSet(N)
  BY FiniteNames, FS_Subset
<1> DEFINE M == {MaxRows - x : x \in N}
           f == [x \in N |-> MaxRows - x]
<1>3. f \in Surjection(N, M)
  BY DEF Surjection
<1>4. IsFiniteSet(M)
  BY <1>2, <1>3, FS_Surjection
<1>5. M \subseteq Nat /\ M # {}
  BY <1>1
<1>6. PICK y \in M : \A z \in M : y <= z
  BY <1>4, <1>5, LeastNumber
<1>7. PICK n \in N : y = MaxRows - n
  OBVIOUS
<1>8. ASSUME NEW m \in N PROVE m <= n
  <2>1. y <= MaxRows - m
    BY <1>6
  <2> QED BY <1>1, <1>7, <2>1
<1> QED BY <1>8

LEMMA PageParts ==
    ASSUME StoreTyped, NEW after \in RowIds \cup {0}, NEW p, p = PageAfter(after)
    PROVE  /\ p \in Lists /\ p.pc = "read" /\ p.more = list.more
           /\ p.total = Cardinality({id \in RowIds : rows[id] # 0})
           /\ \A id \in RowIds : p.page[id] = rows[id] \/ p.page[id] = 0
           /\ mode = "live" => p.cursor = 0 /\ (after = 0 => p.page = rows)
<1> DEFINE all == {id \in RowIds : rows[id] # 0 /\ id > after}
           ids == IF mode = "live" THEN all ELSE {id \in all : Cardinality({x \in all : x < id}) < Limit}
           last == IF ids = all THEN 0 ELSE CHOOSE id \in ids : \A x \in ids : x <= id
<1>1. rows \in [RowIds -> Nat] /\ list \in Lists /\ list.more \in BOOLEAN
  BY Parts, ListParts DEF Values
<1>2. last \in RowIds \cup {0}
  <2>1. CASE ids = all
    BY <2>1
  <2>2. CASE ids # all
    <3>1. all # {} /\ all \subseteq RowIds /\ all \subseteq Nat
      BY <2>2, Names
    <3>2. IsFiniteSet(all)
      BY <3>1, FiniteNames, FS_Subset
    <3>3. PICK n \in all : \A m \in all : n <= m
      BY <3>1, <3>2, LeastNumber
    <3>4. {x \in all : x < n} = {}
      <4> SUFFICES ASSUME NEW x \in all, x < n PROVE FALSE
        OBVIOUS
      <4>1. n <= x /\ n \in Nat /\ x \in Nat
        BY <3>1, <3>3
      <4> QED BY <4>1
    <3>5. Cardinality({x \in all : x < n}) < Limit
      BY <3>4, FS_EmptySet, LiveStoreAssumption
    <3>6. n \in ids
      BY <2>2, <3>5
    <3>7. ids \subseteq RowIds /\ ids # {}
      BY <3>6
    <3>8. \E id \in ids : \A x \in ids : x <= id
      BY <3>7, GreatestRow
    <3>9. (CHOOSE id \in ids : \A x \in ids : x <= id) \in ids
      BY <3>8
    <3> QED BY <2>2, <3>7, <3>9
  <2> QED BY <2>1, <2>2
<1>3. PICK c : c = last
  OBVIOUS
<1>4. PICK g : g = [id \in RowIds |-> IF id \in ids THEN rows[id] ELSE 0]
  OBVIOUS
<1>5. PICK t : t = Cardinality({id \in RowIds : rows[id] # 0})
  OBVIOUS
<1>6. t \in Nat
  <2>1. {id \in RowIds : rows[id] # 0} \subseteq RowIds
    OBVIOUS
  <2>2. IsFiniteSet({id \in RowIds : rows[id] # 0})
    BY <2>1, FiniteNames, FS_Subset
  <2> QED BY <1>5, <2>2, FS_CardinalityType
<1>7. g \in [RowIds -> Nat] /\ \A id \in RowIds : g[id] = rows[id] \/ g[id] = 0
  BY <1>1, <1>4
<1>8. p = [pc |-> "read", more |-> list.more, total |-> t, page |-> g, cursor |-> c]
  BY <1>3, <1>4, <1>5 DEF PageAfter
<1>9. p \in Lists /\ p.pc = "read" /\ p.more = list.more /\ p.total = t /\ p.page = g /\ p.cursor = c
  <2>1. c \in RowIds \cup {0} /\ g \in [RowIds -> Nat] /\ t \in Nat
    BY <1>2, <1>3, <1>6, <1>7
  <2>2. PICK b \in BOOLEAN : b = list.more
    BY <1>1
  <2>3. p = [pc |-> "read", more |-> b, total |-> t, page |-> g, cursor |-> c]
    BY <1>8, <2>2
  <2>4. p \in Lists /\ p.pc = "read" /\ p.more = b /\ p.total = t /\ p.page = g /\ p.cursor = c
    BY <2>1, <2>3 DEF Lists, Values
  <2> QED BY <2>2, <2>4
<1>10. mode = "live" => c = 0
  BY <1>3
<1>11. ASSUME mode = "live", after = 0 PROVE g = rows
  <2>1. ASSUME NEW id \in RowIds PROVE g[id] = rows[id]
    <3>1. id > 0
      BY Names
    <3>2. id \in ids \/ rows[id] = 0
      BY <1>11, <3>1
    <3> QED BY <1>4, <3>2
  <2> QED BY <1>1, <1>7, <2>1
<1> QED BY <1>5, <1>7, <1>9, <1>10, <1>11

LEMMA ListReadKeeps == ASSUME StoreInv, ListRead PROVE StoreInv'
<1>1. /\ mode' = mode /\ rows' = rows /\ stream' = stream /\ feed' = feed /\ ops' = ops /\ view' = view
      /\ failed' = failed /\ count' = count
      /\ list.pc = "asked" /\ list' = PageAfter(IF list.more THEN view.cursor ELSE 0)
      /\ astray' = IF list.more THEN astray ELSE {id \in astray : view.remote[id] # 0}
      /\ drifted' = (drifted /\ list.more)
  BY DEF ListRead
<1>2. StoreTyped /\ Streamed /\ Fresh /\ Called /\ Standing /\ Begun /\ Cached /\ Paged /\ Counted
  BY DEF StoreInv
<1>3. /\ view \in Views /\ view.cursor \in RowIds \cup {0} /\ list \in Lists /\ list.more \in BOOLEAN
      /\ astray \subseteq RowIds /\ drifted \in BOOLEAN /\ rows \in [RowIds -> Nat] /\ mode \in StoreModes
  BY <1>2, Parts, ViewParts, ListParts DEF Values
<1>4. PICK after \in RowIds \cup {0} : after = IF list.more THEN view.cursor ELSE 0
  BY <1>3
<1>5. PICK p : p = list'
  OBVIOUS
<1>6. /\ p \in Lists /\ p.pc = "read" /\ p.more = list.more
      /\ p.total = Cardinality({id \in RowIds : rows[id] # 0})
      /\ \A id \in RowIds : p.page[id] = rows[id] \/ p.page[id] = 0
      /\ mode = "live" => p.cursor = 0 /\ (after = 0 => p.page = rows)
  BY <1>1, <1>2, <1>4, <1>5, PageParts
<1>7. mode = "live" => ~list.more /\ p.page = rows
  BY <1>2, <1>4, <1>6 DEF Begun
<1>8. ~list.more /\ mode # "live" => mode = "strict"
  BY <1>3, Modes
<1>9. StoreTyped'
  <2>1. astray' \subseteq RowIds /\ drifted' \in BOOLEAN
    BY <1>1, <1>3
  <2> QED BY <1>1, <1>2, <1>5, <1>6, <2>1 DEF StoreTyped
<1>10. Streamed'
  BY <1>1, <1>2 DEF Streamed
<1>11. /\ \A x : Later(x)' <=> Later(x)
       /\ \A x : Hidden(x)' <=> Hidden(x)
       /\ \A kind, x : Pending(kind, x)' <=> Pending(kind, x)
       /\ Reading' <=> ~list.more
       /\ ~Reading
  BY <1>1, <1>5, <1>6 DEF Later, Hidden, Pending, Reading
<1>12. Fresh'
  <2>1. ASSUME NEW x \in RowIds, count'["row"] < x PROVE FreshRow(x)'
    <3>1. FreshRow(x)
      BY <1>1, <1>2, <2>1 DEF Fresh
    <3>2. list'.page[x] = 0
      BY <1>5, <1>6, <3>1 DEF FreshRow
    <3> QED BY <1>1, <1>11, <3>1, <3>2 DEF FreshRow
  <2>2. ASSUME NEW n \in 1..MaxCreates, count'["create"] < n PROVE FreshShadow(-n)'
    <3>1. FreshShadow(-n)
      BY <1>1, <1>2, <2>2 DEF Fresh
    <3> QED BY <1>1, <3>1 DEF FreshShadow
  <2> QED BY <2>1, <2>2 DEF Fresh
<1>13. Called'
  BY <1>1, <1>2 DEF Called
<1>14. Standing'
  BY <1>1, <1>2, <1>11 DEF Standing
<1>15. Begun'
  BY <1>1, <1>2, <1>5, <1>6 DEF Begun
<1>16. Cached'
  <2>1. SUFFICES ASSUME feed' # "none", ~Reading', NEW x \in RowIds, x \notin astray', ~Later(x)' PROVE CacheTells(x)'
    BY DEF Cached
  <2>2. list.more /\ astray' = astray
    BY <1>1, <1>11, <2>1
  <2>3. CacheTells(x)
    BY <1>1, <1>2, <1>11, <2>1, <2>2 DEF Cached
  <2> QED BY <1>1, <1>11, <2>3 DEF CacheTells
<1>17. Paged'
  <2>1. SUFFICES ASSUME NEW x \in RowIds PROVE PageTells(x)'
    BY DEF Paged
  <2>2. p.page[x] = rows[x] \/ (mode = "strict" /\ p.page[x] = 0)
    BY <1>3, <1>6, <1>7, Modes
  <2> QED BY <1>1, <1>5, <1>6, <2>2 DEF PageTells
<1>18. Counted'
  <2>1. SUFFICES ASSUME mode = "live" PROVE Deleted' /\ PageCounted' /\ CacheCounted'
    BY <1>1 DEF Counted, Countable
  <2>2. ~list.more /\ p.page = rows
    BY <1>7, <2>1
  <2>3. Deleted'
    BY <1>1, <1>5, <1>11, <2>2 DEF Deleted
  <2>4. PageCounted'
    BY <1>1, <1>5, <1>6, <2>2 DEF PageCounted
  <2>5. CacheCounted'
    BY <1>11, <2>2 DEF CacheCounted
  <2> QED BY <2>3, <2>4, <2>5
<1> QED BY <1>9, <1>10, <1>12, <1>13, <1>14, <1>15, <1>16, <1>17, <1>18 DEF StoreInv

-----------------------------------------------------------------------------
(* An event reaches the store *)

LEMMA HandledParts ==
    ASSUME StoreTyped, Standing, NEW e \in Events, OfRow(e), NEW id \in RowIds, id = e.id,
           NEW value \in Nat, value = Carried(e),
           NEW v, e.kind = "added" => v = HandleAdd(view, id, value, 0),
           e.kind = "changed" => v = HandleChange(view, id, value),
           e.kind = "removed" => v = HandleRemove(view, id)
    PROVE  /\ v \in Views
           /\ v.optimistic = view.optimistic /\ v.mapped = view.mapped /\ v.cursor = view.cursor
           /\ \A k : k # id => (k \in v.deleting <=> k \in view.deleting)
           /\ id \in v.deleting => id \in view.deleting
           /\ e.kind # "removed" => v.deleting = view.deleting
           /\ \A k \in Entries : k # id => v.cache[k] = view.cache[k]
           /\ \A k \in RowIds : k # id => v.remote[k] = view.remote[k]
           /\ v.total = -1 <=> view.total = -1
           /\ e.kind = "added" =>
                 \/ (id \in view.deleting \/ mode = "strict") /\ v = view
                 \/ /\ id \notin view.deleting /\ v.cache[id] # 0
                    /\ Adds(v, view, id)
           /\ e.kind = "changed" =>
                 /\ v.total = view.total
                 /\ \/ mode = "strict" /\ v.cache[id] = 0 /\ v.remote[id] = value
                    \/ v.cache[id] = value
           /\ e.kind = "removed" =>
                 v.cache[id] = 0 /\ Takes(v, view, id)
<1>1. view \in Views /\ StandIns(view, id) = {}
  BY Parts, NoStandIns
<1>2. view.total \in Nat \cup {-1}
  BY <1>1, ViewParts
<1>3. CASE e.kind = "added"
  <2>1. value # 0 /\ v = HandleAdd(view, id, value, 0)
    BY <1>3 DEF OfRow, Carried
  <2>2. /\ v \in Views
        /\ v.optimistic = view.optimistic /\ v.deleting = view.deleting /\ v.updating = view.updating
        /\ v.remote = view.remote /\ v.mapped = view.mapped /\ v.cursor = view.cursor
        /\ \A k \in Entries : k # id => v.cache[k] = view.cache[k]
        /\ id \in view.deleting \/ mode = "strict" => v = view
        /\ ~ (id \in view.deleting \/ mode = "strict") =>
              v.cache[id] # 0 /\ Adds(v, view, id)
    BY <1>1, <2>1, AddedParts
  <2>3. v.total = -1 <=> view.total = -1
    <3>1. CASE id \in view.deleting \/ mode = "strict"
      BY <2>2, <3>1
    <3>2. CASE ~ (id \in view.deleting \/ mode = "strict")
      BY <1>2, <2>2, <3>2, Bumped DEF Adds
    <3> QED BY <3>1, <3>2
  <2> QED BY <1>3, <2>2, <2>3
<1>4. CASE e.kind = "changed"
  <2>1. v = HandleChange(view, id, value)
    BY <1>4
  <2>2. /\ v \in Views
        /\ v.optimistic = view.optimistic /\ v.deleting = view.deleting /\ v.updating = view.updating
        /\ v.mapped = view.mapped /\ v.cursor = view.cursor /\ v.total = view.total
        /\ \A k \in Entries : k # id => v.cache[k] = view.cache[k]
        /\ \A k \in RowIds : k # id => v.remote[k] = view.remote[k]
        /\ \/ mode = "strict" /\ view.cache[id] = 0 /\ v.cache[id] = 0 /\ v.remote[id] = value
           \/ v.cache[id] = value
    BY <1>1, <2>1, ChangedParts
  <2> QED BY <1>4, <2>2
<1>5. CASE e.kind = "removed"
  <2>1. v = HandleRemove(view, id)
    BY <1>5
  <2>2. /\ v \in Views
        /\ v.optimistic = view.optimistic /\ v.updating = view.updating /\ v.deleting = view.deleting \ {id}
        /\ v.remote = view.remote /\ v.mapped = view.mapped /\ v.cursor = view.cursor
        /\ \A k \in Entries : k # id => v.cache[k] = view.cache[k]
        /\ v.cache[id] = 0 /\ Takes(v, view, id)
    BY <1>1, <2>1, RemovedParts
  <2>3. v.total = -1 <=> view.total = -1
    BY <1>2, <2>2, Bumped DEF Takes
  <2> QED BY <1>5, <2>2, <2>3
<1>6. e.kind \in {"added", "changed", "removed"}
  BY EventParts DEF OfRow
<1> QED BY <1>3, <1>4, <1>5, <1>6

LEMMA OneMore ==
    ASSUME NEW S, IsFiniteSet(S), NEW x, x \notin S, NEW T, T = S \cup {x}
    PROVE  Cardinality(S) \in Nat /\ Cardinality(T) = Cardinality(S) + 1
BY FS_AddElement, FS_CardinalityType

LEMMA OneLess ==
    ASSUME NEW S, IsFiniteSet(S), NEW x \in S, NEW T, T = S \ {x}
    PROVE  Cardinality(S) \in Nat /\ Cardinality(S) >= 1 /\ Cardinality(T) = Cardinality(S) - 1
<1>1. Cardinality(S) \in Nat
  BY FS_CardinalityType
<1>2. Cardinality(S) # 0
  BY FS_EmptySet
<1>3. Cardinality(T) = Cardinality(S) - 1
  BY FS_RemoveElement
<1> QED BY <1>1, <1>2, <1>3

LEMMA ShownFinite == IsFiniteSet(Shown \ failed)
<1>1. Shown \ failed \subseteq Entries
  BY DEF Shown
<1> QED BY <1>1, FiniteNames, FS_Subset

\* How the total follows the cache at one key.
LEMMA ShownStep ==
    ASSUME NEW k \in Entries, k \notin failed, failed' = failed,
           \A j \in Entries : j # k => (view'.cache[j] # 0 <=> view.cache[j] # 0)
    PROVE  /\ Cardinality(Shown \ failed) \in Nat
           /\ (view.cache[k] # 0 <=> view'.cache[k] # 0) => Cardinality(Shown' \ failed') = Cardinality(Shown \ failed)
           /\ view.cache[k] = 0 /\ view'.cache[k] # 0 =>
                 Cardinality(Shown' \ failed') = Cardinality(Shown \ failed) + 1
           /\ view.cache[k] # 0 /\ view'.cache[k] = 0 =>
                 /\ Cardinality(Shown \ failed) >= 1
                 /\ Cardinality(Shown' \ failed') = Cardinality(Shown \ failed) - 1
<1>1. PICK S : S = Shown \ failed
  OBVIOUS
<1>2. PICK T : T = Shown' \ failed'
  OBVIOUS
<1>3. IsFiniteSet(S) /\ Cardinality(S) \in Nat
  BY <1>1, ShownFinite, FS_CardinalityType
<1>4. \A j \in Entries : j # k => (j \in T <=> j \in S)
  BY <1>1, <1>2 DEF Shown
<1>5. S \subseteq Entries /\ T \subseteq Entries /\ (k \in S <=> view.cache[k] # 0) /\ (k \in T <=> view'.cache[k] # 0)
  BY <1>1, <1>2 DEF Shown
<1>6. CASE view.cache[k] # 0 <=> view'.cache[k] # 0
  <2>1. S = T
    BY <1>4, <1>5, <1>6
  <2> QED BY <1>1, <1>2, <1>3, <1>6, <2>1
<1>7. CASE view.cache[k] = 0 /\ view'.cache[k] # 0
  <2>1. T = S \cup {k} /\ k \notin S
    BY <1>4, <1>5, <1>7
  <2>2. Cardinality(T) = Cardinality(S) + 1
    BY <1>3, <2>1, OneMore
  <2> QED BY <1>1, <1>2, <1>3, <1>7, <2>2
<1>8. CASE view.cache[k] # 0 /\ view'.cache[k] = 0
  <2>1. T = S \ {k} /\ k \in S
    BY <1>4, <1>5, <1>8
  <2>2. Cardinality(S) >= 1 /\ Cardinality(T) = Cardinality(S) - 1
    BY <1>3, <2>1, OneLess
  <2> QED BY <1>1, <1>2, <1>3, <1>8, <2>2
<1> QED BY <1>6, <1>7, <1>8

\* The total after a step at one key, when it was that of the rows shown.
LEMMA TotalStep ==
    ASSUME NEW k \in Entries, k \notin failed, failed' = failed,
           \A j \in Entries : j # k => (view'.cache[j] # 0 <=> view.cache[j] # 0),
           view.total = Cardinality(Shown \ failed),
           NEW by \in {-1, 0, 1},
           by = 0 <=> (view.cache[k] # 0 <=> view'.cache[k] # 0),
           by = 1 <=> view.cache[k] = 0 /\ view'.cache[k] # 0,
           view'.total = Bump(view.total, by)
    PROVE  view'.total = Cardinality(Shown' \ failed')
<1>1. PICK a : a = Cardinality(Shown \ failed)
  OBVIOUS
<1>2. PICK b : b = Cardinality(Shown' \ failed')
  OBVIOUS
<1>3. a \in Nat
  BY <1>1, ShownFinite, FS_CardinalityType
<1>4. b = a + by /\ a + by >= 0
  <2>1. CASE by = 0
    <3>1. b = a
      BY <1>1, <1>2, <2>1, ShownStep
    <3> QED BY <1>3, <2>1, <3>1
  <2>2. CASE by = 1
    <3>1. b = a + 1
      BY <1>1, <1>2, <2>2, ShownStep
    <3> QED BY <1>3, <2>2, <3>1
  <2>3. CASE by = -1
    <3>1. view.cache[k] # 0 /\ view'.cache[k] = 0
      BY <2>3
    <3>2. b = a - 1 /\ a >= 1
      BY <1>1, <1>2, <3>1, ShownStep
    <3> QED BY <1>3, <2>3, <3>2
  <2> QED BY <2>1, <2>2, <2>3
<1>5. Bump(a, by) = a + by
  BY <1>3, <1>4, Bumped
<1> QED BY <1>1, <1>2, <1>4, <1>5

LEMMA DeliverKeeps == ASSUME StoreInv, Deliver PROVE StoreInv'
<1>1. StoreTyped /\ Streamed /\ Fresh /\ Called /\ Standing /\ Begun /\ Cached /\ Paged /\ Counted
  BY DEF StoreInv
<1>2. /\ mode' = mode /\ rows' = rows /\ feed' = feed /\ ops' = ops /\ list' = list /\ failed' = failed /\ count' = count
      /\ stream # <<>> /\ Head(stream).kind # "invalidate" /\ stream' = Tail(stream)
  BY DEF Deliver
<1>3. /\ stream \in Seq(Events) /\ feed \in {"none", "opening", "on", "lost"} /\ view \in Views /\ list \in Lists
      /\ rows \in [RowIds -> Nat] /\ astray \subseteq RowIds /\ drifted \in BOOLEAN /\ mode \in StoreModes
  BY <1>1, Parts DEF Values
<1>4. PICK s : s = stream
  OBVIOUS
<1>5. PICK t : t = stream'
  OBVIOUS
<1>6. PICK e : e = Head(stream)
  OBVIOUS
<1>7. /\ t \in Seq(Events) /\ e \in Events /\ s[1] = e /\ 1 \in DOMAIN s
      /\ DOMAIN s \subseteq Nat \ {0} /\ DOMAIN t \subseteq Nat \ {0}
      /\ \A i \in DOMAIN t : i + 1 \in DOMAIN s /\ t[i] = s[i + 1]
      /\ \A i \in DOMAIN s : i = 1 \/ (i - 1 \in DOMAIN t /\ t[i - 1] = s[i])
      /\ \A x : (\E i \in DOMAIN s : s[i].id = x) <=> ((\E i \in DOMAIN t : t[i].id = x) \/ e.id = x)
  <2>1. s \in Seq(Events) /\ s # <<>> /\ t = Tail(s) /\ e = Head(s)
    BY <1>2, <1>3, <1>4, <1>5, <1>6
  <2>2. t \in Seq(Events) /\ e \in Events /\ s[1] = e /\ 1 \in DOMAIN s
    BY <2>1, Taken
  <2>3. DOMAIN s \subseteq Nat \ {0} /\ DOMAIN t \subseteq Nat \ {0}
    BY <2>1, Taken
  <2>4. \A i \in DOMAIN t : i + 1 \in DOMAIN s /\ t[i] = s[i + 1]
    BY <2>1, Taken
  <2>5. \A i \in DOMAIN s : i = 1 \/ (i - 1 \in DOMAIN t /\ t[i - 1] = s[i])
    BY <2>1, Taken
  <2>6. \A x : (\E i \in DOMAIN s : s[i].id = x) <=> ((\E i \in DOMAIN t : t[i].id = x) \/ e.id = x)
    <3> SUFFICES ASSUME NEW x
                 PROVE  (\E i \in DOMAIN s : s[i].id = x) <=> ((\E i \in DOMAIN t : t[i].id = x) \/ e.id = x)
      OBVIOUS
    <3>1. ASSUME NEW i \in DOMAIN s, s[i].id = x PROVE (\E j \in DOMAIN t : t[j].id = x) \/ e.id = x
      BY <2>2, <2>5, <3>1
    <3>2. ASSUME NEW i \in DOMAIN t, t[i].id = x PROVE \E j \in DOMAIN s : s[j].id = x
      BY <2>4, <3>2
    <3>3. e.id = x => \E j \in DOMAIN s : s[j].id = x
      BY <2>2
    <3> QED BY <3>1, <3>2, <3>3
  <2> QED BY <2>2, <2>3, <2>4, <2>5, <2>6
<1>8. feed = "on"
  <2>1. feed \notin {"none", "opening"}
    BY <1>1, <1>2 DEF Streamed
  <2>2. feed # "lost"
    <3> SUFFICES ASSUME feed = "lost" PROVE FALSE
      OBVIOUS
    <3>1. stream = <<Lost>>
      BY <1>1 DEF Streamed
    <3>2. Head(stream).kind = "invalidate"
      BY <3>1 DEF Lost
    <3> QED BY <1>2, <3>2
  <2> QED BY <1>3, <2>1, <2>2
<1>9. \A i \in DOMAIN s :
        /\ OfRow(s[i])
        /\ (\A j \in DOMAIN s : i < j => s[j].id # s[i].id) => Carried(s[i]) = rows[s[i].id]
  BY <1>1, <1>4, <1>8 DEF Streamed
<1>10. OfRow(e)
  BY <1>7, <1>9
<1>11. PICK id \in RowIds : id = e.id
  BY <1>10 DEF OfRow
<1>12. PICK value \in Nat : value = Carried(e)
  BY <1>7, EventParts DEF Carried
<1>13. e.kind \in {"added", "changed", "removed"}
  BY <1>7, <1>10, EventParts DEF OfRow
<1>14. PICK v : v = view'
  OBVIOUS
<1> DEFINE lost == /\ list.pc = "read" /\ list.page[id] # value
                   /\ list.more => list.page[id] # 0 /\ (value = 0 \/ v.remote[id] # value)
           wrong == lost \/ v.cache[id] \notin {0, value}
           uncounted == \/ e.kind = "added" /\ \E op \in ops : op.row = id
                        \/ e.kind = "changed" /\ view.cache[id] = 0
                        \/ e.kind = "removed" /\ view.cache[id] = 0 /\ id \notin view.deleting
<1>15. /\ v = CASE e.kind = "added" -> HandleAdd(view, id, value, 0)
                [] e.kind = "changed" -> HandleChange(view, id, value)
                [] e.kind = "removed" -> HandleRemove(view, id)
       /\ astray' = IF wrong THEN astray \cup {id} ELSE astray \ {id}
       /\ drifted' = (drifted \/ wrong \/ uncounted)
  BY <1>6, <1>11, <1>12, <1>14 DEF Deliver, Carried
<1>16. /\ e.kind = "added" => v = HandleAdd(view, id, value, 0)
       /\ e.kind = "changed" => v = HandleChange(view, id, value)
       /\ e.kind = "removed" => v = HandleRemove(view, id)
  BY <1>15
<1>17. /\ astray' = (IF wrong THEN astray \cup {id} ELSE astray \ {id})
       /\ drifted' = (drifted \/ wrong \/ uncounted)
  BY <1>15
<1> HIDE <1>15
<1>18. /\ v \in Views
       /\ v.optimistic = view.optimistic /\ v.mapped = view.mapped /\ v.cursor = view.cursor
       /\ \A k : k # id => (k \in v.deleting <=> k \in view.deleting)
       /\ id \in v.deleting => id \in view.deleting
       /\ e.kind # "removed" => v.deleting = view.deleting
       /\ \A k \in Entries : k # id => v.cache[k] = view.cache[k]
       /\ \A k \in RowIds : k # id => v.remote[k] = view.remote[k]
       /\ v.total = -1 <=> view.total = -1
       /\ e.kind = "added" =>
             \/ (id \in view.deleting \/ mode = "strict") /\ v = view
             \/ /\ id \notin view.deleting /\ v.cache[id] # 0
                /\ Adds(v, view, id)
       /\ e.kind = "changed" =>
             /\ v.total = view.total
             /\ \/ mode = "strict" /\ v.cache[id] = 0 /\ v.remote[id] = value
                \/ v.cache[id] = value
       /\ e.kind = "removed" =>
             v.cache[id] = 0 /\ Takes(v, view, id)
  BY <1>1, <1>7, <1>10, <1>11, <1>12, <1>16, HandledParts
<1>19. (e.kind # "removed" => value # 0) /\ (e.kind = "removed" => value = 0)
  BY <1>10, <1>12 DEF OfRow, Carried
<1>20. /\ \A x : Later(x) <=> Later(x)' \/ x = id
       /\ \A kind, x : Pending(kind, x)' <=> Pending(kind, x)
       /\ Reading' <=> Reading
  <2>1. /\ \A x : Later(x) <=> \E i \in DOMAIN s : s[i].id = x
        /\ \A x : Later(x)' <=> \E i \in DOMAIN t : t[i].id = x
    BY <1>4, <1>5 DEF Later
  <2>2. \A x : Later(x) <=> Later(x)' \/ x = id
    BY <1>7, <1>11, <2>1
  <2> QED BY <1>2, <2>2 DEF Pending, Reading
<1>21. Later(id)' \/ rows[id] = value
  <2> SUFFICES ASSUME ~ Later(id)' PROVE rows[id] = value
    OBVIOUS
  <2>1. \A i \in DOMAIN t : t[i].id # id
    BY <1>5 DEF Later
  <2>2. \A j \in DOMAIN s : 1 < j => s[j].id # id
    <3> SUFFICES ASSUME NEW j \in DOMAIN s, 1 < j PROVE s[j].id # id
      OBVIOUS
    <3>1. j # 1 /\ j - 1 \in DOMAIN t /\ t[j - 1] = s[j]
      BY <1>7
    <3> QED BY <2>1, <3>1
  <2> QED BY <1>7, <1>9, <1>11, <1>12, <2>2
<1>22. /\ \A x : x # id => (x \in astray' <=> x \in astray)
       /\ id \notin astray' => ~wrong
       /\ ~drifted' => ~drifted /\ ~wrong /\ ~uncounted
       /\ astray' \subseteq RowIds /\ drifted' \in BOOLEAN
  BY <1>3, <1>17
<1> HIDE DEF wrong, uncounted
<1>23. \A x : x # id /\ x \in RowIds => (Hidden(x)' <=> Hidden(x))
  <2> SUFFICES ASSUME NEW x \in RowIds, x # id PROVE Hidden(x)' <=> Hidden(x)
    OBVIOUS
  <2>1. view'.mapped = view.mapped /\ \A k : k # id => (k \in view'.deleting <=> k \in view.deleting)
    BY <1>14, <1>18
  <2>2. \A o \in Shadows : o # id
    BY Names
  <2> QED BY <2>1, <2>2 DEF Hidden
<1>24. StoreTyped'
  BY <1>1, <1>2, <1>5, <1>7, <1>14, <1>18, <1>22 DEF StoreTyped
<1>25. Streamed'
  <2>1. ASSUME NEW i \in DOMAIN t
        PROVE  /\ OfRow(t[i])
               /\ (\A j \in DOMAIN t : i < j => t[j].id # t[i].id) => Carried(t[i]) = rows[t[i].id]
    <3>1. i + 1 \in DOMAIN s /\ t[i] = s[i + 1] /\ i \in Nat /\ i # 0
      BY <1>7
    <3>2. SUFFICES ASSUME \A j \in DOMAIN t : i < j => t[j].id # t[i].id
                   PROVE  \A j \in DOMAIN s : i + 1 < j => s[j].id # s[i + 1].id
      BY <1>9, <3>1
    <3>3. SUFFICES ASSUME NEW j \in DOMAIN s, i + 1 < j PROVE s[j].id # s[i + 1].id
      OBVIOUS
    <3>4. j \in Nat /\ j # 1
      BY <1>7, <3>1, <3>3
    <3>5. j - 1 \in DOMAIN t /\ t[j - 1] = s[j] /\ i < j - 1
      BY <1>7, <3>1, <3>3, <3>4
    <3> QED BY <3>1, <3>2, <3>5
  <2> QED BY <1>2, <1>5, <1>8, <2>1 DEF Streamed
<1>26. Fresh'
  <2>1. ASSUME NEW x \in RowIds, count'["row"] < x PROVE FreshRow(x)'
    <3>1. FreshRow(x)
      BY <1>1, <1>2, <2>1 DEF Fresh
    <3>2. x # id /\ ~ Later(x)' /\ x \in Entries
      BY <1>20, <3>1, Names DEF FreshRow
    <3>3. view'.cache[x] = 0 /\ x \notin view'.deleting
      BY <1>14, <1>18, <3>1, <3>2 DEF FreshRow
    <3> QED BY <1>2, <3>1, <3>2, <3>3 DEF FreshRow
  <2>2. ASSUME NEW n \in 1..MaxCreates, count'["create"] < n PROVE FreshShadow(-n)'
    <3>1. FreshShadow(-n)
      BY <1>1, <1>2, <2>2 DEF Fresh
    <3>2. -n # id /\ -n \in Entries
      BY Names, ShadowNames
    <3>3. view'.cache[-n] = 0 /\ view'.mapped[-n] = 0 /\ -n \notin view'.deleting
      BY <1>14, <1>18, <3>1, <3>2 DEF FreshShadow
    <3> QED BY <1>2, <3>1, <3>3 DEF FreshShadow
  <2> QED BY <2>1, <2>2 DEF Fresh
<1>27. Called'
  BY <1>1, <1>2, <1>14, <1>18 DEF Called
<1>28. Standing'
  <2>1. \A o \in Shadows : /\ view'.cache[o] = view.cache[o] /\ view'.mapped[o] = view.mapped[o]
                           /\ o \in view'.optimistic <=> o \in view.optimistic
                           /\ o \in view'.deleting <=> o \in view.deleting
    BY <1>14, <1>18, Names
  <2> QED BY <1>1, <1>2, <1>20, <2>1 DEF Standing
<1>29. Begun'
  BY <1>1, <1>2, <1>14, <1>18 DEF Begun, Uncounted
<1>30. Cached'
  <2>1. SUFFICES ASSUME ~Reading, NEW x \in RowIds, x \notin astray', ~Later(x)' PROVE CacheTells(x)'
    BY <1>20 DEF Cached
  <2>2. CASE x # id
    <3>1. CacheTells(x)
      BY <1>1, <1>8, <1>20, <1>22, <2>1, <2>2 DEF Cached
    <3>2. view'.cache[x] = view.cache[x]
      BY <1>14, <1>18, <2>2, Names
    <3>3. (Hidden(x)' <=> Hidden(x)) /\ (Pending("update", x)' <=> Pending("update", x))
      BY <1>20, <1>23, <2>2
    <3> QED BY <1>2, <3>1, <3>2, <3>3 DEF CacheTells
  <2>3. CASE x = id
    <3>1. rows[id] = value /\ ~wrong
      BY <1>21, <1>22, <2>1, <2>3
    <3>2. v.cache[id] = 0 \/ v.cache[id] = value
      BY <3>1 DEF wrong
    <3>3. v.cache[id] = rows[id] \/ (v.cache[id] = 0 /\ (mode = "strict" \/ id \in v.deleting))
      BY <1>13, <1>18, <1>19, <3>1, <3>2
    <3>4. id \in v.deleting => Hidden(id)'
      BY <1>14 DEF Hidden
    <3> QED BY <1>2, <1>14, <2>3, <3>3, <3>4 DEF CacheTells
  <2> QED BY <2>2, <2>3
<1>31. Paged'
  <2>1. SUFFICES ASSUME NEW x \in RowIds, x \notin astray', ~Later(x)' PROVE PageTells(x)'
    BY DEF Paged
  <2>2. CASE x # id
    <3>1. PageTells(x)
      BY <1>1, <1>20, <1>22, <2>1, <2>2 DEF Paged
    <3>2. view'.remote[x] = view.remote[x]
      BY <1>14, <1>18, <2>2
    <3> QED BY <1>2, <1>20, <3>1, <3>2 DEF PageTells
  <2>3. CASE x = id
    <3>1. rows[id] = value /\ ~lost
      BY <1>21, <1>22, <2>1, <2>3 DEF wrong
    <3>2. Reading => list.page[id] = rows[id]
      BY <3>1 DEF Reading
    <3>3. list.pc = "read" /\ list.more /\ list.page[id] # 0 =>
             list.page[id] = rows[id] \/ (v.remote[id] = rows[id] /\ rows[id] # 0)
      BY <3>1
    <3> QED BY <1>2, <1>14, <1>20, <2>3, <3>2, <3>3 DEF PageTells
  <2> QED BY <2>2, <2>3
<1>32. Counted'
  <2>1. SUFFICES ASSUME Countable' PROVE Deleted' /\ PageCounted' /\ CacheCounted'
    BY DEF Counted
  <2>2. mode = "live" /\ mode # "strict" /\ ~drifted /\ ~wrong /\ ~uncounted
    BY <1>2, <1>22, <2>1 DEF Countable
  <2>3. Deleted /\ PageCounted /\ CacheCounted
    BY <1>1, <2>2 DEF Countable, Counted
  <2>4. Deleted'
    <3>1. view'.deleting \subseteq view.deleting
      BY <1>14, <1>18
    <3> QED BY <1>2, <1>20, <2>3, <3>1 DEF Deleted
  <2>5. PageCounted'
    <3>1. SUFFICES ASSUME Reading
                   PROVE  /\ list.total = Cardinality({x \in RowIds : list.page[x] # 0})
                          /\ \A x \in RowIds : ~Later(x)' => (list.page[x] # 0 <=> rows[x] # 0)
      BY <1>2, <1>20 DEF PageCounted
    <3>2. /\ list.total = Cardinality({x \in RowIds : list.page[x] # 0})
          /\ \A x \in RowIds : ~Later(x) => (list.page[x] # 0 <=> rows[x] # 0)
      BY <2>3, <3>1 DEF PageCounted
    <3>3. list.page[id] = value
      BY <2>2, <3>1 DEF wrong, Reading
    <3> QED BY <1>20, <1>21, <3>2, <3>3
  <2>6. CacheCounted'
    <3>1. SUFFICES ASSUME ~Reading
                   PROVE  /\ \A x \in RowIds : ~Later(x)' => RowCounted(x)'
                          /\ view'.total = Cardinality(Shown' \ failed')
                          /\ \A op \in ops' : op.row # 0 => view'.cache[op.row] = 0 /\ op.row \notin view'.deleting
      BY <1>20 DEF CacheCounted
    <3>2. /\ \A x \in RowIds : ~Later(x) => RowCounted(x)
          /\ view.total = Cardinality(Shown \ failed)
          /\ \A op \in ops : op.row # 0 => view.cache[op.row] = 0 /\ op.row \notin view.deleting
      BY <1>8, <2>3, <3>1 DEF CacheCounted
    <3>3. v.cache[id] = 0 \/ v.cache[id] = value
      BY <2>2 DEF wrong
    <3>4. ASSUME NEW x \in RowIds, ~Later(x)' PROVE RowCounted(x)'
      <4>1. CASE x # id
        <5>1. RowCounted(x) /\ view'.cache[x] = view.cache[x]
          BY <1>14, <1>18, <1>20, <3>2, <3>4, <4>1, Names
        <5> QED BY <1>2, <1>20, <5>1 DEF RowCounted
      <4>2. CASE x = id
        <5>1. rows[id] = value
          BY <1>21, <3>4, <4>2
        <5>2. CASE v.cache[id] = value
          BY <1>2, <1>14, <4>2, <5>1, <5>2 DEF RowCounted
        <5>3. CASE v.cache[id] = 0 /\ value # 0
          <6>1. e.kind = "added" /\ id \in view.deleting
            BY <1>13, <1>18, <1>19, <2>2, <5>3
          <6>2. Pending("delete", id)
            BY <2>3, <3>1, <5>1, <5>3, <6>1 DEF Deleted
          <6> QED BY <1>14, <1>20, <4>2, <5>3, <6>2 DEF RowCounted
        <5> QED BY <3>3, <5>2, <5>3
      <4> QED BY <4>1, <4>2
    <3>5. view'.total = Cardinality(Shown' \ failed')
      <4>1. id \in Entries /\ id \notin failed /\ \A j \in Entries : j # id => (view'.cache[j] # 0 <=> view.cache[j] # 0)
        <5>1. failed \subseteq Shadows
          BY <1>1, Parts
        <5> QED BY <1>14, <1>18, <5>1, Names
      <4>2. \E by \in {-1, 0, 1} :
              /\ by = 0 <=> (view.cache[id] # 0 <=> view'.cache[id] # 0)
              /\ by = 1 <=> view.cache[id] = 0 /\ view'.cache[id] # 0
              /\ view'.total = Bump(view.total, by)
        <5>1. view.total \in Nat \cup {-1} /\ view.total # -1
          BY <1>1, <1>3, <1>8, ViewParts DEF Begun, Uncounted
        <5>2. Bump(view.total, 0) = view.total
          BY <5>1, Bumped
        <5>3. CASE e.kind = "added" /\ v = view
          BY <1>14, <5>2, <5>3
        <5>4. CASE e.kind = "added" /\ v # view
          <6>1. v.cache[id] # 0 /\ Adds(v, view, id)
            BY <1>18, <5>4
          <6> QED BY <1>14, <6>1 DEF Adds
        <5>5. CASE e.kind = "changed"
          <6>1. view.cache[id] # 0 /\ v.cache[id] = value /\ value # 0 /\ v.total = view.total
            BY <1>18, <1>19, <2>2, <5>5 DEF uncounted
          <6> QED BY <1>14, <5>2, <6>1
        <5>6. CASE e.kind = "removed"
          <6>1. v.cache[id] = 0 /\ Takes(v, view, id)
            BY <1>18, <5>6
          <6> QED BY <1>14, <6>1 DEF Takes
        <5> QED BY <1>13, <5>3, <5>4, <5>5, <5>6
      <4>3. PICK by \in {-1, 0, 1} :
              /\ by = 0 <=> (view.cache[id] # 0 <=> view'.cache[id] # 0)
              /\ by = 1 <=> view.cache[id] = 0 /\ view'.cache[id] # 0
              /\ view'.total = Bump(view.total, by)
        BY <4>2
      <4> QED BY <1>2, <3>2, <4>1, <4>3, TotalStep
    <3>6. ASSUME NEW op \in ops, op.row # 0
          PROVE  view'.cache[op.row] = 0 /\ op.row \notin view'.deleting
      <4>1. view.cache[op.row] = 0 /\ op.row \notin view.deleting /\ op.row \in RowIds
        <5>1. op \in Ops
          BY <1>1, Parts
        <5> QED BY <3>2, <3>6, <5>1, OpParts
      <4>2. CASE op.row # id
        BY <1>14, <1>18, <4>1, <4>2, Names
      <4>3. CASE op.row = id
        <5>1. e.kind = "removed"
          BY <1>13, <2>2, <4>1, <4>3 DEF uncounted
        <5> QED BY <1>14, <1>18, <4>1, <4>3, <5>1
      <4> QED BY <4>2, <4>3
    <3> QED BY <1>2, <3>4, <3>5, <3>6
  <2> QED BY <2>4, <2>5, <2>6
<1> QED BY <1>24, <1>25, <1>26, <1>27, <1>28, <1>29, <1>30, <1>31, <1>32 DEF StoreInv

-----------------------------------------------------------------------------
(* The answer of a create *)

\* One optimistic row that was shown goes, and its row comes.
LEMMA ShownSwap ==
    ASSUME NEW a \in Entries, NEW b \in Entries, a # b, a \notin failed, b \notin failed, failed' = failed,
           \A j \in Entries : j # a /\ j # b => (view'.cache[j] # 0 <=> view.cache[j] # 0),
           view.cache[a] # 0, view'.cache[a] = 0, view.cache[b] = 0, view'.cache[b] # 0
    PROVE  Cardinality(Shown' \ failed') = Cardinality(Shown \ failed)
<1>1. PICK S : S = Shown \ failed
  OBVIOUS
<1>2. PICK T : T = Shown' \ failed'
  OBVIOUS
<1>3. IsFiniteSet(S) /\ Cardinality(S) \in Nat
  BY <1>1, ShownFinite, FS_CardinalityType
<1>4. /\ a \in S /\ b \notin S /\ a \notin T /\ b \in T
      /\ \A j \in Entries : j # a /\ j # b => (j \in T <=> j \in S)
      /\ S \subseteq Entries /\ T \subseteq Entries
  BY <1>1, <1>2 DEF Shown
<1>5. PICK R : R = S \ {a}
  OBVIOUS
<1>6. IsFiniteSet(R) /\ Cardinality(R) = Cardinality(S) - 1
  <2>1. Cardinality(R) = Cardinality(S) - 1
    BY <1>3, <1>4, <1>5, OneLess
  <2> QED BY <1>3, <1>5, <2>1, FS_Subset
<1>7. T = R \cup {b} /\ b \notin R
  BY <1>4, <1>5
<1>8. Cardinality(T) = Cardinality(R) + 1
  BY <1>6, <1>7, OneMore
<1> QED BY <1>1, <1>2, <1>3, <1>6, <1>8

LEMMA AnswerKeeps == ASSUME StoreInv, NEW op \in ops, Answer(op) PROVE StoreInv'
<1>1. StoreTyped /\ Streamed /\ Fresh /\ Called /\ Standing /\ Begun /\ Cached /\ Paged /\ Counted
  BY DEF StoreInv
<1>2. /\ mode' = mode /\ rows' = rows /\ stream' = stream /\ feed' = feed /\ list' = list /\ count' = count
      /\ op.row # 0 /\ ops' = ops \ {op}
      /\ failed' = IF op.row \in view.deleting THEN failed \cup {op.id} ELSE failed
  BY DEF Answer
<1>3. /\ feed \in {"none", "opening", "on", "lost"} /\ view \in Views /\ list \in Lists /\ ops \subseteq Ops
      /\ rows \in [RowIds -> Nat] /\ astray \subseteq RowIds /\ drifted \in BOOLEAN /\ mode \in StoreModes
      /\ failed \subseteq Shadows
  BY <1>1, Parts DEF Values
<1>4. op \in Ops /\ op.row \in RowIds /\ op.value \in Nat /\ op.value # 0 /\ op.kind = "create"
  BY <1>1, <1>2, <1>3, OpParts DEF Called
<1>5. PICK id \in RowIds : id = op.row
  BY <1>4
<1>6. PICK value \in Nat : value = op.value
  BY <1>4
<1>7. /\ op.id \in Shadows /\ view.mapped[op.id] = 0 /\ op.id \notin failed
      /\ \A other \in ops : other.kind = "create" /\ other.id = op.id => other = op
      /\ \A other \in ops : other.row = id => other = op
  BY <1>1, <1>2, <1>4, <1>5 DEF Called
<1>8. PICK o \in Shadows : o = op.id
  BY <1>7
<1>9. PICK v : v = view'
  OBVIOUS
<1> DEFINE wrong == \/ rows[id] # value /\ ~Later(id)
                    \/ v.cache[id] \notin {0, value}
<1>10. /\ v = HandleAdd(view, id, value, o)
       /\ astray' = IF wrong THEN astray \cup {id} ELSE astray
       /\ drifted' = (drifted \/ wrong)
  BY <1>5, <1>6, <1>8, <1>9 DEF Answer
<1>11. /\ v \in Views
       /\ v.remote = view.remote /\ v.cursor = view.cursor
       /\ id \in view.deleting => v = view
       /\ id \notin view.deleting =>
             /\ v.cache[id] # 0 /\ v.cache[o] = 0 /\ \A k \in Entries : k # id /\ k # o => v.cache[k] = view.cache[k]
             /\ v.optimistic = view.optimistic \ {o} /\ v.deleting = view.deleting \ {o}
             /\ \A s \in Shadows : s # o => v.mapped[s] = view.mapped[s]
             /\ v.mapped[o] \in {id, view.mapped[o]}
             /\ o \notin view.optimistic => Adds(v, view, id)
             /\ o \in view.optimistic => v.total = Bump(view.total, 0)
  <2>1. view.cache[o] = 0 <=> o \notin view.optimistic
    BY <1>1 DEF Standing
  <2>2. \A s \in Shadows : view.cache[s] # 0 => view.mapped[s] # id
    BY <1>1, Names DEF Standing
  <2>3. value # 0
    BY <1>4, <1>6
  <2> QED BY <1>3, <1>10, <2>1, <2>2, <2>3, AnsweredParts
<1>12. /\ \A x : Later(x)' <=> Later(x)
       /\ \A kind, x : kind # "create" => (Pending(kind, x)' <=> Pending(kind, x))
       /\ Reading' <=> Reading
  <2>1. \A kind, x : kind # "create" => (Pending(kind, x)' <=> Pending(kind, x))
    BY <1>2, <1>4 DEF Pending
  <2> QED BY <1>2, <2>1 DEF Later, Reading
<1>13. /\ \A x : x # id => (x \in astray' <=> x \in astray)
       /\ id \notin astray' => ~wrong
       /\ astray \subseteq astray'
       /\ ~drifted' => ~drifted /\ ~wrong
       /\ astray' \subseteq RowIds /\ drifted' \in BOOLEAN
  BY <1>3, <1>10
<1> HIDE DEF wrong
<1>14. id # o /\ id \in Entries /\ o \in Entries /\ o \notin RowIds /\ id \notin Shadows
  BY Names
<1>15. /\ \A k \in Entries : k # id /\ k # o => v.cache[k] = view.cache[k]
       /\ \A k \in Entries : k # o => (k \in v.deleting <=> k \in view.deleting)
       /\ \A s \in Shadows : s # o => v.mapped[s] = view.mapped[s]
       /\ \A s \in Shadows : s # o => (s \in v.optimistic <=> s \in view.optimistic)
       /\ v.deleting \subseteq view.deleting
       /\ v.mapped[o] \in {id, 0}
       /\ v.total = -1 <=> view.total = -1
  <2>1. view.mapped[o] = 0 /\ view.total \in Nat \cup {-1}
    BY <1>3, <1>7, <1>8, ViewParts
  <2>2. CASE id \in view.deleting
    BY <1>11, <2>1, <2>2
  <2>3. CASE id \notin view.deleting
    <3>1. v.total = -1 <=> view.total = -1
      BY <1>11, <2>1, <2>3, Bumped DEF Adds
    <3> QED BY <1>11, <2>1, <2>3, <3>1
  <2> QED BY <2>2, <2>3
<1>16. \A x \in RowIds : x # id => (Hidden(x)' <=> Hidden(x))
  <2> SUFFICES ASSUME NEW x \in RowIds, x # id PROVE Hidden(x)' <=> Hidden(x)
    OBVIOUS
  <2>1. x \in Entries /\ x # o /\ x # 0
    BY Names
  <2>2. view.mapped[o] = 0
    BY <1>7, <1>8
  <2>3. {s \in Shadows : view'.mapped[s] = x} = {s \in Shadows : view.mapped[s] = x}
    BY <1>9, <1>15, <2>1, <2>2
  <2>4. o \notin {s \in Shadows : view.mapped[s] = x}
    BY <2>1, <2>2
  <2>5. \A k \in {s \in Shadows : view.mapped[s] = x} \cup {x} : k \in view'.deleting <=> k \in view.deleting
    BY <1>9, <1>15, <2>1, <2>4, Names
  <2> QED BY <2>3, <2>5 DEF Hidden
<1>17. StoreTyped'
  <2>1. failed' \subseteq Shadows /\ ops' \subseteq Ops
    BY <1>2, <1>3, <1>7
  <2> QED BY <1>1, <1>2, <1>9, <1>11, <1>13, <2>1 DEF StoreTyped
<1>18. Streamed'
  BY <1>1, <1>2 DEF Streamed
<1>19. Fresh'
  <2>1. ASSUME NEW x \in RowIds, count'["row"] < x PROVE FreshRow(x)'
    <3>1. FreshRow(x)
      BY <1>1, <1>2, <2>1 DEF Fresh
    <3>2. x # id /\ x # o /\ x \in Entries
      BY <1>5, <3>1, Names DEF FreshRow
    <3>3. view'.cache[x] = 0 /\ x \notin view'.deleting
      BY <1>9, <1>15, <3>1, <3>2 DEF FreshRow
    <3> QED BY <1>2, <1>12, <3>1, <3>3 DEF FreshRow
  <2>2. ASSUME NEW n \in 1..MaxCreates, count'["create"] < n PROVE FreshShadow(-n)'
    <3>1. FreshShadow(-n)
      BY <1>1, <1>2, <2>2 DEF Fresh
    <3>2. -n # o /\ -n # id /\ -n \in Entries /\ -n \in Shadows
      BY <1>8, <3>1, Names, ShadowNames DEF FreshShadow
    <3>3. view'.cache[-n] = 0 /\ view'.mapped[-n] = 0 /\ -n \notin view'.deleting /\ -n \notin failed'
      BY <1>2, <1>8, <1>9, <1>15, <3>1, <3>2 DEF FreshShadow
    <3>4. \A other \in ops' : other.id # -n
      BY <1>2, <3>1 DEF FreshShadow
    <3> QED BY <3>3, <3>4 DEF FreshShadow
  <2> QED BY <2>1, <2>2 DEF Fresh
<1>20. Called'
  <2>1. ASSUME NEW a \in ops', a.kind = "create"
        PROVE  a.id \in Shadows /\ view'.mapped[a.id] = 0 /\ a.id \notin failed'
    <3>1. a \in ops /\ a # op
      BY <1>2
    <3>2. a.id \in Shadows /\ view.mapped[a.id] = 0 /\ a.id \notin failed /\ a.id # o
      BY <1>1, <1>7, <1>8, <2>1, <3>1 DEF Called
    <3> QED BY <1>2, <1>8, <1>9, <1>15, <3>2
  <2> QED BY <1>1, <1>2, <2>1 DEF Called
<1>21. Standing'
  <2> SUFFICES ASSUME NEW s \in Shadows
               PROVE  /\ s \in view'.optimistic <=> view'.cache[s] # 0
                      /\ s \in view'.optimistic => s \notin view'.deleting /\ view'.mapped[s] = 0
                      /\ s \in view'.optimistic => s \in failed' \/ Pending("create", s)'
    BY DEF Standing
  <2>1. /\ s \in view.optimistic <=> view.cache[s] # 0
        /\ s \in view.optimistic => s \notin view.deleting /\ view.mapped[s] = 0
        /\ s \in view.optimistic => s \in failed \/ Pending("create", s)
    BY <1>1 DEF Standing
  <2>2. CASE s # o
    <3>1. /\ view'.cache[s] = view.cache[s] /\ view'.mapped[s] = view.mapped[s]
          /\ s \in view'.optimistic <=> s \in view.optimistic
          /\ s \in view'.deleting <=> s \in view.deleting
      BY <1>9, <1>14, <1>15, <2>2, Names
    <3>2. Pending("create", s)' <=> Pending("create", s)
      BY <1>2, <1>8, <2>2, PendingLess
    <3> QED BY <1>2, <2>1, <3>1, <3>2
  <2>3. CASE s = o
    <3>1. CASE id \in view.deleting
      <4>1. view' = view /\ o \in failed'
        BY <1>2, <1>5, <1>8, <1>9, <1>11, <3>1
      <4> QED BY <2>1, <2>3, <4>1
    <3>2. CASE id \notin view.deleting
      BY <1>9, <1>11, <2>3, <3>2
    <3> QED BY <3>1, <3>2
  <2> QED BY <2>2, <2>3
<1>22. Begun'
  BY <1>1, <1>2, <1>9, <1>11, <1>15 DEF Begun, Uncounted
<1>23. Cached'
  <2>1. SUFFICES ASSUME feed # "none", ~Reading, NEW x \in RowIds, x \notin astray', ~Later(x) PROVE CacheTells(x)'
    BY <1>2, <1>12 DEF Cached
  <2>2. CASE x # id
    <3>1. CacheTells(x)
      BY <1>1, <1>13, <2>1, <2>2 DEF Cached
    <3>2. view'.cache[x] = view.cache[x]
      BY <1>9, <1>14, <1>15, <2>2, Names
    <3>3. (Hidden(x)' <=> Hidden(x)) /\ (Pending("update", x)' <=> Pending("update", x))
      BY <1>12, <1>16, <2>2
    <3> QED BY <1>2, <3>1, <3>2, <3>3 DEF CacheTells
  <2>3. CASE x = id
    <3>1. rows[id] = value /\ (v.cache[id] = 0 \/ v.cache[id] = value)
      BY <1>13, <2>1, <2>3 DEF wrong
    <3>2. v.cache[id] = 0 => id \in view.deleting /\ v = view
      BY <1>11
    <3>3. id \in view.deleting /\ v = view => Hidden(id)'
      BY <1>9 DEF Hidden
    <3> QED BY <1>2, <1>9, <2>3, <3>1, <3>2, <3>3 DEF CacheTells
  <2> QED BY <2>2, <2>3
<1>24. Paged'
  <2>1. SUFFICES ASSUME NEW x \in RowIds, x \notin astray', ~Later(x) PROVE PageTells(x)'
    BY <1>12 DEF Paged
  <2>2. PageTells(x)
    BY <1>1, <1>13, <2>1 DEF Paged
  <2> QED BY <1>2, <1>9, <1>11, <1>12, <2>2 DEF PageTells
<1>25. Counted'
  <2>1. SUFFICES ASSUME Countable' PROVE Deleted' /\ PageCounted' /\ CacheCounted'
    BY DEF Counted
  <2>2. mode = "live" /\ ~drifted /\ ~wrong
    BY <1>2, <1>13, <2>1 DEF Countable
  <2>3. Deleted /\ PageCounted /\ CacheCounted
    BY <1>1, <2>2 DEF Countable, Counted
  <2>4. Deleted'
    <3>1. \A x : Pending("delete", x)' <=> Pending("delete", x)
      BY <1>12
    <3> QED BY <1>2, <1>9, <1>12, <1>15, <2>3, <3>1 DEF Deleted
  <2>5. PageCounted'
    BY <1>2, <1>12, <2>3 DEF PageCounted
  <2>6. CacheCounted'
    <3>1. SUFFICES ASSUME ~Reading, feed # "none"
                   PROVE  /\ \A x \in RowIds : ~Later(x) => RowCounted(x)'
                          /\ view'.total = Cardinality(Shown' \ failed')
                          /\ \A a \in ops' : a.row # 0 => view'.cache[a.row] = 0 /\ a.row \notin view'.deleting
      BY <1>2, <1>12 DEF CacheCounted
    <3>2. /\ \A x \in RowIds : ~Later(x) => RowCounted(x)
          /\ view.total = Cardinality(Shown \ failed)
          /\ \A a \in ops : a.row # 0 => view.cache[a.row] = 0 /\ a.row \notin view.deleting
      BY <2>3, <3>1 DEF CacheCounted
    <3>3. view.cache[id] = 0 /\ id \notin view.deleting
      BY <1>2, <1>5, <3>2
    <3>4. v.cache[id] # 0 /\ v.cache[o] = 0 /\ failed' = failed
      BY <1>2, <1>5, <1>11, <3>3
    <3>5. ASSUME NEW x \in RowIds, ~Later(x) PROVE RowCounted(x)'
      <4>1. CASE x # id
        <5>1. RowCounted(x) /\ view'.cache[x] = view.cache[x]
          BY <1>9, <1>14, <1>15, <3>2, <3>5, <4>1, Names
        <5>2. Pending("delete", x)' <=> Pending("delete", x)
          BY <1>12
        <5> QED BY <1>2, <5>1, <5>2 DEF RowCounted
      <4>2. CASE x = id
        <5>1. rows[id] = value /\ value # 0
          BY <1>4, <1>6, <2>2, <3>5, <4>2 DEF wrong
        <5> QED BY <1>2, <1>9, <3>4, <4>2, <5>1 DEF RowCounted
      <4> QED BY <4>1, <4>2
    <3>6. view'.total = Cardinality(Shown' \ failed')
      <4>1. id \notin failed /\ o \notin failed
        BY <1>3, <1>7, <1>8, <1>14
      <4>2. view.total \in Nat /\ Bump(view.total, 0) = view.total
        <5>1. view.total \in Nat
          BY <1>1, <1>3, <3>1, ViewParts DEF Begun, Uncounted
        <5> QED BY <5>1, Bumped
      <4>3. view.cache[o] # 0 <=> o \in view.optimistic
        BY <1>1 DEF Standing
      <4>4. CASE o \in view.optimistic
        <5>1. Cardinality(Shown' \ failed') = Cardinality(Shown \ failed)
          BY <1>9, <1>14, <1>15, <3>3, <3>4, <4>1, <4>3, <4>4, ShownSwap
        <5>2. v.total = view.total
          BY <1>11, <3>3, <4>2, <4>4
        <5> QED BY <1>9, <3>2, <5>1, <5>2
      <4>5. CASE o \notin view.optimistic
        <5>1. Adds(v, view, id)
          BY <1>11, <3>3, <4>5
        <5>2. view'.total = Bump(view.total, 1)
          BY <1>9, <3>3, <5>1 DEF Adds
        <5>3. \A j \in Entries : j # id => (view'.cache[j] # 0 <=> view.cache[j] # 0)
          BY <1>9, <1>15, <3>4, <4>3, <4>5
        <5>4. view.cache[id] = 0 /\ view'.cache[id] # 0
          BY <1>9, <3>3, <3>4
        <5>5. PICK by \in {-1, 0, 1} : by = 1
          OBVIOUS
        <5>6. /\ by = 0 <=> (view.cache[id] # 0 <=> view'.cache[id] # 0)
              /\ by = 1 <=> view.cache[id] = 0 /\ view'.cache[id] # 0
              /\ view'.total = Bump(view.total, by)
          BY <5>2, <5>4, <5>5
        <5>7. id \in Entries /\ id \notin failed /\ failed' = failed /\ view.total = Cardinality(Shown \ failed)
          BY <1>14, <3>2, <3>4, <4>1
        <5> QED BY <5>3, <5>6, <5>7, TotalStep
      <4> QED BY <4>4, <4>5
    <3>7. ASSUME NEW a \in ops', a.row # 0 PROVE view'.cache[a.row] = 0 /\ a.row \notin view'.deleting
      <4>1. a \in ops /\ a # op /\ a.row # id
        BY <1>2, <1>7
      <4>2. a.row \in RowIds
        BY <1>3, <3>7, <4>1, OpParts
      <4>3. view.cache[a.row] = 0 /\ a.row \notin view.deleting
        BY <3>2, <3>7, <4>1
      <4>4. a.row \in Entries /\ a.row # o
        BY <4>2, Names
      <4> QED BY <1>9, <1>15, <4>1, <4>3, <4>4
    <3> QED BY <3>5, <3>6, <3>7
  <2> QED BY <2>4, <2>5, <2>6
<1> QED BY <1>17, <1>18, <1>19, <1>20, <1>21, <1>22, <1>23, <1>24, <1>25 DEF StoreInv

-----------------------------------------------------------------------------
(* What the application does *)

\* A mutation that sets out keeps those that are under way.
LEMMA Submitted ==
    ASSUME StoreTyped, NEW kind \in {"create", "update", "delete"}, NEW key \in Entries, Submit(kind, key)
    PROVE  \E new \in Ops : /\ ops' = ops \cup {new} /\ ops' \subseteq Ops
                            /\ new.kind = kind /\ new.id = key /\ new.row = 0
                            /\ \A k, x : Pending(k, x)' <=> Pending(k, x) \/ (k = kind /\ x = key)
<1>1. PICK nv : nv = NewValue
  OBVIOUS
<1>2. nv \in Nat /\ nv # 0
  BY <1>1, NewValues
<1>3. PICK new : new = [kind |-> kind, id |-> key, value |-> nv, row |-> 0]
  OBVIOUS
<1>4. new \in Ops /\ new.kind = kind /\ new.id = key /\ new.row = 0
  BY <1>2, <1>3 DEF Ops, Values
<1>5. ops' = ops \cup {new}
  BY <1>1, <1>3 DEF Submit
<1>6. ops' \subseteq Ops
  BY <1>4, <1>5, Parts
<1>7. \A k, x : Pending(k, x)' <=> Pending(k, x) \/ (k = kind /\ x = key)
  <2> SUFFICES ASSUME NEW k, NEW x PROVE Pending(k, x)' <=> Pending(k, x) \/ (k = kind /\ x = key)
    OBVIOUS
  <2>1. (\E a \in ops' : a.kind = k /\ a.id = x) <=> ((\E a \in ops : a.kind = k /\ a.id = x) \/ (k = kind /\ x = key))
    BY <1>4, <1>5
  <2> QED BY <2>1 DEF Pending
<1> QED BY <1>4, <1>5, <1>6, <1>7

\* Rows that were not given out, and optimistic ids but the one that is given now,
\* are not touched by what the application does to a row it knows.
LEMMA FreshMutated ==
    ASSUME StoreInv, NEW key \in Entries, UNCHANGED <<rows, stream, list, failed>>,
           count'["row"] = count["row"], count["create"] \in Nat, count'["create"] \in Nat,
           count["create"] <= count'["create"],
           \/ \E n \in 1..MaxCreates : key = -n /\ n <= count'["create"]
           \/ Addressed(key),
           \A k \in Entries : k # key => view'.cache[k] = view.cache[k],
           \A k \in Entries : k # key => (k \in view'.deleting <=> k \in view.deleting),
           view'.mapped = view.mapped,
           \A op \in ops' : op \in ops \/ (op.id = key /\ op.row = 0)
    PROVE  Fresh'
<1>1. Fresh
  BY DEF StoreInv
<1>2. \A x : Later(x)' <=> Later(x)
  BY DEF Later
<1>3. ASSUME NEW x \in RowIds, count'["row"] < x PROVE FreshRow(x)'
  <2>1. FreshRow(x)
    BY <1>1, <1>3 DEF Fresh
  <2>2. x # key
    <3>1. CASE \E n \in 1..MaxCreates : key = -n
      BY <3>1, Names, ShadowNames
    <3>2. CASE Addressed(key)
      BY <2>1, <3>2, Names DEF Addressed, FreshRow
    <3> QED BY <3>1, <3>2
  <2>3. view'.cache[x] = 0 /\ x \notin view'.deleting
    BY <2>1, <2>2, Names DEF FreshRow
  <2>4. \A op \in ops' : op.row # x
    BY <2>1, Names DEF FreshRow
  <2> QED BY <1>2, <2>1, <2>3, <2>4 DEF FreshRow
<1>4. ASSUME NEW n \in 1..MaxCreates, count'["create"] < n PROVE FreshShadow(-n)'
  <2>1. FreshShadow(-n)
    BY <1>1, <1>4 DEF Fresh
  <2>2. -n # key
    <3>1. CASE \E m \in 1..MaxCreates : key = -m /\ m <= count'["create"]
      <4>1. PICK m \in 1..MaxCreates : key = -m /\ m <= count'["create"]
        BY <3>1
      <4>2. m < n /\ m \in Int /\ n \in Int
        BY <1>4, <4>1, LiveStoreAssumption
      <4> QED BY <4>1, <4>2
    <3>2. CASE Addressed(key)
      <4>1. -n \in Shadows
        BY ShadowNames
      <4> QED BY <2>1, <3>2 DEF Addressed, FreshShadow
    <3> QED BY <3>1, <3>2
  <2>3. -n \in Entries
    BY ShadowNames
  <2>4. \A op \in ops' : op.id # -n
    BY <2>1, <2>2 DEF FreshShadow
  <2> QED BY <2>1, <2>2, <2>3, <2>4 DEF FreshShadow
<1> QED BY <1>3, <1>4 DEF Fresh

LEMMA MutateCreateKeeps == ASSUME StoreInv, MutateCreate PROVE StoreInv'
<1>1. StoreTyped /\ Streamed /\ Fresh /\ Called /\ Standing /\ Begun /\ Cached /\ Paged /\ Counted
  BY DEF StoreInv
<1>2. PICK key : key = -(count["create"] + 1)
  OBVIOUS
<1>3. /\ mode' = mode /\ rows' = rows /\ stream' = stream /\ feed' = feed /\ list' = list
      /\ astray' = astray /\ drifted' = drifted /\ failed' = failed
      /\ May("create") /\ Counting({"create", "value"}) /\ Submit("create", key)
      /\ view' = [view EXCEPT !.optimistic = @ \cup {key}, !.cache[key] = NewValue, !.total = Bump(@, 1)]
  BY <1>2 DEF MutateCreate
<1>4. /\ view \in Views /\ ops \subseteq Ops /\ count \in [Steps -> Nat] /\ failed \subseteq Shadows
      /\ feed \in {"none", "opening", "on", "lost"}
  BY <1>1, Parts
<1>5. /\ count' \in [Steps -> Nat]
      /\ \A s \in Steps : count'[s] = IF s \in {"create", "value"} THEN count[s] + 1 ELSE count[s]
      /\ {"row", "create", "value"} \subseteq Steps
  BY <1>1, <1>3, Counts
<1>6. /\ count["create"] \in Nat /\ count'["create"] \in Nat /\ count'["create"] = count["create"] + 1
      /\ count'["row"] = count["row"]
  BY <1>4, <1>5
<1>7. PICK n \in 1..MaxCreates : key = -n /\ count["create"] < n /\ n <= count'["create"]
  <2>1. count["create"] < MaxCreates /\ MaxCreates \in Nat
    BY <1>3, LiveStoreAssumption DEF May, Bounds
  <2>2. count["create"] + 1 \in 1..MaxCreates
    BY <1>6, <2>1
  <2> QED BY <1>2, <1>6, <2>2
<1>8. key \in Shadows /\ key \in Entries /\ FreshShadow(key) /\ key # 0 /\ key \notin RowIds
  BY <1>1, <1>7, Names, ShadowNames DEF Fresh
<1>9. view.cache[key] = 0 /\ view.mapped[key] = 0 /\ key \notin view.deleting /\ key \notin failed /\ \A op \in ops : op.id # key
  BY <1>8 DEF FreshShadow
<1>10. PICK v : v = view'
  OBVIOUS
<1>11. /\ v \in Views /\ v.optimistic = view.optimistic \cup {key} /\ v.cache[key] # 0
       /\ \A k \in Entries : k # key => v.cache[k] = view.cache[k]
       /\ v.total = Bump(view.total, 1) /\ v.deleting = view.deleting /\ v.updating = view.updating
       /\ v.remote = view.remote /\ v.mapped = view.mapped /\ v.cursor = view.cursor
  <2>1. PICK nv : nv = NewValue
    OBVIOUS
  <2>2. nv \in Nat /\ nv # 0
    BY <1>1, <2>1, NewValues
  <2>3. view.cache \in [Entries -> Nat] /\ view.total \in Nat \cup {-1} /\ view.optimistic \subseteq Shadows
    BY <1>4, ViewParts
  <2>4. PICK c : c = [view.cache EXCEPT ![key] = nv]
    OBVIOUS
  <2>5. c \in [Entries -> Nat] /\ c[key] = nv /\ \A k \in Entries : k # key => c[k] = view.cache[k]
    BY <1>8, <2>2, <2>3, <2>4
  <2>6. PICK tot : tot = Bump(view.total, 1)
    OBVIOUS
  <2>7. tot \in Nat \cup {-1}
    BY <2>3, <2>6, Bumped
  <2>8. PICK p : p = view.optimistic \cup {key}
    OBVIOUS
  <2>9. p \subseteq Shadows
    BY <1>8, <2>3, <2>8
  <2>10. v = [view EXCEPT !.optimistic = p, !.cache[key] = nv, !.total = tot]
    BY <1>3, <1>10, <2>1, <2>6, <2>8
  <2>11. v = [view EXCEPT !.optimistic = p, !.cache = c, !.total = tot]
    BY <1>4, <2>4, <2>10 DEF Views
  <2>12. /\ v \in Views /\ v.optimistic = p /\ v.cache = c /\ v.total = tot
         /\ v.deleting = view.deleting /\ v.updating = view.updating
         /\ v.remote = view.remote /\ v.mapped = view.mapped /\ v.cursor = view.cursor
    BY <1>4, <2>5, <2>7, <2>9, <2>11 DEF Views, Values, Uncounted
  <2> QED BY <2>2, <2>5, <2>6, <2>8, <2>12
<1>12. PICK new \in Ops : /\ ops' = ops \cup {new} /\ ops' \subseteq Ops
                          /\ new.kind = "create" /\ new.id = key /\ new.row = 0
                          /\ \A k, x : Pending(k, x)' <=> Pending(k, x) \/ (k = "create" /\ x = key)
  BY <1>1, <1>3, <1>8, Submitted
<1>13. /\ \A x : Later(x)' <=> Later(x)
       /\ \A x : Hidden(x)' <=> Hidden(x)
       /\ Reading' <=> Reading
       /\ \A x : Pending("update", x)' <=> Pending("update", x)
       /\ \A x : Pending("delete", x)' <=> Pending("delete", x)
  <2>1. /\ \A x : Pending("update", x)' <=> Pending("update", x)
        /\ \A x : Pending("delete", x)' <=> Pending("delete", x)
    BY <1>12
  <2> QED BY <1>3, <1>10, <1>11, <2>1 DEF Later, Hidden, Reading
<1>14. \A x \in RowIds : view'.cache[x] = view.cache[x]
  BY <1>8, <1>10, <1>11, Names
<1>15. StoreTyped'
  BY <1>1, <1>3, <1>5, <1>10, <1>11, <1>12 DEF StoreTyped
<1>16. Streamed'
  BY <1>1, <1>3 DEF Streamed
<1>17. Fresh'
  <2>1. \A op \in ops' : op \in ops \/ (op.id = key /\ op.row = 0)
    BY <1>12
  <2>2. \E m \in 1..MaxCreates : key = -m /\ m <= count'["create"]
    BY <1>7
  <2>3. count["create"] <= count'["create"]
    BY <1>6
  <2>4. /\ \A k \in Entries : k # key => view'.cache[k] = view.cache[k]
        /\ \A k \in Entries : k # key => (k \in view'.deleting <=> k \in view.deleting)
        /\ view'.mapped = view.mapped
    BY <1>10, <1>11
  <2> QED BY <1>3, <1>6, <1>8, <2>1, <2>2, <2>3, <2>4, FreshMutated
<1>18. Called'
  <2>1. ASSUME NEW a \in ops', a.kind = "create"
        PROVE  /\ a.id \in Shadows /\ view.mapped[a.id] = 0 /\ a.id \notin failed
               /\ \A other \in ops' : other.kind = "create" /\ other.id = a.id => other = a
               /\ \A other \in ops' : a.row # 0 /\ other.row = a.row => other = a
    <3>1. CASE a = new
      BY <1>8, <1>9, <1>12, <3>1
    <3>2. CASE a # new
      BY <1>1, <1>9, <1>12, <2>1, <3>2 DEF Called
    <3> QED BY <3>1, <3>2
  <2>2. \A op \in ops' : op.kind # "create" => op.row = 0
    BY <1>1, <1>12 DEF Called
  <2> QED BY <1>3, <1>10, <1>11, <2>1, <2>2 DEF Called
<1>19. Standing'
  <2> SUFFICES ASSUME NEW s \in Shadows
               PROVE  /\ s \in view'.optimistic <=> view'.cache[s] # 0
                      /\ s \in view'.optimistic => s \notin view'.deleting /\ view'.mapped[s] = 0
                      /\ s \in view'.optimistic => s \in failed' \/ Pending("create", s)'
    BY DEF Standing
  <2>1. CASE s = key
    BY <1>9, <1>10, <1>11, <1>12, <2>1
  <2>2. CASE s # key
    <3>1. /\ s \in view.optimistic <=> view.cache[s] # 0
          /\ s \in view.optimistic => s \notin view.deleting /\ view.mapped[s] = 0
          /\ s \in view.optimistic => s \in failed \/ Pending("create", s)
      BY <1>1 DEF Standing
    <3> QED BY <1>3, <1>10, <1>11, <1>12, <2>2, <3>1, Names
  <2> QED BY <2>1, <2>2
<1>20. view'.total = -1 <=> view.total = -1
  <2>1. view.total \in Nat \cup {-1}
    BY <1>4, ViewParts
  <2> QED BY <1>10, <1>11, <2>1, Bumped
<1>21. Begun'
  BY <1>1, <1>3, <1>10, <1>11, <1>20 DEF Begun, Uncounted
<1>22. Cached'
  BY <1>1, <1>3, <1>13, <1>14 DEF Cached, CacheTells
<1>23. Paged'
  <2>1. view'.remote = view.remote
    BY <1>10, <1>11
  <2> QED BY <1>1, <1>3, <1>13, <2>1 DEF Paged, PageTells
<1>24. Counted'
  <2>1. SUFFICES ASSUME Countable' PROVE Deleted' /\ PageCounted' /\ CacheCounted'
    BY DEF Counted
  <2>2. Deleted /\ PageCounted /\ CacheCounted
    BY <1>1, <1>3, <2>1 DEF Countable, Counted
  <2>3. Deleted'
    BY <1>3, <1>10, <1>11, <1>13, <2>2 DEF Deleted
  <2>4. PageCounted'
    BY <1>3, <1>13, <2>2 DEF PageCounted
  <2>5. CacheCounted'
    <3>1. SUFFICES ASSUME ~Reading, feed # "none"
                   PROVE  /\ \A x \in RowIds : ~Later(x) => RowCounted(x)'
                          /\ view'.total = Cardinality(Shown' \ failed')
                          /\ \A a \in ops' : a.row # 0 => view'.cache[a.row] = 0 /\ a.row \notin view'.deleting
      BY <1>3, <1>13 DEF CacheCounted
    <3>2. /\ \A x \in RowIds : ~Later(x) => RowCounted(x)
          /\ view.total = Cardinality(Shown \ failed)
          /\ \A a \in ops : a.row # 0 => view.cache[a.row] = 0 /\ a.row \notin view.deleting
      BY <2>2, <3>1 DEF CacheCounted
    <3>3. \A x \in RowIds : ~Later(x) => RowCounted(x)'
      BY <1>3, <1>13, <1>14, <3>2 DEF RowCounted
    <3>4. view'.total = Cardinality(Shown' \ failed')
      <4>1. PICK by \in {-1, 0, 1} : by = 1
        OBVIOUS
      <4>2. /\ by = 0 <=> (view.cache[key] # 0 <=> view'.cache[key] # 0)
            /\ by = 1 <=> view.cache[key] = 0 /\ view'.cache[key] # 0
            /\ view'.total = Bump(view.total, by)
        BY <1>9, <1>10, <1>11, <4>1
      <4>3. \A j \in Entries : j # key => (view'.cache[j] # 0 <=> view.cache[j] # 0)
        BY <1>10, <1>11
      <4> QED BY <1>3, <1>8, <1>9, <3>2, <4>2, <4>3, TotalStep
    <3>5. \A a \in ops' : a.row # 0 => view'.cache[a.row] = 0 /\ a.row \notin view'.deleting
      <4> SUFFICES ASSUME NEW a \in ops', a.row # 0 PROVE view'.cache[a.row] = 0 /\ a.row \notin view'.deleting
        OBVIOUS
      <4>1. a \in ops /\ a.row \in RowIds
        BY <1>4, <1>12, OpParts
      <4> QED BY <1>10, <1>11, <1>14, <3>2, <4>1
    <3> QED BY <3>3, <3>4, <3>5
  <2> QED BY <2>3, <2>4, <2>5
<1> QED BY <1>15, <1>16, <1>17, <1>18, <1>19, <1>21, <1>22, <1>23, <1>24 DEF StoreInv

\* An update or a delete that sets out leaves the creates as they are.
LEMMA CalledMore ==
    ASSUME Called, NEW new, new.kind # "create", new.row = 0, ops' = ops \cup {new}, view'.mapped = view.mapped, failed' = failed
    PROVE  Called'
<1>1. \A a \in ops' : a.kind # "create" => a.row = 0
  BY DEF Called
<1>2. ASSUME NEW a \in ops', a.kind = "create"
      PROVE  /\ a.id \in Shadows /\ view.mapped[a.id] = 0 /\ a.id \notin failed
             /\ \A other \in ops' : other.kind = "create" /\ other.id = a.id => other = a
             /\ \A other \in ops' : a.row # 0 /\ other.row = a.row => other = a
  <2>1. a \in ops
    BY <1>2
  <2> QED BY <1>2, <2>1 DEF Called
<1> QED BY <1>1, <1>2 DEF Called

LEMMA MutateUpdateKeeps == ASSUME StoreInv, NEW key \in Entries, MutateUpdate(key) PROVE StoreInv'
<1>1. StoreTyped /\ Streamed /\ Fresh /\ Called /\ Standing /\ Begun /\ Cached /\ Paged /\ Counted
  BY DEF StoreInv
<1>2. /\ mode' = mode /\ rows' = rows /\ stream' = stream /\ feed' = feed /\ list' = list
      /\ astray' = astray /\ drifted' = drifted /\ failed' = failed
      /\ Addressed(key) /\ Counting({"mutation", "value"}) /\ Submit("update", key)
      /\ view' = [view EXCEPT !.cache[key] = IF @ = 0 THEN 0 ELSE NewValue, !.updating[key] = NewValue]
  BY DEF MutateUpdate
<1>3. view \in Views /\ ops \subseteq Ops /\ count \in [Steps -> Nat]
  BY <1>1, Parts
<1>4. /\ count' \in [Steps -> Nat]
      /\ \A s \in Steps : count'[s] = IF s \in {"mutation", "value"} THEN count[s] + 1 ELSE count[s]
      /\ {"row", "create", "value"} \subseteq Steps
  BY <1>1, <1>2, Counts
<1>5. /\ count["create"] \in Nat /\ count'["create"] = count["create"] /\ count'["row"] = count["row"]
  BY <1>3, <1>4
<1>6. PICK v : v = view'
  OBVIOUS
<1>7. /\ v \in Views /\ v.optimistic = view.optimistic /\ (v.cache[key] = 0 <=> view.cache[key] = 0)
      /\ \A k \in Entries : k # key => v.cache[k] = view.cache[k]
      /\ v.total = view.total /\ v.deleting = view.deleting
      /\ v.remote = view.remote /\ v.mapped = view.mapped /\ v.cursor = view.cursor
  <2>1. PICK nv : nv = NewValue
    OBVIOUS
  <2>2. nv \in Nat /\ nv # 0
    BY <1>1, <2>1, NewValues
  <2>3. view.cache \in [Entries -> Nat] /\ view.updating \in [Entries -> Nat]
    BY <1>3, ViewParts
  <2>4. PICK x : x = IF view.cache[key] = 0 THEN 0 ELSE nv
    OBVIOUS
  <2>5. x \in Nat /\ (x = 0 <=> view.cache[key] = 0)
    BY <2>2, <2>4
  <2>6. PICK c : c = [view.cache EXCEPT ![key] = x]
    OBVIOUS
  <2>7. c \in [Entries -> Nat] /\ c[key] = x /\ \A k \in Entries : k # key => c[k] = view.cache[k]
    BY <2>3, <2>5, <2>6
  <2>8. PICK u : u = [view.updating EXCEPT ![key] = nv]
    OBVIOUS
  <2>9. u \in [Entries -> Nat]
    BY <2>2, <2>3, <2>8
  <2>10. v = [view EXCEPT !.cache[key] = x, !.updating[key] = nv]
    BY <1>2, <1>6, <2>1, <2>4
  <2>11. v = [view EXCEPT !.cache = c, !.updating = u]
    BY <1>3, <2>6, <2>8, <2>10 DEF Views
  <2>12. /\ v \in Views /\ v.optimistic = view.optimistic /\ v.cache = c /\ v.total = view.total
         /\ v.deleting = view.deleting
         /\ v.remote = view.remote /\ v.mapped = view.mapped /\ v.cursor = view.cursor
    BY <1>3, <2>7, <2>9, <2>11 DEF Views, Values, Uncounted
  <2> QED BY <2>5, <2>7, <2>12
<1>8. PICK new \in Ops : /\ ops' = ops \cup {new} /\ ops' \subseteq Ops
                         /\ new.kind = "update" /\ new.id = key /\ new.row = 0
                         /\ \A k, x : Pending(k, x)' <=> Pending(k, x) \/ (k = "update" /\ x = key)
  BY <1>1, <1>2, Submitted
<1>9. /\ \A x : Later(x)' <=> Later(x)
      /\ \A x : Hidden(x)' <=> Hidden(x)
      /\ Reading' <=> Reading
      /\ \A x : Pending("update", x) => Pending("update", x)'
      /\ Pending("update", key)'
      /\ \A x : Pending("create", x)' <=> Pending("create", x)
      /\ \A x : Pending("delete", x)' <=> Pending("delete", x)
  <2>1. /\ \A x : Pending("update", x) => Pending("update", x)'
        /\ Pending("update", key)'
        /\ \A x : Pending("create", x)' <=> Pending("create", x)
        /\ \A x : Pending("delete", x)' <=> Pending("delete", x)
    BY <1>8
  <2> QED BY <1>2, <1>6, <1>7, <2>1 DEF Later, Hidden, Reading
<1>10. \A k \in Entries : view'.cache[k] = 0 <=> view.cache[k] = 0
  BY <1>6, <1>7
<1>11. StoreTyped'
  BY <1>1, <1>2, <1>4, <1>6, <1>7, <1>8 DEF StoreTyped
<1>12. Streamed'
  BY <1>1, <1>2 DEF Streamed
<1>13. Fresh'
  <2>1. \A op \in ops' : op \in ops \/ (op.id = key /\ op.row = 0)
    BY <1>8
  <2>2. /\ \A k \in Entries : k # key => view'.cache[k] = view.cache[k]
        /\ \A k \in Entries : k # key => (k \in view'.deleting <=> k \in view.deleting)
        /\ view'.mapped = view.mapped
    BY <1>6, <1>7
  <2>3. count'["create"] \in Nat /\ count["create"] <= count'["create"]
    BY <1>5
  <2> QED BY <1>2, <1>5, <2>1, <2>2, <2>3, FreshMutated
<1>14. Called'
  BY <1>1, <1>2, <1>6, <1>7, <1>8, CalledMore
<1>15. Standing'
  BY <1>1, <1>2, <1>6, <1>7, <1>9, <1>10, Names DEF Standing
<1>16. Begun'
  BY <1>1, <1>2, <1>6, <1>7 DEF Begun
<1>17. Cached'
  <2>1. SUFFICES ASSUME feed # "none", ~Reading, NEW x \in RowIds, x \notin astray, ~Later(x) PROVE CacheTells(x)'
    BY <1>2, <1>9 DEF Cached
  <2>2. CacheTells(x)
    BY <1>1, <2>1 DEF Cached
  <2>3. CASE x # key
    <3>1. view'.cache[x] = view.cache[x]
      BY <1>6, <1>7, <2>3, Names
    <3> QED BY <1>2, <1>9, <2>2, <3>1 DEF CacheTells
  <2>4. CASE x = key
    BY <1>2, <1>9, <1>10, <2>2, <2>4, Names DEF CacheTells
  <2> QED BY <2>3, <2>4
<1>18. Paged'
  <2>1. view'.remote = view.remote
    BY <1>6, <1>7
  <2> QED BY <1>1, <1>2, <1>9, <2>1 DEF Paged, PageTells
<1>19. Counted'
  <2>1. SUFFICES ASSUME Countable' PROVE Deleted' /\ PageCounted' /\ CacheCounted'
    BY DEF Counted
  <2>2. Deleted /\ PageCounted /\ CacheCounted
    BY <1>1, <1>2, <2>1 DEF Countable, Counted
  <2>3. Deleted'
    BY <1>2, <1>6, <1>7, <1>9, <2>2 DEF Deleted
  <2>4. PageCounted'
    BY <1>2, <1>9, <2>2 DEF PageCounted
  <2>5. CacheCounted'
    <3>1. SUFFICES ASSUME ~Reading, feed # "none"
                   PROVE  /\ \A x \in RowIds : ~Later(x) => RowCounted(x)'
                          /\ view'.total = Cardinality(Shown' \ failed')
                          /\ \A a \in ops' : a.row # 0 => view'.cache[a.row] = 0 /\ a.row \notin view'.deleting
      BY <1>2, <1>9 DEF CacheCounted
    <3>2. /\ \A x \in RowIds : ~Later(x) => RowCounted(x)
          /\ view.total = Cardinality(Shown \ failed)
          /\ \A a \in ops : a.row # 0 => view.cache[a.row] = 0 /\ a.row \notin view.deleting
      BY <2>2, <3>1 DEF CacheCounted
    <3>3. \A x \in RowIds : ~Later(x) => RowCounted(x)'
      BY <1>2, <1>9, <1>10, <3>2, Names DEF RowCounted
    <3>4. Shown' = Shown
      BY <1>10 DEF Shown
    <3>5. \A a \in ops' : a.row # 0 => view'.cache[a.row] = 0 /\ a.row \notin view'.deleting
      <4> SUFFICES ASSUME NEW a \in ops', a.row # 0 PROVE view'.cache[a.row] = 0 /\ a.row \notin view'.deleting
        OBVIOUS
      <4>1. a \in ops /\ a.row \in RowIds
        BY <1>3, <1>8, OpParts
      <4> QED BY <1>6, <1>7, <1>10, <3>2, <4>1, Names
    <3> QED BY <1>2, <1>6, <1>7, <3>2, <3>3, <3>4, <3>5
  <2> QED BY <2>3, <2>4, <2>5
<1> QED BY <1>11, <1>12, <1>13, <1>14, <1>15, <1>16, <1>17, <1>18, <1>19 DEF StoreInv

LEMMA MutateDeleteKeeps == ASSUME StoreInv, NEW key \in Entries, MutateDelete(key) PROVE StoreInv'
<1>1. StoreTyped /\ Streamed /\ Fresh /\ Called /\ Standing /\ Begun /\ Cached /\ Paged /\ Counted
  BY DEF StoreInv
<1>2. /\ mode' = mode /\ rows' = rows /\ stream' = stream /\ feed' = feed /\ list' = list
      /\ astray' = astray /\ failed' = failed /\ drifted' = (drifted \/ key \in failed)
      /\ Addressed(key) /\ Counting({"mutation"}) /\ Submit("delete", key)
      /\ view' = [view EXCEPT !.total = Bump(@, IF view.cache[key] # 0 THEN -1 ELSE 0), !.cache[key] = 0,
                              !.optimistic = @ \ {key}, !.deleting = @ \cup {key}]
  BY DEF MutateDelete
<1>3. view \in Views /\ ops \subseteq Ops /\ count \in [Steps -> Nat] /\ drifted \in BOOLEAN
  BY <1>1, Parts
<1>4. /\ count' \in [Steps -> Nat]
      /\ \A s \in Steps : count'[s] = IF s \in {"mutation"} THEN count[s] + 1 ELSE count[s]
      /\ {"row", "create", "value"} \subseteq Steps
  BY <1>1, <1>2, Counts
<1>5. /\ count["create"] \in Nat /\ count'["create"] = count["create"] /\ count'["row"] = count["row"]
  BY <1>3, <1>4
<1>6. PICK v : v = view'
  OBVIOUS
<1>7. /\ v \in Views /\ v.optimistic = view.optimistic \ {key} /\ v.cache[key] = 0
      /\ \A k \in Entries : k # key => v.cache[k] = view.cache[k]
      /\ Takes(v, view, key) /\ v.deleting = view.deleting \cup {key}
      /\ v.remote = view.remote /\ v.mapped = view.mapped /\ v.cursor = view.cursor
  <2>1. view.cache \in [Entries -> Nat] /\ view.total \in Nat \cup {-1} /\ view.optimistic \subseteq Shadows /\ view.deleting \subseteq Entries
    BY <1>3, ViewParts
  <2>2. PICK c : c = [view.cache EXCEPT ![key] = 0]
    OBVIOUS
  <2>3. c \in [Entries -> Nat] /\ c[key] = 0 /\ \A k \in Entries : k # key => c[k] = view.cache[k]
    BY <2>1, <2>2
  <2>4. PICK tot : tot = Bump(view.total, IF view.cache[key] # 0 THEN -1 ELSE 0)
    OBVIOUS
  <2>5. tot \in Nat \cup {-1}
    BY <2>1, <2>4, Bumped
  <2>6. PICK p : p = view.optimistic \ {key}
    OBVIOUS
  <2>7. PICK d : d = view.deleting \cup {key}
    OBVIOUS
  <2>8. p \subseteq Shadows /\ d \subseteq Entries
    BY <2>1, <2>6, <2>7
  <2>9. v = [view EXCEPT !.total = tot, !.cache[key] = 0, !.optimistic = p, !.deleting = d]
    BY <1>2, <1>6, <2>4, <2>6, <2>7
  <2>10. v = [view EXCEPT !.total = tot, !.cache = c, !.optimistic = p, !.deleting = d]
    BY <1>3, <2>2, <2>9 DEF Views
  <2>11. /\ v \in Views /\ v.optimistic = p /\ v.cache = c /\ v.total = tot /\ v.deleting = d
         /\ v.remote = view.remote /\ v.mapped = view.mapped /\ v.cursor = view.cursor
    BY <1>3, <2>3, <2>5, <2>8, <2>10 DEF Views, Values, Uncounted
  <2>12. Takes(v, view, key)
    BY <2>4, <2>11 DEF Takes
  <2> QED BY <2>3, <2>6, <2>7, <2>11, <2>12
<1>8. PICK new \in Ops : /\ ops' = ops \cup {new} /\ ops' \subseteq Ops
                         /\ new.kind = "delete" /\ new.id = key /\ new.row = 0
                         /\ \A k, x : Pending(k, x)' <=> Pending(k, x) \/ (k = "delete" /\ x = key)
  BY <1>1, <1>2, Submitted
<1>9. /\ \A x : Later(x)' <=> Later(x)
      /\ \A x : Hidden(x) => Hidden(x)'
      /\ Hidden(key)'
      /\ Reading' <=> Reading
      /\ \A x : Pending("update", x)' <=> Pending("update", x)
      /\ Pending("delete", key)'
      /\ \A x : Pending("create", x)' <=> Pending("create", x)
      /\ \A x : Pending("delete", x) => Pending("delete", x)'
  <2>1. /\ \A x : Pending("update", x)' <=> Pending("update", x)
        /\ Pending("delete", key)'
        /\ \A x : Pending("create", x)' <=> Pending("create", x)
        /\ \A x : Pending("delete", x) => Pending("delete", x)'
    BY <1>8
  <2>2. /\ \A x : Hidden(x) => Hidden(x)'
        /\ Hidden(key)'
    BY <1>6, <1>7 DEF Hidden
  <2> QED BY <1>2, <2>1, <2>2 DEF Later, Reading
<1>10. view'.total = -1 <=> view.total = -1
  <2>1. view.total \in Nat \cup {-1}
    BY <1>3, ViewParts
  <2> QED BY <1>6, <1>7, <2>1, Bumped DEF Takes
<1>11. StoreTyped'
  <2>1. drifted' \in BOOLEAN
    BY <1>2, <1>3
  <2> QED BY <1>1, <1>2, <1>4, <1>6, <1>7, <1>8, <2>1 DEF StoreTyped
<1>12. Streamed'
  BY <1>1, <1>2 DEF Streamed
<1>13. Fresh'
  <2>1. \A op \in ops' : op \in ops \/ (op.id = key /\ op.row = 0)
    BY <1>8
  <2>2. /\ \A k \in Entries : k # key => view'.cache[k] = view.cache[k]
        /\ \A k \in Entries : k # key => (k \in view'.deleting <=> k \in view.deleting)
        /\ view'.mapped = view.mapped
    BY <1>6, <1>7
  <2>3. count'["create"] \in Nat /\ count["create"] <= count'["create"]
    BY <1>5
  <2> QED BY <1>2, <1>5, <2>1, <2>2, <2>3, FreshMutated
<1>14. Called'
  BY <1>1, <1>2, <1>6, <1>7, <1>8, CalledMore
<1>15. Standing'
  <2> SUFFICES ASSUME NEW s \in Shadows
               PROVE  /\ s \in view'.optimistic <=> view'.cache[s] # 0
                      /\ s \in view'.optimistic => s \notin view'.deleting /\ view'.mapped[s] = 0
                      /\ s \in view'.optimistic => s \in failed' \/ Pending("create", s)'
    BY DEF Standing
  <2>1. /\ s \in view.optimistic <=> view.cache[s] # 0
        /\ s \in view.optimistic => s \notin view.deleting /\ view.mapped[s] = 0
        /\ s \in view.optimistic => s \in failed \/ Pending("create", s)
    BY <1>1 DEF Standing
  <2>2. CASE s = key
    BY <1>6, <1>7, <2>2
  <2>3. CASE s # key
    BY <1>2, <1>6, <1>7, <1>9, <2>1, <2>3, Names
  <2> QED BY <2>2, <2>3
<1>16. Begun'
  BY <1>1, <1>2, <1>6, <1>7, <1>10 DEF Begun, Uncounted
<1>17. Cached'
  <2>1. SUFFICES ASSUME feed # "none", ~Reading, NEW x \in RowIds, x \notin astray, ~Later(x) PROVE CacheTells(x)'
    BY <1>2, <1>9 DEF Cached
  <2>2. CacheTells(x)
    BY <1>1, <2>1 DEF Cached
  <2>3. CASE x # key
    <3>1. view'.cache[x] = view.cache[x]
      BY <1>6, <1>7, <2>3, Names
    <3> QED BY <1>2, <1>9, <2>2, <3>1 DEF CacheTells
  <2>4. CASE x = key
    BY <1>2, <1>6, <1>7, <1>9, <2>4 DEF CacheTells
  <2> QED BY <2>3, <2>4
<1>18. Paged'
  <2>1. view'.remote = view.remote
    BY <1>6, <1>7
  <2> QED BY <1>1, <1>2, <1>9, <2>1 DEF Paged, PageTells
<1>19. Counted'
  <2>1. SUFFICES ASSUME Countable' PROVE Deleted' /\ PageCounted' /\ CacheCounted'
    BY DEF Counted
  <2>2. Deleted /\ PageCounted /\ CacheCounted /\ key \notin failed
    BY <1>1, <1>2, <2>1 DEF Countable, Counted
  <2>3. Deleted'
    <3> SUFFICES ASSUME NEW x \in RowIds, x \in view'.deleting
                 PROVE  rows[x] = 0 \/ Pending("delete", x)' \/ (Reading /\ list.page[x] # 0)
      BY <1>2, <1>9 DEF Deleted
    <3>1. x = key \/ x \in view.deleting
      BY <1>6, <1>7
    <3> QED BY <1>9, <2>2, <3>1 DEF Deleted
  <2>4. PageCounted'
    BY <1>2, <1>9, <2>2 DEF PageCounted
  <2>5. CacheCounted'
    <3>1. SUFFICES ASSUME ~Reading, feed # "none"
                   PROVE  /\ \A x \in RowIds : ~Later(x) => RowCounted(x)'
                          /\ view'.total = Cardinality(Shown' \ failed')
                          /\ \A a \in ops' : a.row # 0 => view'.cache[a.row] = 0 /\ a.row \notin view'.deleting
      BY <1>2, <1>9 DEF CacheCounted
    <3>2. /\ \A x \in RowIds : ~Later(x) => RowCounted(x)
          /\ view.total = Cardinality(Shown \ failed)
          /\ \A a \in ops : a.row # 0 => view.cache[a.row] = 0 /\ a.row \notin view.deleting
      BY <2>2, <3>1 DEF CacheCounted
    <3>3. ASSUME NEW x \in RowIds, ~Later(x) PROVE RowCounted(x)'
      <4>1. CASE x # key
        <5>1. RowCounted(x) /\ view'.cache[x] = view.cache[x]
          BY <1>6, <1>7, <3>2, <3>3, <4>1, Names
        <5> QED BY <1>2, <1>9, <5>1 DEF RowCounted
      <4>2. CASE x = key
        BY <1>6, <1>7, <1>9, <4>2 DEF RowCounted
      <4> QED BY <4>1, <4>2
    <3>4. view'.total = Cardinality(Shown' \ failed')
      <4>1. PICK by \in {-1, 0, 1} : by = IF view.cache[key] # 0 THEN -1 ELSE 0
        OBVIOUS
      <4>2. view'.cache[key] = 0
        BY <1>6, <1>7
      <4>3. by = 0 <=> (view.cache[key] # 0 <=> view'.cache[key] # 0)
        BY <4>1, <4>2
      <4>4. by = 1 <=> view.cache[key] = 0 /\ view'.cache[key] # 0
        BY <4>1, <4>2
      <4>5. view'.total = Bump(view.total, by)
        BY <1>6, <1>7, <4>1 DEF Takes
      <4>6. \A j \in Entries : j # key => (view'.cache[j] # 0 <=> view.cache[j] # 0)
        BY <1>6, <1>7
      <4> QED BY <1>2, <2>2, <3>2, <4>3, <4>4, <4>5, <4>6, TotalStep
    <3>5. ASSUME NEW a \in ops', a.row # 0 PROVE view'.cache[a.row] = 0 /\ a.row \notin view'.deleting
      <4>1. a \in ops /\ a.row \in RowIds
        BY <1>3, <1>8, <3>5, OpParts
      <4>2. view.cache[a.row] = 0 /\ a.row \notin view.deleting
        BY <3>2, <3>5, <4>1
      <4>3. a.row # key
        BY <1>2, <4>1, <4>2, Names DEF Addressed
      <4> QED BY <1>6, <1>7, <4>1, <4>2, <4>3, Names
    <3> QED BY <3>3, <3>4, <3>5
  <2> QED BY <2>3, <2>4, <2>5
<1> QED BY <1>11, <1>12, <1>13, <1>14, <1>15, <1>16, <1>17, <1>18, <1>19 DEF StoreInv

-----------------------------------------------------------------------------
(* The answer of a list request *)

LEMMA ListAnswerKeeps == ASSUME StoreInv, ListAnswer PROVE StoreInv'
<1>1. StoreTyped /\ Streamed /\ Fresh /\ Called /\ Standing /\ Begun /\ Cached /\ Paged /\ Counted
  BY DEF StoreInv
<1>2. PICK v : v = view'
  OBVIOUS
<1> DEFINE fromEvent(id) == list.more /\ view.remote[id] # 0 /\ (view.remote[id] = rows[id] \/ Later(id))
           other == {id \in RowIds : list.page[id] # 0 /\ v.cache[id] \notin {0, list.page[id]} /\ ~fromEvent(id)}
<1>3. /\ mode' = mode /\ rows' = rows /\ stream' = stream /\ ops' = ops /\ failed' = failed /\ count' = count
      /\ list.pc = "read" /\ list' = NoList
      /\ v = IF list.more THEN Loaded(view) ELSE Refreshed(view)
      /\ feed' = IF feed = "none" THEN "opening" ELSE feed
  BY <1>2 DEF ListAnswer
<1>4. /\ astray' = astray \cup other
      /\ drifted' = (\/ drifted
                     \/ ~list.more /\ (ops # {} \/ \E id \in RowIds : list.page[id] # 0 /\ Hidden(id)))
  BY <1>2, <1>3 DEF ListAnswer
<1>5. /\ view \in Views /\ list \in Lists /\ list.more \in BOOLEAN /\ mode \in StoreModes
      /\ feed \in {"none", "opening", "on", "lost"} /\ astray \subseteq RowIds /\ drifted \in BOOLEAN
      /\ list.total \in Nat /\ failed \subseteq Shadows
  BY <1>1, Parts, ListParts
<1>6. /\ list' \in Lists /\ list'.pc = "none" /\ list'.more = FALSE /\ list'.cursor = 0
      /\ \A id \in RowIds : list'.page[id] = 0
  <2>1. PICK l : l = NoList
    OBVIOUS
  <2>2. /\ l \in Lists /\ l.pc = "none" /\ l.more = FALSE /\ l.cursor = 0
        /\ \A id \in RowIds : l.page[id] = 0
    BY <2>1 DEF NoList, Lists, Values
  <2> QED BY <1>3, <2>1, <2>2
<1>7. ASSUME ~list.more
      PROVE  /\ v \in Views
             /\ v.optimistic = view.optimistic /\ v.deleting = view.deleting /\ v.updating = view.updating
             /\ v.remote = view.remote /\ v.mapped = view.mapped /\ v.total = list.total /\ v.cursor = list.cursor
             /\ \A x \in RowIds : v.cache[x] = 0 <=> list.page[x] = 0 \/ Hidden(x)
             /\ \A o \in Shadows : v.cache[o] = IF o \in view.optimistic \ view.deleting THEN view.cache[o] ELSE 0
  <2>1. v = Refreshed(view)
    BY <1>3, <1>7
  <2> QED BY <1>5, <2>1, RefreshedParts DEF Hidden
<1>8. ASSUME list.more
      PROVE  /\ v \in Views
             /\ v.optimistic = view.optimistic /\ v.deleting = view.deleting /\ v.updating = view.updating
             /\ v.mapped = view.mapped /\ v.total = view.total /\ v.cursor = list.cursor
             /\ \A k \in Shadows : v.cache[k] = view.cache[k]
             /\ \A x \in RowIds :
                   /\ list.page[x] = 0 \/ x \in view.deleting => v.cache[x] = view.cache[x]
                   /\ list.page[x] # 0 /\ x \notin view.deleting =>
                         v.cache[x] # 0 /\ (view.remote[x] # 0 => v.cache[x] = view.remote[x])
  <2>1. v = Loaded(view)
    BY <1>3, <1>8
  <2> QED BY <1>5, <2>1, LoadedParts
<1>9. \A o \in Shadows : v.cache[o] = view.cache[o]
  <2>1. CASE list.more
    BY <1>8, <2>1
  <2>2. CASE ~list.more
    <3> SUFFICES ASSUME NEW o \in Shadows PROVE v.cache[o] = view.cache[o]
      OBVIOUS
    <3>1. /\ o \in view.optimistic <=> view.cache[o] # 0
          /\ o \in view.optimistic => o \notin view.deleting
      BY <1>1 DEF Standing
    <3>2. v.cache[o] = IF o \in view.optimistic \ view.deleting THEN view.cache[o] ELSE 0
      BY <1>7, <2>2
    <3> QED BY <3>1, <3>2
  <2> QED BY <2>1, <2>2
<1>10. /\ v \in Views /\ v.optimistic = view.optimistic /\ v.deleting = view.deleting
       /\ v.mapped = view.mapped /\ v.cursor = list.cursor
       /\ v.total = IF list.more THEN view.total ELSE list.total
  BY <1>7, <1>8
<1>11. \A x \in RowIds : list.page[x] = 0 /\ view.cache[x] = 0 => v.cache[x] = 0
  BY <1>7, <1>8
<1>12. /\ \A x : Later(x)' <=> Later(x)
       /\ \A x : Hidden(x)' <=> Hidden(x)
       /\ \A kind, x : Pending(kind, x)' <=> Pending(kind, x)
       /\ ~Reading'
       /\ Reading <=> ~list.more
  BY <1>2, <1>3, <1>6, <1>10 DEF Later, Hidden, Pending, Reading
<1>13. StoreTyped'
  <2>1. feed' \in {"none", "opening", "on", "lost"}
    BY <1>3, <1>5
  <2>2. astray' \subseteq RowIds /\ drifted' \in BOOLEAN
    BY <1>4, <1>5
  <2> HIDE DEF other
  <2> QED BY <1>1, <1>2, <1>3, <1>6, <1>10, <2>1, <2>2 DEF StoreTyped
<1>14. Streamed'
  BY <1>1, <1>3 DEF Streamed
<1>15. Fresh'
  <2>1. ASSUME NEW x \in RowIds, count'["row"] < x PROVE FreshRow(x)'
    <3>1. FreshRow(x)
      BY <1>1, <1>3, <2>1 DEF Fresh
    <3>2. v.cache[x] = 0
      BY <1>11, <3>1 DEF FreshRow
    <3> QED BY <1>2, <1>3, <1>6, <1>10, <1>12, <3>1, <3>2 DEF FreshRow
  <2>2. ASSUME NEW n \in 1..MaxCreates, count'["create"] < n PROVE FreshShadow(-n)'
    <3>1. FreshShadow(-n)
      BY <1>1, <1>3, <2>2 DEF Fresh
    <3>2. -n \in Shadows
      BY ShadowNames
    <3> QED BY <1>2, <1>3, <1>9, <1>10, <3>1, <3>2 DEF FreshShadow
  <2> QED BY <2>1, <2>2 DEF Fresh
<1>16. Called'
  BY <1>1, <1>2, <1>3, <1>10 DEF Called
<1>17. Standing'
  BY <1>1, <1>2, <1>3, <1>9, <1>10, <1>12 DEF Standing
<1>18. Begun'
  <2>1. feed' # "none"
    BY <1>3
  <2>2. v.total # Uncounted
    BY <1>1, <1>5, <1>10 DEF Begun, Uncounted
  <2>3. mode = "live" => v.cursor = 0
    BY <1>1, <1>10 DEF Begun
  <2> QED BY <1>2, <1>3, <1>6, <2>1, <2>2, <2>3 DEF Begun
<1>19. Cached'
  <2>1. SUFFICES ASSUME NEW x \in RowIds, x \notin astray', ~Later(x) PROVE CacheTells(x)'
    BY <1>12 DEF Cached
  <2>2. x \notin astray /\ x \notin other
    BY <1>4, <2>1
  <2>3. PageTells(x)
    BY <1>1, <2>1, <2>2 DEF Paged
  <2>4. list.page[x] = 0 \/ v.cache[x] = 0 \/ v.cache[x] = list.page[x]
        \/ (list.more /\ view.remote[x] # 0 /\ view.remote[x] = rows[x])
    BY <2>1, <2>2
  <2>5. SUFFICES \/ v.cache[x] = rows[x]
                 \/ v.cache[x] = 0 /\ (mode = "strict" \/ Hidden(x))
                 \/ rows[x] # 0 /\ Pending("update", x)
    BY <1>2, <1>3, <1>12 DEF CacheTells
  <2>6. CASE ~list.more
    <3>1. list.page[x] = rows[x] \/ (mode = "strict" /\ list.page[x] = 0)
      BY <1>12, <2>3, <2>6 DEF PageTells
    <3>2. v.cache[x] = 0 <=> list.page[x] = 0 \/ Hidden(x)
      BY <1>7, <2>6
    <3> QED BY <2>4, <2>6, <3>1, <3>2
  <2>7. CASE list.more
    <3>1. feed # "none" /\ ~Reading
      BY <1>1, <1>12, <2>7 DEF Begun
    <3>2. CASE list.page[x] = 0 \/ x \in view.deleting
      <4>1. v.cache[x] = view.cache[x]
        BY <1>8, <2>7, <3>2
      <4>2. CacheTells(x)
        BY <1>1, <2>1, <2>2, <3>1 DEF Cached
      <4> QED BY <4>1, <4>2 DEF CacheTells
    <3>3. CASE ~(list.page[x] = 0 \/ x \in view.deleting)
      <4>1. v.cache[x] # 0 /\ (view.remote[x] # 0 => v.cache[x] = view.remote[x])
        BY <1>8, <2>7, <3>3
      <4>2. list.page[x] = rows[x] \/ (view.remote[x] = rows[x] /\ rows[x] # 0)
        BY <1>3, <2>3, <2>7, <3>3 DEF PageTells
      <4> QED BY <2>4, <3>3, <4>1, <4>2
    <3> QED BY <3>2, <3>3
  <2> QED BY <2>6, <2>7
<1>20. Paged'
  BY <1>6, <1>12 DEF Paged, PageTells
<1>21. Counted'
  <2>1. SUFFICES ASSUME mode = "live", ~drifted' PROVE Deleted' /\ PageCounted' /\ CacheCounted'
    BY <1>3 DEF Counted, Countable
  <2>2. ~list.more /\ Reading
    BY <1>1, <1>12, <2>1 DEF Begun
  <2>3. ~drifted /\ ops = {} /\ \A x \in RowIds : list.page[x] # 0 => ~Hidden(x)
    BY <1>4, <2>1, <2>2
  <2>4. Deleted /\ PageCounted
    BY <1>1, <2>1, <2>3 DEF Counted, Countable
  <2>5. \A kind, x : ~Pending(kind, x)
    BY <2>3 DEF Pending
  <2>6. Deleted'
    <3> SUFFICES ASSUME NEW x \in RowIds, x \in view.deleting PROVE rows[x] = 0
      BY <1>2, <1>3, <1>10 DEF Deleted
    <3>1. Hidden(x)
      BY DEF Hidden
    <3> QED BY <2>3, <2>4, <2>5, <3>1 DEF Deleted
  <2>7. PageCounted'
    BY <1>12 DEF PageCounted
  <2>8. \A x \in RowIds : v.cache[x] # 0 <=> list.page[x] # 0
    BY <1>7, <2>2, <2>3
  <2>9. \A x \in RowIds : ~Later(x)' => RowCounted(x)'
    BY <1>2, <1>3, <1>12, <2>2, <2>4, <2>8 DEF PageCounted, RowCounted
  <2>10. view'.total = Cardinality(Shown' \ failed')
    <3>1. \A o \in Shadows : v.cache[o] # 0 => o \in failed
      BY <1>1, <1>9, <2>5 DEF Standing
    <3>2. PICK S : S = Shown' \ failed'
      OBVIOUS
    <3>3. \A x : x \in S <=> x \in Entries /\ v.cache[x] # 0 /\ x \notin failed
      BY <1>2, <1>3, <3>2 DEF Shown
    <3>4. S = {x \in RowIds : list.page[x] # 0}
      BY <1>5, <2>8, <3>1, <3>3, Names
    <3>5. list.total = Cardinality({x \in RowIds : list.page[x] # 0})
      BY <2>2, <2>4 DEF PageCounted
    <3> QED BY <1>2, <1>10, <2>2, <3>2, <3>4, <3>5
  <2>11. CacheCounted'
    BY <1>3, <2>3, <2>9, <2>10 DEF CacheCounted
  <2> QED BY <2>6, <2>7, <2>11
<1> QED BY <1>13, <1>14, <1>15, <1>16, <1>17, <1>18, <1>19, <1>20, <1>21 DEF StoreInv

-----------------------------------------------------------------------------
(* The theorem *)

LEMMA StoreBegins == LiveStoreInit => StoreInv
<1> SUFFICES ASSUME LiveStoreInit PROVE StoreInv
  OBVIOUS
<1>1. /\ mode \in StoreModes /\ rows = [i \in RowIds |-> IF i <= StartRows THEN i ELSE 0]
      /\ stream = <<>> /\ feed = "none" /\ ops = {} /\ list = Asked(FALSE)
      /\ astray = {} /\ drifted = FALSE /\ failed = {}
      /\ count = [s \in Steps |-> IF s \in {"row", "value"} THEN StartRows ELSE 0]
      /\ view = [cache |-> [k \in Entries |-> 0], optimistic |-> {}, deleting |-> {},
                 updating |-> [k \in Entries |-> 0], remote |-> [i \in RowIds |-> 0],
                 mapped |-> [o \in Shadows |-> 0], total |-> Uncounted, cursor |-> 0]
  BY DEF LiveStoreInit
<1>2. StartRows \in Nat
  BY LiveStoreAssumption
<1>3. /\ rows \in [RowIds -> Nat]
      /\ \A id \in RowIds : StartRows < id => rows[id] = 0
  BY <1>1, <1>2 DEF RowIds
<1>4. /\ list \in Lists /\ list.pc = "asked" /\ list.more = FALSE /\ list.cursor = 0
      /\ \A id \in RowIds : list.page[id] = 0
  BY <1>1, AskedParts
<1>5. /\ view \in Views /\ view.optimistic = {} /\ view.deleting = {} /\ view.total = Uncounted /\ view.cursor = 0
      /\ \A k \in Entries : view.cache[k] = 0
      /\ \A o \in Shadows : view.mapped[o] = 0
  BY <1>1 DEF Views, Values, Uncounted
<1>6. count \in [Steps -> Nat] /\ count["row"] = StartRows
  BY <1>1, <1>2 DEF Steps
<1>7. /\ \A x : ~Later(x)
      /\ ~Reading
  <2>1. DOMAIN stream = {}
    BY <1>1
  <2>2. list.pc # "read"
    BY <1>4
  <2> QED BY <2>1, <2>2 DEF Later, Reading
<1>8. StoreTyped
  <2>1. <<>> \in Seq(Events)
    OBVIOUS
  <2> QED BY <1>1, <1>3, <1>4, <1>5, <1>6, <2>1 DEF StoreTyped, Values
<1>9. Streamed
  BY <1>1 DEF Streamed
<1>10. Fresh
  <2>1. ASSUME NEW id \in RowIds, count["row"] < id PROVE FreshRow(id)
    <3>1. rows[id] = 0 /\ view.cache[id] = 0
      BY <1>3, <1>5, <1>6, <2>1, Names
    <3> QED BY <1>1, <1>4, <1>5, <1>7, <3>1 DEF FreshRow
  <2>2. ASSUME NEW n \in 1..MaxCreates PROVE FreshShadow(-n)
    <3>1. -n \in Shadows /\ -n \in Entries
      BY ShadowNames
    <3> QED BY <1>1, <1>5, <3>1 DEF FreshShadow
  <2> QED BY <2>1, <2>2 DEF Fresh
<1>11. Called
  BY <1>1 DEF Called
<1>12. Standing
  BY <1>5, Names DEF Standing
<1>13. Begun
  BY <1>1, <1>4, <1>5 DEF Begun
<1>14. Cached
  BY <1>1 DEF Cached
<1>15. Paged
  BY <1>4, <1>7 DEF Paged, PageTells
<1>16. Counted
  BY <1>1, <1>5, <1>7 DEF Counted, Deleted, PageCounted, CacheCounted
<1> QED BY <1>8, <1>9, <1>10, <1>11, <1>12, <1>13, <1>14, <1>15, <1>16 DEF StoreInv

LEMMA StoreStep == StoreInv /\ [LiveStoreNext]_storeVars => StoreInv'
<1> SUFFICES ASSUME StoreInv, [LiveStoreNext]_storeVars PROVE StoreInv'
  OBVIOUS
<1>1. CASE ListRead BY <1>1, ListReadKeeps
<1>2. CASE Subscribe BY <1>2, SubscribeKeeps
<1>3. CASE OtherWrite BY <1>3, OtherKeeps
<1>4. CASE Gap BY <1>4, GapKeeps
<1>5. ASSUME NEW op \in ops, ServerWrite(op) \/ Fail(op) \/ Answer(op) PROVE StoreInv'
  BY <1>5, ServerKeeps, FailKeeps, AnswerKeeps
<1>6. CASE ListAnswer BY <1>6, ListAnswerKeeps
<1>7. CASE Deliver BY <1>7, DeliverKeeps
<1>8. CASE Invalidate BY <1>8, InvalidateKeeps
<1>9. CASE MutateCreate BY <1>9, MutateCreateKeeps
<1>10. CASE Refresh BY <1>10, RefreshKeeps
<1>11. CASE LoadMore BY <1>11, LoadMoreKeeps
<1>12. ASSUME NEW key \in Entries, MutateUpdate(key) \/ MutateDelete(key) PROVE StoreInv'
  BY <1>12, MutateUpdateKeeps, MutateDeleteKeeps
<1>13. CASE UNCHANGED storeVars
  BY <1>13 DEF storeVars, StoreInv, StoreTyped, Streamed, Fresh, FreshRow, FreshShadow, Called, Pending, Standing,
               Begun, Reading, Later, Hidden, CacheTells, Cached, PageTells, Paged, Countable, Deleted, PageCounted,
               Shown, RowCounted, CacheCounted, Counted
<1> QED BY <1>1, <1>2, <1>3, <1>4, <1>5, <1>6, <1>7, <1>8, <1>9, <1>10, <1>11, <1>12, <1>13 DEF LiveStoreNext

\* At rest, what the cache and the total follow is what the server has.
LEMMA StoreTells == StoreInv => StoreSettled
<1> SUFFICES ASSUME StoreInv, AtRest PROVE RowsShown /\ NoDuplicate /\ TotalRight
  BY DEF StoreSettled
<1>1. StoreTyped /\ Standing /\ Cached /\ Counted
  BY DEF StoreInv
<1>2. /\ feed = "on" /\ ~Reading /\ \A x : ~Later(x)
      /\ \A kind, x : ~Pending(kind, x)
  BY DEF AtRest, Reading, Later, Pending
<1>3. RowsShown
  <2> SUFFICES ASSUME NEW id \in RowIds, id \notin astray
               PROVE  view.cache[id] = rows[id] \/ (view.cache[id] = 0 /\ (mode = "strict" \/ Hidden(id)))
    BY DEF RowsShown
  <2>1. CacheTells(id)
    BY <1>1, <1>2 DEF Cached
  <2> QED BY <1>2, <2>1 DEF CacheTells
<1>4. NoDuplicate
  BY <1>1, <1>2 DEF Standing, NoDuplicate
<1>5. TotalRight
  <2> SUFFICES ASSUME mode = "live", ~drifted
               PROVE  view.total = Cardinality({id \in RowIds : rows[id] # 0})
    BY DEF TotalRight
  <2>1. CacheCounted
    BY <1>1 DEF Counted, Countable
  <2>2. /\ \A x \in RowIds : view.cache[x] # 0 <=> rows[x] # 0
        /\ view.total = Cardinality(Shown \ failed)
    BY <1>2, <2>1 DEF CacheCounted, RowCounted
  <2>3. failed \subseteq Shadows
    BY <1>1, Parts
  <2>4. PICK S : S = Shown \ failed
    OBVIOUS
  <2>5. \A x : x \in S <=> x \in Entries /\ view.cache[x] # 0 /\ x \notin failed
    BY <2>4 DEF Shown
  <2>6. S = {id \in RowIds : rows[id] # 0}
    BY <1>4, <2>2, <2>3, <2>5, Names DEF NoDuplicate
  <2> QED BY <2>2, <2>4, <2>6
<1> QED BY <1>3, <1>4, <1>5

\* A live query that nothing is on its way to shows the server's rows, without duplicates of
\* what was created here, and counts them: but for the rows and the total that an answer or a
\* failure has put out (live-store.ts: handleAdded, handleChanged, handleRemoved, refresh, loadMore, mutate).
THEOREM StoreSettles == LiveStoreSpec => []StoreSettled
<1>1. LiveStoreInit => StoreInv
  BY StoreBegins
<1>2. StoreInv /\ [LiveStoreNext]_storeVars => StoreInv'
  BY StoreStep
<1>3. StoreInv => StoreSettled
  BY StoreTells
<1> QED BY <1>1, <1>2, <1>3, PTL DEF LiveStoreSpec
=============================================================================
