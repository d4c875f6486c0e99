------------------------- MODULE OfflineQueueProofs -------------------------
(***************************************************************************)
(* What the offline queue promises for any tabs, objects, plans and        *)
(* numbers of retries and faults.                                          *)
(***************************************************************************)
EXTENDS OfflineQueue, FiniteSetTheorems, SequenceTheorems, WellFoundedInduction, TLAPS

USE DEF offlineVars, client, server, faults, ghosts

-----------------------------------------------------------------------------
(* Stored mutations, their copies in a tab's list, and requests *)

KeyRecords == [write : Writes, of : -1..MaxRetries]
Kept == {m \in Mutations : /\ m.key \in KeyRecords /\ m.key.write = m.write
                           /\ m.write.kind = "create" => m.edits = {m.write}}
Copies == {m \in Kept : Sendable(m)}
Distinct(q) == \A i, j \in DOMAIN q : q[i].write = q[j].write => i = j
Queues == {q \in Seq(Kept) : Distinct(q)}
Lists == {l \in Seq(Copies) : Distinct(l)}
TabRecords == [online : BOOLEAN, ids : [Objects -> Nat], list : Lists]

Unique(S) == \A m, n \in S : m.write = n.write => m = n

\* What the stored mutations become: sent, failed, tried again, replaced by a new version.
Marked(S, w) == {IF m.write = w THEN [m EXCEPT !.status = "processing"] ELSE m : m \in S}
Retried(m, s, k) == [m EXCEPT !.status = s, !.retry = k]
RetriedIn(S, w, s, k) == {IF m.write = w THEN Retried(m, s, k) ELSE m : m \in S}
Swapped(S, w, n) == {IF m.write = w THEN n ELSE m : m \in S}
Others(S, w) == {m \in S : m.write # w}

LEMMA KeptFacts ==
    ASSUME NEW m \in Kept
    PROVE  /\ m \in Mutations /\ m.write \in Writes /\ m.edits \in SUBSET Writes
           /\ m.retry \in 0..MaxRetries /\ m.status \in {"pending", "processing", "failed"}
           /\ m.key \in KeyRecords /\ m.key.write = m.write
           /\ m.write.kind = "create" => m.edits = {m.write}
  BY DEF Kept, Mutations

LEMMA MarkedKept ==
    ASSUME NEW m \in Kept
    PROVE  LET n == [m EXCEPT !.status = "processing"] IN
           /\ n \in Kept /\ n.write = m.write /\ n.edits = m.edits /\ n.retry = m.retry
           /\ n.status = "processing" /\ n.key = m.key
  BY DEF Kept, Mutations

LEMMA RetriedKept ==
    ASSUME NEW m \in Kept, NEW k \in 0..MaxRetries, NEW s \in {"failed", "pending"}
    PROVE  LET n == Retried(m, s, k) IN
           /\ n \in Kept /\ n.write = m.write /\ n.edits = m.edits /\ n.retry = k
           /\ n.status = s /\ n.key = m.key
  BY DEF Kept, Mutations, Retried

\* A rewriting that keeps the writes keeps a queue a queue.
LEMMA Rewritten ==
    ASSUME NEW q \in Queues, NEW r, r = [i \in DOMAIN q |-> r[i]],
           \A i \in DOMAIN q : r[i] \in Kept /\ r[i].write = q[i].write
    PROVE  r \in Queues /\ DOMAIN r = DOMAIN q
<1>1. q \in Seq(Kept) /\ Distinct(q)
  BY DEF Queues
<1>2. DOMAIN q = 1..Len(q) /\ Len(q) \in Nat
  BY <1>1
<1>3. DOMAIN r = DOMAIN q
  OBVIOUS
<1>4. r \in Seq(Kept)
  BY <1>2
<1>5. Distinct(r)
  BY <1>1, <1>3 DEF Distinct
<1> QED BY <1>3, <1>4, <1>5 DEF Queues

LEMMA QueueFacts ==
    ASSUME NEW q \in Queues
    PROVE  /\ q \in Seq(Kept) /\ DOMAIN q = 1..Len(q) /\ Len(q) \in Nat
           /\ \A i \in DOMAIN q : q[i] \in Kept
           /\ ToSet(q) \subseteq Kept /\ Unique(ToSet(q))
           /\ \A i, j \in DOMAIN q : q[i].write = q[j].write => i = j
           /\ IsFiniteSet(ToSet(q))
<1>1. q \in Seq(Kept) /\ Distinct(q)
  BY DEF Queues
<1>2. DOMAIN q = 1..Len(q) /\ Len(q) \in Nat /\ \A i \in DOMAIN q : q[i] \in Kept
  BY <1>1
<1>3. ToSet(q) \subseteq Kept
  BY <1>2 DEF ToSet
<1>4. Unique(ToSet(q)) /\ \A i, j \in DOMAIN q : q[i].write = q[j].write => i = j
  BY <1>1 DEF Distinct, Unique, ToSet
<1>5. IsFiniteSet(ToSet(q))
  <2>1. IsFiniteSet(1..Len(q))
    BY <1>2, FS_Interval
  <2>2. [i \in 1..Len(q) |-> q[i]] \in Surjection(1..Len(q), ToSet(q))
    BY <1>2 DEF Surjection, ToSet
  <2> QED BY <2>1, <2>2, FS_Surjection
<1> QED BY <1>1, <1>2, <1>3, <1>4, <1>5

LEMMA ListFacts ==
    ASSUME NEW l \in Lists
    PROVE  /\ l \in Queues /\ ToSet(l) \subseteq Copies
           /\ <<>> \in Lists /\ ToSet(<<>>) = {}
           /\ l # <<>> => /\ Head(l) \in ToSet(l) /\ Tail(l) \in Lists
                          /\ ToSet(Tail(l)) = Others(ToSet(l), Head(l).write)
<1>1. l \in Seq(Copies) /\ Distinct(l) /\ Copies \subseteq Kept
  BY DEF Lists, Copies
<1>2. DOMAIN l = 1..Len(l) /\ Len(l) \in Nat /\ \A i \in DOMAIN l : l[i] \in Copies
  BY <1>1
<1>3. l \in Seq(Kept)
  BY <1>1
<1>4. l \in Queues
  BY <1>1, <1>3 DEF Queues
<1>5. ToSet(l) \subseteq Copies
  BY <1>2 DEF ToSet
<1>6. <<>> \in Lists /\ ToSet(<<>>) = {}
  BY DEF Lists, Distinct, ToSet
<1>7. ASSUME l # <<>>
      PROVE  /\ Head(l) \in ToSet(l) /\ Tail(l) \in Lists
             /\ ToSet(Tail(l)) = Others(ToSet(l), Head(l).write)
  <2>1. /\ Len(l) \in Nat \ {0} /\ Head(l) = l[1] /\ Tail(l) \in Seq(Copies)
        /\ Len(Tail(l)) = Len(l) - 1 /\ DOMAIN Tail(l) = 1..(Len(l) - 1)
        /\ \A i \in 1..(Len(l) - 1) : Tail(l)[i] = l[i + 1]
    BY <1>1, <1>7
  <2>2. Head(l) \in ToSet(l)
    BY <2>1, <1>2 DEF ToSet
  <2>3. Distinct(Tail(l))
    BY <2>1, <1>1, <1>2 DEF Distinct
  <2>4. ASSUME NEW c \in ToSet(Tail(l)) PROVE c \in Others(ToSet(l), Head(l).write)
    <3>1. PICK i \in 1..(Len(l) - 1) : c = l[i + 1]
      BY <2>1 DEF ToSet
    <3>2. i + 1 \in DOMAIN l /\ 1 \in DOMAIN l /\ i + 1 # 1
      BY <2>1, <1>2
    <3> QED BY <3>1, <3>2, <2>1, <1>1 DEF ToSet, Others, Distinct
  <2>5. ASSUME NEW c \in Others(ToSet(l), Head(l).write) PROVE c \in ToSet(Tail(l))
    <3>1. PICK i \in DOMAIN l : c = l[i] /\ c.write # Head(l).write
      BY DEF Others, ToSet
    <3>2. i - 1 \in 1..(Len(l) - 1) /\ Tail(l)[i - 1] = l[i]
      BY <3>1, <2>1, <1>2
    <3> QED BY <3>1, <3>2, <2>1 DEF ToSet
  <2> QED BY <2>1, <2>2, <2>3, <2>4, <2>5 DEF Lists
<1> QED BY <1>4, <1>5, <1>6, <1>7

-----------------------------------------------------------------------------
(* The positions that pass a filter *)

\* The number of positions of S up to i.
Rank(S, i) == Cardinality({j \in S : j <= i})

LEMMA RankGrows ==
    ASSUME NEW S \in SUBSET Nat, IsFiniteSet(S), NEW i \in S
    PROVE  /\ Rank(S, i) \in 1..Cardinality(S)
           /\ \A k \in S : i < k => Rank(S, i) < Rank(S, k)
<1> DEFINE Upto(k) == {j \in S : j <= k}
<1>1. \A k \in S : IsFiniteSet(Upto(k)) /\ Cardinality(Upto(k)) <= Cardinality(S)
  BY FS_Subset
<1>2. Cardinality(S) \in Nat /\ \A k \in S : Cardinality(Upto(k)) \in Nat
  BY <1>1, FS_CardinalityType
<1>3. Cardinality(Upto(i)) # 0
  <2>1. i \in Upto(i)
    OBVIOUS
  <2> QED BY <2>1, <1>1, FS_EmptySet
<1>4. ASSUME NEW k \in S, i < k PROVE Cardinality(Upto(i)) < Cardinality(Upto(k))
  <2>1. Upto(i) \subseteq Upto(k) /\ k \in Upto(k) /\ k \notin Upto(i)
    <3>1. i \in Nat /\ k \in Nat /\ \A j \in S : j \in Nat
      OBVIOUS
    <3>2. \A j \in S : j <= i => j <= k
      BY <3>1, <1>4
    <3>3. k <= k /\ ~ (k <= i)
      BY <3>1, <1>4
    <3> QED BY <3>2, <3>3
  <2>2. Cardinality(Upto(i)) <= Cardinality(Upto(k))
    BY <2>1, <1>1, FS_Subset
  <2>3. Cardinality(Upto(i)) # Cardinality(Upto(k))
    BY <2>1, <1>1, FS_Subset
  <2> QED BY <2>2, <2>3, <1>2
<1> QED BY <1>1, <1>2, <1>3, <1>4 DEF Rank

LEMMA NthFacts ==
    ASSUME NEW S \in SUBSET Nat, IsFiniteSet(S)
    PROVE  /\ \A n \in 1..Cardinality(S) : Nth(S, n) \in S /\ Rank(S, Nth(S, n)) = n
           /\ \A i \in S : \E n \in 1..Cardinality(S) : Nth(S, n) = i
<1> DEFINE C == Cardinality(S)
           rank == [i \in S |-> Rank(S, i)]
<1>1. C \in Nat /\ IsFiniteSet(1..C) /\ Cardinality(1..C) = C
  BY FS_CardinalityType, FS_Interval
<1>2. \A i \in S : rank[i] \in 1..C
  BY RankGrows
<1>3. \A i, k \in S : rank[i] = rank[k] => i = k
  <2> SUFFICES ASSUME NEW i \in S, NEW k \in S, i # k PROVE Rank(S, i) # Rank(S, k)
    OBVIOUS
  <2>1. Rank(S, i) \in 1..C /\ Rank(S, k) \in 1..C
    BY RankGrows
  <2>2. CASE i < k
    <3>1. Rank(S, i) < Rank(S, k)
      BY <2>2, RankGrows
    <3> QED BY <3>1, <2>1, <1>1
  <2>3. CASE k < i
    <3>1. Rank(S, k) < Rank(S, i)
      BY <2>3, RankGrows
    <3> QED BY <3>1, <2>1, <1>1
  <2> QED BY <2>2, <2>3
<1>4. rank \in Injection(S, 1..C)
  <2>1. rank \in [S -> 1..C]
    BY <1>2
  <2>2. \A i, k \in S : rank[i] = rank[k] => i = k
    BY <1>3
  <2>3. IsInjective(rank)
    BY <2>2 DEF IsInjective
  <2> HIDE DEF rank, C
  <2> QED BY <2>1, <2>3 DEF Injection
<1>5. rank \in Surjection(S, 1..C)
  <2> HIDE DEF rank
  <2> QED BY <1>4, <1>1, FS_Injection
<1>6. \A n \in 1..C : \E i \in S : Rank(S, i) = n
  BY <1>5 DEF Surjection
<1>7. ASSUME NEW n \in 1..C PROVE Nth(S, n) \in S /\ Rank(S, Nth(S, n)) = n
  <2>1. Nth(S, n) = CHOOSE i \in S : Rank(S, i) = n
    BY Zenon DEF Nth, Rank
  <2>2. \E i \in S : Rank(S, i) = n
    BY <1>6
  <2> QED BY <2>1, <2>2
<1>8. ASSUME NEW i \in S PROVE \E n \in 1..C : Nth(S, n) = i
  <2>1. PICK n \in 1..C : n = Rank(S, i)
    BY RankGrows
  <2>2. Nth(S, n) \in S /\ Rank(S, Nth(S, n)) = Rank(S, i)
    BY <1>7, <2>1
  <2>3. Nth(S, n) = i
    BY <2>2, <1>3
  <2> QED BY <2>1, <2>3
<1> QED BY <1>7, <1>8

LEMMA FilteredFacts ==
    ASSUME NEW q \in Queues, NEW S, S \subseteq DOMAIN q
    PROVE  Filtered(q, S) \in Queues /\ ToSet(Filtered(q, S)) = {q[i] : i \in S}
<1> DEFINE C == Cardinality(S)
           f == Filtered(q, S)
<1>1. q \in Seq(Kept) /\ DOMAIN q = 1..Len(q) /\ Len(q) \in Nat /\ \A i \in DOMAIN q : q[i] \in Kept
  BY QueueFacts
<1>2. S \in SUBSET Nat /\ IsFiniteSet(S) /\ C \in Nat
  <2>1. S \subseteq 1..Len(q) /\ IsFiniteSet(1..Len(q))
    BY <1>1, FS_Interval
  <2>2. IsFiniteSet(S)
    BY <2>1, FS_Subset
  <2> QED BY <2>1, <2>2, FS_CardinalityType
<1>3. /\ \A n \in 1..C : Nth(S, n) \in S /\ Rank(S, Nth(S, n)) = n
      /\ \A i \in S : \E n \in 1..C : Nth(S, n) = i
  BY <1>2, NthFacts
<1>4. DOMAIN f = 1..C /\ \A n \in 1..C : f[n] = q[Nth(S, n)]
  BY DEF Filtered
<1>5. f \in Seq(Kept)
  <2>1. f = [n \in 1..C |-> q[Nth(S, n)]]
    BY DEF Filtered
  <2>2. \A n \in 1..C : q[Nth(S, n)] \in Kept
    BY <1>1, <1>3
  <2> QED BY <2>1, <2>2, <1>2
<1>6. Distinct(f)
  <2> SUFFICES ASSUME NEW n \in 1..C, NEW k \in 1..C, q[Nth(S, n)].write = q[Nth(S, k)].write
               PROVE  n = k
    BY <1>4 DEF Distinct
  <2>1. Nth(S, n) \in DOMAIN q /\ Nth(S, k) \in DOMAIN q
    BY <1>3
  <2>2. Nth(S, n) = Nth(S, k)
    BY <2>1 DEF Queues, Distinct
  <2>3. Rank(S, Nth(S, n)) = n /\ Rank(S, Nth(S, k)) = k
    BY <1>3
  <2> QED BY <2>2, <2>3
<1>7. ToSet(f) = {q[i] : i \in S}
  <2> HIDE DEF f
  <2>1. ToSet(f) = {f[n] : n \in 1..C}
    BY <1>4 DEF ToSet
  <2>2. ASSUME NEW n \in 1..C PROVE f[n] \in {q[i] : i \in S}
    BY <1>3, <1>4
  <2>3. ASSUME NEW i \in S PROVE \E n \in 1..C : f[n] = q[i]
    BY <1>3, <1>4
  <2> QED BY <2>1, <2>2, <2>3
<1> QED BY <1>5, <1>6, <1>7 DEF Queues

LEMMA WaitingFacts ==
    ASSUME NEW q \in Queues
    PROVE  Waiting(q) \in Lists /\ ToSet(Waiting(q)) = {m \in ToSet(q) : Sendable(m)}
<1> DEFINE S == {i \in DOMAIN q : Sendable(q[i])}
<1>1. Waiting(q) \in Queues /\ ToSet(Waiting(q)) = {q[i] : i \in S}
  BY FilteredFacts DEF Waiting
<1>2. \A i \in DOMAIN q : q[i] \in Kept
  BY QueueFacts
<1>3. ToSet(Waiting(q)) = {m \in ToSet(q) : Sendable(m)}
  BY <1>1 DEF ToSet
<1>4. ToSet(Waiting(q)) \subseteq Copies
  BY <1>1, <1>2 DEF Copies
<1>5. Waiting(q) \in Seq(Copies)
  <2>1. PICK l \in Queues : l = Waiting(q)
    BY <1>1
  <2>2. l \in Seq(Kept) /\ DOMAIN l = 1..Len(l) /\ Len(l) \in Nat
    BY QueueFacts
  <2>3. \A i \in DOMAIN l : l[i] \in Copies
    BY <2>1, <1>4 DEF ToSet
  <2> QED BY <2>1, <2>2, <2>3
<1> QED BY <1>1, <1>3, <1>5 DEF Lists, Queues

LEMMA WithoutFacts ==
    ASSUME queue \in Queues, NEW w
    PROVE  Without(w) \in Queues /\ ToSet(Without(w)) = Others(ToSet(queue), w)
<1> DEFINE S == {i \in DOMAIN queue : queue[i].write # w}
<1>1. Without(w) \in Queues /\ ToSet(Without(w)) = {queue[i] : i \in S}
  BY FilteredFacts DEF Without
<1> QED BY <1>1 DEF ToSet, Others

-----------------------------------------------------------------------------
(* The operations on the queue, as sets of mutations *)

LEMMA MarkedFacts ==
    ASSUME NEW q \in Queues, NEW w
    PROVE  LET r == Processing(q, w) IN
           r \in Queues /\ ToSet(r) = Marked(ToSet(q), w)
<1> DEFINE r == Processing(q, w)
<1>1. /\ DOMAIN r = DOMAIN q /\ r = [i \in DOMAIN q |-> r[i]]
      /\ \A i \in DOMAIN q : r[i] = IF q[i].write = w THEN [q[i] EXCEPT !.status = "processing"] ELSE q[i]
  BY DEF Processing
<1> HIDE DEF r
<1>2. \A i \in DOMAIN q : q[i] \in Kept
  BY QueueFacts
<1>3. ASSUME NEW i \in DOMAIN q PROVE r[i] \in Kept /\ r[i].write = q[i].write
  <2>1. CASE q[i].write = w
    BY <2>1, <1>1, <1>2, MarkedKept
  <2>2. CASE q[i].write # w
    BY <2>2, <1>1, <1>2
  <2> QED BY <2>1, <2>2
<1>4. r \in Queues
  BY <1>1, <1>3, Rewritten
<1>5. ToSet(r) = Marked(ToSet(q), w)
  BY <1>1 DEF ToSet, Marked
<1> QED BY <1>4, <1>5 DEF r

LEMMA RetriedFacts ==
    ASSUME NEW q \in Queues, NEW w, NEW k \in 0..MaxRetries, NEW s \in {"failed", "pending"}
    PROVE  LET r == Retrying(q, w, s, k) IN
           r \in Queues /\ ToSet(r) = RetriedIn(ToSet(q), w, s, k)
<1> DEFINE r == Retrying(q, w, s, k)
<1>1. /\ DOMAIN r = DOMAIN q /\ r = [i \in DOMAIN q |-> r[i]]
      /\ \A i \in DOMAIN q : r[i] = IF q[i].write = w THEN Retried(q[i], s, k) ELSE q[i]
  BY DEF Retrying, Retried
<1> HIDE DEF r
<1>2. \A i \in DOMAIN q : q[i] \in Kept
  BY QueueFacts
<1>3. ASSUME NEW i \in DOMAIN q PROVE r[i] \in Kept /\ r[i].write = q[i].write
  <2>1. CASE q[i].write = w
    BY <2>1, <1>1, <1>2, RetriedKept
  <2>2. CASE q[i].write # w
    BY <2>2, <1>1, <1>2
  <2> QED BY <2>1, <2>2
<1>4. r \in Queues
  BY <1>1, <1>3, Rewritten
<1>5. ToSet(r) = RetriedIn(ToSet(q), w, s, k)
  BY <1>1 DEF ToSet, RetriedIn
<1> QED BY <1>4, <1>5 DEF r

LEMMA SwappedFacts ==
    ASSUME NEW q \in Queues, NEW w, NEW n \in Kept, n.write = w
    PROVE  LET r == Versioned(q, w, n) IN
           r \in Queues /\ ToSet(r) = Swapped(ToSet(q), w, n)
<1> DEFINE r == Versioned(q, w, n)
<1>1. /\ DOMAIN r = DOMAIN q /\ r = [i \in DOMAIN q |-> r[i]]
      /\ \A i \in DOMAIN q : r[i] = IF q[i].write = w THEN n ELSE q[i]
  BY DEF Versioned
<1> HIDE DEF r
<1>2. \A i \in DOMAIN q : q[i] \in Kept
  BY QueueFacts
<1>3. \A i \in DOMAIN q : r[i] \in Kept /\ r[i].write = q[i].write
  BY <1>1, <1>2
<1>4. r \in Queues
  BY <1>1, <1>3, Rewritten
<1>5. ToSet(r) = Swapped(ToSet(q), w, n)
  BY <1>1 DEF ToSet, Swapped
<1> QED BY <1>4, <1>5 DEF r

LEMMA AppendFacts ==
    ASSUME NEW q \in Queues, NEW m \in Kept, \A n \in ToSet(q) : n.write # m.write
    PROVE  Append(q, m) \in Queues /\ ToSet(Append(q, m)) = ToSet(q) \cup {m}
<1> DEFINE r == Append(q, m)
<1>1. q \in Seq(Kept) /\ DOMAIN q = 1..Len(q) /\ Len(q) \in Nat
      /\ \A i, j \in DOMAIN q : q[i].write = q[j].write => i = j
  BY QueueFacts
<1>2. /\ r \in Seq(Kept) /\ DOMAIN r = 1..(Len(q) + 1) /\ r[Len(q) + 1] = m
      /\ \A i \in 1..Len(q) : r[i] = q[i]
  BY <1>1
<1>3. \A i \in 1..Len(q) : q[i].write # m.write
  BY <1>1 DEF ToSet
<1> HIDE DEF r
<1>4. Distinct(r)
  <2> SUFFICES ASSUME NEW i \in 1..(Len(q) + 1), NEW j \in 1..(Len(q) + 1), r[i].write = r[j].write
               PROVE  i = j
    BY <1>2 DEF Distinct
  <2>1. CASE i = Len(q) + 1 /\ j # Len(q) + 1
    BY <2>1, <1>1, <1>2, <1>3
  <2>2. CASE i # Len(q) + 1 /\ j = Len(q) + 1
    BY <2>2, <1>1, <1>2, <1>3
  <2>3. CASE i # Len(q) + 1 /\ j # Len(q) + 1
    BY <2>3, <1>1, <1>2
  <2> QED BY <2>1, <2>2, <2>3
<1>5. ToSet(r) = ToSet(q) \cup {m}
  <2>1. ToSet(r) = {r[i] : i \in 1..(Len(q) + 1)} /\ ToSet(q) = {q[i] : i \in 1..Len(q)}
    BY <1>1, <1>2 DEF ToSet
  <2>2. \A i \in 1..(Len(q) + 1) : i \in 1..Len(q) \/ i = Len(q) + 1
    BY <1>1
  <2>3. \A i \in 1..Len(q) : i \in 1..(Len(q) + 1)
    BY <1>1
  <2>4. Len(q) + 1 \in 1..(Len(q) + 1)
    BY <1>1
  <2> QED BY <2>1, <2>2, <2>3, <2>4, <1>2
<1> QED BY <1>2, <1>4, <1>5 DEF Queues, r

LEMMA RemovedFacts ==
    ASSUME NEW q \in Queues, NEW i \in DOMAIN q
    PROVE  RemoveAt(q, i) \in Queues /\ ToSet(RemoveAt(q, i)) = Others(ToSet(q), q[i].write)
<1> DEFINE r == RemoveAt(q, i)
<1>1. q \in Seq(Kept) /\ DOMAIN q = 1..Len(q) /\ Len(q) \in Nat
      /\ \A j, k \in DOMAIN q : q[j].write = q[k].write => j = k
  BY QueueFacts
<1>2. /\ r \in Seq(Kept) /\ DOMAIN r = 1..(Len(q) - 1)
      /\ \A j \in 1..(Len(q) - 1) : r[j] = IF j < i THEN q[j] ELSE q[j + 1]
  <2>1. PICK a : a = SubSeq(q, 1, i - 1)
    OBVIOUS
  <2>2. PICK b : b = SubSeq(q, i + 1, Len(q))
    OBVIOUS
  <2>3. a \in Seq(Kept) /\ Len(a) = i - 1 /\ \A j \in 1..(i - 1) : a[j] = q[j]
    BY <1>1, <2>1
  <2>4. b \in Seq(Kept) /\ Len(b) = Len(q) - i /\ \A j \in 1..(Len(q) - i) : b[j] = q[i + j]
    <3>1. PICK lo : lo = i + 1
      OBVIOUS
    <3>2. PICK hi : hi = Len(q)
      OBVIOUS
    <3>3. lo \in Int /\ hi \in Int /\ b = SubSeq(q, lo, hi) /\ \A j \in lo..hi : q[j] \in Kept
      BY <1>1, <2>2, <3>1, <3>2
    <3>4. /\ b \in Seq(Kept) /\ Len(b) = IF lo <= hi THEN hi - lo + 1 ELSE 0
          /\ \A j \in 1..(hi - lo + 1) : b[j] = q[lo + j - 1]
      <4>1. lo \in Int /\ hi \in Int /\ \A j \in lo..hi : q[j] \in Kept
        BY <3>3
      <4>2. /\ SubSeq(q, lo, hi) \in Seq(Kept)
            /\ Len(SubSeq(q, lo, hi)) = IF lo <= hi THEN hi - lo + 1 ELSE 0
            /\ \A j \in 1..(hi - lo + 1) : SubSeq(q, lo, hi)[j] = q[lo + j - 1]
        BY <4>1, SubSeqProperties
      <4> QED BY <3>3, <4>2
    <3>5. hi - lo + 1 = Len(q) - i /\ i <= Len(q) /\ \A j \in 1..(Len(q) - i) : lo + j - 1 = i + j
      <4>1. PICK n \in Nat : n = Len(q)
        BY <1>1
      <4>2. i \in Int /\ i <= n /\ hi = n
        BY <1>1, <3>2, <4>1
      <4>3. hi - lo + 1 = n - i /\ \A j \in 1..(n - i) : lo + j - 1 = i + j
        BY <3>1, <4>2
      <4> QED BY <4>1, <4>2, <4>3
    <3>6. Len(b) = Len(q) - i
      <4>1. i \in Int /\ Len(q) \in Int /\ i <= Len(q)
        BY <1>1
      <4>2. Len(b) = IF lo <= hi THEN hi - lo + 1 ELSE 0
        BY <3>4
      <4> QED BY <3>1, <3>2, <4>1, <4>2
    <3>7. ASSUME NEW j \in 1..(Len(q) - i) PROVE b[j] = q[i + j]
      BY <3>4, <3>5
    <3> QED BY <3>4, <3>6, <3>7
  <2>5. r = a \o b
    BY <2>1, <2>2 DEF RemoveAt
  <2>6. r \in Seq(Kept) /\ Len(r) = Len(q) - 1 /\ i \in 1..Len(q)
    <3>1. a \in Seq(Kept) /\ b \in Seq(Kept)
      BY <2>3, <2>4
    <3>2. a \o b \in Seq(Kept) /\ Len(a \o b) = Len(a) + Len(b)
      BY <3>1
    <3>3. Len(a) + Len(b) = Len(q) - 1 /\ i \in 1..Len(q)
      BY <2>3, <2>4, <1>1
    <3> QED BY <3>2, <3>3, <2>5
  <2> HIDE DEF r
  <2>7. \A j \in 1..(Len(q) - 1) : r[j] = IF j <= i - 1 THEN a[j] ELSE b[j - (i - 1)]
    <3>1. \A j \in 1..(Len(a) + Len(b)) : (a \o b)[j] = IF j <= Len(a) THEN a[j] ELSE b[j - Len(a)]
      BY <2>3, <2>4, ConcatProperties
    <3>2. Len(a) + Len(b) = Len(q) - 1
      BY <2>3, <2>4, <1>1
    <3> QED BY <2>3, <2>5, <3>1, <3>2
  <2>8. ASSUME NEW j \in 1..(Len(q) - 1), j < i PROVE r[j] = q[j]
    <3>1. j \in 1..(i - 1) /\ j <= i - 1
      BY <2>6, <2>8, <1>1
    <3> QED BY <2>3, <2>7, <3>1
  <2>9. ASSUME NEW j \in 1..(Len(q) - 1), ~ (j < i) PROVE r[j] = q[j + 1]
    <3>1. j - (i - 1) \in 1..(Len(q) - i) /\ i + (j - (i - 1)) = j + 1 /\ ~ (j <= i - 1)
      BY <2>6, <2>9, <1>1
    <3> QED BY <2>4, <2>7, <3>1
  <2>10. DOMAIN r = 1..(Len(q) - 1)
    BY <2>6, <1>1
  <2> QED BY <2>6, <2>8, <2>9, <2>10
<1> HIDE DEF r
<1>3. Distinct(r)
  <2> SUFFICES ASSUME NEW j \in 1..(Len(q) - 1), NEW k \in 1..(Len(q) - 1), r[j].write = r[k].write
               PROVE  j = k
    BY <1>2 DEF Distinct
  <2>1. j \in DOMAIN q /\ k \in DOMAIN q /\ j + 1 \in DOMAIN q /\ k + 1 \in DOMAIN q
    BY <1>1
  <2>2. CASE j < i /\ k < i
    BY <2>1, <2>2, <1>1, <1>2
  <2>3. CASE j < i /\ ~ (k < i)
    <3>1. j = k + 1
      BY <2>1, <2>3, <1>1, <1>2
    <3> QED BY <3>1, <2>3, <1>1
  <2>4. CASE ~ (j < i) /\ k < i
    <3>1. j + 1 = k
      BY <2>1, <2>4, <1>1, <1>2
    <3> QED BY <3>1, <2>4, <1>1
  <2>5. CASE ~ (j < i) /\ ~ (k < i)
    <3>1. j + 1 = k + 1
      BY <2>1, <2>5, <1>1, <1>2
    <3> QED BY <3>1
  <2> QED BY <2>2, <2>3, <2>4, <2>5
<1>4. ASSUME NEW j \in 1..(Len(q) - 1) PROVE r[j] \in Others(ToSet(q), q[i].write)
  <2>1. PICK k \in DOMAIN q : r[j] = q[k] /\ k # i
    <3>1. CASE j < i
      BY <3>1, <1>1, <1>2
    <3>2. CASE ~ (j < i)
      <4>1. j + 1 \in DOMAIN q /\ j + 1 # i
        BY <3>2, <1>1
      <4> QED BY <4>1, <3>2, <1>2
    <3> QED BY <3>1, <3>2
  <2> QED BY <2>1, <1>1 DEF Others, ToSet
<1>5. ASSUME NEW m \in Others(ToSet(q), q[i].write) PROVE \E j \in 1..(Len(q) - 1) : r[j] = m
  <2>1. PICK k \in DOMAIN q : m = q[k] /\ k # i
    BY DEF Others, ToSet
  <2>2. CASE k < i
    BY <2>1, <2>2, <1>1, <1>2
  <2>3. CASE i < k
    <3>1. k - 1 \in 1..(Len(q) - 1) /\ ~ (k - 1 < i) /\ (k - 1) + 1 = k
      BY <2>1, <2>3, <1>1
    <3> QED BY <3>1, <2>1, <1>2
  <2> QED BY <2>1, <2>2, <2>3, <1>1
<1>6. ToSet(r) = Others(ToSet(q), q[i].write)
  BY <1>2, <1>4, <1>5 DEF ToSet
<1> QED BY <1>2, <1>3, <1>6 DEF Queues, r

LEMMA LeastFacts ==
    ASSUME NEW S \in SUBSET Nat, S # {}
    PROVE  Min(S) \in S
<1>1. PICK x \in S : \A y \in S : ~ (<<y, x>> \in OpToRel(<, Nat))
  BY NatLessThanWellFounded, WFMin, IsWellFoundedOnSubset
<1>2. \A y \in S : ~ (y < x)
  BY <1>1 DEF OpToRel
<1>3. \A y \in S : x <= y
  BY <1>2
<1> QED BY <1>3 DEF Min

-----------------------------------------------------------------------------
(* The invariant, of any stored set S, tabs T, requests W and so on; the   *)
(* tabs of B have sent the first mutation of their list                    *)

Listed(T, t) == ToSet(T[t].list)
Busy(T, t) == T[t].list # <<>>
Sending(T, t) == Head(T[t].list)

First(q) == q.waits /\ q.direct
Synced(q) == q.waits /\ ~ q.direct
Requested == {q \in Requests : IF q.write.kind = "create"
                               THEN q.edits = {q.write} /\ q.key \in KeyRecords /\ q.key.write = q.write
                               ELSE q.key = Nobody}
Savings == [key : KeyRecords \ {Nobody}, answer : Answers]

\* A write is first the user's, then on its first way, then stored, merged or done.
Phased(D, I, S, T, W) ==
    /\ D \subseteq I
    /\ \A m \in S : m.write \in I \ D
    /\ \A t \in Tabs : \A c \in Listed(T, t) : c.write \in I \ D
    /\ \A q \in W : q.write \in I

\* A request that is waited for is the first one of a write, or that of the first mutation in
\* its tab's list.
Awaits(B, D, T, W) ==
    /\ \A q \in W : First(q) => q.write \in D /\ q.edits = {q.write} /\ q.tab = q.write.tab
    /\ \A q, r \in W : First(q) /\ First(r) /\ q.write = r.write => q = r
    /\ \A q \in W : Synced(q) => /\ q.tab \in B /\ Busy(T, q.tab)
                                 /\ q.write = Sending(T, q.tab).write /\ q.edits = Sending(T, q.tab).edits
    /\ \A q, r \in W : Synced(q) /\ Synced(r) /\ q.tab = r.tab => q = r

\* The copies of a mutation and the stored one agree on every edit that must not get lost.
Same(E, m, n) == m.edits \ E = n.edits \ E
Copied(E, S, T) ==
    \A t \in Tabs : \A c \in Listed(T, t) :
        /\ \A m \in S : m.write = c.write => Same(E, m, c)
        /\ \A u \in Tabs : \A d \in Listed(T, u) : d.write = c.write => Same(E, c, d)

\* An answer of success, on its way or kept for later, is about edits that took effect.
Truthful(A, W, C) ==
    /\ \A q \in W : q.stage = "answered" /\ q.answer.ok => q.edits \subseteq A
    /\ \A c \in C : c.answer.ok => c.key.write \in A

Held(D, I, E, A, S) == \A w \in I \ (D \cup E) : w \in A \/ \E m \in S : w \in m.edits

\* One tab at a time sends, and each mutation is sent as often as it was tried.
Tried(m) == m.retry + (IF m.status = "processing" THEN 1 ELSE 0)
Leading(T, L) == \A t \in Tabs : Busy(T, t) => L = t
Backed(B, S, T) ==
    \A t \in Tabs : \A c \in Listed(T, t) : \E m \in S :
        /\ m.write = c.write /\ m.retry = c.retry
        /\ m.status = "processing" <=> t \in B /\ Sending(T, t).write = m.write
Spent(S, N) == \A m \in S : N[m.write] <= Tried(m) /\ Tried(m) <= MaxRetries
Bounded(D, I, N) ==
    /\ \A w \in Writes : N[w] <= MaxRetries
    /\ \A w \in Writes : w \notin I \/ w \in D => N[w] = 0
Turn(B, D, I, S, T, L, N) == Leading(T, L) /\ Backed(B, S, T) /\ Spent(S, N) /\ Bounded(D, I, N)

StrandedIn(B, S, T) == {m \in S : /\ m.status = "processing"
                                  /\ \A t \in B : Busy(T, t) => Sending(T, t).write # m.write}

Client(B, D, I, E, A, S, T, W) ==
    Phased(D, I, S, T, W) /\ Awaits(B, D, T, W) /\ Copied(E, S, T) /\ Held(D, I, E, A, S)

-----------------------------------------------------------------------------
(* Sending *)

LEMMA MarkedMembers ==
    ASSUME NEW S \in SUBSET Kept, NEW w
    PROVE  /\ \A n \in Marked(S, w) : \E m \in S :
                /\ n.write = m.write /\ n.edits = m.edits /\ n.retry = m.retry
                /\ n.write = w => n.status = "processing"
                /\ n.write # w => n = m
           /\ \A m \in S : \E n \in Marked(S, w) :
                /\ n.write = m.write /\ n.edits = m.edits /\ n.retry = m.retry
                /\ n.write = w => n.status = "processing"
                /\ n.write # w => n = m
<1> DEFINE g(m) == IF m.write = w THEN [m EXCEPT !.status = "processing"] ELSE m
           Kin(n, m) == /\ n.write = m.write /\ n.edits = m.edits /\ n.retry = m.retry
                        /\ n.write = w => n.status = "processing"
                        /\ n.write # w => n = m
<1>1. ASSUME NEW m \in S PROVE Kin(g(m), m)
  <2>1. CASE m.write = w
    BY <2>1, MarkedKept
  <2>2. CASE m.write # w
    BY <2>2
  <2> QED BY <2>1, <2>2
<1>2. Marked(S, w) = {g(m) : m \in S}
  BY DEF Marked
<1> HIDE DEF g, Kin
<1>3. /\ \A n \in Marked(S, w) : \E m \in S : Kin(n, m)
      /\ \A m \in S : \E n \in Marked(S, w) : Kin(n, m)
  BY <1>1, <1>2
<1> QED BY <1>3 DEF Kin

LEMMA FrontListed ==
    ASSUME NEW T \in [Tabs -> TabRecords], NEW t \in Tabs, Busy(T, t)
    PROVE  Sending(T, t) \in Listed(T, t) /\ Sending(T, t) \in Copies /\ Sending(T, t) \in Kept
<1>1. T[t].list \in Lists
  BY DEF TabRecords
<1> QED BY <1>1, ListFacts DEF Busy, Sending, Listed, Copies

LEMMA ClientSent ==
    ASSUME NEW D, NEW I, NEW E, NEW A, NEW S \in SUBSET Kept, NEW T \in [Tabs -> TabRecords], NEW W,
           NEW t \in Tabs, Busy(T, t), Client(Tabs \ {t}, D, I, E, A, S, T, W),
           NEW r, Synced(r), r.tab = t, r.write = Sending(T, t).write, r.edits = Sending(T, t).edits
    PROVE  Client(Tabs, D, I, E, A, Marked(S, r.write), T, W \cup {r})
<1> USE DEF Client
<1>1. PICK S2 : S2 = Marked(S, r.write)
  OBVIOUS
<1>2. \A n \in S2 : \E m \in S : n.write = m.write /\ n.edits = m.edits
  BY <1>1, MarkedMembers
<1>3. \A m \in S : \E n \in S2 : n.write = m.write /\ n.edits = m.edits
  BY <1>1, MarkedMembers
<1>4. Sending(T, t) \in Listed(T, t)
  BY FrontListed
<1>5. Phased(D, I, S2, T, W \cup {r})
  BY <1>2, <1>4 DEF Phased
<1>6. Awaits(Tabs, D, T, W \cup {r})
  <2>1. \A q \in W : First(q) => q # r
    BY DEF First, Synced
  <2>2. \A q \in W : Synced(q) => q.tab # t /\ q.tab \in Tabs
    BY DEF Awaits
  <2> QED BY <2>1, <2>2 DEF Awaits, First, Synced
<1>7. Copied(E, S2, T)
  BY <1>2 DEF Copied, Same
<1>8. Held(D, I, E, A, S2)
  BY <1>3 DEF Held
<1> QED BY <1>1, <1>5, <1>6, <1>7, <1>8

LEMMA StrandedSent ==
    ASSUME NEW S \in SUBSET Kept, NEW T \in [Tabs -> TabRecords], NEW t \in Tabs, Busy(T, t)
    PROVE  StrandedIn(Tabs, Marked(S, Sending(T, t).write), T) \subseteq StrandedIn(Tabs \ {t}, S, T)
<1> SUFFICES ASSUME NEW n \in StrandedIn(Tabs, Marked(S, Sending(T, t).write), T)
             PROVE  n \in StrandedIn(Tabs \ {t}, S, T)
  OBVIOUS
<1>1. n.write # Sending(T, t).write
  BY DEF StrandedIn
<1>2. n \in S
  BY <1>1, MarkedMembers DEF StrandedIn
<1> QED BY <1>2 DEF StrandedIn

LEMMA TurnSent ==
    ASSUME NEW D, NEW I, NEW S \in SUBSET Kept, NEW T \in [Tabs -> TabRecords], NEW L,
           NEW N \in [Writes -> Nat], NEW t \in Tabs, Busy(T, t), Unique(S),
           Turn(Tabs \ {t}, D, I, S, T, L, N), Sending(T, t).write \in I \ D
    PROVE  Turn(Tabs, D, I, Marked(S, Sending(T, t).write), T, L, [N EXCEPT ![Sending(T, t).write] = @ + 1])
<1>1. PICK w : w = Sending(T, t).write
  OBVIOUS
<1>2. PICK S2 : S2 = Marked(S, w)
  OBVIOUS
<1>3. PICK N2 : N2 = [N EXCEPT ![w] = @ + 1]
  OBVIOUS
<1>4. Sending(T, t) \in Listed(T, t) /\ Sending(T, t) \in Copies /\ w \in Writes
  BY <1>1, FrontListed, KeptFacts
<1>5. /\ N2 \in [Writes -> Nat] /\ N2[w] = N[w] + 1
      /\ \A v \in Writes : v # w => N2[v] = N[v]
  BY <1>3, <1>4
<1>6. PICK m \in S : m.write = w /\ m.retry = Sending(T, t).retry /\ m.status # "processing"
  BY <1>1, <1>4 DEF Turn, Backed
<1>7. m.retry < MaxRetries /\ m.retry \in Nat /\ MaxRetries \in Nat /\ N[w] <= m.retry
  <2>1. Sending(T, t).retry < MaxRetries /\ Sending(T, t).retry \in Nat
    BY <1>4, KeptFacts DEF Copies, Sendable
  <2>2. N[w] <= Tried(m) /\ Tried(m) = m.retry + 0
    BY <1>6 DEF Turn, Spent, Tried
  <2> QED BY <2>1, <2>2, <1>6, OfflineAssumption
<1>8. \A u \in Tabs : Busy(T, u) => L = u
  BY DEF Turn, Leading
<1>9. \A u \in Tabs : Busy(T, u) => u = t
  BY <1>8
<1>10. ASSUME NEW u \in Tabs, NEW c \in Listed(T, u)
       PROVE  \E n \in S2 : /\ n.write = c.write /\ n.retry = c.retry
                            /\ n.status = "processing" <=> u \in Tabs /\ Sending(T, u).write = n.write
  <2>1. u = t
    <3>1. T[u].list \in Lists
      BY DEF TabRecords
    <3>2. Busy(T, u)
      BY <3>1, ListFacts DEF Busy, Listed
    <3> QED BY <3>2, <1>9
  <2>2. PICK k \in S : /\ k.write = c.write /\ k.retry = c.retry
                       /\ k.status # "processing"
    BY <2>1 DEF Turn, Backed
  <2>3. PICK n \in S2 : /\ n.write = k.write /\ n.retry = k.retry
                        /\ n.write = w => n.status = "processing"
                        /\ n.write # w => n = k
    BY <1>2, MarkedMembers
  <2>4. CASE n.write = w
    BY <2>1, <2>2, <2>3, <2>4, <1>1
  <2>5. CASE n.write # w
    BY <2>1, <2>2, <2>3, <2>5, <1>1
  <2> QED BY <2>4, <2>5
<1>11. ASSUME NEW n \in S2 PROVE N2[n.write] <= Tried(n) /\ Tried(n) <= MaxRetries
  <2>1. PICK k \in S : /\ n.write = k.write /\ n.retry = k.retry
                       /\ n.write = w => n.status = "processing"
                       /\ n.write # w => n = k
    BY <1>2, MarkedMembers
  <2>2. CASE n.write = w
    <3>1. k = m
      BY <2>1, <2>2, <1>6 DEF Unique
    <3>2. Tried(n) = m.retry + 1
      BY <3>1, <2>1, <2>2 DEF Tried
    <3> QED BY <3>2, <2>2, <1>5, <1>7, <1>4
  <2>3. CASE n.write # w
    <3>1. n = k /\ k.write \in Writes
      BY <2>1, <2>3, KeptFacts
    <3> QED BY <3>1, <2>3, <1>5 DEF Turn, Spent
  <2> QED BY <2>2, <2>3
<1>12. \A v \in Writes : N2[v] <= MaxRetries
  <2>1. N2[w] <= MaxRetries
    BY <1>5, <1>7, <1>4
  <2> QED BY <2>1, <1>5 DEF Turn, Bounded
<1>13. \A v \in Writes : v \notin I \/ v \in D => N2[v] = 0
  BY <1>1, <1>5 DEF Turn, Bounded
<1>14. Turn(Tabs, D, I, S2, T, L, N2)
  BY <1>8, <1>10, <1>11, <1>12, <1>13 DEF Turn, Leading, Backed, Spent, Bounded
<1> QED BY <1>1, <1>2, <1>3, <1>14

LEMMA RequestFacts ==
    ASSUME NEW t \in Tabs, NEW m \in Copies, NEW ids \in [Objects -> Nat]
    PROVE  LET r == Request(t, m, ids) IN
           /\ r \in Requested /\ Synced(r) /\ r.tab = t /\ r.stage = "sent"
           /\ r.write = m.write /\ r.edits = m.edits
<1> DEFINE r == Request(t, m, ids)
<1>1. /\ m \in Mutations /\ m.write \in Writes /\ m.edits \in SUBSET Writes
      /\ m.retry \in 0..MaxRetries /\ m.key \in KeyRecords /\ m.key.write = m.write
      /\ m.write.kind = "create" => m.edits = {m.write}
  BY KeptFacts DEF Copies
<1>2. /\ r.tab = t /\ r.waits = TRUE /\ r.direct = FALSE /\ r.write = m.write /\ r.edits = m.edits
      /\ r.stage = "sent"
      /\ r.key = IF m.write.kind = "create" THEN m.key ELSE Nobody
  BY DEF Request
<1>3. r \in Requests
  <2>1. m.write.obj \in Objects
    BY <1>1, OfflineAssumption
  <2>2. <<m.write.obj, IF m.write.kind = "create" THEN 0 ELSE ids[m.write.obj]>> \in Ids
    BY <2>1 DEF Ids
  <2>3. (IF m.write.kind = "create" THEN m.key ELSE Nobody) \in Keys
    BY <1>1 DEF Keys, KeyRecords
  <2>4. None \in Answers
    BY DEF None, Answers
  <2> QED BY <1>1, <2>2, <2>3, <2>4 DEF Request, Requests
<1>4. r \in Requested
  <2> HIDE DEF r
  <2> QED BY <1>1, <1>2, <1>3 DEF Requested
<1> QED BY <1>2, <1>4 DEF Synced

\* What sending leaves behind, if all was well but that tab t had sent nothing yet.
LEMMA SendKeeps ==
    ASSUME NEW t \in Tabs, NEW state \in TabRecords, NEW q \in Queues, NEW w \in SUBSET Requested,
           tab \in [Tabs -> TabRecords], sends \in [Writes -> Nat], Send(t, state, q, w),
           NEW D, NEW I, NEW E, NEW A, NEW T, T = tab',
           Client(Tabs \ {t}, D, I, E, A, ToSet(q), T, w)
    PROVE  /\ queue' \in Queues /\ tab' = T /\ T \in [Tabs -> TabRecords]
           /\ wire' \in SUBSET Requested /\ sends' \in [Writes -> Nat]
           /\ \A r \in wire' : r \in w \/ r.stage = "sent"
           /\ Client(Tabs, D, I, E, A, ToSet(queue'), T, wire')
           /\ StrandedIn(Tabs, ToSet(queue'), T) \subseteq StrandedIn(Tabs \ {t}, ToSet(q), T)
<1>1. T \in [Tabs -> TabRecords] /\ T[t] = state /\ tab' = T
  BY DEF Send
<1>2. CASE state.list = <<>>
  <2>1. queue' = q /\ wire' = w /\ sends' = sends
    BY <1>2 DEF Send
  <2>2. ~ Busy(T, t) /\ Listed(T, t) = {}
    BY <1>1, <1>2 DEF Busy, Listed, ToSet
  <2>3. Client(Tabs, D, I, E, A, ToSet(q), T, w)
    BY DEF Client, Awaits
  <2>5. StrandedIn(Tabs, ToSet(q), T) \subseteq StrandedIn(Tabs \ {t}, ToSet(q), T)
    BY <2>2 DEF StrandedIn
  <2> QED BY <1>1, <2>1, <2>3, <2>5
<1>3. CASE state.list # <<>>
  <2>1. PICK m : m = Head(state.list)
    OBVIOUS
  <2>2. PICK r : r = Request(t, m, state.ids)
    OBVIOUS
  <2>3. /\ queue' = Processing(q, m.write)
        /\ wire' = w \cup {r}
        /\ sends' = [sends EXCEPT ![m.write] = @ + 1]
    BY <1>3, <2>1, <2>2 DEF Send
  <2>4. Busy(T, t) /\ Sending(T, t) = m
    BY <1>1, <1>3, <2>1 DEF Busy, Sending
  <2>5. m \in Listed(T, t) /\ m \in Copies /\ m.write \in Writes
    BY <1>1, <2>4, FrontListed, KeptFacts
  <2>6. /\ r \in Requested /\ Synced(r) /\ r.tab = t /\ r.stage = "sent"
        /\ r.write = m.write /\ r.edits = m.edits
    BY <2>2, <2>5, RequestFacts DEF TabRecords
  <2>7. queue' \in Queues /\ ToSet(queue') = Marked(ToSet(q), m.write)
    BY <2>3, MarkedFacts
  <2>8. ToSet(q) \in SUBSET Kept /\ Unique(ToSet(q))
    BY QueueFacts
  <2>9. Client(Tabs, D, I, E, A, ToSet(queue'), T, wire')
    <3>1. Client(Tabs, D, I, E, A, Marked(ToSet(q), r.write), T, w \cup {r})
      BY <1>1, <2>4, <2>6, <2>8, ClientSent
    <3> QED BY <3>1, <2>3, <2>6, <2>7
  <2>10. m.write \in I \ D
    BY <2>5 DEF Client, Phased
  <2>12. StrandedIn(Tabs, ToSet(queue'), T) \subseteq StrandedIn(Tabs \ {t}, ToSet(q), T)
    BY <1>1, <2>4, <2>7, <2>8, StrandedSent
  <2>13. sends' \in [Writes -> Nat]
    BY <2>3, <2>5
  <2> QED BY <1>1, <2>3, <2>6, <2>7, <2>9, <2>12, <2>13
<1> QED BY <1>2, <1>3

LEMMA SendTurn ==
    ASSUME NEW t \in Tabs, NEW state \in TabRecords, NEW q \in Queues, NEW w \in SUBSET Requested,
           tab \in [Tabs -> TabRecords], sends \in [Writes -> Nat], Send(t, state, q, w),
           NEW D, NEW I, NEW L, NEW T, T = tab',
           \A c \in Listed(T, t) : c.write \in I \ D,
           Turn(Tabs \ {t}, D, I, ToSet(q), T, L, sends)
    PROVE  Turn(Tabs, D, I, ToSet(queue'), T, L, sends')
<1>1. T \in [Tabs -> TabRecords] /\ T[t] = state
  BY DEF Send
<1>2. CASE state.list = <<>>
  <2>1. queue' = q /\ sends' = sends
    BY <1>2 DEF Send
  <2>2. Listed(T, t) = {}
    BY <1>1, <1>2 DEF Listed, ToSet
  <2>3. ASSUME NEW u \in Tabs, NEW c \in Listed(T, u)
        PROVE  \E n \in ToSet(q) :
                  /\ n.write = c.write /\ n.retry = c.retry
                  /\ n.status = "processing" <=> u \in Tabs /\ Sending(T, u).write = n.write
    <3>1. u \in Tabs \ {t}
      BY <2>2
    <3>2. PICK n \in ToSet(q) :
                  /\ n.write = c.write /\ n.retry = c.retry
                  /\ n.status = "processing" <=> u \in Tabs \ {t} /\ Sending(T, u).write = n.write
      BY DEF Turn, Backed
    <3> QED BY <3>1, <3>2
  <2>4. Backed(Tabs, ToSet(q), T)
    BY <2>3 DEF Backed
  <2> QED BY <2>1, <2>4 DEF Turn
<1>3. CASE state.list # <<>>
  <2>1. PICK m : m = Head(state.list)
    OBVIOUS
  <2>2. /\ queue' = Processing(q, m.write)
        /\ sends' = [sends EXCEPT ![m.write] = @ + 1]
    BY <1>3, <2>1 DEF Send
  <2>3. Busy(T, t) /\ Sending(T, t) = m
    BY <1>1, <1>3, <2>1 DEF Busy, Sending
  <2>4. m \in Listed(T, t) /\ m.write \in I \ D
    BY <1>1, <2>3, FrontListed
  <2>5. ToSet(queue') = Marked(ToSet(q), m.write)
    BY <2>2, MarkedFacts
  <2>6. ToSet(q) \in SUBSET Kept /\ Unique(ToSet(q))
    BY QueueFacts
  <2>7. Turn(Tabs, D, I, Marked(ToSet(q), Sending(T, t).write), T, L,
               [sends EXCEPT ![Sending(T, t).write] = @ + 1])
    BY <1>1, <2>3, <2>4, <2>6, TurnSent
  <2> QED BY <2>2, <2>3, <2>5, <2>7
<1> QED BY <1>2, <1>3

\* Only the lists of the tabs matter.
LEMMA SameLists ==
    ASSUME NEW T, NEW U, \A u \in Tabs : U[u].list = T[u].list,
           NEW B \in SUBSET Tabs, NEW D, NEW I, NEW E, NEW A, NEW S, NEW W,
           Client(B, D, I, E, A, S, T, W)
    PROVE  Client(B, D, I, E, A, S, U, W)
<1>1. \A u \in Tabs : Listed(U, u) = Listed(T, u) /\ (Busy(U, u) <=> Busy(T, u)) /\ Sending(U, u) = Sending(T, u)
  BY DEF Listed, Busy, Sending
<1>2. Phased(D, I, S, U, W)
  BY <1>1 DEF Client, Phased
<1>3. Awaits(B, D, U, W)
  BY <1>1 DEF Client, Awaits
<1>4. Copied(E, S, U)
  BY <1>1 DEF Client, Copied
<1> QED BY <1>2, <1>3, <1>4 DEF Client

LEMMA SameTurn ==
    ASSUME NEW T, NEW U, \A u \in Tabs : U[u].list = T[u].list,
           NEW B \in SUBSET Tabs, NEW D, NEW I, NEW S, NEW L, NEW N, Turn(B, D, I, S, T, L, N)
    PROVE  Turn(B, D, I, S, U, L, N)
<1>1. \A u \in Tabs : Listed(U, u) = Listed(T, u) /\ (Busy(U, u) <=> Busy(T, u)) /\ Sending(U, u) = Sending(T, u)
  BY DEF Listed, Busy, Sending
<1>2. Leading(U, L)
  BY <1>1 DEF Turn, Leading
<1>3. Backed(B, S, U)
  BY <1>1 DEF Turn, Backed
<1> QED BY <1>2, <1>3 DEF Turn

LEMMA SameStranded ==
    ASSUME NEW T, NEW U, \A u \in Tabs : U[u].list = T[u].list, NEW B \in SUBSET Tabs, NEW S
    PROVE  StrandedIn(B, S, U) = StrandedIn(B, S, T)
  BY DEF StrandedIn, Busy, Sending

\* A sync that begins takes copies of what waits.
LEMMA Taken ==
    ASSUME NEW T \in [Tabs -> TabRecords], NEW U \in [Tabs -> TabRecords], NEW t \in Tabs, ~ Busy(T, t),
           \A u \in Tabs \ {t} : U[u].list = T[u].list,
           NEW S, Unique(S), Listed(U, t) = {m \in S : Sendable(m)},
           NEW D, NEW I, NEW E, NEW A, NEW L, NEW N, NEW W, Client(Tabs, D, I, E, A, S, T, W)
    PROVE  /\ Client(Tabs \ {t}, D, I, E, A, S, U, W)
           /\ L \in {t, Nobody} /\ Turn(Tabs, D, I, S, T, L, N) => Turn(Tabs \ {t}, D, I, S, U, t, N)
           /\ StrandedIn(Tabs \ {t}, S, U) \subseteq StrandedIn(Tabs, S, T)
<1>1. \A u \in Tabs \ {t} : Listed(U, u) = Listed(T, u) /\ (Busy(U, u) <=> Busy(T, u)) /\ Sending(U, u) = Sending(T, u)
  BY DEF Listed, Busy, Sending
<1>2. \A c \in Listed(U, t) : c \in S
  OBVIOUS
<1>3. Client(Tabs \ {t}, D, I, E, A, S, U, W)
  <2>1. Phased(D, I, S, U, W)
    BY <1>1, <1>2 DEF Client, Phased
  <2>2. Awaits(Tabs \ {t}, D, U, W)
    <3>1. \A q \in W : Synced(q) => q.tab \in Tabs \ {t}
      BY DEF Client, Awaits
    <3> QED BY <1>1, <3>1 DEF Client, Awaits
  <2>3. Copied(E, S, U)
    <3> SUFFICES ASSUME NEW u \in Tabs, NEW c \in Listed(U, u)
                 PROVE  /\ \A m \in S : m.write = c.write => Same(E, m, c)
                        /\ \A v \in Tabs : \A d \in Listed(U, v) : d.write = c.write => Same(E, c, d)
      BY DEF Copied
    <3>1. CASE u = t
      <4>1. c \in S
        BY <3>1, <1>2
      <4>2. \A m \in S : m.write = c.write => Same(E, m, c)
        BY <4>1 DEF Unique, Same
      <4>3. ASSUME NEW v \in Tabs, NEW d \in Listed(U, v), d.write = c.write PROVE Same(E, c, d)
        <5>1. CASE v = t
          BY <5>1, <4>1, <4>3, <1>2 DEF Unique, Same
        <5>2. CASE v # t
          BY <5>2, <4>1, <4>3, <1>1 DEF Client, Copied
        <5> QED BY <5>1, <5>2
      <4> QED BY <4>2, <4>3
    <3>2. CASE u # t
      <4>1. \A m \in S : m.write = c.write => Same(E, m, c)
        BY <3>2, <1>1 DEF Client, Copied
      <4>2. ASSUME NEW v \in Tabs, NEW d \in Listed(U, v), d.write = c.write PROVE Same(E, c, d)
        <5>1. CASE v = t
          BY <5>1, <4>1, <4>2, <1>2 DEF Same
        <5>2. CASE v # t
          BY <5>2, <3>2, <4>2, <1>1 DEF Client, Copied
        <5> QED BY <5>1, <5>2
      <4> QED BY <4>1, <4>2
    <3> QED BY <3>1, <3>2
  <2> QED BY <2>1, <2>2, <2>3 DEF Client
<1>4. ASSUME L \in {t, Nobody}, Turn(Tabs, D, I, S, T, L, N)
      PROVE  Turn(Tabs \ {t}, D, I, S, U, t, N)
  <2>1. \A u \in Tabs : ~ Busy(T, u)
    BY <1>4, OfflineAssumption DEF Turn, Leading
  <2>2. \A u \in Tabs : Busy(U, u) => u = t
    BY <2>1, <1>1
  <2>3. \A u \in Tabs : \A c \in Listed(U, u) : u = t
    <3> SUFFICES ASSUME NEW u \in Tabs, NEW c \in Listed(U, u) PROVE Busy(U, u)
      BY <2>2
    <3>1. U[u].list \in Lists
      BY DEF TabRecords
    <3> QED BY <3>1, ListFacts DEF Busy, Listed
  <2>4. \A c \in Listed(U, t) : c \in S /\ c.status # "processing"
    BY DEF Sendable
  <2>5. Leading(U, t)
    BY <2>2 DEF Leading
  <2>6. Backed(Tabs \ {t}, S, U)
    BY <2>3, <2>4 DEF Backed
  <2> QED BY <1>4, <2>5, <2>6 DEF Turn
<1>5. StrandedIn(Tabs \ {t}, S, U) \subseteq StrandedIn(Tabs, S, T)
  BY <1>1 DEF StrandedIn
<1> QED BY <1>3, <1>4, <1>5

\* What syncPendingMutations leaves behind, whether it begins or not.
LEMMA SyncKeeps ==
    ASSUME NEW t \in Tabs, NEW state \in TabRecords, state.list = tab[t].list,
           NEW q \in Queues, NEW w \in SUBSET Requested,
           tab \in [Tabs -> TabRecords], sends \in [Writes -> Nat], leader \in Tabs \cup {Nobody, Gone},
           Sync(t, state, q, w),
           NEW D, NEW I, NEW E, NEW A, Client(Tabs, D, I, E, A, ToSet(q), tab, w)
    PROVE  /\ queue' \in Queues /\ tab' \in [Tabs -> TabRecords]
           /\ wire' \in SUBSET Requested /\ sends' \in [Writes -> Nat] /\ leader' \in Tabs \cup {Nobody, Gone}
           /\ \A r \in wire' : r \in w \/ r.stage = "sent"
           /\ Client(Tabs, D, I, E, A, ToSet(queue'), tab', wire')
           /\ Turn(Tabs, D, I, ToSet(q), tab, leader, sends)
                        => Turn(Tabs, D, I, ToSet(queue'), tab', leader', sends')
           /\ StrandedIn(Tabs, ToSet(queue'), tab') \subseteq StrandedIn(Tabs, ToSet(q), tab)
<1>1. CASE state.list = <<>> /\ state.online /\ Leads(t)
  <2>1. PICK s : s = [state EXCEPT !.list = Waiting(q)]
    OBVIOUS
  <2>2. leader' = t /\ Send(t, s, q, w) /\ leader \in {t, Nobody}
    BY <1>1, <2>1 DEF Sync, Leads
  <2>3. s \in TabRecords /\ s.list = Waiting(q) /\ ToSet(s.list) = {m \in ToSet(q) : Sendable(m)}
    <3>1. Waiting(q) \in Lists /\ ToSet(Waiting(q)) = {m \in ToSet(q) : Sendable(m)}
      BY WaitingFacts
    <3> QED BY <2>1, <3>1 DEF TabRecords
  <2>4. PICK T : T = tab'
    OBVIOUS
  <2>5. T \in [Tabs -> TabRecords] /\ T[t] = s /\ \A u \in Tabs \ {t} : T[u] = tab[u]
    BY <2>2, <2>3, <2>4 DEF Send
  <2>6. ~ Busy(tab, t) /\ Unique(ToSet(q)) /\ Listed(T, t) = {m \in ToSet(q) : Sendable(m)}
    BY <1>1, <2>3, <2>5, QueueFacts DEF Busy, Listed
  <2>7. /\ Client(Tabs \ {t}, D, I, E, A, ToSet(q), T, w)
        /\ Turn(Tabs, D, I, ToSet(q), tab, leader, sends) => Turn(Tabs \ {t}, D, I, ToSet(q), T, t, sends)
        /\ StrandedIn(Tabs \ {t}, ToSet(q), T) \subseteq StrandedIn(Tabs, ToSet(q), tab)
    BY <2>2, <2>5, <2>6, Taken
  <2>8. /\ queue' \in Queues /\ tab' = T
        /\ wire' \in SUBSET Requested /\ sends' \in [Writes -> Nat]
        /\ \A r \in wire' : r \in w \/ r.stage = "sent"
        /\ Client(Tabs, D, I, E, A, ToSet(queue'), T, wire')
        /\ StrandedIn(Tabs, ToSet(queue'), T) \subseteq StrandedIn(Tabs \ {t}, ToSet(q), T)
    BY <2>2, <2>3, <2>4, <2>7, SendKeeps
  <2>9. ASSUME Turn(Tabs, D, I, ToSet(q), tab, leader, sends)
        PROVE  Turn(Tabs, D, I, ToSet(queue'), T, t, sends')
    <3>1. Turn(Tabs \ {t}, D, I, ToSet(q), T, t, sends)
      BY <2>7, <2>9
    <3>2. \A c \in Listed(T, t) : c.write \in I \ D
      BY <2>7 DEF Client, Phased
    <3> QED BY <2>2, <2>3, <2>4, <3>1, <3>2, SendTurn
  <2> QED BY <2>2, <2>5, <2>7, <2>8, <2>9
<1>2. CASE ~ (state.list = <<>> /\ state.online /\ Leads(t))
  <2>1. tab' = [tab EXCEPT ![t] = state] /\ queue' = q /\ wire' = w /\ leader' = leader /\ sends' = sends
    BY <1>2 DEF Sync
  <2>2. tab' \in [Tabs -> TabRecords] /\ \A u \in Tabs : tab'[u].list = tab[u].list
    BY <2>1
  <2>3. PICK T : T = tab'
    OBVIOUS
  <2>4. \A u \in Tabs : T[u].list = tab[u].list
    BY <2>2, <2>3
  <2>5. Client(Tabs, D, I, E, A, ToSet(q), T, w)
    BY <2>4, SameLists
  <2>6. ASSUME Turn(Tabs, D, I, ToSet(q), tab, leader, sends)
        PROVE  Turn(Tabs, D, I, ToSet(q), T, leader, sends)
    BY <2>4, <2>6, SameTurn
  <2>7. StrandedIn(Tabs, ToSet(q), T) = StrandedIn(Tabs, ToSet(q), tab)
    BY <2>4, SameStranded
  <2> QED BY <2>1, <2>2, <2>3, <2>5, <2>6, <2>7
<1> QED BY <1>1, <1>2

-----------------------------------------------------------------------------
(* An answer, or its loss, settles the mutation that was sent *)

\* What may become of the stored set S: the mutation of which f is the copy was tried once
\* more, or is gone because its edits are done or excused.
Settled(S, S2, E, A, f) ==
    /\ \A n \in S2 : n.write # f.write => n \in S
    /\ \A m \in S : m.write # f.write => m \in S2
    /\ \A n \in S2 : n.write = f.write =>
          /\ n.status # "processing" /\ n.retry = f.retry + 1
          /\ \E m \in S : m.write = f.write /\ Same(E, m, n)
    /\ \A m \in S : m.write = f.write =>
          m.edits \subseteq A \cup E \/ \E n \in S2 : n.write = f.write /\ Same(E, m, n)

\* The rest of the list stays.
Shortened(T, U, t) ==
    /\ \A u \in Tabs \ {t} : U[u].list = T[u].list
    /\ Listed(U, t) = Others(Listed(T, t), Sending(T, t).write)

LEMMA SameMore ==
    ASSUME NEW E, NEW F, E \subseteq F, NEW m, NEW n, Same(E, m, n)
    PROVE  Same(F, m, n)
  BY DEF Same

LEMMA SettledKeeps ==
    ASSUME NEW T \in [Tabs -> TabRecords], NEW U, NEW t \in Tabs, Shortened(T, U, t),
           NEW D, NEW I, NEW E, NEW F, E \subseteq F, NEW A, NEW S, NEW S2,
           Settled(S, S2, F, A, Sending(T, t)),
           NEW W, NEW q \in W, Synced(q), q.tab = t, q.write = Sending(T, t).write,
           NEW V, \A r \in V : r \in W \ {q} \/ (r.write = q.write /\ ~ r.waits),
           Client(Tabs, D, I, E, A, S, T, W)
    PROVE  Client(Tabs \ {t}, D, I, F, A, S2, U, V)
<1>1. PICK w : w = q.write
  OBVIOUS
<1>2. \A u \in Tabs \ {t} : Listed(U, u) = Listed(T, u) /\ (Busy(U, u) <=> Busy(T, u)) /\ Sending(U, u) = Sending(T, u)
  BY DEF Shortened, Listed, Busy, Sending
<1>3. \A u \in Tabs : \A c \in Listed(U, u) : c \in Listed(T, u)
  BY <1>2 DEF Shortened, Others
<1>4. w \in I \ D
  <2>1. Busy(T, t)
    BY DEF Client, Awaits
  <2>2. Sending(T, t) \in Listed(T, t)
    BY <2>1, FrontListed
  <2> QED BY <2>2, <1>1 DEF Client, Phased
<1>5. Phased(D, I, S2, U, V)
  <2>1. \A n \in S2 : n.write \in I \ D
    BY <1>1, <1>4 DEF Client, Phased, Settled
  <2>2. \A u \in Tabs : \A c \in Listed(U, u) : c.write \in I \ D
    BY <1>3 DEF Client, Phased
  <2>3. \A r \in V : r.write \in I
    BY DEF Client, Phased
  <2> QED BY <2>1, <2>2, <2>3 DEF Client, Phased
<1>6. Awaits(Tabs \ {t}, D, U, V)
  <2>1. \A r \in V : First(r) \/ Synced(r) => r \in W \ {q}
    BY DEF First, Synced
  <2>2. \A r \in V : Synced(r) => r.tab \in Tabs \ {t}
    BY <2>1 DEF Client, Awaits
  <2>3. /\ \A r \in V : First(r) => r.write \in D /\ r.edits = {r.write} /\ r.tab = r.write.tab
        /\ \A r, p \in V : First(r) /\ First(p) /\ r.write = p.write => r = p
    BY <2>1 DEF Client, Awaits
  <2>4. \A r \in V : Synced(r) => /\ r.tab \in Tabs \ {t} /\ Busy(U, r.tab)
                                  /\ r.write = Sending(U, r.tab).write /\ r.edits = Sending(U, r.tab).edits
    BY <2>1, <2>2, <1>2 DEF Client, Awaits
  <2>5. \A r, p \in V : Synced(r) /\ Synced(p) /\ r.tab = p.tab => r = p
    BY <2>1 DEF Client, Awaits
  <2> QED BY <2>3, <2>4, <2>5 DEF Awaits
<1>7. Copied(F, S2, U)
  <2> SUFFICES ASSUME NEW u \in Tabs, NEW c \in Listed(U, u)
               PROVE  /\ \A n \in S2 : n.write = c.write => Same(F, n, c)
                      /\ \A v \in Tabs : \A d \in Listed(U, v) : d.write = c.write => Same(F, c, d)
    BY DEF Copied
  <2>1. c \in Listed(T, u)
    BY <1>3
  <2>2. ASSUME NEW n \in S2, n.write = c.write PROVE Same(F, n, c)
    <3>1. \A m \in S : m.write = c.write => Same(F, m, c)
      BY <2>1, SameMore DEF Client, Copied
    <3>2. CASE n.write = w
      <4>1. PICK m \in S : m.write = w /\ Same(F, m, n)
        BY <3>2, <1>1 DEF Settled
      <4>2. Same(F, m, c)
        BY <3>1, <4>1, <3>2, <2>2
      <4> QED BY <4>1, <4>2 DEF Same
    <3>3. CASE n.write # w
      BY <3>1, <3>3, <2>2, <1>1 DEF Settled
    <3> QED BY <3>2, <3>3
  <2>3. ASSUME NEW v \in Tabs, NEW d \in Listed(U, v), d.write = c.write PROVE Same(F, c, d)
    <3>1. d \in Listed(T, v)
      BY <1>3
    <3>2. Same(E, c, d)
      BY <2>1, <2>3, <3>1 DEF Client, Copied
    <3> QED BY <3>2, SameMore
  <2> QED BY <2>2, <2>3
<1>8. Held(D, I, F, A, S2)
  <2> SUFFICES ASSUME NEW v \in I \ (D \cup F), v \notin A PROVE \E n \in S2 : v \in n.edits
    BY DEF Held
  <2>1. PICK m \in S : v \in m.edits
    BY DEF Client, Held
  <2>2. CASE m.write = w
    <3>1. PICK n \in S2 : Same(F, m, n)
      BY <2>1, <2>2, <1>1 DEF Settled
    <3> QED BY <2>1, <3>1 DEF Same
  <2>3. CASE m.write # w
    BY <2>1, <2>3, <1>1 DEF Settled
  <2> QED BY <2>2, <2>3
<1> QED BY <1>5, <1>6, <1>7, <1>8 DEF Client

LEMMA SettledTurn ==
    ASSUME NEW T \in [Tabs -> TabRecords], NEW U \in [Tabs -> TabRecords], NEW t \in Tabs, Busy(T, t),
           Shortened(T, U, t), NEW D, NEW I, NEW F, NEW A, NEW S \in SUBSET Kept, NEW S2 \in SUBSET Kept,
           Settled(S, S2, F, A, Sending(T, t)), NEW L, NEW N, Turn(Tabs, D, I, S, T, L, N)
    PROVE  Turn(Tabs \ {t}, D, I, S2, U, L, N)
<1>1. PICK f : f = Sending(T, t)
  OBVIOUS
<1>2. f \in Listed(T, t) /\ f \in Kept
  BY <1>1, FrontListed
<1>3. L = t /\ \A u \in Tabs : Busy(T, u) => u = t
  BY DEF Turn, Leading
<1>4. \A u \in Tabs \ {t} : (Busy(U, u) <=> Busy(T, u))
  BY DEF Shortened, Busy
<1>5. Leading(U, L)
  BY <1>3, <1>4 DEF Leading
<1>6. PICK m \in S : m.write = f.write /\ m.retry = f.retry /\ m.status = "processing"
  BY <1>1, <1>2 DEF Turn, Backed
<1>7. Backed(Tabs \ {t}, S2, U)
  <2> SUFFICES ASSUME NEW u \in Tabs, NEW c \in Listed(U, u)
               PROVE  \E n \in S2 :
                        /\ n.write = c.write /\ n.retry = c.retry
                        /\ n.status = "processing" <=> u \in Tabs \ {t} /\ Sending(U, u).write = n.write
    BY DEF Backed
  <2>1. u = t
    <3>1. U[u].list \in Lists
      BY DEF TabRecords
    <3>2. Busy(U, u)
      BY <3>1 DEF Busy, Listed, ToSet
    <3> QED BY <3>2, <1>3, <1>4
  <2>2. c \in Listed(T, t) /\ c.write # f.write
    BY <2>1, <1>1 DEF Shortened, Others
  <2>3. PICK n \in S : /\ n.write = c.write /\ n.retry = c.retry
                       /\ n.status = "processing" <=> t \in Tabs /\ f.write = n.write
    BY <2>2, <1>1 DEF Turn, Backed
  <2>4. n \in S2
    BY <2>2, <2>3, <1>1 DEF Settled
  <2> QED BY <2>1, <2>2, <2>3, <2>4
<1>8. Spent(S2, N)
  <2> SUFFICES ASSUME NEW n \in S2 PROVE N[n.write] <= Tried(n) /\ Tried(n) <= MaxRetries
    BY DEF Spent
  <2>1. CASE n.write = f.write
    <3>1. n.status # "processing" /\ n.retry = f.retry + 1
      BY <2>1, <1>1 DEF Settled
    <3>2. f.retry \in Nat
      BY <1>2, KeptFacts
    <3>3. Tried(n) = Tried(m)
      BY <3>1, <3>2, <1>6 DEF Tried
    <3> QED BY <3>3, <2>1, <1>6 DEF Turn, Spent
  <2>2. CASE n.write # f.write
    BY <2>2, <1>1 DEF Settled, Turn, Spent
  <2> QED BY <2>1, <2>2
<1> QED BY <1>5, <1>7, <1>8 DEF Turn

LEMMA SettledStranded ==
    ASSUME NEW T, NEW U, NEW t \in Tabs, Shortened(T, U, t), NEW F, NEW A, NEW S, NEW S2,
           Settled(S, S2, F, A, Sending(T, t))
    PROVE  StrandedIn(Tabs \ {t}, S2, U) \subseteq StrandedIn(Tabs, S, T)
<1> SUFFICES ASSUME NEW n \in StrandedIn(Tabs \ {t}, S2, U) PROVE n \in StrandedIn(Tabs, S, T)
  OBVIOUS
<1>1. n \in S /\ n.write # Sending(T, t).write
  BY DEF StrandedIn, Settled
<1>2. \A u \in Tabs \ {t} : (Busy(U, u) <=> Busy(T, u)) /\ Sending(U, u) = Sending(T, u)
  BY DEF Shortened, Busy, Sending
<1> QED BY <1>1, <1>2 DEF StrandedIn

-----------------------------------------------------------------------------
(* A first request that failed: its write is stored, or merged into a stored mutation *)

\* The request of q is over, or nobody waits for it any more.
Over(W, V, q) == \A r \in V : r \in W \ {q} \/ (r.write = q.write /\ ~ r.waits)

LEMMA OverAwaits ==
    ASSUME NEW W, NEW V, NEW q \in W, First(q), Over(W, V, q), NEW B, NEW D, NEW T, Awaits(B, D, T, W)
    PROVE  Awaits(B, D \ {q.write}, T, V)
<1>1. \A r \in V : First(r) \/ Synced(r) => r \in W \ {q}
  BY DEF First, Synced, Over
<1>2. \A r \in V : First(r) => r.write \in D \ {q.write} /\ r.edits = {r.write} /\ r.tab = r.write.tab
  BY <1>1 DEF Awaits
<1>3. \A r, p \in V : First(r) /\ First(p) /\ r.write = p.write => r = p
  BY <1>1 DEF Awaits
<1>4. /\ \A r \in V : Synced(r) => /\ r.tab \in B /\ Busy(T, r.tab)
                                   /\ r.write = Sending(T, r.tab).write /\ r.edits = Sending(T, r.tab).edits
      /\ \A r, p \in V : Synced(r) /\ Synced(p) /\ r.tab = p.tab => r = p
  BY <1>1 DEF Awaits
<1> QED BY <1>2, <1>3, <1>4 DEF Awaits

LEMMA AddedKeeps ==
    ASSUME NEW W, NEW V, NEW q \in W, First(q), Over(W, V, q),
           NEW D, NEW I, NEW E, NEW A, NEW S, NEW T, Client(Tabs, D, I, E, A, S, T, W),
           NEW m, m.write = q.write, q.write \in m.edits
    PROVE  Client(Tabs, D \ {q.write}, I, E, A, S \cup {m}, T, V)
<1>1. Phased(D, I, S, T, W) /\ Awaits(Tabs, D, T, W) /\ Copied(E, S, T) /\ Held(D, I, E, A, S)
  BY DEF Client
<1>2. q.write \in D /\ q.write \in I
  BY <1>1 DEF Awaits, Phased
<1>3. Phased(D \ {q.write}, I, S \cup {m}, T, V)
  BY <1>1, <1>2 DEF Phased, Over
<1>4. Awaits(Tabs, D \ {q.write}, T, V)
  BY <1>1, OverAwaits
<1>5. Copied(E, S \cup {m}, T)
  <2>1. \A t \in Tabs : \A c \in Listed(T, t) : c.write # q.write
    BY <1>1, <1>2 DEF Phased
  <2> QED BY <2>1, <1>1 DEF Copied
<1>6. Held(D \ {q.write}, I, E, A, S \cup {m})
  BY <1>1 DEF Held
<1> QED BY <1>3, <1>4, <1>5, <1>6 DEF Client

LEMMA AddedTurn ==
    ASSUME NEW D, NEW I, NEW S, NEW T, NEW L, NEW N, Turn(Tabs, D, I, S, T, L, N),
           NEW w \in Writes, w \in D, NEW m, m.write = w, m.status = "pending", m.retry = 0
    PROVE  Turn(Tabs, D \ {w}, I, S \cup {m}, T, L, N)
<1>1. Leading(T, L) /\ Backed(Tabs, S, T) /\ Spent(S, N) /\ Bounded(D, I, N)
  BY DEF Turn
<1>2. Backed(Tabs, S \cup {m}, T)
  BY <1>1 DEF Backed
<1>3. Spent(S \cup {m}, N)
  <2>1. N[w] = 0
    BY <1>1 DEF Bounded
  <2>2. Tried(m) = 0
    BY DEF Tried
  <2> QED BY <2>1, <2>2, <1>1, OfflineAssumption DEF Spent
<1>4. Bounded(D \ {w}, I, N)
  BY <1>1 DEF Bounded
<1> QED BY <1>1, <1>2, <1>3, <1>4 DEF Turn

LEMMA MergedKeeps ==
    ASSUME NEW W, NEW V, NEW q \in W, First(q), Over(W, V, q),
           NEW D, NEW I, NEW E, NEW F, E \subseteq F, NEW A, NEW S, Unique(S), NEW T,
           Client(Tabs, D, I, E, A, S, T, W),
           NEW m \in S, NEW n, n.write = m.write, n.edits = m.edits \cup {q.write},
           (\E t \in Tabs : \E c \in Listed(T, t) : c.write = m.write) => q.write \in F
    PROVE  Client(Tabs, D \ {q.write}, I, F, A, Others(S, m.write) \cup {n}, T, V)
<1>1. Phased(D, I, S, T, W) /\ Awaits(Tabs, D, T, W) /\ Copied(E, S, T) /\ Held(D, I, E, A, S)
  BY DEF Client
<1>2. PICK S2 : S2 = Others(S, m.write) \cup {n}
  OBVIOUS
<1>3. (\A k \in S2 : (k \in S /\ k.write # m.write) \/ k = n) /\ n \in S2 /\ \A k \in S : k = m \/ k \in S2
  BY <1>2 DEF Others, Unique
<1>4. q.write \in D /\ q.write \in I /\ m.write \in I \ D
  BY <1>1 DEF Awaits, Phased
<1>5. Phased(D \ {q.write}, I, S2, T, V)
  BY <1>1, <1>3, <1>4 DEF Phased, Over
<1>6. Awaits(Tabs, D \ {q.write}, T, V)
  BY <1>1, OverAwaits
<1>7. Copied(F, S2, T)
  <2> SUFFICES ASSUME NEW t \in Tabs, NEW c \in Listed(T, t)
               PROVE  /\ \A k \in S2 : k.write = c.write => Same(F, k, c)
                      /\ \A u \in Tabs : \A d \in Listed(T, u) : d.write = c.write => Same(F, c, d)
    BY DEF Copied
  <2>1. ASSUME NEW k \in S2, k.write = c.write PROVE Same(F, k, c)
    <3>1. CASE k = n
      <4>1. Same(E, m, c) /\ q.write \in F
        BY <2>1, <3>1, <1>1 DEF Copied
      <4>2. Same(F, m, c)
        BY <4>1, SameMore
      <4> QED BY <4>1, <4>2, <3>1 DEF Same
    <3>2. CASE k \in S
      <4>1. Same(E, k, c)
        BY <2>1, <3>2, <1>1 DEF Copied
      <4> QED BY <4>1, SameMore
    <3> QED BY <3>1, <3>2, <1>3
  <2>2. ASSUME NEW u \in Tabs, NEW d \in Listed(T, u), d.write = c.write PROVE Same(F, c, d)
    <3>1. Same(E, c, d)
      BY <2>2, <1>1 DEF Copied
    <3> QED BY <3>1, SameMore
  <2> QED BY <2>1, <2>2
<1>8. Held(D \ {q.write}, I, F, A, S2)
  <2> SUFFICES ASSUME NEW v \in I, v \notin D \ {q.write}, v \notin F, v \notin A
               PROVE  \E k \in S2 : v \in k.edits
    BY DEF Held
  <2>1. CASE v = q.write
    BY <2>1, <1>3
  <2>2. CASE v # q.write
    <3>1. PICK k \in S : v \in k.edits
      BY <2>2, <1>1 DEF Held
    <3> QED BY <3>1, <1>3
  <2> QED BY <2>1, <2>2
<1> QED BY <1>2, <1>5, <1>6, <1>7, <1>8 DEF Client

LEMMA MergedTurn ==
    ASSUME NEW D, NEW I, NEW S, Unique(S), NEW T, NEW L, NEW N, Turn(Tabs, D, I, S, T, L, N),
           NEW w, NEW m \in S, NEW n, n.write = m.write, n.status = m.status, n.retry = m.retry
    PROVE  Turn(Tabs, D \ {w}, I, Others(S, m.write) \cup {n}, T, L, N)
<1>1. Leading(T, L) /\ Backed(Tabs, S, T) /\ Spent(S, N) /\ Bounded(D, I, N)
  BY DEF Turn
<1>2. PICK S2 : S2 = Others(S, m.write) \cup {n}
  OBVIOUS
<1>3. (\A k \in S2 : k \in S \/ k = n) /\ n \in S2 /\ \A k \in S : k = m \/ k \in S2
  BY <1>2 DEF Others, Unique
<1>4. Backed(Tabs, S2, T)
  <2> SUFFICES ASSUME NEW t \in Tabs, NEW c \in Listed(T, t)
               PROVE  \E k \in S2 :
                        /\ k.write = c.write /\ k.retry = c.retry
                        /\ k.status = "processing" <=> t \in Tabs /\ Sending(T, t).write = k.write
    BY DEF Backed
  <2>1. PICK k \in S :
                        /\ k.write = c.write /\ k.retry = c.retry
                        /\ k.status = "processing" <=> t \in Tabs /\ Sending(T, t).write = k.write
    BY <1>1 DEF Backed
  <2>2. CASE k = m
    BY <2>1, <2>2, <1>3
  <2>3. CASE k # m
    BY <2>1, <2>3, <1>3
  <2> QED BY <2>2, <2>3
<1>5. Tried(n) = Tried(m)
  BY DEF Tried
<1>6. Spent(S2, N)
  BY <1>1, <1>3, <1>5 DEF Spent
<1>7. Bounded(D \ {w}, I, N)
  BY <1>1 DEF Bounded
<1> QED BY <1>1, <1>2, <1>4, <1>6, <1>7 DEF Turn

LEMMA MergedStranded ==
    ASSUME NEW S, NEW T, NEW m \in S, NEW n, n.status # "processing"
    PROVE  StrandedIn(Tabs, Others(S, m.write) \cup {n}, T) \subseteq StrandedIn(Tabs, S, T)
  BY DEF StrandedIn, Others

-----------------------------------------------------------------------------
(* Requests that the network and the server move on *)

\* The same request, for the same tab.
Alike(q, r) == /\ r.tab = q.tab /\ r.waits = q.waits /\ r.direct = q.direct
               /\ r.write = q.write /\ r.edits = q.edits

LEMMA MovedKeeps ==
    ASSUME NEW W, NEW V, NEW q \in W, NEW p, Alike(q, p), \A r \in V : r \in W \ {q} \/ r = p,
           NEW D, NEW I, NEW E, NEW A, NEW A2, A \subseteq A2, NEW S, NEW T, Client(Tabs, D, I, E, A, S, T, W)
    PROVE  Client(Tabs, D, I, E, A2, S, T, V)
<1>1. Phased(D, I, S, T, W) /\ Awaits(Tabs, D, T, W) /\ Copied(E, S, T) /\ Held(D, I, E, A, S)
  BY DEF Client
<1>2. (First(p) <=> First(q)) /\ (Synced(p) <=> Synced(q)) /\ p.write = q.write /\ p.edits = q.edits /\ p.tab = q.tab
  BY DEF Alike, First, Synced
<1>3. Phased(D, I, S, T, V)
  BY <1>1, <1>2 DEF Phased
<1>4. Awaits(Tabs, D, T, V)
  <2>1. \A r \in V : First(r) => r.write \in D /\ r.edits = {r.write} /\ r.tab = r.write.tab
    BY <1>1, <1>2 DEF Awaits
  <2>2. \A r, s \in V : First(r) /\ First(s) /\ r.write = s.write => r = s
    BY <1>1, <1>2 DEF Awaits
  <2>3. \A r \in V : Synced(r) => /\ r.tab \in Tabs /\ Busy(T, r.tab)
                                  /\ r.write = Sending(T, r.tab).write /\ r.edits = Sending(T, r.tab).edits
    BY <1>1, <1>2 DEF Awaits
  <2>4. \A r, s \in V : Synced(r) /\ Synced(s) /\ r.tab = s.tab => r = s
    BY <1>1, <1>2 DEF Awaits
  <2> QED BY <2>1, <2>2, <2>3, <2>4 DEF Awaits
<1>5. Held(D, I, E, A2, S)
  BY <1>1 DEF Held
<1> QED BY <1>1, <1>3, <1>4, <1>5 DEF Client

-----------------------------------------------------------------------------
(* The invariant of the queue, the requests and the answers *)

Posts == [to : Tabs, obj : Objects, n : Nat]

ClientTyped ==
    /\ todo \subseteq Writes /\ direct \subseteq Writes
    /\ queue \in Queues /\ tab \in [Tabs -> TabRecords] /\ posts \subseteq Posts
    /\ leader \in Tabs \cup {Nobody, Gone}

ServerTyped ==
    /\ wire \in SUBSET Requested /\ live \subseteq Ids /\ made \in [Objects -> Nat] /\ applied \subseteq Writes
    /\ keyed \in BOOLEAN /\ cache \subseteq Savings /\ saving \subseteq Savings
    /\ \A c, d \in cache : c.key = d.key => c = d

GhostTyped ==
    /\ losses \in Nat /\ reloads \in Nat /\ lapses \in Nat
    /\ issued \subseteq Writes /\ excused \subseteq Writes
    /\ sends \in [Writes -> Nat] /\ unsure \in [Objects -> Nat]

Clients == Client(Tabs, direct, issued, excused, applied, ToSet(queue), tab, wire)
Turns == Turn(Tabs, direct, issued, ToSet(queue), tab, leader, sends)
Lost == StrandedIn(Tabs, ToSet(queue), tab)

Base == /\ ClientTyped /\ ServerTyped /\ GhostTyped
        /\ todo \cap issued = {} /\ Clients
        /\ Truthful(applied, wire, cache \cup saving)
        /\ lapses = 0 => Turns

\* What a step does to the tabs, the stored mutations and the requests.
Progress ==
    /\ direct' \subseteq Writes /\ queue' \in Queues /\ tab' \in [Tabs -> TabRecords]
    /\ leader' \in Tabs \cup {Nobody, Gone}
    /\ wire' \in SUBSET Requested /\ excused' \subseteq Writes /\ sends' \in [Writes -> Nat]
    /\ Clients' /\ (Turns => Turns') /\ Lost' \subseteq Lost

LEMMA NewFacts ==
    ASSUME NEW w \in Writes
    PROVE  LET m == NewMutation(w) IN
           m \in Kept /\ m.write = w /\ m.edits = {w} /\ m.status = "pending" /\ m.retry = 0
<1>1. 0 \in 0..MaxRetries /\ 0 \in -1..MaxRetries
  BY OfflineAssumption
<1>2. [write |-> w, of |-> 0] \in KeyRecords
  BY <1>1 DEF KeyRecords
<1>3. [write |-> w, of |-> 0] \in Keys
  BY <1>1 DEF Keys
<1>4. NewMutation(w) \in Mutations
  BY <1>1, <1>3 DEF NewMutation, Mutations
<1> QED BY <1>2, <1>4 DEF NewMutation, Kept

LEMMA GrownKept ==
    ASSUME NEW m \in Kept, m.write.kind # "create", NEW w \in Writes
    PROVE  LET n == [m EXCEPT !.edits = @ \cup {w}] IN
           /\ n \in Kept /\ n.write = m.write /\ n.edits = m.edits \cup {w}
           /\ n.status = m.status /\ n.retry = m.retry
  BY DEF Kept, Mutations

LEMMA ReplacedFacts ==
    ASSUME NEW q \in Queues, NEW i \in DOMAIN q, NEW n \in Kept, n.write = q[i].write
    PROVE  ReplaceAt(q, i, n) \in Queues /\ ToSet(ReplaceAt(q, i, n)) = Others(ToSet(q), q[i].write) \cup {n}
<1>1. PICK r : r = ReplaceAt(q, i, n)
  OBVIOUS
<1>2. /\ DOMAIN r = DOMAIN q /\ r = [j \in DOMAIN q |-> r[j]]
      /\ \A j \in DOMAIN q : r[j] = IF j = i THEN n ELSE q[j]
  BY <1>1 DEF ReplaceAt
<1>3. (\A j \in DOMAIN q : q[j] \in Kept) /\ \A j, k \in DOMAIN q : q[j].write = q[k].write => j = k
  BY QueueFacts
<1>4. \A j \in DOMAIN q : r[j] \in Kept /\ r[j].write = q[j].write
  BY <1>2, <1>3
<1>5. r \in Queues
  BY <1>2, <1>4, Rewritten
<1>6. ASSUME NEW j \in DOMAIN q PROVE r[j] \in Others(ToSet(q), q[i].write) \cup {n}
  BY <1>2, <1>3 DEF Others, ToSet
<1>7. ASSUME NEW m \in Others(ToSet(q), q[i].write) \cup {n} PROVE \E j \in DOMAIN q : r[j] = m
  BY <1>2 DEF Others, ToSet
<1>8. ToSet(r) = Others(ToSet(q), q[i].write) \cup {n}
  BY <1>2, <1>6, <1>7 DEF ToSet
<1> QED BY <1>1, <1>5, <1>8

LEMMA MergedFacts ==
    ASSUME queue \in Queues, NEW i \in DOMAIN queue, NEW w \in Writes, queue[i].write.kind # "create"
    PROVE  \E n \in Kept :
              /\ n.write = queue[i].write /\ n.edits = queue[i].edits \cup {w}
              /\ n.status = queue[i].status /\ n.retry = queue[i].retry
              /\ Merged(i, w) \in Queues
              /\ ToSet(Merged(i, w)) = Others(ToSet(queue), queue[i].write) \cup {n}
<1>1. PICK n : n = [queue[i] EXCEPT !.edits = @ \cup {w}]
  OBVIOUS
<1>2. queue[i] \in Kept
  BY QueueFacts
<1>3. /\ n \in Kept /\ n.write = queue[i].write /\ n.edits = queue[i].edits \cup {w}
      /\ n.status = queue[i].status /\ n.retry = queue[i].retry
  BY <1>1, <1>2, GrownKept
<1>4. CASE w.kind = "update"
  <2>1. Merged(i, w) = Append(RemoveAt(queue, i), n)
    BY <1>1, <1>4 DEF Merged
  <2>2. RemoveAt(queue, i) \in Queues /\ ToSet(RemoveAt(queue, i)) = Others(ToSet(queue), queue[i].write)
    BY RemovedFacts
  <2>3. \A k \in ToSet(RemoveAt(queue, i)) : k.write # n.write
    BY <2>2, <1>3 DEF Others
  <2> QED BY <2>1, <2>2, <2>3, <1>3, AppendFacts
<1>5. CASE w.kind # "update"
  <2>1. Merged(i, w) = ReplaceAt(queue, i, n)
    BY <1>1, <1>5 DEF Merged
  <2> QED BY <2>1, <1>3, ReplacedFacts
<1> QED BY <1>4, <1>5

LEMMA EnqueueKeeps ==
    ASSUME Base, NEW q \in wire, First(q), NEW wires \in SUBSET Requested, Over(wire, wires, q),
           Enqueue(q.tab, q.write, wires), issued' = issued, applied' = applied
    PROVE  Progress /\ \A r \in wire' : r \in wires \/ r.stage = "sent"
<1>1. /\ direct \subseteq Writes /\ queue \in Queues /\ tab \in [Tabs -> TabRecords]
      /\ leader \in Tabs \cup {Nobody, Gone} /\ excused \subseteq Writes /\ sends \in [Writes -> Nat]
      /\ q \in Requested /\ Clients
  BY DEF Base, ClientTyped, ServerTyped, GhostTyped
<1>2. q.tab \in Tabs /\ q.write \in Writes /\ q.write \in direct
  BY <1>1 DEF Requested, Requests, Clients, Client, Awaits
<1>3. direct' = direct \ {q.write} /\ direct' \subseteq Writes
  BY <1>1 DEF Enqueue
<1>4. Unique(ToSet(queue)) /\ ToSet(queue) \subseteq Kept /\ \A i \in DOMAIN queue : queue[i] \in ToSet(queue)
  BY <1>1, QueueFacts DEF ToSet
<1>5. PICK time \in 0..Len(queue) :
        \/ /\ Mergeable(q.write, time) = {}
           /\ Sync(q.tab, tab[q.tab], Append(queue, NewMutation(q.write)), wires) /\ excused' = excused
        \/ /\ Mergeable(q.write, time) # {}
           /\ queue' = Merged(Min(Mergeable(q.write, time)), q.write) /\ wire' = wires
           /\ excused' = IF \E u \in Tabs : \E m \in ToSet(tab[u].list) :
                                 m.write = queue[Min(Mergeable(q.write, time))].write
                         THEN excused \cup {q.write} ELSE excused
           /\ tab' = tab /\ leader' = leader /\ sends' = sends
  BY DEF Enqueue
<1>6. CASE Mergeable(q.write, time) = {}
  <2>1. PICK m : m = NewMutation(q.write)
    OBVIOUS
  <2>2. PICK r : r = Append(queue, m)
    OBVIOUS
  <2>3. m \in Kept /\ m.write = q.write /\ m.edits = {q.write} /\ m.status = "pending" /\ m.retry = 0
    BY <1>2, <2>1, NewFacts
  <2>4. \A n \in ToSet(queue) : n.write # m.write
    BY <1>1, <1>2, <2>3 DEF Clients, Client, Phased
  <2>5. r \in Queues /\ ToSet(r) = ToSet(queue) \cup {m}
    BY <1>1, <2>2, <2>3, <2>4, AppendFacts
  <2>6. Sync(q.tab, tab[q.tab], r, wires) /\ excused' = excused
    BY <1>5, <1>6, <2>1, <2>2
  <2>7. Client(Tabs, direct', issued, excused, applied, ToSet(r), tab, wires)
    <3>1. Client(Tabs, direct \ {q.write}, issued, excused, applied, ToSet(queue) \cup {m}, tab, wires)
      BY <1>1, <2>3, AddedKeeps DEF Clients
    <3> QED BY <3>1, <2>5, <1>3
  <2>8. /\ queue' \in Queues /\ tab' \in [Tabs -> TabRecords]
        /\ wire' \in SUBSET Requested /\ sends' \in [Writes -> Nat] /\ leader' \in Tabs \cup {Nobody, Gone}
        /\ \A p \in wire' : p \in wires \/ p.stage = "sent"
        /\ Client(Tabs, direct', issued, excused, applied, ToSet(queue'), tab', wire')
        /\ Turn(Tabs, direct', issued, ToSet(r), tab, leader, sends)
                     => Turn(Tabs, direct', issued, ToSet(queue'), tab', leader', sends')
        /\ StrandedIn(Tabs, ToSet(queue'), tab') \subseteq StrandedIn(Tabs, ToSet(r), tab)
    <3>1. tab[q.tab] \in TabRecords
      BY <1>1, <1>2
    <3> QED BY <1>1, <1>2, <2>5, <2>6, <2>7, <3>1, SyncKeeps
  <2>9. ASSUME Turns PROVE Turn(Tabs, direct', issued, ToSet(r), tab, leader, sends)
    <3>1. Turn(Tabs, direct \ {q.write}, issued, ToSet(queue) \cup {m}, tab, leader, sends)
      BY <1>2, <2>3, <2>9, AddedTurn DEF Turns
    <3> QED BY <3>1, <1>3, <2>5
  <2>10. StrandedIn(Tabs, ToSet(r), tab) \subseteq Lost
    BY <2>3, <2>5 DEF Lost, StrandedIn
  <2> QED BY <1>1, <1>3, <2>6, <2>8, <2>9, <2>10 DEF Progress, Clients, Turns, Lost
<1>7. CASE Mergeable(q.write, time) # {}
  <2>1. PICK i : i = Min(Mergeable(q.write, time))
    OBVIOUS
  <2>2. i \in Mergeable(q.write, time)
    <3>1. Mergeable(q.write, time) \in SUBSET Nat
      BY <1>1, QueueFacts DEF Mergeable
    <3> QED BY <2>1, <3>1, <1>7, LeastFacts
  <2>3. /\ i \in DOMAIN queue /\ queue[i].status \in {"pending", "failed"}
        /\ queue[i].write.kind = q.write.kind
        /\ q.write.kind = "create" => queue[i].write = q.write
    BY <1>1, <2>2, QueueFacts DEF Mergeable
  <2>4. PICK m \in ToSet(queue) : m = queue[i]
    BY <1>4, <2>3
  <2>5. m.write.kind # "create"
    <3>1. m.write \notin direct
      BY <1>1, <2>4 DEF Clients, Client, Phased
    <3>2. m.write # q.write
      BY <1>2, <3>1
    <3> QED BY <2>3, <2>4, <3>2
  <2>6. PICK n \in Kept :
              /\ n.write = m.write /\ n.edits = m.edits \cup {q.write}
              /\ n.status = m.status /\ n.retry = m.retry
              /\ Merged(i, q.write) \in Queues
              /\ ToSet(Merged(i, q.write)) = Others(ToSet(queue), m.write) \cup {n}
    <3>1. queue \in Queues /\ i \in DOMAIN queue /\ q.write \in Writes /\ queue[i].write.kind # "create"
      BY <1>1, <1>2, <2>3, <2>4, <2>5
    <3>2. \E n \in Kept :
              /\ n.write = queue[i].write /\ n.edits = queue[i].edits \cup {q.write}
              /\ n.status = queue[i].status /\ n.retry = queue[i].retry
              /\ Merged(i, q.write) \in Queues
              /\ ToSet(Merged(i, q.write)) = Others(ToSet(queue), queue[i].write) \cup {n}
      BY <3>1, MergedFacts
    <3> QED BY <2>4, <3>2
  <2>7. /\ queue' \in Queues /\ ToSet(queue') = Others(ToSet(queue), m.write) \cup {n}
        /\ wire' = wires /\ tab' = tab /\ leader' = leader /\ sends' = sends
    BY <1>5, <1>7, <2>1, <2>6
  <2>8. excused' = IF \E u \in Tabs : \E c \in Listed(tab, u) : c.write = m.write
                   THEN excused \cup {q.write} ELSE excused
    BY <1>5, <1>7, <2>1, <2>4 DEF Listed
  <2>9. /\ excused \subseteq excused' /\ excused' \subseteq Writes
        /\ (\E u \in Tabs : \E c \in Listed(tab, u) : c.write = m.write) => q.write \in excused'
    BY <1>1, <1>2, <2>8
  <2>10. Client(Tabs, direct', issued, excused', applied, ToSet(queue'), tab, wires)
    <3>1. Client(Tabs, direct \ {q.write}, issued, excused', applied,
                 Others(ToSet(queue), m.write) \cup {n}, tab, wires)
      BY <1>1, <1>4, <2>6, <2>9, MergedKeeps DEF Clients
    <3> QED BY <3>1, <2>7, <1>3
  <2>11. ASSUME Turns PROVE Turn(Tabs, direct', issued, ToSet(queue'), tab, leader, sends)
    <3>1. Turn(Tabs, direct \ {q.write}, issued, Others(ToSet(queue), m.write) \cup {n}, tab, leader, sends)
      BY <1>4, <2>6, <2>11, MergedTurn DEF Turns
    <3> QED BY <3>1, <2>7, <1>3
  <2>12. StrandedIn(Tabs, ToSet(queue'), tab) \subseteq Lost
    BY <2>3, <2>4, <2>6, <2>7, MergedStranded DEF Lost
  <2> QED BY <1>1, <1>3, <2>7, <2>9, <2>10, <2>11, <2>12 DEF Progress, Clients, Turns, Lost
<1> QED BY <1>6, <1>7

LEMMA FinishKeeps ==
    ASSUME Base, NEW q \in wire, Synced(q), NEW s \in TabRecords, s.list = Tail(tab[q.tab].list),
           NEW r \in Queues, NEW wires \in SUBSET Requested, Over(wire, wires, q),
           Send(q.tab, s, r, wires), excused \subseteq excused', excused' \subseteq Writes,
           Settled(ToSet(queue), ToSet(r), excused', applied, Sending(tab, q.tab)),
           direct' = direct, leader' = leader, issued' = issued, applied' = applied
    PROVE  Progress /\ \A p \in wire' : p \in wires \/ p.stage = "sent"
<1>1. /\ direct \subseteq Writes /\ queue \in Queues /\ tab \in [Tabs -> TabRecords]
      /\ leader \in Tabs \cup {Nobody, Gone} /\ sends \in [Writes -> Nat]
      /\ q \in Requested /\ Clients
  BY DEF Base, ClientTyped, ServerTyped, GhostTyped
<1>2. /\ q.tab \in Tabs /\ Busy(tab, q.tab) /\ q.write = Sending(tab, q.tab).write
  BY <1>1 DEF Requested, Requests, Clients, Client, Awaits
<1>3. PICK T : T = tab'
  OBVIOUS
<1>4. T \in [Tabs -> TabRecords] /\ T[q.tab] = s /\ \A u \in Tabs \ {q.tab} : T[u] = tab[u]
  BY <1>1, <1>2, <1>3 DEF Send
<1>5. Shortened(tab, T, q.tab)
  <2>1. tab[q.tab].list \in Lists
    BY <1>1, <1>2 DEF TabRecords
  <2>2. ToSet(s.list) = Others(ToSet(tab[q.tab].list), Head(tab[q.tab].list).write)
    BY <2>1, <1>2, ListFacts DEF Busy
  <2> QED BY <2>2, <1>4 DEF Shortened, Listed, Sending
<1>6. ToSet(r) \in SUBSET Kept /\ ToSet(queue) \in SUBSET Kept
  BY <1>1, QueueFacts
<1>7. Client(Tabs \ {q.tab}, direct, issued, excused', applied, ToSet(r), T, wires)
  BY <1>1, <1>2, <1>5, SettledKeeps DEF Clients, Over
<1>8. /\ queue' \in Queues /\ wire' \in SUBSET Requested /\ sends' \in [Writes -> Nat]
      /\ \A p \in wire' : p \in wires \/ p.stage = "sent"
      /\ Client(Tabs, direct, issued, excused', applied, ToSet(queue'), T, wire')
      /\ StrandedIn(Tabs, ToSet(queue'), T) \subseteq StrandedIn(Tabs \ {q.tab}, ToSet(r), T)
  BY <1>1, <1>2, <1>3, <1>7, SendKeeps
<1>9. ASSUME Turns PROVE Turn(Tabs, direct, issued, ToSet(queue'), T, leader, sends')
  <2>1. Turn(Tabs \ {q.tab}, direct, issued, ToSet(r), T, leader, sends)
    BY <1>1, <1>2, <1>4, <1>5, <1>6, <1>9, SettledTurn DEF Turns
  <2>2. \A c \in Listed(T, q.tab) : c.write \in issued \ direct
    BY <1>2, <1>7 DEF Client, Phased
  <2> QED BY <2>1, <2>2, <1>1, <1>2, <1>3, SendTurn
<1>10. StrandedIn(Tabs \ {q.tab}, ToSet(r), T) \subseteq Lost
  BY <1>2, <1>5, SettledStranded DEF Lost
<1> QED BY <1>1, <1>3, <1>4, <1>8, <1>9, <1>10 DEF Progress, Clients, Turns, Lost

LEMMA RetriedSettles ==
    ASSUME NEW S \in SUBSET Kept, NEW f \in Kept, f.retry < MaxRetries, NEW s \in {"failed", "pending"},
           NEW E, NEW A
    PROVE  /\ f.retry + 1 \in 0..MaxRetries
           /\ Settled(S, RetriedIn(S, f.write, s, f.retry + 1), E, A, f)
<1>1. f.retry + 1 \in 0..MaxRetries
  BY KeptFacts, OfflineAssumption
<1>2. PICK k \in 0..MaxRetries : k = f.retry + 1
  BY <1>1
<1> DEFINE g(m) == IF m.write = f.write THEN Retried(m, s, k) ELSE m
<1>3. ASSUME NEW m \in S
      PROVE  /\ g(m).write = m.write /\ g(m).edits = m.edits
             /\ m.write = f.write => g(m).status = s /\ g(m).retry = k
             /\ m.write # f.write => g(m) = m
  <2>1. CASE m.write = f.write
    BY <2>1, RetriedKept
  <2>2. CASE m.write # f.write
    BY <2>2
  <2> QED BY <2>1, <2>2
<1>4. PICK S2 : S2 = RetriedIn(S, f.write, s, k)
  OBVIOUS
<1>5. S2 = {g(m) : m \in S}
  BY <1>4 DEF RetriedIn
<1> HIDE DEF g
<1>6. s # "processing"
  OBVIOUS
<1>7. Settled(S, S2, E, A, f)
  BY <1>2, <1>3, <1>5, <1>6 DEF Settled, Same
<1> QED BY <1>1, <1>2, <1>4, <1>7

LEMMA GoneSettles ==
    ASSUME NEW S, NEW f, NEW E, NEW A, \A m \in S : m.write = f.write => m.edits \subseteq A \cup E
    PROVE  Settled(S, Others(S, f.write), E, A, f)
  BY DEF Settled, Others

LEMMA SwappedSettles ==
    ASSUME NEW S, NEW f, NEW n, n.write = f.write, n.status # "processing", n.retry = f.retry + 1, NEW E, NEW A,
           \A m \in S : m.write = f.write => Same(E, m, n)
    PROVE  Settled(S, Swapped(S, f.write, n), E, A, f)
<1>1. PICK S2 : S2 = Swapped(S, f.write, n)
  OBVIOUS
<1>2. /\ \A k \in S2 : \/ k \in S /\ k.write # f.write
                       \/ k = n /\ \E m \in S : m.write = f.write
      /\ \A m \in S : IF m.write = f.write THEN n \in S2 ELSE m \in S2
  BY <1>1 DEF Swapped
<1>3. Settled(S, S2, E, A, f)
  BY <1>2 DEF Settled
<1> QED BY <1>1, <1>3

\* What holds of the request that a tab waits for in a sync, and of its mutation.
LEMMA SyncedFacts ==
    ASSUME Base, NEW q \in wire, Synced(q)
    PROVE  LET f == Sending(tab, q.tab) IN
           /\ q.tab \in Tabs /\ q.write \in Writes /\ f \in Kept /\ f.retry < MaxRetries
           /\ f = Head(tab[q.tab].list) /\ tab[q.tab].list # <<>>
           /\ q.write = f.write /\ q.edits = f.edits
           /\ \A m \in ToSet(queue) : m.write = f.write => Same(excused, m, f)
           /\ ToSet(queue) \in SUBSET Kept /\ queue \in Queues /\ tab[q.tab] \in TabRecords
<1>1. queue \in Queues /\ tab \in [Tabs -> TabRecords] /\ q \in Requested /\ Clients
  BY DEF Base, ClientTyped, ServerTyped
<1>2. /\ q.tab \in Tabs /\ q.write \in Writes /\ Busy(tab, q.tab)
      /\ q.write = Sending(tab, q.tab).write /\ q.edits = Sending(tab, q.tab).edits
  BY <1>1 DEF Requested, Requests, Clients, Client, Awaits
<1>3. Sending(tab, q.tab) \in Listed(tab, q.tab) /\ Sending(tab, q.tab) \in Copies
  BY <1>1, <1>2, FrontListed
<1>4. \A m \in ToSet(queue) : m.write = Sending(tab, q.tab).write => Same(excused, m, Sending(tab, q.tab))
  BY <1>1, <1>2, <1>3 DEF Clients, Client, Copied
<1>5. ToSet(queue) \in SUBSET Kept
  BY <1>1, QueueFacts
<1> QED BY <1>1, <1>2, <1>3, <1>4, <1>5 DEF Sending, Busy, Copies, Sendable

LEMMA AdvancedFacts ==
    ASSUME NEW s \in TabRecords, s.list # <<>>
    PROVE  [s EXCEPT !.list = Tail(@)] \in TabRecords /\ [s EXCEPT !.list = Tail(@)].list = Tail(s.list)
<1>1. s.list \in Lists
  BY DEF TabRecords
<1>2. Tail(s.list) \in Lists
  BY <1>1, ListFacts
<1> QED BY <1>2 DEF TabRecords

LEMMA MarkFailedKeeps ==
    ASSUME Base, NEW q \in wire, Synced(q), NEW wires \in SUBSET Requested, Over(wire, wires, q),
           MarkFailed(q, wires), direct' = direct, leader' = leader, issued' = issued,
           excused' = excused, applied' = applied
    PROVE  Progress /\ \A p \in wire' : p \in wires \/ p.stage = "sent"
<1>1. PICK f : f = Sending(tab, q.tab)
  OBVIOUS
<1>2. /\ q.tab \in Tabs /\ q.write \in Writes /\ f \in Kept /\ f.retry < MaxRetries
      /\ f = Head(tab[q.tab].list) /\ tab[q.tab].list # <<>> /\ q.write = f.write
      /\ ToSet(queue) \in SUBSET Kept /\ queue \in Queues /\ tab[q.tab] \in TabRecords
  BY <1>1, SyncedFacts
<1>3. PICK k : k = f.retry + 1
  OBVIOUS
<1>4. PICK r : r = Retrying(queue, q.write, "failed", k)
  OBVIOUS
<1>5. PICK s : s = Advanced(q.tab)
  OBVIOUS
<1>6. Send(q.tab, s, r, wires)
  BY <1>2, <1>3, <1>4, <1>5 DEF MarkFailed
<1>7. s \in TabRecords /\ s.list = Tail(tab[q.tab].list)
  BY <1>2, <1>5, AdvancedFacts DEF Advanced
<1>8. k \in 0..MaxRetries /\ Settled(ToSet(queue), RetriedIn(ToSet(queue), q.write, "failed", k), excused', applied, f)
  BY <1>2, <1>3, RetriedSettles
<1>9. r \in Queues /\ ToSet(r) = RetriedIn(ToSet(queue), q.write, "failed", k)
  BY <1>2, <1>4, <1>8, RetriedFacts
<1>10. excused \subseteq excused' /\ excused' \subseteq Writes
  BY DEF Base, GhostTyped
<1> QED BY <1>1, <1>6, <1>7, <1>8, <1>9, <1>10, FinishKeeps

LEMMA ResolveKeeps ==
    ASSUME Base, NEW q \in wire, Synced(q), NEW how \in Resolutions, Resolve(q, how),
           direct' = direct, leader' = leader, issued' = issued, applied' = applied
    PROVE  Progress /\ \A p \in wire' : p \in wire \ {q} \/ p.stage = "sent"
<1>1. PICK f : f = Sending(tab, q.tab)
  OBVIOUS
<1>2. /\ q.tab \in Tabs /\ q.write \in Writes /\ f \in Kept /\ f.retry < MaxRetries
      /\ f = Head(tab[q.tab].list) /\ tab[q.tab].list # <<>> /\ q.write = f.write
      /\ ToSet(queue) \in SUBSET Kept /\ queue \in Queues /\ tab[q.tab] \in TabRecords
      /\ \A m \in ToSet(queue) : m.write = f.write => Same(excused, m, f)
  BY <1>1, SyncedFacts
<1>3. PICK wires : wires = wire \ {q}
  OBVIOUS
<1>4. wires \in SUBSET Requested /\ Over(wire, wires, q)
  BY <1>3 DEF Over, Base, ServerTyped
<1>5. PICK s : s = Advanced(q.tab)
  OBVIOUS
<1>6. s \in TabRecords /\ s.list = Tail(tab[q.tab].list)
  BY <1>2, <1>5, AdvancedFacts DEF Advanced
<1>7. excused \subseteq Writes
  BY DEF Base, GhostTyped
<1>8. how \in {"discard", "retry", "resolve"}
  BY OfflineAssumption DEF Strategies
<1>9. CASE how = "discard"
  <2>1. excused' = excused \cup UNION {m.edits : m \in Stored(q.write)} /\ Send(q.tab, s, Without(q.write), wires)
    BY <1>3, <1>5, <1>9 DEF Resolve
  <2>2. \A m \in ToSet(queue) : m.write = f.write => m.edits \subseteq excused'
    BY <2>1, <1>2 DEF Stored
  <2>3. excused \subseteq excused' /\ excused' \subseteq Writes
    <3>1. \A m \in ToSet(queue) : m.edits \subseteq Writes
      BY <1>2, KeptFacts
    <3> QED BY <2>1, <3>1, <1>7 DEF Stored
  <2>4. PICK r : r = Without(q.write)
    OBVIOUS
  <2>5. r \in Queues /\ ToSet(r) = Others(ToSet(queue), f.write)
    BY <2>4, <1>2, WithoutFacts
  <2>6. Settled(ToSet(queue), ToSet(r), excused', applied, f)
    BY <2>2, <2>5, GoneSettles
  <2> QED BY <2>1, <2>3, <2>4, <2>5, <2>6, <1>1, <1>3, <1>4, <1>6, FinishKeeps
<1>10. PICK k : k = f.retry + 1
  OBVIOUS
<1>11. k \in 0..MaxRetries
  BY <1>2, <1>10, RetriedSettles
<1>12. CASE how = "retry"
  <2> DEFINE a == [Head(tab[q.tab].list) EXCEPT !.retry = @ + 1, !.status = "pending"]
  <2>1. PICK r : r = Retrying(queue, q.write, "pending", a.retry)
    OBVIOUS
  <2>2. a.retry = k
    BY <1>2, <1>10 DEF Kept, Mutations
  <2>3. excused' = excused /\ Send(q.tab, s, r, wires)
    <3>1. excused' = excused /\ Send(q.tab, Advanced(q.tab),
              Retrying(queue, q.write, "pending", a.retry), wire \ {q})
      BY <1>12 DEF Resolve
    <3> QED BY <3>1, <2>1, <1>3, <1>5
  <2> HIDE DEF a
  <2>4. Settled(ToSet(queue), RetriedIn(ToSet(queue), q.write, "pending", k), excused', applied, f)
    BY <1>2, <1>10, RetriedSettles
  <2>5. r \in Queues /\ ToSet(r) = RetriedIn(ToSet(queue), q.write, "pending", k)
    <3>1. PICK j \in 0..MaxRetries : j = a.retry
      BY <2>2, <1>11
    <3>2. r = Retrying(queue, q.write, "pending", j)
      BY <2>1, <3>1
    <3> QED BY <1>2, <2>2, <3>1, <3>2, RetriedFacts
  <2> QED BY <2>3, <2>4, <2>5, <1>1, <1>3, <1>4, <1>6, <1>7, FinishKeeps
<1>13. CASE how = "resolve"
  <2> DEFINE a == [Head(tab[q.tab].list) EXCEPT !.retry = @ + 1, !.status = "pending"]
  <2>1. PICK n : n = [a EXCEPT !.key.of = a.retry]
    OBVIOUS
  <2>2. PICK r : r = Versioned(queue, q.write, [a EXCEPT !.key.of = a.retry])
    OBVIOUS
  <2>3. excused' = excused /\ Send(q.tab, s, r, wires)
    <3>1. excused' = excused /\ Send(q.tab, Advanced(q.tab),
              Versioned(queue, q.write, [a EXCEPT !.key.of = a.retry]), wire \ {q})
      BY <1>13 DEF Resolve
    <3> QED BY <3>1, <2>2, <1>3, <1>5
  <2>4. a = Retried(f, "pending", k)
    BY <1>2, <1>10 DEF Retried, Kept, Mutations
  <2> HIDE DEF a
  <2>5. /\ a \in Kept /\ a.write = f.write /\ a.edits = f.edits /\ a.retry = k
        /\ a.status = "pending" /\ a.key = f.key
    BY <2>4, <1>2, <1>11, RetriedKept
  <2>6. n \in Kept /\ n.write = f.write /\ n.edits = f.edits /\ n.retry = k /\ n.status = "pending"
    <3>1. a.key \in KeyRecords /\ a.key.write = a.write /\ a.retry \in -1..MaxRetries
      BY <2>5, <1>11, KeptFacts
    <3>2. PICK y : y = [a.key EXCEPT !.of = a.retry]
      OBVIOUS
    <3>3. y \in KeyRecords /\ y.write = a.write
      BY <3>1, <3>2 DEF KeyRecords
    <3>4. y \in Keys
      BY <3>3 DEF Keys, KeyRecords
    <3>5. n = [a EXCEPT !.key = y]
      BY <2>1, <2>5, <3>2 DEF Kept, Mutations
    <3>6. n \in Mutations /\ n.write = a.write /\ n.edits = a.edits /\ n.retry = k /\ n.status = "pending" /\ n.key = y
      BY <2>5, <3>4, <3>5 DEF Kept, Mutations
    <3>7. n \in Kept
      BY <2>5, <3>3, <3>6 DEF Kept
    <3> QED BY <2>5, <3>6, <3>7
  <2>7. r = Versioned(queue, q.write, n)
    BY <2>1, <2>2
  <2>8. Settled(ToSet(queue), Swapped(ToSet(queue), q.write, n), excused', applied, f)
    <3>1. \A m \in ToSet(queue) : m.write = f.write => Same(excused', m, n)
      BY <1>2, <2>6, <2>3 DEF Same
    <3> QED BY <3>1, <2>6, <1>2, <1>10, SwappedSettles
  <2>9. r \in Queues /\ ToSet(r) = Swapped(ToSet(queue), q.write, n)
    BY <1>2, <2>6, <2>7, SwappedFacts
  <2> QED BY <2>3, <2>8, <2>9, <1>1, <1>3, <1>4, <1>6, <1>7, FinishKeeps
<1> QED BY <1>8, <1>9, <1>12, <1>13

-----------------------------------------------------------------------------
(* The steps of the client *)

\* Requests that are new, or only no longer waited for, carry no new answers.
Answerless == \A p \in wire' : p.stage = "sent" \/ \E q \in wire : /\ p.stage = q.stage /\ p.answer = q.answer
                                                                   /\ p.edits = q.edits

LEMMA BaseAfter ==
    ASSUME Base, Progress, Answerless, todo' = todo, posts' \subseteq Posts, UNCHANGED server,
           issued' = issued, losses' \in Nat, reloads' \in Nat, lapses' = lapses, unsure' \in [Objects -> Nat]
    PROVE  Base'
<1>1. ClientTyped'
  BY DEF Base, ClientTyped, Progress
<1>2. ServerTyped'
  BY DEF Base, ServerTyped, Progress
<1>3. GhostTyped'
  BY DEF Base, GhostTyped, Progress
<1>4. (todo \cap issued = {})' /\ Clients'
  BY DEF Base, Progress
<1>5. Truthful(applied, wire, cache \cup saving)'
  <2>1. \A p \in wire' : p.stage = "answered" /\ p.answer.ok => p.edits \subseteq applied
    BY DEF Base, Truthful, Answerless
  <2> QED BY <2>1 DEF Base, Truthful
<1>6. (lapses = 0 => Turns)'
  BY DEF Base, Progress
<1> QED BY <1>1, <1>2, <1>3, <1>4, <1>5, <1>6 DEF Base

LEMMA SilentFacts ==
    ASSUME NEW q \in Requested
    PROVE  LET r == [q EXCEPT !.waits = FALSE] IN
           /\ r \in Requested /\ ~ r.waits /\ r.write = q.write /\ r.edits = q.edits
           /\ r.stage = q.stage /\ r.answer = q.answer
  BY DEF Requested, Requests

LEMMA DropKeeps ==
    ASSUME Base, NEW q \in wire, Drop(q)
    PROVE  Base' /\ Lost' \subseteq Lost /\ reloads' = reloads
<1>1. q \in Requested /\ wire \in SUBSET Requested
  BY DEF Base, ServerTyped
<1>2. PICK rest \in SUBSET {[q EXCEPT !.waits = FALSE]} :
          /\ IF q.direct THEN Enqueue(q.tab, q.write, (wire \ {q}) \cup rest)
             ELSE /\ MarkFailed(q, (wire \ {q}) \cup rest)
                  /\ UNCHANGED <<direct, leader, excused>>
          /\ unsure' = unsure \/ unsure' = [unsure EXCEPT ![q.write.obj] = @ + 1]
  BY DEF Drop
<1>3. /\ q.waits /\ losses' = losses + 1 /\ todo' = todo /\ posts' = posts /\ UNCHANGED server
      /\ reloads' = reloads /\ lapses' = lapses /\ issued' = issued
  BY DEF Drop
<1>4. PICK wires : wires = (wire \ {q}) \cup rest
  OBVIOUS
<1>5. \A r \in rest : /\ r \in Requested /\ ~ r.waits /\ r.write = q.write /\ r.edits = q.edits
                      /\ r.stage = q.stage /\ r.answer = q.answer
  BY <1>1, SilentFacts
<1>6. wires \in SUBSET Requested /\ Over(wire, wires, q)
  BY <1>1, <1>4, <1>5 DEF Over
<1>7. Progress /\ \A p \in wire' : p \in wires \/ p.stage = "sent"
  <2>1. CASE q.direct
    BY <1>2, <1>3, <1>4, <1>6, <2>1, EnqueueKeeps DEF First
  <2>2. CASE ~ q.direct
    <3>1. MarkFailed(q, wires) /\ direct' = direct /\ leader' = leader /\ excused' = excused /\ applied' = applied
      BY <1>2, <1>3, <1>4, <2>2
    <3> QED BY <1>3, <1>6, <2>2, <3>1, MarkFailedKeeps DEF Synced
  <2> QED BY <2>1, <2>2
<1>8. Answerless
  BY <1>4, <1>5, <1>7 DEF Answerless
<1>9. losses' \in Nat /\ reloads' \in Nat /\ unsure' \in [Objects -> Nat] /\ posts' \subseteq Posts
  BY <1>2, <1>3 DEF Base, GhostTyped, ClientTyped
<1> QED BY <1>3, <1>7, <1>8, <1>9, BaseAfter DEF Progress

LEMMA OnlineKeeps ==
    ASSUME Base, NEW t \in Tabs, Online(t)
    PROVE  Base' /\ Lost' \subseteq Lost /\ reloads' = reloads
<1>1. PICK s : s = [tab[t] EXCEPT !.online = TRUE]
  OBVIOUS
<1>2. /\ queue \in Queues /\ tab \in [Tabs -> TabRecords] /\ wire \in SUBSET Requested
      /\ sends \in [Writes -> Nat] /\ leader \in Tabs \cup {Nobody, Gone}
      /\ direct \subseteq Writes /\ excused \subseteq Writes /\ Clients
  BY DEF Base, ClientTyped, ServerTyped, GhostTyped
<1>3. s \in TabRecords /\ s.list = tab[t].list
  BY <1>1, <1>2 DEF TabRecords
<1>4. /\ Sync(t, s, queue, wire) /\ todo' = todo /\ direct' = direct /\ posts' = posts /\ UNCHANGED server
      /\ losses' = losses /\ reloads' = reloads /\ lapses' = lapses
      /\ issued' = issued /\ excused' = excused /\ unsure' = unsure
  BY <1>1 DEF Online
<1>5. /\ queue' \in Queues /\ tab' \in [Tabs -> TabRecords]
      /\ wire' \in SUBSET Requested /\ sends' \in [Writes -> Nat] /\ leader' \in Tabs \cup {Nobody, Gone}
      /\ \A r \in wire' : r \in wire \/ r.stage = "sent"
      /\ Client(Tabs, direct, issued, excused, applied, ToSet(queue'), tab', wire')
      /\ Turn(Tabs, direct, issued, ToSet(queue), tab, leader, sends)
                   => Turn(Tabs, direct, issued, ToSet(queue'), tab', leader', sends')
      /\ StrandedIn(Tabs, ToSet(queue'), tab') \subseteq StrandedIn(Tabs, ToSet(queue), tab)
  <2>1. Client(Tabs, direct, issued, excused, applied, ToSet(queue), tab, wire)
    BY <1>2 DEF Clients
  <2> QED BY <1>2, <1>3, <1>4, <2>1, SyncKeeps
<1>6. Progress
  BY <1>2, <1>4, <1>5 DEF Progress, Clients, Turns, Lost
<1>7. Answerless
  BY <1>5 DEF Answerless
<1>8. losses' \in Nat /\ reloads' \in Nat /\ unsure' \in [Objects -> Nat] /\ posts' \subseteq Posts
  BY <1>4 DEF Base, GhostTyped, ClientTyped
<1> QED BY <1>4, <1>6, <1>7, <1>8, BaseAfter DEF Progress

\* An answer of success brings a tab the number of the row that was created.
LEMMA KnownFacts ==
    ASSUME Base, NEW q \in wire
    PROVE  /\ q.tab \in Tabs /\ Known(q.tab, q) \in TabRecords /\ Known(q.tab, q).list = tab[q.tab].list
           /\ [to : Tabs, obj : {q.write.obj}, n : {q.answer.n}] \subseteq Posts
<1>1. q \in Requests /\ tab \in [Tabs -> TabRecords]
  BY DEF Base, ClientTyped, ServerTyped, Requested
<1>2. q.tab \in Tabs /\ q.write \in Writes /\ q.answer \in Answers
  BY <1>1 DEF Requests
<1>3. q.write.obj \in Objects /\ q.answer.n \in Nat
  BY <1>2, OfflineAssumption DEF Answers
<1>4. tab[q.tab] \in TabRecords
  BY <1>1, <1>2
<1>5. Known(q.tab, q) \in TabRecords /\ Known(q.tab, q).list = tab[q.tab].list
  BY <1>3, <1>4 DEF Known, TabRecords
<1>6. [to : Tabs, obj : {q.write.obj}, n : {q.answer.n}] \subseteq Posts
  BY <1>3 DEF Posts
<1> QED BY <1>2, <1>5, <1>6

LEMMA FirstAnswerKeeps ==
    ASSUME Base, NEW q \in wire, FirstAnswer(q)
    PROVE  Base' /\ Lost' \subseteq Lost /\ reloads' = reloads
<1>1. /\ First(q) /\ q.stage = "answered" /\ todo' = todo /\ posts' = posts /\ UNCHANGED server
      /\ losses' = losses /\ reloads' = reloads /\ lapses' = lapses /\ issued' = issued /\ unsure' = unsure
  BY DEF FirstAnswer, First
<1>2. wire \in SUBSET Requested /\ (wire \ {q}) \in SUBSET Requested /\ Over(wire, wire \ {q}, q)
  BY DEF Base, ServerTyped, Over
<1>3. losses' \in Nat /\ reloads' \in Nat /\ unsure' \in [Objects -> Nat] /\ posts' \subseteq Posts
  BY <1>1 DEF Base, GhostTyped, ClientTyped
<1>4. CASE ~ q.answer.ok
  <2>1. Enqueue(q.tab, q.write, wire \ {q})
    BY <1>4 DEF FirstAnswer
  <2>2. Progress /\ \A p \in wire' : p \in wire \ {q} \/ p.stage = "sent"
    BY <1>1, <1>2, <2>1, EnqueueKeeps
  <2>3. Answerless
    BY <2>2 DEF Answerless
  <2> QED BY <1>1, <1>3, <2>2, <2>3, BaseAfter DEF Progress
<1>5. CASE q.answer.ok
  <2>1. /\ direct' = direct \ {q.write} /\ tab' = [tab EXCEPT ![q.tab] = Known(q.tab, q)] /\ wire' = wire \ {q}
        /\ queue' = queue /\ leader' = leader /\ excused' = excused /\ sends' = sends
    BY <1>5 DEF FirstAnswer
  <2>2. /\ direct \subseteq Writes /\ queue \in Queues /\ tab \in [Tabs -> TabRecords]
        /\ leader \in Tabs \cup {Nobody, Gone} /\ sends \in [Writes -> Nat] /\ excused \subseteq Writes
        /\ Clients /\ Truthful(applied, wire, cache \cup saving)
    BY DEF Base, ClientTyped, GhostTyped
  <2>3. tab' \in [Tabs -> TabRecords] /\ \A u \in Tabs : tab'[u].list = tab[u].list
    BY <2>1, <2>2, KnownFacts
  <2>4. PICK T : T = tab'
    OBVIOUS
  <2>5. q.write \in direct /\ q.write \in applied
    <3>1. q.write \in direct /\ q.edits = {q.write}
      BY <1>1, <2>2 DEF Clients, Client, Awaits
    <3>2. q.edits \subseteq applied
      BY <1>1, <1>5, <2>2 DEF Truthful
    <3> QED BY <3>1, <3>2
  <2>6. Client(Tabs, direct \ {q.write}, issued, excused, applied, ToSet(queue), tab, wire \ {q})
    <3>1. /\ Phased(direct, issued, ToSet(queue), tab, wire) /\ Awaits(Tabs, direct, tab, wire)
          /\ Copied(excused, ToSet(queue), tab) /\ Held(direct, issued, excused, applied, ToSet(queue))
      BY <2>2 DEF Clients, Client
    <3>2. Phased(direct \ {q.write}, issued, ToSet(queue), tab, wire \ {q})
      BY <3>1 DEF Phased
    <3>3. Awaits(Tabs, direct \ {q.write}, tab, wire \ {q})
      BY <3>1, <1>1, <1>2, OverAwaits
    <3>4. Held(direct \ {q.write}, issued, excused, applied, ToSet(queue))
      BY <3>1, <2>5 DEF Held
    <3> QED BY <3>1, <3>2, <3>3, <3>4 DEF Client
  <2>7. Client(Tabs, direct \ {q.write}, issued, excused, applied, ToSet(queue), T, wire \ {q})
    BY <2>3, <2>4, <2>6, SameLists
  <2>8. ASSUME Turns PROVE Turn(Tabs, direct \ {q.write}, issued, ToSet(queue), T, leader, sends)
    <3>1. Turn(Tabs, direct \ {q.write}, issued, ToSet(queue), tab, leader, sends)
      BY <2>8 DEF Turns, Turn, Bounded
    <3> QED BY <2>3, <2>4, <3>1, SameTurn
  <2>9. StrandedIn(Tabs, ToSet(queue), T) = Lost
    BY <2>3, <2>4, SameStranded DEF Lost
  <2>10. Progress
    BY <1>1, <1>2, <2>1, <2>2, <2>3, <2>4, <2>7, <2>8, <2>9 DEF Progress, Clients, Turns, Lost
  <2>11. Answerless
    BY <2>1 DEF Answerless
  <2> QED BY <1>1, <1>3, <2>10, <2>11, BaseAfter DEF Progress
<1> QED BY <1>4, <1>5

LEMMA SyncAnswerKeeps ==
    ASSUME Base, NEW q \in wire, SyncAnswer(q)
    PROVE  Base' /\ Lost' \subseteq Lost /\ reloads' = reloads
<1>1. /\ Synced(q) /\ q.stage = "answered" /\ todo' = todo /\ direct' = direct /\ leader' = leader /\ UNCHANGED server
      /\ losses' = losses /\ reloads' = reloads /\ lapses' = lapses /\ issued' = issued /\ unsure' = unsure
      /\ applied' = applied
  BY DEF SyncAnswer, Synced
<1>2. PICK wires : wires = wire \ {q}
  OBVIOUS
<1>3. wires \in SUBSET Requested /\ Over(wire, wires, q)
  BY <1>2 DEF Base, ServerTyped, Over
<1>4. losses' \in Nat /\ reloads' \in Nat /\ unsure' \in [Objects -> Nat] /\ posts \subseteq Posts
  BY <1>1 DEF Base, GhostTyped, ClientTyped
<1>5. CASE ~ q.answer.ok
  <2>1. posts' = posts
    BY <1>5 DEF SyncAnswer
  <2>2. Progress /\ \A p \in wire' : p \in wire \ {q} \/ p.stage = "sent"
    <3>1. CASE q.answer.why = "conflict"
      <4>1. PICK how \in Resolutions : Resolve(q, how)
        BY <1>5, <3>1 DEF SyncAnswer
      <4> QED BY <1>1, <4>1, ResolveKeeps
    <3>2. CASE q.answer.why # "conflict"
      <4>1. MarkFailed(q, wires) /\ excused' = excused
        BY <1>2, <1>5, <3>2 DEF SyncAnswer
      <4> QED BY <1>1, <1>2, <1>3, <4>1, MarkFailedKeeps
    <3> QED BY <3>1, <3>2
  <2>3. Answerless
    BY <2>2 DEF Answerless
  <2> QED BY <1>1, <1>4, <2>1, <2>2, <2>3, BaseAfter DEF Progress
<1>6. CASE q.answer.ok
  <2>1. PICK s : s = [Known(q.tab, q) EXCEPT !.list = Tail(@)]
    OBVIOUS
  <2>2. PICK r : r = Without(q.write)
    OBVIOUS
  <2>3. /\ posts' \subseteq posts \cup [to : Tabs, obj : {q.write.obj}, n : {q.answer.n}]
        /\ Send(q.tab, s, r, wires) /\ excused' = excused
    BY <1>2, <1>6, <2>1, <2>2 DEF SyncAnswer
  <2>4. posts' \subseteq Posts
    BY <1>4, <2>3, KnownFacts
  <2>5. PICK f : f = Sending(tab, q.tab)
    OBVIOUS
  <2>6. /\ tab[q.tab].list # <<>> /\ q.write = f.write /\ q.edits = f.edits /\ queue \in Queues
        /\ \A m \in ToSet(queue) : m.write = f.write => Same(excused, m, f)
    BY <1>1, <2>5, SyncedFacts
  <2>7. s \in TabRecords /\ s.list = Tail(tab[q.tab].list)
    BY <2>1, <2>6, KnownFacts, AdvancedFacts
  <2>8. q.edits \subseteq applied
    BY <1>1, <1>6 DEF Base, Truthful
  <2>9. r \in Queues /\ ToSet(r) = Others(ToSet(queue), f.write)
    BY <2>2, <2>6, WithoutFacts
  <2>10. Settled(ToSet(queue), ToSet(r), excused', applied, f)
    <3>1. \A m \in ToSet(queue) : m.write = f.write => m.edits \subseteq applied \cup excused'
      BY <2>3, <2>6, <2>8 DEF Same
    <3> QED BY <3>1, <2>9, GoneSettles
  <2>11. excused \subseteq excused' /\ excused' \subseteq Writes
    BY <2>3 DEF Base, GhostTyped
  <2>12. Progress /\ \A p \in wire' : p \in wires \/ p.stage = "sent"
    BY <1>1, <1>3, <2>3, <2>5, <2>7, <2>9, <2>10, <2>11, FinishKeeps
  <2>13. Answerless
    BY <1>2, <2>12 DEF Answerless
  <2> QED BY <1>1, <1>4, <2>4, <2>12, <2>13, BaseAfter DEF Progress
<1> QED BY <1>5, <1>6

FirstSent(w, ids) ==
    [Request(w.tab, NewMutation(w), ids) EXCEPT
        !.direct = TRUE, !.key = IF w.kind = "create" THEN [write |-> w, of |-> Directly] ELSE Nobody]

LEMMA FirstRequest ==
    ASSUME NEW w \in Writes, NEW ids \in [Objects -> Nat]
    PROVE  LET r == FirstSent(w, ids)
           IN  /\ r \in Requested /\ First(r) /\ r.tab = w.tab /\ r.write = w
               /\ r.edits = {w} /\ r.stage = "sent"
<1>1. PICK m : m = NewMutation(w)
  OBVIOUS
<1>2. m \in Kept /\ m.write = w /\ m.edits = {w} /\ m.status = "pending" /\ m.retry = 0
  BY <1>1, NewFacts
<1>3. m \in Copies /\ w.tab \in Tabs
  BY <1>2, OfflineAssumption DEF Copies, Sendable
<1>4. PICK p : p = Request(w.tab, m, ids)
  OBVIOUS
<1>5. p \in Requested /\ Synced(p) /\ p.tab = w.tab /\ p.stage = "sent" /\ p.write = w /\ p.edits = {w}
  BY <1>2, <1>3, <1>4, RequestFacts
<1>6. PICK k : k = IF w.kind = "create" THEN [write |-> w, of |-> Directly] ELSE Nobody
  OBVIOUS
<1>7. k \in Keys /\ (w.kind = "create" => k \in KeyRecords /\ k.write = w) /\ (w.kind # "create" => k = Nobody)
  <2>1. -1 \in -1..MaxRetries
    BY OfflineAssumption
  <2>2. [write |-> w, of |-> Directly] \in KeyRecords
    BY <2>1 DEF Directly, KeyRecords
  <2> QED BY <1>6, <2>2 DEF Keys, KeyRecords
<1>8. PICK r : r = [p EXCEPT !.direct = TRUE, !.key = k]
  OBVIOUS
<1>9. /\ r \in Requests /\ r.tab = w.tab /\ r.stage = "sent" /\ r.write = w /\ r.edits = {w}
      /\ r.waits /\ r.direct /\ r.key = k
  BY <1>5, <1>7, <1>8 DEF Requested, Requests, Synced
<1>10. r \in Requested /\ First(r)
  BY <1>7, <1>9 DEF Requested, First
<1>11. r = FirstSent(w, ids)
  BY <1>1, <1>4, <1>6, <1>8 DEF FirstSent
<1> QED BY <1>5, <1>9, <1>10, <1>11

LEMMA MakeKeeps ==
    ASSUME Base, NEW w \in todo, Make(w)
    PROVE  Base' /\ Lost' \subseteq Lost /\ reloads' = reloads
<1>1. /\ ClientTyped /\ ServerTyped /\ GhostTyped /\ todo \cap issued = {} /\ Clients
      /\ Truthful(applied, wire, cache \cup saving)
  BY DEF Base
<1>2. w \in Writes /\ w.tab \in Tabs /\ tab[w.tab].ids \in [Objects -> Nat]
  BY <1>1, OfflineAssumption DEF ClientTyped, TabRecords
<1>3. PICK r : r = FirstSent(w, tab[w.tab].ids)
  OBVIOUS
<1>4. r \in Requested /\ First(r) /\ r.tab = w.tab /\ r.write = w /\ r.edits = {w} /\ r.stage = "sent"
  BY <1>2, <1>3, FirstRequest
<1>5. /\ todo' = todo \ {w} /\ direct' = direct \cup {w} /\ wire' = wire \cup {r} /\ issued' = issued \cup {w}
      /\ UNCHANGED <<queue, tab, posts, leader, server, faults, excused, sends, unsure>>
  BY <1>3 DEF Make, FirstSent
<1>6. w \notin issued
  BY <1>1
<1>7. ClientTyped' /\ ServerTyped' /\ GhostTyped' /\ (todo \cap issued = {})'
  <2>1. ClientTyped'
    BY <1>1, <1>2, <1>5 DEF ClientTyped
  <2>2. ServerTyped'
    BY <1>1, <1>4, <1>5 DEF ServerTyped
  <2>3. GhostTyped'
    BY <1>1, <1>2, <1>5 DEF GhostTyped
  <2>4. (todo \cap issued = {})'
    BY <1>1, <1>5
  <2> QED BY <2>1, <2>2, <2>3, <2>4
<1>8. Client(Tabs, direct \cup {w}, issued \cup {w}, excused, applied, ToSet(queue), tab, wire \cup {r})
  <2>1. /\ Phased(direct, issued, ToSet(queue), tab, wire) /\ Awaits(Tabs, direct, tab, wire)
        /\ Copied(excused, ToSet(queue), tab) /\ Held(direct, issued, excused, applied, ToSet(queue))
    BY <1>1 DEF Clients, Client
  <2>2. Phased(direct \cup {w}, issued \cup {w}, ToSet(queue), tab, wire \cup {r})
    BY <2>1, <1>4, <1>6 DEF Phased
  <2>3. Awaits(Tabs, direct \cup {w}, tab, wire \cup {r})
    <3>1. \A q \in wire : q.write # w
      BY <2>1, <1>6 DEF Phased
    <3>2. ~ Synced(r)
      BY <1>4 DEF First, Synced
    <3> QED BY <2>1, <3>1, <3>2, <1>4 DEF Awaits
  <2>4. Held(direct \cup {w}, issued \cup {w}, excused, applied, ToSet(queue))
    BY <2>1 DEF Held
  <2> QED BY <2>1, <2>2, <2>3, <2>4 DEF Client
<1>9. Clients'
  BY <1>5, <1>8 DEF Clients
<1>10. Truthful(applied, wire, cache \cup saving)'
  BY <1>1, <1>4, <1>5 DEF Truthful
<1>11. (lapses = 0 => Turns)'
  <2>1. ASSUME Turns PROVE Turn(Tabs, direct \cup {w}, issued \cup {w}, ToSet(queue), tab, leader, sends)
    BY <2>1, <1>6 DEF Turns, Turn, Bounded
  <2> QED BY <2>1, <1>5 DEF Turns, Base
<1>12. Lost' = Lost /\ reloads' = reloads
  BY <1>5 DEF Lost
<1> QED BY <1>7, <1>9, <1>10, <1>11, <1>12 DEF Base

\* Steps that change a tab, but not the list its sync works on.
LEMMA TabKeeps ==
    ASSUME Base, tab' \in [Tabs -> TabRecords], \A u \in Tabs : tab'[u].list = tab[u].list,
           UNCHANGED <<todo, direct, queue, leader, wire, server, reloads, lapses, ghosts>>,
           posts' \subseteq Posts, losses' \in Nat
    PROVE  Base' /\ Lost' \subseteq Lost /\ reloads' = reloads
<1>1. PICK T : T = tab'
  OBVIOUS
<1>2. Client(Tabs, direct, issued, excused, applied, ToSet(queue), T, wire)
  BY <1>1, SameLists DEF Base, Clients
<1>3. ASSUME Turns PROVE Turn(Tabs, direct, issued, ToSet(queue), T, leader, sends)
  BY <1>1, <1>3, SameTurn DEF Turns
<1>4. StrandedIn(Tabs, ToSet(queue), T) = Lost
  BY <1>1, SameStranded DEF Lost
<1>5. ClientTyped' /\ ServerTyped' /\ GhostTyped'
  <2>1. ClientTyped'
    BY DEF Base, ClientTyped
  <2>2. ServerTyped'
    BY DEF Base, ServerTyped
  <2>3. GhostTyped'
    BY DEF Base, GhostTyped
  <2> QED BY <2>1, <2>2, <2>3
<1>6. Clients' /\ (lapses = 0 => Turns)'
  BY <1>1, <1>2, <1>3 DEF Base, Clients, Turns
<1>7. (todo \cap issued = {})' /\ Truthful(applied, wire, cache \cup saving)'
  BY DEF Base
<1>8. Lost' = Lost /\ reloads' = reloads
  BY <1>1, <1>4 DEF Lost
<1> QED BY <1>5, <1>6, <1>7, <1>8 DEF Base

LEMMA OfflineKeeps ==
    ASSUME Base, NEW t \in Tabs, Offline(t)
    PROVE  Base' /\ Lost' \subseteq Lost /\ reloads' = reloads
<1>1. tab \in [Tabs -> TabRecords] /\ losses \in Nat /\ posts \subseteq Posts
  BY DEF Base, ClientTyped, GhostTyped
<1>2. /\ tab' = [tab EXCEPT ![t].online = FALSE] /\ losses' = losses + 1 /\ posts' = posts
      /\ UNCHANGED <<todo, direct, queue, leader, wire, server, reloads, lapses, ghosts>>
  BY DEF Offline
<1>3. tab' \in [Tabs -> TabRecords] /\ \A u \in Tabs : tab'[u].list = tab[u].list
  BY <1>1, <1>2 DEF TabRecords
<1> QED BY <1>1, <1>2, <1>3, TabKeeps

LEMMA HearKeeps ==
    ASSUME Base, NEW p \in posts, Hear(p)
    PROVE  Base' /\ Lost' \subseteq Lost /\ reloads' = reloads
<1>1. tab \in [Tabs -> TabRecords] /\ losses \in Nat /\ posts \subseteq Posts
  BY DEF Base, ClientTyped, GhostTyped
<1>2. p.to \in Tabs /\ p.obj \in Objects /\ p.n \in Nat
  BY <1>1 DEF Posts
<1>3. /\ posts' = posts \ {p} /\ tab' = [tab EXCEPT ![p.to].ids[p.obj] = IF @ = 0 THEN p.n ELSE @]
      /\ losses' = losses
      /\ UNCHANGED <<todo, direct, queue, leader, wire, server, reloads, lapses, ghosts>>
  BY DEF Hear
<1>4. tab[p.to] \in TabRecords
  BY <1>1, <1>2
<1>5. PICK s : s = [tab[p.to] EXCEPT !.ids[p.obj] = IF @ = 0 THEN p.n ELSE @]
  OBVIOUS
<1>6. s \in TabRecords /\ s.list = tab[p.to].list
  BY <1>2, <1>4, <1>5 DEF TabRecords
<1>7. tab' = [tab EXCEPT ![p.to] = s]
  BY <1>1, <1>2, <1>3, <1>5
<1>8. tab' \in [Tabs -> TabRecords] /\ \A u \in Tabs : tab'[u].list = tab[u].list
  BY <1>1, <1>2, <1>6, <1>7
<1> QED BY <1>1, <1>3, <1>8, TabKeeps

LEMMA LeaderKeeps ==
    ASSUME Base, Expire \/ Lapse
    PROVE  Base' /\ Lost' \subseteq Lost /\ reloads' = reloads
<1>1. /\ UNCHANGED <<todo, direct, queue, tab, posts, wire, server, losses, reloads, ghosts>>
      /\ leader' = Nobody
      /\ \/ leader = Gone /\ lapses' = lapses
         \/ leader \in Tabs /\ lapses' = lapses + 1
  BY DEF Expire, Lapse
<1>2. lapses \in Nat
  BY DEF Base, GhostTyped
<1>3. ClientTyped' /\ ServerTyped' /\ GhostTyped'
  <2>1. ClientTyped'
    BY <1>1 DEF Base, ClientTyped
  <2>2. ServerTyped'
    BY <1>1 DEF Base, ServerTyped
  <2>3. GhostTyped'
    BY <1>1, <1>2 DEF Base, GhostTyped
  <2> QED BY <2>1, <2>2, <2>3
<1>4. (todo \cap issued = {})' /\ Clients' /\ Truthful(applied, wire, cache \cup saving)'
  BY <1>1 DEF Base, Clients
<1>5. (lapses = 0 => Turns)'
  <2>1. CASE leader = Gone /\ lapses' = lapses
    <3>1. ASSUME Turns PROVE Turn(Tabs, direct, issued, ToSet(queue), tab, Nobody, sends)
      BY <3>1, <2>1, OfflineAssumption DEF Turns, Turn, Leading
    <3> QED BY <3>1, <2>1, <1>1 DEF Base, Turns
  <2>2. CASE lapses' = lapses + 1
    BY <2>2, <1>2
  <2> QED BY <2>1, <2>2, <1>1
<1>6. Lost' = Lost /\ reloads' = reloads
  BY <1>1 DEF Lost
<1> QED BY <1>3, <1>4, <1>5, <1>6 DEF Base

LEMMA ReloadKeeps ==
    ASSUME Base, NEW t \in Tabs, Reload(t)
    PROVE  /\ Base' /\ reloads' = reloads + 1
           /\ Lost' \subseteq Lost \cup {m \in ToSet(queue) : m.write = Sending(tab, t).write}
<1>1. /\ ClientTyped /\ ServerTyped /\ GhostTyped /\ todo \cap issued = {} /\ Clients
      /\ Truthful(applied, wire, cache \cup saving)
  BY DEF Base
<1>2. /\ direct \subseteq Writes /\ queue \in Queues /\ tab \in [Tabs -> TabRecords] /\ posts \subseteq Posts
      /\ leader \in Tabs \cup {Nobody, Gone} /\ wire \in SUBSET Requested
  BY <1>1 DEF ClientTyped, ServerTyped
<1>3. /\ tab' = [tab EXCEPT ![t] = [Closed EXCEPT !.online = tab[t].online]]
      /\ direct' = {w \in direct : w.tab # t}
      /\ excused' = excused \cup {w \in direct : w.tab = t}
      /\ posts' = {p \in posts : p.to # t}
      /\ wire' = {q \in wire : q.tab # t} \cup
                 {[q EXCEPT !.waits = FALSE] : q \in {r \in wire : r.tab = t /\ r.stage # "answered"}}
      /\ leader' = IF leader = t THEN Gone ELSE leader
      /\ reloads' = reloads + 1
      /\ UNCHANGED <<todo, queue, server, losses, lapses, issued, sends, unsure>>
  BY DEF Reload
<1>4. PICK s : s = [Closed EXCEPT !.online = tab[t].online]
  OBVIOUS
<1>5. s \in TabRecords /\ s.list = <<>>
  <2>1. <<>> \in Lists
    BY DEF Lists, Distinct
  <2>2. tab[t].online \in BOOLEAN
    BY <1>2 DEF TabRecords
  <2> QED BY <2>1, <2>2, <1>4 DEF Closed, TabRecords
<1>6. PICK T : T = tab'
  OBVIOUS
<1>7. T \in [Tabs -> TabRecords] /\ T[t].list = <<>> /\ \A u \in Tabs \ {t} : T[u].list = tab[u].list
  BY <1>2, <1>3, <1>4, <1>5, <1>6
<1>8. /\ Listed(T, t) = {} /\ ~ Busy(T, t)
      /\ \A u \in Tabs \ {t} : Listed(T, u) = Listed(tab, u) /\ (Busy(T, u) <=> Busy(tab, u)) /\ Sending(T, u) = Sending(tab, u)
  BY <1>7 DEF Listed, Busy, Sending, ToSet
<1>9. \A r \in wire' : /\ r \in Requested
                       /\ (r \in wire /\ r.tab # t)
                            \/ (~ r.waits /\ \E q \in wire : /\ r.write = q.write /\ r.edits = q.edits
                                                             /\ r.stage = q.stage /\ r.answer = q.answer)
  <2> SUFFICES ASSUME NEW r \in wire', ~ (r \in wire /\ r.tab # t)
               PROVE  r \in Requested /\ ~ r.waits /\ \E q \in wire : /\ r.write = q.write /\ r.edits = q.edits
                                                                      /\ r.stage = q.stage /\ r.answer = q.answer
    BY <1>2
  <2>1. PICK q \in wire : r = [q EXCEPT !.waits = FALSE]
    BY <1>3
  <2> QED BY <2>1, <1>2, SilentFacts
<1>10. PICK D : D = direct'
  OBVIOUS
<1>11. PICK E : E = excused'
  OBVIOUS
<1>12. PICK W : W = wire'
  OBVIOUS
<1>13. D \subseteq direct /\ excused \subseteq E /\ \A w \in direct : IF w.tab = t THEN w \in E ELSE w \in D
  BY <1>3, <1>10, <1>11
<1>14. Client(Tabs, D, issued, E, applied, ToSet(queue), T, W)
  <2>1. /\ Phased(direct, issued, ToSet(queue), tab, wire) /\ Awaits(Tabs, direct, tab, wire)
        /\ Copied(excused, ToSet(queue), tab) /\ Held(direct, issued, excused, applied, ToSet(queue))
    BY <1>1 DEF Clients, Client
  <2>2. \A u \in Tabs : \A c \in Listed(T, u) : c \in Listed(tab, u)
    BY <1>8
  <2>3. Phased(D, issued, ToSet(queue), T, W)
    BY <2>1, <2>2, <1>9, <1>12, <1>13 DEF Phased
  <2>4. Awaits(Tabs, D, T, W)
    <3>1. \A r \in W : First(r) \/ Synced(r) => r \in wire /\ r.tab # t
      BY <1>9, <1>12 DEF First, Synced
    <3>2. \A r \in W : First(r) => r.write \in D /\ r.edits = {r.write} /\ r.tab = r.write.tab
      BY <2>1, <3>1, <1>13 DEF Awaits
    <3>3. /\ \A r, p \in W : First(r) /\ First(p) /\ r.write = p.write => r = p
          /\ \A r, p \in W : Synced(r) /\ Synced(p) /\ r.tab = p.tab => r = p
      BY <2>1, <3>1 DEF Awaits
    <3>4. \A r \in W : Synced(r) => /\ r.tab \in Tabs /\ Busy(T, r.tab)
                                    /\ r.write = Sending(T, r.tab).write /\ r.edits = Sending(T, r.tab).edits
      BY <2>1, <3>1, <1>8 DEF Awaits
    <3> QED BY <3>2, <3>3, <3>4 DEF Awaits
  <2>5. Copied(E, ToSet(queue), T)
    BY <2>1, <2>2, <1>13, SameMore DEF Copied
  <2>6. Held(D, issued, E, applied, ToSet(queue))
    BY <2>1, <1>13 DEF Held
  <2> QED BY <2>3, <2>4, <2>5, <2>6 DEF Client
<1>15. ASSUME Turns PROVE Turn(Tabs, D, issued, ToSet(queue), T, leader', sends)
  <2>1. /\ Leading(tab, leader) /\ Backed(Tabs, ToSet(queue), tab) /\ Spent(ToSet(queue), sends)
        /\ Bounded(direct, issued, sends)
    BY <1>15 DEF Turns, Turn
  <2>2. Leading(T, leader')
    BY <2>1, <1>3, <1>8 DEF Leading
  <2>3. Backed(Tabs, ToSet(queue), T)
    <3> SUFFICES ASSUME NEW u \in Tabs, NEW c \in Listed(T, u)
                 PROVE  \E n \in ToSet(queue) :
                          /\ n.write = c.write /\ n.retry = c.retry
                          /\ n.status = "processing" <=> u \in Tabs /\ Sending(T, u).write = n.write
      BY DEF Backed
    <3>1. u \in Tabs \ {t}
      BY <1>8
    <3>2. c \in Listed(tab, u) /\ Sending(T, u) = Sending(tab, u)
      BY <3>1, <1>8
    <3>3. PICK n \in ToSet(queue) :
                          /\ n.write = c.write /\ n.retry = c.retry
                          /\ n.status = "processing" <=> u \in Tabs /\ Sending(tab, u).write = n.write
      BY <3>2, <2>1 DEF Backed
    <3> QED BY <3>2, <3>3
  <2>4. Bounded(D, issued, sends)
    BY <2>1, <1>13 DEF Bounded
  <2> QED BY <2>1, <2>2, <2>3, <2>4 DEF Turn
<1>16. ClientTyped' /\ ServerTyped' /\ GhostTyped'
  <2>1. ClientTyped'
    BY <1>1, <1>2, <1>3, <1>6, <1>7 DEF ClientTyped
  <2>2. ServerTyped'
    <3>1. wire' \in SUBSET Requested
      BY <1>9
    <3> QED BY <3>1, <1>1, <1>3 DEF ServerTyped
  <2>3. GhostTyped'
    BY <1>1, <1>2, <1>3 DEF GhostTyped
  <2> QED BY <2>1, <2>2, <2>3
<1>17. Clients' /\ (lapses = 0 => Turns)' /\ (todo \cap issued = {})'
  BY <1>1, <1>3, <1>6, <1>10, <1>11, <1>12, <1>14, <1>15 DEF Base, Clients, Turns
<1>18. Truthful(applied, wire, cache \cup saving)'
  <2>1. \A r \in wire' : r.stage = "answered" /\ r.answer.ok => r.edits \subseteq applied
    BY <1>1, <1>9 DEF Truthful
  <2> QED BY <2>1, <1>1, <1>3 DEF Truthful
<1>19. Lost' \subseteq Lost \cup {m \in ToSet(queue) : m.write = Sending(tab, t).write}
  <2>1. Lost' = StrandedIn(Tabs, ToSet(queue), T)
    BY <1>3, <1>6 DEF Lost
  <2>2. ASSUME NEW m \in StrandedIn(Tabs, ToSet(queue), T), m.write # Sending(tab, t).write PROVE m \in Lost
    BY <2>2, <1>8 DEF Lost, StrandedIn
  <2> QED BY <2>1, <2>2 DEF StrandedIn
<1> QED BY <1>3, <1>16, <1>17, <1>18, <1>19 DEF Base

-----------------------------------------------------------------------------
(* The server *)

LEMMA AnsweredFacts ==
    ASSUME NEW q \in Requested, NEW a \in Answers
    PROVE  LET p == [q EXCEPT !.stage = "answered", !.answer = a] IN
           p \in Requested /\ Alike(q, p) /\ p.stage = "answered" /\ p.answer = a
  BY DEF Requested, Requests, Alike

LEMMA RunningFacts ==
    ASSUME NEW q \in Requested
    PROVE  LET p == [q EXCEPT !.stage = "running"] IN
           p \in Requested /\ Alike(q, p) /\ p.stage = "running"
  BY DEF Requested, Requests, Alike

LEMMA ServerKeeps ==
    ASSUME Base, UNCHANGED <<client, faults, ghosts>>, ServerTyped', applied \subseteq applied',
           Truthful(applied, wire, cache \cup saving)',
           NEW q \in wire, NEW p, Alike(q, p), \A r \in wire' : r \in wire \ {q} \/ r = p
    PROVE  Base' /\ Lost' \subseteq Lost /\ reloads' = reloads
<1>1. ClientTyped' /\ GhostTyped' /\ (todo \cap issued = {})'
  BY DEF Base, ClientTyped, GhostTyped
<1>2. PICK V : V = wire'
  OBVIOUS
<1>3. PICK A : A = applied'
  OBVIOUS
<1>4. Client(Tabs, direct, issued, excused, applied, ToSet(queue), tab, wire)
  BY DEF Base, Clients
<1>5. applied \subseteq A /\ \A r \in V : r \in wire \ {q} \/ r = p
  BY <1>2, <1>3
<1>6. Client(Tabs, direct, issued, excused, A, ToSet(queue), tab, V)
  BY <1>4, <1>5, MovedKeeps
<1>7. Clients'
  BY <1>2, <1>3, <1>6 DEF Clients
<1>8. (lapses = 0 => Turns)' /\ Lost' = Lost /\ reloads' = reloads
  BY DEF Base, Turns, Lost
<1> QED BY <1>1, <1>7, <1>8 DEF Base

\* The answer reaches whoever waits and whoever stores it, and says what took effect.
LEMMA RespondKeeps ==
    ASSUME Base, NEW q \in wire, NEW a \in Answers, Respond(q, a),
           UNCHANGED <<client, faults, ghosts>>, UNCHANGED <<keyed, cache>>,
           live' \subseteq Ids, made' \in [Objects -> Nat], applied \subseteq applied', applied' \subseteq Writes,
           a.ok => q.edits \subseteq applied'
    PROVE  Base' /\ Lost' \subseteq Lost /\ reloads' = reloads
<1>1. ServerTyped /\ Truthful(applied, wire, cache \cup saving) /\ wire \in SUBSET Requested /\ q \in Requested
  BY DEF Base, ServerTyped
<1>2. PICK p : p = [q EXCEPT !.stage = "answered", !.answer = a]
  OBVIOUS
<1>3. p \in Requested /\ Alike(q, p) /\ p.stage = "answered" /\ p.answer = a
  BY <1>1, <1>2, AnsweredFacts
<1>4. \A r \in wire' : r \in wire \ {q} \/ r = p
  BY <1>2 DEF Respond
<1>5. PICK s : s = [key |-> q.key, answer |-> a]
  OBVIOUS
<1>6. \A d \in saving' : d \in saving \/ (d = s /\ q.key # Nobody)
  BY <1>5 DEF Respond
<1>7. q.key # Nobody => s \in Savings /\ (a.ok => s.key.write \in applied')
  <2> SUFFICES ASSUME q.key # Nobody PROVE s \in Savings /\ (a.ok => s.key.write \in applied')
    OBVIOUS
  <2>1. q.edits = {q.write} /\ q.key \in KeyRecords /\ q.key.write = q.write
    BY <1>1 DEF Requested
  <2> QED BY <2>1, <1>5 DEF Savings
<1>8. ServerTyped'
  <2>1. wire' \in SUBSET Requested
    BY <1>1, <1>3, <1>4
  <2>2. saving' \subseteq Savings
    BY <1>1, <1>6, <1>7 DEF ServerTyped
  <2> QED BY <2>1, <2>2, <1>1 DEF ServerTyped
<1>9. Truthful(applied, wire, cache \cup saving)'
  <2>1. \A r \in wire' : r.stage = "answered" /\ r.answer.ok => r.edits \subseteq applied'
    BY <1>1, <1>3, <1>4 DEF Truthful, Alike
  <2>2. \A d \in cache' \cup saving' : d.answer.ok => d.key.write \in applied'
    BY <1>1, <1>5, <1>6, <1>7 DEF Truthful
  <2> QED BY <2>1, <2>2 DEF Truthful
<1> QED BY <1>3, <1>4, <1>8, <1>9, ServerKeeps

LEMMA ArriveKeeps ==
    ASSUME Base, NEW q \in wire, Arrive(q)
    PROVE  Base' /\ Lost' \subseteq Lost /\ reloads' = reloads
<1> DEFINE hits == {c \in cache : keyed /\ c.key = q.key}
<1>1. ServerTyped /\ Truthful(applied, wire, cache \cup saving) /\ wire \in SUBSET Requested /\ q \in Requested
  BY DEF Base, ServerTyped
<1>2. /\ UNCHANGED <<client, faults, ghosts>> /\ UNCHANGED server
      /\ wire' = (wire \ {q}) \cup
          (IF hits = {} THEN {[q EXCEPT !.stage = "running"]}
           ELSE {[q EXCEPT !.stage = "answered", !.answer = c.answer] : c \in hits})
  BY DEF Arrive
<1>3. PICK p : /\ p \in Requested /\ Alike(q, p) /\ \A r \in wire' : r \in wire \ {q} \/ r = p
               /\ p.stage = "answered" /\ p.answer.ok => p.edits \subseteq applied
  <2>1. CASE hits = {}
    <3>1. PICK p : p = [q EXCEPT !.stage = "running"]
      OBVIOUS
    <3>2. p \in Requested /\ Alike(q, p) /\ p.stage # "answered"
      BY <1>1, <3>1, RunningFacts
    <3>3. \A r \in wire' : r \in wire \ {q} \/ r = p
      BY <1>2, <2>1, <3>1
    <3> QED BY <3>2, <3>3
  <2>2. CASE hits # {}
    <3>1. PICK c \in cache : c.key = q.key /\ c \in hits
      BY <2>2
    <3>2. \A d \in hits : d = c
      BY <1>1, <3>1 DEF ServerTyped
    <3>3. PICK p : p = [q EXCEPT !.stage = "answered", !.answer = c.answer]
      OBVIOUS
    <3>4. c \in Savings
      BY <1>1 DEF ServerTyped
    <3>5. p \in Requested /\ Alike(q, p) /\ p.answer = c.answer
      BY <1>1, <3>3, <3>4, AnsweredFacts DEF Savings
    <3>6. \A r \in wire' : r \in wire \ {q} \/ r = p
      <4> HIDE DEF hits
      <4> QED BY <1>2, <2>2, <3>2, <3>3
    <3>7. q.edits = {q.key.write}
      BY <1>1, <3>1, <3>4 DEF Requested, Savings
    <3>8. p.answer.ok => p.edits \subseteq applied
      BY <1>1, <3>1, <3>5, <3>7 DEF Truthful, Alike
    <3> QED BY <3>5, <3>6, <3>8
  <2> QED BY <2>1, <2>2
<1>4. ServerTyped'
  BY <1>1, <1>2, <1>3 DEF ServerTyped
<1>5. Truthful(applied, wire, cache \cup saving)'
  BY <1>1, <1>2, <1>3 DEF Truthful
<1>6. applied \subseteq applied'
  BY <1>2
<1> QED BY <1>2, <1>3, <1>4, <1>5, <1>6, ServerKeeps

LEMMA CreateKeeps ==
    ASSUME Base, NEW q \in wire, Create(q)
    PROVE  Base' /\ Lost' \subseteq Lost /\ reloads' = reloads
<1>1. /\ made \in [Objects -> Nat] /\ live \subseteq Ids /\ applied \subseteq Writes /\ q \in Requested
  BY DEF Base, ServerTyped
<1>2. q.write \in Writes /\ q.edits \subseteq Writes /\ q.write.obj \in Objects
  BY <1>1, OfflineAssumption DEF Requested, Requests
<1>3. PICK n : n = made[q.write.obj] + 1
  OBVIOUS
<1>4. n \in Nat /\ Ok(n) \in Answers
  BY <1>1, <1>2, <1>3 DEF Ok, Answers
<1>5. /\ made' = [made EXCEPT ![q.write.obj] = n] /\ live' = live \cup {<<q.write.obj, n>>}
      /\ applied' = applied \cup q.edits /\ Respond(q, Ok(n))
      /\ UNCHANGED <<client, faults, ghosts>> /\ UNCHANGED <<keyed, cache>>
  BY <1>3 DEF Create
<1>6. live' \subseteq Ids /\ made' \in [Objects -> Nat] /\ applied \subseteq applied' /\ applied' \subseteq Writes
  BY <1>1, <1>2, <1>4, <1>5 DEF Ids
<1>7. q.edits \subseteq applied'
  BY <1>5
<1> QED BY <1>4, <1>5, <1>6, <1>7, RespondKeeps

LEMMA ChangeKeeps ==
    ASSUME Base, NEW q \in wire, Change(q)
    PROVE  Base' /\ Lost' \subseteq Lost /\ reloads' = reloads
<1>1. /\ made \in [Objects -> Nat] /\ live \subseteq Ids /\ applied \subseteq Writes /\ q \in Requested
  BY DEF Base, ServerTyped
<1>2. q.edits \subseteq Writes /\ Ok(0) \in Answers
  BY <1>1 DEF Requested, Requests, Ok, Answers
<1>3. /\ live' \subseteq live /\ applied' = applied \cup q.edits /\ Respond(q, Ok(0)) /\ made' = made
      /\ UNCHANGED <<client, faults, ghosts>> /\ UNCHANGED <<keyed, cache>>
  BY DEF Change
<1>4. live' \subseteq Ids /\ made' \in [Objects -> Nat] /\ applied \subseteq applied' /\ applied' \subseteq Writes
  BY <1>1, <1>2, <1>3
<1>5. q.edits \subseteq applied'
  BY <1>3
<1> QED BY <1>2, <1>3, <1>4, <1>5, RespondKeeps

LEMMA RefuseKeeps ==
    ASSUME Base, NEW q \in wire, Refuse(q)
    PROVE  Base' /\ Lost' \subseteq Lost /\ reloads' = reloads
<1>1. made \in [Objects -> Nat] /\ live \subseteq Ids /\ applied \subseteq Writes
  BY DEF Base, ServerTyped
<1>2. Respond(q, Refusal("missing")) \/ Respond(q, Refusal("conflict"))
  BY DEF Refuse
<1>3. /\ Refusal("missing") \in Answers /\ ~ Refusal("missing").ok
      /\ Refusal("conflict") \in Answers /\ ~ Refusal("conflict").ok
  BY DEF Refusal, Answers
<1>4. UNCHANGED <<client, faults, ghosts>> /\ UNCHANGED <<keyed, cache>> /\ UNCHANGED <<live, made, applied>>
  BY DEF Refuse
<1>5. live' \subseteq Ids /\ made' \in [Objects -> Nat] /\ applied \subseteq applied' /\ applied' \subseteq Writes
  BY <1>1, <1>4
<1>6. CASE Respond(q, Refusal("missing"))
  BY <1>3, <1>4, <1>5, <1>6, RespondKeeps
<1>7. CASE Respond(q, Refusal("conflict"))
  BY <1>3, <1>4, <1>5, <1>7, RespondKeeps
<1> QED BY <1>2, <1>6, <1>7

LEMMA SaveKeeps ==
    ASSUME Base, NEW s \in saving, Save(s)
    PROVE  Base' /\ Lost' \subseteq Lost /\ reloads' = reloads
<1>1. ServerTyped /\ Truthful(applied, wire, cache \cup saving)
  BY DEF Base
<1>2. /\ cache' = {c \in cache : c.key # s.key} \cup {s} /\ saving' = saving \ {s}
      /\ UNCHANGED <<client, wire, live, made, applied, keyed, faults, ghosts>>
  BY DEF Save
<1>3. ServerTyped'
  <2>1. \A c, d \in cache' : c.key = d.key => c = d
    BY <1>1, <1>2 DEF ServerTyped
  <2> QED BY <2>1, <1>1, <1>2 DEF ServerTyped
<1>4. Truthful(applied, wire, cache \cup saving)'
  BY <1>1, <1>2 DEF Truthful
<1>5. ClientTyped' /\ GhostTyped' /\ (todo \cap issued = {})' /\ Clients' /\ (lapses = 0 => Turns)'
  BY <1>2 DEF Base, ClientTyped, GhostTyped, Clients, Turns
<1>6. Lost' = Lost /\ reloads' = reloads
  BY <1>2 DEF Lost
<1> QED BY <1>3, <1>4, <1>5, <1>6 DEF Base

-----------------------------------------------------------------------------
(* The whole system *)

LEMMA InitBase ==
    ASSUME OfflineInit
    PROVE  Base /\ Lost = {} /\ reloads = 0
<1>1. /\ todo \subseteq Writes /\ direct = {} /\ queue = <<>> /\ posts = {} /\ leader = Nobody
      /\ tab = [t \in Tabs |-> Closed] /\ wire = {}
      /\ cache = {} /\ saving = {} /\ losses = 0 /\ reloads = 0 /\ lapses = 0
      /\ live = Existing \X {0} /\ made = [o \in Objects |-> 0] /\ applied = {}
      /\ issued = {} /\ excused = {} /\ sends = [w \in Writes |-> 0] /\ unsure = [o \in Objects |-> 0]
  BY DEF OfflineInit, Writes
<1>2. keyed \in BOOLEAN
  <2>1. keyed \in {FALSE, \E w \in todo : w.kind = "create"}
    BY DEF OfflineInit
  <2>2. (\E w \in todo : w.kind = "create") \in BOOLEAN
    OBVIOUS
  <2> QED BY <2>1, <2>2
<1>3. <<>> \in Lists /\ <<>> \in Queues /\ ToSet(<<>>) = {}
  BY DEF Lists, Queues, Distinct, ToSet
<1>4. Closed \in TabRecords /\ Closed.list = <<>>
  BY <1>3 DEF Closed, TabRecords
<1>5. /\ ToSet(queue) = {} /\ tab \in [Tabs -> TabRecords]
      /\ \A t \in Tabs : tab[t].list = <<>> /\ Listed(tab, t) = {} /\ ~ Busy(tab, t)
  BY <1>1, <1>3, <1>4 DEF Listed, Busy
<1>6. ClientTyped /\ ServerTyped /\ GhostTyped
  <2>1. ClientTyped
    BY <1>1, <1>3, <1>5 DEF ClientTyped
  <2>2. Existing \X {0} \subseteq Ids
    BY OfflineAssumption DEF Ids
  <2>3. ServerTyped
    BY <1>1, <1>2, <2>2 DEF ServerTyped
  <2>4. GhostTyped
    BY <1>1 DEF GhostTyped
  <2> QED BY <2>1, <2>3, <2>4
<1>7. Clients
  <2>1. Client(Tabs, direct, issued, excused, applied, {}, tab, {})
    BY <1>1, <1>5 DEF Client, Phased, Awaits, Copied, Held
  <2> QED BY <2>1, <1>1, <1>5 DEF Clients
<1>8. Turns
  <2>1. MaxRetries \in Nat /\ \A w \in Writes : sends[w] = 0
    BY <1>1, OfflineAssumption
  <2>2. Turn(Tabs, direct, issued, {}, tab, leader, sends)
    BY <1>5, <2>1 DEF Turn, Leading, Backed, Spent, Bounded
  <2> QED BY <2>2, <1>5 DEF Turns
<1>9. Truthful(applied, wire, cache \cup saving) /\ todo \cap issued = {}
  BY <1>1 DEF Truthful
<1>10. Lost = {}
  BY <1>5 DEF Lost, StrandedIn
<1> QED BY <1>1, <1>6, <1>7, <1>8, <1>9, <1>10 DEF Base

\* A step leaves no stored mutation behind, unless it closes a page, which leaves the one that
\* the page was sending.
Fewer == \/ Lost' \subseteq Lost /\ reloads' = reloads
         \/ reloads' = reloads + 1 /\ \E m : Lost' \subseteq Lost \cup {m}

LEMMA NextKeeps ==
    ASSUME Base, [OfflineNext]_offlineVars
    PROVE  Base' /\ Fewer
<1>1. CASE UNCHANGED offlineVars
  BY <1>1 DEF Base, ClientTyped, ServerTyped, GhostTyped, Clients, Turns, Lost, Fewer
<1>2. CASE OfflineNext
  <2>1. ASSUME NEW w \in todo, Make(w) PROVE Base' /\ Fewer
    BY <2>1, MakeKeeps DEF Fewer
  <2>2. ASSUME NEW q \in wire, Drop(q) PROVE Base' /\ Fewer
    BY <2>2, DropKeeps DEF Fewer
  <2>3. CASE Answered
    <3>1. ASSUME NEW q \in wire, FirstAnswer(q) PROVE Base' /\ Fewer
      BY <3>1, FirstAnswerKeeps DEF Fewer
    <3>2. ASSUME NEW q \in wire, SyncAnswer(q) PROVE Base' /\ Fewer
      BY <3>2, SyncAnswerKeeps DEF Fewer
    <3> QED BY <2>3, <3>1, <3>2 DEF Answered
  <2>4. CASE Serve
    <3>1. ASSUME NEW q \in wire, Arrive(q) PROVE Base' /\ Fewer
      BY <3>1, ArriveKeeps DEF Fewer
    <3>2. ASSUME NEW q \in wire, Create(q) PROVE Base' /\ Fewer
      BY <3>2, CreateKeeps DEF Fewer
    <3>3. ASSUME NEW q \in wire, Change(q) PROVE Base' /\ Fewer
      BY <3>3, ChangeKeeps DEF Fewer
    <3>4. ASSUME NEW q \in wire, Refuse(q) PROVE Base' /\ Fewer
      BY <3>4, RefuseKeeps DEF Fewer
    <3>5. ASSUME NEW s \in saving, Save(s) PROVE Base' /\ Fewer
      BY <3>5, SaveKeeps DEF Fewer
    <3> QED BY <2>4, <3>1, <3>2, <3>3, <3>4, <3>5 DEF Serve
  <2>5. ASSUME NEW t \in Tabs, Online(t) PROVE Base' /\ Fewer
    BY <2>5, OnlineKeeps DEF Fewer
  <2>6. ASSUME NEW t \in Tabs, Offline(t) PROVE Base' /\ Fewer
    BY <2>6, OfflineKeeps DEF Fewer
  <2>7. ASSUME NEW t \in Tabs, Reload(t) PROVE Base' /\ Fewer
    <3>1. /\ Base' /\ reloads' = reloads + 1
          /\ Lost' \subseteq Lost \cup {m \in ToSet(queue) : m.write = Sending(tab, t).write}
      BY <2>7, ReloadKeeps
    <3>2. \A m, n \in ToSet(queue) : m.write = n.write => m = n
      BY QueueFacts DEF Base, ClientTyped, Unique
    <3>3. \E m : {n \in ToSet(queue) : n.write = Sending(tab, t).write} \subseteq {m}
      <4>1. CASE \E m \in ToSet(queue) : m.write = Sending(tab, t).write
        BY <4>1, <3>2
      <4>2. CASE ~ \E m \in ToSet(queue) : m.write = Sending(tab, t).write
        BY <4>2
      <4> QED BY <4>1, <4>2
    <3> QED BY <3>1, <3>3 DEF Fewer
  <2>8. ASSUME NEW p \in posts, Hear(p) PROVE Base' /\ Fewer
    BY <2>8, HearKeeps DEF Fewer
  <2>9. CASE Expire \/ Lapse
    BY <2>9, LeaderKeeps DEF Fewer
  <2> QED BY <1>2, <2>1, <2>2, <2>3, <2>4, <2>5, <2>6, <2>7, <2>8, <2>9 DEF OfflineNext
<1> QED BY <1>1, <1>2

Bound == Cardinality(Lost) <= reloads

LEMMA LostFinite ==
    ASSUME Base
    PROVE  IsFiniteSet(Lost) /\ Cardinality(Lost) \in Nat /\ reloads \in Nat
<1>1. IsFiniteSet(ToSet(queue)) /\ reloads \in Nat
  BY QueueFacts DEF Base, ClientTyped, GhostTyped
<1>2. Lost \subseteq ToSet(queue)
  BY DEF Lost, StrandedIn
<1> QED BY <1>1, <1>2, FS_Subset, FS_CardinalityType

LEMMA InitBound ==
    ASSUME OfflineInit
    PROVE  Base /\ Bound
<1>1. Base /\ Lost = {} /\ reloads = 0
  BY InitBase
<1>2. Cardinality({}) = 0
  BY FS_EmptySet
<1> QED BY <1>1, <1>2 DEF Bound

LEMMA BoundKeeps ==
    ASSUME Base, Bound, [OfflineNext]_offlineVars
    PROVE  Base' /\ Bound'
<1>1. Base' /\ Fewer
  BY NextKeeps
<1>2. PICK L : L = Lost'
  OBVIOUS
<1>3. IsFiniteSet(Lost) /\ Cardinality(Lost) \in Nat /\ reloads \in Nat /\ Cardinality(Lost) <= reloads
  BY LostFinite DEF Bound
<1>4. CASE Lost' \subseteq Lost /\ reloads' = reloads
  <2>1. Cardinality(L) \in Nat /\ Cardinality(L) <= Cardinality(Lost)
    BY <1>2, <1>3, <1>4, FS_Subset, FS_CardinalityType
  <2> QED BY <2>1, <1>1, <1>2, <1>3, <1>4 DEF Bound
<1>5. CASE reloads' = reloads + 1 /\ \E m : Lost' \subseteq Lost \cup {m}
  <2>1. PICK m : L \subseteq Lost \cup {m}
    BY <1>2, <1>5
  <2>2. /\ IsFiniteSet(Lost \cup {m}) /\ Cardinality(Lost \cup {m}) \in Nat
        /\ Cardinality(Lost \cup {m}) <= Cardinality(Lost) + 1
    <3>1. /\ IsFiniteSet(Lost \cup {m})
          /\ Cardinality(Lost \cup {m}) = IF m \in Lost THEN Cardinality(Lost) ELSE Cardinality(Lost) + 1
      BY <1>3, FS_AddElement
    <3> QED BY <3>1, <1>3
  <2>3. Cardinality(L) \in Nat /\ Cardinality(L) <= Cardinality(Lost \cup {m})
    BY <2>1, <2>2, FS_Subset, FS_CardinalityType
  <2>4. Cardinality(L) <= reloads + 1
    BY <2>2, <2>3, <1>3
  <2> QED BY <2>4, <1>1, <1>2, <1>5 DEF Bound
<1> QED BY <1>1, <1>4, <1>5 DEF Fewer

LEMMA BaseAlways == OfflineSpec => [](Base /\ Bound)
<1>1. OfflineInit => Base /\ Bound
  BY InitBound
<1>2. Base /\ Bound /\ [OfflineNext]_offlineVars => (Base /\ Bound)'
  BY BoundKeeps
<1> QED BY <1>1, <1>2, PTL DEF OfflineSpec

-----------------------------------------------------------------------------
(* What is promised *)

\* Every state of the tabs, the stored queue, the requests and the server is well formed, and no
\* write is stored twice (getPendingMutations, saveMutation and removeMutation of offline.ts).
THEOREM OfflineTyped == OfflineSpec => []OfflineTypeOK
<1>1. ASSUME Base PROVE OfflineTypeOK
  <2>1. /\ queue \in Seq(Mutations)
        /\ \A i, j \in 1..Len(queue) : queue[i].write = queue[j].write => i = j
    <3>1. /\ queue \in Seq(Kept) /\ Kept \subseteq Mutations /\ DOMAIN queue = 1..Len(queue)
          /\ \A i, j \in DOMAIN queue : queue[i].write = queue[j].write => i = j
      BY <1>1, QueueFacts DEF Base, ClientTyped, Kept
    <3> QED BY <3>1
  <2>2. \A t \in Tabs : /\ tab[t].online \in BOOLEAN /\ tab[t].ids \in [Objects -> Nat]
                        /\ tab[t].list \in Seq(Mutations)
    <3> SUFFICES ASSUME NEW t \in Tabs
                 PROVE  /\ tab[t].online \in BOOLEAN /\ tab[t].ids \in [Objects -> Nat]
                        /\ tab[t].list \in Seq(Mutations)
      OBVIOUS
    <3>1. tab[t].online \in BOOLEAN /\ tab[t].ids \in [Objects -> Nat] /\ tab[t].list \in Lists
      BY <1>1 DEF Base, ClientTyped, TabRecords
    <3>2. tab[t].list \in Seq(Kept) /\ Kept \subseteq Mutations
      BY <3>1, ListFacts, QueueFacts DEF Kept
    <3> QED BY <3>1, <3>2
  <2>3. wire \subseteq Requests /\ DOMAIN tab = Tabs
    BY <1>1 DEF Base, ClientTyped, ServerTyped, Requested
  <2>4. cache \subseteq [key : Keys, answer : Answers] /\ saving \subseteq [key : Keys, answer : Answers]
    <3>1. Savings \subseteq [key : Keys, answer : Answers]
      BY DEF Savings, Keys, KeyRecords
    <3> QED BY <3>1, <1>1 DEF Base, ServerTyped
  <2>5. posts \subseteq [to : Tabs, obj : Objects, n : Nat]
    BY <1>1 DEF Base, ClientTyped, Posts
  <2> QED BY <1>1, <2>1, <2>2, <2>3, <2>4, <2>5 DEF Base, ClientTyped, ServerTyped, GhostTyped, OfflineTypeOK
<1> QED BY <1>1, BaseAlways, PTL

\* No write vanishes between the page, the stored queue and the server, whatever requests and
\* answers get lost, however tabs compete for the leadership, and whenever pages are closed
\* (queueMutation, syncPendingMutations and handleConflict of offline.ts).
THEOREM WritesAccounted == OfflineSpec => []Accounted
<1>1. ASSUME Base PROVE Accounted
  BY <1>1 DEF Base, Clients, Client, Held, Accounted, Done
<1> QED BY <1>1, BaseAlways, PTL

\* One tab sends at a time, and a mutation is sent at most maxRetries times over all tabs,
\* reloads and conflicts, as long as no living tab loses the lock (tryAcquireLeadership of
\* tab-sync.ts, syncPendingMutations of offline.ts).
THEOREM OneSender == OfflineSpec => []SentInTurn
<1>1. ASSUME Base PROVE SentInTurn
  <2> SUFFICES ASSUME lapses = 0
               PROVE  /\ \A t, u \in Tabs : tab[t].list # <<>> /\ tab[u].list # <<>> => t = u
                      /\ \A w \in Writes : sends[w] <= MaxRetries
    BY DEF SentInTurn
  <2>1. Leading(tab, leader) /\ Bounded(direct, issued, sends)
    BY <1>1 DEF Base, Turns, Turn
  <2>2. \A t, u \in Tabs : tab[t].list # <<>> /\ tab[u].list # <<>> => t = u
    BY <2>1 DEF Leading, Busy
  <2>3. \A w \in Writes : sends[w] <= MaxRetries
    BY <2>1 DEF Bounded
  <2> QED BY <2>2, <2>3
<1> QED BY <1>1, BaseAlways, PTL

\* A stored mutation marked as being sent, which no sync sends or takes up again, was left behind
\* by a page that was closed, and each page leaves at most one (syncPendingMutations and
\* updateMutation of offline.ts).
THEOREM StrandedByReload == OfflineSpec => []StrandedBounded
<1>1. Stranded = Lost
  BY DEF Stranded, Lost, StrandedIn, Busy, Sending
<1>2. ASSUME Base, Bound PROVE StrandedBounded
  BY <1>1, <1>2 DEF Bound, StrandedBounded
<1> QED BY <1>2, BaseAlways, PTL
=============================================================================
