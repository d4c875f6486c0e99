--------------------------- MODULE BacklogProofs ---------------------------
(***************************************************************************)
(* What waits to be taken up: dead letters are kept for any tasks, callers *)
(* and crashes.                                                            *)
(***************************************************************************)
EXTENDS Backlogs, FiniteSetTheorems, TLAPS

USE DEF lettersVars, letters, letterGhosts, recurringVars, NotYetBack

-----------------------------------------------------------------------------
(* The dead letters: where a task is *)

CallerRecords == [pc : Points, ids : Seq(Letters), all : SUBSET Letters]
Reads(C, p) == C[p].pc \in {"unlist", "forget"}
Works(C, p) == C[p].pc \in {"unlist", "forget"} \cup NotYetBack
About(C, p) == Head(C[p].ids)
Buried == {b.id : b \in burying}
Around == waiting \cup entries \cup Buried

\* The ids of o that no caller has read, and the callers that have read one and not given it back.
Unread(o, A, C) == {id \in A : Original(id) = o /\ \A p \in Callers : Reads(C, p) => About(C, p) # id}
Working(o, C) == {p \in Callers : Works(C, p) /\ Original(About(C, p)) = o}
Within(U, W, n) == Cardinality(U) + Cardinality(W) <= 1 + n
Counted(A, C, N) == \A o \in Originals : Within(Unread(o, A, C), Working(o, C), N[o])

LettersTyped ==
    /\ record \in [Letters -> {"none", "whole", "partial"}]
    /\ listed \subseteq Letters /\ entries \subseteq Letters /\ waiting \subseteq Letters
    /\ audited \subseteq Letters /\ strayed \subseteq Letters
    /\ burying \subseteq [id : Letters, step : {"list", "file"}]
    /\ caller \in [Callers -> CallerRecords]
    /\ \A p \in Callers : caller[p].pc \notin {"idle", "read", "purge"} => Has(p)
    /\ replays \in [Originals -> 0..MaxReplays] /\ doubled \in [Originals -> Nat]
    /\ purged \subseteq Originals /\ crashed \subseteq Originals /\ torn \subseteq Originals
    /\ stops \in 0..MaxStops /\ calls \in 0..MaxCalls

\* An id is in one place, and the next one of an original is new.
Apart ==
    /\ waiting \cap entries = {} /\ waiting \cap Buried = {} /\ entries \cap Buried = {}
    /\ \A b, c \in burying : b.id = c.id => b = c
    /\ \A id \in Around : id[2] <= replays[Original(id)]
    /\ \A p \in Callers : Reads(caller, p) =>
          /\ About(caller, p) \notin waiting \cup Buried
          /\ About(caller, p)[2] <= replays[Original(About(caller, p))]

Filed == \A b \in burying : b.step = "file" => b.id \in listed \cup strayed

\* An id that a caller has stored and not given back yet: nobody else knows it.
Unknown(p, id, A, C) ==
    /\ C[p].all = {id} /\ Original(id) = Original(About(C, p)) /\ id \notin A
    /\ \A q \in Callers : Reads(C, q) => About(C, q) # id
    /\ \A q \in Callers \ {p} : C[q].pc = "enqueue" => C[q].all # {id}
Fresh ==
    \A p \in Callers : caller[p].pc = "enqueue" =>
        \E id \in Letters : Unknown(p, id, Around, caller) /\ id[2] <= replays[Original(id)]

\* A task is around, or read by a caller that has deleted its entry, or its end is known.
Somewhere ==
    \A o \in Originals :
        \/ \E id \in Around : Original(id) = o
        \/ \E p \in Callers : caller[p].pc \in NotYetBack /\ Original(About(caller, p)) = o
        \/ o \in purged \cup crashed \cup torn

LettersInv == LettersTyped /\ Apart /\ Fresh /\ Filed /\ NoneHidden /\ Somewhere /\ Counted(Around, caller, doubled)

-----------------------------------------------------------------------------
(* Counting *)

LEMMA WithinLess ==
    ASSUME NEW U, NEW W, IsFiniteSet(U), IsFiniteSet(W), NEW n \in Nat, NEW k \in Nat, n <= k,
           NEW V \in SUBSET U, NEW X \in SUBSET W, Within(U, W, n)
    PROVE  Within(V, X, k)
<1>1. Cardinality(V) <= Cardinality(U) /\ Cardinality(X) <= Cardinality(W) /\ IsFiniteSet(V) /\ IsFiniteSet(X)
  BY FS_Subset
<1>2. /\ Cardinality(V) \in Nat /\ Cardinality(U) \in Nat /\ Cardinality(X) \in Nat /\ Cardinality(W) \in Nat
  BY <1>1, FS_CardinalityType
<1> QED BY <1>1, <1>2 DEF Within

LEMMA WithinMore ==
    ASSUME NEW U, NEW W, IsFiniteSet(U), IsFiniteSet(W), NEW n \in Nat, NEW p,
           NEW V \in SUBSET U, NEW X \in SUBSET (W \cup {p}), Within(U, W, n)
    PROVE  Within(V, X, n + 1)
<1>1. IsFiniteSet(W \cup {p}) /\ Cardinality(W \cup {p}) = IF p \in W THEN Cardinality(W) ELSE Cardinality(W) + 1
  BY FS_AddElement
<1>2. Cardinality(U) \in Nat /\ Cardinality(W) \in Nat
  BY FS_CardinalityType
<1>3. Within(U, W \cup {p}, n + 1)
  BY <1>1, <1>2 DEF Within
<1> QED BY <1>1, <1>3, WithinLess

\* One element less on the one side pays for one more on the other.
LEMMA WithinMoved ==
    ASSUME NEW U, NEW W, IsFiniteSet(U), IsFiniteSet(W), NEW n \in Nat, NEW x, NEW p,
           NEW V, NEW X, Within(U, W, n),
           \/ x \in U /\ V \subseteq U \ {x} /\ X \subseteq W \cup {p}
           \/ p \in W /\ V \subseteq U \cup {x} /\ X \subseteq W \ {p}
    PROVE  Within(V, X, n)
<1>1. Cardinality(U) \in Nat /\ Cardinality(W) \in Nat
  BY FS_CardinalityType
<1>2. /\ IsFiniteSet(W \cup {p}) /\ Cardinality(W \cup {p}) = IF p \in W THEN Cardinality(W) ELSE Cardinality(W) + 1
      /\ IsFiniteSet(U \cup {x}) /\ Cardinality(U \cup {x}) = IF x \in U THEN Cardinality(U) ELSE Cardinality(U) + 1
  BY FS_AddElement
<1>3. /\ IsFiniteSet(W \ {p}) /\ Cardinality(W \ {p}) = IF p \in W THEN Cardinality(W) - 1 ELSE Cardinality(W)
      /\ IsFiniteSet(U \ {x}) /\ Cardinality(U \ {x}) = IF x \in U THEN Cardinality(U) - 1 ELSE Cardinality(U)
  BY FS_RemoveElement
<1>4. CASE x \in U /\ V \subseteq U \ {x} /\ X \subseteq W \cup {p}
  <2>1. Within(U \ {x}, W \cup {p}, n)
    BY <1>1, <1>2, <1>3, <1>4 DEF Within
  <2> QED BY <2>1, <1>2, <1>3, <1>4, WithinLess
<1>5. CASE p \in W /\ V \subseteq U \cup {x} /\ X \subseteq W \ {p}
  <2>1. Within(U \cup {x}, W \ {p}, n)
    BY <1>1, <1>2, <1>3, <1>5 DEF Within
  <2> QED BY <2>1, <1>2, <1>3, <1>5, WithinLess
<1> QED BY <1>4, <1>5

LEMMA LettersFinite ==
    /\ IsFiniteSet(Letters) /\ IsFiniteSet(Callers)
    /\ \A A \in SUBSET Letters : \A C, o : IsFiniteSet(Unread(o, A, C)) /\ IsFiniteSet(Working(o, C))
<1>1. IsFiniteSet(0..MaxReplays) /\ IsFiniteSet(Originals) /\ IsFiniteSet(Callers)
  BY FS_Interval, LettersAssumption
<1>2. IsFiniteSet(Letters)
  BY <1>1, FS_Product DEF Letters
<1>3. ASSUME NEW A \in SUBSET Letters, NEW C, NEW o
      PROVE  IsFiniteSet(Unread(o, A, C)) /\ IsFiniteSet(Working(o, C))
  <2>1. Unread(o, A, C) \subseteq Letters /\ Working(o, C) \subseteq Callers
    BY DEF Unread, Working
  <2> QED BY <2>1, <1>1, <1>2, FS_Subset
<1> QED BY <1>1, <1>2, <1>3

\* Nobody new has read an id, and an id that is no longer read is not around.
LEMMA CountedLess ==
    ASSUME NEW A \in SUBSET Letters, NEW C, NEW B \in SUBSET A, NEW D, NEW N \in [Originals -> Nat],
           \A q \in Callers : Works(D, q) => Works(C, q) /\ About(D, q) = About(C, q),
           \A q \in Callers : Reads(C, q) => About(C, q) \notin B \/ (Reads(D, q) /\ About(D, q) = About(C, q)),
           Counted(A, C, N)
    PROVE  Counted(B, D, N)
<1> SUFFICES ASSUME NEW o \in Originals PROVE Within(Unread(o, B, D), Working(o, D), N[o])
  BY DEF Counted
<1>1. Unread(o, B, D) \subseteq Unread(o, A, C)
  BY DEF Unread
<1>2. Working(o, D) \subseteq Working(o, C)
  BY DEF Working
<1>3. Within(Unread(o, A, C), Working(o, C), N[o]) /\ N[o] \in Nat /\ N[o] <= N[o]
  BY DEF Counted
<1> QED BY <1>1, <1>2, <1>3, LettersFinite, WithinLess

\* One caller comes to work on an id, or is done with it.
LEMMA CountedMoved ==
    ASSUME NEW A \in SUBSET Letters, NEW C, NEW B, NEW D, NEW N \in [Originals -> Nat],
           NEW p \in Callers, NEW id, \A q \in Callers \ {p} : D[q] = C[q],
           \/ /\ B = A /\ id \in A /\ ~ Works(C, p) /\ Reads(D, p) /\ About(D, p) = id
              /\ \A q \in Callers : Reads(C, q) => About(C, q) # id
           \/ /\ Works(C, p) /\ ~ Works(D, p) /\ B \subseteq A \cup {id}
              /\ Original(id) = Original(About(C, p))
              /\ Reads(C, p) => About(C, p) = id,
           Counted(A, C, N)
    PROVE  Counted(B, D, N)
<1> SUFFICES ASSUME NEW o \in Originals PROVE Within(Unread(o, B, D), Working(o, D), N[o])
  BY DEF Counted
<1>1. \A q \in Callers \ {p} : (Works(D, q) <=> Works(C, q)) /\ (Reads(D, q) <=> Reads(C, q)) /\ About(D, q) = About(C, q)
  BY DEF Works, Reads, About
<1>2. \A E, q : Reads(E, q) => Works(E, q)
  BY DEF Works, Reads
<1>3. Within(Unread(o, A, C), Working(o, C), N[o]) /\ N[o] \in Nat /\ N[o] <= N[o]
  BY DEF Counted
<1>4. IsFiniteSet(Unread(o, A, C)) /\ IsFiniteSet(Working(o, C))
  BY LettersFinite
<1>5. CASE /\ B = A /\ id \in A /\ ~ Works(C, p) /\ Reads(D, p) /\ About(D, p) = id
           /\ \A q \in Callers : Reads(C, q) => About(C, q) # id
  <2>1. CASE Original(id) = o
    <3>1. id \in Unread(o, A, C) /\ Unread(o, B, D) \subseteq Unread(o, A, C) \ {id}
      BY <1>1, <1>2, <1>5, <2>1 DEF Unread
    <3>2. Working(o, D) \subseteq Working(o, C) \cup {p}
      BY <1>1 DEF Working
    <3> QED BY <1>3, <1>4, <3>1, <3>2, WithinMoved
  <2>2. CASE Original(id) # o
    <3>1. Unread(o, B, D) \subseteq Unread(o, A, C)
      BY <1>1, <1>2, <1>5 DEF Unread
    <3>2. Working(o, D) \subseteq Working(o, C)
      BY <1>1, <1>5, <2>2 DEF Working
    <3> QED BY <1>3, <1>4, <3>1, <3>2, WithinLess
  <2> QED BY <2>1, <2>2
<1>6. CASE /\ Works(C, p) /\ ~ Works(D, p) /\ B \subseteq A \cup {id}
           /\ Original(id) = Original(About(C, p))
           /\ Reads(C, p) => About(C, p) = id
  <2>1. Unread(o, B, D) \subseteq Unread(o, A, C) \cup {id}
    BY <1>1, <1>6 DEF Unread
  <2>2. CASE Original(id) = o
    <3>1. p \in Working(o, C) /\ Working(o, D) \subseteq Working(o, C) \ {p}
      BY <1>1, <1>6, <2>2 DEF Working
    <3> QED BY <1>3, <1>4, <2>1, <3>1, WithinMoved
  <2>3. CASE Original(id) # o
    <3>1. Unread(o, B, D) \subseteq Unread(o, A, C)
      BY <2>1, <2>3 DEF Unread
    <3>2. Working(o, D) \subseteq Working(o, C)
      BY <1>1, <1>6 DEF Working
    <3> QED BY <1>3, <1>4, <3>1, <3>2, WithinLess
  <2> QED BY <2>2, <2>3
<1> QED BY <1>5, <1>6

-----------------------------------------------------------------------------
(* Steps of the dead letters *)

LEMMA MoveFacts ==
    ASSUME LettersTyped, NEW p \in Callers, NEW r \in CallerRecords, caller' = [caller EXCEPT ![p] = r]
    PROVE  /\ caller' \in [Callers -> CallerRecords] /\ caller'[p] = r
           /\ \A q \in Callers \ {p} : caller'[q] = caller[q]
  BY DEF LettersTyped

LEMMA Records ==
    ASSUME LettersTyped, NEW p \in Callers, NEW pc \in Points
    PROVE  /\ [caller[p] EXCEPT !.pc = pc] \in CallerRecords /\ Resting \in CallerRecords
           /\ \A id \in Letters : [caller[p] EXCEPT !.pc = pc, !.all = {id}] \in CallerRecords
           /\ Has(p) => /\ [caller[p] EXCEPT !.pc = pc, !.ids = Tail(@)] \in CallerRecords
                        /\ Subject(p) \in Letters
<1>1. caller[p] \in CallerRecords
  BY DEF LettersTyped
<1>2. caller[p].ids \in Seq(Letters)
  BY <1>1 DEF CallerRecords
<1>3. Has(p) => Tail(caller[p].ids) \in Seq(Letters) /\ Head(caller[p].ids) \in Letters
  BY <1>2 DEF Has
<1>4. Resting \in CallerRecords
  BY DEF Resting, CallerRecords, Points
<1> QED BY <1>1, <1>3, <1>4 DEF CallerRecords, Subject

LEMMA OrderingsFacts ==
    ASSUME NEW S \in SUBSET Letters, NEW s \in Orderings(S)
    PROVE  s \in Seq(Letters)
<1>1. Cardinality(S) \in Nat
  BY LettersFinite, FS_Subset, FS_CardinalityType
<1>2. s \in [1..Cardinality(S) -> Letters]
  BY DEF Orderings
<1> QED BY <1>1, <1>2

LEMMA LetterFacts ==
    /\ \A id \in Letters : Original(id) \in Originals /\ id[2] \in 0..MaxReplays /\ id = <<Original(id), id[2]>>
    /\ \A o \in Originals, n \in 0..MaxReplays :
          <<o, n>> \in Letters /\ Original(<<o, n>>) = o /\ <<o, n>>[2] = n
    /\ MaxReplays \in Nat /\ MaxCalls \in Nat /\ MaxStops \in Nat
  BY LettersAssumption DEF Letters, Original

LEMMA FreshKeeps ==
    ASSUME LettersTyped, Fresh, Around' \subseteq Around, replays' = replays,
           \A q \in Callers : caller'[q].pc = "enqueue" => caller'[q] = caller[q],
           \A q \in Callers : Reads(caller', q) =>
               About(caller', q) \in Around \/ (Reads(caller, q) /\ About(caller', q) = About(caller, q))
    PROVE  Fresh'
<1> SUFFICES ASSUME NEW p \in Callers, caller'[p].pc = "enqueue"
             PROVE  \E id \in Letters : Unknown(p, id, Around', caller') /\ id[2] <= replays'[Original(id)]
  BY DEF Fresh
<1>1. caller[p].pc = "enqueue" /\ caller'[p] = caller[p]
  OBVIOUS
<1>2. PICK id \in Letters : Unknown(p, id, Around, caller) /\ id[2] <= replays[Original(id)]
  BY <1>1 DEF Fresh
<1>3. About(caller', p) = About(caller, p) /\ caller'[p].all = caller[p].all
  BY <1>1 DEF About
<1>4. \A q \in Callers : Reads(caller', q) => About(caller', q) # id
  BY <1>2 DEF Unknown
<1>5. \A q \in Callers \ {p} : caller'[q].pc = "enqueue" => caller'[q].all # {id}
  BY <1>2 DEF Unknown
<1>6. id \notin Around'
  BY <1>2 DEF Unknown
<1>7. Unknown(p, id, Around', caller')
  BY <1>2, <1>3, <1>4, <1>5, <1>6 DEF Unknown
<1> QED BY <1>2, <1>7

\* A step of one caller that neither replays a task nor changes what waits, is buried or is read.
LEMMA QuietKeeps ==
    ASSUME LettersInv, LettersTyped', UNCHANGED <<waiting, burying, replays, doubled>>,
           entries' \subseteq entries,
           NEW p \in Callers, \A q \in Callers \ {p} : caller'[q] = caller[q],
           Works(caller', p) => Works(caller, p) /\ About(caller', p) = About(caller, p),
           Reads(caller', p) => Reads(caller, p), caller'[p].pc # "enqueue",
           Reads(caller, p) => (Reads(caller', p) /\ About(caller', p) = About(caller, p))
                                  \/ About(caller, p) \notin entries'
    PROVE  Apart' /\ Fresh' /\ Counted(Around, caller, doubled)'
<1>1. LettersTyped /\ Apart /\ Fresh /\ Counted(Around, caller, doubled)
  BY DEF LettersInv
<1>2. PICK D : D = caller'
  OBVIOUS
<1>3. PICK B : B = Around'
  OBVIOUS
<1>4. B \subseteq Around /\ Around \subseteq Letters /\ Buried' = Buried /\ doubled \in [Originals -> Nat]
  BY <1>1, <1>3 DEF Around, Buried, LettersTyped
<1>5. \A q \in Callers : Works(D, q) => Works(caller, q) /\ About(D, q) = About(caller, q)
  BY <1>2 DEF Works, About
<1>6. \A q \in Callers : Reads(D, q) => Reads(caller, q) /\ About(D, q) = About(caller, q)
  BY <1>2, <1>5 DEF Works, About, Reads
<1>7. \A q \in Callers : Reads(caller, q) =>
          About(caller, q) \notin B \/ (Reads(D, q) /\ About(D, q) = About(caller, q))
  <2>1. ASSUME Reads(caller, p), About(caller, p) \notin entries' PROVE About(caller, p) \notin B
    <3>1. About(caller, p) \notin waiting \cup Buried
      BY <1>1, <2>1 DEF Apart
    <3> QED BY <2>1, <3>1, <1>3, <1>4 DEF Around
  <2>2. ASSUME NEW q \in Callers \ {p} PROVE (Reads(D, q) <=> Reads(caller, q)) /\ About(D, q) = About(caller, q)
    BY <1>2, <2>2 DEF Reads, About
  <2> QED BY <2>1, <2>2, <1>2 DEF Reads, About
<1>8. Counted(B, D, doubled)
  BY <1>1, <1>4, <1>5, <1>7, CountedLess
<1>9. Apart'
  <2>1. \A q \in Callers : Reads(D, q) => /\ About(D, q) \notin waiting' \cup Buried'
                                          /\ About(D, q)[2] <= replays'[Original(About(D, q))]
    BY <1>1, <1>4, <1>6 DEF Apart
  <2>2. \A id \in B : id[2] <= replays'[Original(id)]
    BY <1>1, <1>4 DEF Apart
  <2>3. waiting' \cap entries' = {} /\ waiting' \cap Buried' = {} /\ entries' \cap Buried' = {}
    BY <1>1, <1>4 DEF Apart
  <2>4. \A b, c \in burying' : b.id = c.id => b = c
    BY <1>1 DEF Apart
  <2> QED BY <2>1, <2>2, <2>3, <2>4, <1>2, <1>3 DEF Apart
<1>10. Fresh'
  <2>1. \A q \in Callers : caller'[q].pc = "enqueue" => caller'[q] = caller[q]
    OBVIOUS
  <2>2. \A q \in Callers : Reads(caller', q) =>
            About(caller', q) \in Around \/ (Reads(caller, q) /\ About(caller', q) = About(caller, q))
    BY <1>2, <1>6
  <2>3. Around' \subseteq Around /\ replays' = replays
    BY <1>3, <1>4
  <2> QED BY <1>1, <2>1, <2>2, <2>3, FreshKeeps
<1> QED BY <1>2, <1>3, <1>8, <1>9, <1>10

\* And it leaves the lists and the entries alone, too.
LEMMA StillKeeps ==
    ASSUME LettersInv, LettersTyped', UNCHANGED <<waiting, burying, replays, doubled, entries, listed>>,
           strayed \subseteq strayed', purged \cup crashed \cup torn \subseteq purged' \cup crashed' \cup torn',
           NEW p \in Callers, \A q \in Callers \ {p} : caller'[q] = caller[q],
           ~ Reads(caller, p), ~ Works(caller', p),
           Works(caller, p) => Original(About(caller, p)) \in purged' \cup crashed' \cup torn'
    PROVE  LettersInv'
<1>1. LettersTyped /\ Filed /\ NoneHidden /\ Somewhere
  BY DEF LettersInv
<1>2. ~ Reads(caller', p) /\ caller'[p].pc # "enqueue"
  BY DEF Reads, Works
<1>3. Apart' /\ Fresh' /\ Counted(Around, caller, doubled)'
  BY <1>2, QuietKeeps
<1>4. Filed'
  BY <1>1 DEF Filed
<1>5. NoneHidden'
  <2>1. ~ At(p, "forget")
    BY DEF Reads, At
  <2> QED BY <1>1, <2>1 DEF NoneHidden, At, Subject
<1>6. Somewhere'
  <2> SUFFICES ASSUME NEW o \in Originals, o \notin purged' \cup crashed' \cup torn', ~ \E id \in Around' : Original(id) = o
               PROVE  \E q \in Callers : caller'[q].pc \in NotYetBack /\ Original(About(caller', q)) = o
    BY DEF Somewhere
  <2>1. Around' = Around
    BY DEF Around, Buried
  <2>2. PICK q \in Callers : caller[q].pc \in NotYetBack /\ Original(About(caller, q)) = o
    BY <1>1, <2>1 DEF Somewhere
  <2>3. q # p
    BY <2>2 DEF Works
  <2> QED BY <2>2, <2>3 DEF About
<1> QED BY <1>3, <1>4, <1>5, <1>6 DEF LettersInv

LEMMA StartKeeps ==
    ASSUME LettersInv, NEW p \in Callers, StartRetry(p) \/ StartPurge(p)
    PROVE  LettersInv'
<1>1. LettersTyped /\ At(p, "idle") /\ calls < MaxCalls /\ calls' = calls + 1
  BY DEF LettersInv, StartRetry, StartPurge
<1>2. UNCHANGED <<letters, burying, stops, doubled, purged, crashed, torn, strayed>>
  BY DEF StartRetry, StartPurge
<1>3. PICK r \in CallerRecords : r.pc \in {"read", "purge"} /\ caller' = [caller EXCEPT ![p] = r]
  <2>1. CASE StartRetry(p)
    <3>1. PICK ids \in {{id} : id \in entries} \cup {listed \cap entries} : \E s \in Orderings(ids) :
            caller' = [caller EXCEPT ![p] = [pc |-> "read", ids |-> s, all |-> {}]]
      BY <2>1 DEF StartRetry
    <3>2. PICK s \in Orderings(ids) : caller' = [caller EXCEPT ![p] = [pc |-> "read", ids |-> s, all |-> {}]]
      BY <3>1
    <3>3. ids \in SUBSET Letters
      BY <1>1, <3>1 DEF LettersTyped
    <3>4. s \in Seq(Letters)
      BY <3>3, OrderingsFacts
    <3>5. [pc |-> "read", ids |-> s, all |-> {}] \in CallerRecords
      BY <3>4 DEF CallerRecords, Points
    <3> QED BY <3>2, <3>5
  <2>2. CASE StartPurge(p)
    <3>1. PICK old \in SUBSET listed : \E s \in Orderings(old) :
            caller' = [caller EXCEPT ![p] = [pc |-> "purge", ids |-> s, all |-> old]]
      BY <2>2 DEF StartPurge
    <3>2. PICK s \in Orderings(old) : caller' = [caller EXCEPT ![p] = [pc |-> "purge", ids |-> s, all |-> old]]
      BY <3>1
    <3>3. old \in SUBSET Letters
      BY <1>1, <3>1 DEF LettersTyped
    <3>4. s \in Seq(Letters)
      BY <3>3, OrderingsFacts
    <3>5. [pc |-> "purge", ids |-> s, all |-> old] \in CallerRecords
      BY <3>3, <3>4 DEF CallerRecords, Points
    <3> QED BY <3>2, <3>5
  <2> QED BY <2>1, <2>2
<1>4. /\ caller' \in [Callers -> CallerRecords] /\ caller'[p] = r
      /\ \A q \in Callers \ {p} : caller'[q] = caller[q]
  BY <1>1, <1>3, MoveFacts
<1>5. LettersTyped'
  <2>1. calls' \in 0..MaxCalls
    BY <1>1, LetterFacts DEF LettersTyped
  <2> QED BY <1>1, <1>2, <1>3, <1>4, <2>1 DEF LettersTyped, Has
<1>6. ~ Reads(caller, p) /\ ~ Works(caller, p) /\ ~ Works(caller', p)
  BY <1>1, <1>3, <1>4 DEF Reads, Works, At
<1> QED BY <1>2, <1>4, <1>5, <1>6, StillKeeps

\* A step that only moves a caller on, away from the tasks it has read.
LEMMA OnwardKeeps ==
    ASSUME LettersInv, NEW p \in Callers, NEW r \in CallerRecords, caller' = [caller EXCEPT ![p] = r],
           r.pc \in {"idle", "read", "purge"}, caller[p].pc \in {"read", "audit", "purge", "erase"},
           record' \in [Letters -> {"none", "whole", "partial"}], audited' \subseteq Letters,
           UNCHANGED <<listed, entries, waiting, replays, burying, letterGhosts>>
    PROVE  LettersInv'
<1>1. LettersTyped
  BY DEF LettersInv
<1>2. /\ caller' \in [Callers -> CallerRecords] /\ caller'[p] = r
      /\ \A q \in Callers \ {p} : caller'[q] = caller[q]
  BY <1>1, MoveFacts
<1>3. LettersTyped'
  BY <1>1, <1>2 DEF LettersTyped, Has
<1>4. ~ Reads(caller, p) /\ ~ Works(caller, p) /\ ~ Works(caller', p)
  BY <1>2 DEF Reads, Works
<1> QED BY <1>2, <1>3, <1>4, StillKeeps

LEMMA SkipKeeps ==
    ASSUME LettersInv, NEW p \in Callers, Skip(p)
    PROVE  LettersInv'
<1>1. LettersTyped /\ caller[p].pc = "read" /\ UNCHANGED <<letters, burying, letterGhosts>>
  BY DEF LettersInv, Skip, At
<1>2. PICK r \in CallerRecords : r.pc \in {"idle", "read"} /\ caller' = [caller EXCEPT ![p] = r]
  <2>1. CASE Has(p)
    <3>1. caller' = [caller EXCEPT ![p] = [caller[p] EXCEPT !.pc = "read", !.ids = Tail(@)]]
      BY <1>1, <2>1 DEF Skip, Proceed, LettersTyped
    <3>2. [caller[p] EXCEPT !.pc = "read", !.ids = Tail(@)] \in CallerRecords
      BY <1>1, <2>1, Records DEF Points
    <3>3. [caller[p] EXCEPT !.pc = "read", !.ids = Tail(@)].pc = "read"
      BY <1>1 DEF LettersTyped, CallerRecords
    <3> QED BY <3>1, <3>2, <3>3
  <2>2. CASE ~ Has(p)
    <3>1. caller' = [caller EXCEPT ![p] = [caller[p] EXCEPT !.pc = "idle"]]
      BY <1>1, <2>2 DEF Skip, Move, LettersTyped
    <3>2. [caller[p] EXCEPT !.pc = "idle"] \in CallerRecords
      BY <1>1, Records DEF Points
    <3>3. [caller[p] EXCEPT !.pc = "idle"].pc = "idle"
      BY <1>1 DEF LettersTyped, CallerRecords
    <3> QED BY <3>1, <3>2, <3>3
  <2> QED BY <2>1, <2>2
<1>3. record' \in [Letters -> {"none", "whole", "partial"}] /\ audited' \subseteq Letters
  BY <1>1 DEF LettersTyped
<1> QED BY <1>1, <1>2, <1>3, OnwardKeeps

LEMMA AuditKeeps ==
    ASSUME LettersInv, NEW p \in Callers, Audit(p)
    PROVE  LettersInv'
<1>1. /\ LettersTyped /\ caller[p].pc = "audit" /\ audited' = audited \cup caller[p].all /\ Proceed(p, "read")
      /\ UNCHANGED <<record, listed, entries, waiting, replays, burying, letterGhosts>>
  BY DEF LettersInv, Audit, At
<1>2. Has(p) /\ caller[p] \in CallerRecords
  BY <1>1 DEF LettersTyped
<1>3. PICK r : r = [caller[p] EXCEPT !.pc = "read", !.ids = Tail(@)]
  OBVIOUS
<1>4. r \in CallerRecords /\ r.pc = "read"
  <2>1. r \in CallerRecords
    BY <1>1, <1>2, <1>3, Records DEF Points
  <2>2. r.pc = "read"
    BY <1>2, <1>3 DEF CallerRecords
  <2> QED BY <2>1, <2>2
<1>5. caller' = [caller EXCEPT ![p] = r]
  BY <1>1, <1>3 DEF Proceed, LettersTyped
<1>6. record' \in [Letters -> {"none", "whole", "partial"}] /\ audited' \subseteq Letters
  BY <1>1, <1>2 DEF LettersTyped, CallerRecords
<1> QED BY <1>1, <1>4, <1>5, <1>6, OnwardKeeps

LEMMA PurgeRecordKeeps ==
    ASSUME LettersInv, NEW p \in Callers, PurgeRecord(p)
    PROVE  LettersInv'
<1>1. /\ LettersTyped /\ caller[p].pc = "erase"
      /\ UNCHANGED <<listed, entries, waiting, replays, audited, burying, letterGhosts>>
  BY DEF LettersInv, PurgeRecord, At
<1>2. Has(p) /\ caller[p] \in CallerRecords
  BY <1>1 DEF LettersTyped
<1>3. PICK r \in CallerRecords : r.pc \in {"idle", "purge"} /\ caller' = [caller EXCEPT ![p] = r]
  <2>1. CASE record[Subject(p)] = "partial"
    <3>1. caller' = [caller EXCEPT ![p] = Resting] /\ Resting \in CallerRecords /\ Resting.pc = "idle"
      BY <1>1, <2>1, Records DEF PurgeRecord, Resting, Points
    <3> QED BY <3>1
  <2>2. CASE record[Subject(p)] # "partial"
    <3>1. PICK r : r = [caller[p] EXCEPT !.pc = "purge", !.ids = Tail(@)]
      OBVIOUS
    <3>2. r \in CallerRecords /\ r.pc = "purge"
      <4>1. r \in CallerRecords
        BY <1>1, <1>2, <3>1, Records DEF Points
      <4>2. r.pc = "purge"
        BY <1>2, <3>1 DEF CallerRecords
      <4> QED BY <4>1, <4>2
    <3>3. caller' = [caller EXCEPT ![p] = r]
      BY <1>1, <2>2, <3>1 DEF PurgeRecord, Proceed, LettersTyped
    <3> QED BY <3>2, <3>3
  <2> QED BY <2>1, <2>2
<1>4. record' \in [Letters -> {"none", "whole", "partial"}] /\ audited' \subseteq Letters
  BY <1>1 DEF LettersTyped, PurgeRecord
<1> QED BY <1>1, <1>3, <1>4, OnwardKeeps

\* A caller moves on with the task it has read, or is stopped: the record it gets.
LEMMA PcFacts ==
    ASSUME LettersTyped, NEW p \in Callers, NEW pc \in Points, Move(p, pc)
    PROVE  /\ caller' \in [Callers -> CallerRecords] /\ caller'[p].pc = pc /\ caller'[p].ids = caller[p].ids
           /\ About(caller', p) = About(caller, p)
           /\ \A q \in Callers \ {p} : caller'[q] = caller[q]
<1>1. caller[p] \in CallerRecords
  BY DEF LettersTyped
<1>2. PICK r : r = [caller[p] EXCEPT !.pc = pc]
  OBVIOUS
<1>3. r \in CallerRecords /\ caller' = [caller EXCEPT ![p] = r]
  BY <1>2, Records DEF Move, LettersTyped
<1>4. r.pc = pc /\ r.ids = caller[p].ids
  BY <1>1, <1>2 DEF CallerRecords
<1> QED BY <1>3, <1>4, MoveFacts DEF About

LEMMA RestFacts ==
    ASSUME LettersTyped, NEW p \in Callers, caller' = [caller EXCEPT ![p] = Resting]
    PROVE  /\ caller' \in [Callers -> CallerRecords] /\ caller'[p].pc = "idle"
           /\ \A q \in Callers \ {p} : caller'[q] = caller[q]
<1>1. Resting \in CallerRecords /\ Resting.pc = "idle"
  BY Records DEF Resting, Points
<1> QED BY <1>1, MoveFacts

LEMMA RemoveListedKeeps ==
    ASSUME LettersInv, NEW p \in Callers, RemoveListed(p)
    PROVE  LettersInv'
<1>1. /\ LettersTyped /\ Apart /\ Filed /\ NoneHidden /\ Somewhere /\ caller[p].pc = "unlist"
      /\ listed' = listed \ {Subject(p)} /\ Move(p, "forget")
      /\ UNCHANGED <<record, entries, waiting, replays, audited, burying, letterGhosts>>
  BY DEF LettersInv, RemoveListed, At
<1>2. /\ caller' \in [Callers -> CallerRecords] /\ caller'[p].pc = "forget" /\ caller'[p].ids = caller[p].ids
      /\ About(caller', p) = About(caller, p) /\ \A q \in Callers \ {p} : caller'[q] = caller[q]
  BY <1>1, PcFacts DEF Points
<1>3. LettersTyped'
  BY <1>1, <1>2 DEF LettersTyped, Has
<1>4. Reads(caller, p) /\ Reads(caller', p) /\ Works(caller, p)
  BY <1>1, <1>2 DEF Reads, Works
<1>5. Apart' /\ Fresh' /\ Counted(Around, caller, doubled)'
  BY <1>1, <1>2, <1>3, <1>4, QuietKeeps
<1>6. Filed'
  <2>1. Subject(p) \notin Buried
    BY <1>1, <1>4 DEF Apart, About, Subject
  <2> QED BY <1>1, <2>1 DEF Filed, Buried
<1>7. NoneHidden'
  <2>1. ~ At(p, "forget")
    BY <1>1 DEF At
  <2>2. At(p, "forget")' /\ Subject(p)' = Subject(p)
    BY <1>2 DEF At, Subject
  <2>3. \A q \in Callers \ {p} : (At(q, "forget")' <=> At(q, "forget")) /\ Subject(q)' = Subject(q)
    BY <1>2 DEF At, Subject
  <2> SUFFICES ASSUME NEW id \in entries, id \notin listed', id \notin strayed
               PROVE  \E q \in Callers : At(q, "forget")' /\ Subject(q)' = id
    BY <1>1 DEF NoneHidden
  <2>4. CASE id = Subject(p)
    BY <2>2, <2>4
  <2>5. CASE id # Subject(p)
    BY <1>1, <2>1, <2>3, <2>5 DEF NoneHidden
  <2> QED BY <2>4, <2>5
<1>8. Somewhere'
  <2>1. Around' = Around
    BY <1>1 DEF Around, Buried
  <2>2. \A q \in Callers : caller[q].pc \in NotYetBack =>
            caller'[q].pc \in NotYetBack /\ About(caller', q) = About(caller, q)
    BY <1>1, <1>2 DEF About
  <2> QED BY <1>1, <2>1, <2>2 DEF Somewhere
<1> QED BY <1>3, <1>5, <1>6, <1>7, <1>8 DEF LettersInv

LEMMA ForgetKeeps ==
    ASSUME LettersInv, NEW p \in Callers, Forget(p)
    PROVE  LettersInv'
<1>1. /\ LettersTyped /\ Apart /\ Filed /\ NoneHidden /\ Somewhere /\ caller[p].pc = "forget"
      /\ entries' = entries \ {Subject(p)} /\ Move(p, "drop")
      /\ UNCHANGED <<record, listed, waiting, replays, audited, burying, letterGhosts>>
  BY DEF LettersInv, Forget, At
<1>2. /\ caller' \in [Callers -> CallerRecords] /\ caller'[p].pc = "drop" /\ caller'[p].ids = caller[p].ids
      /\ About(caller', p) = About(caller, p) /\ \A q \in Callers \ {p} : caller'[q] = caller[q]
  BY <1>1, PcFacts DEF Points
<1>3. LettersTyped'
  BY <1>1, <1>2 DEF LettersTyped, Has
<1>4. Reads(caller, p) /\ ~ Reads(caller', p) /\ Works(caller, p) /\ About(caller, p) = Subject(p)
  BY <1>1, <1>2 DEF Reads, Works, About, Subject
<1>5. Apart' /\ Fresh' /\ Counted(Around, caller, doubled)'
  BY <1>1, <1>2, <1>3, <1>4, QuietKeeps
<1>6. Filed'
  BY <1>1 DEF Filed
<1>7. NoneHidden'
  <2>1. \A q \in Callers \ {p} : (At(q, "forget")' <=> At(q, "forget")) /\ Subject(q)' = Subject(q)
    BY <1>2 DEF At, Subject
  <2> SUFFICES ASSUME NEW id \in entries, id # Subject(p), id \notin listed, id \notin strayed
               PROVE  \E q \in Callers : At(q, "forget")' /\ Subject(q)' = id
    BY <1>1 DEF NoneHidden
  <2> QED BY <1>1, <2>1 DEF NoneHidden
<1>8. Somewhere'
  <2> SUFFICES ASSUME NEW o \in Originals, o \notin purged \cup crashed \cup torn, ~ \E id \in Around' : Original(id) = o
               PROVE  \E q \in Callers : caller'[q].pc \in NotYetBack /\ Original(About(caller', q)) = o
    BY <1>1 DEF Somewhere
  <2>1. CASE o = Original(Subject(p))
    BY <1>2, <1>4, <2>1
  <2>2. CASE o # Original(Subject(p))
    <3>1. \A id \in Around : id \in Around' \/ id = Subject(p)
      BY <1>1 DEF Around, Buried
    <3>2. PICK q \in Callers : caller[q].pc \in NotYetBack /\ Original(About(caller, q)) = o
      BY <1>1, <2>2, <3>1 DEF Somewhere
    <3>3. q # p
      BY <1>1, <3>2
    <3> QED BY <1>2, <3>2, <3>3 DEF About
  <2> QED BY <2>1, <2>2
<1> QED BY <1>3, <1>5, <1>6, <1>7, <1>8 DEF LettersInv

LEMMA DropRecordKeeps ==
    ASSUME LettersInv, NEW p \in Callers, DropRecord(p)
    PROVE  LettersInv'
<1>1. /\ LettersTyped /\ Apart /\ Filed /\ NoneHidden /\ Somewhere /\ caller[p].pc = "drop" /\ Has(p)
      /\ UNCHANGED <<listed, entries, waiting, replays, audited, burying, calls, stops, doubled, purged, crashed, strayed>>
  BY DEF LettersInv, DropRecord, At, LettersTyped
<1>2. Works(caller, p) /\ ~ Reads(caller, p) /\ Original(Subject(p)) \in Originals /\ About(caller, p) = Subject(p)
  BY <1>1, Records, LetterFacts DEF Works, Reads, About, Subject, Points
<1>3. CASE record[Subject(p)] = "partial"
  <2>1. /\ caller' = [caller EXCEPT ![p] = Resting] /\ torn' = torn \cup {Original(Subject(p))} /\ record' = record
    BY <1>3 DEF DropRecord
  <2>2. /\ caller' \in [Callers -> CallerRecords] /\ caller'[p].pc = "idle"
        /\ \A q \in Callers \ {p} : caller'[q] = caller[q]
    BY <1>1, <2>1, RestFacts
  <2>3. LettersTyped'
    BY <1>1, <1>2, <2>1, <2>2 DEF LettersTyped, Has
  <2>4. ~ Works(caller', p)
    BY <2>2 DEF Works
  <2> QED BY <1>1, <1>2, <2>1, <2>2, <2>3, <2>4, StillKeeps
<1>4. CASE record[Subject(p)] # "partial"
  <2>1. Move(p, "requeue") /\ torn' = torn /\ record' = [record EXCEPT ![Subject(p)] = "none"]
    BY <1>4 DEF DropRecord
  <2>2. /\ caller' \in [Callers -> CallerRecords] /\ caller'[p].pc = "requeue" /\ caller'[p].ids = caller[p].ids
        /\ About(caller', p) = About(caller, p) /\ \A q \in Callers \ {p} : caller'[q] = caller[q]
    BY <1>1, <2>1, PcFacts DEF Points
  <2>3. LettersTyped'
    BY <1>1, <2>1, <2>2 DEF LettersTyped, Has
  <2>4. ~ Reads(caller', p)
    BY <2>2 DEF Reads
  <2>5. Apart' /\ Fresh' /\ Counted(Around, caller, doubled)'
    BY <1>1, <1>2, <2>2, <2>3, <2>4, QuietKeeps
  <2>6. Filed'
    BY <1>1 DEF Filed
  <2>7. NoneHidden'
    BY <1>1, <2>2 DEF NoneHidden, At, Subject
  <2>8. Somewhere'
    <3>1. Around' = Around
      BY <1>1 DEF Around, Buried
    <3>2. \A q \in Callers : caller[q].pc \in NotYetBack =>
              caller'[q].pc \in NotYetBack /\ About(caller', q) = About(caller, q)
      BY <1>1, <2>2 DEF About
    <3> QED BY <1>1, <2>1, <3>1, <3>2 DEF Somewhere
  <2> QED BY <2>3, <2>5, <2>6, <2>7, <2>8 DEF LettersInv
<1> QED BY <1>3, <1>4

LEMMA ReadingKeeps ==
    ASSUME LettersInv, NEW p \in Callers, Reading(p)
    PROVE  LettersInv'
<1>1. /\ LettersTyped /\ Apart /\ Fresh /\ Filed /\ NoneHidden /\ Somewhere /\ caller[p].pc = "read" /\ Has(p)
      /\ Subject(p) \in entries /\ Move(p, "unlist")
      /\ UNCHANGED <<letters, burying, calls, stops, purged, crashed, torn, strayed>>
  BY DEF LettersInv, Reading, Found, At
<1>2. /\ caller' \in [Callers -> CallerRecords] /\ caller'[p].pc = "unlist" /\ caller'[p].ids = caller[p].ids
      /\ About(caller', p) = About(caller, p) /\ \A q \in Callers \ {p} : caller'[q] = caller[q]
  BY <1>1, PcFacts DEF Points
<1>3. PICK s : s = Subject(p)
  OBVIOUS
<1>4. s \in Letters /\ Original(s) \in Originals /\ s \in Around /\ About(caller, p) = s
  BY <1>1, <1>3, LetterFacts DEF Around, LettersTyped, About, Subject
<1>5. doubled' = IF \E q \in Callers : Reads(caller, q) /\ About(caller, q) = s
                 THEN [doubled EXCEPT ![Original(s)] = @ + 1] ELSE doubled
  BY <1>3 DEF Reading, Reads, About, Subject
<1>6. /\ doubled \in [Originals -> Nat] /\ doubled' \in [Originals -> Nat]
      /\ \A o \in Originals : doubled[o] <= doubled'[o]
  BY <1>1, <1>4, <1>5 DEF LettersTyped
<1>7. LettersTyped'
  BY <1>1, <1>2, <1>6 DEF LettersTyped, Has
<1>8. ~ Works(caller, p) /\ ~ Reads(caller, p) /\ Reads(caller', p) /\ Works(caller', p)
  BY <1>1, <1>2 DEF Works, Reads
<1>9. Around' = Around /\ Buried' = Buried /\ Around \subseteq Letters
  BY <1>1 DEF Around, Buried, LettersTyped
<1>10. Counted(Around, caller, doubled)'
  <2>1. PICK D : D = caller'
    OBVIOUS
  <2>2. PICK N : N = doubled'
    OBVIOUS
  <2>3. Counted(Around, caller, doubled)
    BY DEF LettersInv
  <2>4. Counted(Around, D, N)
    <3>1. CASE ~ \E q \in Callers : Reads(caller, q) /\ About(caller, q) = s
      <4>1. N = doubled
        BY <1>5, <2>2, <3>1
      <4>2. Reads(D, p) /\ About(D, p) = s /\ \A q \in Callers \ {p} : D[q] = caller[q]
        BY <1>2, <1>4, <1>8, <2>1
      <4>3. Counted(Around, D, doubled)
        BY <1>4, <1>6, <1>8, <1>9, <2>3, <3>1, <4>2, CountedMoved
      <4> QED BY <4>1, <4>3
    <3>2. CASE \E q \in Callers : Reads(caller, q) /\ About(caller, q) = s
      <4> SUFFICES ASSUME NEW o \in Originals PROVE Within(Unread(o, Around, D), Working(o, D), N[o])
        BY DEF Counted
      <4>1. Within(Unread(o, Around, caller), Working(o, caller), doubled[o]) /\ doubled[o] \in Nat /\ N[o] \in Nat
        BY <1>6, <2>2, <2>3 DEF Counted
      <4>2. IsFiniteSet(Unread(o, Around, caller)) /\ IsFiniteSet(Working(o, caller))
        BY <1>9, LettersFinite
      <4>3. \A q \in Callers \ {p} : (Works(D, q) <=> Works(caller, q)) /\ About(D, q) = About(caller, q)
                                     /\ (Reads(D, q) <=> Reads(caller, q))
        BY <1>2, <2>1 DEF Works, About, Reads
      <4>4. Unread(o, Around, D) \subseteq Unread(o, Around, caller)
        BY <1>8, <4>3 DEF Unread
      <4>5. CASE o = Original(s)
        <5>1. N[o] = doubled[o] + 1
          BY <1>4, <1>5, <1>6, <2>2, <3>2, <4>5
        <5>2. Working(o, D) \subseteq Working(o, caller) \cup {p}
          BY <4>3 DEF Working
        <5> QED BY <4>1, <4>2, <4>4, <5>1, <5>2, WithinMore
      <4>6. CASE o # Original(s)
        <5>1. Working(o, D) \subseteq Working(o, caller)
          BY <1>2, <1>4, <2>1, <4>3, <4>6 DEF Working
        <5>2. doubled[o] <= N[o]
          BY <1>6, <2>2
        <5> QED BY <4>1, <4>2, <4>4, <5>1, <5>2, WithinLess
      <4> QED BY <4>5, <4>6
    <3> QED BY <3>1, <3>2
  <2> QED BY <1>9, <2>1, <2>2, <2>4
<1>11. Apart'
  <2>1. About(caller', p) = s /\ s \notin waiting \cup Buried /\ s[2] <= replays[Original(s)]
    BY <1>1, <1>2, <1>3, <1>4 DEF Apart
  <2>2. \A q \in Callers : Reads(caller', q) => About(caller', q) = s \/ (Reads(caller, q) /\ About(caller', q) = About(caller, q))
    BY <1>2, <2>1 DEF Reads, About
  <2>3. \A q \in Callers : Reads(caller', q) => /\ About(caller', q) \notin waiting \cup Buried
                                                /\ About(caller', q)[2] <= replays[Original(About(caller', q))]
    BY <1>1, <2>1, <2>2 DEF Apart
  <2> QED BY <1>1, <1>9, <2>3 DEF Apart
<1>12. Filed'
  BY <1>1 DEF Filed
<1>13. NoneHidden'
  <2>1. \A q \in Callers : At(q, "forget") => At(q, "forget")' /\ Subject(q)' = Subject(q)
    BY <1>1, <1>2 DEF At, Subject
  <2> QED BY <1>1, <2>1 DEF NoneHidden
<1>14. Somewhere'
  <2>1. \A q \in Callers : caller[q].pc \in NotYetBack =>
            caller'[q].pc \in NotYetBack /\ About(caller', q) = About(caller, q)
    BY <1>1, <1>2 DEF About
  <2> QED BY <1>1, <1>9, <2>1 DEF Somewhere
<1>15. Fresh'
  <2>1. \A q \in Callers : caller'[q].pc = "enqueue" => caller'[q] = caller[q]
    BY <1>2
  <2>2. \A q \in Callers : Reads(caller', q) =>
            About(caller', q) \in Around \/ (Reads(caller, q) /\ About(caller', q) = About(caller, q))
    BY <1>2, <1>4 DEF Reads, About
  <2> QED BY <1>1, <1>9, <2>1, <2>2, FreshKeeps
<1> QED BY <1>7, <1>10, <1>11, <1>12, <1>13, <1>14, <1>15 DEF LettersInv

LEMMA StoreNewKeeps ==
    ASSUME LettersInv, NEW p \in Callers, StoreNew(p)
    PROVE  LettersInv'
<1>1. PICK o : o = Original(Subject(p))
  OBVIOUS
<1>2. PICK id : id = <<o, replays[o] + 1>>
  OBVIOUS
<1>3. /\ LettersTyped /\ Apart /\ Fresh /\ Filed /\ NoneHidden /\ Somewhere /\ caller[p].pc = "requeue"
      /\ replays[o] < MaxReplays /\ replays' = [replays EXCEPT ![o] = @ + 1]
      /\ record' = [record EXCEPT ![id] = "whole"]
      /\ caller' = [caller EXCEPT ![p].pc = "enqueue", ![p].all = {id}]
      /\ UNCHANGED <<listed, entries, waiting, audited, burying, letterGhosts>>
  BY <1>1, <1>2 DEF LettersInv, StoreNew, At
<1>4. Has(p) /\ About(caller, p) = Subject(p)
  BY <1>3 DEF LettersTyped, About, Subject
<1>5. o \in Originals
  BY <1>1, <1>3, <1>4, Records, LetterFacts DEF Points
<1>6. replays \in [Originals -> 0..MaxReplays] /\ replays[o] + 1 \in 0..MaxReplays
  BY <1>3, <1>5, LetterFacts DEF LettersTyped
<1>7. id \in Letters /\ Original(id) = o /\ id[2] = replays[o] + 1
  BY <1>2, <1>5, <1>6, LetterFacts
<1>8. PICK r : r = [caller[p] EXCEPT !.pc = "enqueue", !.all = {id}]
  OBVIOUS
<1>9. r \in CallerRecords /\ r.pc = "enqueue" /\ r.ids = caller[p].ids /\ r.all = {id}
  <2>1. r \in CallerRecords
    BY <1>3, <1>7, <1>8, Records DEF Points
  <2>2. caller[p] \in CallerRecords
    BY <1>3 DEF LettersTyped
  <2> QED BY <1>8, <2>1, <2>2 DEF CallerRecords
<1>10. caller' = [caller EXCEPT ![p] = r]
  BY <1>3, <1>8 DEF LettersTyped
<1>11. /\ caller' \in [Callers -> CallerRecords] /\ caller'[p] = r
       /\ \A q \in Callers \ {p} : caller'[q] = caller[q]
  BY <1>3, <1>9, <1>10, MoveFacts
<1>12. LettersTyped'
  <2>1. replays' \in [Originals -> 0..MaxReplays]
    BY <1>3, <1>6
  <2>2. record' \in [Letters -> {"none", "whole", "partial"}]
    BY <1>3, <1>7 DEF LettersTyped
  <2> QED BY <1>3, <1>4, <1>9, <1>11, <2>1, <2>2 DEF LettersTyped, Has
<1>13. /\ Works(caller, p) /\ ~ Reads(caller, p) /\ Works(caller', p) /\ ~ Reads(caller', p)
       /\ About(caller', p) = About(caller, p)
  BY <1>3, <1>9, <1>11 DEF Works, Reads, About
<1>14. Around' = Around /\ Buried' = Buried /\ Around \subseteq Letters
  BY <1>3 DEF Around, Buried, LettersTyped
<1>15. /\ \A q \in Callers : About(caller', q) = About(caller, q)
       /\ \A q \in Callers : Reads(caller', q) <=> Reads(caller, q)
       /\ \A q \in Callers : Works(caller', q) <=> Works(caller, q)
  BY <1>11, <1>13 DEF Reads, About, Works
<1>16. Counted(Around, caller, doubled)'
  <2>1. PICK D : D = caller'
    OBVIOUS
  <2>2. Counted(Around, caller, doubled) /\ doubled \in [Originals -> Nat]
    BY <1>3 DEF LettersInv, LettersTyped
  <2>3. \A q \in Callers : Works(D, q) => Works(caller, q) /\ About(D, q) = About(caller, q)
    BY <1>15, <2>1
  <2>4. \A q \in Callers : Reads(caller, q) => Reads(D, q) /\ About(D, q) = About(caller, q)
    BY <1>15, <2>1
  <2>5. Counted(Around, D, doubled)
    BY <1>14, <2>2, <2>3, <2>4, CountedLess
  <2> QED BY <1>3, <1>14, <2>1, <2>5
<1>17. \A x \in Letters : x[2] <= replays[Original(x)] => x[2] <= replays'[Original(x)] /\ x # id
  BY <1>3, <1>5, <1>6, <1>7, LetterFacts
<1>18. \A q \in Callers : Reads(caller, q) => About(caller, q) \in Letters
  <2> SUFFICES ASSUME NEW q \in Callers, Reads(caller, q)
               PROVE  About(caller, q) \in Letters
    OBVIOUS
  <2>1. Has(q) /\ About(caller, q) = Subject(q)
    BY <1>3 DEF LettersTyped, Reads, About, Subject
  <2> QED BY <1>3, <2>1, Records DEF Points
<1>19. Apart'
  <2>1. \A x \in Around' : x[2] <= replays'[Original(x)]
    BY <1>3, <1>14, <1>17 DEF Apart
  <2>2. \A q \in Callers : Reads(caller', q) => /\ About(caller', q) \notin waiting' \cup Buried'
                                                /\ About(caller', q)[2] <= replays'[Original(About(caller', q))]
    BY <1>3, <1>14, <1>15, <1>17, <1>18 DEF Apart
  <2>3. waiting' \cap entries' = {} /\ waiting' \cap Buried' = {} /\ entries' \cap Buried' = {}
    BY <1>3, <1>14 DEF Apart
  <2>4. \A b, c \in burying' : b.id = c.id => b = c
    BY <1>3 DEF Apart
  <2> QED BY <2>1, <2>2, <2>3, <2>4 DEF Apart
<1>20. Fresh'
  <2> SUFFICES ASSUME NEW q \in Callers, caller'[q].pc = "enqueue"
               PROVE  \E x \in Letters : Unknown(q, x, Around', caller') /\ x[2] <= replays'[Original(x)]
    BY DEF Fresh
  <2>1. CASE q = p
    <3>1. id \notin Around' /\ \A g \in Callers : Reads(caller', g) => About(caller', g) # id
      BY <1>3, <1>14, <1>15, <1>17, <1>18 DEF Apart
    <3>2. \A g \in Callers \ {p} : caller'[g].pc = "enqueue" => caller'[g].all # {id}
      <4> SUFFICES ASSUME NEW g \in Callers \ {p}, caller[g].pc = "enqueue" PROVE caller[g].all # {id}
        BY <1>11
      <4>1. PICK x \in Letters : Unknown(g, x, Around, caller) /\ x[2] <= replays[Original(x)]
        BY <1>3 DEF Fresh
      <4>2. x # id /\ caller[g].all = {x}
        BY <1>17, <4>1 DEF Unknown
      <4> QED BY <4>2
    <3>3. caller'[p].all = {id} /\ Original(id) = Original(About(caller', p))
      BY <1>1, <1>4, <1>7, <1>9, <1>11, <1>13
    <3>4. id[2] <= replays'[Original(id)]
      BY <1>3, <1>5, <1>6, <1>7
    <3>5. Unknown(p, id, Around', caller')
      BY <3>1, <3>2, <3>3 DEF Unknown
    <3> QED BY <1>7, <2>1, <3>4, <3>5
  <2>2. CASE q # p
    <3>1. caller'[q] = caller[q] /\ caller[q].pc = "enqueue"
      BY <1>11, <2>2
    <3>2. PICK x \in Letters : Unknown(q, x, Around, caller) /\ x[2] <= replays[Original(x)]
      BY <1>3, <3>1 DEF Fresh
    <3>3. x # id /\ x[2] <= replays'[Original(x)]
      BY <1>17, <3>2
    <3>4. x \notin Around' /\ caller'[q].all = {x} /\ Original(x) = Original(About(caller', q))
      BY <1>14, <1>15, <3>1, <3>2 DEF Unknown
    <3>5. \A g \in Callers : Reads(caller', g) => About(caller', g) # x
      BY <1>15, <3>2 DEF Unknown
    <3>6. \A g \in Callers \ {q} : caller'[g].pc = "enqueue" => caller'[g].all # {x}
      <4>1. caller'[p].all # {x}
        BY <1>9, <1>11, <3>3
      <4>2. \A g \in Callers \ {p, q} : caller'[g].pc = "enqueue" => caller'[g].all # {x}
        BY <1>11, <3>2 DEF Unknown
      <4> QED BY <4>1, <4>2
    <3>7. Unknown(q, x, Around', caller')
      BY <3>4, <3>5, <3>6 DEF Unknown
    <3> QED BY <3>3, <3>7
  <2> QED BY <2>1, <2>2
<1>21. Filed'
  BY <1>3 DEF Filed
<1>22. NoneHidden'
  <2>1. \A q \in Callers : At(q, "forget") => At(q, "forget")' /\ Subject(q)' = Subject(q)
    BY <1>3, <1>11 DEF At, Subject
  <2> QED BY <1>3, <2>1 DEF NoneHidden
<1>23. Somewhere'
  <2>1. \A q \in Callers : caller[q].pc \in NotYetBack =>
            caller'[q].pc \in NotYetBack /\ About(caller', q) = About(caller, q)
    BY <1>9, <1>11, <1>15
  <2> QED BY <1>3, <1>14, <2>1 DEF Somewhere
<1> QED BY <1>12, <1>16, <1>19, <1>20, <1>21, <1>22, <1>23 DEF LettersInv

LEMMA GiveBackKeeps ==
    ASSUME LettersInv, NEW p \in Callers, GiveBack(p)
    PROVE  LettersInv'
<1>1. /\ LettersTyped /\ Apart /\ Fresh /\ Filed /\ NoneHidden /\ Somewhere /\ caller[p].pc = "enqueue"
      /\ waiting' = waiting \cup caller[p].all /\ Move(p, "audit")
      /\ UNCHANGED <<record, listed, entries, replays, audited, burying, letterGhosts>>
  BY DEF LettersInv, GiveBack, At
<1>2. PICK id \in Letters : Unknown(p, id, Around, caller) /\ id[2] <= replays[Original(id)]
  BY <1>1 DEF Fresh
<1>3. /\ waiting' = waiting \cup {id} /\ Original(id) = Original(About(caller, p)) /\ id \notin Around
      /\ \A q \in Callers : Reads(caller, q) => About(caller, q) # id
  BY <1>1, <1>2 DEF Unknown
<1>4. /\ caller' \in [Callers -> CallerRecords] /\ caller'[p].pc = "audit" /\ caller'[p].ids = caller[p].ids
      /\ About(caller', p) = About(caller, p) /\ \A q \in Callers \ {p} : caller'[q] = caller[q]
  BY <1>1, PcFacts DEF Points
<1>5. LettersTyped'
  <2>1. waiting' \subseteq Letters
    BY <1>1, <1>3 DEF LettersTyped
  <2> QED BY <1>1, <1>4, <2>1 DEF LettersTyped, Has
<1>6. Works(caller, p) /\ ~ Reads(caller, p) /\ ~ Works(caller', p) /\ ~ Reads(caller', p)
  BY <1>1, <1>4 DEF Works, Reads
<1>7. Around' = Around \cup {id} /\ Buried' = Buried /\ Around \subseteq Letters
  BY <1>1, <1>3 DEF Around, Buried, LettersTyped
<1>8. Counted(Around, caller, doubled)'
  <2>1. PICK D : D = caller'
    OBVIOUS
  <2>2. Counted(Around, caller, doubled) /\ doubled \in [Originals -> Nat]
    BY <1>1 DEF LettersInv, LettersTyped
  <2>3. /\ Works(caller, p) /\ ~ Works(D, p) /\ Original(id) = Original(About(caller, p)) /\ ~ Reads(caller, p)
        /\ \A q \in Callers \ {p} : D[q] = caller[q]
    BY <1>3, <1>4, <1>6, <2>1
  <2>4. Counted(Around \cup {id}, D, doubled)
    BY <1>7, <2>2, <2>3, CountedMoved
  <2> QED BY <1>1, <1>7, <2>1, <2>4
<1>9. \A q \in Callers : Reads(caller', q) => Reads(caller, q) /\ About(caller', q) = About(caller, q)
  BY <1>4, <1>6 DEF Reads, About
<1>10. Apart'
  <2>1. \A x \in Around' : x[2] <= replays'[Original(x)]
    BY <1>1, <1>2, <1>7 DEF Apart
  <2>2. \A q \in Callers : Reads(caller', q) => /\ About(caller', q) \notin waiting' \cup Buried'
                                                /\ About(caller', q)[2] <= replays'[Original(About(caller', q))]
    BY <1>1, <1>3, <1>7, <1>9 DEF Apart
  <2>3. waiting' \cap entries' = {} /\ waiting' \cap Buried' = {} /\ entries' \cap Buried' = {}
    BY <1>1, <1>3, <1>7 DEF Apart, Around
  <2>4. \A b, c \in burying' : b.id = c.id => b = c
    BY <1>1 DEF Apart
  <2> QED BY <2>1, <2>2, <2>3, <2>4 DEF Apart
<1>11. Fresh'
  <2> SUFFICES ASSUME NEW q \in Callers, caller'[q].pc = "enqueue"
               PROVE  \E x \in Letters : Unknown(q, x, Around', caller') /\ x[2] <= replays'[Original(x)]
    BY DEF Fresh
  <2>1. q # p /\ caller'[q] = caller[q] /\ caller[q].pc = "enqueue"
    BY <1>4
  <2>2. PICK x \in Letters : Unknown(q, x, Around, caller) /\ x[2] <= replays[Original(x)]
    BY <1>1, <2>1 DEF Fresh
  <2>3. x # id
    BY <1>1, <1>2, <2>1, <2>2 DEF Unknown
  <2>4. x \notin Around' /\ caller'[q].all = {x} /\ Original(x) = Original(About(caller', q))
    BY <1>7, <2>1, <2>2, <2>3 DEF Unknown, About
  <2>5. \A g \in Callers : Reads(caller', g) => About(caller', g) # x
    BY <1>9, <2>2 DEF Unknown
  <2>6. \A g \in Callers \ {q} : caller'[g].pc = "enqueue" => caller'[g].all # {x}
    BY <1>4, <2>2 DEF Unknown
  <2>7. Unknown(q, x, Around', caller')
    BY <2>4, <2>5, <2>6 DEF Unknown
  <2> QED BY <1>1, <2>2, <2>7
<1>12. Filed'
  BY <1>1 DEF Filed
<1>13. NoneHidden'
  <2>1. \A q \in Callers : At(q, "forget") => At(q, "forget")' /\ Subject(q)' = Subject(q)
    BY <1>1, <1>4 DEF At, Subject
  <2> QED BY <1>1, <2>1 DEF NoneHidden
<1>14. Somewhere'
  <2> SUFFICES ASSUME NEW x \in Originals, x \notin purged \cup crashed \cup torn, x # Original(id)
               PROVE  \/ \E i \in Around' : Original(i) = x
                      \/ \E q \in Callers : caller'[q].pc \in NotYetBack /\ Original(About(caller', q)) = x
    BY <1>1, <1>7 DEF Somewhere
  <2>1. CASE \E i \in Around : Original(i) = x
    BY <1>7, <2>1
  <2>2. CASE ~ \E i \in Around : Original(i) = x
    <3>1. PICK q \in Callers : caller[q].pc \in NotYetBack /\ Original(About(caller, q)) = x
      BY <1>1, <2>2 DEF Somewhere
    <3>2. q # p
      BY <1>3, <3>1
    <3> QED BY <1>4, <3>1, <3>2 DEF About
  <2> QED BY <2>1, <2>2
<1> QED BY <1>5, <1>8, <1>10, <1>11, <1>12, <1>13, <1>14 DEF LettersInv

LEMMA PurgeEntryKeeps ==
    ASSUME LettersInv, NEW p \in Callers, PurgeEntry(p)
    PROVE  LettersInv'
<1>1. /\ LettersTyped /\ Apart /\ Filed /\ NoneHidden /\ Somewhere /\ caller[p].pc = "purge" /\ Has(p)
      /\ entries' = entries \ {Subject(p)} /\ Move(p, "erase")
      /\ purged' = IF Subject(p) \in entries THEN purged \cup {Original(Subject(p))} ELSE purged
      /\ UNCHANGED <<record, listed, waiting, replays, audited, burying, calls, stops, doubled, crashed, torn, strayed>>
  BY DEF LettersInv, PurgeEntry, At
<1>2. /\ caller' \in [Callers -> CallerRecords] /\ caller'[p].pc = "erase" /\ caller'[p].ids = caller[p].ids
      /\ \A q \in Callers \ {p} : caller'[q] = caller[q]
  BY <1>1, PcFacts DEF Points
<1>3. Original(Subject(p)) \in Originals
  BY <1>1, Records, LetterFacts DEF Points
<1>4. LettersTyped'
  <2>1. purged' \subseteq Originals /\ entries' \subseteq Letters
    BY <1>1, <1>3 DEF LettersTyped
  <2> QED BY <1>1, <1>2, <2>1 DEF LettersTyped, Has
<1>5. ~ Reads(caller, p) /\ ~ Reads(caller', p) /\ ~ Works(caller', p)
  BY <1>1, <1>2 DEF Reads, Works
<1>6. Apart' /\ Fresh' /\ Counted(Around, caller, doubled)'
  BY <1>1, <1>2, <1>4, <1>5, QuietKeeps
<1>7. Filed'
  BY <1>1 DEF Filed
<1>8. NoneHidden'
  <2>1. \A q \in Callers : At(q, "forget") => At(q, "forget")' /\ Subject(q)' = Subject(q)
    BY <1>1, <1>2 DEF At, Subject
  <2> QED BY <1>1, <2>1 DEF NoneHidden
<1>9. Somewhere'
  <2>1. \A q \in Callers : caller[q].pc \in NotYetBack =>
            caller'[q].pc \in NotYetBack /\ About(caller', q) = About(caller, q)
    BY <1>1, <1>2 DEF About
  <2>2. \A id \in Around : id \in Around' \/ Original(id) \in purged'
    BY <1>1 DEF Around, Buried
  <2>3. purged \subseteq purged'
    BY <1>1
  <2> QED BY <1>1, <2>1, <2>2, <2>3 DEF Somewhere
<1> QED BY <1>4, <1>6, <1>7, <1>8, <1>9 DEF LettersInv

LEMMA PurgeListKeeps ==
    ASSUME LettersInv, NEW p \in Callers, PurgeList(p)
    PROVE  LettersInv'
<1>1. /\ LettersTyped /\ Apart /\ Filed /\ NoneHidden /\ Somewhere /\ caller[p].pc = "purge"
      /\ listed' = listed \ caller[p].all /\ caller' = [caller EXCEPT ![p] = Resting]
      /\ strayed' = strayed \cup {id \in caller[p].all : id \in entries \/ \E b \in burying : b.id = id}
      /\ UNCHANGED <<record, entries, waiting, replays, audited, burying, calls, stops, doubled, purged, crashed, torn>>
  BY DEF LettersInv, PurgeList, At
<1>2. /\ caller' \in [Callers -> CallerRecords] /\ caller'[p].pc = "idle"
      /\ \A q \in Callers \ {p} : caller'[q] = caller[q]
  BY <1>1, RestFacts
<1>3. LettersTyped'
  <2>1. caller[p].all \subseteq Letters
    BY <1>1 DEF LettersTyped, CallerRecords
  <2>2. strayed' \subseteq Letters /\ listed' \subseteq Letters
    BY <1>1, <2>1 DEF LettersTyped
  <2> QED BY <1>1, <1>2, <2>2 DEF LettersTyped, Has
<1>4. ~ Reads(caller, p) /\ ~ Reads(caller', p) /\ ~ Works(caller', p)
  BY <1>1, <1>2 DEF Reads, Works
<1>5. Apart' /\ Fresh' /\ Counted(Around, caller, doubled)'
  BY <1>1, <1>2, <1>3, <1>4, QuietKeeps
<1>6. Filed'
  BY <1>1 DEF Filed
<1>7. NoneHidden'
  <2>1. \A q \in Callers : At(q, "forget") => At(q, "forget")' /\ Subject(q)' = Subject(q)
    BY <1>1, <1>2 DEF At, Subject
  <2> SUFFICES ASSUME NEW id \in entries, id \notin listed', id \notin strayed'
               PROVE  \E q \in Callers : At(q, "forget")' /\ Subject(q)' = id
    BY <1>1 DEF NoneHidden
  <2>2. id \notin listed /\ id \notin strayed
    BY <1>1
  <2> QED BY <1>1, <2>1, <2>2 DEF NoneHidden
<1>8. Somewhere'
  <2>1. Around' = Around
    BY <1>1 DEF Around, Buried
  <2>2. \A q \in Callers : caller[q].pc \in NotYetBack =>
            caller'[q].pc \in NotYetBack /\ About(caller', q) = About(caller, q)
    BY <1>1, <1>2 DEF About
  <2> QED BY <1>1, <2>1, <2>2 DEF Somewhere
<1> QED BY <1>3, <1>5, <1>6, <1>7, <1>8 DEF LettersInv

LEMMA StopKeeps ==
    ASSUME LettersInv, NEW p \in Callers, Stop(p)
    PROVE  LettersInv'
<1>1. /\ LettersTyped /\ Apart /\ Fresh /\ Filed /\ NoneHidden /\ Somewhere /\ caller[p].pc # "idle"
      /\ stops < MaxStops /\ stops' = stops + 1 /\ caller' = [caller EXCEPT ![p] = Resting]
      /\ crashed' = IF caller[p].pc \in NotYetBack THEN crashed \cup {Original(Subject(p))} ELSE crashed
      /\ strayed' = IF At(p, "forget") THEN strayed \cup {Subject(p)} ELSE strayed
      /\ UNCHANGED <<letters, burying, calls, doubled, purged, torn>>
  BY DEF LettersInv, Stop, At
<1>2. /\ caller' \in [Callers -> CallerRecords] /\ caller'[p].pc = "idle"
      /\ \A q \in Callers \ {p} : caller'[q] = caller[q]
  BY <1>1, RestFacts
<1>3. LettersTyped'
  <2>1. Works(caller, p) => Subject(p) \in Letters /\ Original(Subject(p)) \in Originals
    BY <1>1, Records, LetterFacts DEF Works, LettersTyped, Points
  <2>2. crashed' \subseteq Originals /\ strayed' \subseteq Letters
    BY <1>1, <2>1 DEF LettersTyped, Works, At
  <2>3. stops' \in 0..MaxStops
    BY <1>1, LetterFacts DEF LettersTyped
  <2> QED BY <1>1, <1>2, <2>2, <2>3 DEF LettersTyped, Has
<1>4. ~ Reads(caller', p) /\ ~ Works(caller', p) /\ \A E, q : Reads(E, q) => Works(E, q)
  BY <1>2 DEF Reads, Works
<1>5. Around' = Around /\ Buried' = Buried /\ Around \subseteq Letters
  BY <1>1 DEF Around, Buried, LettersTyped
<1>6. \A q \in Callers : Reads(caller', q) => Reads(caller, q) /\ About(caller', q) = About(caller, q)
  BY <1>2, <1>4 DEF Reads, About
<1>7. Apart'
  <2>1. \A q \in Callers : Reads(caller', q) => /\ About(caller', q) \notin waiting \cup Buried
                                                /\ About(caller', q)[2] <= replays[Original(About(caller', q))]
    BY <1>1, <1>6 DEF Apart
  <2> QED BY <1>1, <1>5, <2>1 DEF Apart
<1>8. Counted(Around, caller, doubled)'
  <2>1. PICK D : D = caller'
    OBVIOUS
  <2>2. Counted(Around, caller, doubled) /\ doubled \in [Originals -> Nat]
    BY <1>1 DEF LettersInv, LettersTyped
  <2>3. Counted(Around, D, doubled)
    <3>1. CASE Works(caller, p)
      <4>1. PICK id : id = About(caller, p)
        OBVIOUS
      <4>2. /\ Works(caller, p) /\ ~ Works(D, p) /\ Around \subseteq Around \cup {id}
            /\ Original(id) = Original(About(caller, p)) /\ Reads(caller, p) => About(caller, p) = id
            /\ \A q \in Callers \ {p} : D[q] = caller[q]
        BY <1>2, <1>4, <2>1, <3>1, <4>1
      <4> QED BY <1>5, <2>2, <4>2, CountedMoved
    <3>2. CASE ~ Works(caller, p)
      <4>1. \A q \in Callers : Works(D, q) => Works(caller, q) /\ About(D, q) = About(caller, q)
        BY <1>2, <1>4, <2>1 DEF Works, About
      <4>2. \A q \in Callers : Reads(caller, q) => Reads(D, q) /\ About(D, q) = About(caller, q)
        BY <1>2, <1>4, <2>1, <3>2 DEF Reads, About
      <4> QED BY <1>5, <2>2, <4>1, <4>2, CountedLess
    <3> QED BY <3>1, <3>2
  <2> QED BY <1>1, <1>5, <2>1, <2>3
<1>9. Filed'
  BY <1>1 DEF Filed
<1>10. NoneHidden'
  <2>1. \A q \in Callers \ {p} : (At(q, "forget")' <=> At(q, "forget")) /\ Subject(q)' = Subject(q)
    BY <1>2 DEF At, Subject
  <2> SUFFICES ASSUME NEW id \in entries, id \notin listed, id \notin strayed'
               PROVE  \E q \in Callers : At(q, "forget")' /\ Subject(q)' = id
    BY <1>1 DEF NoneHidden
  <2>2. id \notin strayed
    BY <1>1
  <2>3. PICK q \in Callers : At(q, "forget") /\ Subject(q) = id
    BY <1>1, <2>2 DEF NoneHidden
  <2>4. q # p
    BY <1>1, <2>3
  <2> QED BY <2>1, <2>3, <2>4
<1>11. Somewhere'
  <2> SUFFICES ASSUME NEW o \in Originals, o \notin purged' \cup crashed' \cup torn', ~ \E id \in Around' : Original(id) = o
               PROVE  \E q \in Callers : caller'[q].pc \in NotYetBack /\ Original(About(caller', q)) = o
    BY DEF Somewhere
  <2>1. PICK q \in Callers : caller[q].pc \in NotYetBack /\ Original(About(caller, q)) = o
    BY <1>1, <1>5 DEF Somewhere
  <2>2. q # p
    BY <1>1, <2>1 DEF About, Subject
  <2> QED BY <1>2, <2>1, <2>2 DEF About
<1>12. Fresh'
  <2>1. \A q \in Callers : caller'[q].pc = "enqueue" => caller'[q] = caller[q]
    BY <1>2
  <2> QED BY <1>1, <1>5, <1>6, <2>1, FreshKeeps
<1> QED BY <1>3, <1>7, <1>8, <1>9, <1>10, <1>11, <1>12 DEF LettersInv

\* The steps of the workers that bury a task.
LEMMA BuryingKeeps ==
    ASSUME LettersInv, LettersTyped', UNCHANGED <<replays, caller, letterGhosts>>,
           Around' = Around, waiting' \cup Buried' \subseteq waiting \cup Buried, listed \subseteq listed',
           \A id \in entries' : id \in entries \/ id \in listed \cup strayed,
           waiting' \cap entries' = {}, waiting' \cap Buried' = {}, entries' \cap Buried' = {},
           \A b, c \in burying' : b.id = c.id => b = c,
           Filed'
    PROVE  LettersInv'
<1>1. /\ LettersTyped /\ Apart /\ Fresh /\ Filed /\ NoneHidden /\ Somewhere /\ Counted(Around, caller, doubled)
  BY DEF LettersInv
<1>2. Counted(Around, caller, doubled)'
  BY <1>1
<1>3. Apart'
  <2>1. \A q \in Callers : Reads(caller', q) => /\ About(caller', q) \notin waiting' \cup Buried'
                                                /\ About(caller', q)[2] <= replays'[Original(About(caller', q))]
    BY <1>1 DEF Apart
  <2>2. \A id \in Around' : id[2] <= replays'[Original(id)]
    BY <1>1 DEF Apart
  <2> QED BY <2>1, <2>2 DEF Apart
<1>4. NoneHidden'
  <2>1. \A q \in Callers : At(q, "forget") => At(q, "forget")' /\ Subject(q)' = Subject(q)
    BY DEF At, Subject
  <2> QED BY <1>1, <2>1 DEF NoneHidden
<1>5. Somewhere'
  BY <1>1 DEF Somewhere
<1>6. Fresh'
  BY <1>1, FreshKeeps
<1> QED BY <1>2, <1>3, <1>4, <1>5, <1>6 DEF LettersInv

LEMMA FailAgainKeeps ==
    ASSUME LettersInv, NEW id \in waiting, FailAgain(id)
    PROVE  LettersInv'
<1>1. /\ LettersTyped /\ Apart /\ Filed
      /\ waiting' = waiting \ {id} /\ burying' = burying \cup {[id |-> id, step |-> "list"]}
      /\ UNCHANGED <<record, listed, entries, replays, audited, caller, letterGhosts>>
  BY DEF LettersInv, FailAgain
<1>2. [id |-> id, step |-> "list"] \in [id : Letters, step : {"list", "file"}]
  BY <1>1 DEF LettersTyped
<1>3. LettersTyped'
  <2>1. burying' \subseteq [id : Letters, step : {"list", "file"}]
    BY <1>1, <1>2 DEF LettersTyped
  <2>2. waiting' \subseteq Letters
    BY <1>1 DEF LettersTyped
  <2> QED BY <1>1, <2>1, <2>2 DEF LettersTyped, Has
<1>4. Buried' = Buried \cup {id}
  <2>1. PICK f : f = [id |-> id, step |-> "list"]
    OBVIOUS
  <2>2. f.id = id /\ burying' = burying \cup {f}
    BY <1>1, <2>1
  <2> QED BY <2>2 DEF Buried
<1>5. id \notin entries /\ id \notin Buried
  BY <1>1 DEF Apart
<1>6. \A b, c \in burying' : b.id = c.id => b = c
  <2>1. \A b \in burying : b.id # id
    BY <1>5 DEF Buried
  <2> QED BY <1>1, <2>1 DEF Apart
<1>7. waiting' \cap entries' = {} /\ waiting' \cap Buried' = {} /\ entries' \cap Buried' = {}
  BY <1>1, <1>4, <1>5 DEF Apart
<1>8. Around' = Around
  BY <1>1, <1>4 DEF Around
<1>9. Filed'
  BY <1>1 DEF Filed
<1>10. /\ \A x \in entries' : x \in entries \/ x \in listed \cup strayed
       /\ waiting' \cup Buried' \subseteq waiting \cup Buried
  BY <1>1, <1>4
<1> QED BY <1>1, <1>3, <1>6, <1>7, <1>8, <1>9, <1>10, BuryingKeeps

LEMMA AddToListKeeps ==
    ASSUME LettersInv, NEW b \in burying, AddToList(b)
    PROVE  LettersInv'
<1>1. PICK f : f = [b EXCEPT !.step = "file"]
  OBVIOUS
<1>2. /\ LettersTyped /\ Apart /\ Filed /\ listed' = listed \cup {b.id}
      /\ burying' = (burying \ {b}) \cup {f}
      /\ UNCHANGED <<record, entries, waiting, replays, audited, caller, letterGhosts>>
  BY <1>1 DEF LettersInv, AddToList
<1>3. b \in [id : Letters, step : {"list", "file"}]
  BY <1>2 DEF LettersTyped
<1>4. f \in [id : Letters, step : {"list", "file"}] /\ f.id = b.id
  BY <1>1, <1>3
<1>5. LettersTyped'
  BY <1>2, <1>3, <1>4 DEF LettersTyped, Has
<1>6. Buried' = Buried
  BY <1>2, <1>4 DEF Buried
<1>7. \A c, d \in burying' : c.id = d.id => c = d
  <2>1. \A c \in burying : c.id = f.id => c = b
    BY <1>2, <1>4 DEF Apart
  <2> QED BY <1>2, <2>1 DEF Apart
<1>8. Around' = Around
  BY <1>2, <1>6 DEF Around
<1>9. Filed'
  BY <1>2, <1>4 DEF Filed
<1>10. /\ waiting' \cap entries' = {} /\ waiting' \cap Buried' = {} /\ entries' \cap Buried' = {}
       /\ waiting' \cup Buried' \subseteq waiting \cup Buried
       /\ \A x \in entries' : x \in entries \/ x \in listed \cup strayed
       /\ listed \subseteq listed'
  BY <1>2, <1>6 DEF Apart
<1> QED BY <1>2, <1>5, <1>7, <1>8, <1>9, <1>10, BuryingKeeps

LEMMA AddEntryKeeps ==
    ASSUME LettersInv, NEW b \in burying, AddEntry(b)
    PROVE  LettersInv'
<1>1. /\ LettersTyped /\ Apart /\ Filed /\ entries' = entries \cup {b.id} /\ burying' = burying \ {b} /\ b.step = "file"
      /\ UNCHANGED <<record, listed, waiting, replays, audited, caller, letterGhosts>>
  BY DEF LettersInv, AddEntry
<1>2. b.id \in Letters
  BY <1>1 DEF LettersTyped
<1>3. LettersTyped'
  BY <1>1, <1>2 DEF LettersTyped, Has
<1>4. Buried' = Buried \ {b.id}
  <2>1. \A c \in burying : c.id = b.id => c = b
    BY <1>1 DEF Apart
  <2> QED BY <1>1, <2>1 DEF Buried
<1>5. b.id \in Buried /\ b.id \in listed \cup strayed
  BY <1>1 DEF Buried, Filed
<1>6. \A c, d \in burying' : c.id = d.id => c = d
  BY <1>1 DEF Apart
<1>7. Around' = Around
  BY <1>1, <1>4, <1>5 DEF Around
<1>8. Filed'
  BY <1>1 DEF Filed
<1>9. /\ waiting' \cap entries' = {} /\ waiting' \cap Buried' = {} /\ entries' \cap Buried' = {}
      /\ waiting' \cup Buried' \subseteq waiting \cup Buried
      /\ \A x \in entries' : x \in entries \/ x \in listed \cup strayed
  BY <1>1, <1>4, <1>5 DEF Apart
<1> QED BY <1>1, <1>3, <1>6, <1>7, <1>8, <1>9, BuryingKeeps

LEMMA LettersStarted ==
    ASSUME LettersInit
    PROVE  LettersInv
<1>1. LettersTyped
  <2>1. caller \in [Callers -> CallerRecords]
    <3>1. Resting \in CallerRecords
      BY DEF Resting, CallerRecords, Points
    <3> QED BY <3>1 DEF LettersInit
  <2>2. \A p \in Callers : caller[p].pc \in {"idle", "read", "purge"}
    BY DEF LettersInit, Resting
  <2>3. replays \in [Originals -> 0..MaxReplays] /\ doubled \in [Originals -> Nat]
    BY LetterFacts DEF LettersInit
  <2>4. burying \subseteq [id : Letters, step : {"list", "file"}]
    BY LetterFacts DEF LettersInit, Letters
  <2>5. stops \in 0..MaxStops /\ calls \in 0..MaxCalls
    BY LetterFacts DEF LettersInit
  <2> QED BY <2>1, <2>2, <2>3, <2>4, <2>5 DEF LettersInit, LettersTyped
<1>2. \A p \in Callers : caller[p].pc = "idle"
  BY DEF LettersInit, Resting
<1>3. /\ waiting = {} /\ entries = {} /\ Around = Buried /\ Around \subseteq Letters
      /\ \A b \in burying : b.id \in Originals \X {0} /\ b.step = "list" /\ b = [id |-> b.id, step |-> "list"]
      /\ \A o \in Originals : <<o, 0>> \in Buried
  <2>1. waiting = {} /\ entries = {} /\ burying = [id : Originals \X {0}, step : {"list"}]
    BY DEF LettersInit
  <2>2. Buried = Originals \X {0}
    <3>1. \A x \in Originals \X {0} : [id |-> x, step |-> "list"] \in burying
      BY <2>1
    <3>2. ASSUME NEW x \in Originals \X {0} PROVE x \in Buried
      <4>1. PICK b : b = [id |-> x, step |-> "list"]
        OBVIOUS
      <4>2. b \in burying /\ b.id = x
        BY <3>1, <4>1
      <4> QED BY <4>2 DEF Buried
    <3> QED BY <2>1, <3>2 DEF Buried
  <2>3. Originals \X {0} \subseteq Letters
    BY LetterFacts DEF Letters
  <2>4. \A b \in burying : b.id \in Originals \X {0} /\ b.step = "list" /\ b = [id |-> b.id, step |-> "list"]
    BY <2>1
  <2> QED BY <2>1, <2>2, <2>3, <2>4 DEF Around
<1>4. \A id \in Around : id \in Originals \X {0} /\ id = <<Original(id), 0>>
  BY <1>3 DEF Buried, Original
<1>5. Apart
  <2>1. \A b, c \in burying : b.id = c.id => b = c
    BY <1>3
  <2>2. \A id \in Around : id[2] <= replays[Original(id)]
    BY <1>4 DEF LettersInit, Original
  <2> QED BY <1>2, <1>3, <2>1, <2>2 DEF Apart, Reads
<1>6. Filed /\ NoneHidden
  BY <1>3 DEF Filed, NoneHidden
<1>7. Somewhere
  BY <1>3 DEF Somewhere, Original
<1>8. Counted(Around, caller, doubled)
  <2> SUFFICES ASSUME NEW o \in Originals PROVE Within(Unread(o, Around, caller), Working(o, caller), doubled[o])
    BY DEF Counted
  <2>1. Unread(o, Around, caller) \subseteq {<<o, 0>>} /\ Working(o, caller) \subseteq {}
    BY <1>2, <1>4 DEF Unread, Working, Works
  <2>2. /\ IsFiniteSet({<<o, 0>>}) /\ Cardinality({<<o, 0>>}) = 1 /\ IsFiniteSet({}) /\ Cardinality({}) = 0
    BY FS_Singleton, FS_EmptySet
  <2>3. doubled[o] \in Nat
    BY <1>1 DEF LettersTyped
  <2>4. Within({<<o, 0>>}, {}, 0)
    BY <2>2 DEF Within
  <2> QED BY <2>1, <2>2, <2>3, <2>4, WithinLess
<1>9. Fresh
  BY <1>2 DEF Fresh
<1> QED BY <1>1, <1>5, <1>6, <1>7, <1>8, <1>9 DEF LettersInv

LEMMA LettersPreserved ==
    ASSUME LettersInv, [LettersNext]_lettersVars
    PROVE  LettersInv'
<1>1. CASE \E id \in waiting : FailAgain(id)
  BY <1>1, FailAgainKeeps
<1>2. CASE \E b \in burying : AddToList(b) \/ AddEntry(b)
  BY <1>2, AddToListKeeps, AddEntryKeeps
<1>3. ASSUME NEW p \in Callers,
             \/ StartRetry(p) \/ Reading(p) \/ Skip(p) \/ RemoveListed(p) \/ Forget(p)
             \/ DropRecord(p) \/ StoreNew(p) \/ GiveBack(p) \/ Audit(p)
             \/ StartPurge(p) \/ PurgeEntry(p) \/ PurgeRecord(p) \/ PurgeList(p)
             \/ Stop(p)
      PROVE  LettersInv'
  <2>1. CASE StartRetry(p) \/ StartPurge(p)
    BY <2>1, StartKeeps
  <2>2. CASE Reading(p) \/ Skip(p) \/ RemoveListed(p) \/ Forget(p)
    BY <2>2, ReadingKeeps, SkipKeeps, RemoveListedKeeps, ForgetKeeps
  <2>3. CASE DropRecord(p) \/ StoreNew(p) \/ GiveBack(p) \/ Audit(p) \/ Stop(p)
    BY <2>3, DropRecordKeeps, StoreNewKeeps, GiveBackKeeps, AuditKeeps, StopKeeps
  <2>4. CASE PurgeEntry(p) \/ PurgeRecord(p) \/ PurgeList(p)
    BY <2>4, PurgeEntryKeeps, PurgeRecordKeeps, PurgeListKeeps
  <2> QED BY <1>3, <2>1, <2>2, <2>3, <2>4
<1>4. CASE UNCHANGED lettersVars
  <2>1. UNCHANGED <<letters, burying, caller, letterGhosts>>
    BY <1>4
  <2>2. LettersTyped'
    BY <2>1 DEF LettersInv, LettersTyped, Has
  <2>3. Around' = Around /\ Buried' = Buried
    BY <2>1 DEF Around, Buried
  <2>4. Apart'
    BY <2>1, <2>3 DEF LettersInv, Apart
  <2>5. Filed'
    BY <2>1 DEF LettersInv, Filed
  <2>6. NoneHidden'
    BY <2>1 DEF LettersInv, NoneHidden, At, Subject
  <2>7. Somewhere'
    BY <2>1, <2>3 DEF LettersInv, Somewhere
  <2>8. Counted(Around, caller, doubled)'
    BY <2>1, <2>3 DEF LettersInv
  <2>9. Fresh'
    BY <2>1, <2>3 DEF LettersInv, Fresh
  <2> QED BY <2>2, <2>4, <2>5, <2>6, <2>7, <2>8, <2>9 DEF LettersInv
<1> QED BY <1>1, <1>2, <1>3, <1>4 DEF LettersNext

\* As many tasks are about as are unread, or read by a caller, at most.
LEMMA AliveCounted ==
    ASSUME LettersInv, NEW o \in Originals
    PROVE  Cardinality(Alive(o)) + Cardinality(BeingRetried(o)) <= 1 + doubled[o]
<1>1. PICK U, W : U = Unread(o, Around, caller) /\ W = Working(o, caller)
  OBVIOUS
<1>2. Around \subseteq Letters /\ doubled[o] \in Nat
  BY DEF LettersInv, LettersTyped, Around, Buried
<1>3. Within(U, W, doubled[o]) /\ IsFiniteSet(U) /\ IsFiniteSet(W)
  BY <1>1, <1>2, LettersFinite DEF LettersInv, Counted
<1>4. PICK R : R = {p \in W : Reads(caller, p)}
  OBVIOUS
<1>5. PICK T : T = {About(caller, p) : p \in R}
  OBVIOUS
<1>6. R \subseteq W /\ IsFiniteSet(R) /\ IsFiniteSet(W \ R)
  BY <1>3, <1>4, FS_Subset
<1>7. IsFiniteSet(T) /\ Cardinality(T) <= Cardinality(R)
  <2>1. PICK f : f = [p \in R |-> About(caller, p)]
    OBVIOUS
  <2>2. f \in Surjection(R, T)
    BY <1>5, <2>1 DEF Surjection
  <2> QED BY <1>6, <2>2, FS_Surjection
<1>8. Alive(o) \subseteq U \cup T
  <2> SUFFICES ASSUME NEW id \in Around, Original(id) = o, id \notin U PROVE id \in T
    BY DEF Alive, Around, Buried
  <2>1. PICK p \in Callers : Reads(caller, p) /\ About(caller, p) = id
    BY <1>1 DEF Unread
  <2>2. p \in R
    BY <1>1, <1>4, <2>1 DEF Working, Works, Reads
  <2> QED BY <1>5, <2>1, <2>2
<1>9. BeingRetried(o) \subseteq W \ R
  BY <1>1, <1>4 DEF BeingRetried, Working, Works, Reads, About, Subject
<1>10. /\ IsFiniteSet(U \cup T) /\ Cardinality(U \cup T) = Cardinality(U) + Cardinality(T) - Cardinality(U \cap T)
       /\ IsFiniteSet(U \cap T)
  BY <1>3, <1>7, FS_Union, FS_Subset
<1>11. Cardinality(W \ R) = Cardinality(W) - Cardinality(R)
  <2>1. W \cap R = R
    BY <1>6
  <2> QED BY <1>3, <2>1, FS_Difference
<1>12. /\ Cardinality(Alive(o)) <= Cardinality(U \cup T) /\ IsFiniteSet(Alive(o))
       /\ Cardinality(BeingRetried(o)) <= Cardinality(W \ R) /\ IsFiniteSet(BeingRetried(o))
  BY <1>6, <1>8, <1>9, <1>10, FS_Subset
<1>13. /\ Cardinality(U) \in Nat /\ Cardinality(T) \in Nat /\ Cardinality(U \cap T) \in Nat
       /\ Cardinality(R) \in Nat /\ Cardinality(W) \in Nat
       /\ Cardinality(Alive(o)) \in Nat /\ Cardinality(BeingRetried(o)) \in Nat
  BY <1>3, <1>6, <1>7, <1>10, <1>12, FS_CardinalityType
<1>14. Cardinality(U) + Cardinality(W) <= 1 + doubled[o]
  BY <1>3 DEF Within
<1> QED BY <1>2, <1>7, <1>10, <1>11, <1>12, <1>13, <1>14

LEMMA LettersImplied ==
    ASSUME LettersInv
    PROVE  LettersTypeOK /\ LettersKept
<1>1. LettersTyped /\ NoneHidden /\ Somewhere
  BY DEF LettersInv
<1>2. LettersTypeOK
  BY <1>1 DEF LettersTyped, LettersTypeOK, CallerRecords
<1>3. NoneLost
  <2> SUFFICES ASSUME NEW o \in Originals, o \notin purged \cup crashed \cup torn
               PROVE  Alive(o) \cup BeingRetried(o) # {}
    BY DEF NoneLost
  <2>1. CASE \E id \in Around : Original(id) = o
    BY <2>1 DEF Alive, Around, Buried
  <2>2. CASE \E p \in Callers : caller[p].pc \in NotYetBack /\ Original(About(caller, p)) = o
    BY <2>2 DEF BeingRetried, About, Subject
  <2> QED BY <1>1, <2>1, <2>2 DEF Somewhere
<1>4. NoneDoubled
  BY AliveCounted DEF NoneDoubled
<1> QED BY <1>1, <1>2, <1>3, <1>4 DEF LettersKept

-----------------------------------------------------------------------------
(* Theorems *)

LEMMA LettersAlways == LettersSpec => []LettersInv
<1>1. LettersInit => LettersInv
  BY LettersStarted
<1>2. LettersInv /\ [LettersNext]_lettersVars => LettersInv'
  BY LettersPreserved
<1> QED BY <1>1, <1>2, PTL DEF LettersSpec

\* Dead letters, by themselves: whatever operators, workers and crashes meet, a task that died is
\* somewhere, unless it was purged, its caller crashed or its record could not be read; it is
\* replayed once, but for those that read its entry together; and its entry is listed, unless it
\* strayed.
THEOREM LettersKeep == LettersSpec => [](LettersTypeOK /\ LettersKept)
<1>1. LettersInv => LettersTypeOK /\ LettersKept
  BY LettersImplied
<1> QED BY <1>1, LettersAlways, PTL

\* So they are beside what else waits to be taken up.
THEOREM DeadLettersKept == BacklogSpec => []LettersHold
<1>1. BacklogInit => LettersInv
  BY LettersStarted DEF BacklogInit
<1>2. LettersInv /\ [BacklogNext]_backlogVars => LettersInv'
  <2> SUFFICES ASSUME LettersInv, [BacklogNext]_backlogVars PROVE LettersInv'
    OBVIOUS
  <2>1. [LettersNext]_lettersVars
    BY DEF BacklogNext, OfflineStep, LettersStep, RecurringStep, KeyValueStep, backlogVars
  <2> QED BY <2>1, LettersPreserved
<1>3. LettersInv => LettersHold
  BY LettersImplied DEF LettersHold
<1> QED BY <1>1, <1>2, <1>3, PTL DEF BacklogSpec

-----------------------------------------------------------------------------
(* The recurring schedules: when a schedule was last due, and may be next *)

HashRecords == [state : {"none", "whole", "partial"}, enabled : BOOLEAN, last : {Unset} \cup (0..Horizon),
                next : {Unset} \cup (0..(Horizon + Interval))]
TickRecords == [pc : {"idle", "load", "clear", "fire", "save", "relist"}, now : 0..Horizon,
                ids : Seq(Schedules), left : Nat]
OrderRecords == [does : {"none", "pause", "resume", "delete"}, step : Nat, id : Schedules \cup {NoOrder.id},
                 next : Nat]

TickFits(r) ==
    /\ r.pc = "idle" <=> r.ids = <<>>
    /\ r.pc # "idle" => Interval <= r.now
    /\ \A i, j \in DOMAIN r.ids : r.ids[i] = r.ids[j] => i = j
    /\ r.left <= Horizon \div Interval
    /\ r.pc = "fire" => 1 <= r.left

HashTyped ==
    /\ time \in 0..Horizon /\ policy \in [Schedules -> Policies] /\ crossed \subseteq Schedules
    /\ hash \in [Schedules -> HashRecords] /\ fired \in [Schedules -> Nat]
    /\ \A s \in Schedules : hash[s].last <= time /\ (hash[s].state = "whole" => hash[s].next # Unset)

DueTyped == DOMAIN due \subseteq Schedules /\ \A s \in DOMAIN due : due[s] \in Nat /\ Interval <= due[s]

TickTyped ==
    /\ tick \in [Ticks -> TickRecords]
    /\ \A k \in Ticks : /\ TickFits(tick[k]) /\ tick[k].now <= time
                        /\ tick[k].pc = "clear" => hash[Head(tick[k].ids)].state # "whole"

OrderTyped ==
    /\ order \in [Managers -> OrderRecords]
    /\ \A m \in Managers : order[m].does # "none" =>
          /\ order[m].id \in Schedules /\ order[m].step >= 1
          /\ order[m].does = "resume" /\ order[m].step >= 2 =>
                Interval <= order[m].next /\ order[m].next <= time + Interval

RecurringTyped == HashTyped /\ DueTyped /\ TickTyped /\ OrderTyped

\* Schedules do not run before an interval has passed since this time.
Since(s) == IF hash[s].last = Unset THEN 0 ELSE hash[s].last

\* One tick carries a schedule, or one call is about it.
Alone(s) ==
    /\ \A k, l \in Carrying(s) : k = l
    /\ \A m, n \in Ordering(s) : m = n
    /\ Handling(s) = {} \/ Ordering(s) = {}

\* A schedule that was deleted is no longer due, and nobody is about to make it so.
Broken(s) ==
    hash[s].state # "whole" => /\ s \notin DOMAIN due /\ Handling(s) = {}
                               /\ \A m \in Ordering(s) : order[m].does = "resume" => order[m].step = 1

Ordered(s) ==
    \A m \in Ordering(s) : /\ order[m].does = "pause" /\ order[m].step = 2 => ~ hash[s].enabled
                           /\ order[m].does = "delete" /\ order[m].step = 2 => s \notin DOMAIN due

\* An interval lies between the runs that are counted and the next one.
Spaced(s) ==
    /\ \A k \in Carrying(s) \ Handling(s) : Since(s) + Interval <= tick[k].now
    /\ \A m \in Ordering(s) : order[m].does = "resume" /\ order[m].step >= 2 => Since(s) + Interval <= order[m].next
    /\ Handling(s) = {} => /\ fired[s] * Interval <= Since(s)
                           /\ s \in DOMAIN due => Since(s) + Interval <= due[s]
    /\ \A k \in Handling(s) :
          /\ tick[k].pc = "fire" => (fired[s] + tick[k].left) * Interval <= tick[k].now
          /\ tick[k].pc = "save" => fired[s] * Interval <= tick[k].now
          /\ tick[k].pc = "relist" => fired[s] * Interval <= tick[k].now /\ Since(s) = tick[k].now

Sound(s) ==
    /\ Alone(s) /\ Broken(s) /\ Ordered(s)
    /\ hash[s].state = "whole" => Spaced(s)
    /\ fired[s] * Interval <= time
    /\ hash[s].state = "whole" /\ hash[s].enabled => s \in DOMAIN due \/ Ordering(s) # {}

RecurringInv == RecurringTyped /\ \A s \in Schedules \ crossed : Sound(s)

-----------------------------------------------------------------------------
(* Arithmetic of intervals *)

LEMMA Intervals ==
    /\ Interval \in Nat /\ 1 <= Interval /\ Horizon \in Nat /\ MaxOrders \in Nat
    /\ \A t \in Nat : t \div Interval \in Nat /\ (t \div Interval) * Interval <= t
  BY RecurringAssumption

LEMMA Quotient ==
    ASSUME NEW t \in Nat, NEW n \in Nat, n * Interval <= t
    PROVE  n <= t \div Interval
<1>1. PICK d, r \in Nat : d = t \div Interval /\ d \in Nat /\ t = Interval * d + r /\ r < Interval
  <2>1. /\ t \div Interval \in Nat /\ t % Interval \in Nat /\ t % Interval < Interval
        /\ t = Interval * (t \div Interval) + (t % Interval)
    BY RecurringAssumption
  <2> QED BY <2>1
<1>2. SUFFICES ASSUME d + 1 <= n PROVE FALSE
  BY <1>1
<1>3. (d + 1) * Interval <= n * Interval
  BY <1>1, <1>2, Intervals
<1>4. (d + 1) * Interval = Interval * d + Interval
  BY <1>1, Intervals
<1> QED BY <1>1, <1>3, <1>4, Intervals

LEMMA Products ==
    ASSUME NEW n \in Nat, NEW k \in Nat, NEW i \in Nat
    PROVE  /\ (n + k) * i = n * i + k * i /\ n * i \in Nat /\ k * i \in Nat
           /\ 1 <= k => (n + 1) * i <= (n + k) * i
           /\ 1 <= k => (n + 1) + (k - 1) = n + k
<1>1. (n + k) * i = n * i + k * i /\ n * i \in Nat /\ k * i \in Nat
  OBVIOUS
<1>2. ASSUME 1 <= k PROVE (n + 1) * i <= (n + k) * i
  <2>1. (n + 1) * i = n * i + i
    OBVIOUS
  <2>2. k * i = (k - 1) * i + i /\ (k - 1) * i \in Nat
    BY <1>2
  <2> QED BY <1>1, <2>1, <2>2
<1> QED BY <1>1, <1>2

LEMMA MissedFacts ==
    ASSUME NEW from \in Nat, NEW to \in Nat
    PROVE  /\ Missed(from, to) \in Nat /\ Missed(from, to) * Interval <= to
           /\ from <= to => from + Missed(from, to) * Interval <= to
<1>1. CASE to < from
  BY <1>1, Intervals DEF Missed
<1>2. CASE from <= to
  <2>1. to - from \in Nat /\ Missed(from, to) = (to - from) \div Interval
    BY <1>2 DEF Missed
  <2>2. Missed(from, to) \in Nat /\ Missed(from, to) * Interval <= to - from
    BY <2>1, Intervals
  <2>3. Missed(from, to) * Interval \in Nat
    BY <2>2, Intervals
  <2> QED BY <1>2, <2>2, <2>3
<1> QED BY <1>1, <1>2

\* A tick catches up no more runs than intervals have passed.
LEMMA FireTimesFacts ==
    ASSUME HashTyped, NEW s \in Schedules, hash[s].state = "whole", NEW now \in 0..Horizon, Interval <= now
    PROVE  /\ FireTimes(s, now) \in Nat /\ 1 <= FireTimes(s, now) /\ FireTimes(s, now) <= Horizon \div Interval
           /\ fired[s] * Interval <= Since(s) /\ Since(s) + Interval <= now =>
                 (fired[s] + FireTimes(s, now)) * Interval <= now
<1>1. PICK h : h = hash[s]
  OBVIOUS
<1>2. /\ h.last \in {Unset} \cup (0..Horizon) /\ h.next \in 0..(Horizon + Interval) /\ fired[s] \in Nat
      /\ policy[s] \in Policies
  <2>1. h \in HashRecords /\ h.next # Unset /\ fired[s] \in Nat /\ policy[s] \in Policies
    BY <1>1 DEF HashTyped
  <2> QED BY <2>1 DEF HashRecords
<1>3. PICK from : from = IF h.last # Unset THEN h.last ELSE h.next
  OBVIOUS
<1>4. from \in Nat /\ now \in Nat
  BY <1>2, <1>3, Intervals
<1>5. PICK n : n = Missed(from, now)
  OBVIOUS
<1>6. n \in Nat /\ n * Interval <= now /\ (from <= now => from + n * Interval <= now)
  BY <1>4, <1>5, MissedFacts
<1>7. PICK f : f = FireTimes(s, now)
  OBVIOUS
<1>8. f = 1 \/ (1 < n /\ f = n)
  BY <1>1, <1>3, <1>5, <1>6, <1>7 DEF FireTimes
<1>9. f \in Nat /\ 1 <= f /\ f * Interval <= now
  BY <1>4, <1>6, <1>8, Intervals
<1>10. f * Interval <= Horizon
  BY <1>9, <1>4, Intervals
<1>11. f <= Horizon \div Interval
  BY <1>9, <1>10, Intervals, Quotient
<1>12. ASSUME fired[s] * Interval <= Since(s), Since(s) + Interval <= now
       PROVE  (fired[s] + f) * Interval <= now
  <2>1. (fired[s] + f) * Interval = fired[s] * Interval + f * Interval
    BY <1>2, <1>9, Products, Intervals
  <2>2. Since(s) \in Nat /\ Since(s) = (IF h.last = Unset THEN 0 ELSE h.last)
    <3>1. Since(s) = (IF h.last = Unset THEN 0 ELSE h.last)
      BY <1>1 DEF Since
    <3>2. PICK l : l = h.last
      OBVIOUS
    <3>3. l = Unset \/ l \in Nat
      BY <1>2, <3>2, Intervals
    <3> QED BY <3>1, <3>2, <3>3
  <2>3. fired[s] * Interval \in Nat /\ f * Interval \in Nat
    BY <1>2, <1>9, Intervals
  <2>4. CASE f = 1
    BY <1>4, <1>12, <2>1, <2>2, <2>3, <2>4, Intervals
  <2>5. CASE f = n
    <3>1. CASE h.last # Unset
      <4>1. from = Since(s)
        BY <1>3, <2>2, <3>1
      <4> QED BY <1>4, <1>6, <1>12, <2>1, <2>2, <2>3, <2>5, <4>1, Intervals
    <3>2. CASE h.last = Unset
      <4>1. fired[s] * Interval <= 0
        BY <1>12, <2>2, <3>2
      <4> QED BY <1>4, <1>6, <2>1, <2>3, <2>5, <4>1
    <3> QED BY <3>1, <3>2
  <2> QED BY <1>8, <2>4, <2>5
<1> QED BY <1>7, <1>9, <1>11, <1>12

-----------------------------------------------------------------------------
(* What a step of a tick changes *)

Listing(r) == {r.ids[i] : i \in DOMAIN r.ids}
Acts(r) == r.pc \in {"fire", "save", "relist"}

LEMMA Carriers ==
    \A s, k : /\ k \in Carrying(s) <=> k \in Ticks /\ s \in Listing(tick[k])
              /\ k \in Handling(s) <=> k \in Ticks /\ Acts(tick[k]) /\ Head(tick[k].ids) = s
  BY DEF Carrying, Handling, Listing, Acts

LEMMA Heads ==
    ASSUME TickTyped, NEW k \in Ticks, tick[k].pc # "idle"
    PROVE  /\ Head(tick[k].ids) \in Listing(tick[k]) /\ Head(tick[k].ids) \in Schedules
           /\ tick[k].now \in 0..Horizon /\ Interval <= tick[k].now /\ tick[k].now <= time
           /\ tick[k].left \in Nat /\ tick[k].left <= Horizon \div Interval
<1>1. tick[k] \in TickRecords /\ TickFits(tick[k]) /\ tick[k].now <= time
  BY DEF TickTyped
<1>2. tick[k].ids \in Seq(Schedules) /\ tick[k].ids # <<>>
  BY <1>1 DEF TickRecords, TickFits
<1>3. Head(tick[k].ids) = tick[k].ids[1] /\ 1 \in DOMAIN tick[k].ids /\ Head(tick[k].ids) \in Schedules
  BY <1>2
<1> QED BY <1>1, <1>3 DEF TickRecords, TickFits, Listing

\* A handler of a schedule carries it.
LEMMA HandlersCarry ==
    ASSUME TickTyped, NEW s
    PROVE  Handling(s) \subseteq Carrying(s) /\ Handling(s) \subseteq Ticks /\ Carrying(s) \subseteq Ticks
<1>1. ASSUME NEW k \in Handling(s) PROVE k \in Carrying(s)
  <2>1. k \in Ticks /\ Acts(tick[k]) /\ Head(tick[k].ids) = s
    BY <1>1, Carriers
  <2>2. tick[k].pc # "idle"
    BY <2>1 DEF Acts
  <2> QED BY <2>1, <2>2, Heads, Carriers
<1> QED BY <1>1 DEF Handling, Carrying

LEMMA OneLess == \A n \in Nat : n >= 1 /\ n # 1 => n - 1 >= 1
  OBVIOUS

\* The tick goes on with the schedules after the first.
LEMMA Rests ==
    ASSUME TickTyped, HashTyped, NEW k \in Ticks, tick[k].pc # "idle", NEW T, T = NextOf(k)
    PROVE  \E r \in TickRecords :
              /\ T = [tick EXCEPT ![k] = r] /\ TickFits(r) /\ r.now <= time /\ r.pc \in {"idle", "load"}
              /\ Listing(r) = Listing(tick[k]) \ {Head(tick[k].ids)}
              /\ r.pc = "load" => r.now = tick[k].now
<1>1. PICK t \in TickRecords : t = tick[k] /\ TickFits(t) /\ t.now <= time /\ t.pc # "idle"
  BY DEF TickTyped
<1>2. t.ids \in Seq(Schedules) /\ t.ids # <<>> /\ \A i, j \in DOMAIN t.ids : t.ids[i] = t.ids[j] => i = j
  BY <1>1 DEF TickRecords, TickFits
<1>3. /\ Interval <= t.now /\ t.now \in 0..Horizon /\ t.left \in Nat /\ t.left <= Horizon \div Interval
  BY <1>1 DEF TickRecords, TickFits
<1>4. PICK n \in Nat : n = Len(t.ids) /\ n >= 1 /\ DOMAIN t.ids = 1..n
  BY <1>2
<1>5. Head(t.ids) = t.ids[1]
  BY <1>2
<1>6. CASE n = 1
  <2>1. Idle \in TickRecords /\ Idle.pc = "idle" /\ Idle.ids = <<>> /\ Idle.left = 0 /\ Idle.now = 0
    BY Intervals DEF Idle, TickRecords
  <2>2. TickFits(Idle) /\ Idle.now <= time
    <3>1. 0 <= Horizon \div Interval /\ 0 <= time
      BY Intervals DEF HashTyped
    <3>2. DOMAIN Idle.ids = {}
      BY <2>1
    <3> QED BY <2>1, <3>1, <3>2 DEF TickFits
  <2>3. Listing(Idle) = {} /\ Listing(t) \ {Head(t.ids)} = {}
    <3>1. Listing(t) = {t.ids[1]}
      <4>1. DOMAIN t.ids = {1}
        BY <1>4, <1>6
      <4> QED BY <4>1 DEF Listing
    <3>2. DOMAIN Idle.ids = {}
      BY <2>1
    <3> QED BY <1>5, <3>1, <3>2 DEF Listing
  <2>4. T = [tick EXCEPT ![k] = Idle]
    BY <1>1, <1>4, <1>6 DEF NextOf
  <2> QED BY <1>1, <2>1, <2>2, <2>3, <2>4
<1>7. CASE n # 1
  <2>1. PICK q : q = Tail(t.ids)
    OBVIOUS
  <2>2. q \in Seq(Schedules) /\ Len(q) = n - 1 /\ q # <<>> /\ DOMAIN q = 1..(n - 1)
    <3>1. q \in Seq(Schedules) /\ Len(q) = n - 1
      BY <1>2, <1>4, <2>1
    <3>2. n - 1 >= 1
      BY <1>4, <1>7, OneLess
    <3> QED BY <3>1, <3>2
  <2>3. \A i \in 1..(n - 1) : q[i] = t.ids[i + 1]
    BY <1>2, <1>4, <2>1
  <2>4. PICK r : r = [t EXCEPT !.pc = "load", !.ids = q]
    OBVIOUS
  <2>5. r \in TickRecords
    <3>1. "load" \in {"idle", "load", "clear", "fire", "save", "relist"}
      OBVIOUS
    <3> QED BY <2>2, <2>4, <3>1 DEF TickRecords
  <2>6. r.pc = "load" /\ r.ids = q /\ r.now = t.now /\ r.left = t.left
    BY <1>1, <2>4 DEF TickRecords
  <2>7. \A i, j \in DOMAIN q : q[i] = q[j] => i = j
    <3> SUFFICES ASSUME NEW i \in 1..(n - 1), NEW j \in 1..(n - 1), q[i] = q[j] PROVE i = j
      BY <2>2
    <3>1. i + 1 \in DOMAIN t.ids /\ j + 1 \in DOMAIN t.ids
      BY <1>4
    <3>2. i + 1 = j + 1
      BY <1>2, <2>3, <3>1
    <3> QED BY <3>2
  <2>8. TickFits(r)
    BY <1>3, <2>2, <2>6, <2>7 DEF TickFits
  <2>9. Listing(r) = Listing(t) \ {Head(t.ids)}
    <3>1. ASSUME NEW x \in Listing(r) PROVE x \in Listing(t) /\ x # t.ids[1]
      <4>1. PICK i \in 1..(n - 1) : x = q[i]
        BY <2>2, <2>6, <3>1 DEF Listing
      <4>2. i + 1 \in DOMAIN t.ids /\ 1 \in DOMAIN t.ids /\ x = t.ids[i + 1] /\ i + 1 # 1
        BY <1>4, <2>3, <4>1
      <4> QED BY <1>2, <4>2 DEF Listing
    <3>2. ASSUME NEW x \in Listing(t), x # t.ids[1] PROVE x \in Listing(r)
      <4>1. PICK i \in 1..n : x = t.ids[i]
        BY <1>4, <3>2 DEF Listing
      <4>2. i # 1
        BY <3>2, <4>1
      <4>3. i - 1 \in 1..(n - 1) /\ (i - 1) + 1 = i
        BY <1>4, <4>2
      <4>4. q[i - 1] = x
        BY <2>3, <4>1, <4>3
      <4> QED BY <2>2, <2>6, <4>3, <4>4 DEF Listing
    <3> QED BY <1>5, <3>1, <3>2
  <2>10. T = [tick EXCEPT ![k] = r]
    <3>1. Len(tick[k].ids) # 1
      BY <1>1, <1>4, <1>7
    <3> QED BY <1>1, <2>1, <2>4, <3>1 DEF NextOf, TickTyped
  <2> QED BY <1>1, <2>5, <2>6, <2>8, <2>9, <2>10
<1> QED BY <1>6, <1>7

\* A tick moves: who carries and handles a schedule after it.
LEMMA TickMoves ==
    ASSUME TickTyped, NEW k \in Ticks, NEW r \in TickRecords, tick' = [tick EXCEPT ![k] = r]
    PROVE  tick' \in [Ticks -> TickRecords] /\ tick'[k] = r /\ \A j \in Ticks \ {k} : tick'[j] = tick[j]
  BY DEF TickTyped

LEMMA TickCarriers ==
    ASSUME TickTyped, NEW k \in Ticks, NEW r \in TickRecords, tick' = [tick EXCEPT ![k] = r], NEW s
    PROVE  /\ Carrying(s)' = (Carrying(s) \ {k}) \cup (IF s \in Listing(r) THEN {k} ELSE {})
           /\ Handling(s)' = (Handling(s) \ {k}) \cup (IF Acts(r) /\ Head(r.ids) = s THEN {k} ELSE {})
<1>1. tick' \in [Ticks -> TickRecords] /\ tick'[k] = r /\ \A j \in Ticks \ {k} : tick'[j] = tick[j]
  BY TickMoves
<1>2. Carrying(s)' = (Carrying(s) \ {k}) \cup (IF s \in Listing(r) THEN {k} ELSE {})
  <2>1. \A j \in Ticks \ {k} : (\E i \in DOMAIN tick'[j].ids : tick'[j].ids[i] = s) <=> (\E i \in DOMAIN tick[j].ids : tick[j].ids[i] = s)
    BY <1>1
  <2>2. (\E i \in DOMAIN tick'[k].ids : tick'[k].ids[i] = s) <=> s \in Listing(r)
    BY <1>1 DEF Listing
  <2> QED BY <2>1, <2>2 DEF Carrying
<1>3. Handling(s)' = (Handling(s) \ {k}) \cup (IF Acts(r) /\ Head(r.ids) = s THEN {k} ELSE {})
  BY <1>1 DEF Handling, Acts
<1> QED BY <1>2, <1>3

LEMMA TickStaysTyped ==
    ASSUME TickTyped, HashTyped, HashTyped', time <= time',
           \A s \in Schedules : hash[s].state # "whole" => hash'[s].state # "whole",
           \/ UNCHANGED tick
           \/ \E k \in Ticks, r \in TickRecords :
                 /\ tick' = [tick EXCEPT ![k] = r] /\ TickFits(r) /\ r.now <= time
                 /\ r.pc = "clear" => r.ids # <<>> /\ hash'[Head(r.ids)].state # "whole"
    PROVE  TickTyped'
<1>1. time \in Nat /\ time' \in Nat
  BY Intervals DEF HashTyped
<1>2. ASSUME NEW j \in Ticks, tick'[j] = tick[j]
      PROVE  TickFits(tick'[j]) /\ tick'[j].now <= time' /\ (tick'[j].pc = "clear" => hash'[Head(tick'[j].ids)].state # "whole")
  <2>1. TickFits(tick[j]) /\ tick[j].now <= time /\ (tick[j].pc = "clear" => hash[Head(tick[j].ids)].state # "whole")
    BY DEF TickTyped
  <2>2. tick[j].now \in Nat
    BY Intervals DEF TickTyped, TickRecords
  <2>3. tick[j].pc = "clear" => Head(tick[j].ids) \in Schedules
    BY Heads
  <2> QED BY <1>1, <1>2, <2>1, <2>2, <2>3
<1>3. CASE UNCHANGED tick
  BY <1>2, <1>3 DEF TickTyped
<1>4. CASE \E k \in Ticks, r \in TickRecords :
                 /\ tick' = [tick EXCEPT ![k] = r] /\ TickFits(r) /\ r.now <= time
                 /\ r.pc = "clear" => r.ids # <<>> /\ hash'[Head(r.ids)].state # "whole"
  <2>1. PICK k \in Ticks, r \in TickRecords :
                 /\ tick' = [tick EXCEPT ![k] = r] /\ TickFits(r) /\ r.now <= time
                 /\ r.pc = "clear" => r.ids # <<>> /\ hash'[Head(r.ids)].state # "whole"
    BY <1>4
  <2>2. tick' \in [Ticks -> TickRecords] /\ tick'[k] = r /\ \A j \in Ticks \ {k} : tick'[j] = tick[j]
    BY <2>1, TickMoves
  <2>3. r.now \in Nat /\ r.now <= time'
    BY <1>1, <2>1, Intervals DEF TickRecords
  <2> QED BY <1>2, <2>1, <2>2, <2>3 DEF TickTyped
<1> QED BY <1>3, <1>4

\* A call goes on: which calls are about a schedule after it.
LEMMA OrderMoves ==
    ASSUME OrderTyped, NEW m \in Managers, NEW r \in OrderRecords, order' = [order EXCEPT ![m] = r]
    PROVE  order' \in [Managers -> OrderRecords] /\ order'[m] = r /\ \A n \in Managers \ {m} : order'[n] = order[n]
  BY DEF OrderTyped

LEMMA OrderAbout ==
    ASSUME OrderTyped, NEW m \in Managers, NEW r \in OrderRecords, order' = [order EXCEPT ![m] = r], NEW s
    PROVE  Ordering(s)' = (Ordering(s) \ {m}) \cup (IF r.does # "none" /\ r.id = s THEN {m} ELSE {})
<1>1. order' \in [Managers -> OrderRecords] /\ order'[m] = r /\ \A n \in Managers \ {m} : order'[n] = order[n]
  BY OrderMoves
<1> QED BY <1>1 DEF Ordering

LEMMA Later ==
    ASSUME NEW a \in Nat, NEW b \in Nat, a <= b
    PROVE  \A n \in Nat : n <= a + Interval => n <= b + Interval
  BY Intervals

LEMMA OrderStaysTyped ==
    ASSUME OrderTyped, HashTyped, HashTyped', time <= time',
           \/ UNCHANGED order
           \/ \E m \in Managers, r \in OrderRecords :
                 /\ order' = [order EXCEPT ![m] = r]
                 /\ r.does # "none" => r.id \in Schedules /\ r.step >= 1
                 /\ r.does = "resume" /\ r.step >= 2 => Interval <= r.next /\ r.next <= time + Interval
    PROVE  OrderTyped'
<1>1. time \in Nat /\ time' \in Nat /\ Interval \in Nat
  BY Intervals DEF HashTyped
<1>2. \A n \in Nat : n <= time + Interval => n <= time' + Interval
  BY <1>1, Later
<1>3. \A n \in Managers : order[n] \in OrderRecords /\ order[n].next \in Nat
  BY DEF OrderTyped, OrderRecords
<1>4. CASE UNCHANGED order
  BY <1>2, <1>3, <1>4 DEF OrderTyped
<1>5. CASE \E m \in Managers, r \in OrderRecords :
                 /\ order' = [order EXCEPT ![m] = r]
                 /\ r.does # "none" => r.id \in Schedules /\ r.step >= 1
                 /\ r.does = "resume" /\ r.step >= 2 => Interval <= r.next /\ r.next <= time + Interval
  <2>1. PICK m \in Managers, r \in OrderRecords :
                 /\ order' = [order EXCEPT ![m] = r]
                 /\ r.does # "none" => r.id \in Schedules /\ r.step >= 1
                 /\ r.does = "resume" /\ r.step >= 2 => Interval <= r.next /\ r.next <= time + Interval
    BY <1>5
  <2>2. order' \in [Managers -> OrderRecords] /\ order'[m] = r /\ \A n \in Managers \ {m} : order'[n] = order[n]
    BY <2>1, OrderMoves
  <2>3. r.next \in Nat
    BY <2>1 DEF OrderRecords
  <2> QED BY <1>2, <1>3, <2>1, <2>2, <2>3 DEF OrderTyped
<1> QED BY <1>4, <1>5

-----------------------------------------------------------------------------
(* Schedules that a step is not about *)

LEMMA Bystander ==
    ASSUME HashTyped, time' \in Nat, time <= time', NEW s \in Schedules, Sound(s),
           hash'[s] = hash[s], fired'[s] = fired[s],
           s \in DOMAIN due' <=> s \in DOMAIN due, s \in DOMAIN due => due'[s] = due[s],
           Carrying(s)' \subseteq Carrying(s), Handling(s)' = Handling(s), Handling(s) \subseteq Carrying(s)',
           \A k \in Carrying(s)' : tick'[k].now = tick[k].now,
           \A k \in Handling(s) : tick'[k].pc = tick[k].pc /\ tick'[k].left = tick[k].left,
           Ordering(s)' = Ordering(s), \A m \in Ordering(s) : order'[m] = order[m]
    PROVE  Sound(s)'
<1>1. Since(s)' = Since(s)
  BY DEF Since
<1>2. Alone(s)'
  BY DEF Sound, Alone
<1>3. Broken(s)'
  BY DEF Sound, Broken
<1>4. Ordered(s)'
  BY DEF Sound, Ordered
<1>5. ASSUME hash[s].state = "whole" PROVE Spaced(s)'
  <2>1. Spaced(s)
    BY <1>5 DEF Sound
  <2>2. \A k \in Carrying(s)' \ Handling(s)' : Since(s)' + Interval <= tick'[k].now
    BY <1>1, <2>1 DEF Spaced
  <2>3. \A m \in Ordering(s)' : order'[m].does = "resume" /\ order'[m].step >= 2 => Since(s)' + Interval <= order'[m].next
    BY <1>1, <2>1 DEF Spaced
  <2>4. Handling(s)' = {} => /\ fired'[s] * Interval <= Since(s)'
                             /\ s \in DOMAIN due' => Since(s)' + Interval <= due'[s]
    BY <1>1, <2>1 DEF Spaced
  <2>5. \A k \in Handling(s)' :
          /\ tick'[k].pc = "fire" => (fired'[s] + tick'[k].left) * Interval <= tick'[k].now
          /\ tick'[k].pc = "save" => fired'[s] * Interval <= tick'[k].now
          /\ tick'[k].pc = "relist" => fired'[s] * Interval <= tick'[k].now /\ Since(s)' = tick'[k].now
    BY <1>1, <2>1 DEF Spaced
  <2> QED BY <2>2, <2>3, <2>4, <2>5 DEF Spaced
<1>6. fired'[s] * Interval <= time'
  <2>1. PICK n, t, u \in Nat : n = fired[s] * Interval /\ t = time /\ u = time' /\ n <= t /\ t <= u
    <3>1. fired[s] * Interval \in Nat /\ time \in Nat /\ fired[s] * Interval <= time
      BY Intervals DEF HashTyped, Sound
    <3> QED BY <3>1
  <2>2. n <= u
    BY <2>1
  <2> QED BY <2>1, <2>2
<1>7. hash'[s].state = "whole" /\ hash'[s].enabled => s \in DOMAIN due' \/ Ordering(s)' # {}
  BY DEF Sound
<1> QED BY <1>2, <1>3, <1>4, <1>5, <1>6, <1>7 DEF Sound

\* A step of a tick with another schedule than s.
LEMMA TickBystander ==
    ASSUME HashTyped, TickTyped, NEW k \in Ticks, NEW r \in TickRecords, tick' = [tick EXCEPT ![k] = r],
           Listing(r) \subseteq Listing(tick[k]), r.pc # "idle" => r.now = tick[k].now,
           r.pc = "idle" <=> r.ids = <<>>,
           UNCHANGED <<time, order>>, NEW s \in Schedules, Sound(s),
           hash'[s] = hash[s], fired'[s] = fired[s],
           s \in DOMAIN due' <=> s \in DOMAIN due, s \in DOMAIN due => due'[s] = due[s],
           ~ (Acts(tick[k]) /\ Head(tick[k].ids) = s), ~ (Acts(r) /\ Head(r.ids) = s)
    PROVE  Sound(s)'
<1>1. /\ tick'[k] = r /\ \A j \in Ticks \ {k} : tick'[j] = tick[j]
      /\ Carrying(s)' = (Carrying(s) \ {k}) \cup (IF s \in Listing(r) THEN {k} ELSE {})
      /\ Handling(s)' = (Handling(s) \ {k}) \cup (IF Acts(r) /\ Head(r.ids) = s THEN {k} ELSE {})
  <2>1. tick'[k] = r /\ \A j \in Ticks \ {k} : tick'[j] = tick[j]
    BY TickMoves
  <2>2. \A j \in Ticks \ {k} : (\E i \in DOMAIN tick'[j].ids : tick'[j].ids[i] = s) <=> (\E i \in DOMAIN tick[j].ids : tick[j].ids[i] = s)
    BY <2>1
  <2>3. (\E i \in DOMAIN tick'[k].ids : tick'[k].ids[i] = s) <=> s \in Listing(r)
    BY <2>1 DEF Listing
  <2>4. Carrying(s)' = (Carrying(s) \ {k}) \cup (IF s \in Listing(r) THEN {k} ELSE {})
    BY <2>2, <2>3 DEF Carrying
  <2>5. Handling(s)' = (Handling(s) \ {k}) \cup (IF Acts(r) /\ Head(r.ids) = s THEN {k} ELSE {})
    BY <2>1 DEF Handling, Acts
  <2> QED BY <2>1, <2>4, <2>5
<1>2. k \notin Handling(s) /\ Handling(s) \subseteq Carrying(s) /\ Carrying(s) \subseteq Ticks
  <2>1. k \in Handling(s) <=> k \in Ticks /\ Acts(tick[k]) /\ Head(tick[k].ids) = s
    BY Carriers
  <2>2. Handling(s) \subseteq Carrying(s) /\ Carrying(s) \subseteq Ticks
    BY HandlersCarry
  <2> QED BY <2>1, <2>2
<1>3. s \in Listing(r) => k \in Carrying(s) /\ r.pc # "idle"
  <2>1. s \in Listing(r) => DOMAIN r.ids # {}
    BY DEF Listing
  <2> QED BY <2>1, Carriers
<1>4. /\ Carrying(s)' \subseteq Carrying(s) /\ Handling(s)' = Handling(s) /\ Handling(s) \subseteq Carrying(s)'
      /\ \A j \in Carrying(s)' : tick'[j].now = tick[j].now
      /\ \A j \in Handling(s) : tick'[j].pc = tick[j].pc /\ tick'[j].left = tick[j].left
  BY <1>1, <1>2, <1>3
<1>5. Ordering(s)' = Ordering(s) /\ \A m \in Ordering(s) : order'[m] = order[m]
  BY DEF Ordering
<1>6. time' \in Nat /\ time <= time'
  BY Intervals DEF HashTyped
<1> QED BY <1>4, <1>5, <1>6, Bystander

\* A step of a call about another schedule than s.
LEMMA OrderBystander ==
    ASSUME HashTyped, TickTyped, OrderTyped, NEW m \in Managers, NEW r \in OrderRecords,
           order' = [order EXCEPT ![m] = r],
           UNCHANGED <<time, tick>>, NEW s \in Schedules, Sound(s),
           hash'[s] = hash[s], fired'[s] = fired[s],
           s \in DOMAIN due' <=> s \in DOMAIN due, s \in DOMAIN due => due'[s] = due[s],
           m \notin Ordering(s), ~ (r.does # "none" /\ r.id = s)
    PROVE  Sound(s)'
<1>1. /\ \A n \in Managers \ {m} : order'[n] = order[n]
      /\ Ordering(s)' = (Ordering(s) \ {m}) \cup (IF r.does # "none" /\ r.id = s THEN {m} ELSE {})
  <2>1. order'[m] = r /\ \A n \in Managers \ {m} : order'[n] = order[n]
    BY OrderMoves
  <2>2. Ordering(s)' = (Ordering(s) \ {m}) \cup (IF r.does # "none" /\ r.id = s THEN {m} ELSE {})
    BY <2>1 DEF Ordering
  <2> QED BY <2>1, <2>2
<1>2. Ordering(s)' = Ordering(s) /\ \A n \in Ordering(s) : order'[n] = order[n]
  BY <1>1 DEF Ordering
<1>3. /\ Carrying(s)' \subseteq Carrying(s) /\ Handling(s)' = Handling(s) /\ Handling(s) \subseteq Carrying(s)'
      /\ \A j \in Carrying(s)' : tick'[j].now = tick[j].now
      /\ \A j \in Handling(s) : tick'[j].pc = tick[j].pc /\ tick'[j].left = tick[j].left
  <2>1. Carrying(s)' = Carrying(s) /\ Handling(s)' = Handling(s)
    BY DEF Carrying, Handling
  <2> QED BY <2>1, HandlersCarry
<1>4. time' \in Nat /\ time <= time'
  BY Intervals DEF HashTyped
<1> QED BY <1>2, <1>3, <1>4, Bystander

\* The one tick that handles a schedule, or the one call about it.
LEMMA Handler ==
    ASSUME TickTyped, NEW k \in Ticks, Acts(tick[k]), NEW s, s = Head(tick[k].ids), Sound(s)
    PROVE  /\ Handling(s) = {k} /\ Carrying(s) = {k} /\ Ordering(s) = {}
           /\ hash[s].state = "whole" /\ Spaced(s)
<1>1. k \in Handling(s) /\ Handling(s) \subseteq Carrying(s)
  BY Carriers, HandlersCarry
<1>2. Handling(s) = {k} /\ Carrying(s) = {k} /\ Ordering(s) = {}
  BY <1>1 DEF Sound, Alone
<1>3. hash[s].state = "whole"
  BY <1>1 DEF Sound, Broken
<1> QED BY <1>2, <1>3 DEF Sound

LEMMA Caller ==
    ASSUME NEW m \in Managers, order[m].does # "none", NEW s, s = order[m].id, Sound(s)
    PROVE  /\ Ordering(s) = {m} /\ Handling(s) = {}
           /\ hash[s].state = "whole" => Spaced(s)
<1>1. m \in Ordering(s)
  BY DEF Ordering
<1> QED BY <1>1 DEF Sound, Alone

-----------------------------------------------------------------------------
(* The steps of a tick *)

LEMMA ByScoreFacts ==
    ASSUME NEW S \in SUBSET Schedules, S # {}, NEW q \in ByScore(S)
    PROVE  /\ q \in Seq(Schedules) /\ q # <<>> /\ {q[i] : i \in DOMAIN q} = S
           /\ \A i, j \in DOMAIN q : q[i] = q[j] => i = j
<1>1. IsFiniteSet(S)
  BY RecurringAssumption, FS_Subset
<1>2. PICK c \in Nat : c = Cardinality(S)
  BY <1>1, FS_CardinalityType
<1>3. q \in [1..c -> S] /\ \A s \in S : \E i \in DOMAIN q : q[i] = s
  BY <1>2 DEF ByScore
<1>4. q \in Surjection(1..c, S)
  BY <1>3 DEF Surjection
<1>5. IsFiniteSet(1..c) /\ Cardinality(1..c) = c
  BY FS_Interval
<1>6. q \in Injection(1..c, S)
  BY <1>2, <1>4, <1>5, FS_Surjection
<1>7. c # 0
  BY <1>3
<1>8. q \in Seq(Schedules) /\ DOMAIN q = 1..c
  BY <1>3
<1>9. {q[i] : i \in DOMAIN q} = S
  BY <1>3
<1>10. \A i, j \in DOMAIN q : q[i] = q[j] => i = j
  <2>1. \A i, j \in 1..c : q[i] = q[j] => i = j
    BY <1>6 DEF Injection, IsInjective
  <2> QED BY <1>8, <2>1
<1>11. q # <<>>
  BY <1>7, <1>8
<1> QED BY <1>8, <1>9, <1>10, <1>11

LEMMA StartTickKeeps ==
    ASSUME RecurringInv, NEW k \in Ticks, StartTick(k)
    PROVE  RecurringInv'
<1>1. PICK ripe : ripe = {s \in DOMAIN due : due[s] <= time}
  OBVIOUS
<1>2. PICK q \in ByScore(ripe) : tick' = [tick EXCEPT ![k] = [pc |-> "load", now |-> time, ids |-> q, left |-> 0]]
  BY <1>1 DEF StartTick
<1>3. /\ HashTyped /\ DueTyped /\ TickTyped /\ OrderTyped /\ \A s \in Schedules \ crossed : Sound(s)
      /\ tick[k].pc = "idle" /\ ripe # {} /\ crossed' = crossed \cup {s \in ripe : Carrying(s) # {}}
      /\ UNCHANGED <<time, policy, hash, due, order, fired, orders>>
  BY <1>1 DEF StartTick, RecurringInv, RecurringTyped
<1>4. ripe \in SUBSET Schedules
  BY <1>1, <1>3 DEF DueTyped
<1>5. /\ q \in Seq(Schedules) /\ q # <<>> /\ {q[i] : i \in DOMAIN q} = ripe
      /\ \A i, j \in DOMAIN q : q[i] = q[j] => i = j
  BY <1>2, <1>3, <1>4, ByScoreFacts
<1>6. time \in 0..Horizon /\ time \in Nat /\ Interval <= time
  <2>1. time \in 0..Horizon /\ time \in Nat
    BY <1>3, Intervals DEF HashTyped
  <2>2. PICK s \in ripe : due[s] \in Nat /\ Interval <= due[s] /\ due[s] <= time
    BY <1>1, <1>3 DEF DueTyped
  <2> QED BY <2>1, <2>2, Intervals
<1>7. PICK r : r = [pc |-> "load", now |-> time, ids |-> q, left |-> 0]
  OBVIOUS
<1>8. r \in TickRecords /\ r.pc = "load" /\ r.now = time /\ r.ids = q /\ r.left = 0
  BY <1>5, <1>6, <1>7 DEF TickRecords
<1>9. TickFits(r) /\ Listing(r) = ripe /\ ~ Acts(r)
  <2>1. Listing(r) = ripe /\ ~ Acts(r)
    BY <1>5, <1>8 DEF Listing, Acts
  <2>2. r.left <= Horizon \div Interval
    BY <1>8, Intervals
  <2> QED BY <1>5, <1>6, <1>8, <2>1, <2>2 DEF TickFits
<1>10. tick' = [tick EXCEPT ![k] = r]
  BY <1>2, <1>7
<1>11. tick'[k] = r /\ \A j \in Ticks \ {k} : tick'[j] = tick[j]
  BY <1>3, <1>8, <1>10, TickMoves
<1>12. RecurringTyped'
  <2>1. HashTyped' /\ DueTyped'
    BY <1>3, <1>4 DEF HashTyped, DueTyped
  <2>2. OrderTyped'
    BY <1>3 DEF OrderTyped
  <2>3. TickTyped'
    <3>1. r.now <= time /\ r.pc # "clear" /\ time <= time'
      BY <1>3, <1>6, <1>8
    <3>2. \A s \in Schedules : hash[s].state # "whole" => hash'[s].state # "whole"
      BY <1>3
    <3> QED BY <1>3, <1>8, <1>9, <1>10, <2>1, <3>1, <3>2, TickStaysTyped
  <2> QED BY <2>1, <2>2, <2>3 DEF RecurringTyped
<1>13. ASSUME NEW s \in Schedules \ crossed' PROVE Sound(s)'
  <2>1. Sound(s) /\ (s \in ripe => Carrying(s) = {})
    BY <1>3
  <2>2. /\ Carrying(s)' = (Carrying(s) \ {k}) \cup (IF s \in Listing(r) THEN {k} ELSE {})
        /\ Handling(s)' = (Handling(s) \ {k}) \cup (IF Acts(r) /\ Head(r.ids) = s THEN {k} ELSE {})
    BY <1>3, <1>8, <1>10, TickCarriers
  <2>3. k \notin Carrying(s) /\ k \notin Handling(s) /\ Handling(s) \subseteq Carrying(s) /\ Carrying(s) \subseteq Ticks
    <3>1. tick[k].ids = <<>>
      BY <1>3 DEF TickTyped, TickFits
    <3>2. Listing(tick[k]) = {}
      BY <3>1 DEF Listing
    <3> QED BY <1>3, <3>2, Carriers, HandlersCarry
  <2>4. Ordering(s)' = Ordering(s)
    BY <1>3 DEF Ordering
  <2>5. CASE s \notin ripe
    <3>1. /\ Carrying(s)' \subseteq Carrying(s) /\ Handling(s)' = Handling(s) /\ Handling(s) \subseteq Carrying(s)'
          /\ \A j \in Carrying(s)' : tick'[j].now = tick[j].now
          /\ \A j \in Handling(s) : tick'[j].pc = tick[j].pc /\ tick'[j].left = tick[j].left
      BY <1>9, <1>11, <2>2, <2>3, <2>5
    <3>2. time' \in Nat /\ time <= time' /\ hash'[s] = hash[s] /\ fired'[s] = fired[s] /\ due' = due
          /\ \A m \in Ordering(s) : order'[m] = order[m]
      BY <1>3, <1>6
    <3> QED BY <1>3, <2>1, <2>4, <3>1, <3>2, Bystander
  <2>6. CASE s \in ripe
    <3>1. Carrying(s)' = {k} /\ Handling(s)' = {} /\ Handling(s) = {} /\ s \in DOMAIN due /\ due[s] <= time
      BY <1>1, <1>9, <2>1, <2>2, <2>3, <2>6
    <3>2. hash[s].state = "whole" /\ Spaced(s)
      BY <2>1, <3>1 DEF Sound, Broken
    <3>3. Since(s) + Interval <= time
      <4>1. Since(s) + Interval <= due[s]
        BY <3>1, <3>2 DEF Spaced
      <4>2. Since(s) \in Nat /\ due[s] \in Nat
        <5>1. hash[s] \in HashRecords
          BY <1>3 DEF HashTyped
        <5>2. hash[s].last \in {Unset} \cup (0..Horizon)
          BY <5>1 DEF HashRecords
        <5> QED BY <1>3, <3>1, <5>2, Intervals DEF DueTyped, Since
      <4> QED BY <1>6, <3>1, <4>1, <4>2, Intervals
    <3>4. Since(s)' = Since(s) /\ due' = due /\ fired' = fired /\ hash' = hash /\ order' = order /\ time' = time
      BY <1>3 DEF Since
    <3>5. Alone(s)'
      BY <2>1, <2>4, <3>1 DEF Alone, Sound
    <3>6. Broken(s)' /\ Ordered(s)'
      BY <2>1, <2>4, <3>1, <3>4 DEF Broken, Ordered, Sound
    <3>7. Spaced(s)'
      BY <1>8, <1>11, <2>4, <3>1, <3>2, <3>3, <3>4 DEF Spaced
    <3>8. fired'[s] * Interval <= time' /\ (hash'[s].state = "whole" /\ hash'[s].enabled => s \in DOMAIN due' \/ Ordering(s)' # {})
      BY <2>1, <3>1, <3>4 DEF Sound
    <3> QED BY <3>5, <3>6, <3>7, <3>8 DEF Sound
  <2> QED BY <2>5, <2>6
<1> QED BY <1>12, <1>13 DEF RecurringInv

\* The tick passes a schedule by.
LEMMA PassKeeps ==
    ASSUME RecurringInv, NEW k \in Ticks, ~ Acts(tick[k]), tick[k].pc # "idle", NEW r \in TickRecords,
           tick' = [tick EXCEPT ![k] = r], TickFits(r), r.now <= time, ~ Acts(r),
           Listing(r) \subseteq Listing(tick[k]), r.pc # "idle" => r.now = tick[k].now,
           r.pc = "clear" => hash[Head(r.ids)].state # "whole",
           UNCHANGED <<time, policy, hash, fired, order, crossed>>,
           DueTyped', \A s \in Schedules : hash[s].state = "whole" =>
                          (s \in DOMAIN due' <=> s \in DOMAIN due) /\ (s \in DOMAIN due => due'[s] = due[s]),
           DOMAIN due' \subseteq DOMAIN due
    PROVE  RecurringInv'
<1>1. HashTyped /\ DueTyped /\ TickTyped /\ OrderTyped /\ \A s \in Schedules \ crossed : Sound(s)
  BY DEF RecurringInv, RecurringTyped
<1>2. r.pc = "idle" <=> r.ids = <<>>
  BY DEF TickFits
<1>3. RecurringTyped'
  <2>1. HashTyped' /\ OrderTyped'
    BY <1>1 DEF HashTyped, OrderTyped
  <2>2. TickTyped'
    <3>1. time <= time' /\ (r.pc = "clear" => r.ids # <<>> /\ hash'[Head(r.ids)].state # "whole")
      BY <1>1, <1>2, Intervals DEF HashTyped
    <3>2. \A s \in Schedules : hash[s].state # "whole" => hash'[s].state # "whole"
      OBVIOUS
    <3> QED BY <1>1, <2>1, <3>1, <3>2, TickStaysTyped
  <2> QED BY <2>1, <2>2 DEF RecurringTyped
<1>4. ASSUME NEW s \in Schedules \ crossed' PROVE Sound(s)'
  <2>1. Sound(s)
    BY <1>1
  <2>2. CASE s \in DOMAIN due' <=> s \in DOMAIN due
    <3>1. s \in DOMAIN due => due'[s] = due[s]
      BY <2>1, <2>2 DEF Sound, Broken
    <3> QED BY <1>1, <1>2, <2>1, <2>2, <3>1, TickBystander
  <2>3. CASE s \in DOMAIN due /\ s \notin DOMAIN due'
    BY <2>1, <2>3 DEF Sound, Broken
  <2> QED BY <2>2, <2>3
<1> QED BY <1>3, <1>4 DEF RecurringInv

LEMMA ClearKeeps ==
    ASSUME RecurringInv, NEW k \in Ticks, Clear(k)
    PROVE  RecurringInv'
<1>1. PICK h : h = Head(tick[k].ids)
  OBVIOUS
<1>2. /\ HashTyped /\ DueTyped /\ TickTyped /\ tick[k].pc = "clear" /\ tick' = NextOf(k)
      /\ due' = [x \in DOMAIN due \ {h} |-> due[x]]
      /\ UNCHANGED <<time, policy, hash, order, fired, orders, crossed>>
  BY <1>1 DEF Clear, UnlistedNow, RecurringInv, RecurringTyped
<1>3. PICK r \in TickRecords :
              /\ tick' = [tick EXCEPT ![k] = r] /\ TickFits(r) /\ r.now <= time /\ r.pc \in {"idle", "load"}
              /\ Listing(r) = Listing(tick[k]) \ {Head(tick[k].ids)}
              /\ r.pc = "load" => r.now = tick[k].now
  <2>1. tick[k].pc # "idle"
    BY <1>2
  <2>2. PICK T : T = tick'
    OBVIOUS
  <2>3. \E r \in TickRecords :
              /\ T = [tick EXCEPT ![k] = r] /\ TickFits(r) /\ r.now <= time /\ r.pc \in {"idle", "load"}
              /\ Listing(r) = Listing(tick[k]) \ {Head(tick[k].ids)}
              /\ r.pc = "load" => r.now = tick[k].now
    <3>1. T = NextOf(k) /\ TickTyped /\ HashTyped
      BY <1>2, <2>2
    <3> QED BY <2>1, <3>1, Rests
  <2> QED BY <2>2, <2>3
<1>4. hash[h].state # "whole"
  BY <1>1, <1>2 DEF TickTyped
<1>5. DueTyped'
  BY <1>2 DEF DueTyped
<1>6. \A s \in Schedules : hash[s].state = "whole" =>
          (s \in DOMAIN due' <=> s \in DOMAIN due) /\ (s \in DOMAIN due => due'[s] = due[s])
  BY <1>2, <1>4
<1>7. ~ Acts(tick[k]) /\ ~ Acts(r) /\ tick[k].pc # "idle" /\ r.pc # "clear" /\ (r.pc # "idle" => r.now = tick[k].now)
      /\ Listing(r) \subseteq Listing(tick[k]) /\ DOMAIN due' \subseteq DOMAIN due
  BY <1>2, <1>3 DEF Acts
<1> QED BY <1>2, <1>3, <1>5, <1>6, <1>7, PassKeeps

LEMMA LoadHashKeeps ==
    ASSUME RecurringInv, NEW k \in Ticks, LoadHash(k)
    PROVE  RecurringInv'
<1>1. PICK h : h = Head(tick[k].ids)
  OBVIOUS
<1>2. /\ HashTyped /\ DueTyped /\ TickTyped /\ OrderTyped /\ \A s \in Schedules \ crossed : Sound(s)
      /\ tick[k].pc = "load"
      /\ crossed' = IF tick'[k].pc = "fire" /\ Ordering(h) # {} THEN crossed \cup {h} ELSE crossed
      /\ UNCHANGED <<time, policy, hash, due, order, fired, orders>>
  BY <1>1 DEF LoadHash, RecurringInv, RecurringTyped
<1>3. /\ h \in Schedules /\ h \in Listing(tick[k]) /\ tick[k].now \in 0..Horizon /\ Interval <= tick[k].now
      /\ tick[k].now <= time /\ tick[k] \in TickRecords /\ TickFits(tick[k]) /\ tick[k].pc # "idle" /\ ~ Acts(tick[k])
  BY <1>1, <1>2, Heads DEF TickTyped, Acts
<1>4. hash[h].state \in {"none", "whole", "partial"} /\ hash[h].enabled \in BOOLEAN
  <2>1. hash[h] \in HashRecords
    BY <1>2, <1>3 DEF HashTyped
  <2> QED BY <2>1 DEF HashRecords
<1>5. DueTyped'
  BY <1>2 DEF DueTyped
<1>6. CASE hash[h].state = "none"
  <2>1. PICK r : r = [tick[k] EXCEPT !.pc = "clear"]
    OBVIOUS
  <2>2. tick' = [tick EXCEPT ![k] = r]
    BY <1>1, <1>2, <1>6, <2>1 DEF LoadHash, TickTyped
  <2>3. r \in TickRecords
    BY <1>3, <2>1 DEF TickRecords
  <2>4. r.pc = "clear" /\ r.now = tick[k].now /\ r.ids = tick[k].ids /\ r.left = tick[k].left
    BY <1>3, <2>1 DEF TickRecords
  <2>5. TickFits(r) /\ ~ Acts(r) /\ Listing(r) = Listing(tick[k]) /\ tick'[k] = r
    <3>1. TickFits(r) /\ ~ Acts(r) /\ Listing(r) = Listing(tick[k])
      BY <1>2, <1>3, <2>4 DEF TickFits, Acts, Listing
    <3>2. tick'[k] = r
      BY <1>2, <2>2, <2>3, TickMoves
    <3> QED BY <3>1, <3>2
  <2>6. crossed' = crossed /\ hash[Head(r.ids)].state # "whole" /\ r.now <= time
    BY <1>1, <1>2, <1>3, <1>6, <2>4, <2>5
  <2> QED BY <1>2, <1>3, <1>5, <2>2, <2>3, <2>4, <2>5, <2>6, PassKeeps
<1>7. CASE hash[h].state = "partial"
  <2>1. tick' = [tick EXCEPT ![k] = Idle]
    BY <1>1, <1>2, <1>7 DEF LoadHash
  <2>2. Idle \in TickRecords /\ Idle.pc = "idle" /\ Idle.ids = <<>> /\ Idle.left = 0 /\ Idle.now = 0
    BY Intervals DEF Idle, TickRecords
  <2>3. TickFits(Idle) /\ Idle.now <= time /\ Listing(Idle) = {} /\ ~ Acts(Idle)
    <3>1. 0 <= Horizon \div Interval /\ 0 <= time
      BY <1>2, Intervals DEF HashTyped
    <3>2. DOMAIN Idle.ids = {}
      BY <2>2
    <3> QED BY <2>2, <3>1, <3>2 DEF TickFits, Listing, Acts
  <2>4. tick'[k].pc = "idle"
    BY <1>2, <2>1, <2>2, TickMoves
  <2>5. crossed' = crossed
    BY <1>2, <2>4
  <2>6. PICK r \in TickRecords :
            /\ tick' = [tick EXCEPT ![k] = r] /\ r.pc = "idle" /\ TickFits(r) /\ r.now <= time /\ Listing(r) = {} /\ ~ Acts(r)
    BY <2>1, <2>2, <2>3
  <2> QED BY <1>2, <1>3, <1>5, <2>5, <2>6, PassKeeps
<1>8. CASE hash[h].state = "whole" /\ ~ hash[h].enabled
  <2>1. tick' = NextOf(k)
    BY <1>1, <1>2, <1>8 DEF LoadHash
  <2>2. PICK T : T = tick'
    OBVIOUS
  <2>3. PICK r \in TickRecords :
              /\ tick' = [tick EXCEPT ![k] = r] /\ TickFits(r) /\ r.now <= time /\ r.pc \in {"idle", "load"}
              /\ Listing(r) = Listing(tick[k]) \ {Head(tick[k].ids)}
              /\ r.pc = "load" => r.now = tick[k].now
    BY <1>2, <1>3, <2>1, <2>2, Rests
  <2>4. tick'[k] = r
    BY <1>2, <2>3, TickMoves
  <2>5. crossed' = crossed /\ ~ Acts(r) /\ (r.pc # "idle" => r.now = tick[k].now) /\ r.pc # "clear"
    BY <1>2, <2>3, <2>4 DEF Acts
  <2> QED BY <1>2, <1>3, <1>5, <2>3, <2>5, PassKeeps
<1>9. CASE hash[h].state = "whole" /\ hash[h].enabled
  <2>1. PICK f : f = FireTimes(h, tick[k].now)
    OBVIOUS
  <2>2. /\ f \in Nat /\ 1 <= f /\ f <= Horizon \div Interval
        /\ fired[h] * Interval <= Since(h) /\ Since(h) + Interval <= tick[k].now =>
               (fired[h] + f) * Interval <= tick[k].now
    BY <1>2, <1>3, <1>9, <2>1, FireTimesFacts
  <2>3. PICK r : r = [tick[k] EXCEPT !.pc = "fire", !.left = f]
    OBVIOUS
  <2>4. tick' = [tick EXCEPT ![k] = r]
    BY <1>1, <1>2, <1>9, <2>1, <2>3 DEF LoadHash, TickTyped
  <2>5. r \in TickRecords
    BY <1>3, <2>2, <2>3 DEF TickRecords
  <2>6. r.pc = "fire" /\ r.now = tick[k].now /\ r.ids = tick[k].ids /\ r.left = f
    BY <1>3, <2>3 DEF TickRecords
  <2>7. TickFits(r) /\ Acts(r) /\ Listing(r) = Listing(tick[k])
    BY <1>3, <2>2, <2>6 DEF TickFits, Acts, Listing
  <2>8. tick'[k] = r /\ crossed \subseteq crossed' /\ (Ordering(h) # {} => h \in crossed') /\ crossed' \subseteq Schedules
    BY <1>2, <1>3, <2>4, <2>5, <2>6, TickMoves DEF HashTyped
  <2>9. RecurringTyped'
    <3>1. HashTyped' /\ OrderTyped'
      BY <1>2, <2>8 DEF HashTyped, OrderTyped
    <3>2. time <= time' /\ (r.pc = "clear" => r.ids # <<>> /\ hash'[Head(r.ids)].state # "whole") /\ r.now <= time
      BY <1>2, <1>3, <2>6, Intervals DEF HashTyped
    <3>3. \A s \in Schedules : hash[s].state # "whole" => hash'[s].state # "whole"
      BY <1>2
    <3>4. TickTyped'
      BY <1>2, <2>4, <2>5, <2>7, <3>1, <3>2, <3>3, TickStaysTyped
    <3> QED BY <1>5, <3>1, <3>4 DEF RecurringTyped
  <2>10. ASSUME NEW s \in Schedules \ crossed' PROVE Sound(s)'
    <3>1. Sound(s)
      BY <1>2, <2>8
    <3>2. CASE s # h
      <4>1. ~ (Acts(tick[k]) /\ Head(tick[k].ids) = s) /\ ~ (Acts(r) /\ Head(r.ids) = s)
        BY <1>1, <2>6, <3>2
      <4>2. /\ Listing(r) \subseteq Listing(tick[k]) /\ (r.pc # "idle" => r.now = tick[k].now)
            /\ r.pc = "idle" <=> r.ids = <<>>
        BY <2>6, <2>7 DEF TickFits
      <4> QED BY <1>2, <2>4, <2>5, <3>1, <4>1, <4>2, TickBystander
    <3>3. CASE s = h
      <4>1. /\ Carrying(s)' = (Carrying(s) \ {k}) \cup (IF s \in Listing(r) THEN {k} ELSE {})
            /\ Handling(s)' = (Handling(s) \ {k}) \cup (IF Acts(r) /\ Head(r.ids) = s THEN {k} ELSE {})
        BY <1>2, <2>4, <2>5, TickCarriers
      <4>2. k \in Carrying(s) /\ k \notin Handling(s) /\ Handling(s) \subseteq Carrying(s)
        BY <1>2, <1>3, <3>3, Carriers, HandlersCarry
      <4>3. Carrying(s) = {k} /\ Handling(s) = {}
        BY <3>1, <4>2 DEF Sound, Alone
      <4>4. Carrying(s)' = {k} /\ Handling(s)' = {k} /\ Ordering(s) = {} /\ Ordering(s)' = {}
        <5>1. Ordering(s) = {}
          BY <2>8, <3>3
        <5>2. Ordering(s)' = Ordering(s)
          BY <1>2 DEF Ordering
        <5>3. Carrying(s)' = {k} /\ Handling(s)' = {k}
          BY <1>1, <1>3, <2>6, <2>7, <3>3, <4>1, <4>3
        <5> QED BY <5>1, <5>2, <5>3
      <4>5. Spaced(s)
        BY <1>9, <3>1, <3>3 DEF Sound
      <4>6. (fired[s] + f) * Interval <= tick[k].now
        BY <2>2, <3>3, <4>2, <4>3, <4>5 DEF Spaced
      <4>7. Alone(s)' /\ Broken(s)' /\ Ordered(s)'
        BY <1>2, <1>9, <3>3, <4>4 DEF Alone, Broken, Ordered
      <4>8. Spaced(s)'
        <5>1. \A j \in Handling(s)' : j = k
          BY <4>4
        <5>2. tick'[k].pc = "fire" /\ (fired'[s] + tick'[k].left) * Interval <= tick'[k].now
          BY <1>2, <2>6, <2>8, <4>6
        <5> QED BY <4>4, <5>1, <5>2 DEF Spaced
      <4>9. fired'[s] * Interval <= time' /\ (hash'[s].state = "whole" /\ hash'[s].enabled => s \in DOMAIN due' \/ Ordering(s)' # {})
        BY <1>2, <3>1, <4>4 DEF Sound
      <4> QED BY <4>7, <4>8, <4>9 DEF Sound
    <3> QED BY <3>2, <3>3
  <2> QED BY <2>9, <2>10 DEF RecurringInv
<1> QED BY <1>4, <1>6, <1>7, <1>8, <1>9

LEMMA FireKeeps ==
    ASSUME RecurringInv, NEW k \in Ticks, Fire(k)
    PROVE  RecurringInv'
<1>1. PICK h : h = Head(tick[k].ids)
  OBVIOUS
<1>2. /\ HashTyped /\ DueTyped /\ TickTyped /\ OrderTyped /\ \A s \in Schedules \ crossed : Sound(s)
      /\ tick[k].pc = "fire" /\ fired' = [fired EXCEPT ![h] = @ + 1]
      /\ tick' = [tick EXCEPT ![k].left = @ - 1, ![k].pc = IF tick[k].left = 1 THEN "save" ELSE "fire"]
      /\ UNCHANGED <<time, policy, hash, due, order, orders, crossed>>
  BY <1>1 DEF Fire, RecurringInv, RecurringTyped
<1>3. /\ h \in Schedules /\ tick[k].now \in 0..Horizon /\ tick[k].now <= time /\ Acts(tick[k])
      /\ tick[k] \in TickRecords /\ TickFits(tick[k]) /\ tick[k].left \in Nat /\ 1 <= tick[k].left
  BY <1>1, <1>2, Heads DEF TickTyped, Acts, TickFits
<1>4. PICK r : r = [tick[k] EXCEPT !.left = @ - 1, !.pc = IF tick[k].left = 1 THEN "save" ELSE "fire"]
  OBVIOUS
<1>5. tick' = [tick EXCEPT ![k] = r]
  BY <1>2, <1>4 DEF TickTyped
<1>6. r \in TickRecords
  <2>1. tick[k].left - 1 \in Nat /\ (IF tick[k].left = 1 THEN "save" ELSE "fire") \in {"idle", "load", "clear", "fire", "save", "relist"}
    BY <1>3
  <2> QED BY <1>3, <1>4, <2>1 DEF TickRecords
<1>7. r.pc = (IF tick[k].left = 1 THEN "save" ELSE "fire") /\ r.now = tick[k].now /\ r.ids = tick[k].ids /\ r.left = tick[k].left - 1
  BY <1>3, <1>4 DEF TickRecords
<1>8. TickFits(r)
  <2>1. r.left <= Horizon \div Interval /\ (r.pc = "fire" => 1 <= r.left)
    <3>1. tick[k].left <= Horizon \div Interval
      BY <1>3 DEF TickFits
    <3> QED BY <1>3, <1>7, <3>1, Intervals
  <2> QED BY <1>2, <1>3, <1>7, <2>1 DEF TickFits
<1>9. Acts(r) /\ Listing(r) = Listing(tick[k]) /\ tick'[k] = r
  <2>1. tick'[k] = r
    BY <1>2, <1>5, <1>6, TickMoves
  <2> QED BY <1>7, <2>1 DEF Acts, Listing
<1>10. RecurringTyped'
  <2>1. fired' \in [Schedules -> Nat]
    <3>1. fired \in [Schedules -> Nat] /\ fired[h] + 1 \in Nat
      BY <1>2, <1>3 DEF HashTyped
    <3> QED BY <1>2, <3>1
  <2>2. HashTyped' /\ OrderTyped' /\ DueTyped'
    BY <1>2, <2>1 DEF HashTyped, OrderTyped, DueTyped
  <2>3. time <= time' /\ r.now <= time /\ r.pc # "clear"
    BY <1>2, <1>3, <1>7, Intervals DEF HashTyped
  <2>4. \A s \in Schedules : hash[s].state # "whole" => hash'[s].state # "whole"
    BY <1>2
  <2>5. TickTyped'
    BY <1>2, <1>5, <1>6, <1>8, <2>2, <2>3, <2>4, TickStaysTyped
  <2> QED BY <2>2, <2>5 DEF RecurringTyped
<1>11. ASSUME NEW s \in Schedules \ crossed' PROVE Sound(s)'
  <2>1. Sound(s)
    BY <1>2
  <2>2. CASE s # h
    <3>1. ~ (Acts(tick[k]) /\ Head(tick[k].ids) = s) /\ ~ (Acts(r) /\ Head(r.ids) = s)
      BY <1>1, <1>7, <2>2
    <3>2. /\ Listing(r) \subseteq Listing(tick[k]) /\ (r.pc # "idle" => r.now = tick[k].now)
          /\ r.pc = "idle" <=> r.ids = <<>>
      BY <1>7, <1>8, <1>9 DEF TickFits
    <3>3. fired'[s] = fired[s]
      BY <1>2, <2>2 DEF HashTyped
    <3> QED BY <1>2, <1>5, <1>6, <2>1, <3>1, <3>2, <3>3, TickBystander
  <2>3. CASE s = h
    <3>1. Handling(s) = {k} /\ Carrying(s) = {k} /\ Ordering(s) = {} /\ hash[s].state = "whole" /\ Spaced(s)
      BY <1>1, <1>2, <1>3, <2>1, <2>3, Handler
    <3>2. Carrying(s)' = {k} /\ Handling(s)' = {k} /\ Ordering(s)' = {}
      <4>1. /\ Carrying(s)' = (Carrying(s) \ {k}) \cup (IF s \in Listing(r) THEN {k} ELSE {})
            /\ Handling(s)' = (Handling(s) \ {k}) \cup (IF Acts(r) /\ Head(r.ids) = s THEN {k} ELSE {})
        BY <1>2, <1>5, <1>6, TickCarriers
      <4>2. s \in Listing(r) /\ Head(r.ids) = s
        BY <1>1, <1>2, <1>3, <1>7, <1>9, <2>3, Heads
      <4>3. Ordering(s)' = Ordering(s)
        BY <1>2 DEF Ordering
      <4> QED BY <1>9, <3>1, <4>1, <4>2, <4>3
    <3>3. PICK n, l \in Nat : n = fired[s] /\ l = tick[k].left /\ 1 <= l
      BY <1>2, <1>3 DEF HashTyped
    <3>4. PICK now, t \in Nat : now = tick[k].now /\ t = time /\ now <= t
      BY <1>2, <1>3, Intervals DEF HashTyped
    <3>5. (n + l) * Interval <= now
      BY <1>2, <3>1, <3>3, <3>4 DEF Spaced
    <3>6. fired'[s] = n + 1 /\ r.left = l - 1 /\ (n + 1) + (l - 1) = n + l
      <4>1. fired \in [Schedules -> Nat]
        BY <1>2 DEF HashTyped
      <4>2. fired'[s] = n + 1
        BY <1>2, <2>3, <3>3, <4>1
      <4>3. (n + 1) + (l - 1) = n + l
        BY <3>3
      <4> QED BY <1>7, <3>3, <4>2, <4>3
    <3>7. (n + 1) * Interval <= now
      <4>1. (n + 1) * Interval <= (n + l) * Interval /\ (n + 1) * Interval \in Nat /\ (n + l) * Interval \in Nat
        BY <3>3, Products, Intervals
      <4> QED BY <3>4, <3>5, <4>1
    <3>8. Alone(s)' /\ Broken(s)' /\ Ordered(s)'
      BY <1>2, <3>1, <3>2 DEF Alone, Broken, Ordered
    <3>9. Spaced(s)'
      <4>1. tick'[k].pc = "fire" => (fired'[s] + tick'[k].left) * Interval <= tick'[k].now
        BY <1>7, <1>9, <3>4, <3>5, <3>6
      <4>2. tick'[k].pc = "save" => fired'[s] * Interval <= tick'[k].now
        BY <1>7, <1>9, <3>4, <3>6, <3>7
      <4>3. tick'[k].pc # "relist"
        BY <1>7, <1>9
      <4>4. \A j \in Handling(s)' : j = k
        BY <3>2
      <4> QED BY <3>2, <4>1, <4>2, <4>3, <4>4 DEF Spaced
    <3>10. fired'[s] * Interval <= time'
      <4>1. (n + 1) * Interval \in Nat
        <5>1. n + 1 \in Nat
          BY <3>3
        <5> QED BY <5>1, Products, Intervals
      <4>2. (n + 1) * Interval <= t
        BY <3>4, <3>7, <4>1
      <4> QED BY <1>2, <3>4, <3>6, <4>2
    <3>11. hash'[s].state = "whole" /\ hash'[s].enabled => s \in DOMAIN due' \/ Ordering(s)' # {}
      BY <1>2, <2>1, <3>1 DEF Sound
    <3> QED BY <3>8, <3>9, <3>10, <3>11 DEF Sound
  <2> QED BY <2>2, <2>3
<1> QED BY <1>10, <1>11 DEF RecurringInv

\* Fields are written to a hash, and do not make it whole.
LEMMA WithFieldsFacts ==
    ASSUME HashTyped, NEW s \in Schedules, NEW h \in HashRecords, h.state = hash[s].state, hash' = WithFields(s, h)
    PROVE  /\ hash' \in [Schedules -> HashRecords] /\ \A x \in Schedules \ {s} : hash'[x] = hash[x]
           /\ hash'[s].enabled = h.enabled /\ hash'[s].last = h.last /\ hash'[s].next = h.next
           /\ hash'[s].state = IF hash[s].state = "none" THEN "partial" ELSE hash[s].state
           /\ \A x \in Schedules : hash[x].state # "whole" => hash'[x].state # "whole"
<1>1. PICK st : st = IF h.state = "none" THEN "partial" ELSE h.state
  OBVIOUS
<1>2. st \in {"none", "whole", "partial"}
  BY <1>1 DEF HashRecords
<1>3. PICK g : g = [h EXCEPT !.state = st]
  OBVIOUS
<1>4. g \in HashRecords
  BY <1>2, <1>3 DEF HashRecords
<1>5. g.state = st /\ g.enabled = h.enabled /\ g.last = h.last /\ g.next = h.next
  BY <1>3 DEF HashRecords
<1>6. hash' = [hash EXCEPT ![s] = g]
  BY <1>1, <1>3 DEF WithFields
<1>7. hash' \in [Schedules -> HashRecords] /\ hash'[s] = g /\ \A x \in Schedules \ {s} : hash'[x] = hash[x]
  BY <1>4, <1>6 DEF HashTyped
<1>8. \A x \in Schedules : hash[x].state # "whole" => hash'[x].state # "whole"
  BY <1>1, <1>5, <1>7
<1> QED BY <1>1, <1>5, <1>7, <1>8

LEMMA SaveRunKeeps ==
    ASSUME RecurringInv, NEW k \in Ticks, SaveRun(k)
    PROVE  RecurringInv'
<1>1. PICK h : h = Head(tick[k].ids)
  OBVIOUS
<1>2. /\ HashTyped /\ DueTyped /\ TickTyped /\ OrderTyped /\ \A s \in Schedules \ crossed : Sound(s)
      /\ tick[k].pc = "save"
      /\ hash' = WithFields(h, [hash[h] EXCEPT !.last = tick[k].now, !.next = tick[k].now + Interval])
      /\ tick' = [tick EXCEPT ![k].pc = "relist"]
      /\ UNCHANGED <<time, policy, due, order, fired, orders, crossed>>
  BY <1>1 DEF SaveRun, RecurringInv, RecurringTyped
<1>3. /\ h \in Schedules /\ tick[k].now \in 0..Horizon /\ tick[k].now <= time /\ Acts(tick[k])
      /\ tick[k] \in TickRecords /\ TickFits(tick[k]) /\ h \in Listing(tick[k])
  BY <1>1, <1>2, Heads DEF TickTyped, Acts
<1>4. PICK now \in Nat : now = tick[k].now /\ now \in 0..Horizon /\ now + Interval \in 0..(Horizon + Interval)
  BY <1>3, Intervals
<1>5. PICK g : g = [hash[h] EXCEPT !.last = now, !.next = now + Interval]
  OBVIOUS
<1>6. g \in HashRecords /\ g.state = hash[h].state /\ g.enabled = hash[h].enabled /\ g.last = now /\ g.next = now + Interval
  <2>1. hash[h] \in HashRecords
    BY <1>2, <1>3 DEF HashTyped
  <2>2. g \in HashRecords
    BY <1>4, <1>5, <2>1 DEF HashRecords
  <2>3. g.state = hash[h].state /\ g.enabled = hash[h].enabled /\ g.last = now /\ g.next = now + Interval
    BY <1>5, <2>1 DEF HashRecords
  <2> QED BY <2>2, <2>3
<1>7. hash' = WithFields(h, g)
  BY <1>2, <1>4, <1>5
<1>8. /\ hash' \in [Schedules -> HashRecords] /\ \A x \in Schedules \ {h} : hash'[x] = hash[x]
      /\ hash'[h].enabled = hash[h].enabled /\ hash'[h].last = now /\ hash'[h].next = now + Interval
      /\ hash'[h].state = IF hash[h].state = "none" THEN "partial" ELSE hash[h].state
      /\ \A x \in Schedules : hash[x].state # "whole" => hash'[x].state # "whole"
  BY <1>2, <1>3, <1>6, <1>7, WithFieldsFacts
<1>9. PICK r : r = [tick[k] EXCEPT !.pc = "relist"]
  OBVIOUS
<1>10. tick' = [tick EXCEPT ![k] = r]
  BY <1>2, <1>9 DEF TickTyped
<1>11. r \in TickRecords
  BY <1>3, <1>9 DEF TickRecords
<1>12. r.pc = "relist" /\ r.now = now /\ r.ids = tick[k].ids /\ r.left = tick[k].left
  BY <1>3, <1>4, <1>9 DEF TickRecords
<1>13. TickFits(r) /\ Acts(r) /\ Listing(r) = Listing(tick[k])
  BY <1>2, <1>3, <1>4, <1>12 DEF TickFits, Acts, Listing
<1>14. tick'[k] = r
  BY <1>2, <1>10, <1>11, TickMoves
<1>15. RecurringTyped'
  <2>1. \A s \in Schedules : hash'[s].last <= time' /\ (hash'[s].state = "whole" => hash'[s].next # Unset)
    <3>1. hash'[h].last <= time' /\ hash'[h].next # Unset
      BY <1>2, <1>3, <1>4, <1>8, Intervals DEF Unset
    <3>2. \A s \in Schedules \ {h} : hash'[s].last <= time' /\ (hash'[s].state = "whole" => hash'[s].next # Unset)
      BY <1>2, <1>8 DEF HashTyped
    <3> QED BY <3>1, <3>2
  <2>2. HashTyped' /\ OrderTyped' /\ DueTyped'
    BY <1>2, <1>8, <2>1 DEF HashTyped, OrderTyped, DueTyped
  <2>3. time <= time' /\ r.now <= time /\ r.pc # "clear"
    BY <1>2, <1>3, <1>4, <1>12, Intervals DEF HashTyped
  <2>4. TickTyped'
    BY <1>2, <1>8, <1>10, <1>11, <1>13, <2>2, <2>3, TickStaysTyped
  <2> QED BY <2>2, <2>4 DEF RecurringTyped
<1>16. ASSUME NEW s \in Schedules \ crossed' PROVE Sound(s)'
  <2>1. Sound(s)
    BY <1>2
  <2>2. CASE s # h
    <3>1. ~ (Acts(tick[k]) /\ Head(tick[k].ids) = s) /\ ~ (Acts(r) /\ Head(r.ids) = s)
      BY <1>1, <1>12, <2>2
    <3>2. /\ Listing(r) \subseteq Listing(tick[k]) /\ (r.pc # "idle" => r.now = tick[k].now)
          /\ r.pc = "idle" <=> r.ids = <<>>
      BY <1>4, <1>12, <1>13 DEF TickFits
    <3>3. hash'[s] = hash[s]
      BY <1>8, <2>2
    <3> QED BY <1>2, <1>10, <1>11, <2>1, <3>1, <3>2, <3>3, TickBystander
  <2>3. CASE s = h
    <3>1. Handling(s) = {k} /\ Carrying(s) = {k} /\ Ordering(s) = {} /\ hash[s].state = "whole" /\ Spaced(s)
      BY <1>1, <1>2, <1>3, <2>1, <2>3, Handler
    <3>2. Carrying(s)' = {k} /\ Handling(s)' = {k} /\ Ordering(s)' = {}
      <4>1. /\ Carrying(s)' = (Carrying(s) \ {k}) \cup (IF s \in Listing(r) THEN {k} ELSE {})
            /\ Handling(s)' = (Handling(s) \ {k}) \cup (IF Acts(r) /\ Head(r.ids) = s THEN {k} ELSE {})
        BY <1>2, <1>10, <1>11, TickCarriers
      <4>2. s \in Listing(r) /\ Head(r.ids) = s
        BY <1>1, <1>3, <1>12, <1>13, <2>3
      <4>3. Ordering(s)' = Ordering(s)
        BY <1>2 DEF Ordering
      <4> QED BY <1>13, <3>1, <4>1, <4>2, <4>3
    <3>3. fired[s] * Interval <= now
      BY <1>2, <1>4, <3>1 DEF Spaced
    <3>4. Since(s)' = now /\ hash'[s].state = "whole"
      BY <1>4, <1>8, <2>3, <3>1, Intervals DEF Since, Unset
    <3>5. Alone(s)' /\ Broken(s)' /\ Ordered(s)'
      BY <1>2, <3>2, <3>4 DEF Alone, Broken, Ordered
    <3>6. Spaced(s)'
      <4>1. tick'[k].pc = "relist" /\ fired'[s] * Interval <= tick'[k].now /\ Since(s)' = tick'[k].now
        BY <1>2, <1>12, <1>14, <3>3, <3>4
      <4>2. \A j \in Handling(s)' : j = k
        BY <3>2
      <4> QED BY <3>2, <4>1, <4>2 DEF Spaced
    <3>7. fired'[s] * Interval <= time'
      BY <1>2, <2>1 DEF Sound
    <3>8. hash'[s].state = "whole" /\ hash'[s].enabled => s \in DOMAIN due' \/ Ordering(s)' # {}
      BY <1>2, <1>8, <2>1, <2>3, <3>1 DEF Sound
    <3> QED BY <3>5, <3>6, <3>7, <3>8 DEF Sound
  <2> QED BY <2>2, <2>3
<1> QED BY <1>15, <1>16 DEF RecurringInv

LEMMA ListedFacts ==
    ASSUME DueTyped, NEW s \in Schedules, NEW score \in Nat, Interval <= score, ListedAt(s, score)
    PROVE  /\ DueTyped' /\ s \in DOMAIN due' /\ due'[s] = score
           /\ \A x \in Schedules \ {s} : (x \in DOMAIN due' <=> x \in DOMAIN due) /\ (x \in DOMAIN due => due'[x] = due[x])
<1>1. due' = [x \in DOMAIN due \cup {s} |-> IF x = s THEN score ELSE due[x]]
  BY DEF ListedAt
<1>2. DOMAIN due' = DOMAIN due \cup {s} /\ due'[s] = score /\ \A x \in DOMAIN due : x # s => due'[x] = due[x]
  BY <1>1
<1>3. DueTyped'
  BY <1>2 DEF DueTyped
<1> QED BY <1>2, <1>3

LEMMA UnlistedFacts ==
    ASSUME DueTyped, NEW s \in Schedules, UnlistedNow(s)
    PROVE  /\ DueTyped' /\ s \notin DOMAIN due'
           /\ \A x \in Schedules \ {s} : (x \in DOMAIN due' <=> x \in DOMAIN due) /\ (x \in DOMAIN due => due'[x] = due[x])
<1>1. due' = [x \in DOMAIN due \ {s} |-> due[x]]
  BY DEF UnlistedNow
<1>2. DOMAIN due' = DOMAIN due \ {s} /\ \A x \in DOMAIN due' : due'[x] = due[x]
  BY <1>1
<1>3. DueTyped'
  BY <1>2 DEF DueTyped
<1> QED BY <1>2, <1>3

LEMMA RelistKeeps ==
    ASSUME RecurringInv, NEW k \in Ticks, Relist(k)
    PROVE  RecurringInv'
<1>1. PICK h : h = Head(tick[k].ids)
  OBVIOUS
<1>2. /\ HashTyped /\ DueTyped /\ TickTyped /\ OrderTyped /\ \A s \in Schedules \ crossed : Sound(s)
      /\ tick[k].pc = "relist" /\ ListedAt(h, tick[k].now + Interval) /\ tick' = NextOf(k)
      /\ UNCHANGED <<time, policy, hash, order, fired, orders, crossed>>
  BY <1>1 DEF Relist, RecurringInv, RecurringTyped
<1>3. /\ h \in Schedules /\ tick[k].now \in 0..Horizon /\ tick[k].now <= time /\ Acts(tick[k])
      /\ h \in Listing(tick[k]) /\ tick[k].pc # "idle"
  BY <1>1, <1>2, Heads DEF Acts
<1>4. PICK score \in Nat : score = tick[k].now + Interval /\ Interval <= score
  <2>1. PICK now : now = tick[k].now
    OBVIOUS
  <2>2. now \in Nat /\ now + Interval \in Nat /\ Interval <= now + Interval
    BY <1>3, <2>1, Intervals
  <2> QED BY <2>1, <2>2
<1>5. /\ DueTyped' /\ h \in DOMAIN due' /\ due'[h] = score
      /\ \A x \in Schedules \ {h} : (x \in DOMAIN due' <=> x \in DOMAIN due) /\ (x \in DOMAIN due => due'[x] = due[x])
  BY <1>2, <1>3, <1>4, ListedFacts
<1>6. PICK r \in TickRecords :
              /\ tick' = [tick EXCEPT ![k] = r] /\ TickFits(r) /\ r.now <= time /\ r.pc \in {"idle", "load"}
              /\ Listing(r) = Listing(tick[k]) \ {Head(tick[k].ids)}
              /\ r.pc = "load" => r.now = tick[k].now
  <2>1. PICK T : T = tick'
    OBVIOUS
  <2>2. \E r \in TickRecords :
              /\ T = [tick EXCEPT ![k] = r] /\ TickFits(r) /\ r.now <= time /\ r.pc \in {"idle", "load"}
              /\ Listing(r) = Listing(tick[k]) \ {Head(tick[k].ids)}
              /\ r.pc = "load" => r.now = tick[k].now
    <3>1. T = NextOf(k) /\ TickTyped /\ HashTyped
      BY <1>2, <2>1
    <3> QED BY <1>3, <3>1, Rests
  <2> QED BY <2>1, <2>2
<1>7. ~ Acts(r) /\ h \notin Listing(r)
  BY <1>1, <1>6 DEF Acts
<1>8. RecurringTyped'
  <2>1. HashTyped' /\ OrderTyped'
    BY <1>2 DEF HashTyped, OrderTyped
  <2>2. time <= time' /\ r.pc # "clear" /\ \A s \in Schedules : hash[s].state # "whole" => hash'[s].state # "whole"
    BY <1>2, <1>6, Intervals DEF HashTyped
  <2>3. TickTyped'
    BY <1>2, <1>6, <2>1, <2>2, TickStaysTyped
  <2> QED BY <1>5, <2>1, <2>3 DEF RecurringTyped
<1>9. ASSUME NEW s \in Schedules \ crossed' PROVE Sound(s)'
  <2>1. Sound(s)
    BY <1>2
  <2>2. CASE s # h
    <3>1. ~ (Acts(tick[k]) /\ Head(tick[k].ids) = s) /\ ~ (Acts(r) /\ Head(r.ids) = s)
      BY <1>1, <1>7, <2>2
    <3>2. /\ Listing(r) \subseteq Listing(tick[k]) /\ (r.pc # "idle" => r.now = tick[k].now)
          /\ r.pc = "idle" <=> r.ids = <<>>
      BY <1>6 DEF TickFits
    <3>3. (s \in DOMAIN due' <=> s \in DOMAIN due) /\ (s \in DOMAIN due => due'[s] = due[s])
      BY <1>5, <2>2
    <3> QED BY <1>2, <1>6, <2>1, <3>1, <3>2, <3>3, TickBystander
  <2>3. CASE s = h
    <3>1. Handling(s) = {k} /\ Carrying(s) = {k} /\ Ordering(s) = {} /\ hash[s].state = "whole" /\ Spaced(s)
      BY <1>1, <1>2, <1>3, <2>1, <2>3, Handler
    <3>2. Carrying(s)' = {} /\ Handling(s)' = {} /\ Ordering(s)' = {}
      <4>1. /\ Carrying(s)' = (Carrying(s) \ {k}) \cup (IF s \in Listing(r) THEN {k} ELSE {})
            /\ Handling(s)' = (Handling(s) \ {k}) \cup (IF Acts(r) /\ Head(r.ids) = s THEN {k} ELSE {})
        BY <1>2, <1>6, TickCarriers
      <4>2. Ordering(s)' = Ordering(s)
        BY <1>2 DEF Ordering
      <4> QED BY <1>7, <2>3, <3>1, <4>1, <4>2
    <3>3. fired[s] * Interval <= tick[k].now /\ Since(s) = tick[k].now
      BY <1>2, <3>1 DEF Spaced
    <3>4. Since(s)' = Since(s)
      BY <1>2 DEF Since
    <3>5. Alone(s)' /\ Broken(s)' /\ Ordered(s)'
      BY <1>2, <3>1, <3>2 DEF Alone, Broken, Ordered
    <3>6. Spaced(s)'
      <4>1. fired'[s] * Interval <= Since(s)' /\ Since(s)' + Interval <= due'[s]
        BY <1>2, <1>4, <1>5, <2>3, <3>3, <3>4
      <4> QED BY <3>2, <4>1 DEF Spaced
    <3>7. fired'[s] * Interval <= time' /\ s \in DOMAIN due'
      BY <1>2, <1>5, <2>1, <2>3 DEF Sound
    <3> QED BY <3>5, <3>6, <3>7 DEF Sound
  <2> QED BY <2>2, <2>3
<1> QED BY <1>8, <1>9 DEF RecurringInv

LEMMA ElapseKeeps ==
    ASSUME RecurringInv, Elapse
    PROVE  RecurringInv'
<1>1. /\ HashTyped /\ DueTyped /\ TickTyped /\ OrderTyped /\ \A s \in Schedules \ crossed : Sound(s)
      /\ time < Horizon /\ time' = time + 1
      /\ UNCHANGED <<policy, hash, due, tick, order, fired, orders, crossed>>
  BY DEF Elapse, RecurringInv, RecurringTyped
<1>2. time \in Nat /\ time' \in 0..Horizon /\ time' \in Nat /\ time <= time'
  BY <1>1, Intervals DEF HashTyped
<1>3. RecurringTyped'
  <2>1. \A s \in Schedules : hash[s].last <= time'
    <3> SUFFICES ASSUME NEW s \in Schedules PROVE hash[s].last <= time'
      OBVIOUS
    <3>1. hash[s] \in HashRecords /\ hash[s].last <= time
      BY <1>1 DEF HashTyped
    <3>2. hash[s].last \in Int
      BY <3>1, Intervals DEF HashRecords, Unset
    <3> QED BY <1>2, <3>1, <3>2
  <2>2. HashTyped' /\ DueTyped'
    BY <1>1, <1>2, <2>1 DEF HashTyped, DueTyped
  <2>3. TickTyped' /\ OrderTyped'
    BY <1>1, <1>2, <2>2, TickStaysTyped, OrderStaysTyped
  <2> QED BY <2>2, <2>3 DEF RecurringTyped
<1>4. ASSUME NEW s \in Schedules \ crossed' PROVE Sound(s)'
  <2>1. /\ Carrying(s)' = Carrying(s) /\ Handling(s)' = Handling(s) /\ Ordering(s)' = Ordering(s)
        /\ Handling(s) \subseteq Carrying(s)
    BY <1>1, HandlersCarry DEF Carrying, Handling, Ordering
  <2> QED BY <1>1, <1>2, <2>1, Bystander
<1> QED BY <1>3, <1>4 DEF RecurringInv

-----------------------------------------------------------------------------
(* The steps of a call *)

\* What a call becomes is about a schedule, and the run it plans is within an interval.
LEMMA OrderAlone ==
    ASSUME OrderTyped, HashTyped, HashTyped', UNCHANGED time, NEW m \in Managers, NEW r \in OrderRecords,
           order' = [order EXCEPT ![m] = r], r.does # "none" => r.id \in Schedules /\ r.step >= 1,
           r.does = "resume" /\ r.step >= 2 => Interval <= r.next /\ r.next <= time + Interval
    PROVE  OrderTyped' /\ time <= time'
<1>1. time <= time'
  <2>1. time \in Int
    BY Intervals DEF HashTyped
  <2> QED BY <2>1
<1>2. \E n \in Managers, q \in OrderRecords :
         /\ order' = [order EXCEPT ![n] = q]
         /\ q.does # "none" => q.id \in Schedules /\ q.step >= 1
         /\ q.does = "resume" /\ q.step >= 2 => Interval <= q.next /\ q.next <= time + Interval
  BY Zenon
<1> QED BY <1>1, <1>2, OrderStaysTyped

LEMMA TicksAlone ==
    ASSUME TickTyped, HashTyped, HashTyped', UNCHANGED <<time, tick>>,
           \A s \in Schedules : hash[s].state # "whole" => hash'[s].state # "whole"
    PROVE  TickTyped'
<1>1. time <= time'
  <2>1. time \in Int
    BY Intervals DEF HashTyped
  <2> QED BY <2>1
<1> QED BY <1>1, TickStaysTyped

\* A call about a schedule that no tick handles keeps what it must keep.
LEMMA CallKeeps ==
    ASSUME RecurringInv, NEW m \in Managers, order[m].does # "none", NEW h, h = order[m].id,
           NEW r \in OrderRecords, order' = [order EXCEPT ![m] = r],
           r.does # "none" => r.id = h /\ r.step >= 1,
           r.does = "resume" /\ r.step >= 2 => Interval <= r.next /\ r.next <= time + Interval,
           UNCHANGED <<time, policy, tick, fired, crossed>>, HashTyped', DueTyped',
           \A x \in Schedules : hash[x].state # "whole" => hash'[x].state # "whole",
           \A x \in Schedules \ {h} : /\ hash'[x] = hash[x]
                                      /\ (x \in DOMAIN due' <=> x \in DOMAIN due) /\ (x \in DOMAIN due => due'[x] = due[x]),
           Sound(h) /\ hash'[h].state # "whole" => h \notin DOMAIN due' /\ (r.does = "resume" => r.step = 1),
           Sound(h) /\ r.does = "pause" /\ r.step = 2 => ~ hash'[h].enabled,
           Sound(h) /\ r.does = "delete" /\ r.step = 2 => h \notin DOMAIN due',
           Sound(h) /\ hash'[h].state = "whole" =>
               /\ hash'[h].last = hash[h].last
               /\ h \in DOMAIN due' => Since(h) + Interval <= due'[h]
               /\ r.does = "resume" /\ r.step >= 2 => Since(h) + Interval <= r.next
               /\ hash'[h].enabled => h \in DOMAIN due' \/ r.does # "none"
    PROVE  RecurringInv'
<1>1. HashTyped /\ DueTyped /\ TickTyped /\ OrderTyped /\ \A s \in Schedules \ crossed : Sound(s)
  BY DEF RecurringInv, RecurringTyped
<1>2. h \in Schedules /\ m \in Ordering(h)
  BY <1>1 DEF OrderTyped, Ordering
<1>3. RecurringTyped'
  <2>1. r.does # "none" => r.id \in Schedules /\ r.step >= 1
    BY <1>2
  <2>2. OrderTyped'
    BY <1>1, <2>1, OrderAlone
  <2>3. TickTyped'
    BY <1>1, TicksAlone
  <2> QED BY <2>2, <2>3 DEF RecurringTyped
<1>4. ASSUME NEW s \in Schedules \ crossed', s # h PROVE Sound(s)'
  <2>1. Sound(s) /\ m \notin Ordering(s) /\ ~ (r.does # "none" /\ r.id = s)
    BY <1>1, <1>4 DEF Ordering
  <2>2. /\ hash'[s] = hash[s] /\ fired'[s] = fired[s]
        /\ s \in DOMAIN due' <=> s \in DOMAIN due
        /\ s \in DOMAIN due => due'[s] = due[s]
    BY <1>4
  <2> QED BY <1>1, <2>1, <2>2, OrderBystander
<1>5. ASSUME h \notin crossed PROVE Sound(h)'
  <2>1. Sound(h)
    BY <1>1, <1>2, <1>5
  <2>2. Ordering(h) = {m} /\ Handling(h) = {}
    BY <2>1, Caller
  <2>3. Ordering(h)' = (Ordering(h) \ {m}) \cup (IF r.does # "none" /\ r.id = h THEN {m} ELSE {})
    <3>1. order' \in [Managers -> OrderRecords] /\ order'[m] = r /\ \A n \in Managers \ {m} : order'[n] = order[n]
      BY <1>1, OrderMoves
    <3> QED BY <3>1 DEF Ordering
  <2>4. order'[m] = r
    BY <1>1, OrderMoves
  <2>5. Carrying(h)' = Carrying(h) /\ Handling(h)' = {}
    BY <2>2 DEF Carrying, Handling
  <2>6. Ordering(h)' \subseteq {m} /\ (r.does # "none" => Ordering(h)' # {})
    BY <2>2, <2>3
  <2>7. Alone(h)'
    BY <2>1, <2>5, <2>6 DEF Alone, Sound
  <2>8. Broken(h)'
    BY <2>1, <2>4, <2>5, <2>6 DEF Broken
  <2>9. Ordered(h)'
    BY <2>1, <2>4, <2>6 DEF Ordered
  <2>10. ASSUME hash'[h].state = "whole" PROVE Spaced(h)'
    <3>1. Spaced(h)
      BY <1>2, <2>1, <2>10 DEF Sound
    <3>2. Since(h)' = Since(h)
      BY <2>1, <2>10 DEF Since
    <3>3. \A k \in Carrying(h)' \ Handling(h)' : Since(h)' + Interval <= tick'[k].now
      BY <2>2, <2>5, <3>1, <3>2 DEF Spaced
    <3>4. \A n \in Ordering(h)' : order'[n].does = "resume" /\ order'[n].step >= 2 => Since(h)' + Interval <= order'[n].next
      BY <2>1, <2>4, <2>6, <2>10, <3>2
    <3>5. fired'[h] * Interval <= Since(h)' /\ (h \in DOMAIN due' => Since(h)' + Interval <= due'[h])
      BY <2>1, <2>2, <2>10, <3>1, <3>2 DEF Spaced
    <3> QED BY <2>5, <3>3, <3>4, <3>5 DEF Spaced
  <2>11. fired'[h] * Interval <= time'
    BY <2>1 DEF Sound
  <2>12. hash'[h].state = "whole" /\ hash'[h].enabled => h \in DOMAIN due' \/ Ordering(h)' # {}
    BY <2>1, <2>6
  <2> QED BY <2>7, <2>8, <2>9, <2>10, <2>11, <2>12 DEF Sound
<1> QED BY <1>3, <1>4, <1>5 DEF RecurringInv

LEMMA AskKeeps ==
    ASSUME RecurringInv, NEW m \in Managers, Ask(m)
    PROVE  RecurringInv'
<1>1. PICK h \in Schedules, does \in {"pause", "resume", "delete"} :
          /\ order' = [order EXCEPT ![m] = [does |-> does, step |-> 1, id |-> h, next |-> 0]]
          /\ crossed' = IF Handling(h) \cup Ordering(h) # {} THEN crossed \cup {h} ELSE crossed
  BY DEF Ask
<1>2. /\ HashTyped /\ DueTyped /\ TickTyped /\ OrderTyped /\ \A s \in Schedules \ crossed : Sound(s)
      /\ order[m].does = "none" /\ UNCHANGED <<time, policy, hash, due, tick, fired>>
  BY DEF Ask, RecurringInv, RecurringTyped
<1>3. PICK r : r = [does |-> does, step |-> 1, id |-> h, next |-> 0]
  OBVIOUS
<1>4. r \in OrderRecords /\ r.does = does /\ r.step = 1 /\ r.id = h /\ order' = [order EXCEPT ![m] = r]
  BY <1>1, <1>3 DEF OrderRecords
<1>5. crossed \subseteq crossed' /\ crossed' \subseteq Schedules /\ (h \notin crossed' => Handling(h) = {} /\ Ordering(h) = {})
  BY <1>1, <1>2 DEF HashTyped
<1>6. RecurringTyped'
  <2>1. HashTyped' /\ DueTyped'
    BY <1>2, <1>5 DEF HashTyped, DueTyped
  <2>3. TickTyped'
    BY <1>2, <2>1, TicksAlone
  <2>2. /\ r.does # "none" => r.id \in Schedules /\ r.step >= 1
        /\ r.does = "resume" /\ r.step >= 2 => Interval <= r.next /\ r.next <= time + Interval
    BY <1>4
  <2>4. OrderTyped'
    BY <1>2, <1>4, <2>1, <2>2, OrderAlone
  <2> QED BY <2>1, <2>3, <2>4 DEF RecurringTyped
<1>7. ASSUME NEW s \in Schedules \ crossed' PROVE Sound(s)'
  <2>1. Sound(s)
    BY <1>2, <1>5
  <2>2. m \notin Ordering(s)
    BY <1>2 DEF Ordering
  <2>3. CASE s # h
    BY <1>2, <1>4, <2>1, <2>2, <2>3, OrderBystander
  <2>4. CASE s = h
    <3>1. Handling(s) = {} /\ Ordering(s) = {}
      BY <1>5, <2>4
    <3>2. Ordering(s)' = (Ordering(s) \ {m}) \cup (IF r.does # "none" /\ r.id = s THEN {m} ELSE {})
      <4>1. order' \in [Managers -> OrderRecords] /\ order'[m] = r /\ \A n \in Managers \ {m} : order'[n] = order[n]
        BY <1>2, <1>4, OrderMoves
      <4> QED BY <4>1 DEF Ordering
    <3>3. Ordering(s)' = {m} /\ order'[m] = r /\ order'[m].step = 1
      BY <1>2, <1>4, <2>4, <3>1, <3>2, OrderMoves
    <3>4. Carrying(s)' = Carrying(s) /\ Handling(s)' = Handling(s) /\ Since(s)' = Since(s)
      BY <1>2 DEF Carrying, Handling, Since
    <3>5. Alone(s)'
      BY <2>1, <3>1, <3>3, <3>4 DEF Alone, Sound
    <3>6. Broken(s)'
      BY <1>2, <2>1, <3>1, <3>3, <3>4 DEF Broken, Sound
    <3>7. Ordered(s)'
      BY <3>3 DEF Ordered
    <3>8. hash'[s].state = "whole" => Spaced(s)'
      <4>1. hash'[s].state = "whole" => Spaced(s)
        BY <1>2, <2>1 DEF Sound
      <4> QED BY <1>2, <3>1, <3>3, <3>4, <4>1 DEF Spaced
    <3>9. fired'[s] * Interval <= time' /\ Ordering(s)' # {}
      BY <1>2, <2>1, <3>3 DEF Sound
    <3> QED BY <3>5, <3>6, <3>7, <3>8, <3>9 DEF Sound
  <2> QED BY <2>3, <2>4
<1> QED BY <1>6, <1>7 DEF RecurringInv

LEMMA Ends ==
    ASSUME NEW m \in Managers, End(m)
    PROVE  NoOrder \in OrderRecords /\ NoOrder.does = "none" /\ order' = [order EXCEPT ![m] = NoOrder]
<1>1. PICK h : h = NoOrder.id
  OBVIOUS
<1>2. NoOrder = [does |-> "none", step |-> 0, id |-> h, next |-> 0]
  BY <1>1 DEF NoOrder
<1>3. [does |-> "none", step |-> 0, id |-> h, next |-> 0] \in OrderRecords
  BY <1>1 DEF OrderRecords
<1> QED BY <1>2, <1>3 DEF End

LEMMA Advances ==
    ASSUME OrderTyped, NEW m \in Managers, Advance(m)
    PROVE  \E r \in OrderRecords : /\ order' = [order EXCEPT ![m] = r] /\ r.does = order[m].does /\ r.id = order[m].id
                                   /\ r.step = order[m].step + 1 /\ r.next = order[m].next
<1>1. PICK o : o = order[m]
  OBVIOUS
<1>2. o \in OrderRecords
  BY <1>1 DEF OrderTyped
<1>3. PICK r : r = [o EXCEPT !.step = o.step + 1]
  OBVIOUS
<1>4. r \in OrderRecords
  BY <1>2, <1>3 DEF OrderRecords
<1>5. r.does = o.does /\ r.id = o.id /\ r.step = o.step + 1 /\ r.next = o.next
  BY <1>2, <1>3 DEF OrderRecords
<1>6. order' = [order EXCEPT ![m] = r]
  BY <1>1, <1>3 DEF Advance
<1> QED BY <1>1, <1>4, <1>5, <1>6

\* What holds of a schedule that a call is about.
LEMMA CalledFacts ==
    ASSUME NEW m \in Managers, order[m].does # "none", NEW h, h = order[m].id, Sound(h)
    PROVE  /\ hash[h].state # "whole" => h \notin DOMAIN due /\ (order[m].does = "resume" => order[m].step = 1)
           /\ order[m].does = "pause" /\ order[m].step = 2 => ~ hash[h].enabled
           /\ order[m].does = "delete" /\ order[m].step = 2 => h \notin DOMAIN due
           /\ hash[h].state = "whole" /\ h \in DOMAIN due => Since(h) + Interval <= due[h]
           /\ hash[h].state = "whole" /\ order[m].does = "resume" /\ order[m].step >= 2 =>
                 Since(h) + Interval <= order[m].next
<1>1. m \in Ordering(h) /\ Handling(h) = {} /\ (hash[h].state = "whole" => Spaced(h)) /\ Broken(h) /\ Ordered(h)
  BY Caller DEF Sound, Ordering
<1>2. hash[h].state # "whole" => h \notin DOMAIN due /\ (order[m].does = "resume" => order[m].step = 1)
  BY <1>1 DEF Broken
<1>3. /\ order[m].does = "pause" /\ order[m].step = 2 => ~ hash[h].enabled
      /\ order[m].does = "delete" /\ order[m].step = 2 => h \notin DOMAIN due
  BY <1>1 DEF Ordered
<1>4. /\ hash[h].state = "whole" /\ h \in DOMAIN due => Since(h) + Interval <= due[h]
      /\ hash[h].state = "whole" /\ order[m].does = "resume" /\ order[m].step >= 2 =>
            Since(h) + Interval <= order[m].next
  BY <1>1 DEF Spaced
<1> QED BY <1>2, <1>3, <1>4

LEMMA SinceFacts ==
    ASSUME HashTyped, NEW s \in Schedules
    PROVE  Since(s) \in Nat /\ Since(s) <= time /\ time \in Nat /\ time <= Horizon
<1>1. hash[s] \in HashRecords /\ hash[s].last <= time /\ time \in Nat /\ time <= Horizon
  BY Intervals DEF HashTyped
<1>2. hash[s].last \in {Unset} \cup (0..Horizon)
  BY <1>1 DEF HashRecords
<1>3. PICK l : l = hash[s].last
  OBVIOUS
<1> QED BY <1>1, <1>2, <1>3, Intervals DEF Since, Unset

\* hmset and hset of some fields keep the hashes typed, and when the schedule ran last.
LEMMA FieldsKept ==
    ASSUME HashTyped, UNCHANGED <<time, policy, fired, crossed>>, NEW s \in Schedules, NEW h \in HashRecords,
           h.state = hash[s].state, h.last = hash[s].last, h.state = "whole" => h.next # Unset,
           hash' = WithFields(s, h)
    PROVE  /\ HashTyped' /\ hash'[s].last = hash[s].last /\ hash'[s].enabled = h.enabled
           /\ hash'[s].state = "whole" <=> hash[s].state = "whole"
           /\ \A x \in Schedules \ {s} : hash'[x] = hash[x]
           /\ \A x \in Schedules : hash[x].state # "whole" => hash'[x].state # "whole"
<1>1. /\ hash' \in [Schedules -> HashRecords] /\ \A x \in Schedules \ {s} : hash'[x] = hash[x]
      /\ hash'[s].enabled = h.enabled /\ hash'[s].last = h.last /\ hash'[s].next = h.next
      /\ hash'[s].state = IF hash[s].state = "none" THEN "partial" ELSE hash[s].state
      /\ \A x \in Schedules : hash[x].state # "whole" => hash'[x].state # "whole"
  BY WithFieldsFacts
<1>2. hash'[s].state = "whole" <=> hash[s].state = "whole"
  BY <1>1
<1>3. \A x \in Schedules : hash'[x].last <= time' /\ (hash'[x].state = "whole" => hash'[x].next # Unset)
  BY <1>1, <1>2 DEF HashTyped
<1>4. HashTyped'
  BY <1>1, <1>3 DEF HashTyped
<1> QED BY <1>1, <1>2, <1>4

LEMMA PauseKeeps ==
    ASSUME RecurringInv, NEW m \in Managers, Pause(m)
    PROVE  RecurringInv'
<1>1. PICK h : h = order[m].id
  OBVIOUS
<1>2. /\ HashTyped /\ DueTyped /\ OrderTyped /\ UNCHANGED <<time, policy, tick, fired, orders, crossed>>
      /\ order[m].does = "pause"
      /\ \/ /\ order[m].step = 1 /\ hash' = WithFields(h, [hash[h] EXCEPT !.enabled = FALSE])
            /\ Advance(m) /\ UNCHANGED due
         \/ order[m].step = 2 /\ UnlistedNow(h) /\ End(m) /\ UNCHANGED hash
  BY <1>1 DEF Pause, ManagerStep, RecurringInv, RecurringTyped
<1>3. h \in Schedules /\ hash[h] \in HashRecords
  BY <1>1, <1>2 DEF OrderTyped, HashTyped
<1>4. CASE /\ order[m].step = 1 /\ hash' = WithFields(h, [hash[h] EXCEPT !.enabled = FALSE])
           /\ Advance(m) /\ UNCHANGED due
  <2>1. PICK r \in OrderRecords : /\ order' = [order EXCEPT ![m] = r] /\ r.does = "pause" /\ r.id = h /\ r.step = 2
    <3>2. \E r \in OrderRecords : /\ order' = [order EXCEPT ![m] = r] /\ r.does = order[m].does /\ r.id = order[m].id
                                  /\ r.step = order[m].step + 1 /\ r.next = order[m].next
      BY <1>2, <1>4, Advances
    <3>3. PICK r \in OrderRecords : /\ order' = [order EXCEPT ![m] = r] /\ r.does = order[m].does /\ r.id = order[m].id
                                    /\ r.step = order[m].step + 1 /\ r.next = order[m].next
      BY <3>2
    <3>4. r.does = "pause" /\ r.id = h /\ r.step = 2
      BY <1>1, <1>2, <1>4, <3>3
    <3> QED BY <3>3, <3>4
  <2>2. PICK g \in HashRecords : /\ hash' = WithFields(h, g) /\ g.state = hash[h].state /\ g.last = hash[h].last
                            /\ g.next = hash[h].next /\ g.enabled = FALSE
    <3>1. PICK g : g = [hash[h] EXCEPT !.enabled = FALSE]
      OBVIOUS
    <3>2. g \in HashRecords
      BY <1>3, <3>1 DEF HashRecords
    <3>3. g.state = hash[h].state /\ g.last = hash[h].last /\ g.next = hash[h].next /\ g.enabled = FALSE
      BY <1>3, <3>1 DEF HashRecords
    <3> QED BY <1>4, <3>1, <3>2, <3>3
  <2>3. g.state = "whole" => g.next # Unset
    BY <1>2, <1>3, <2>2 DEF HashTyped
  <2>4. /\ HashTyped' /\ hash'[h].last = hash[h].last /\ ~ hash'[h].enabled
        /\ hash'[h].state = "whole" <=> hash[h].state = "whole"
        /\ \A x \in Schedules \ {h} : hash'[x] = hash[x]
        /\ \A x \in Schedules : hash[x].state # "whole" => hash'[x].state # "whole"
    BY <1>2, <1>3, <2>2, <2>3, FieldsKept
  <2>5. DueTyped' /\ DOMAIN due' = DOMAIN due /\ \A x \in DOMAIN due : due'[x] = due[x]
    BY <1>2, <1>4 DEF DueTyped
  <2>6. ASSUME Sound(h) PROVE /\ hash[h].state # "whole" => h \notin DOMAIN due
                              /\ hash[h].state = "whole" /\ h \in DOMAIN due => Since(h) + Interval <= due[h]
    BY <1>1, <1>2, <2>6, CalledFacts
  <2>7. Sound(h) /\ hash'[h].state = "whole" =>
               /\ hash'[h].last = hash[h].last
               /\ h \in DOMAIN due' => Since(h) + Interval <= due'[h]
               /\ r.does = "resume" /\ r.step >= 2 => Since(h) + Interval <= r.next
               /\ hash'[h].enabled => h \in DOMAIN due' \/ r.does # "none"
    BY <2>1, <2>4, <2>5, <2>6
  <2>8. /\ order[m].does # "none" /\ (r.does # "none" => r.id = h /\ r.step >= 1)
        /\ r.does = "resume" /\ r.step >= 2 => Interval <= r.next /\ r.next <= time + Interval
        /\ UNCHANGED <<time, policy, tick, fired, crossed>>
    BY <1>2, <2>1
  <2>9. /\ Sound(h) /\ hash'[h].state # "whole" => h \notin DOMAIN due' /\ (r.does = "resume" => r.step = 1)
        /\ Sound(h) /\ r.does = "pause" /\ r.step = 2 => ~ hash'[h].enabled
        /\ Sound(h) /\ r.does = "delete" /\ r.step = 2 => h \notin DOMAIN due'
    BY <2>1, <2>4, <2>5, <2>6
  <2>10. \A x \in Schedules \ {h} : /\ hash'[x] = hash[x]
                                    /\ (x \in DOMAIN due' <=> x \in DOMAIN due) /\ (x \in DOMAIN due => due'[x] = due[x])
    BY <2>4, <2>5
  <2> QED BY <1>1, <2>1, <2>4, <2>5, <2>7, <2>8, <2>9, <2>10, CallKeeps
<1>5. CASE order[m].step = 2 /\ UnlistedNow(h) /\ End(m) /\ UNCHANGED hash
  <2>1. PICK r \in OrderRecords : order' = [order EXCEPT ![m] = r] /\ r.does = "none"
    BY <1>5, Ends
  <2>2. /\ DueTyped' /\ h \notin DOMAIN due'
        /\ \A x \in Schedules \ {h} : (x \in DOMAIN due' <=> x \in DOMAIN due) /\ (x \in DOMAIN due => due'[x] = due[x])
    BY <1>2, <1>3, <1>5, UnlistedFacts
  <2>3. HashTyped' /\ \A x \in Schedules : hash'[x] = hash[x]
    BY <1>2, <1>5 DEF HashTyped
  <2>4. ASSUME Sound(h) PROVE ~ hash[h].enabled
    BY <1>1, <1>2, <1>5, <2>4, CalledFacts
  <2>5. Sound(h) /\ hash'[h].state = "whole" =>
               /\ hash'[h].last = hash[h].last
               /\ h \in DOMAIN due' => Since(h) + Interval <= due'[h]
               /\ r.does = "resume" /\ r.step >= 2 => Since(h) + Interval <= r.next
               /\ hash'[h].enabled => h \in DOMAIN due' \/ r.does # "none"
    BY <1>3, <2>1, <2>2, <2>3, <2>4
  <2>20. /\ order[m].does # "none" /\ (r.does # "none" => r.id = h /\ r.step >= 1)
         /\ r.does = "resume" /\ r.step >= 2 => Interval <= r.next /\ r.next <= time + Interval
         /\ UNCHANGED <<time, policy, tick, fired, crossed>>
    BY <1>2, <2>1
  <2>21. /\ Sound(h) /\ hash'[h].state # "whole" => h \notin DOMAIN due' /\ (r.does = "resume" => r.step = 1)
         /\ Sound(h) /\ r.does = "pause" /\ r.step = 2 => ~ hash'[h].enabled
         /\ Sound(h) /\ r.does = "delete" /\ r.step = 2 => h \notin DOMAIN due'
    BY <2>1, <2>2
  <2>22. /\ \A x \in Schedules : hash[x].state # "whole" => hash'[x].state # "whole"
         /\ \A x \in Schedules \ {h} : /\ hash'[x] = hash[x]
                                       /\ (x \in DOMAIN due' <=> x \in DOMAIN due) /\ (x \in DOMAIN due => due'[x] = due[x])
    BY <2>2, <2>3
  <2> QED BY <1>1, <2>1, <2>2, <2>3, <2>5, <2>20, <2>21, <2>22, CallKeeps
<1> QED BY <1>2, <1>4, <1>5

LEMMA ResumeKeeps ==
    ASSUME RecurringInv, NEW m \in Managers, Resume(m)
    PROVE  RecurringInv'
<1>1. PICK h : h = order[m].id
  OBVIOUS
<1>2. /\ HashTyped /\ DueTyped /\ OrderTyped /\ UNCHANGED <<time, policy, tick, fired, orders, crossed>>
      /\ order[m].does = "resume"
      /\ \/ order[m].step = 1 /\ hash[h].state # "whole" /\ End(m) /\ UNCHANGED <<hash, due>>
         \/ /\ order[m].step = 1 /\ hash[h].state = "whole" /\ UNCHANGED <<hash, due>>
            /\ order' = [order EXCEPT ![m].step = 2, ![m].next = time + Interval]
         \/ /\ order[m].step = 2 /\ hash' = WithFields(h, [hash[h] EXCEPT !.enabled = TRUE, !.next = order[m].next])
            /\ Advance(m) /\ UNCHANGED due
         \/ order[m].step = 3 /\ ListedAt(h, order[m].next) /\ End(m) /\ UNCHANGED hash
  BY <1>1 DEF Resume, ManagerStep, RecurringInv, RecurringTyped
<1>3. h \in Schedules /\ hash[h] \in HashRecords /\ order[m] \in OrderRecords
  BY <1>1, <1>2 DEF OrderTyped, HashTyped
<1>4. order[m].does # "none" /\ UNCHANGED <<time, policy, tick, fired, crossed>>
  BY <1>2
<1>5. Since(h) \in Nat /\ Since(h) <= time /\ time \in Nat /\ time <= Horizon
  BY <1>2, <1>3, SinceFacts
<1>6. CASE order[m].step = 1 /\ hash[h].state # "whole" /\ End(m) /\ UNCHANGED <<hash, due>>
  <2>1. PICK r \in OrderRecords : order' = [order EXCEPT ![m] = r] /\ r.does = "none"
    BY <1>6, Ends
  <2>2. HashTyped' /\ DueTyped'
    BY <1>2, <1>6 DEF HashTyped, DueTyped
  <2>3. Sound(h) => h \notin DOMAIN due
    BY <1>1, <1>4, <1>6, CalledFacts
  <2>4. ~ (Sound(h) /\ hash'[h].state = "whole")
    BY <1>6
  <2>20. /\ order[m].does # "none" /\ (r.does # "none" => r.id = h /\ r.step >= 1)
         /\ r.does = "resume" /\ r.step >= 2 => Interval <= r.next /\ r.next <= time + Interval
         /\ UNCHANGED <<time, policy, tick, fired, crossed>>
    BY <1>4, <2>1
  <2>21. /\ Sound(h) /\ hash'[h].state # "whole" => h \notin DOMAIN due' /\ (r.does = "resume" => r.step = 1)
         /\ Sound(h) /\ r.does = "pause" /\ r.step = 2 => ~ hash'[h].enabled
         /\ Sound(h) /\ r.does = "delete" /\ r.step = 2 => h \notin DOMAIN due'
    BY <1>6, <2>1, <2>3
  <2>22. /\ \A x \in Schedules : hash[x].state # "whole" => hash'[x].state # "whole"
         /\ \A x \in Schedules \ {h} : /\ hash'[x] = hash[x]
                                       /\ (x \in DOMAIN due' <=> x \in DOMAIN due) /\ (x \in DOMAIN due => due'[x] = due[x])
    BY <1>6
  <2> QED BY <1>1, <2>1, <2>2, <2>4, <2>20, <2>21, <2>22, CallKeeps
<1>7. CASE /\ order[m].step = 1 /\ hash[h].state = "whole" /\ UNCHANGED <<hash, due>>
           /\ order' = [order EXCEPT ![m].step = 2, ![m].next = time + Interval]
  <2>1. PICK next \in Nat : next = time + Interval /\ Interval <= next /\ next <= time + Interval
                            /\ Since(h) + Interval <= next
    <3>1. PICK i \in Nat : i = Interval
      BY Intervals
    <3>2. PICK l, t \in Nat : l = Since(h) /\ t = time /\ l <= t
      BY <1>5
    <3>3. t + i \in Nat /\ i <= t + i /\ t + i <= t + i /\ l + i <= t + i
      BY <3>2
    <3> QED BY <3>1, <3>2, <3>3
  <2>2. PICK r : r = [does |-> "resume", step |-> 2, id |-> h, next |-> next]
    OBVIOUS
  <2>3. r \in OrderRecords /\ r.does = "resume" /\ r.step = 2 /\ r.id = h /\ r.next = next
    BY <1>3, <2>1, <2>2 DEF OrderRecords
  <2>4. order' = [order EXCEPT ![m] = r]
    <3>1. PICK o : o = order[m]
      OBVIOUS
    <3>2. o \in OrderRecords /\ o.does = "resume" /\ o.id = h /\ order \in [Managers -> OrderRecords]
      BY <1>1, <1>2, <1>3, <3>1 DEF OrderTyped
    <3>3. PICK q : q = [o EXCEPT !.step = 2]
      OBVIOUS
    <3>4. [q EXCEPT !.next = next] = r
      <4>1. PICK d, i, x : o = [does |-> d, step |-> o.step, id |-> i, next |-> x]
        BY <3>2 DEF OrderRecords
      <4>2. d = "resume" /\ i = h
        BY <3>2, <4>1
      <4>3. q = [does |-> d, step |-> 2, id |-> i, next |-> x]
        BY <3>3, <4>1
      <4> QED BY <2>2, <4>2, <4>3
    <3>5. PICK P : P = [order EXCEPT ![m].step = 2]
      OBVIOUS
    <3>6. DOMAIN P = Managers /\ P[m] = q /\ \A n \in Managers \ {m} : P[n] = order[n]
      BY <3>1, <3>2, <3>3, <3>5
    <3>7. order' = [P EXCEPT ![m].next = next]
      BY <1>7, <2>1, <3>5
    <3>8. order' = [P EXCEPT ![m] = r]
      BY <3>4, <3>6, <3>7
    <3>9. P = [n \in Managers |-> IF n = m THEN q ELSE order[n]]
      BY <3>5, <3>2, <3>1, <3>3
    <3> QED BY <3>2, <3>8, <3>9
  <2>5. HashTyped' /\ DueTyped'
    BY <1>2, <1>7 DEF HashTyped, DueTyped
  <2>6. Sound(h) /\ h \in DOMAIN due => Since(h) + Interval <= due[h]
    BY <1>1, <1>4, <1>7, CalledFacts
  <2>7. Sound(h) /\ hash'[h].state = "whole" =>
               /\ hash'[h].last = hash[h].last
               /\ h \in DOMAIN due' => Since(h) + Interval <= due'[h]
               /\ r.does = "resume" /\ r.step >= 2 => Since(h) + Interval <= r.next
               /\ hash'[h].enabled => h \in DOMAIN due' \/ r.does # "none"
    BY <1>7, <2>1, <2>3, <2>6
  <2>8. /\ r.does # "none" => r.id = h /\ r.step >= 1
        /\ r.does = "resume" /\ r.step >= 2 => Interval <= r.next /\ r.next <= time + Interval
    BY <2>1, <2>3
  <2>9. /\ Sound(h) /\ hash'[h].state # "whole" => h \notin DOMAIN due' /\ (r.does = "resume" => r.step = 1)
        /\ Sound(h) /\ r.does = "pause" /\ r.step = 2 => ~ hash'[h].enabled
        /\ Sound(h) /\ r.does = "delete" /\ r.step = 2 => h \notin DOMAIN due'
    BY <1>7, <2>3
  <2>10. /\ \A x \in Schedules : hash[x].state # "whole" => hash'[x].state # "whole"
         /\ \A x \in Schedules \ {h} : /\ hash'[x] = hash[x]
                                       /\ (x \in DOMAIN due' <=> x \in DOMAIN due) /\ (x \in DOMAIN due => due'[x] = due[x])
    BY <1>7
  <2> QED BY <1>1, <1>4, <2>3, <2>4, <2>5, <2>7, <2>8, <2>9, <2>10, CallKeeps
<1>8. CASE /\ order[m].step = 2 /\ hash' = WithFields(h, [hash[h] EXCEPT !.enabled = TRUE, !.next = order[m].next])
           /\ Advance(m) /\ UNCHANGED due
  <2>1. PICK r \in OrderRecords : /\ order' = [order EXCEPT ![m] = r] /\ r.does = "resume" /\ r.id = h /\ r.step = 3
                                  /\ r.next = order[m].next
    <3>1. \E r \in OrderRecords : /\ order' = [order EXCEPT ![m] = r] /\ r.does = order[m].does /\ r.id = order[m].id
                                  /\ r.step = order[m].step + 1 /\ r.next = order[m].next
      BY <1>2, <1>8, Advances
    <3>2. PICK r \in OrderRecords : /\ order' = [order EXCEPT ![m] = r] /\ r.does = order[m].does /\ r.id = order[m].id
                                    /\ r.step = order[m].step + 1 /\ r.next = order[m].next
      BY <3>1
    <3>3. r.does = "resume" /\ r.id = h /\ r.step = 3
      BY <1>1, <1>2, <1>8, <3>2
    <3> QED BY <3>2, <3>3
  <2>2. order[m].next \in Nat /\ Interval <= order[m].next /\ order[m].next <= time + Interval
    BY <1>2, <1>3, <1>8 DEF OrderTyped, OrderRecords
  <2>3. PICK next \in 0..(Horizon + Interval) : next = order[m].next /\ next # Unset
    <3>1. PICK next \in Nat : next = order[m].next /\ next <= time + Interval
      BY <2>2
    <3>2. next \in 0..(Horizon + Interval) /\ next # Unset
      BY <1>5, <3>1, Intervals DEF Unset
    <3> QED BY <3>1, <3>2
  <2>4. PICK g \in HashRecords : /\ hash' = WithFields(h, g) /\ g.state = hash[h].state /\ g.last = hash[h].last
                            /\ g.next # Unset /\ g.enabled = TRUE
    <3>1. PICK g : g = [hash[h] EXCEPT !.enabled = TRUE, !.next = next]
      OBVIOUS
    <3>2. g \in HashRecords
      BY <1>3, <2>3, <3>1 DEF HashRecords
    <3>3. g.state = hash[h].state /\ g.last = hash[h].last /\ g.next = next /\ g.enabled = TRUE
      BY <1>3, <3>1 DEF HashRecords
    <3> QED BY <1>8, <2>3, <3>1, <3>2, <3>3
  <2>5. /\ HashTyped' /\ hash'[h].last = hash[h].last
        /\ hash'[h].state = "whole" <=> hash[h].state = "whole"
        /\ \A x \in Schedules \ {h} : hash'[x] = hash[x]
        /\ \A x \in Schedules : hash[x].state # "whole" => hash'[x].state # "whole"
    BY <1>2, <1>3, <2>4, FieldsKept
  <2>6. DueTyped' /\ DOMAIN due' = DOMAIN due /\ \A x \in DOMAIN due : due'[x] = due[x]
    BY <1>2, <1>8 DEF DueTyped
  <2>7. ASSUME Sound(h)
        PROVE  /\ hash[h].state = "whole" /\ Since(h) + Interval <= order[m].next
               /\ h \in DOMAIN due => Since(h) + Interval <= due[h]
    <3>1. /\ hash[h].state # "whole" => order[m].step = 1
          /\ hash[h].state = "whole" /\ h \in DOMAIN due => Since(h) + Interval <= due[h]
          /\ hash[h].state = "whole" /\ order[m].step >= 2 => Since(h) + Interval <= order[m].next
      BY <1>1, <1>2, <1>4, <2>7, CalledFacts
    <3> QED BY <1>8, <3>1
  <2>8. Sound(h) /\ hash'[h].state = "whole" =>
               /\ hash'[h].last = hash[h].last
               /\ h \in DOMAIN due' => Since(h) + Interval <= due'[h]
               /\ r.does = "resume" /\ r.step >= 2 => Since(h) + Interval <= r.next
               /\ hash'[h].enabled => h \in DOMAIN due' \/ r.does # "none"
    BY <2>1, <2>5, <2>6, <2>7
  <2>9. /\ r.does # "none" => r.id = h /\ r.step >= 1
        /\ r.does = "resume" /\ r.step >= 2 => Interval <= r.next /\ r.next <= time + Interval
    BY <2>1, <2>2
  <2>10. /\ Sound(h) /\ hash'[h].state # "whole" => h \notin DOMAIN due' /\ (r.does = "resume" => r.step = 1)
         /\ Sound(h) /\ r.does = "pause" /\ r.step = 2 => ~ hash'[h].enabled
         /\ Sound(h) /\ r.does = "delete" /\ r.step = 2 => h \notin DOMAIN due'
    BY <2>1, <2>5, <2>7
  <2>11. \A x \in Schedules \ {h} : /\ hash'[x] = hash[x]
                                    /\ (x \in DOMAIN due' <=> x \in DOMAIN due) /\ (x \in DOMAIN due => due'[x] = due[x])
    BY <2>5, <2>6
  <2> QED BY <1>1, <1>4, <2>1, <2>5, <2>6, <2>8, <2>9, <2>10, <2>11, CallKeeps
<1>9. CASE order[m].step = 3 /\ ListedAt(h, order[m].next) /\ End(m) /\ UNCHANGED hash
  <2>1. PICK r \in OrderRecords : order' = [order EXCEPT ![m] = r] /\ r.does = "none"
    BY <1>9, Ends
  <2>2. order[m].next \in Nat /\ Interval <= order[m].next
    BY <1>2, <1>3, <1>9 DEF OrderTyped, OrderRecords
  <2>3. PICK score \in Nat : score = order[m].next /\ Interval <= score
    BY <2>2
  <2>4. /\ DueTyped' /\ h \in DOMAIN due' /\ due'[h] = score
        /\ \A x \in Schedules \ {h} : (x \in DOMAIN due' <=> x \in DOMAIN due) /\ (x \in DOMAIN due => due'[x] = due[x])
    BY <1>2, <1>3, <1>9, <2>3, ListedFacts
  <2>5. HashTyped' /\ \A x \in Schedules : hash'[x] = hash[x]
    BY <1>2, <1>9 DEF HashTyped
  <2>6. ASSUME Sound(h) PROVE hash[h].state = "whole" /\ Since(h) + Interval <= score
    <3>1. /\ hash[h].state # "whole" => order[m].step = 1
          /\ hash[h].state = "whole" /\ order[m].step >= 2 => Since(h) + Interval <= order[m].next
      BY <1>1, <1>2, <1>4, <2>6, CalledFacts
    <3> QED BY <1>9, <2>3, <3>1
  <2>7. Sound(h) /\ hash'[h].state = "whole" =>
               /\ hash'[h].last = hash[h].last
               /\ h \in DOMAIN due' => Since(h) + Interval <= due'[h]
               /\ r.does = "resume" /\ r.step >= 2 => Since(h) + Interval <= r.next
               /\ hash'[h].enabled => h \in DOMAIN due' \/ r.does # "none"
    BY <1>3, <2>1, <2>4, <2>5, <2>6
  <2>8. Sound(h) => hash'[h].state = "whole"
    BY <1>9, <2>6
  <2>20. /\ order[m].does # "none" /\ (r.does # "none" => r.id = h /\ r.step >= 1)
         /\ r.does = "resume" /\ r.step >= 2 => Interval <= r.next /\ r.next <= time + Interval
         /\ UNCHANGED <<time, policy, tick, fired, crossed>>
    BY <1>4, <2>1
  <2>21. /\ Sound(h) /\ hash'[h].state # "whole" => h \notin DOMAIN due' /\ (r.does = "resume" => r.step = 1)
         /\ Sound(h) /\ r.does = "pause" /\ r.step = 2 => ~ hash'[h].enabled
         /\ Sound(h) /\ r.does = "delete" /\ r.step = 2 => h \notin DOMAIN due'
    BY <2>1, <2>8
  <2>22. /\ \A x \in Schedules : hash[x].state # "whole" => hash'[x].state # "whole"
         /\ \A x \in Schedules \ {h} : /\ hash'[x] = hash[x]
                                       /\ (x \in DOMAIN due' <=> x \in DOMAIN due) /\ (x \in DOMAIN due => due'[x] = due[x])
    BY <2>4, <2>5
  <2> QED BY <1>1, <2>1, <2>4, <2>5, <2>7, <2>20, <2>21, <2>22, CallKeeps
<1> QED BY <1>2, <1>6, <1>7, <1>8, <1>9

LEMMA DeleteKeeps ==
    ASSUME RecurringInv, NEW m \in Managers, DeleteSchedule(m)
    PROVE  RecurringInv'
<1>1. PICK h : h = order[m].id
  OBVIOUS
<1>2. /\ HashTyped /\ DueTyped /\ OrderTyped /\ UNCHANGED <<time, policy, tick, fired, orders, crossed>>
      /\ order[m].does = "delete"
      /\ \/ order[m].step = 1 /\ UnlistedNow(h) /\ Advance(m) /\ UNCHANGED hash
         \/ order[m].step = 2 /\ hash' = [hash EXCEPT ![h] = Unscheduled] /\ End(m) /\ UNCHANGED due
  BY <1>1 DEF DeleteSchedule, ManagerStep, RecurringInv, RecurringTyped
<1>3. h \in Schedules /\ hash[h] \in HashRecords
  BY <1>1, <1>2 DEF OrderTyped, HashTyped
<1>4. order[m].does # "none" /\ UNCHANGED <<time, policy, tick, fired, crossed>>
  BY <1>2
<1>5. CASE order[m].step = 1 /\ UnlistedNow(h) /\ Advance(m) /\ UNCHANGED hash
  <2>1. PICK r \in OrderRecords : order' = [order EXCEPT ![m] = r] /\ r.does = "delete" /\ r.id = h /\ r.step = 2
    <3>1. \E r \in OrderRecords : /\ order' = [order EXCEPT ![m] = r] /\ r.does = order[m].does /\ r.id = order[m].id
                                  /\ r.step = order[m].step + 1 /\ r.next = order[m].next
      BY <1>2, <1>5, Advances
    <3>2. PICK r \in OrderRecords : /\ order' = [order EXCEPT ![m] = r] /\ r.does = order[m].does /\ r.id = order[m].id
                                    /\ r.step = order[m].step + 1 /\ r.next = order[m].next
      BY <3>1
    <3>3. r.does = "delete" /\ r.id = h /\ r.step = 2
      BY <1>1, <1>2, <1>5, <3>2
    <3> QED BY <3>2, <3>3
  <2>2. /\ DueTyped' /\ h \notin DOMAIN due'
        /\ \A x \in Schedules \ {h} : (x \in DOMAIN due' <=> x \in DOMAIN due) /\ (x \in DOMAIN due => due'[x] = due[x])
    BY <1>2, <1>3, <1>5, UnlistedFacts
  <2>3. HashTyped' /\ \A x \in Schedules : hash'[x] = hash[x]
    BY <1>2, <1>5 DEF HashTyped
  <2>4. /\ r.does # "none" => r.id = h /\ r.step >= 1
        /\ r.does = "resume" /\ r.step >= 2 => Interval <= r.next /\ r.next <= time + Interval
        /\ r.does # "resume" /\ r.does # "pause" /\ r.does # "none"
    BY <2>1
  <2>5. Sound(h) /\ hash'[h].state = "whole" =>
               /\ hash'[h].last = hash[h].last
               /\ h \in DOMAIN due' => Since(h) + Interval <= due'[h]
               /\ r.does = "resume" /\ r.step >= 2 => Since(h) + Interval <= r.next
               /\ hash'[h].enabled => h \in DOMAIN due' \/ r.does # "none"
    BY <1>3, <2>2, <2>3, <2>4
  <2>20. /\ order[m].does # "none" /\ (r.does # "none" => r.id = h /\ r.step >= 1)
         /\ r.does = "resume" /\ r.step >= 2 => Interval <= r.next /\ r.next <= time + Interval
         /\ UNCHANGED <<time, policy, tick, fired, crossed>>
    BY <1>4, <2>1, <2>4
  <2>21. /\ Sound(h) /\ hash'[h].state # "whole" => h \notin DOMAIN due' /\ (r.does = "resume" => r.step = 1)
         /\ Sound(h) /\ r.does = "pause" /\ r.step = 2 => ~ hash'[h].enabled
         /\ Sound(h) /\ r.does = "delete" /\ r.step = 2 => h \notin DOMAIN due'
    BY <2>2, <2>4
  <2>22. /\ \A x \in Schedules : hash[x].state # "whole" => hash'[x].state # "whole"
         /\ \A x \in Schedules \ {h} : /\ hash'[x] = hash[x]
                                       /\ (x \in DOMAIN due' <=> x \in DOMAIN due) /\ (x \in DOMAIN due => due'[x] = due[x])
    BY <2>2, <2>3
  <2> QED BY <1>1, <2>1, <2>2, <2>3, <2>5, <2>20, <2>21, <2>22, CallKeeps
<1>6. CASE order[m].step = 2 /\ hash' = [hash EXCEPT ![h] = Unscheduled] /\ End(m) /\ UNCHANGED due
  <2>1. PICK r \in OrderRecords : order' = [order EXCEPT ![m] = r] /\ r.does = "none"
    BY <1>6, Ends
  <2>2. DueTyped' /\ DOMAIN due' = DOMAIN due /\ \A x \in DOMAIN due : due'[x] = due[x]
    BY <1>2, <1>6 DEF DueTyped
  <2>3. Unscheduled \in HashRecords /\ Unscheduled.state = "none" /\ Unscheduled.last = Unset
    BY DEF Unscheduled, HashRecords
  <2>4. hash' \in [Schedules -> HashRecords] /\ hash'[h] = Unscheduled /\ \A x \in Schedules \ {h} : hash'[x] = hash[x]
    BY <1>2, <1>3, <1>6, <2>3 DEF HashTyped
  <2>5. \A x \in Schedules : hash'[x].last <= time /\ (hash'[x].state = "whole" => hash'[x].next # Unset)
    <3>1. time \in Nat /\ Unset <= time
      BY <1>2, <1>3, SinceFacts DEF Unset
    <3> QED BY <1>2, <2>3, <2>4, <3>1 DEF HashTyped
  <2>6. HashTyped'
    BY <1>2, <2>4, <2>5 DEF HashTyped
  <2>7. Sound(h) => h \notin DOMAIN due
    BY <1>1, <1>2, <1>4, <1>6, CalledFacts
  <2>8. hash'[h].state # "whole" /\ \A x \in Schedules : hash[x].state # "whole" => hash'[x].state # "whole"
    BY <2>3, <2>4
  <2>20. /\ order[m].does # "none" /\ (r.does # "none" => r.id = h /\ r.step >= 1)
         /\ r.does = "resume" /\ r.step >= 2 => Interval <= r.next /\ r.next <= time + Interval
         /\ UNCHANGED <<time, policy, tick, fired, crossed>>
    BY <1>4, <2>1
  <2>21. /\ Sound(h) /\ hash'[h].state # "whole" => h \notin DOMAIN due' /\ (r.does = "resume" => r.step = 1)
         /\ Sound(h) /\ r.does = "pause" /\ r.step = 2 => ~ hash'[h].enabled
         /\ Sound(h) /\ r.does = "delete" /\ r.step = 2 => h \notin DOMAIN due'
    BY <2>1, <2>2, <2>7
  <2>22. /\ \A x \in Schedules : hash[x].state # "whole" => hash'[x].state # "whole"
         /\ \A x \in Schedules \ {h} : /\ hash'[x] = hash[x]
                                       /\ (x \in DOMAIN due' <=> x \in DOMAIN due) /\ (x \in DOMAIN due => due'[x] = due[x])
    BY <2>2, <2>4, <2>8
  <2> QED BY <1>1, <2>1, <2>2, <2>6, <2>8, <2>20, <2>21, <2>22, CallKeeps
<1> QED BY <1>2, <1>5, <1>6

-----------------------------------------------------------------------------
(* Every step *)

LEMMA SchedulesStart ==
    ASSUME RecurringInit
    PROVE  RecurringInv
<1>1. /\ time = 0 /\ policy \in [Schedules -> Catchup] /\ orders = 0 /\ crossed = {}
      /\ hash = [s \in Schedules |-> [state |-> "whole", enabled |-> TRUE, last |-> Unset, next |-> Interval]]
      /\ due = [s \in Schedules |-> Interval]
      /\ tick = [k \in Ticks |-> Idle] /\ order = [m \in Managers |-> NoOrder] /\ fired = [s \in Schedules |-> 0]
  BY DEF RecurringInit
<1>2. /\ Interval \in Nat /\ Horizon \in Nat /\ 0 \in 0..Horizon /\ Interval \in 0..(Horizon + Interval)
      /\ Interval # Unset /\ Unset <= 0 /\ 0 <= Horizon \div Interval
  BY Intervals DEF Unset
<1>3. PICK h : h = [state |-> "whole", enabled |-> TRUE, last |-> Unset, next |-> Interval]
  OBVIOUS
<1>4. h \in HashRecords /\ h.state = "whole" /\ h.last = Unset /\ h.next = Interval /\ h.enabled = TRUE
  BY <1>2, <1>3 DEF HashRecords
<1>5. \A s \in Schedules : hash[s] = h /\ fired[s] = 0 /\ due[s] = Interval /\ s \in DOMAIN due
  BY <1>1, <1>3
<1>6. HashTyped
  <2>1. policy \in [Schedules -> Policies]
    BY <1>1, RecurringAssumption
  <2>2. hash \in [Schedules -> HashRecords] /\ fired \in [Schedules -> Nat]
    BY <1>1, <1>3, <1>4
  <2> QED BY <1>1, <1>2, <1>4, <1>5, <2>1, <2>2 DEF HashTyped
<1>7. DueTyped
  BY <1>1, <1>2 DEF DueTyped
<1>8. TickTyped
  <2>1. /\ Idle \in TickRecords /\ Idle.pc = "idle" /\ Idle.ids = <<>> /\ Idle.now = 0 /\ Idle.left = 0
    BY <1>2 DEF Idle, TickRecords
  <2>2. TickFits(Idle)
    BY <1>2, <2>1 DEF TickFits
  <2>3. \A k \in Ticks : tick[k] = Idle
    BY <1>1
  <2>4. \A k \in Ticks : TickFits(tick[k]) /\ tick[k].now <= time /\ tick[k].pc # "clear"
    BY <1>1, <2>1, <2>2, <2>3
  <2> QED BY <1>1, <2>1, <2>4 DEF TickTyped
<1>9. OrderTyped /\ \A m \in Managers : order[m].does = "none"
  <2>1. NoOrder \in OrderRecords /\ NoOrder.does = "none"
    <3>1. PICK i : i = NoOrder.id
      OBVIOUS
    <3>2. NoOrder = [does |-> "none", step |-> 0, id |-> i, next |-> 0]
      BY <3>1 DEF NoOrder
    <3> QED BY <3>1, <3>2 DEF OrderRecords
  <2> QED BY <1>1, <2>1 DEF OrderTyped
<1>10. ASSUME NEW s \in Schedules PROVE Sound(s)
  <2>1. Carrying(s) = {} /\ Handling(s) = {} /\ Ordering(s) = {}
    <3>1. \A k \in Ticks : tick[k].pc = "idle" /\ tick[k].ids = <<>>
      BY <1>1 DEF Idle
    <3> QED BY <1>9, <3>1 DEF Carrying, Handling, Ordering
  <2>2. Since(s) = 0
    BY <1>4, <1>5 DEF Since
  <2>3. fired[s] * Interval = 0 /\ Since(s) + Interval <= due[s]
    BY <1>2, <1>5, <2>2
  <2>4. Alone(s) /\ Broken(s) /\ Ordered(s)
    BY <1>4, <1>5, <2>1 DEF Alone, Broken, Ordered
  <2>5. Spaced(s)
    BY <2>1, <2>2, <2>3 DEF Spaced
  <2> QED BY <1>1, <1>5, <2>3, <2>4, <2>5 DEF Sound
<1> QED BY <1>6, <1>7, <1>8, <1>9, <1>10 DEF RecurringInv, RecurringTyped

LEMMA SchedulesStay ==
    ASSUME RecurringInv, UNCHANGED recurringVars
    PROVE  RecurringInv'
<1>1. UNCHANGED <<time, policy, hash, due, tick, order, fired, orders, crossed>>
  OBVIOUS
<1>2. RecurringTyped'
  BY <1>1 DEF RecurringInv, RecurringTyped, HashTyped, DueTyped, TickTyped, OrderTyped
<1>3. ASSUME NEW s \in Schedules \ crossed' PROVE Sound(s)'
  <2>1. Sound(s)
    BY <1>1 DEF RecurringInv
  <2>2. /\ Carrying(s)' = Carrying(s) /\ Handling(s)' = Handling(s) /\ Ordering(s)' = Ordering(s) /\ Since(s)' = Since(s)
    BY <1>1 DEF Carrying, Handling, Ordering, Since
  <2>3. Alone(s)' /\ Broken(s)' /\ Ordered(s)' /\ (hash'[s].state = "whole" => Spaced(s)')
    BY <1>1, <2>1, <2>2 DEF Sound, Alone, Broken, Ordered, Spaced
  <2> QED BY <1>1, <2>1, <2>2, <2>3 DEF Sound
<1> QED BY <1>2, <1>3 DEF RecurringInv

LEMMA SchedulesStep ==
    ASSUME RecurringInv, [RecurringNext]_recurringVars
    PROVE  RecurringInv'
<1>1. ASSUME NEW k \in Ticks, StartTick(k) \/ LoadHash(k) \/ Clear(k) \/ Fire(k) \/ SaveRun(k) \/ Relist(k)
      PROVE  RecurringInv'
  BY <1>1, StartTickKeeps, LoadHashKeeps, ClearKeeps, FireKeeps, SaveRunKeeps, RelistKeeps
<1>2. ASSUME NEW m \in Managers, Ask(m) \/ Pause(m) \/ Resume(m) \/ DeleteSchedule(m)
      PROVE  RecurringInv'
  BY <1>2, AskKeeps, PauseKeeps, ResumeKeeps, DeleteKeeps
<1>3. CASE Elapse
  BY <1>3, ElapseKeeps
<1>4. CASE UNCHANGED recurringVars
  BY <1>4, SchedulesStay
<1> QED BY <1>1, <1>2, <1>3, <1>4 DEF RecurringNext

LEMMA SchedulesMean ==
    ASSUME RecurringInv
    PROVE  RecurringTypeOK /\ SchedulesKept
<1>1. HashTyped /\ DueTyped /\ TickTyped /\ OrderTyped /\ \A s \in Schedules \ crossed : Sound(s)
  BY DEF RecurringInv, RecurringTyped
<1>2. RecurringTypeOK
  <2>1. \A s \in Schedules : /\ hash[s].state \in {"none", "whole", "partial"} /\ hash[s].enabled \in BOOLEAN
                             /\ hash[s].last \in {Unset} \cup (0..Horizon) /\ fired[s] \in Nat
                             /\ hash[s].next \in {Unset} \cup (0..(Horizon + Interval))
    BY <1>1 DEF HashTyped, HashRecords
  <2>2. \A k \in Ticks : tick[k].pc \in {"idle", "load", "clear", "fire", "save", "relist"} /\ tick[k].left \in Nat
                         /\ tick[k].left <= Horizon \div Interval
    BY <1>1 DEF TickTyped, TickRecords, TickFits
  <2>3. \A k \in Ticks : tick[k].left \in 0..(Horizon \div Interval)
    BY <2>2, Intervals
  <2>4. \A m \in Managers : order[m].does \in {"none", "pause", "resume", "delete"}
    BY <1>1 DEF OrderTyped, OrderRecords
  <2> QED BY <1>1, <2>1, <2>2, <2>3, <2>4 DEF RecurringTypeOK, HashTyped, DueTyped
<1>3. NotTooOften
  <2> SUFFICES ASSUME NEW s \in Schedules \ crossed PROVE fired[s] <= time \div Interval
    BY DEF NotTooOften
  <2>1. fired[s] \in Nat /\ time \in Nat /\ fired[s] * Interval <= time
    BY <1>1, Intervals DEF HashTyped, Sound
  <2> QED BY <2>1, Quotient
<1>4. StaysListed
  BY <1>1 DEF StaysListed, Sound
<1>5. NothingLeft
  BY <1>1 DEF NothingLeft, Sound, Broken
<1> QED BY <1>2, <1>3, <1>4, <1>5 DEF SchedulesKept

\* A recurring schedule that no two ticks, and no tick and call, handled at once is enqueued no more often than its
\* interval passed, stays listed while it is enabled, and leaves no half-written hash listed: tick, pause, resume and
\* delete of recurring.ts, whatever the number of processes that tick.
THEOREM SchedulesKeep == RecurringSpec => [](RecurringTypeOK /\ SchedulesKept)
<1>1. RecurringInit => RecurringInv
  BY SchedulesStart
<1>2. RecurringInv /\ [RecurringNext]_recurringVars => RecurringInv'
  BY SchedulesStep
<1>3. RecurringInv => RecurringTypeOK /\ SchedulesKept
  BY SchedulesMean
<1> QED BY <1>1, <1>2, <1>3, PTL DEF RecurringSpec

\* So they are beside what else waits to be taken up.
THEOREM RecurringKept == BacklogSpec => []SchedulesHold
<1>1. BacklogInit => RecurringInv
  BY SchedulesStart DEF BacklogInit
<1>2. RecurringInv /\ [BacklogNext]_backlogVars => RecurringInv'
  <2> SUFFICES ASSUME RecurringInv, [BacklogNext]_backlogVars PROVE RecurringInv'
    OBVIOUS
  <2>1. [RecurringNext]_recurringVars
    BY DEF BacklogNext, OfflineStep, LettersStep, RecurringStep, KeyValueStep, backlogVars
  <2> QED BY <2>1, SchedulesStep
<1>3. RecurringInv => SchedulesHold
  BY SchedulesMean DEF SchedulesHold
<1> QED BY <1>1, <1>2, <1>3, PTL DEF BacklogSpec
=============================================================================
