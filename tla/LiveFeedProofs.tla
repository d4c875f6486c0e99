--------------------------- MODULE LiveFeedProofs ---------------------------
(***************************************************************************)
(* What the feed promises for any rows, writers, bounds and subscriptions. *)
(***************************************************************************)
EXTENDS LiveFeed, FiniteSetTheorems, TLAPS

USE DEF vars

-----------------------------------------------------------------------------
(* Types *)

Rows == Row \cup {NoRow}
Founds == [id : Ids, row : Row]
Appends == [pc : AppendPc, entry : Entry \cup {NoRow}, excess : Int, old : SUBSET Entry]
Pushes == [pc : PushPc, entry : Entry \cup {NoRow}, was : BOOLEAN]
Subs == [stored : BOOLEAN, known : SUBSET Ids, count : Nat]
Conns == [pc : ConnPc, closed : BOOLEAN, since : Nat, upto : 0..MaxWrites,
          todo : SUBSET (Entry \cup Ids \cup Founds), row : Founds \cup {NoRow}]
Marks == [kind : {"connected", "invalidate"}, seq : Nat]
Shows == [kind : {"existing", "added", "changed"}, seq : Nat, id : Ids, row : Row]
Removals == [kind : {"removed"}, seq : Nat, id : Ids, row : {NoRow}]
Frames == Marks \cup Shows \cup Removals

\* A set-up works on what it has read: entries, ids or rows.
ConnOK(c) ==
    /\ c \in Conns
    /\ c.pc = "replay" => c.todo \subseteq Entry /\ c.todo # {} /\ IsFiniteSet(c.todo)
    /\ c.pc = "register" => c.todo \subseteq Ids
    /\ c.pc \in {"track", "existing"} => c.todo \subseteq Founds /\ c.todo # {}
    /\ c.pc = "existing" => c.row \in c.todo

Incr == {w \in Writers : AppendAt(w, "incr")}

\* Every write that is not numbered yet waits at its increment.
Counted == writes \in 0..MaxWrites /\ seq \in Nat /\ seq + Cardinality(Incr) = writes

StoreTyped == db \in [Ids -> Rows] /\ log \subseteq Entry /\ IsFiniteSet(log)
AppendTyped ==
    /\ append \in [Writers -> Appends]
    /\ \A w \in Writers : append[w].pc # "idle" => append[w].entry \in Entry
PushTyped ==
    /\ push \in [Writers -> Pushes]
    /\ \A w \in Writers : push[w].pc # "idle" => push[w].entry \in Entry
StreamTyped == sub \in Subs /\ ConnOK(conn) /\ wire \in Seq(Frames)
ClientTyped == client \in [items : [Ids -> Rows], lastSeq : Nat]

\* What the requests keep and what the connections keep.
Logged == Counted /\ StoreTyped /\ AppendTyped
Typed == Logged /\ PushTyped /\ StreamTyped /\ ClientTyped

LEMMA TypesMeet == Typed => TypeOK
<1> SUFFICES ASSUME Typed
             PROVE  TypeOK
  OBVIOUS
<1>0. FeedAssumption
  BY FeedAssumption DEF FeedAssumption
<1>1. Incr \subseteq Writers /\ IsFiniteSet(Incr)
  BY <1>0, FS_Subset DEF Incr, FeedAssumption
<1>2. Cardinality(Incr) \in Nat
  BY <1>1, FS_CardinalityType
<1>3. seq \in 0..MaxWrites
  BY <1>0, <1>2 DEF Typed, Logged, Counted, FeedAssumption
<1>4. \A w \in Writers :
        /\ append[w].pc \in AppendPc /\ append[w].old \subseteq Entry
        /\ append[w].pc # "idle" => append[w].entry \in Entry
        /\ push[w].pc \in PushPc
        /\ push[w].pc # "idle" => push[w].entry \in Entry
  <2> SUFFICES ASSUME NEW w \in Writers
               PROVE  /\ append[w].pc \in AppendPc /\ append[w].old \subseteq Entry
                      /\ push[w].pc \in PushPc
    BY DEF Typed, Logged, AppendTyped, PushTyped
  <2>1. append[w] \in Appends /\ push[w] \in Pushes
    BY DEF Typed, Logged, AppendTyped, PushTyped
  <2> QED BY <2>1 DEF Appends, Pushes
<1>5. sub.stored \in BOOLEAN /\ sub.known \subseteq Ids /\ sub.count \in Nat
  BY DEF Typed, StreamTyped, Subs
<1>6. /\ conn.pc \in ConnPc /\ conn.closed \in BOOLEAN
      /\ conn.since \in Nat /\ conn.upto \in 0..MaxWrites
      /\ conn.pc = "replay" => conn.todo \subseteq Entry
      /\ conn.pc = "register" => conn.todo \subseteq Ids
      /\ conn.pc \in {"track", "existing"} => conn.todo \subseteq [id : Ids, row : Row]
  BY DEF Typed, StreamTyped, ConnOK, Conns, Founds
<1>7. \A f \in {wire[i] : i \in DOMAIN wire} : f \in Frames
  BY DEF Typed, StreamTyped
<1>8. ASSUME NEW f \in Frames
      PROVE  /\ f.kind \in FrameKinds /\ f.seq \in Nat
             /\ f.kind \in {"existing", "added", "changed"} => f.id \in Ids /\ f.row \in Row
             /\ f.kind = "removed" => f.id \in Ids
  BY DEF Frames, Marks, Shows, Removals, FrameKinds
<1>9. client.items \in [Ids -> Row \cup {NoRow}] /\ client.lastSeq \in Nat
  BY DEF Typed, ClientTyped, Rows
<1>10. db \in [Ids -> Row \cup {NoRow}] /\ log \subseteq Entry
  BY DEF Typed, Logged, StoreTyped, Rows
<1> QED BY <1>3, <1>4, <1>5, <1>6, <1>7, <1>8, <1>9, <1>10 DEF TypeOK
-----------------------------------------------------------------------------
(* Appends *)

LEMMA Finite == IsFiniteSet(Writers) /\ IsFiniteSet(Ids) /\ MaxWrites \in Nat /\ MaxEntries \in Nat \ {0}
BY FeedAssumption DEF FeedAssumption

LEMMA IncrFinite == IsFiniteSet(Incr) /\ Cardinality(Incr) \in Nat
BY Finite, FS_Subset, FS_CardinalityType DEF Incr

\* An append moves on from one operation to the next.
LEMMA AppendMoves ==
    ASSUME AppendTyped, NEW w \in Writers, NEW a \in Appends, append' = [append EXCEPT ![w] = a],
           a.pc # "idle" => a.entry \in Entry
    PROVE  /\ AppendTyped' /\ append'[w] = a
           /\ \A v \in Writers \ {w} : append'[v] = append[v]
BY DEF AppendTyped

LEMMA CountKept ==
    ASSUME Counted, NEW w \in Writers, ~AppendAt(w, "incr"), append'[w].pc # "incr",
           \A v \in Writers \ {w} : append'[v] = append[v], UNCHANGED <<seq, writes>>
    PROVE  Counted'
<1>1. Incr' = Incr
  BY DEF Incr, AppendAt
<1> QED BY <1>1 DEF Counted

LEMMA IdleRecord == IdleAppend \in Appends /\ IdleAppend.pc = "idle"
BY DEF IdleAppend, Appends, AppendPc

\* What each operation of an append makes of its record.
LEMMA AppendRecords ==
    ASSUME Logged, NEW w \in Writers
    PROVE  /\ AppendAt(w, "incr") =>
                /\ [append[w] EXCEPT !.pc = "insert", !.entry.seq = seq + 1] \in Appends
                /\ [append[w] EXCEPT !.pc = "insert", !.entry.seq = seq + 1].entry \in Entry
           /\ [append[w] EXCEPT !.pc = "count"] \in Appends
           /\ \A n \in Int : [append[w] EXCEPT !.pc = "oldest", !.excess = n] \in Appends
           /\ \A S \in SUBSET Entry : [append[w] EXCEPT !.pc = "trim", !.old = S] \in Appends
           /\ IdleAppend \in Appends
           /\ \A e \in Entry : [IdleAppend EXCEPT !.pc = "incr", !.entry = e] \in Appends
<1>0. append[w] \in Appends
  BY DEF Logged, AppendTyped
<1>1. ASSUME AppendAt(w, "incr")
      PROVE  /\ [append[w] EXCEPT !.pc = "insert", !.entry.seq = seq + 1] \in Appends
             /\ [append[w] EXCEPT !.pc = "insert", !.entry.seq = seq + 1].entry \in Entry
  <2>1. append[w].entry \in Entry
    BY <1>1 DEF AppendAt, Logged, AppendTyped
  <2>2. w \in Incr
    BY <1>1 DEF Incr
  <2>3. Cardinality(Incr) # 0
    BY <2>2, IncrFinite, FS_EmptySet
  <2>4. seq + 1 \in 0..MaxWrites
    BY <2>3, IncrFinite, Finite DEF Logged, Counted
  <2>5. PICK e : e = [append[w].entry EXCEPT !.seq = seq + 1]
    OBVIOUS
  <2>6. e \in Entry
    BY <2>1, <2>4, <2>5 DEF Entry
  <2>7. [append[w] EXCEPT !.pc = "insert", !.entry.seq = seq + 1] = [append[w] EXCEPT !.pc = "insert", !.entry = e]
    BY <2>5, <1>0 DEF Appends
  <2> QED BY <2>6, <2>7, <1>0 DEF Appends, AppendPc
<1>2. [append[w] EXCEPT !.pc = "count"] \in Appends
  BY <1>0 DEF Appends, AppendPc
<1>3. \A n \in Int : [append[w] EXCEPT !.pc = "oldest", !.excess = n] \in Appends
  BY <1>0 DEF Appends, AppendPc
<1>4. \A S \in SUBSET Entry : [append[w] EXCEPT !.pc = "trim", !.old = S] \in Appends
  BY <1>0 DEF Appends, AppendPc
<1>5. IdleAppend \in Appends
  BY DEF IdleAppend, Appends, AppendPc
<1>6. \A e \in Entry : [IdleAppend EXCEPT !.pc = "incr", !.entry = e] \in Appends
  BY <1>5 DEF IdleAppend, Appends, AppendPc
<1> QED BY <1>1, <1>2, <1>3, <1>4, <1>5, <1>6

Rest(w) == \A v \in Writers \ {w} : append'[v] = append[v]

\* Where an append is after its operation, and with what.
LEMMA IncrMoves ==
    ASSUME Logged, NEW w \in Writers, AppendIncr(w)
    PROVE  /\ AppendTyped' /\ Rest(w) /\ append'[w].pc = "insert"
           /\ append'[w].entry \in Entry
           /\ append'[w].entry = [append[w].entry EXCEPT !.seq = seq + 1]
           /\ append[w].entry \in Entry /\ append'[w].old = append[w].old
<1>1. PICK a : a = [append[w] EXCEPT !.pc = "insert", !.entry.seq = seq + 1]
  OBVIOUS
<1>2. append[w] \in Appends /\ append[w].entry \in Entry
  BY DEF AppendIncr, AppendAt, Logged, AppendTyped
<1>3. a \in Appends /\ a.entry \in Entry
  BY <1>1, AppendRecords DEF AppendIncr
<1>4. append' = [append EXCEPT ![w] = a]
  BY <1>1, <1>2 DEF AppendIncr, Logged, AppendTyped
<1>5. a.pc = "insert" /\ a.entry = [append[w].entry EXCEPT !.seq = seq + 1] /\ a.old = append[w].old
  BY <1>1, <1>2 DEF Appends
<1> QED BY <1>2, <1>3, <1>4, <1>5, AppendMoves DEF Logged, Rest

LEMMA InsertMoves ==
    ASSUME Logged, NEW w \in Writers, AppendInsert(w)
    PROVE  /\ AppendTyped' /\ Rest(w) /\ append'[w] = [append[w] EXCEPT !.pc = "count"]
           /\ append'[w].pc = "count" /\ append'[w].entry = append[w].entry /\ append[w].entry \in Entry
<1>1. PICK a : a = [append[w] EXCEPT !.pc = "count"]
  OBVIOUS
<1>2. append[w] \in Appends /\ append[w].entry \in Entry
  BY DEF AppendInsert, AppendAt, Logged, AppendTyped
<1>3. a \in Appends /\ a.entry = append[w].entry /\ a.pc = "count"
  BY <1>1, <1>2, AppendRecords DEF Appends
<1>4. append' = [append EXCEPT ![w] = a]
  BY <1>1, <1>2 DEF AppendInsert, Logged, AppendTyped
<1> QED BY <1>1, <1>2, <1>3, <1>4, AppendMoves DEF Logged, Rest

LEMMA CountMoves ==
    ASSUME Logged, NEW w \in Writers, AppendCount(w)
    PROVE  /\ AppendTyped' /\ Rest(w)
           /\ \/ /\ Cardinality(log) > MaxEntries /\ append'[w].pc = "oldest"
                 /\ append'[w].excess = Cardinality(log) - MaxEntries
                 /\ append'[w].entry = append[w].entry
              \/ Cardinality(log) <= MaxEntries /\ append'[w] = IdleAppend
           /\ Cardinality(log) \in Nat
<1>0. append[w] \in Appends /\ append[w].entry \in Entry /\ append \in [Writers -> Appends]
  BY DEF AppendCount, AppendAt, Logged, AppendTyped
<1>1. Cardinality(log) \in Nat
  BY FS_CardinalityType DEF Logged, StoreTyped
<1>2. CASE Cardinality(log) - MaxEntries > 0
  <2>0. PICK n : n = Cardinality(log) - MaxEntries
    OBVIOUS
  <2>1. PICK a : a = [append[w] EXCEPT !.pc = "oldest", !.excess = n]
    OBVIOUS
  <2>2. n \in Int /\ Cardinality(log) > MaxEntries
    BY <1>1, <1>2, <2>0, Finite
  <2>3. a \in Appends /\ a.entry = append[w].entry /\ a.pc = "oldest" /\ a.excess = n
    BY <1>0, <2>1, <2>2, AppendRecords DEF Appends
  <2>4. append' = [append EXCEPT ![w] = a]
    BY <1>0, <1>2, <2>0, <2>1 DEF AppendCount
  <2>5. AppendTyped' /\ append'[w] = a /\ Rest(w)
    BY <1>0, <2>3, <2>4, AppendMoves DEF Logged, Rest
  <2> QED BY <1>1, <2>0, <2>2, <2>3, <2>5
<1>3. CASE ~(Cardinality(log) - MaxEntries > 0)
  <2>1. append' = [append EXCEPT ![w] = IdleAppend]
    BY <1>0, <1>3 DEF AppendCount
  <2>2. IdleAppend.pc = "idle" /\ IdleAppend \in Appends
    BY AppendRecords DEF IdleAppend
  <2>3. AppendTyped' /\ append'[w] = IdleAppend /\ Rest(w)
    BY <2>1, <2>2, AppendMoves DEF Logged, Rest
  <2>4. Cardinality(log) <= MaxEntries
    BY <1>1, <1>3, Finite
  <2> QED BY <1>1, <2>3, <2>4
<1> QED BY <1>2, <1>3

LEMMA OldestMoves ==
    ASSUME Logged, NEW w \in Writers, AppendOldest(w)
    PROVE  /\ AppendTyped' /\ Rest(w) /\ append'[w].pc = "trim"
           /\ append'[w].old = Lowest(append[w].excess) /\ append'[w].entry = append[w].entry
<1>0. append[w] \in Appends /\ append[w].entry \in Entry /\ append \in [Writers -> Appends]
  BY DEF AppendOldest, AppendAt, Logged, AppendTyped
<1>1. PICK a : a = [append[w] EXCEPT !.pc = "trim", !.old = Lowest(append[w].excess)]
  OBVIOUS
<1>2. Lowest(append[w].excess) \subseteq Entry
  BY DEF Lowest, Logged, StoreTyped
<1>3. a \in Appends /\ a.entry = append[w].entry /\ a.pc = "trim" /\ a.old = Lowest(append[w].excess)
  BY <1>0, <1>1, <1>2, AppendRecords DEF Appends
<1>4. append' = [append EXCEPT ![w] = a]
  BY <1>0, <1>1 DEF AppendOldest
<1> QED BY <1>0, <1>3, <1>4, AppendMoves DEF Logged, Rest

LEMMA TrimMoves ==
    ASSUME Logged, NEW w \in Writers, AppendTrim(w)
    PROVE  AppendTyped' /\ Rest(w) /\ append'[w] = IdleAppend /\ append'[w].pc = "idle"
<1>1. IdleAppend.pc = "idle" /\ IdleAppend \in Appends
  BY AppendRecords DEF IdleAppend
<1>2. append' = [append EXCEPT ![w] = IdleAppend]
  BY DEF AppendTrim
<1> QED BY <1>1, <1>2, AppendMoves DEF Logged, Rest

LEMMA AppendTypes ==
    ASSUME Logged, NEW w \in Writers, AppendStep(w)
    PROVE  Counted' /\ StoreTyped' /\ AppendTyped'
<1>1. CASE AppendIncr(w)
  <2>0. append'[w].pc = "insert" /\ append[w].pc = "incr" /\ \A v \in Writers \ {w} : append'[v] = append[v]
    BY <1>1, IncrMoves DEF AppendAt, Rest, AppendIncr
  <2>1. Incr' = Incr \ {w} /\ w \in Incr
    BY <2>0 DEF Incr, AppendAt
  <2>2. Cardinality(Incr') = Cardinality(Incr) - 1
    BY <2>1, IncrFinite, FS_RemoveElement
  <2>3. seq' = seq + 1 /\ UNCHANGED <<db, log, writes>>
    BY <1>1 DEF AppendIncr
  <2>4. Counted'
    BY <2>2, <2>3, IncrFinite DEF Logged, Counted
  <2> QED BY <1>1, <2>3, <2>4, IncrMoves DEF Logged, StoreTyped
<1>2. CASE AppendInsert(w)
  <2>1. Counted'
    BY <1>2, InsertMoves, CountKept DEF AppendInsert, AppendAt, Logged, Rest
  <2>2. IsFiniteSet(log')
    BY <1>2, FS_AddElement DEF AppendInsert, Logged, StoreTyped
  <2> QED BY <1>2, <2>1, <2>2, InsertMoves DEF AppendInsert, Logged, StoreTyped
<1>3. CASE AppendCount(w)
  <2>1. append'[w].pc # "incr"
    BY <1>3, CountMoves DEF IdleAppend
  <2>2. Counted'
    BY <1>3, <2>1, CountMoves, CountKept DEF AppendCount, AppendAt, Logged, Rest
  <2> QED BY <1>3, <2>2, CountMoves DEF AppendCount, Logged, StoreTyped
<1>4. CASE AppendOldest(w)
  <2>1. Counted'
    BY <1>4, OldestMoves, CountKept DEF AppendOldest, AppendAt, Logged, Rest
  <2> QED BY <1>4, <2>1, OldestMoves DEF AppendOldest, Logged, StoreTyped
<1>5. CASE AppendTrim(w)
  <2>1. Counted'
    BY <1>5, TrimMoves, CountKept DEF AppendTrim, AppendAt, Logged, Rest
  <2>2. IsFiniteSet(log')
    BY <1>5, FS_Subset DEF AppendTrim, Logged, StoreTyped
  <2> QED BY <1>5, <2>1, <2>2, TrimMoves DEF AppendTrim, Logged, StoreTyped
<1> QED BY <1>1, <1>2, <1>3, <1>4, <1>5 DEF AppendStep

LEMMA WriteMoves ==
    ASSUME Logged, NEW w \in Writers, NEW kind \in Kinds, NEW id \in Ids, Write(w, kind, id)
    PROVE  /\ Logged' /\ Rest(w) /\ append[w].pc = "idle" /\ append'[w].pc = "incr"
           /\ append'[w].entry \in Entry
           /\ append'[w].entry = [seq |-> 0, kind |-> kind, id |-> id, row |-> db'[id]]
           /\ db' = [db EXCEPT ![id] = append'[w].entry.row] /\ db'[id] \in Rows
           /\ kind = "delete" <=> db'[id] = NoRow
           /\ UNCHANGED <<seq, log>> /\ writes' = writes + 1
<1>1. PICK row \in IF kind = "delete" THEN {NoRow} ELSE [ver : {writes + 1}, fits : BOOLEAN] :
         /\ db' = [db EXCEPT ![id] = row]
         /\ append' = [append EXCEPT ![w] = [IdleAppend EXCEPT !.pc = "incr",
                                                !.entry = [seq |-> 0, kind |-> kind, id |-> id, row |-> row]]]
  BY Zenon DEF Write
<1>2. /\ append[w].pc = "idle" /\ writes < MaxWrites /\ writes' = writes + 1
      /\ UNCHANGED <<seq, log>>
  BY DEF Write
<1>3. writes \in 0..MaxWrites /\ writes + 1 \in 0..MaxWrites
  BY <1>2, Finite DEF Logged, Counted
<1>4. row \in Rows /\ (kind = "delete" <=> row = NoRow)
  <2>1. CASE kind = "delete"
    BY <2>1, <1>1 DEF Rows
  <2>2. CASE kind # "delete"
    <3>1. row \in [ver : {writes + 1}, fits : BOOLEAN]
      BY <1>1, <2>2
    <3>2. row \in Row /\ row \in [ver : Nat, fits : BOOLEAN]
      BY <1>3, <3>1, Finite DEF Row
    <3> QED BY <2>2, <3>2, FeedAssumption DEF Rows, FeedAssumption
  <2> QED BY <2>1, <2>2
<1>5. PICK e : e = [seq |-> 0, kind |-> kind, id |-> id, row |-> row]
  OBVIOUS
<1>6. e \in Entry
  BY <1>4, <1>5, Finite DEF Entry, Rows
<1>7. PICK a : a = [IdleAppend EXCEPT !.pc = "incr", !.entry = e]
  OBVIOUS
<1>8. a \in Appends /\ a.pc = "incr" /\ a.entry = e
  <2>1. a = [pc |-> "incr", entry |-> e, excess |-> 0, old |-> {}]
    BY <1>7 DEF IdleAppend
  <2> QED BY <1>6, <2>1 DEF Appends, AppendPc
<1>9. append' = [append EXCEPT ![w] = a]
  BY <1>1, <1>5, <1>7
<1>10. AppendTyped' /\ append'[w] = a /\ Rest(w)
  BY <1>6, <1>8, <1>9, AppendMoves DEF Logged, Rest
<1>11. db'[id] = row /\ db' \in [Ids -> Rows]
  BY <1>1, <1>4 DEF Logged, StoreTyped
<1>12. Counted'
  <2>1. Incr' = Incr \cup {w} /\ w \notin Incr
    BY <1>2, <1>8, <1>10 DEF Incr, AppendAt, Rest
  <2>2. Cardinality(Incr') = Cardinality(Incr) + 1
    BY <2>1, IncrFinite, FS_AddElement
  <2> QED BY <2>2, <1>2, <1>3, IncrFinite DEF Logged, Counted
<1>13. Logged'
  BY <1>2, <1>10, <1>11, <1>12 DEF Logged, StoreTyped
<1>14. append'[w].entry = [seq |-> 0, kind |-> kind, id |-> id, row |-> db'[id]] /\ append'[w].entry.row = row
  BY <1>5, <1>8, <1>10, <1>11
<1> QED BY <1>1, <1>2, <1>4, <1>6, <1>8, <1>10, <1>11, <1>13, <1>14

stored == <<db, seq, log, append, writes>>

\* Only requests touch the database and the changelog.
LEMMA StoreSteps ==
    ASSUME [Next]_vars
    PROVE  \/ \E w \in Writers : AppendStep(w)
           \/ \E w \in Writers, kind \in Kinds, id \in Ids : Write(w, kind, id)
           \/ UNCHANGED stored
<1>1. CASE \E w \in Writers : AppendStep(w) \/ PushStep(w)
  BY <1>1 DEF PushStep, PushLoad, PushCheck, PushMark, PushSend, stored
<1>2. CASE Connect \/ Receive \/ Drop
  BY <1>2 DEF Connect, Receive, Drop, stored
<1>3. CASE SetupStep
  BY <1>3 DEF SetupStep, ReadSequence, StoreSub, ZeroCount, CheckGap, Refuse, ReadEntries, ReplayEntry,
              ReplayNothing, SelectIds, RegisterKnownIds, SelectRows, TrackRow, SendExisting, stored
<1> QED BY <1>1, <1>2, <1>3 DEF Next, stored

LEMMA AppendCase ==
    ASSUME NEW w \in Writers, AppendStep(w)
    PROVE  AppendIncr(w) \/ AppendInsert(w) \/ AppendCount(w) \/ AppendOldest(w) \/ AppendTrim(w)
BY DEF AppendStep

LEMMA InitLogged == Init => Logged
<1> SUFFICES ASSUME Init PROVE Logged
  OBVIOUS
<1>1. StoreTyped
  <2>1. [ver |-> 0, fits |-> TRUE] \in Row
    BY Finite DEF Row
  <2> QED BY <2>1, FS_EmptySet DEF Init, StoreTyped, Rows
<1>2. AppendTyped
  BY IdleRecord DEF Init, AppendTyped
<1>3. Counted
  <2>1. Incr = {}
    BY DEF Init, Incr, AppendAt, IdleAppend
  <2> QED BY <2>1, FS_EmptySet, Finite DEF Init, Counted
<1> QED BY <1>1, <1>2, <1>3 DEF Logged

LEMMA LoggedStep == Logged /\ [Next]_vars => Logged'
<1> SUFFICES ASSUME Logged, [Next]_vars PROVE Logged'
  OBVIOUS
<1>1. CASE \E w \in Writers : AppendStep(w)
  BY <1>1, AppendTypes DEF Logged
<1>2. CASE \E w \in Writers, kind \in Kinds, id \in Ids : Write(w, kind, id)
  BY <1>2, WriteMoves
<1>3. CASE UNCHANGED stored
  <2>1. Incr' = Incr
    BY <1>3 DEF Incr, AppendAt, stored
  <2> QED BY <1>3, <2>1 DEF stored, Logged, Counted, StoreTyped, AppendTyped
<1> QED BY <1>1, <1>2, <1>3, StoreSteps

-----------------------------------------------------------------------------
(* Numbers *)

\* A sequence number belongs to one entry: in the changelog, held by an append that
\* has still to insert it, or read by an append that is about to trim it.
Numbered ==
    /\ \A e \in log : e.seq \in 1..seq
    /\ \A e, f \in log : e.seq = f.seq => e = f
    /\ \A w \in Writers : AppendAt(w, "insert") =>
        /\ append[w].entry.seq \in 1..seq
        /\ \A e \in log : e.seq # append[w].entry.seq
        /\ \A v \in Writers \ {w} :
            AppendAt(v, "insert") => append[v].entry.seq # append[w].entry.seq
    /\ \A w, v \in Writers : AppendAt(w, "trim") /\ AppendAt(v, "insert") =>
        \A e \in append[w].old : append[v].entry.seq # e.seq
    /\ \A w \in Writers : AppendAt(w, "trim") => \A e \in append[w].old : e.seq \in 1..seq
    /\ \A w \in Writers : AppendAt(w, "oldest") => append[w].excess \in Nat \ {0}

LEMMA EntrySeq == \A e \in Entry : e.seq \in Nat /\ e.seq \in 0..MaxWrites
BY Finite DEF Entry

LEMMA SeqNat == Logged => seq \in Nat /\ writes \in Nat
BY Finite DEF Logged, Counted

LEMMA LowestRead ==
    ASSUME Logged, NEW n \in Int
    PROVE  Lowest(n) \subseteq log
BY DEF Lowest

\* The append of every other request is where it was.
LEMMA RestFields ==
    ASSUME NEW w \in Writers, Rest(w), NEW v \in Writers, v # w
    PROVE  append'[v] = append[v] /\ \A pc \in AppendPc : AppendAt(v, pc)' <=> AppendAt(v, pc)
BY DEF Rest, AppendAt

LEMMA NumberedIncr ==
    ASSUME Logged, Numbered, NEW w \in Writers, AppendIncr(w)
    PROVE  Numbered'
<1>1. /\ AppendAt(w, "insert")' /\ append'[w].entry.seq = seq + 1 /\ Rest(w)
      /\ seq' = seq + 1 /\ log' = log /\ seq \in Nat
  <2>1. append[w].entry \in Entry /\ append'[w].entry = [append[w].entry EXCEPT !.seq = seq + 1]
    BY IncrMoves
  <2>2. append'[w].entry.seq = seq + 1
    BY <2>1 DEF Entry
  <2> QED BY <2>2, IncrMoves, SeqNat DEF AppendIncr, AppendAt
<1>2. \A n : n \in 1..seq => n \in 1..seq' /\ n # seq + 1
  BY <1>1
<1>3. ASSUME NEW v \in Writers, v # w PROVE append'[v] = append[v]
  BY <1>1, <1>3 DEF Rest
<1>4. append'[w].pc = "insert"
  BY <1>1 DEF AppendAt
<1> QED BY <1>1, <1>2, <1>3, <1>4 DEF Numbered, AppendAt

LEMMA NumberedInsert ==
    ASSUME Logged, Numbered, NEW w \in Writers, AppendInsert(w)
    PROVE  Numbered'
<1>1. /\ append[w].pc = "insert" /\ append'[w].pc = "count" /\ append'[w].entry = append[w].entry
      /\ seq' = seq /\ log' = log \cup {append[w].entry}
  BY InsertMoves DEF AppendInsert, AppendAt
<1>2. \A v \in Writers \ {w} : append'[v] = append[v]
  BY InsertMoves DEF Rest
<1> QED BY <1>1, <1>2 DEF Numbered, AppendAt

LEMMA NumberedCount ==
    ASSUME Logged, Numbered, NEW w \in Writers, AppendCount(w)
    PROVE  Numbered'
<1>0. seq' = seq /\ log' = log
  BY DEF AppendCount
<1>1. /\ append'[w].pc \in {"oldest", "idle"}
      /\ append'[w].pc = "oldest" => append'[w].excess \in Nat \ {0}
  <2>1. \/ append'[w] = IdleAppend
        \/ /\ Cardinality(log) > MaxEntries /\ append'[w].pc = "oldest"
           /\ append'[w].excess = Cardinality(log) - MaxEntries /\ Cardinality(log) \in Nat
    BY CountMoves
  <2> QED BY <2>1, Finite, IdleRecord
<1>2. \A v \in Writers \ {w} : append'[v] = append[v]
  BY CountMoves DEF Rest
<1> QED BY <1>0, <1>1, <1>2 DEF Numbered, AppendAt

LEMMA NumberedOldest ==
    ASSUME Logged, Numbered, NEW w \in Writers, AppendOldest(w)
    PROVE  Numbered'
<1>1. /\ append'[w].pc = "trim" /\ seq' = seq /\ log' = log
      /\ append'[w].old \subseteq log
  BY OldestMoves DEF AppendOldest, Lowest
<1>2. \A v \in Writers \ {w} : append'[v] = append[v]
  BY OldestMoves DEF Rest
<1> QED BY <1>1, <1>2 DEF Numbered, AppendAt

LEMMA NumberedTrim ==
    ASSUME Logged, Numbered, NEW w \in Writers, AppendTrim(w)
    PROVE  Numbered'
<1>1. /\ append'[w].pc = "idle" /\ seq' = seq /\ log' \subseteq log
  BY TrimMoves DEF AppendTrim
<1>2. \A v \in Writers \ {w} : append'[v] = append[v]
  BY TrimMoves DEF Rest
<1> QED BY <1>1, <1>2 DEF Numbered, AppendAt
LEMMA NumberedWrite ==
    ASSUME Logged, Numbered, NEW w \in Writers, append'[w].pc = "incr", Rest(w), UNCHANGED <<seq, log>>
    PROVE  Numbered'
BY DEF Numbered, AppendAt, Rest

LEMMA NumberedStep == Logged /\ Numbered /\ [Next]_vars => Numbered'
<1> SUFFICES ASSUME Logged, Numbered, [Next]_vars PROVE Numbered'
  OBVIOUS
<1>1. CASE \E w \in Writers : AppendStep(w)
  BY <1>1, AppendCase, NumberedIncr, NumberedInsert, NumberedCount, NumberedOldest, NumberedTrim
<1>2. CASE \E w \in Writers, kind \in Kinds, id \in Ids : Write(w, kind, id)
  BY <1>2, WriteMoves, NumberedWrite
<1>3. CASE UNCHANGED stored
  BY <1>3 DEF stored, Numbered, AppendAt
<1> QED BY <1>1, <1>2, <1>3, StoreSteps

-----------------------------------------------------------------------------
(* What a trim removes *)

Below(e) == {f \in log : f.seq < e.seq}

LEMMA BelowFinite ==
    ASSUME Logged, NEW e
    PROVE  IsFiniteSet(Below(e)) /\ Cardinality(Below(e)) \in Nat
BY FS_Subset, FS_CardinalityType DEF Below, Logged, StoreTyped

\* The entries of the changelog are ordered by how many are below them.
LEMMA RanksDiffer ==
    ASSUME Logged, NEW e \in log, NEW f \in log, e.seq < f.seq
    PROVE  Cardinality(Below(e)) < Cardinality(Below(f))
<1>1. e.seq \in Int /\ f.seq \in Int /\ \A g \in log : g.seq \in Int
  BY EntrySeq DEF Logged, StoreTyped
<1>2. Below(e) \subseteq Below(f) /\ e \in Below(f) /\ e \notin Below(e)
  BY <1>1 DEF Below
<1>3. Cardinality(Below(e)) <= Cardinality(Below(f)) /\ Cardinality(Below(e)) # Cardinality(Below(f))
  BY <1>2, BelowFinite, FS_Subset
<1> QED BY <1>3, BelowFinite

LEMMA RankBound ==
    ASSUME Logged, NEW e \in log
    PROVE  Cardinality(Below(e)) < Cardinality(log)
<1>1. e.seq \in Int
  BY EntrySeq DEF Logged, StoreTyped
<1>2. Below(e) \subseteq log /\ e \notin Below(e)
  BY <1>1 DEF Below
<1>3. Cardinality(Below(e)) <= Cardinality(log) /\ Cardinality(Below(e)) # Cardinality(log)
  BY <1>2, FS_Subset DEF Logged, StoreTyped
<1> QED BY <1>3, BelowFinite, FS_CardinalityType DEF Logged, StoreTyped

\* The n lowest entries are no more than n, and all the others are left.
LEMMA LowestCount ==
    ASSUME Logged, Numbered, NEW n \in Nat
    PROVE  /\ Cardinality(Lowest(n)) <= n
           /\ log \ Lowest(n) = {} \/ Cardinality(log \ Lowest(n)) <= Cardinality(log) - n
<1> DEFINE rank(e) == Cardinality(Below(e))
<1>1. \A e, f \in log : rank(e) = rank(f) => e = f
  <2>1. \A e, f \in log : e.seq \in Nat /\ f.seq \in Nat
    BY EntrySeq DEF Logged, StoreTyped
  <2>2. \A e, f \in log : rank(e) = rank(f) => e.seq = f.seq
    BY <2>1, RanksDiffer, BelowFinite
  <2> QED BY <2>2 DEF Numbered
<1>2. Lowest(n) = {e \in log : rank(e) < n}
  BY DEF Lowest, Below
<1>3. \A e \in log : rank(e) \in Nat /\ rank(e) < Cardinality(log)
  BY BelowFinite, RankBound
<1>4. Cardinality(log) \in Nat /\ IsFiniteSet(log)
  BY FS_CardinalityType DEF Logged, StoreTyped
<1> HIDE DEF rank
<1>5. Cardinality(Lowest(n)) <= n
  <2>1. IsFiniteSet(Lowest(n)) /\ Lowest(n) \subseteq log
    BY <1>2, <1>4, FS_Subset
  <2>2. PICK f : f = [e \in Lowest(n) |-> rank(e)]
    OBVIOUS
  <2>3. f \in [Lowest(n) -> 0..(n - 1)]
    BY <1>2, <1>3, <2>2
  <2>4. IsFiniteSet(0..(n - 1)) /\ Cardinality(0..(n - 1)) = n
    BY FS_Interval
  <2>5. \A x, y \in Lowest(n) : x # y => f[x] # f[y]
    BY <1>1, <2>1, <2>2
  <2>6. ~ (Cardinality(0..(n - 1)) < Cardinality(Lowest(n)))
    BY <2>1, <2>3, <2>4, <2>5, FS_PigeonHole
  <2> QED BY <2>1, <2>4, <2>6, FS_CardinalityType
<1>6. ASSUME log \ Lowest(n) # {}
      PROVE  Cardinality(log \ Lowest(n)) <= Cardinality(log) - n
  <2> DEFINE S == log \ Lowest(n)
             T == n..(Cardinality(log) - 1)
  <2>1. IsFiniteSet(S) /\ \A e \in S : e \in log /\ rank(e) \in T
    BY <1>2, <1>3, <1>4, FS_Subset
  <2>2. n <= Cardinality(log) - 1
    BY <1>2, <1>3, <1>4, <1>6
  <2>3. PICK f : f = [e \in S |-> rank(e)]
    OBVIOUS
  <2>4. f \in [S -> T] /\ \A x, y \in S : x # y => f[x] # f[y]
    BY <1>1, <2>1, <2>3
  <2>5. IsFiniteSet(T) /\ Cardinality(T) = Cardinality(log) - n
    BY <1>4, <2>2, FS_Interval
  <2> HIDE DEF S, T
  <2>6. ~ (Cardinality(T) < Cardinality(S))
    BY <2>1, <2>4, <2>5, FS_PigeonHole
  <2>7. Cardinality(S) \in Nat
    BY <2>1, FS_CardinalityType
  <2>8. Cardinality(S) <= Cardinality(log) - n
    BY <1>4, <2>5, <2>6, <2>7
  <2> QED BY <2>8 DEF S
<1> QED BY <1>5, <1>6

\* A trim of the n lowest leaves at least the rest, and nothing below what it left.
LEMMA LowestLeaves ==
    ASSUME Logged, Numbered, NEW n \in Nat
    PROVE  /\ Cardinality(log \ Lowest(n)) >= Cardinality(log) - n
           /\ \A g \in Lowest(n) : \A f \in log \ Lowest(n) : g.seq < f.seq
<1>1. IsFiniteSet(log) /\ Lowest(n) \subseteq log
  BY DEF Logged, StoreTyped, Lowest
<1>2. /\ IsFiniteSet(Lowest(n)) /\ IsFiniteSet(log \ Lowest(n))
      /\ Cardinality(Lowest(n)) \in Nat /\ Cardinality(log \ Lowest(n)) \in Nat /\ Cardinality(log) \in Nat
  BY <1>1, FS_Subset, FS_CardinalityType
<1>3. Cardinality(log) = Cardinality(Lowest(n)) + Cardinality(log \ Lowest(n))
  <2>1. log = Lowest(n) \cup (log \ Lowest(n)) /\ Lowest(n) \cap (log \ Lowest(n)) = {}
    BY <1>1
  <2> QED BY <1>2, <2>1, FS_Union, FS_EmptySet
<1>4. ASSUME NEW g \in Lowest(n), NEW f \in log \ Lowest(n) PROVE g.seq < f.seq
  <2>1. g \in log /\ Cardinality(Below(g)) < n /\ ~ (Cardinality(Below(f)) < n)
    BY <1>4 DEF Lowest, Below
  <2>2. g.seq \in Nat /\ f.seq \in Nat
    BY <2>1, EntrySeq DEF Logged, StoreTyped
  <2>3. CASE f.seq < g.seq
    BY <2>1, <2>3, RanksDiffer, BelowFinite
  <2>4. CASE f.seq = g.seq
    BY <2>1, <2>4 DEF Numbered
  <2> QED BY <2>2, <2>3, <2>4
<1> QED BY <1>2, <1>3, <1>4, LowestCount

-----------------------------------------------------------------------------
(* The bound of the changelog *)

\* The changelog is within its bound, or somebody has still to count it, or is about
\* to trim at least what is too much.
Bounded ==
    \/ Cardinality(log) <= MaxEntries
    \/ \E w \in Writers : AppendAt(w, "count")
    \/ \E w \in Writers : AppendAt(w, "oldest") /\ Cardinality(log) - append[w].excess <= MaxEntries
    \/ \E w \in Writers : AppendAt(w, "trim") /\ Cardinality(log \ append[w].old) <= MaxEntries

LEMMA LogCount == Logged => IsFiniteSet(log) /\ Cardinality(log) \in Nat
BY FS_CardinalityType DEF Logged, StoreTyped

LEMMA ShrinkCount ==
    ASSUME NEW S, NEW T, IsFiniteSet(S), T \subseteq S
    PROVE  /\ Cardinality(T) <= Cardinality(S) /\ Cardinality(T) \in Nat /\ Cardinality(S) \in Nat
           /\ IsFiniteSet(T)
BY FS_Subset, FS_CardinalityType

LEMMA BoundedOldest ==
    ASSUME Logged, Numbered, Bounded, NEW w \in Writers, AppendOldest(w)
    PROVE  Bounded'
<1>1. /\ append[w].pc = "oldest" /\ append'[w].pc = "trim" /\ log' = log
      /\ append'[w].old = Lowest(append[w].excess)
  BY OldestMoves DEF AppendOldest, AppendAt
<1>2. \A v \in Writers \ {w} : append'[v] = append[v]
  BY OldestMoves DEF Rest
<1>3. append[w].excess \in Nat
  BY <1>1 DEF Numbered, AppendAt
<1>4. CASE Cardinality(log) - append[w].excess <= MaxEntries
  <2>0. PICK n : n = append[w].excess
    OBVIOUS
  <2>1. Cardinality(log \ Lowest(n)) <= MaxEntries
    <3>1. log \ Lowest(n) = {} \/ Cardinality(log \ Lowest(n)) <= Cardinality(log) - n
      BY <1>3, <2>0, LowestCount
    <3>2. Cardinality(log) \in Nat /\ MaxEntries \in Nat /\ Cardinality(log \ Lowest(n)) \in Nat
      BY LogCount, Finite, FS_Subset, FS_CardinalityType
    <3>3. CASE log \ Lowest(n) = {}
      BY <3>2, <3>3, FS_EmptySet
    <3>4. CASE Cardinality(log \ Lowest(n)) <= Cardinality(log) - n
      BY <3>2, <3>4, <1>3, <1>4, <2>0
    <3> QED BY <3>1, <3>3, <3>4
  <2> QED BY <1>1, <2>0, <2>1 DEF Bounded, AppendAt
<1>5. CASE ~ (Cardinality(log) - append[w].excess <= MaxEntries)
  <2>1. CASE Cardinality(log) <= MaxEntries
    BY <2>1, <1>1 DEF Bounded
  <2>2. CASE \E v \in Writers : AppendAt(v, "count")
    BY <2>2, <1>1, <1>2 DEF Bounded, AppendAt
  <2>3. CASE \E v \in Writers : AppendAt(v, "oldest") /\ Cardinality(log) - append[v].excess <= MaxEntries
    BY <2>3, <1>1, <1>2, <1>5 DEF Bounded, AppendAt
  <2>4. CASE \E v \in Writers : AppendAt(v, "trim") /\ Cardinality(log \ append[v].old) <= MaxEntries
    BY <2>4, <1>1, <1>2 DEF Bounded, AppendAt
  <2> QED BY <2>1, <2>2, <2>3, <2>4 DEF Bounded
<1> QED BY <1>4, <1>5

LEMMA BoundedTrim ==
    ASSUME Logged, Bounded, NEW w \in Writers, AppendTrim(w)
    PROVE  Bounded'
<1>1. append[w].pc = "trim" /\ append'[w].pc = "idle" /\ log' = log \ append[w].old
  BY TrimMoves DEF AppendTrim, AppendAt
<1>2. \A v \in Writers \ {w} : append'[v] = append[v]
  BY TrimMoves DEF Rest
<1>3. Cardinality(log') <= Cardinality(log) /\ Cardinality(log) \in Nat /\ Cardinality(log') \in Nat
  BY <1>1, LogCount, ShrinkCount
<1>4. CASE Cardinality(log) <= MaxEntries
  BY <1>3, <1>4, Finite DEF Bounded
<1>5. CASE \E v \in Writers : AppendAt(v, "count")
  BY <1>5, <1>1, <1>2 DEF Bounded, AppendAt
<1>6. ASSUME NEW v \in Writers, AppendAt(v, "oldest"), Cardinality(log) - append[v].excess <= MaxEntries
      PROVE  Bounded'
  <2>1. v # w /\ append'[v] = append[v] /\ append[v] \in Appends
    BY <1>1, <1>2, <1>6 DEF AppendAt, Logged, AppendTyped
  <2>2. append[v].excess \in Int
    BY <2>1 DEF Appends
  <2>3. Cardinality(log') - append[v].excess <= MaxEntries
    BY <1>3, <1>6, <2>2, Finite
  <2> QED BY <1>6, <2>1, <2>3 DEF Bounded, AppendAt
<1>7. ASSUME NEW v \in Writers, AppendAt(v, "trim"), Cardinality(log \ append[v].old) <= MaxEntries
      PROVE  Bounded'
  <2>1. CASE v = w
    BY <1>1, <1>7, <2>1 DEF Bounded
  <2>2. CASE v # w
    <3>1. IsFiniteSet(log \ append[v].old) /\ log' \ append[v].old \subseteq log \ append[v].old
      BY <1>1, LogCount, FS_Subset
    <3>2. Cardinality(log' \ append[v].old) <= MaxEntries
      BY <1>7, <3>1, ShrinkCount, Finite
    <3> QED BY <1>2, <1>7, <2>2, <3>2 DEF Bounded, AppendAt
  <2> QED BY <2>1, <2>2
<1> QED BY <1>4, <1>5, <1>6, <1>7 DEF Bounded

LEMMA BoundedStep == Logged /\ Numbered /\ Bounded /\ [Next]_vars => Bounded'
<1> SUFFICES ASSUME Logged, Numbered, Bounded, [Next]_vars PROVE Bounded'
  OBVIOUS
<1>1. ASSUME NEW w \in Writers, AppendStep(w) PROVE Bounded'
  <2>1. CASE AppendIncr(w)
    <3>1. append[w].pc = "incr" /\ log' = log /\ \A v \in Writers \ {w} : append'[v] = append[v]
      BY <2>1, IncrMoves DEF AppendIncr, AppendAt, Rest
    <3> QED BY <3>1 DEF Bounded, AppendAt
  <2>2. CASE AppendInsert(w)
    <3>1. append'[w].pc = "count"
      BY <2>2, InsertMoves
    <3> QED BY <3>1 DEF Bounded, AppendAt
  <2>3. CASE AppendCount(w)
    <3>1. /\ append[w].pc = "count" /\ log' = log /\ Cardinality(log) \in Nat
          /\ \/ append'[w].pc = "oldest" /\ append'[w].excess = Cardinality(log) - MaxEntries
             \/ Cardinality(log) <= MaxEntries
      BY <2>3, CountMoves DEF AppendCount, AppendAt
    <3>2. Cardinality(log) - (Cardinality(log) - MaxEntries) <= MaxEntries
      BY <3>1, Finite
    <3> QED BY <3>1, <3>2 DEF Bounded, AppendAt
  <2>4. CASE AppendOldest(w)
    BY <2>4, BoundedOldest
  <2>5. CASE AppendTrim(w)
    BY <2>5, BoundedTrim
  <2> QED BY <1>1, <2>1, <2>2, <2>3, <2>4, <2>5, AppendCase
<1>2. ASSUME NEW w \in Writers, NEW kind \in Kinds, NEW id \in Ids, Write(w, kind, id) PROVE Bounded'
  <2>1. append[w].pc = "idle" /\ log' = log /\ \A v \in Writers \ {w} : append'[v] = append[v]
    BY <1>2, WriteMoves DEF Rest
  <2> QED BY <2>1 DEF Bounded, AppendAt
<1>3. CASE UNCHANGED stored
  BY <1>3 DEF stored, Bounded, AppendAt
<1> QED BY <1>1, <1>2, <1>3, StoreSteps

-----------------------------------------------------------------------------
(* The window of the changelog, with two writers *)

\* At most two requests are in flight at a time.
Pairs == \A u, v, w \in Writers : u = v \/ v = w \/ u = w

\* What will be left of the changelog when every trim that has read its entries is done.
Kept == {e \in log : \A w \in Writers : AppendAt(w, "trim") => e \notin append[w].old}

\* A number that is neither in the changelog to stay nor held by an append that has
\* still to insert it: once missing, missing for good.
Missing(m) ==
    /\ \A e \in Kept : e.seq # m
    /\ \A w \in Writers : AppendAt(w, "insert") => append[w].entry.seq # m
HoleAbove(n) == \E m \in (n + 1)..seq : Missing(m)

\* A trim about to happen leaves enough, or reaches only below what is still to come.
TrimsBelow ==
    \A w, v \in Writers : v # w /\ AppendAt(w, "insert") /\ AppendAt(v, "oldest") =>
        \/ Cardinality(log) - append[v].excess >= MaxEntries
        \/ \A e \in log : e.seq < append[w].entry.seq

\* An entry that will be inserted below a hole will be the lowest, and one too many.
BelowHole(w) == HoleAbove(append[w].entry.seq)
ComesLowest(w) ==
    /\ \A e \in Kept : append[w].entry.seq < e.seq
    /\ \A v \in Writers \ {w} : AppendAt(v, "insert") => append[w].entry.seq < append[v].entry.seq
    /\ \A v \in Writers \ {w} : AppendAt(v, "oldest") => Cardinality(log) - append[v].excess >= MaxEntries
    /\ (\A v \in Writers \ {w} : ~ AppendAt(v, "oldest")) => Cardinality(Kept) >= MaxEntries
LateIsLowest ==
    \A w \in Writers : AppendAt(w, "insert") /\ BelowHole(w) => ComesLowest(w)

\* An entry that was inserted below a hole is removed by its own append.
RemovedBy(w, f) ==
    /\ append[w].entry = f
    /\ \A e \in Kept : f.seq <= e.seq
    /\ \A v \in Writers \ {w} : AppendAt(v, "insert") => f.seq < append[v].entry.seq
    /\ \/ AppendAt(w, "count") /\ Cardinality(Kept) > MaxEntries
       \/ AppendAt(w, "oldest") /\ Cardinality(log \ Kept) < append[w].excess
LateIsRemoved ==
    \A f \in Kept : HoleAbove(f.seq) => \E w \in Writers : RemovedBy(w, f)

Contiguous == TrimsBelow /\ LateIsLowest /\ LateIsRemoved

LEMMA KeptFacts ==
    ASSUME Logged, Numbered
    PROVE  /\ Kept \subseteq log /\ IsFiniteSet(Kept) /\ Cardinality(Kept) \in Nat
           /\ Cardinality(Kept) <= Cardinality(log) /\ Cardinality(log) \in Nat
           /\ \A e \in log : e.seq \in 1..seq /\ e.seq \in Nat
           /\ seq \in Nat
           /\ \A w \in Writers : AppendAt(w, "insert") =>
                 append[w].entry.seq \in 1..seq /\ append[w].entry.seq \in Nat
<1>1. Kept \subseteq log
  BY DEF Kept
<1>2. seq \in Nat
  BY SeqNat
<1> QED BY <1>1, <1>2, LogCount, ShrinkCount DEF Numbered

\* A number taken is never missing, and what is missing stays missing.
LEMMA HolesStay ==
    ASSUME seq \in Nat, NEW n \in Nat, \A m \in 1..seq : Missing(m)' => Missing(m),
           \/ seq' = seq
           \/ seq' = seq + 1 /\ \A m : m = seq + 1 => ~ Missing(m)',
           HoleAbove(n)'
    PROVE  HoleAbove(n)
<1>1. PICK m \in (n + 1)..seq' : Missing(m)'
  BY DEF HoleAbove
<1>2. m \in 1..seq
  BY <1>1
<1> QED BY <1>1, <1>2 DEF HoleAbove

LEMMA BelowHoleAt ==
    ASSUME NEW w \in Writers, NEW n, n = append'[w].entry.seq
    PROVE  BelowHole(w)' <=> HoleAbove(n)'
BY DEF BelowHole, HoleAbove

LEMMA ContiguousIncr ==
    ASSUME Logged, Numbered, Contiguous, NEW w \in Writers, AppendIncr(w)
    PROVE  Contiguous'
<1>1. /\ append[w].pc = "incr" /\ append'[w].pc = "insert" /\ append'[w].entry.seq = seq + 1
      /\ seq' = seq + 1 /\ log' = log
  <2>1. append[w].entry \in Entry /\ append'[w].entry = [append[w].entry EXCEPT !.seq = seq + 1]
    BY IncrMoves
  <2>2. append'[w].entry.seq = seq + 1
    BY <2>1 DEF Entry
  <2> QED BY <2>2, IncrMoves DEF AppendIncr, AppendAt
<1>2. \A v \in Writers \ {w} : append'[v] = append[v]
  BY IncrMoves DEF Rest
<1>3. Kept' = Kept
  BY <1>1, <1>2 DEF Kept, AppendAt
<1>4. \A m \in 1..seq : Missing(m)' => Missing(m)
  BY <1>1, <1>2, <1>3 DEF Missing, AppendAt
<1>5. \A m : m = seq + 1 => ~ Missing(m)'
  BY <1>1 DEF Missing, AppendAt
<1>6. \A n \in Nat : HoleAbove(n)' => HoleAbove(n)
  BY <1>1, <1>4, <1>5, KeptFacts, HolesStay
<1>7. \A n : n = seq + 1 => ~ HoleAbove(n)'
  BY <1>1, KeptFacts DEF HoleAbove
<1>8. TrimsBelow'
  <2> SUFFICES ASSUME NEW u \in Writers, NEW v \in Writers, v # u, AppendAt(u, "insert")', AppendAt(v, "oldest")'
               PROVE  (\/ Cardinality(log) - append[v].excess >= MaxEntries
                       \/ \A e \in log : e.seq < append[u].entry.seq)'
    BY DEF TrimsBelow
  <2>1. v # w /\ append'[v] = append[v] /\ AppendAt(v, "oldest")
    BY <1>1, <1>2 DEF AppendAt
  <2>2. CASE u = w
    BY <1>1, <2>2, KeptFacts
  <2>3. CASE u # w
    BY <1>1, <1>2, <2>1, <2>3 DEF Contiguous, TrimsBelow, AppendAt
  <2> QED BY <2>2, <2>3
<1>9. LateIsLowest'
  <2> SUFFICES ASSUME NEW u \in Writers, AppendAt(u, "insert")', BelowHole(u)'
               PROVE  ComesLowest(u)'
    BY DEF LateIsLowest
  <2>1. u # w
    BY <1>1, <1>7, BelowHoleAt
  <2>2. append'[u] = append[u] /\ AppendAt(u, "insert") /\ BelowHole(u)
    BY <1>2, <1>6, <2>1, BelowHoleAt, KeptFacts DEF AppendAt, BelowHole
  <2>3. ComesLowest(u)
    BY <2>2 DEF Contiguous, LateIsLowest
  <2>4. append[u].entry.seq < seq + 1
    BY <2>2, KeptFacts
  <2> QED BY <1>1, <1>2, <1>3, <2>2, <2>3, <2>4 DEF ComesLowest, AppendAt
<1>10. LateIsRemoved'
  <2> SUFFICES ASSUME NEW f \in Kept, HoleAbove(f.seq)'
               PROVE  \E u \in Writers : RemovedBy(u, f)'
    BY <1>3 DEF LateIsRemoved
  <2>1. f.seq \in Nat /\ f.seq < seq + 1
    BY KeptFacts
  <2>2. HoleAbove(f.seq)
    BY <1>6, <2>1
  <2>3. PICK u \in Writers : RemovedBy(u, f)
    BY <2>2 DEF Contiguous, LateIsRemoved
  <2>4. u # w
    BY <1>1, <2>3 DEF RemovedBy, AppendAt
  <2> QED BY <1>1, <1>2, <1>3, <2>1, <2>3, <2>4 DEF RemovedBy, AppendAt
<1> QED BY <1>8, <1>9, <1>10 DEF Contiguous

LEMMA ContiguousInsert ==
    ASSUME Logged, Numbered, Pairs, Contiguous, NEW w \in Writers, AppendInsert(w)
    PROVE  Contiguous'
<1> DEFINE e == append[w].entry
<1>1. /\ append[w].pc = "insert" /\ append'[w].pc = "count" /\ append'[w].entry = e
      /\ seq' = seq /\ log' = log \cup {e} /\ e \notin log /\ e.seq \in Nat
  <2>1. /\ append[w].pc = "insert" /\ append'[w].pc = "count" /\ append'[w].entry = e
        /\ seq' = seq /\ log' = log \cup {e}
    BY InsertMoves DEF AppendInsert, AppendAt
  <2> QED BY <2>1, KeptFacts DEF Numbered, AppendAt
<1>2. \A v \in Writers \ {w} : append'[v] = append[v]
  BY InsertMoves DEF Rest
<1> HIDE DEF e
<1>3. Kept' = Kept \cup {e} /\ e \notin Kept
  <2>1. \A v \in Writers : AppendAt(v, "trim") => e \notin append[v].old
    BY <1>1 DEF Numbered, AppendAt, e
  <2> QED BY <1>1, <1>2, <2>1 DEF Kept, AppendAt
<1>4. \A m : Missing(m)' => Missing(m)
  BY <1>1, <1>2, <1>3 DEF Missing, AppendAt, e
<1>5. \A n \in Nat : HoleAbove(n)' => HoleAbove(n)
  BY <1>1, <1>4, KeptFacts, HolesStay
<1>6. Cardinality(Kept') = Cardinality(Kept) + 1 /\ Cardinality(log') = Cardinality(log) + 1
  BY <1>1, <1>3, KeptFacts, LogCount, FS_AddElement
<1>7. log' \ Kept' = log \ Kept
  BY <1>1, <1>3
<1>8. TrimsBelow'
  \* the other writer of such a pair would be the third
  BY <1>1, <1>2 DEF TrimsBelow, Pairs, AppendAt
<1>9. LateIsLowest'
  <2> SUFFICES ASSUME NEW u \in Writers, AppendAt(u, "insert")', BelowHole(u)'
               PROVE  ComesLowest(u)'
    BY DEF LateIsLowest
  <2>1. u # w /\ append'[u] = append[u] /\ AppendAt(u, "insert")
    BY <1>1, <1>2 DEF AppendAt
  <2>2. BelowHole(u)
    BY <1>5, <2>1, BelowHoleAt, KeptFacts DEF BelowHole
  <2>3. ComesLowest(u)
    BY <2>1, <2>2 DEF Contiguous, LateIsLowest
  <2>4. append[u].entry.seq < e.seq
    BY <1>1, <2>1, <2>3 DEF ComesLowest, AppendAt, e
  <2>5. \A v \in Writers \ {u} : v = w
    BY <2>1 DEF Pairs
  <2>6. Cardinality(Kept) >= MaxEntries
    BY <1>1, <2>3, <2>5 DEF ComesLowest, AppendAt
  <2>7. \A v \in Writers \ {u} : ~ AppendAt(v, "insert")' /\ ~ AppendAt(v, "oldest")'
    BY <1>1, <2>5 DEF AppendAt
  <2>8. Cardinality(Kept') >= MaxEntries
    BY <1>6, <2>6, KeptFacts, Finite
  <2>9. \A x \in Kept' : append'[u].entry.seq < x.seq
    BY <1>3, <2>1, <2>3, <2>4 DEF ComesLowest
  <2> QED BY <2>7, <2>8, <2>9 DEF ComesLowest
<1>10. LateIsRemoved'
  <2> SUFFICES ASSUME NEW f \in Kept', HoleAbove(f.seq)'
               PROVE  \E u \in Writers : RemovedBy(u, f)'
    BY DEF LateIsRemoved
  <2>1. CASE f = e
    <3>1. BelowHole(w)
      BY <1>1, <1>5, <2>1 DEF BelowHole, e
    <3>2. ComesLowest(w)
      BY <1>1, <3>1 DEF Contiguous, LateIsLowest, AppendAt
    <3>3. Cardinality(Kept) >= MaxEntries
      <4>1. CASE \A v \in Writers \ {w} : ~ AppendAt(v, "oldest")
        BY <3>2, <4>1 DEF ComesLowest
      <4>2. ASSUME NEW v \in Writers \ {w}, AppendAt(v, "oldest")
            PROVE  Cardinality(Kept) >= MaxEntries
        <5>1. \A u \in Writers : ~ AppendAt(u, "trim")
          BY <1>1, <4>2 DEF Pairs, AppendAt
        <5>2. Kept = log
          BY <5>1 DEF Kept
        <5>3. Cardinality(log) - append[v].excess >= MaxEntries /\ append[v].excess \in Nat
          BY <3>2, <4>2 DEF ComesLowest, Numbered
        <5> QED BY <5>2, <5>3, KeptFacts, Finite
      <4> QED BY <4>1, <4>2
    <3>4. Cardinality(Kept') > MaxEntries
      BY <1>6, <3>3, KeptFacts, Finite
    <3>5. \A x \in Kept' : f.seq <= x.seq
      <4>1. \A x \in Kept : e.seq < x.seq /\ x.seq \in Nat
        BY <3>2, KeptFacts DEF ComesLowest, e
      <4> QED BY <1>1, <1>3, <2>1, <4>1
    <3>6. \A v \in Writers \ {w} : AppendAt(v, "insert")' => f.seq < append'[v].entry.seq
      BY <1>2, <2>1, <3>2 DEF ComesLowest, AppendAt, e
    <3> QED BY <1>1, <2>1, <3>4, <3>5, <3>6 DEF RemovedBy, AppendAt
  <2>2. CASE f \in Kept
    <3>1. f.seq \in Nat /\ HoleAbove(f.seq)
      BY <1>5, <2>2, KeptFacts
    <3>2. PICK u \in Writers : RemovedBy(u, f)
      BY <2>2, <3>1 DEF Contiguous, LateIsRemoved
    <3>3. u # w /\ append'[u] = append[u]
      BY <1>1, <1>2, <3>2 DEF RemovedBy, AppendAt
    <3>4. f.seq < e.seq
      BY <1>1, <3>2, <3>3 DEF RemovedBy, AppendAt, e
    <3>5. \A x \in Kept' : f.seq <= x.seq
      BY <1>1, <1>3, <3>1, <3>2, <3>4 DEF RemovedBy
    <3>6. \A v \in Writers \ {u} : AppendAt(v, "insert")' => f.seq < append'[v].entry.seq
      BY <1>1, <1>2, <3>2 DEF RemovedBy, AppendAt
    <3>7. Cardinality(Kept') > Cardinality(Kept)
      BY <1>6, KeptFacts
    <3>8. \/ AppendAt(u, "count")' /\ Cardinality(Kept') > MaxEntries
          \/ AppendAt(u, "oldest")' /\ Cardinality(log' \ Kept') < append'[u].excess
      <4>1. CASE AppendAt(u, "count") /\ Cardinality(Kept) > MaxEntries
        BY <3>3, <4>1, <1>6, KeptFacts, Finite DEF AppendAt
      <4>2. CASE AppendAt(u, "oldest") /\ Cardinality(log \ Kept) < append[u].excess
        BY <3>3, <4>2, <1>7 DEF AppendAt
      <4> QED BY <3>2, <4>1, <4>2 DEF RemovedBy
    <3> QED BY <3>2, <3>3, <3>5, <3>6, <3>8 DEF RemovedBy
  <2> QED BY <1>3, <2>1, <2>2
<1> QED BY <1>8, <1>9, <1>10 DEF Contiguous

LEMMA Remainder ==
    ASSUME NEW S, NEW T, IsFiniteSet(S), T \subseteq S
    PROVE  Cardinality(S \ T) = Cardinality(S) - Cardinality(T)
<1>1. S \cap T = T
  OBVIOUS
<1> QED BY <1>1, FS_Difference

LEMMA ContiguousCount ==
    ASSUME Logged, Numbered, Pairs, Contiguous, NEW w \in Writers, AppendCount(w)
    PROVE  Contiguous'
<1>1. append[w].pc = "count" /\ seq' = seq /\ log' = log
  BY DEF AppendCount, AppendAt
<1>2. \/ /\ Cardinality(log) > MaxEntries /\ append'[w].pc = "oldest"
         /\ append'[w].excess = Cardinality(log) - MaxEntries
         /\ append'[w].entry = append[w].entry
      \/ Cardinality(log) <= MaxEntries /\ append'[w].pc = "idle"
  BY CountMoves, IdleRecord
<1>3. \A v \in Writers \ {w} : append'[v] = append[v]
  BY CountMoves DEF Rest
<1>4. append'[w].pc \in {"oldest", "idle"}
  BY <1>2
<1>5. Kept' = Kept
  BY <1>1, <1>3, <1>4 DEF Kept, AppendAt
<1>6. \A m : Missing(m)' => Missing(m)
  BY <1>1, <1>3, <1>4, <1>5 DEF Missing, AppendAt
<1>7. \A n \in Nat : HoleAbove(n)' => HoleAbove(n)
  BY <1>1, <1>6, KeptFacts, HolesStay
<1>8. append'[w].pc = "oldest" => Cardinality(log) - append'[w].excess >= MaxEntries
  BY <1>2, KeptFacts, Finite
<1>9. TrimsBelow'
  BY <1>1, <1>3, <1>4, <1>8 DEF Contiguous, TrimsBelow, AppendAt
<1>10. LateIsLowest'
  <2> SUFFICES ASSUME NEW u \in Writers, AppendAt(u, "insert")', BelowHole(u)'
               PROVE  ComesLowest(u)'
    BY DEF LateIsLowest
  <2>1. u # w /\ append'[u] = append[u] /\ AppendAt(u, "insert")
    BY <1>3, <1>4 DEF AppendAt
  <2>2. BelowHole(u)
    BY <1>7, <2>1, BelowHoleAt, KeptFacts DEF BelowHole
  <2>3. ComesLowest(u)
    BY <2>1, <2>2 DEF Contiguous, LateIsLowest
  <2>4. \A v \in Writers \ {u} : v = w
    BY <2>1 DEF Pairs
  <2>5. Cardinality(Kept) >= MaxEntries
    BY <1>1, <2>3, <2>4 DEF ComesLowest, AppendAt
  <2> QED BY <1>1, <1>4, <1>5, <1>8, <2>1, <2>3, <2>4, <2>5 DEF ComesLowest, AppendAt
<1>11. LateIsRemoved'
  <2> SUFFICES ASSUME NEW f \in Kept, HoleAbove(f.seq)'
               PROVE  \E u \in Writers : RemovedBy(u, f)'
    BY <1>5 DEF LateIsRemoved
  <2>1. HoleAbove(f.seq)
    BY <1>7, KeptFacts
  <2>2. PICK u \in Writers : RemovedBy(u, f)
    BY <2>1 DEF Contiguous, LateIsRemoved
  <2>3. \A v \in Writers \ {u} : AppendAt(v, "insert")' => f.seq < append'[v].entry.seq
    BY <1>3, <1>4, <2>2 DEF RemovedBy, AppendAt
  <2>4. CASE u # w
    BY <1>1, <1>3, <1>5, <2>2, <2>3, <2>4 DEF RemovedBy, AppendAt
  <2>5. CASE u = w
    <3>1. Cardinality(Kept) > MaxEntries
      BY <1>1, <2>2, <2>5 DEF RemovedBy, AppendAt
    <3>2. /\ append'[w].pc = "oldest" /\ append'[w].excess = Cardinality(log) - MaxEntries
          /\ append'[w].entry = append[w].entry
      BY <1>2, <3>1, KeptFacts, Finite
    <3>3. Cardinality(log \ Kept) = Cardinality(log) - Cardinality(Kept)
      BY KeptFacts, LogCount, Remainder
    <3>4. Cardinality(log \ Kept) < append'[w].excess
      BY <3>1, <3>2, <3>3, KeptFacts, Finite
    <3> QED BY <1>1, <1>5, <2>2, <2>3, <2>5, <3>2, <3>4 DEF RemovedBy, AppendAt
  <2> QED BY <2>4, <2>5
<1> QED BY <1>9, <1>10, <1>11 DEF Contiguous

LEMMA ContiguousOldest ==
    ASSUME Logged, Numbered, Pairs, Contiguous, NEW w \in Writers, AppendOldest(w)
    PROVE  Contiguous'
<1> DEFINE low == Lowest(append[w].excess)
<1>1. /\ append[w].pc = "oldest" /\ seq' = seq /\ log' = log
      /\ append'[w].pc = "trim" /\ append'[w].old = low
  BY OldestMoves DEF AppendOldest, AppendAt
<1>2. \A v \in Writers \ {w} : append'[v] = append[v]
  BY OldestMoves DEF Rest
<1>3. append[w].excess \in Nat \ {0}
  BY <1>1 DEF Numbered, AppendAt
<1>4. /\ low \subseteq log
      /\ Cardinality(log \ low) >= Cardinality(log) - append[w].excess
      /\ \A g \in low : \A f \in log \ low : g.seq < f.seq
  <2>1. PICK n \in Nat : n = append[w].excess
    BY <1>3
  <2>2. /\ Lowest(n) \subseteq log
        /\ Cardinality(log \ Lowest(n)) >= Cardinality(log) - n
        /\ \A g \in Lowest(n) : \A f \in log \ Lowest(n) : g.seq < f.seq
    BY LowestLeaves, LowestRead
  <2> QED BY <2>1, <2>2
<1>5. ASSUME NEW f \in Kept, \A x \in Kept : f.seq <= x.seq, Cardinality(log \ Kept) < append[w].excess
      PROVE  f \in low
  <2>1. Below(f) \subseteq log \ Kept
    <3>1. f.seq \in Nat /\ \A x \in log : x.seq \in Nat
      BY KeptFacts
    <3> QED BY <1>5, <3>1 DEF Below
  <2>2. Cardinality(Below(f)) <= Cardinality(log \ Kept) /\ Cardinality(log \ Kept) \in Nat
    BY <2>1, LogCount, FS_Subset, FS_CardinalityType
  <2>3. Cardinality(Below(f)) < append[w].excess
    BY <1>3, <1>5, <2>2, BelowFinite
  <2> QED BY <2>3, KeptFacts DEF Lowest, Below
<1> HIDE DEF low
<1>6. Kept' = Kept \ low
  BY <1>1, <1>2 DEF Kept, AppendAt
<1>7. \A m : Missing(m)' => Missing(m) \/ \E g \in low : g.seq = m
  BY <1>1, <1>2, <1>6 DEF Missing, AppendAt
<1>8. ASSUME NEW n \in Nat, HoleAbove(n)', \A g \in low : g.seq <= n
      PROVE  HoleAbove(n)
  <2>1. PICK m \in (n + 1)..seq : Missing(m)'
    BY <1>1, <1>8 DEF HoleAbove
  <2>2. \A g \in low : g.seq # m
    BY <1>4, <1>8, <2>1, KeptFacts
  <2> QED BY <1>7, <2>1, <2>2 DEF HoleAbove
<1>9. TrimsBelow'
  BY <1>1, <1>2 DEF TrimsBelow, Pairs, AppendAt
<1>10. LateIsLowest'
  <2> SUFFICES ASSUME NEW u \in Writers, AppendAt(u, "insert")', BelowHole(u)'
               PROVE  ComesLowest(u)'
    BY DEF LateIsLowest
  <2>1. u # w /\ append'[u] = append[u] /\ AppendAt(u, "insert")
    BY <1>1, <1>2 DEF AppendAt
  <2>2. \A v \in Writers \ {u} : v = w
    BY <2>1 DEF Pairs
  <2>3. \A v \in Writers : ~ AppendAt(v, "trim")
    BY <1>1, <2>1, <2>2 DEF AppendAt
  <2>4. Kept = log
    BY <2>3 DEF Kept
  <2>5. PICK n \in Nat : n = append[u].entry.seq
    BY <2>1, KeptFacts
  <2>6. Cardinality(log) - append[w].excess >= MaxEntries /\ \A x \in Kept' : n < x.seq
    <3>1. CASE HoleAbove(n)
      <4>1. ComesLowest(u)
        BY <2>1, <2>5, <3>1 DEF Contiguous, LateIsLowest, BelowHole
      <4> QED BY <1>1, <1>6, <2>1, <2>5, <4>1 DEF ComesLowest, AppendAt
    <3>2. CASE ~ HoleAbove(n)
      <4>1. HoleAbove(n)'
        BY <2>1, <2>5, BelowHoleAt
      <4>2. PICK g \in low : ~ (g.seq <= n)
        BY <1>8, <3>2, <4>1
      <4>3. g.seq > n /\ g \in log /\ \A x \in log : x.seq \in Nat
        BY <1>4, <4>2, KeptFacts
      <4>4. Cardinality(log) - append[w].excess >= MaxEntries
        BY <1>1, <2>1, <2>5, <4>3 DEF Contiguous, TrimsBelow, AppendAt
      <4>5. \A x \in log \ low : n < x.seq
        BY <1>4, <4>3
      <4> QED BY <1>6, <2>4, <4>4, <4>5
    <3> QED BY <3>1, <3>2
  <2>7. Cardinality(Kept') >= MaxEntries
    <3>1. Cardinality(log \ low) \in Nat
      BY LogCount, FS_Subset, FS_CardinalityType
    <3> QED BY <1>3, <1>4, <1>6, <2>4, <2>6, <3>1, KeptFacts, Finite
  <2>8. \A v \in Writers \ {u} : ~ AppendAt(v, "insert")' /\ ~ AppendAt(v, "oldest")'
    BY <1>1, <2>2 DEF AppendAt
  <2> QED BY <2>1, <2>5, <2>6, <2>7, <2>8 DEF ComesLowest
<1>11. LateIsRemoved'
  <2> SUFFICES ASSUME NEW f \in Kept', HoleAbove(f.seq)'
               PROVE  FALSE
    BY DEF LateIsRemoved
  <2>1. f \in Kept /\ f \notin low /\ f \in log /\ f.seq \in Nat
    BY <1>6, KeptFacts
  <2>2. \A g \in low : g.seq <= f.seq
    BY <1>4, <2>1, KeptFacts
  <2>3. HoleAbove(f.seq)
    BY <1>8, <2>1, <2>2
  <2>4. PICK u \in Writers : RemovedBy(u, f)
    BY <2>1, <2>3 DEF Contiguous, LateIsRemoved
  <2>5. CASE u = w
    BY <1>1, <1>5, <2>1, <2>4, <2>5 DEF RemovedBy, AppendAt
  <2>6. CASE u # w
    <3>1. append[u].pc \in {"count", "oldest"}
      BY <2>4 DEF RemovedBy, AppendAt
    <3>2. \A v \in Writers : v = u \/ v = w
      BY <2>6 DEF Pairs
    <3>3. \A v \in Writers : ~ AppendAt(v, "trim")
      BY <1>1, <3>1, <3>2 DEF AppendAt
    <3>4. Kept = log /\ log \ Kept = {} /\ Cardinality(log \ Kept) = 0
      BY <3>3, FS_EmptySet DEF Kept
    <3>5. Cardinality(log \ Kept) < append[w].excess
      BY <1>3, <3>4
    <3> QED BY <1>5, <2>1, <2>4, <3>5 DEF RemovedBy
  <2> QED BY <2>5, <2>6
<1> QED BY <1>9, <1>10, <1>11 DEF Contiguous

LEMMA ContiguousTrim ==
    ASSUME Logged, Numbered, Pairs, Contiguous, NEW w \in Writers, AppendTrim(w)
    PROVE  Contiguous'
<1>1. /\ append[w].pc = "trim" /\ append'[w].pc = "idle"
      /\ seq' = seq /\ log' = log \ append[w].old
  BY TrimMoves DEF AppendTrim, AppendAt
<1>2. \A v \in Writers \ {w} : append'[v] = append[v]
  BY TrimMoves DEF Rest
<1>3. Kept' = Kept
  BY <1>1, <1>2 DEF Kept, AppendAt
<1>4. \A m : Missing(m)' => Missing(m)
  BY <1>1, <1>2, <1>3 DEF Missing, AppendAt
<1>5. \A n \in Nat : HoleAbove(n)' => HoleAbove(n)
  BY <1>1, <1>4, KeptFacts, HolesStay
<1>6. TrimsBelow'
  BY <1>1, <1>2 DEF TrimsBelow, Pairs, AppendAt
<1>7. LateIsLowest'
  <2> SUFFICES ASSUME NEW u \in Writers, AppendAt(u, "insert")', BelowHole(u)'
               PROVE  ComesLowest(u)'
    BY DEF LateIsLowest
  <2>1. u # w /\ append'[u] = append[u] /\ AppendAt(u, "insert")
    BY <1>1, <1>2 DEF AppendAt
  <2>2. BelowHole(u)
    BY <1>5, <2>1, BelowHoleAt, KeptFacts DEF BelowHole
  <2>3. ComesLowest(u)
    BY <2>1, <2>2 DEF Contiguous, LateIsLowest
  <2>4. \A v \in Writers \ {u} : v = w
    BY <2>1 DEF Pairs
  <2> QED BY <1>1, <1>3, <2>1, <2>3, <2>4 DEF ComesLowest, AppendAt
<1>8. LateIsRemoved'
  <2> SUFFICES ASSUME NEW f \in Kept, HoleAbove(f.seq)'
               PROVE  \E u \in Writers : RemovedBy(u, f)'
    BY <1>3 DEF LateIsRemoved
  <2>1. HoleAbove(f.seq)
    BY <1>5, KeptFacts
  <2>2. PICK u \in Writers : RemovedBy(u, f)
    BY <2>1 DEF Contiguous, LateIsRemoved
  <2>3. u # w /\ append'[u] = append[u]
    BY <1>1, <1>2, <2>2 DEF RemovedBy, AppendAt
  <2>4. \A v \in Writers \ {u} : AppendAt(v, "insert")' => f.seq < append'[v].entry.seq
    BY <1>1, <1>2, <2>2 DEF RemovedBy, AppendAt
  <2>5. Cardinality(log' \ Kept') <= Cardinality(log \ Kept) /\ Cardinality(log' \ Kept') \in Nat
        /\ Cardinality(log \ Kept) \in Nat
    <3>1. log' \ Kept' \subseteq log \ Kept /\ IsFiniteSet(log \ Kept)
      BY <1>1, <1>3, LogCount, FS_Subset
    <3> QED BY <3>1, ShrinkCount
  <2>6. AppendAt(u, "oldest") => append[u].excess \in Nat
    BY DEF Numbered
  <2>7. \/ AppendAt(u, "count")' /\ Cardinality(Kept') > MaxEntries
        \/ AppendAt(u, "oldest")' /\ Cardinality(log' \ Kept') < append'[u].excess
    BY <1>3, <2>2, <2>3, <2>5, <2>6 DEF RemovedBy, AppendAt
  <2> QED BY <1>3, <2>2, <2>3, <2>4, <2>7 DEF RemovedBy
<1> QED BY <1>6, <1>7, <1>8 DEF Contiguous

LEMMA ContiguousWrite ==
    ASSUME Logged, Numbered, Contiguous, NEW w \in Writers, append[w].pc = "idle", append'[w].pc = "incr",
           Rest(w), UNCHANGED <<seq, log>>
    PROVE  Contiguous'
<1>1. \A v \in Writers \ {w} : append'[v] = append[v]
  BY DEF Rest
<1>2. Kept' = Kept
  BY <1>1 DEF Kept, AppendAt
<1>3. \A m : Missing(m)' => Missing(m)
  BY <1>1, <1>2 DEF Missing, AppendAt
<1>4. \A n \in Nat : HoleAbove(n)' => HoleAbove(n)
  BY <1>3, KeptFacts, HolesStay
<1>5. TrimsBelow'
  BY <1>1 DEF Contiguous, TrimsBelow, AppendAt
<1>6. LateIsLowest'
  <2> SUFFICES ASSUME NEW u \in Writers, AppendAt(u, "insert")', BelowHole(u)'
               PROVE  ComesLowest(u)'
    BY DEF LateIsLowest
  <2>1. u # w /\ append'[u] = append[u] /\ AppendAt(u, "insert")
    BY <1>1 DEF AppendAt
  <2>2. BelowHole(u)
    BY <1>4, <2>1, BelowHoleAt, KeptFacts DEF BelowHole
  <2>3. ComesLowest(u)
    BY <2>1, <2>2 DEF Contiguous, LateIsLowest
  <2> QED BY <1>1, <1>2, <2>1, <2>3 DEF ComesLowest, AppendAt
<1>7. LateIsRemoved'
  <2> SUFFICES ASSUME NEW f \in Kept, HoleAbove(f.seq)'
               PROVE  \E u \in Writers : RemovedBy(u, f)'
    BY <1>2 DEF LateIsRemoved
  <2>1. HoleAbove(f.seq)
    BY <1>4, KeptFacts
  <2>2. PICK u \in Writers : RemovedBy(u, f)
    BY <2>1 DEF Contiguous, LateIsRemoved
  <2> QED BY <1>1, <1>2, <2>2 DEF RemovedBy, AppendAt
<1> QED BY <1>5, <1>6, <1>7 DEF Contiguous

LEMMA ContiguousIdle ==
    ASSUME Contiguous, UNCHANGED <<seq, log, append>>
    PROVE  Contiguous'
<1>1. Kept' = Kept
  BY DEF Kept, AppendAt
<1>2. \A n : HoleAbove(n)' <=> HoleAbove(n)
  BY <1>1 DEF HoleAbove, Missing, AppendAt
<1>3. TrimsBelow'
  BY DEF Contiguous, TrimsBelow, AppendAt
<1>4. LateIsLowest'
  BY <1>1, <1>2, BelowHoleAt DEF Contiguous, LateIsLowest, ComesLowest, BelowHole, AppendAt
<1>5. LateIsRemoved'
  BY <1>1, <1>2 DEF Contiguous, LateIsRemoved, RemovedBy, AppendAt
<1> QED BY <1>3, <1>4, <1>5 DEF Contiguous

LEMMA ContiguousStep ==
    ASSUME Logged, Numbered, Pairs, Contiguous, [Next]_vars
    PROVE  Contiguous'
<1>1. CASE \E w \in Writers : AppendStep(w)
  BY <1>1, AppendCase, ContiguousIncr, ContiguousInsert, ContiguousCount, ContiguousOldest, ContiguousTrim
<1>2. CASE \E w \in Writers, kind \in Kinds, id \in Ids : Write(w, kind, id)
  BY <1>2, WriteMoves, ContiguousWrite
<1>3. CASE UNCHANGED stored
  BY <1>3, ContiguousIdle DEF stored
<1> QED BY <1>1, <1>2, <1>3, StoreSteps

Window == Logged /\ Numbered /\ Bounded /\ (Pairs => Contiguous)

LEMMA InitWindow == Init => Window
<1> SUFFICES ASSUME Init PROVE Window
  OBVIOUS
<1>1. \A w \in Writers : append[w].pc = "idle"
  BY DEF Init, IdleAppend
<1>2. Numbered
  BY <1>1 DEF Init, Numbered, AppendAt
<1>3. Bounded
  BY Finite, FS_EmptySet DEF Init, Bounded
<1>4. Contiguous
  BY <1>1 DEF Init, Contiguous, TrimsBelow, LateIsLowest, LateIsRemoved, Kept, AppendAt
<1> QED BY <1>2, <1>3, <1>4, InitLogged DEF Window

LEMMA WindowMeets == Window /\ Pairs => WindowContiguous
<1> SUFFICES ASSUME Window, Pairs, Appended
             PROVE  /\ Cardinality(log) <= MaxEntries
                    /\ \A e \in log : \A n \in e.seq..seq : \E f \in log : f.seq = n
  BY DEF WindowContiguous
<1>1. \A w \in Writers : append[w].pc = "idle"
  BY DEF Appended
<1>2. Cardinality(log) <= MaxEntries
  BY <1>1 DEF Window, Bounded, AppendAt
<1>3. Kept = log
  BY <1>1 DEF Kept, AppendAt
<1>4. ASSUME NEW e \in log, NEW n \in e.seq..seq
      PROVE  \E f \in log : f.seq = n
  <2>1. ~ HoleAbove(e.seq)
    BY <1>1, <1>3 DEF Window, Contiguous, LateIsRemoved, RemovedBy, AppendAt
  <2>2. CASE n = e.seq
    BY <2>2
  <2>3. CASE n # e.seq
    <3>1. n \in (e.seq + 1)..seq
      BY <2>3, KeptFacts DEF Window
    <3>2. ~ Missing(n)
      BY <2>1, <3>1 DEF HoleAbove
    <3> QED BY <1>1, <1>3, <3>2 DEF Missing, AppendAt
  <2> QED BY <2>2, <2>3
<1> QED BY <1>2, <1>4

\* When no append is under way the changelog is within its bound and a gap-free
\* suffix of the sequence, however the appends and trims of two requests overlap
\* (src/src/resource/changelog.ts, append), for every bound and every disturbance.
THEOREM FeedWindow ==
    ASSUME Pairs
    PROVE  Spec => []WindowContiguous
<1>1. Window /\ [Next]_vars => Window'
  BY LoggedStep, NumberedStep, BoundedStep, ContiguousStep DEF Window
<1>2. Window => WindowContiguous
  BY WindowMeets
<1>3. Spec => []Window
  BY InitWindow, <1>1, PTL DEF Spec
<1> QED BY <1>2, <1>3, PTL

-----------------------------------------------------------------------------
(* Pushes, streams and clients *)

LEMMA PushMoves ==
    ASSUME PushTyped, NEW w \in Writers, NEW p \in Pushes, push' = [push EXCEPT ![w] = p],
           p.pc # "idle" => p.entry \in Entry
    PROVE  /\ PushTyped' /\ push'[w] = p
           /\ \A v \in Writers \ {w} : push'[v] = push[v]
BY DEF PushTyped

LEMMA IdlePushRecord == IdlePush \in Pushes /\ IdlePush.pc = "idle"
BY DEF IdlePush, Pushes, PushPc

LEMMA PushRecord ==
    ASSUME PushTyped, NEW w \in Writers
    PROVE  /\ push[w] \in Pushes
           /\ \A pc \in PushPc : [push[w] EXCEPT !.pc = pc] \in Pushes
           /\ \A pc \in PushPc, b \in BOOLEAN : [push[w] EXCEPT !.was = b, !.pc = pc] \in Pushes
<1>1. push[w] \in Pushes
  BY DEF PushTyped
<1> QED BY <1>1 DEF Pushes

\* Where each push is after its step.
PushRest(w) == \A v \in Writers \ {w} : push'[v] = push[v]
Goes(w, pc) == push'[w].pc = pc /\ push'[w].entry = push[w].entry

LEMMA LoadMoves ==
    ASSUME PushTyped, NEW w \in Writers, PushLoad(w)
    PROVE  /\ PushTyped' /\ PushRest(w) /\ push[w].pc = "load" /\ push[w].entry \in Entry
           /\ LET e == push[w].entry IN
                \/ push'[w] = IdlePush /\ (~ sub.stored \/ (e.kind = "create" /\ ~ Fits(e.row)))
                \/ sub.stored /\ e.kind = "create" /\ Fits(e.row) /\ Goes(w, "mark")
                \/ sub.stored /\ e.kind # "create" /\ Goes(w, "check")
<1>1. push[w].pc = "load" /\ push[w].entry \in Entry /\ push[w] \in Pushes /\ push \in [Writers -> Pushes]
  BY DEF PushLoad, PushAt, PushTyped
<1> DEFINE e == push[w].entry
<1>2. CASE ~ sub.stored \/ (e.kind = "create" /\ ~ Fits(e.row))
  <2>1. push' = [push EXCEPT ![w] = IdlePush]
    BY <1>2 DEF PushLoad
  <2> QED BY <1>1, <1>2, <2>1, IdlePushRecord, PushMoves DEF PushRest
<1>3. CASE sub.stored /\ e.kind = "create" /\ Fits(e.row)
  <2>1. PICK p : p = [push[w] EXCEPT !.pc = "mark"]
    OBVIOUS
  <2>2. push' = [push EXCEPT ![w] = p]
    BY <1>1, <1>3, <2>1 DEF PushLoad
  <2>3. p \in Pushes /\ p.pc = "mark" /\ p.entry = e
    BY <1>1, <2>1 DEF Pushes, PushPc
  <2> QED BY <1>1, <1>3, <2>2, <2>3, PushMoves DEF PushRest, Goes
<1>4. CASE sub.stored /\ e.kind # "create"
  <2>1. PICK p : p = [push[w] EXCEPT !.pc = "check"]
    OBVIOUS
  <2>2. push' = [push EXCEPT ![w] = p]
    BY <1>1, <1>4, <2>1 DEF PushLoad
  <2>3. p \in Pushes /\ p.pc = "check" /\ p.entry = e
    BY <1>1, <2>1 DEF Pushes, PushPc
  <2> QED BY <1>1, <1>4, <2>2, <2>3, PushMoves DEF PushRest, Goes
<1> QED BY <1>2, <1>3, <1>4

LEMMA CheckMoves ==
    ASSUME PushTyped, NEW w \in Writers, PushCheck(w)
    PROVE  /\ PushTyped' /\ PushRest(w) /\ push[w].pc = "check" /\ push[w].entry \in Entry
           /\ LET e == push[w].entry IN
                \/ push'[w] = IdlePush /\ e.id \notin sub.known /\ ~ Fits(e.row)
                \/ e.id \in sub.known /\ Fits(e.row) /\ Goes(w, "send")
                \/ ~ (e.id \in sub.known <=> Fits(e.row)) /\ Goes(w, "mark")
<1>1. push[w].pc = "check" /\ push[w].entry \in Entry /\ push[w] \in Pushes /\ push \in [Writers -> Pushes]
  BY DEF PushCheck, PushAt, PushTyped
<1> DEFINE e == push[w].entry
           was == e.id \in sub.known
           is == Fits(e.row)
<1>2. CASE ~ was /\ ~ is
  <2>1. push' = [push EXCEPT ![w] = IdlePush]
    BY <1>2 DEF PushCheck
  <2> QED BY <1>1, <1>2, <2>1, IdlePushRecord, PushMoves DEF PushRest
<1>3. CASE was \/ is
  <2>1. PICK pc \in PushPc : pc = IF was /\ is THEN "send" ELSE "mark"
    BY DEF PushPc
  <2>2. PICK p : p = [push[w] EXCEPT !.was = was, !.pc = pc]
    OBVIOUS
  <2>3. push' = [push EXCEPT ![w] = p]
    BY <1>1, <1>3, <2>1, <2>2 DEF PushCheck
  <2>4. p \in Pushes /\ p.pc = pc /\ p.entry = e
    <3>1. was \in BOOLEAN
      OBVIOUS
    <3> HIDE DEF was, is, e
    <3> QED BY <1>1, <2>2, <3>1 DEF Pushes, e
  <2>5. PushTyped' /\ PushRest(w) /\ Goes(w, pc)
    BY <1>1, <2>3, <2>4, PushMoves DEF PushRest, Goes
  <2> QED BY <1>1, <1>3, <2>1, <2>5
<1> QED BY <1>2, <1>3

LEMMA MarkMoves ==
    ASSUME PushTyped, NEW w \in Writers, PushMark(w)
    PROVE  /\ PushTyped' /\ PushRest(w) /\ push[w].pc = "mark" /\ push[w].entry \in Entry
           /\ Goes(w, "send")
<1>1. push[w].pc = "mark" /\ push[w].entry \in Entry /\ push[w] \in Pushes /\ push \in [Writers -> Pushes]
  BY DEF PushMark, PushAt, PushTyped
<1>2. PICK p : p = [push[w] EXCEPT !.pc = "send"]
  OBVIOUS
<1>3. push' = [push EXCEPT ![w] = p]
  BY <1>1, <1>2 DEF PushMark
<1>4. p \in Pushes /\ p.pc = "send" /\ p.entry = push[w].entry
  BY <1>1, <1>2 DEF Pushes, PushPc
<1> QED BY <1>1, <1>3, <1>4, PushMoves DEF PushRest, Goes

LEMMA WritePushes ==
    ASSUME Logged, PushTyped, NEW w \in Writers, NEW kind \in Kinds, NEW id \in Ids, Write(w, kind, id)
    PROVE  /\ PushTyped' /\ PushRest(w) /\ push[w].pc = "idle" /\ push'[w].pc = "load"
           /\ push'[w].entry = append'[w].entry
<1>1. PICK row \in IF kind = "delete" THEN {NoRow} ELSE [ver : {writes + 1}, fits : BOOLEAN] :
         LET entry == [seq |-> 0, kind |-> kind, id |-> id, row |-> row] IN
         /\ append' = [append EXCEPT ![w] = [IdleAppend EXCEPT !.pc = "incr", !.entry = entry]]
         /\ push' = [push EXCEPT ![w] = [pc |-> "load", entry |-> entry, was |-> FALSE]]
  BY Zenon DEF Write
<1>2. PICK e : e = [seq |-> 0, kind |-> kind, id |-> id, row |-> row]
  OBVIOUS
<1>3. PICK p : p = [pc |-> "load", entry |-> e, was |-> FALSE]
  OBVIOUS
<1>4. append'[w].entry = e /\ e \in Entry
  <2>1. append'[w] = [IdleAppend EXCEPT !.pc = "incr", !.entry = e]
    BY <1>1, <1>2 DEF Logged, AppendTyped
  <2>2. append'[w].entry = e
    BY <2>1 DEF IdleAppend
  <2>3. append'[w].entry \in Entry
    BY WriteMoves
  <2> QED BY <2>2, <2>3
<1>5. p \in Pushes /\ p.pc = "load" /\ p.entry = e
  BY <1>3, <1>4 DEF Pushes, PushPc
<1>6. push' = [push EXCEPT ![w] = p]
  BY <1>1, <1>2, <1>3
<1>7. push[w].pc = "idle"
  BY DEF Write
<1>8. PushTyped' /\ push'[w] = p /\ PushRest(w)
  BY <1>4, <1>5, <1>6, PushMoves DEF PushRest
<1> QED BY <1>4, <1>5, <1>7, <1>8

-----------------------------------------------------------------------------
(* Streams *)

LEMMA FrameTypes ==
    /\ \A kind \in {"connected", "invalidate"}, n \in Nat :
        Frame(kind, n) \in Frames /\ Frame(kind, n).kind = kind /\ Frame(kind, n).seq = n
    /\ \A kind \in {"existing", "added", "changed"}, n \in Nat, id \in Ids, row \in Row :
        /\ RowFrame(kind, n, id, row) \in Frames /\ RowFrame(kind, n, id, row).kind = kind
        /\ RowFrame(kind, n, id, row).seq = n /\ RowFrame(kind, n, id, row).id = id
        /\ RowFrame(kind, n, id, row).row = row
    /\ \A n \in Nat, id \in Ids :
        /\ RowFrame("removed", n, id, NoRow) \in Frames /\ RowFrame("removed", n, id, NoRow).kind = "removed"
        /\ RowFrame("removed", n, id, NoRow).seq = n /\ RowFrame("removed", n, id, NoRow).id = id
        /\ RowFrame("removed", n, id, NoRow).row = NoRow
<1>1. \A kind \in {"connected", "invalidate"}, n \in Nat :
        Frame(kind, n) \in Marks /\ Frame(kind, n).kind = kind /\ Frame(kind, n).seq = n
  BY DEF Frame, Marks
<1>2. \A kind \in {"existing", "added", "changed"}, n \in Nat, id \in Ids, row \in Row :
        RowFrame(kind, n, id, row) \in Shows
  BY DEF RowFrame, Shows
<1>3. \A n \in Nat, id \in Ids : RowFrame("removed", n, id, NoRow) \in Removals
  BY DEF RowFrame, Removals
<1>4. \A kind, n, id, row :
        /\ RowFrame(kind, n, id, row).kind = kind /\ RowFrame(kind, n, id, row).row = row
        /\ RowFrame(kind, n, id, row).seq = n /\ RowFrame(kind, n, id, row).id = id
  BY DEF RowFrame
<1> QED BY <1>1, <1>2, <1>3, <1>4 DEF Frames

\* The row a client should hold of an entry.
Shown(row) == IF Fits(row) THEN row ELSE NoRow
RowKinds == {"existing", "added", "changed", "removed"}

\* The frame an entry is shown by, as an event or in a replay.
ShowsEntry(f, e) ==
    /\ f \in Frames /\ f.kind \in RowKinds /\ f.id = e.id /\ f.row = Shown(e.row) /\ f.seq = sub.count + 1

LEMMA FitsRow == \A row \in Rows : Fits(row) => row \in Row
BY DEF Fits, Rows

LEMMA EntryFields == \A e \in Entry : e.id \in Ids /\ e.row \in Rows /\ e.kind \in Kinds
BY DEF Entry, Rows

LEMMA ShownFrames ==
    ASSUME sub.count \in Nat, NEW e \in Entry, NEW was
    PROVE  ShowsEntry(PushFrame(e, was), e) /\ ShowsEntry(ReplayFrame(e), e)
<1>1. e.id \in Ids /\ e.row \in Rows /\ sub.count + 1 \in Nat
  BY EntryFields
<1>2. CASE Fits(e.row)
  <2>1. e.row \in Row
    BY <1>1, <1>2, FitsRow
  <2>2. PICK k1 \in {"existing", "added", "changed"} : k1 = IF was THEN "changed" ELSE "added"
    OBVIOUS
  <2>3. PICK k2 \in {"existing", "added", "changed"} : k2 = IF e.kind = "create" THEN "added" ELSE "changed"
    OBVIOUS
  <2>4. PushFrame(e, was) = RowFrame(k1, sub.count + 1, e.id, e.row)
    BY <1>2, <2>2 DEF PushFrame
  <2>5. ReplayFrame(e) = RowFrame(k2, sub.count + 1, e.id, e.row)
    BY <1>2, <2>3 DEF ReplayFrame
  <2> QED BY <1>1, <1>2, <2>1, <2>2, <2>3, <2>4, <2>5, FrameTypes DEF ShowsEntry, Shown, RowKinds
<1>3. CASE ~ Fits(e.row)
  <2>1. /\ PushFrame(e, was) = RowFrame("removed", sub.count + 1, e.id, NoRow)
        /\ ReplayFrame(e) = RowFrame("removed", sub.count + 1, e.id, NoRow)
    BY <1>3 DEF PushFrame, ReplayFrame
  <2> QED BY <1>1, <1>3, <2>1, FrameTypes DEF ShowsEntry, Shown, RowKinds
<1> QED BY <1>2, <1>3

\* The server's record of a connection but for what closes it.
Alike(c, d) == c.pc = d.pc /\ c.since = d.since /\ c.upto = d.upto /\ c.todo = d.todo /\ c.row = d.row

\* What sending a frame may do: nothing is sent on a closed stream, the frame is
\* sent, or the queue is full and an invalidate closes the stream.
Silent == conn.closed /\ conn'.closed /\ wire' = wire
Delivers(f) == ~ conn.closed /\ ~ conn'.closed /\ wire' = Append(wire, f)
Overflows == ~ conn.closed /\ conn'.closed /\ Full /\ wire' = Append(wire, Frame("invalidate", 0))

LEMMA SendFacts ==
    ASSUME StreamTyped, NEW f \in Frames, NEW c, ConnOK(c), NEW p \in [Writers -> Pushes],
           \A w \in Writers : p[w].pc # "idle" => p[w].entry \in Entry,
           SendEvent(f, c, p)
    PROVE  /\ PushTyped' /\ StreamTyped' /\ Alike(conn', c)
           /\ Silent \/ Delivers(f) \/ Overflows
           /\ conn.pc # "open" \/ Silent \/ Delivers(f) =>
                push' = p /\ sub' = [sub EXCEPT !.count = sub.count + 1]
           /\ \A w \in Writers : push'[w] = p[w] \/ push'[w] = IdlePush
<1> DEFINE closes == Full /\ ~ conn.closed
           torn == closes /\ conn.pc = "open"
<1>1. /\ wire' = IF conn.closed THEN wire ELSE Append(wire, IF Full THEN Frame("invalidate", 0) ELSE f)
      /\ conn' = [c EXCEPT !.closed = conn.closed \/ closes]
      /\ sub' = IF torn THEN NoSub ELSE [sub EXCEPT !.count = @ + 1]
      /\ push' = IF torn THEN [w \in Writers |-> IF p[w].pc = "load" THEN p[w] ELSE IdlePush] ELSE p
  BY DEF SendEvent
<1>2. PICK b \in BOOLEAN : b = (conn.closed \/ closes)
  OBVIOUS
<1>3. conn' = [c EXCEPT !.closed = b]
  BY <1>1, <1>2
<1>4. c \in Conns /\ conn' \in Conns /\ conn'.closed = b /\ Alike(conn', c)
  <2>1. c \in Conns
    BY DEF ConnOK
  <2> QED BY <1>3, <2>1 DEF Conns, Alike
<1>5. ConnOK(conn')
  BY <1>4 DEF ConnOK, Alike
<1>6. wire \in Seq(Frames) /\ Frame("invalidate", 0) \in Frames /\ sub \in Subs /\ conn.closed \in BOOLEAN
  BY FrameTypes DEF StreamTyped, ConnOK, Conns
<1>7. wire' \in Seq(Frames)
  BY <1>1, <1>6
<1>8. sub' \in Subs
  BY <1>1, <1>6 DEF Subs, NoSub
<1>9. push' \in [Writers -> Pushes] /\ \A w \in Writers : push'[w] = p[w] \/ push'[w] = IdlePush
  <2>1. CASE torn
    <3>1. push' = [w \in Writers |-> IF p[w].pc = "load" THEN p[w] ELSE IdlePush]
      BY <1>1, <2>1
    <3> QED BY <3>1, IdlePushRecord
  <2>2. CASE ~ torn
    BY <1>1, <2>2
  <2> QED BY <2>1, <2>2
<1>10. PushTyped'
  BY <1>9, IdlePushRecord DEF PushTyped
<1>11. Silent \/ Delivers(f) \/ Overflows
  BY <1>1, <1>2, <1>4, <1>6 DEF Silent, Delivers, Overflows
<1>12. conn.pc # "open" \/ Silent \/ Delivers(f) => ~ torn
  BY <1>2, <1>4 DEF Silent, Delivers
<1>13. ~ torn => push' = p /\ sub' = [sub EXCEPT !.count = sub.count + 1]
  BY <1>1
<1> QED BY <1>4, <1>5, <1>7, <1>8, <1>9, <1>10, <1>11, <1>12, <1>13 DEF StreamTyped

-----------------------------------------------------------------------------
(* The set-up of a connection *)

\* A finite set of numbers has a least one: how many are below tells them apart, so
\* one of them has none below.
LEMMA LeastNumber ==
    ASSUME NEW N, N \subseteq Nat, IsFiniteSet(N), N # {}
    PROVE  \E n \in N : \A m \in N : n <= m
<1> DEFINE under(n) == {m \in N : m < n}
<1>1. \A n \in N : IsFiniteSet(under(n)) /\ Cardinality(under(n)) \in Nat /\ under(n) \subseteq N
  <2> SUFFICES ASSUME NEW n \in N
               PROVE  IsFiniteSet(under(n)) /\ Cardinality(under(n)) \in Nat /\ under(n) \subseteq N
    OBVIOUS
  <2> QED BY FS_Subset, FS_CardinalityType
<1>2. Cardinality(N) \in Nat
  BY FS_CardinalityType
<1>3. ASSUME NEW n \in N PROVE Cardinality(under(n)) < Cardinality(N)
  <2>1. under(n) # N
    BY <1>3
  <2>2. Cardinality(under(n)) <= Cardinality(N) /\ Cardinality(under(n)) # Cardinality(N)
    BY <1>1, <2>1, FS_Subset
  <2> QED BY <1>1, <1>2, <2>2
<1>4. ASSUME NEW n \in N, NEW m \in N, n < m
      PROVE  Cardinality(under(n)) < Cardinality(under(m))
  <2>1. n \in Nat /\ m \in Nat
    OBVIOUS
  <2>2. under(n) \subseteq under(m)
    <3> SUFFICES ASSUME NEW x \in N, x < n PROVE x < m
      OBVIOUS
    <3>1. x \in Nat
      OBVIOUS
    <3> QED BY <1>4, <2>1, <3>1
  <2>3. n \in under(m) /\ n \notin under(n)
    BY <1>4, <2>1
  <2>4. Cardinality(under(n)) <= Cardinality(under(m)) /\ Cardinality(under(n)) # Cardinality(under(m))
    BY <1>1, <2>2, <2>3, FS_Subset
  <2> QED BY <1>1, <2>4
<1> HIDE DEF under
<1>5. PICK r : r = [n \in N |-> Cardinality(under(n))]
  OBVIOUS
<1> DEFINE T == 0..(Cardinality(N) - 1)
<1>6. IsFiniteSet(T) /\ Cardinality(T) = Cardinality(N)
  <2>1. PICK k \in Nat : k = Cardinality(N)
    BY <1>2
  <2>2. IsFiniteSet(0..(k - 1)) /\ Cardinality(0..(k - 1)) = k
    BY FS_Interval
  <2> QED BY <2>1, <2>2
<1>7. r \in [N -> T]
  <2>1. \A n \in N : Cardinality(under(n)) \in T
    BY <1>1, <1>2, <1>3
  <2> QED BY <1>5, <2>1
<1>8. \A n, m \in N : r[n] = r[m] => n = m
  <2> SUFFICES ASSUME NEW n \in N, NEW m \in N, r[n] = r[m] PROVE n = m
    OBVIOUS
  <2>1. Cardinality(under(n)) = Cardinality(under(m)) /\ Cardinality(under(n)) \in Nat
    BY <1>1, <1>5
  <2>2. ~ (n < m) /\ ~ (m < n)
    BY <1>4, <2>1
  <2> QED BY <2>2
<1>9. r \in Surjection(N, T)
  <2>1. r \in Injection(N, T)
    BY <1>7, <1>8 DEF Injection, IsInjective
  <2> QED BY <1>6, <2>1, FS_Injection
<1>10. 0 \in T
  <2>1. Cardinality(N) # 0
    BY FS_EmptySet
  <2> QED BY <1>2, <2>1
<1>11. PICK n \in N : r[n] = 0
  BY <1>9, <1>10 DEF Surjection
<1>12. under(n) = {}
  BY <1>1, <1>5, <1>11, FS_EmptySet
<1> QED BY <1>12 DEF under

LEMMA LeastEntry ==
    ASSUME NEW S, S \subseteq Entry, IsFiniteSet(S), S # {}
    PROVE  \E e \in S : \A f \in S : e.seq <= f.seq
<1>1. PICK N : N = {e.seq : e \in S}
  OBVIOUS
<1>2. N # {} /\ N \subseteq Nat
  BY <1>1, EntrySeq
<1>3. PICK f : f = [e \in S |-> e.seq]
  OBVIOUS
<1>4. f \in Surjection(S, N)
  BY <1>1, <1>3 DEF Surjection
<1>5. IsFiniteSet(N)
  BY <1>4, FS_Surjection
<1>6. PICK n \in N : \A m \in N : n <= m
  BY <1>2, <1>5, LeastNumber
<1> QED BY <1>1, <1>6

LEMMA NextEntryIs ==
    ASSUME ConnOK(conn), conn.pc = "replay"
    PROVE  /\ NextEntry \in conn.todo /\ NextEntry \in Entry
           /\ \A f \in conn.todo : NextEntry.seq <= f.seq
<1>1. \E e \in conn.todo : \A f \in conn.todo : e.seq <= f.seq
  BY LeastEntry DEF ConnOK
<1>2. NextEntry \in conn.todo /\ \A f \in conn.todo : NextEntry.seq <= f.seq
  BY <1>1 DEF NextEntry
<1> QED BY <1>2 DEF ConnOK

\* What a step of the set-up keeps of the connection's record.
SameTodo(c) == c.todo = conn.todo /\ c.row = conn.row
SameSpan(c) == c.since = conn.since /\ c.upto = conn.upto

LEMMA GotoFacts ==
    ASSUME StreamTyped, NEW pc \in ConnPc \ {"replay", "register", "track", "existing"}, conn' = Goto(pc)
    PROVE  /\ ConnOK(conn') /\ conn'.pc = pc /\ conn'.closed = conn.closed
           /\ SameSpan(conn') /\ SameTodo(conn')
<1>1. conn \in Conns
  BY DEF StreamTyped, ConnOK
<1>2. conn' \in Conns /\ conn'.pc = pc /\ conn'.closed = conn.closed /\ SameSpan(conn') /\ SameTodo(conn')
  BY <1>1 DEF Conns, Goto, SameSpan, SameTodo
<1> QED BY <1>2 DEF ConnOK

LEMMA ConnTyped == StreamTyped => /\ conn \in Conns /\ sub \in Subs /\ wire \in Seq(Frames)
                                  /\ sub.count \in Nat /\ sub.known \subseteq Ids /\ sub.stored \in BOOLEAN
                                  /\ conn.since \in Nat /\ conn.upto \in 0..MaxWrites /\ conn.upto \in Nat
                                  /\ conn.closed \in BOOLEAN /\ conn.pc \in ConnPc
BY Finite DEF StreamTyped, ConnOK, Conns, Subs

LEMMA ReadSequenceFacts ==
    ASSUME Logged, StreamTyped, ReadSequence
    PROVE  /\ StreamTyped' /\ conn'.pc = "store" /\ conn'.upto = seq /\ conn'.since = conn.since
           /\ conn'.closed = conn.closed /\ wire' = <<Frame("connected", seq)>> /\ sub' = sub
<1>1. conn \in Conns /\ seq \in 0..MaxWrites
  BY ConnTyped, IncrFinite, Finite DEF Logged, Counted
<1>2. conn' = [conn EXCEPT !.pc = "store", !.upto = seq] /\ wire' = <<Frame("connected", seq)>> /\ sub' = sub
  BY DEF ReadSequence
<1>3. /\ conn' \in Conns /\ conn'.pc = "store" /\ conn'.upto = seq /\ conn'.since = conn.since
      /\ conn'.closed = conn.closed
  BY <1>1, <1>2 DEF Conns, ConnPc
<1>4. ConnOK(conn')
  BY <1>3 DEF ConnOK
<1>5. Frame("connected", seq) \in Frames
  BY FrameTypes, SeqNat
<1> QED BY <1>2, <1>3, <1>4, <1>5 DEF StreamTyped

LEMMA StoreSubFacts ==
    ASSUME StreamTyped, StoreSub
    PROVE  /\ StreamTyped' /\ conn'.pc = "zero" /\ conn'.closed = conn.closed /\ SameSpan(conn')
           /\ sub'.stored = TRUE /\ sub'.known = {} /\ sub'.count = 0 /\ wire' = wire
<1>1. conn' = Goto("zero") /\ sub' = [NoSub EXCEPT !.stored = TRUE] /\ wire' = wire
  BY DEF StoreSub
<1>2. sub' \in Subs /\ sub'.stored = TRUE /\ sub'.known = {} /\ sub'.count = 0
  BY <1>1 DEF NoSub, Subs
<1>3. "zero" \in ConnPc \ {"replay", "register", "track", "existing"}
  BY DEF ConnPc
<1> QED BY <1>1, <1>2, <1>3, GotoFacts DEF StreamTyped

LEMMA ZeroCountFacts ==
    ASSUME StreamTyped, ZeroCount
    PROVE  /\ StreamTyped' /\ conn'.closed = conn.closed /\ SameSpan(conn')
           /\ conn'.pc = (IF conn.since > 0 THEN "gap" ELSE "rows")
           /\ sub'.stored = sub.stored /\ sub'.known = sub.known /\ sub'.count = 0 /\ wire' = wire
<1>1. PICK pc : pc = IF conn.since > 0 THEN "gap" ELSE "rows"
  OBVIOUS
<1>2. conn' = Goto(pc) /\ sub' = [sub EXCEPT !.count = 0] /\ wire' = wire
  BY <1>1 DEF ZeroCount
<1>3. sub' \in Subs /\ sub'.stored = sub.stored /\ sub'.known = sub.known /\ sub'.count = 0
  BY <1>2, ConnTyped DEF Subs
<1>4. pc \in ConnPc \ {"replay", "register", "track", "existing"}
  BY <1>1 DEF ConnPc
<1> QED BY <1>1, <1>2, <1>3, <1>4, GotoFacts DEF StreamTyped

LEMMA CheckGapFacts ==
    ASSUME StreamTyped, CheckGap
    PROVE  /\ StreamTyped' /\ conn'.closed = conn.closed /\ SameSpan(conn')
           /\ conn'.pc = (IF NeedsInvalidation(conn.since) THEN "refuse" ELSE "entries")
           /\ sub' = sub /\ wire' = wire
<1>1. PICK pc : pc = IF NeedsInvalidation(conn.since) THEN "refuse" ELSE "entries"
  OBVIOUS
<1>2. conn' = Goto(pc) /\ sub' = sub /\ wire' = wire
  BY <1>1 DEF CheckGap
<1>3. pc \in ConnPc \ {"replay", "register", "track", "existing"}
  BY <1>1 DEF ConnPc
<1> QED BY <1>1, <1>2, <1>3, GotoFacts DEF StreamTyped

LEMMA ReadEntriesFacts ==
    ASSUME Logged, StreamTyped, ReadEntries
    PROVE  /\ StreamTyped' /\ conn'.closed = conn.closed /\ SameSpan(conn')
           /\ conn'.todo = {e \in log : e.seq > conn.since /\ e.seq <= conn.upto}
           /\ conn'.pc = (IF conn'.todo = {} THEN "select" ELSE "replay")
           /\ sub' = sub /\ wire' = wire
<1>1. PICK todo : todo = {e \in log : e.seq > conn.since /\ e.seq <= conn.upto}
  OBVIOUS
<1>2. PICK pc : pc = IF todo = {} THEN "select" ELSE "replay"
  OBVIOUS
<1>3. todo = {e \in EntriesSince(conn.since) : e.seq <= conn.upto}
  BY <1>1 DEF EntriesSince
<1>4. conn' = [conn EXCEPT !.todo = todo, !.pc = pc] /\ sub' = sub /\ wire' = wire
  BY <1>2, <1>3 DEF ReadEntries
<1>5. todo \subseteq Entry /\ IsFiniteSet(todo) /\ pc \in ConnPc /\ pc \notin {"register", "track", "existing"}
  BY <1>1, <1>2, FS_Subset DEF Logged, StoreTyped, ConnPc
<1>6. conn' \in Conns /\ conn'.pc = pc /\ conn'.closed = conn.closed /\ SameSpan(conn') /\ conn'.todo = todo
  BY <1>4, <1>5, ConnTyped DEF Conns, SameSpan
<1>7. ConnOK(conn')
  BY <1>2, <1>5, <1>6 DEF ConnOK
<1> QED BY <1>1, <1>2, <1>4, <1>6, <1>7 DEF StreamTyped

LEMMA AfterEntryFacts ==
    ASSUME StreamTyped, conn.pc = "replay"
    PROVE  /\ ConnOK(AfterEntry) /\ AfterEntry.todo = conn.todo \ {NextEntry}
           /\ AfterEntry.pc = (IF AfterEntry.todo = {} THEN "select" ELSE "replay")
           /\ AfterEntry.closed = conn.closed /\ SameSpan(AfterEntry)
<1>1. ConnOK(conn) /\ NextEntry \in conn.todo
  BY NextEntryIs DEF StreamTyped
<1>2. PICK e : e = NextEntry
  OBVIOUS
<1>3. PICK pc : pc = IF conn.todo \ {e} = {} THEN "select" ELSE "replay"
  OBVIOUS
<1>4. PICK S : S = conn.todo \ {e}
  OBVIOUS
<1>5. AfterEntry = [conn EXCEPT !.todo = S, !.pc = pc]
  BY <1>1, <1>2, <1>3, <1>4 DEF AfterEntry
<1>6. S \subseteq Entry /\ IsFiniteSet(S) /\ pc \in ConnPc /\ pc \notin {"register", "track", "existing"}
  BY <1>1, <1>3, <1>4, FS_Subset DEF ConnOK, ConnPc
<1>7. /\ AfterEntry \in Conns /\ AfterEntry.pc = pc /\ AfterEntry.closed = conn.closed
      /\ SameSpan(AfterEntry) /\ AfterEntry.todo = S
  BY <1>5, <1>6, ConnTyped DEF Conns, SameSpan
<1>8. ConnOK(AfterEntry)
  BY <1>3, <1>4, <1>6, <1>7 DEF ConnOK
<1> QED BY <1>2, <1>3, <1>4, <1>7, <1>8

LEMMA SelectIdsFacts ==
    ASSUME Logged, StreamTyped, SelectIds
    PROVE  /\ StreamTyped' /\ conn'.closed = conn.closed /\ SameSpan(conn') /\ conn'.pc = "register"
           /\ conn'.todo = {i \in Ids : Fits(db[i])} /\ sub' = sub /\ wire' = wire
<1>1. PICK S : S = {i \in Ids : Fits(db[i])}
  OBVIOUS
<1>2. conn' = [conn EXCEPT !.pc = "register", !.todo = S] /\ sub' = sub /\ wire' = wire
  BY <1>1 DEF SelectIds
<1>3. S \subseteq Ids
  BY <1>1
<1>4. conn' \in Conns /\ conn'.pc = "register" /\ conn'.closed = conn.closed /\ SameSpan(conn') /\ conn'.todo = S
  BY <1>2, <1>3, ConnTyped DEF Conns, ConnPc, SameSpan
<1>5. ConnOK(conn')
  BY <1>3, <1>4 DEF ConnOK
<1> QED BY <1>1, <1>2, <1>4, <1>5 DEF StreamTyped

LEMMA RegisterFacts ==
    ASSUME StreamTyped, RegisterKnownIds
    PROVE  /\ StreamTyped' /\ conn'.closed = conn.closed /\ SameSpan(conn') /\ conn'.pc = "open"
           /\ sub'.known = sub.known \cup conn.todo /\ sub'.count = sub.count /\ sub'.stored = sub.stored
           /\ wire' = wire
<1>1. conn' = [conn EXCEPT !.pc = "open", !.todo = {}] /\ sub' = [sub EXCEPT !.known = @ \cup conn.todo] /\ wire' = wire
  BY DEF RegisterKnownIds
<1>2. conn.todo \subseteq Ids
  BY DEF RegisterKnownIds, ConnAt, StreamTyped, ConnOK
<1>3. conn' \in Conns /\ conn'.pc = "open" /\ conn'.closed = conn.closed /\ SameSpan(conn')
  BY <1>1, ConnTyped DEF Conns, ConnPc, SameSpan
<1>4. /\ sub' \in Subs /\ sub'.known = sub.known \cup conn.todo
      /\ sub'.count = sub.count /\ sub'.stored = sub.stored
  BY <1>1, <1>2, ConnTyped DEF Subs
<1>5. ConnOK(conn')
  BY <1>3 DEF ConnOK
<1> QED BY <1>1, <1>3, <1>4, <1>5 DEF StreamTyped

LEMMA SelectRowsFacts ==
    ASSUME Logged, StreamTyped, SelectRows
    PROVE  /\ StreamTyped' /\ conn'.closed = conn.closed /\ SameSpan(conn')
           /\ conn'.todo = {[id |-> i, row |-> db[i]] : i \in {j \in Ids : Fits(db[j])}}
           /\ conn'.pc = (IF conn'.todo = {} THEN "open" ELSE "track")
           /\ sub' = sub /\ wire' = wire
<1>1. PICK S : S = {[id |-> i, row |-> db[i]] : i \in {j \in Ids : Fits(db[j])}}
  OBVIOUS
<1>2. PICK pc : pc = IF S = {} THEN "open" ELSE "track"
  OBVIOUS
<1>3. conn' = [conn EXCEPT !.todo = S, !.pc = pc] /\ sub' = sub /\ wire' = wire
  BY <1>1, <1>2 DEF SelectRows
<1>4. S \subseteq Founds
  <2> SUFFICES ASSUME NEW i \in Ids, Fits(db[i])
               PROVE  [id |-> i, row |-> db[i]] \in Founds
    BY <1>1
  <2>1. db[i] \in Row
    BY FitsRow DEF Logged, StoreTyped
  <2> QED BY <2>1 DEF Founds
<1>5. pc \in ConnPc /\ pc \notin {"register", "replay", "existing"}
  BY <1>2 DEF ConnPc
<1>6. conn' \in Conns /\ conn'.pc = pc /\ conn'.closed = conn.closed /\ SameSpan(conn') /\ conn'.todo = S
  BY <1>3, <1>4, <1>5, ConnTyped DEF Conns, SameSpan
<1>7. ConnOK(conn')
  BY <1>2, <1>4, <1>5, <1>6 DEF ConnOK
<1> QED BY <1>1, <1>2, <1>3, <1>6, <1>7 DEF StreamTyped

LEMMA TrackRowFacts ==
    ASSUME StreamTyped, TrackRow
    PROVE  /\ StreamTyped' /\ conn'.closed = conn.closed /\ SameSpan(conn') /\ conn'.pc = "existing"
           /\ conn'.todo = conn.todo /\ conn'.row \in conn.todo /\ conn'.row \in Founds
           /\ sub'.known = sub.known \cup {conn'.row.id} /\ sub'.count = sub.count /\ sub'.stored = sub.stored
           /\ wire' = wire
<1>1. PICK r \in conn.todo : /\ sub' = [sub EXCEPT !.known = @ \cup {r.id}]
                             /\ conn' = [conn EXCEPT !.pc = "existing", !.row = r]
  BY DEF TrackRow
<1>2. conn.todo \subseteq Founds /\ r \in Founds /\ r.id \in Ids /\ wire' = wire
  BY DEF TrackRow, ConnAt, StreamTyped, ConnOK, Founds
<1>3. /\ conn' \in Conns /\ conn'.pc = "existing" /\ conn'.closed = conn.closed /\ SameSpan(conn')
      /\ conn'.todo = conn.todo /\ conn'.row = r
  BY <1>1, <1>2, ConnTyped DEF Conns, ConnPc, SameSpan
<1>4. /\ sub' \in Subs /\ sub'.known = sub.known \cup {r.id}
      /\ sub'.count = sub.count /\ sub'.stored = sub.stored
  BY <1>1, <1>2, ConnTyped DEF Subs
<1>5. ConnOK(conn')
  BY <1>2, <1>3 DEF ConnOK
<1> QED BY <1>2, <1>3, <1>4, <1>5 DEF StreamTyped

AfterRow == [conn EXCEPT !.todo = @ \ {conn.row}, !.row = NoRow,
                         !.pc = IF conn.todo = {conn.row} THEN "open" ELSE "track"]

LEMMA AfterRowFacts ==
    ASSUME StreamTyped, conn.pc = "existing"
    PROVE  /\ ConnOK(AfterRow) /\ AfterRow.todo = conn.todo \ {conn.row}
           /\ AfterRow.pc = (IF AfterRow.todo = {} THEN "open" ELSE "track")
           /\ AfterRow.closed = conn.closed /\ SameSpan(AfterRow)
           /\ conn.row \in conn.todo /\ conn.row \in Founds /\ conn.row.id \in Ids /\ conn.row.row \in Row
<1>1. conn.row \in conn.todo /\ conn.todo \subseteq Founds
  BY DEF StreamTyped, ConnOK
<1>2. PICK S : S = conn.todo \ {conn.row}
  OBVIOUS
<1>3. PICK pc : pc = IF S = {} THEN "open" ELSE "track"
  OBVIOUS
<1>4. AfterRow = [conn EXCEPT !.todo = S, !.row = NoRow, !.pc = pc]
  BY <1>1, <1>2, <1>3 DEF AfterRow
<1>5. S \subseteq Founds /\ pc \in ConnPc /\ pc \notin {"register", "replay", "existing"}
  BY <1>1, <1>2, <1>3 DEF ConnPc
<1>6. /\ AfterRow \in Conns /\ AfterRow.pc = pc /\ AfterRow.closed = conn.closed
      /\ SameSpan(AfterRow) /\ AfterRow.todo = S
  BY <1>4, <1>5, ConnTyped DEF Conns, SameSpan
<1>7. ConnOK(AfterRow)
  BY <1>3, <1>5, <1>6 DEF ConnOK
<1>8. conn.row \in Founds /\ conn.row.id \in Ids /\ conn.row.row \in Row
  BY <1>1 DEF Founds
<1> QED BY <1>1, <1>2, <1>3, <1>6, <1>7, <1>8

LEMMA PushesTyped == PushTyped => push \in [Writers -> Pushes] /\ \A w \in Writers : push[w].pc # "idle" => push[w].entry \in Entry
BY DEF PushTyped

LEMMA PushSendFacts ==
    ASSUME PushTyped, StreamTyped, NEW w \in Writers, PushSend(w)
    PROVE  /\ PushTyped' /\ StreamTyped' /\ Alike(conn', conn) /\ push[w].pc = "send"
           /\ \E f \in Frames : ShowsEntry(f, push[w].entry) /\ (Silent \/ Delivers(f) \/ Overflows)
           /\ push'[w] = IdlePush
           /\ \A v \in Writers \ {w} : push'[v] = push[v] \/ push'[v] = IdlePush
           /\ Silent \/ ~ conn'.closed => sub' = [sub EXCEPT !.count = sub.count + 1]
<1>1. push[w].pc = "send" /\ push[w].entry \in Entry /\ push \in [Writers -> Pushes]
  BY PushesTyped DEF PushSend, PushAt
<1>2. PICK f : f = PushFrame(push[w].entry, push[w].was)
  OBVIOUS
<1>3. ShowsEntry(f, push[w].entry) /\ f \in Frames
  BY <1>1, <1>2, ShownFrames, ConnTyped DEF ShowsEntry
<1>4. PICK p : p = [push EXCEPT ![w] = IdlePush]
  OBVIOUS
<1>5. /\ p \in [Writers -> Pushes] /\ \A v \in Writers : p[v].pc # "idle" => p[v].entry \in Entry
      /\ p[w] = IdlePush /\ \A v \in Writers \ {w} : p[v] = push[v]
  BY <1>1, <1>4, PushesTyped, IdlePushRecord
<1>6. SendEvent(f, conn, p)
  BY <1>2, <1>4 DEF PushSend
<1>7. ConnOK(conn)
  BY DEF StreamTyped
<1>8. /\ PushTyped' /\ StreamTyped' /\ Alike(conn', conn)
      /\ Silent \/ Delivers(f) \/ Overflows
      /\ conn.pc # "open" \/ Silent \/ Delivers(f) => sub' = [sub EXCEPT !.count = sub.count + 1]
      /\ \A v \in Writers : push'[v] = p[v] \/ push'[v] = IdlePush
  BY <1>3, <1>5, <1>6, <1>7, SendFacts
<1>9. ~ conn'.closed => Delivers(f)
  BY <1>8 DEF Silent, Overflows
<1> QED BY <1>1, <1>3, <1>5, <1>8, <1>9

\* The set-up sends on: the stream is not handed out yet, and no push is touched.
LEMMA SetupSends ==
    ASSUME PushTyped, StreamTyped, conn.pc # "open", NEW f \in Frames, NEW c, ConnOK(c), SendEvent(f, c, push)
    PROVE  /\ PushTyped' /\ StreamTyped' /\ Alike(conn', c)
           /\ Silent \/ Delivers(f) \/ Overflows
           /\ push' = push /\ sub' = [sub EXCEPT !.count = sub.count + 1]
<1>1. push \in [Writers -> Pushes] /\ \A w \in Writers : push[w].pc # "idle" => push[w].entry \in Entry
  BY PushesTyped
<1> QED BY <1>1, SendFacts

LEMMA RefuseFacts ==
    ASSUME PushTyped, StreamTyped, Refuse
    PROVE  /\ PushTyped' /\ StreamTyped' /\ push' = push /\ conn'.pc = "open" /\ SameSpan(conn')
           /\ sub' = [sub EXCEPT !.count = sub.count + 1]
           /\ \E f \in Frames : f.kind = "invalidate" /\ (Silent \/ Delivers(f) \/ Overflows)
<1>1. PICK f : f = Frame("invalidate", sub.count + 1)
  OBVIOUS
<1>2. f \in Frames /\ f.kind = "invalidate"
  BY <1>1, FrameTypes, ConnTyped
<1>3. PICK c : c = [conn EXCEPT !.pc = "open"]
  OBVIOUS
<1>4. c \in Conns /\ c.pc = "open" /\ SameSpan(c)
  BY <1>3, ConnTyped DEF Conns, ConnPc, SameSpan
<1>5. ConnOK(c)
  BY <1>4 DEF ConnOK
<1>6. SendEvent(f, c, push) /\ conn.pc = "refuse"
  BY <1>1, <1>3 DEF Refuse, Goto, ConnAt
<1>7. /\ PushTyped' /\ StreamTyped' /\ Alike(conn', c) /\ push' = push
      /\ sub' = [sub EXCEPT !.count = sub.count + 1]
      /\ Silent \/ Delivers(f) \/ Overflows
  BY <1>2, <1>5, <1>6, SetupSends
<1> QED BY <1>2, <1>4, <1>7 DEF Alike, SameSpan

LEMMA ReplayEntryFacts ==
    ASSUME PushTyped, StreamTyped, ReplayEntry
    PROVE  /\ PushTyped' /\ StreamTyped' /\ push' = push /\ Alike(conn', AfterEntry)
           /\ conn.pc = "replay" /\ ~ (NextEntry.kind = "create" /\ ~ Fits(NextEntry.row))
           /\ sub' = [sub EXCEPT !.count = sub.count + 1]
           /\ \E f \in Frames : ShowsEntry(f, NextEntry) /\ (Silent \/ Delivers(f) \/ Overflows)
<1>1. conn.pc = "replay" /\ ~ (NextEntry.kind = "create" /\ ~ Fits(NextEntry.row))
  BY DEF ReplayEntry, ConnAt
<1>2. NextEntry \in Entry
  BY <1>1, NextEntryIs DEF StreamTyped
<1>3. PICK f : f = ReplayFrame(NextEntry)
  OBVIOUS
<1>4. ShowsEntry(f, NextEntry) /\ f \in Frames
  BY <1>2, <1>3, ShownFrames, ConnTyped DEF ShowsEntry
<1>5. PICK c : c = AfterEntry
  OBVIOUS
<1>6. ConnOK(c)
  BY <1>1, <1>5, AfterEntryFacts
<1>7. SendEvent(f, c, push)
  BY <1>3, <1>5 DEF ReplayEntry
<1>8. /\ PushTyped' /\ StreamTyped' /\ Alike(conn', c) /\ push' = push
      /\ Silent \/ Delivers(f) \/ Overflows
      /\ sub' = [sub EXCEPT !.count = sub.count + 1]
  BY <1>1, <1>4, <1>6, <1>7, SetupSends
<1> QED BY <1>1, <1>4, <1>5, <1>8

LEMMA SendExistingFacts ==
    ASSUME PushTyped, StreamTyped, SendExisting
    PROVE  /\ PushTyped' /\ StreamTyped' /\ push' = push /\ Alike(conn', AfterRow)
           /\ conn.pc = "existing" /\ sub' = [sub EXCEPT !.count = sub.count + 1]
           /\ \E f \in Frames : /\ f.kind = "existing" /\ f.id = conn.row.id /\ f.row = conn.row.row
                                /\ f.seq = sub.count + 1
                                /\ (Silent \/ Delivers(f) \/ Overflows)
<1>1. conn.pc = "existing"
  BY DEF SendExisting, ConnAt
<1>2. PICK f : f = RowFrame("existing", sub.count + 1, conn.row.id, conn.row.row)
  OBVIOUS
<1>3. f \in Frames /\ f.kind = "existing" /\ f.id = conn.row.id /\ f.row = conn.row.row /\ f.seq = sub.count + 1
  BY <1>1, <1>2, AfterRowFacts, ConnTyped, FrameTypes
<1>4. PICK c : c = AfterRow
  OBVIOUS
<1>5. ConnOK(c)
  BY <1>1, <1>4, AfterRowFacts
<1>6. SendEvent(f, c, push)
  BY <1>2, <1>4 DEF SendExisting, AfterRow
<1>7. /\ PushTyped' /\ StreamTyped' /\ Alike(conn', c) /\ push' = push
      /\ sub' = [sub EXCEPT !.count = sub.count + 1]
      /\ Silent \/ Delivers(f) \/ Overflows
      /\ sub' = [sub EXCEPT !.count = sub.count + 1]
  BY <1>1, <1>3, <1>5, <1>6, SetupSends
<1> QED BY <1>1, <1>3, <1>4, <1>7

LEMMA ConnectFacts ==
    ASSUME StreamTyped, ClientTyped, Connect
    PROVE  /\ StreamTyped' /\ conn'.pc = "sequence" /\ conn'.since = client.lastSeq /\ conn'.closed = FALSE
           /\ sub' = sub /\ wire' = wire /\ push' = push /\ client' = client /\ conn.pc = "down"
<1>1. /\ conn' = [NoConn EXCEPT !.pc = "sequence", !.since = client.lastSeq] /\ conn.pc = "down"
      /\ sub' = sub /\ wire' = wire /\ push' = push /\ client' = client
  BY DEF Connect, ConnAt
<1>2. conn' = [pc |-> "sequence", closed |-> FALSE, since |-> client.lastSeq, upto |-> 0, todo |-> {}, row |-> NoRow]
  BY <1>1 DEF NoConn
<1>3. client.lastSeq \in Nat /\ 0 \in 0..MaxWrites
  BY Finite DEF ClientTyped
<1>4. ConnOK(conn')
  BY <1>2, <1>3 DEF ConnOK, Conns, ConnPc
<1>5. conn'.pc = "sequence" /\ conn'.since = client.lastSeq /\ conn'.closed = FALSE
  BY <1>2
<1>6. StreamTyped'
  BY <1>1, <1>4 DEF StreamTyped
<1> QED BY <1>1, <1>5, <1>6

LEMMA HangupFacts ==
    ASSUME PushTyped, Hangup
    PROVE  /\ PushTyped' /\ StreamTyped' /\ conn'.pc = "down" /\ conn'.closed = FALSE /\ wire' = <<>>
           /\ \A w \in Writers : push'[w] = push[w] \/ push'[w] = IdlePush
           /\ \A w \in Writers : push[w].pc = "load" => push'[w] = push[w]
<1>1. conn' = NoConn /\ wire' = <<>> /\ sub' = NoSub /\ push' = Forgotten
  BY DEF Hangup
<1>2. NoConn \in Conns /\ ConnOK(NoConn) /\ NoConn.pc = "down" /\ NoConn.closed = FALSE
  BY Finite DEF NoConn, Conns, ConnOK, ConnPc
<1>3. NoSub \in Subs /\ <<>> \in Seq(Frames)
  BY DEF NoSub, Subs
<1>4. \A w \in Writers : push'[w] = push[w] \/ push'[w] = IdlePush
  BY <1>1 DEF Forgotten
<1>5. push' \in [Writers -> Pushes]
  BY <1>1, IdlePushRecord DEF Forgotten, PushTyped
<1>6. \A w \in Writers : push[w].pc = "load" => push'[w] = push[w]
  BY <1>1 DEF Forgotten
<1> QED BY <1>1, <1>2, <1>3, <1>4, <1>5, <1>6, IdlePushRecord DEF PushTyped, StreamTyped

\* What the client does with the frame it reads.
Reads(f) ==
    \/ f.kind = "connected" /\ wire' = Tail(wire) /\ client' = [client EXCEPT !.lastSeq = f.seq]
       /\ UNCHANGED <<conn, sub, push>>
    \/ f.kind \in RowKinds /\ wire' = Tail(wire) /\ UNCHANGED <<conn, sub, push>>
       /\ client' = [items |-> [client.items EXCEPT ![f.id] = f.row],
                     lastSeq |-> IF f.seq > client.lastSeq THEN f.seq ELSE client.lastSeq]
    \/ f.kind = "invalidate" /\ client' = Reset /\ Hangup

LEMMA ReceiveFacts ==
    ASSUME PushTyped, StreamTyped, ClientTyped, Receive
    PROVE  /\ PushTyped' /\ StreamTyped' /\ ClientTyped'
           /\ conn.pc = "open" /\ wire # <<>> /\ Head(wire) \in Frames /\ Reads(Head(wire))
           /\ UNCHANGED stored
<1>1. PICK f : f = Head(wire)
  OBVIOUS
<1>2. conn.pc = "open" /\ wire # <<>> /\ UNCHANGED stored /\ Reads(f)
  BY <1>1 DEF Receive, ConnAt, stored, Reads, RowKinds
<1>3. f \in Frames /\ Tail(wire) \in Seq(Frames)
  BY <1>1, <1>2, ConnTyped
<1>4. f.seq \in Nat /\ (f.kind \in RowKinds => f.id \in Ids /\ f.row \in Rows)
  BY <1>3 DEF Frames, Marks, Shows, Removals, RowKinds, Rows
<1>5. CASE f.kind = "connected"
  <2>1. wire' = Tail(wire) /\ client' = [client EXCEPT !.lastSeq = f.seq] /\ UNCHANGED <<conn, sub, push>>
    BY <1>2, <1>5 DEF Reads, RowKinds
  <2> QED BY <1>1, <1>2, <1>3, <1>4, <2>1 DEF StreamTyped, ClientTyped, PushTyped
<1>6. CASE f.kind \in RowKinds
  <2>1. wire' = Tail(wire) /\ UNCHANGED <<conn, sub, push>>
        /\ client' = [items |-> [client.items EXCEPT ![f.id] = f.row],
                      lastSeq |-> IF f.seq > client.lastSeq THEN f.seq ELSE client.lastSeq]
    BY <1>2, <1>6 DEF Reads, RowKinds
  <2>2. ClientTyped'
    BY <1>4, <1>6, <2>1 DEF ClientTyped
  <2> QED BY <1>1, <1>2, <1>3, <2>1, <2>2 DEF StreamTyped, PushTyped
<1>7. CASE f.kind = "invalidate"
  <2>1. client' = Reset /\ Hangup
    BY <1>2, <1>7 DEF Reads, RowKinds
  <2>2. ClientTyped'
    BY <2>1 DEF Reset, ClientTyped, Nothing, Rows
  <2> QED BY <1>1, <1>2, <1>3, <2>1, <2>2, HangupFacts
<1> QED BY <1>2, <1>5, <1>6, <1>7 DEF Reads

served == <<push, sub, conn, wire>>

LEMMA ServedKept ==
    ASSUME PushTyped, StreamTyped, UNCHANGED served
    PROVE  PushTyped' /\ StreamTyped'
BY DEF served, PushTyped, StreamTyped

LEMMA PushSteps ==
    ASSUME PushTyped, StreamTyped, NEW w \in Writers, PushStep(w)
    PROVE  PushTyped' /\ StreamTyped'
<1>1. CASE PushLoad(w)
  BY <1>1, LoadMoves DEF PushLoad, StreamTyped
<1>2. CASE PushCheck(w)
  BY <1>2, CheckMoves DEF PushCheck, StreamTyped
<1>3. CASE PushMark(w)
  <2>1. PICK K : K = IF Fits(push[w].entry.row) THEN sub.known \cup {push[w].entry.id}
                                                ELSE sub.known \ {push[w].entry.id}
    OBVIOUS
  <2>2. sub' = [sub EXCEPT !.known = K] /\ conn' = conn /\ wire' = wire
    BY <1>3, <2>1, ConnTyped DEF PushMark, Subs
  <2>3. K \subseteq Ids
    BY <1>3, <2>1, MarkMoves, ConnTyped, EntryFields
  <2>4. sub' \in Subs
    BY <2>2, <2>3, ConnTyped DEF Subs
  <2> QED BY <1>3, <2>2, <2>4, MarkMoves DEF StreamTyped
<1>4. CASE PushSend(w)
  BY <1>4, PushSendFacts
<1> QED BY <1>1, <1>2, <1>3, <1>4 DEF PushStep

LEMMA SetupSteps ==
    ASSUME Logged, PushTyped, StreamTyped, SetupStep
    PROVE  PushTyped' /\ StreamTyped' /\ client' = client /\ push' = push
<1>1. client' = client
  BY DEF SetupStep, ReadSequence, StoreSub, ZeroCount, CheckGap, Refuse, ReadEntries, ReplayEntry,
         ReplayNothing, SelectIds, RegisterKnownIds, SelectRows, TrackRow, SendExisting
<1>2. CASE ReadSequence
  BY <1>1, <1>2, ReadSequenceFacts DEF ReadSequence, PushTyped
<1>3. CASE StoreSub
  BY <1>1, <1>3, StoreSubFacts DEF StoreSub, PushTyped
<1>4. CASE ZeroCount
  BY <1>1, <1>4, ZeroCountFacts DEF ZeroCount, PushTyped
<1>5. CASE CheckGap
  BY <1>1, <1>5, CheckGapFacts DEF CheckGap, PushTyped
<1>6. CASE Refuse
  BY <1>1, <1>6, RefuseFacts
<1>7. CASE ReadEntries
  BY <1>1, <1>7, ReadEntriesFacts DEF ReadEntries, PushTyped
<1>8. CASE ReplayEntry
  BY <1>1, <1>8, ReplayEntryFacts
<1>9. CASE ReplayNothing
  <2>1. conn' = AfterEntry /\ conn.pc = "replay" /\ UNCHANGED <<push, sub, wire>>
    BY <1>9 DEF ReplayNothing, ConnAt
  <2>2. PICK c : c = AfterEntry
    OBVIOUS
  <2>3. ConnOK(c)
    BY <2>1, <2>2, AfterEntryFacts
  <2> QED BY <1>1, <2>1, <2>2, <2>3 DEF PushTyped, StreamTyped
<1>10. CASE SelectIds
  BY <1>1, <1>10, SelectIdsFacts DEF SelectIds, PushTyped
<1>11. CASE RegisterKnownIds
  BY <1>1, <1>11, RegisterFacts DEF RegisterKnownIds, PushTyped
<1>12. CASE SelectRows
  BY <1>1, <1>12, SelectRowsFacts DEF SelectRows, PushTyped
<1>13. CASE TrackRow
  BY <1>1, <1>13, TrackRowFacts DEF TrackRow, PushTyped
<1>14. CASE SendExisting
  BY <1>1, <1>14, SendExistingFacts
<1> QED BY <1>2, <1>3, <1>4, <1>5, <1>6, <1>7, <1>8, <1>9, <1>10, <1>11, <1>12, <1>13, <1>14 DEF SetupStep

LEMMA TypedStep == Typed /\ [Next]_vars => Typed'
<1> SUFFICES ASSUME Typed, [Next]_vars PROVE Typed'
  OBVIOUS
<1>0. Logged /\ PushTyped /\ StreamTyped /\ ClientTyped
  BY DEF Typed
<1>1. Logged'
  BY <1>0, LoggedStep
<1> SUFFICES PushTyped' /\ StreamTyped' /\ ClientTyped'
  BY <1>1 DEF Typed
<1>2. ASSUME NEW w \in Writers, AppendStep(w) PROVE PushTyped' /\ StreamTyped' /\ ClientTyped'
  <2>1. UNCHANGED served /\ client' = client
    BY <1>2 DEF AppendStep, AppendIncr, AppendInsert, AppendCount, AppendOldest, AppendTrim, served
  <2> QED BY <1>0, <2>1, ServedKept DEF ClientTyped
<1>3. ASSUME NEW w \in Writers, PushStep(w) PROVE PushTyped' /\ StreamTyped' /\ ClientTyped'
  <2>1. client' = client
    BY <1>3 DEF PushStep, PushLoad, PushCheck, PushMark, PushSend
  <2> QED BY <1>0, <1>3, <2>1, PushSteps DEF ClientTyped
<1>4. ASSUME NEW w \in Writers, NEW kind \in Kinds, NEW id \in Ids, Write(w, kind, id)
      PROVE  PushTyped' /\ StreamTyped' /\ ClientTyped'
  <2>1. UNCHANGED <<sub, conn, wire, client>>
    BY <1>4 DEF Write
  <2> QED BY <1>0, <1>4, <2>1, WritePushes DEF StreamTyped, ClientTyped
<1>5. CASE Connect
  BY <1>0, <1>5, ConnectFacts DEF PushTyped, ClientTyped
<1>6. CASE SetupStep
  BY <1>0, <1>6, SetupSteps DEF ClientTyped
<1>7. CASE Receive
  BY <1>0, <1>7, ReceiveFacts
<1>8. CASE Drop
  BY <1>0, <1>8, HangupFacts DEF Drop, ClientTyped
<1>9. CASE UNCHANGED vars
  BY <1>0, <1>9 DEF PushTyped, StreamTyped, ClientTyped
<1> QED BY <1>2, <1>3, <1>4, <1>5, <1>6, <1>7, <1>8, <1>9 DEF Next

LEMMA InitTyped == Init => Typed
<1> SUFFICES ASSUME Init PROVE Typed
  OBVIOUS
<1>1. PushTyped
  BY IdlePushRecord DEF Init, PushTyped
<1>2. StreamTyped
  BY Finite DEF Init, StreamTyped, NoSub, Subs, NoConn, Conns, ConnOK, ConnPc
<1>3. ClientTyped
  BY DEF Init, ClientTyped, Nothing, Rows
<1> QED BY <1>1, <1>2, <1>3, InitLogged DEF Typed

\* Every entry, event, subscription, set-up and frame is well formed, whatever runs
\* at once and wherever a connection breaks: a set-up in particular works on
\* entries, ids or rows as its stage requires (src/src/resource/hook.ts, subscribe).
THEOREM FeedTyped == Spec => []TypeOK
<1>1. Typed /\ [Next]_vars => Typed'
  BY TypedStep
<1>2. Spec => []Typed
  BY InitTyped, <1>1, PTL DEF Spec
<1> QED BY <1>2, TypesMeet, PTL

-----------------------------------------------------------------------------
(* Without races: a set-up has the store to itself *)

NoRace == "race" \notin Hazards

\* One request pushes at a time, its entry is numbered before, and nothing runs while
\* a connection is set up.
Still ==
    /\ conn.pc \notin {"open", "down"} => Quiet /\ Appended
    /\ \A v, w \in Writers : push[v].pc # "idle" /\ push[w].pc # "idle" => v = w
    /\ \A w \in Writers : AppendAt(w, "incr") => push[w].pc = "load"

LEMMA AppendFrame ==
    ASSUME NEW w \in Writers, AppendStep(w)
    PROVE  UNCHANGED served /\ UNCHANGED <<client, db, writes>> /\ append[w].pc # "idle"
BY DEF AppendStep, AppendIncr, AppendInsert, AppendCount, AppendOldest, AppendTrim, served, AppendAt

LEMMA AppendPcs ==
    ASSUME Logged, NEW w \in Writers, AppendStep(w)
    PROVE  append'[w].pc # "incr" /\ Rest(w)
<1>1. CASE AppendIncr(w)
  BY <1>1, IncrMoves
<1>2. CASE AppendInsert(w)
  BY <1>2, InsertMoves
<1>3. CASE AppendCount(w)
  <2>1. Rest(w) /\ (append'[w].pc = "oldest" \/ append'[w] = IdleAppend)
    BY <1>3, CountMoves
  <2> QED BY <2>1, IdleRecord
<1>4. CASE AppendOldest(w)
  BY <1>4, OldestMoves
<1>5. CASE AppendTrim(w)
  BY <1>5, TrimMoves
<1> QED BY <1>1, <1>2, <1>3, <1>4, <1>5 DEF AppendStep

LEMMA PushFrameKept ==
    ASSUME PushTyped, StreamTyped, NEW w \in Writers, PushStep(w)
    PROVE  /\ UNCHANGED stored /\ client' = client /\ push[w].pc # "idle"
           /\ push[w].pc = "load" => ~ AppendAt(w, "incr")
           /\ conn'.pc = conn.pc /\ SameSpan(conn') /\ conn'.todo = conn.todo
           /\ \A v \in Writers \ {w} : push'[v] = push[v] \/ push'[v] = IdlePush
<1>1. CASE PushLoad(w)
  BY <1>1, LoadMoves DEF PushLoad, PushRest, stored, SameSpan
<1>2. CASE PushCheck(w)
  BY <1>2, CheckMoves DEF PushCheck, PushRest, stored, SameSpan
<1>3. CASE PushMark(w)
  BY <1>3, MarkMoves DEF PushMark, PushRest, stored, SameSpan
<1>4. CASE PushSend(w)
  BY <1>4, PushSendFacts DEF PushSend, stored, SameSpan, Alike
<1> QED BY <1>1, <1>2, <1>3, <1>4 DEF PushStep

LEMMA SetupFrom ==
    ASSUME SetupStep
    PROVE  conn.pc \notin {"open", "down"} /\ UNCHANGED stored
BY DEF SetupStep, ReadSequence, StoreSub, ZeroCount, CheckGap, Refuse, ReadEntries, ReplayEntry,
       ReplayNothing, SelectIds, RegisterKnownIds, SelectRows, TrackRow, SendExisting, ConnAt, stored

LEMMA StillStep ==
    ASSUME NoRace, Typed, Still, [Next]_vars
    PROVE  Still'
<1>0. Logged /\ PushTyped /\ StreamTyped /\ ClientTyped
  BY DEF Typed
<1>1. ASSUME NEW w \in Writers, AppendStep(w) PROVE Still'
  <2>1. /\ push' = push /\ conn' = conn /\ append[w].pc # "idle" /\ append'[w].pc # "incr"
        /\ \A v \in Writers \ {w} : append'[v] = append[v]
    BY <1>0, <1>1, AppendFrame, AppendPcs DEF served, Rest
  <2> QED BY <2>1 DEF Still, Quiet, Appended, AppendAt
<1>2. ASSUME NEW w \in Writers, PushStep(w) PROVE Still'
  <2>1. /\ append' = append /\ conn'.pc = conn.pc /\ push[w].pc # "idle"
        /\ push[w].pc = "load" => append[w].pc # "incr"
        /\ \A v \in Writers \ {w} : push'[v] = push[v] \/ push'[v] = IdlePush
    BY <1>0, <1>2, PushFrameKept DEF stored, AppendAt
  <2>2. \A v \in Writers \ {w} : push[v].pc = "idle" /\ push'[v].pc = "idle"
    BY <2>1, IdlePushRecord DEF Still
  <2>3. conn'.pc \in {"open", "down"}
    BY <2>1 DEF Still, Quiet
  <2> QED BY <2>1, <2>2, <2>3 DEF Still, AppendAt
<1>3. ASSUME NEW w \in Writers, NEW kind \in Kinds, NEW id \in Ids, Write(w, kind, id) PROVE Still'
  <2>1. /\ \A v \in Writers : push[v].pc = "idle"
        /\ conn' = conn /\ conn.pc \in {"open", "down"}
    BY <1>3 DEF Write, NoRace, Quiet
  <2>2. /\ push'[w].pc = "load" /\ \A v \in Writers \ {w} : push'[v] = push[v]
        /\ \A v \in Writers \ {w} : append'[v] = append[v]
    BY <1>0, <1>3, WritePushes, WriteMoves DEF PushRest, Rest
  <2> QED BY <2>1, <2>2 DEF Still, AppendAt
<1>4. CASE Connect
  <2>1. append' = append /\ push' = push /\ Quiet /\ Appended
    BY <1>4 DEF Connect, NoRace
  <2> QED BY <2>1 DEF Still, Quiet, Appended, AppendAt
<1>5. CASE SetupStep
  <2>1. append' = append /\ push' = push /\ Quiet /\ Appended
    BY <1>0, <1>5, SetupFrom, SetupSteps DEF Still, stored
  <2> QED BY <2>1 DEF Still, Quiet, Appended, AppendAt
<1>6. ASSUME append' = append, Hangup PROVE Still'
  <2>1. /\ \A w \in Writers : push'[w] = push[w] \/ push'[w] = IdlePush
        /\ \A w \in Writers : push[w].pc = "load" => push'[w] = push[w]
        /\ conn'.pc = "down"
    BY <1>0, <1>6, HangupFacts
  <2>2. \A w \in Writers : push'[w].pc # "idle" => push[w].pc # "idle"
    BY <2>1, IdlePushRecord
  <2> QED BY <1>6, <2>1, <2>2 DEF Still, AppendAt
<1>7. CASE Receive
  <2>1. append' = append /\ (UNCHANGED <<push, conn>> \/ Hangup)
    BY <1>0, <1>7, ReceiveFacts DEF stored, Reads
  <2> QED BY <1>6, <2>1 DEF Still, Quiet, Appended, AppendAt
<1>8. CASE Drop
  BY <1>6, <1>8 DEF Drop
<1>9. CASE UNCHANGED vars
  BY <1>9 DEF Still, Quiet, Appended, AppendAt
<1> QED BY <1>1, <1>2, <1>3, <1>4, <1>5, <1>7, <1>8, <1>9 DEF Next

\* What a set-up has read is still what the store holds.
Current ==
    /\ conn.pc \notin {"open", "down", "sequence"} => conn.upto = seq
    /\ conn.pc = "gap" => conn.since > 0
    /\ ReplayComplete

LEMMA MinAvailableIs ==
    ASSUME Logged, Numbered, log # {}
    PROVE  /\ \E e \in log : e.seq = MinAvailable
           /\ MinAvailable \in Nat
<1>1. PICK e \in log : \A f \in log : e.seq <= f.seq
  BY LeastEntry DEF Logged, StoreTyped
<1>2. PICK S : S = {f.seq : f \in log}
  OBVIOUS
<1>3. \E n \in S : \A m \in S : n <= m
  BY <1>1, <1>2
<1>4. Min(S) \in S
  BY <1>3 DEF Min
<1>5. MinAvailable = Min(S)
  BY <1>2 DEF MinAvailable
<1> QED BY <1>2, <1>4, <1>5, EntrySeq DEF Logged, StoreTyped

\* A position that passes the gap check has every later entry above it.
LEMMA NoGap ==
    ASSUME Window, Pairs, Appended, NEW n \in Nat, n > 0, ~ NeedsInvalidation(n)
    PROVE  \A m \in (n + 1)..seq : \E e \in log : e.seq = m
<1>1. WindowContiguous /\ Logged /\ Numbered /\ seq \in Nat
  BY WindowMeets, SeqNat DEF Window
<1>2. CASE log = {}
  <2>1. MinAvailable = seq
    BY <1>2 DEF MinAvailable
  <2> QED BY <1>1, <2>1 DEF NeedsInvalidation
<1>3. CASE log # {}
  <2>1. PICK e \in log : e.seq = MinAvailable /\ e.seq \in Nat
    BY <1>1, <1>3, MinAvailableIs
  <2>2. e.seq <= n
    BY <2>1 DEF NeedsInvalidation
  <2>3. \A m \in (n + 1)..seq : m \in e.seq..seq
    BY <1>1, <2>1, <2>2
  <2> QED BY <1>1, <2>3 DEF WindowContiguous
<1> QED BY <1>2, <1>3

LEMMA CurrentSetup ==
    ASSUME Typed, Window, Pairs, Still, Current, SetupStep
    PROVE  Current'
<1>0. Logged /\ PushTyped /\ StreamTyped
  BY DEF Typed
<1>1. UNCHANGED <<seq, log>> /\ Appended
  BY SetupFrom DEF Still, stored
<1>2. CASE ReadSequence
  BY <1>0, <1>1, <1>2, ReadSequenceFacts DEF Current, ReplayComplete, ConnAt
<1>3. CASE StoreSub
  BY <1>0, <1>1, <1>3, StoreSubFacts DEF StoreSub, Current, ReplayComplete, ConnAt, SameSpan
<1>4. CASE ZeroCount
  BY <1>0, <1>1, <1>4, ZeroCountFacts DEF ZeroCount, Current, ReplayComplete, ConnAt, SameSpan
<1>5. CASE CheckGap
  <2>1. /\ conn'.pc = IF NeedsInvalidation(conn.since) THEN "refuse" ELSE "entries"
        /\ conn'.since = conn.since /\ conn'.upto = conn.upto /\ conn.upto = seq
        /\ conn.since \in Nat /\ conn.since > 0
    BY <1>0, <1>5, CheckGapFacts, ConnTyped DEF CheckGap, ConnAt, Current, SameSpan
  <2>2. CASE NeedsInvalidation(conn.since)
    BY <1>1, <2>1, <2>2 DEF Current, ReplayComplete, ConnAt
  <2>3. CASE ~ NeedsInvalidation(conn.since)
    <3>1. \A m \in (conn.since + 1)..seq : \E e \in log : e.seq = m
      BY <1>1, <2>1, <2>3, NoGap
    <3> QED BY <1>1, <2>1, <2>3, <3>1 DEF Current, ReplayComplete, ConnAt
  <2> QED BY <2>2, <2>3
<1>6. CASE Refuse
  BY <1>0, <1>1, <1>6, RefuseFacts DEF Current, ReplayComplete, ConnAt
<1>7. CASE ReadEntries
  BY <1>0, <1>1, <1>7, ReadEntriesFacts DEF ReadEntries, Current, ReplayComplete, ConnAt, SameSpan
<1>8. CASE ReplayEntry
  BY <1>0, <1>1, <1>8, ReplayEntryFacts, AfterEntryFacts DEF Current, ReplayComplete, ConnAt, SameSpan, Alike
<1>9. CASE ReplayNothing
  BY <1>0, <1>1, <1>9, AfterEntryFacts DEF ReplayNothing, Current, ReplayComplete, ConnAt, SameSpan
<1>10. CASE SelectIds
  BY <1>0, <1>1, <1>10, SelectIdsFacts DEF SelectIds, Current, ReplayComplete, ConnAt, SameSpan
<1>11. CASE RegisterKnownIds
  BY <1>0, <1>1, <1>11, RegisterFacts DEF RegisterKnownIds, Current, ReplayComplete, ConnAt, SameSpan
<1>12. CASE SelectRows
  BY <1>0, <1>1, <1>12, SelectRowsFacts DEF SelectRows, Current, ReplayComplete, ConnAt, SameSpan
<1>13. CASE TrackRow
  BY <1>0, <1>1, <1>13, TrackRowFacts DEF TrackRow, Current, ReplayComplete, ConnAt, SameSpan
<1>14. CASE SendExisting
  BY <1>0, <1>1, <1>14, SendExistingFacts, AfterRowFacts DEF Current, ReplayComplete, ConnAt, SameSpan, Alike
<1> QED BY <1>2, <1>3, <1>4, <1>5, <1>6, <1>7, <1>8, <1>9, <1>10, <1>11, <1>12, <1>13, <1>14 DEF SetupStep

LEMMA CurrentStep ==
    ASSUME NoRace, Pairs, Typed, Window, Still, Current, [Next]_vars
    PROVE  Current'
<1>0. Logged /\ PushTyped /\ StreamTyped /\ ClientTyped
  BY DEF Typed
<1>1. ASSUME NEW w \in Writers, AppendStep(w) PROVE Current'
  <2>1. conn' = conn /\ conn.pc \in {"open", "down"}
    BY <1>1, AppendFrame DEF served, Still, Appended
  <2> QED BY <2>1 DEF Current, ReplayComplete, ConnAt
<1>2. ASSUME NEW w \in Writers, PushStep(w) PROVE Current'
  <2>1. conn'.pc = conn.pc /\ conn.pc \in {"open", "down"}
    BY <1>0, <1>2, PushFrameKept DEF Still, Quiet
  <2> QED BY <2>1 DEF Current, ReplayComplete, ConnAt
<1>3. ASSUME NEW w \in Writers, NEW kind \in Kinds, NEW id \in Ids, Write(w, kind, id) PROVE Current'
  <2>1. conn' = conn /\ conn.pc \in {"open", "down"}
    BY <1>3 DEF Write, NoRace
  <2> QED BY <2>1 DEF Current, ReplayComplete, ConnAt
<1>4. CASE Connect
  BY <1>0, <1>4, ConnectFacts DEF Current, ReplayComplete, ConnAt
<1>5. CASE SetupStep
  BY <1>5, CurrentSetup
<1>6. ASSUME Hangup PROVE Current'
  BY <1>0, <1>6, HangupFacts DEF Current, ReplayComplete, ConnAt
<1>7. CASE Receive
  <2>1. conn.pc = "open" /\ (conn' = conn \/ Hangup)
    BY <1>0, <1>7, ReceiveFacts DEF Reads
  <2> QED BY <1>6, <2>1 DEF Current, ReplayComplete, ConnAt
<1>8. CASE Drop
  BY <1>6, <1>8 DEF Drop
<1>9. CASE UNCHANGED vars
  BY <1>9 DEF Current, ReplayComplete, ConnAt
<1> QED BY <1>1, <1>2, <1>3, <1>4, <1>5, <1>7, <1>8, <1>9 DEF Next

LEMMA InitStill == Init => Still /\ Current
BY DEF Init, IdleAppend, IdlePush, NoConn, Still, Current, ReplayComplete, ConnAt, AppendAt

LEMMA WindowStep == Window /\ [Next]_vars => Window'
BY LoggedStep, NumberedStep, BoundedStep, ContiguousStep DEF Window

\* A resume that passed the gap check finds every entry up to the sequence it was
\* told, for any bound of the changelog and any number of rows, when no request runs
\* beside the set-up and one pushes at a time; the appends and trims of two requests
\* may still overlap (src/src/resource/hook.ts, startResourceSubscription, and
\* changelog.ts, needsInvalidation).
THEOREM FeedReplayComplete ==
    ASSUME NoRace, Pairs
    PROVE  Spec => []ReplayComplete
<1> DEFINE Inv == Typed /\ Window /\ Still /\ Current
<1>1. Init => Inv
  BY InitTyped, InitWindow, InitStill
<1>2. Inv /\ [Next]_vars => Inv'
  BY TypedStep, WindowStep, StillStep, CurrentStep
<1>3. Inv => ReplayComplete
  BY DEF Current
<1> HIDE DEF Inv
<1> QED BY <1>1, <1>2, <1>3, PTL DEF Spec

-----------------------------------------------------------------------------
(* What a client will hold when it has read its stream *)

RowAt(wr, i, k) == k \in DOMAIN wr /\ wr[k].kind \in RowKinds /\ wr[k].id = i
LastAt(wr, i, k) == RowAt(wr, i, k) /\ \A l \in DOMAIN wr : RowAt(wr, i, l) => l <= k
Ends(wr) == \A i \in Ids : \A k \in DOMAIN wr : RowAt(wr, i, k) => \E l \in DOMAIN wr : LastAt(wr, i, l)

\* The row the last frame about i shows, or the row already there.
FinalOf(wr, items, i) ==
    IF \E k \in DOMAIN wr : LastAt(wr, i, k) THEN wr[CHOOSE k \in DOMAIN wr : LastAt(wr, i, k)].row
                                             ELSE items[i]

LEMMA FinalAt ==
    ASSUME NEW wr \in Seq(Frames), NEW items, NEW i, NEW k \in DOMAIN wr, LastAt(wr, i, k)
    PROVE  FinalOf(wr, items, i) = wr[k].row
<1>1. PICK l : l = CHOOSE m \in DOMAIN wr : LastAt(wr, i, m)
  OBVIOUS
<1>2. l \in DOMAIN wr /\ LastAt(wr, i, l)
  BY <1>1
<1>3. l = k
  BY <1>2 DEF LastAt
<1> QED BY <1>1, <1>3 DEF FinalOf

LEMMA FinalNone ==
    ASSUME NEW wr, NEW items, NEW i, \A k \in DOMAIN wr : ~ RowAt(wr, i, k)
    PROVE  FinalOf(wr, items, i) = items[i]
BY DEF FinalOf, LastAt

LEMMA AppendedAt ==
    ASSUME NEW wr \in Seq(Frames), NEW f \in Frames
    PROVE  /\ Append(wr, f) \in Seq(Frames) /\ Len(Append(wr, f)) = Len(wr) + 1
           /\ Len(wr) \in Nat /\ DOMAIN wr = 1..Len(wr) /\ DOMAIN Append(wr, f) = 1..(Len(wr) + 1)
           /\ \A k \in 1..Len(wr) : Append(wr, f)[k] = wr[k]
           /\ Append(wr, f)[Len(wr) + 1] = f
OBVIOUS

LEMMA FinalMark ==
    ASSUME NEW wr \in Seq(Frames), NEW items, NEW f \in Frames, f.kind \notin RowKinds, Ends(wr)
    PROVE  /\ Ends(Append(wr, f))
           /\ \A i \in Ids : FinalOf(Append(wr, f), items, i) = FinalOf(wr, items, i)
<1>1. PICK u : u = Append(wr, f)
  OBVIOUS
<1>2. u \in Seq(Frames)
  BY <1>1, AppendedAt
<1>3. \A i, k : RowAt(u, i, k) <=> RowAt(wr, i, k)
  BY <1>1, AppendedAt DEF RowAt
<1>4. \A i, k : LastAt(u, i, k) <=> LastAt(wr, i, k)
  BY <1>3 DEF LastAt, RowAt
<1>5. Ends(u)
  <2> SUFFICES ASSUME NEW i \in Ids, NEW k \in DOMAIN u, RowAt(u, i, k)
               PROVE  \E l \in DOMAIN u : LastAt(u, i, l)
    BY DEF Ends
  <2>1. RowAt(wr, i, k) /\ k \in DOMAIN wr
    BY <1>3 DEF RowAt
  <2>2. PICK l \in DOMAIN wr : LastAt(wr, i, l)
    BY <2>1 DEF Ends
  <2>3. LastAt(u, i, l)
    BY <1>4, <2>2
  <2> QED BY <2>3 DEF LastAt, RowAt
<1>6. ASSUME NEW i \in Ids PROVE FinalOf(u, items, i) = FinalOf(wr, items, i)
  <2>1. CASE \E k \in DOMAIN wr : LastAt(wr, i, k)
    <3>1. PICK k \in DOMAIN wr : LastAt(wr, i, k)
      BY <2>1
    <3>2. k \in DOMAIN u /\ LastAt(u, i, k) /\ u[k] = wr[k]
      BY <1>1, <1>4, <3>1, AppendedAt
    <3> QED BY <1>2, <3>1, <3>2, FinalAt
  <2>2. CASE ~ \E k \in DOMAIN wr : LastAt(wr, i, k)
    <3>1. ~ \E k \in DOMAIN u : LastAt(u, i, k)
      BY <1>4, <2>2 DEF LastAt, RowAt
    <3> QED BY <2>2, <3>1 DEF FinalOf
  <2> QED BY <2>1, <2>2
<1> QED BY <1>1, <1>5, <1>6

LEMMA FinalRow ==
    ASSUME NEW wr \in Seq(Frames), NEW items, NEW f \in Frames, f.kind \in RowKinds, Ends(wr)
    PROVE  /\ Ends(Append(wr, f))
           /\ FinalOf(Append(wr, f), items, f.id) = f.row
           /\ \A i \in Ids : i # f.id => FinalOf(Append(wr, f), items, i) = FinalOf(wr, items, i)
<1>1. PICK u : u = Append(wr, f)
  OBVIOUS
<1>2. u \in Seq(Frames)
  BY <1>1, AppendedAt
<1>3. ASSUME NEW i, i # f.id
      PROVE  \A k : (RowAt(u, i, k) <=> RowAt(wr, i, k)) /\ (LastAt(u, i, k) <=> LastAt(wr, i, k))
  <2>1. \A k : RowAt(u, i, k) <=> RowAt(wr, i, k)
    BY <1>1, <1>3, AppendedAt DEF RowAt
  <2>2. \A k : LastAt(u, i, k) <=> LastAt(wr, i, k)
    BY <2>1 DEF LastAt, RowAt
  <2> QED BY <2>1, <2>2
<1>4. LastAt(u, f.id, Len(wr) + 1) /\ Len(wr) + 1 \in DOMAIN u
  BY <1>1, AppendedAt DEF LastAt, RowAt
<1>5. FinalOf(u, items, f.id) = f.row
  <2>1. FinalOf(u, items, f.id) = u[Len(wr) + 1].row
    BY <1>2, <1>4, FinalAt
  <2> QED BY <1>1, <2>1, AppendedAt
<1>6. ASSUME NEW i \in Ids, i # f.id PROVE FinalOf(u, items, i) = FinalOf(wr, items, i)
  <2>1. CASE \E k \in DOMAIN wr : LastAt(wr, i, k)
    <3>1. PICK k \in DOMAIN wr : LastAt(wr, i, k)
      BY <2>1
    <3>2. k \in DOMAIN u /\ LastAt(u, i, k) /\ u[k] = wr[k]
      BY <1>1, <1>3, <1>6, <3>1, AppendedAt
    <3> QED BY <1>2, <3>1, <3>2, FinalAt
  <2>2. CASE ~ \E k \in DOMAIN wr : LastAt(wr, i, k)
    <3>1. ~ \E k \in DOMAIN u : LastAt(u, i, k)
      BY <1>3, <1>6, <2>2 DEF LastAt, RowAt
    <3> QED BY <2>2, <3>1 DEF FinalOf
  <2> QED BY <2>1, <2>2
<1>7. Ends(u)
  <2> SUFFICES ASSUME NEW i \in Ids, NEW k \in DOMAIN u, RowAt(u, i, k)
               PROVE  \E l \in DOMAIN u : LastAt(u, i, l)
    BY DEF Ends
  <2>1. CASE i = f.id
    BY <1>4, <2>1
  <2>2. CASE i # f.id
    <3>1. RowAt(wr, i, k) /\ k \in DOMAIN wr
      BY <1>3, <2>2 DEF RowAt
    <3>2. PICK l \in DOMAIN wr : LastAt(wr, i, l)
      BY <3>1 DEF Ends
    <3>3. LastAt(u, i, l)
      BY <1>3, <2>2, <3>2
    <3> QED BY <3>3 DEF LastAt, RowAt
  <2> QED BY <2>1, <2>2
<1> QED BY <1>1, <1>5, <1>6, <1>7

LEMMA TailAt ==
    ASSUME NEW wr \in Seq(Frames), wr # <<>>
    PROVE  /\ Tail(wr) \in Seq(Frames) /\ Len(wr) \in Nat /\ DOMAIN wr = 1..Len(wr)
           /\ DOMAIN Tail(wr) = 1..(Len(wr) - 1) /\ Len(wr) >= 1
           /\ \A k \in 1..(Len(wr) - 1) : Tail(wr)[k] = wr[k + 1]
           /\ Head(wr) = wr[1]
OBVIOUS

\* Reading the first frame changes nothing of what the client will hold.
LEMMA FinalRead ==
    ASSUME NEW wr \in Seq(Frames), wr # <<>>, NEW items \in [Ids -> Rows], NEW held \in [Ids -> Rows], Ends(wr),
           \/ Head(wr).kind \notin RowKinds /\ held = items
           \/ Head(wr).kind \in RowKinds /\ held = [items EXCEPT ![Head(wr).id] = Head(wr).row]
    PROVE  /\ Ends(Tail(wr))
           /\ \A i \in Ids : FinalOf(Tail(wr), held, i) = FinalOf(wr, items, i)
<1>1. PICK u : u = Tail(wr)
  OBVIOUS
<1>2. u \in Seq(Frames)
  BY <1>1, TailAt
<1>3. \A i : \A k \in DOMAIN u : k + 1 \in DOMAIN wr /\ k \in Nat /\ (RowAt(u, i, k) <=> RowAt(wr, i, k + 1))
  BY <1>1, TailAt DEF RowAt
<1>4. \A k \in DOMAIN wr : k = 1 \/ (k - 1 \in DOMAIN u /\ (k - 1) + 1 = k)
  BY <1>1, TailAt
<1>5. ASSUME NEW i, NEW k \in DOMAIN u, LastAt(wr, i, k + 1) PROVE LastAt(u, i, k)
  <2>1. RowAt(u, i, k)
    BY <1>3, <1>5 DEF LastAt
  <2>2. ASSUME NEW l \in DOMAIN u, RowAt(u, i, l) PROVE l <= k
    <3>1. RowAt(wr, i, l + 1) /\ l + 1 \in DOMAIN wr /\ l \in Nat /\ k \in Nat
      BY <1>3, <2>2
    <3>2. l + 1 <= k + 1
      BY <1>5, <3>1 DEF LastAt
    <3> QED BY <3>1, <3>2
  <2> QED BY <2>1, <2>2 DEF LastAt
<1>6. ASSUME NEW i \in Ids, NEW k \in DOMAIN u, RowAt(u, i, k)
      PROVE  \E l \in DOMAIN u : LastAt(u, i, l) /\ LastAt(wr, i, l + 1)
  <2>1. RowAt(wr, i, k + 1) /\ k + 1 \in DOMAIN wr
    BY <1>3, <1>6
  <2>2. PICK m \in DOMAIN wr : LastAt(wr, i, m)
    BY <2>1 DEF Ends
  <2>3. m >= k + 1 /\ k \in Nat /\ k >= 1
    BY <1>1, <2>1, <2>2, TailAt DEF LastAt
  <2>4. m - 1 \in DOMAIN u /\ (m - 1) + 1 = m
    BY <1>4, <2>3
  <2> QED BY <1>5, <2>2, <2>4
<1>7. Ends(u)
  BY <1>6 DEF Ends
<1>8. ASSUME NEW i \in Ids PROVE FinalOf(u, held, i) = FinalOf(wr, items, i)
  <2>1. CASE \E k \in DOMAIN u : RowAt(u, i, k)
    <3>1. PICK l \in DOMAIN u : LastAt(u, i, l) /\ LastAt(wr, i, l + 1)
      BY <1>6, <2>1
    <3>2. l + 1 \in DOMAIN wr /\ u[l] = wr[l + 1]
      BY <1>1, <1>3, TailAt
    <3>3. FinalOf(u, held, i) = u[l].row
      BY <1>2, <3>1, FinalAt
    <3>4. FinalOf(wr, items, i) = wr[l + 1].row
      BY <3>1, <3>2, FinalAt
    <3> QED BY <3>2, <3>3, <3>4
  <2>2. CASE ~ \E k \in DOMAIN u : RowAt(u, i, k)
    <3>1. FinalOf(u, held, i) = held[i]
      BY <2>2, FinalNone
    <3>2. \A k \in DOMAIN wr : RowAt(wr, i, k) => k = 1
      BY <1>3, <1>4, <2>2
    <3>3. 1 \in DOMAIN wr /\ Head(wr) = wr[1]
      BY TailAt
    <3>4. CASE RowAt(wr, i, 1)
      <4>1. LastAt(wr, i, 1)
        BY <3>2, <3>4 DEF LastAt
      <4>2. FinalOf(wr, items, i) = wr[1].row
        BY <3>3, <4>1, FinalAt
      <4>3. held[i] = wr[1].row
        BY <3>3, <3>4 DEF RowAt
      <4> QED BY <3>1, <4>2, <4>3
    <3>5. CASE ~ RowAt(wr, i, 1)
      <4>1. FinalOf(wr, items, i) = items[i]
        BY <3>2, <3>5, FinalNone
      <4>2. held[i] = items[i]
        BY <3>3, <3>5 DEF RowAt
      <4> QED BY <3>1, <4>1, <4>2
    <3> QED BY <3>4, <3>5
  <2> QED BY <2>1, <2>2
<1> QED BY <1>1, <1>7, <1>8

-----------------------------------------------------------------------------
(* What the client holds, when nothing races and no frame is lost *)

Calm == NoRace /\ "lose" \notin Hazards /\ Seeded = {} /\ Pairs

\* Entries with a number, inserted or about to be.
Recorded == log \cup {append[w].entry : w \in {v \in Writers : AppendAt(v, "insert")}}
\* A number after s whose entry has been trimmed.
Lost(s) == \E n \in (s + 1)..seq : \A e \in Recorded : e.seq # n
\* A created row that does not fit was never visible.
Skip(e) == e.kind = "create" /\ ~ Fits(e.row)
Like(e, f) == e.kind = f.kind /\ e.id = f.id /\ e.row = f.row

\* A change of row i that is not numbered yet.
Coming(i) == \E w \in Writers : AppendAt(w, "incr") /\ append[w].entry.id = i /\ ~ Skip(append[w].entry)
Newest(e) == ~ Coming(e.id) /\ \A f \in Recorded : f.id = e.id /\ f.seq > e.seq => Skip(f)

\* The newest entry of a row tells what the client should hold of it, a change not
\* numbered or not pushed yet tells what the table holds, and the entry of the change
\* being pushed has the latest number.
Told ==
    /\ \A e \in Recorded : ~ Skip(e) /\ ~ Lost(e.seq) /\ Newest(e) => Matching[e.id] = Shown(e.row)
    /\ \A w \in Writers : AppendAt(w, "incr") => append[w].entry.row = db[append[w].entry.id]
    /\ \A w \in Writers : push[w].pc # "idle" =>
        /\ push[w].entry.row = db[push[w].entry.id]
        /\ AppendAt(w, "incr") => Like(append[w].entry, push[w].entry)
        /\ ~ AppendAt(w, "incr") => \A e \in Recorded : e.seq = seq => Like(e, push[w].entry)
    /\ Cardinality({i \in Ids : db[i] # NoRow}) <= writes

\* A position that is behind the sequence, and behind the change being pushed.
Behind(n) ==
    n <= seq /\ \A w \in Writers : push[w].pc # "idle" /\ ~ AppendAt(w, "incr") => n < seq

\* What will bring row i of the client up to date when it resumes.
Owed(i) ==
    \/ Coming(i)
    \/ Lost(client.lastSeq)
    \/ \E e \in Recorded : e.id = i /\ e.seq > client.lastSeq /\ ~ Skip(e)

\* A client without a connection: it starts from nothing, or what it holds is right
\* or owed to it.
AwayPc == {"down", "sequence", "store", "zero", "gap"}
Away ==
    /\ Behind(client.lastSeq)
    /\ client.lastSeq = 0 => client.items = Nothing
    /\ conn.pc \in AwayPc /\ client.lastSeq > 0 =>
        \A i \in Ids : client.items[i] = Matching[i] \/ Owed(i)

Halts == \E k \in DOMAIN wire : wire[k].kind = "invalidate"
Final(i) == FinalOf(wire, client.items, i)

\* The frames on the wire: a position is told first, and a closed stream ends with
\* an invalidate.
Framed ==
    /\ Ends(wire)
    /\ \A k \in DOMAIN wire : wire[k].kind = "connected" =>
          k = 1 /\ wire[k].seq >= client.lastSeq /\ Behind(wire[k].seq)
    /\ \A k \in DOMAIN wire : wire[k].kind \in RowKinds => wire[k].seq > 0 /\ Behind(wire[k].seq)
    /\ conn.closed => Halts

\* What is on the wire at each stage, and the number of the next frame.
EarlyPc == {"store", "zero", "gap", "refuse", "entries", "rows"}
Wired ==
    /\ conn.pc = "sequence" => ~ conn.closed
    /\ conn.pc \notin {"down", "sequence"} => Framed
    /\ conn.pc \in EarlyPc => \A k \in DOMAIN wire : wire[k].kind = "connected"
    /\ conn.pc \notin {"down", "sequence", "store"} => Behind(sub.count) /\ (Halts \/ sub.stored)
    /\ conn.pc \in EarlyPc \ {"store"} => sub.count = 0
    /\ conn.pc \in {"replay", "track", "existing"} =>
        IsFiniteSet(conn.todo) /\ sub.count + Cardinality(conn.todo) <= seq

\* How far a set-up is.
Known(i) == i \in sub.known <=> Final(i) # NoRow
Resuming ==
    /\ conn.pc \notin {"down", "open"} => conn.since = client.lastSeq
    /\ conn.pc \in {"zero", "gap", "refuse", "entries", "rows", "replay", "select", "register"} => sub.known = {}
    /\ conn.pc = "refuse" => conn.since > 0
    /\ conn.pc \in {"entries", "replay"} => ~ Lost(conn.since)
    /\ conn.pc = "entries" => \A i \in Ids :
        Final(i) = Matching[i] \/ \E e \in log : e.id = i /\ e.seq > conn.since /\ ~ Skip(e)
    /\ conn.pc = "replay" =>
        /\ conn.todo \subseteq log
        /\ \A e \in conn.todo : e.seq > conn.since
        /\ \A e \in conn.todo, f \in log : f.seq > e.seq => f \in conn.todo
        /\ Halts \/ \A i \in Ids : Final(i) = Matching[i] \/ \E e \in conn.todo : e.id = i /\ ~ Skip(e)
    /\ conn.pc \in {"select", "register"} => Halts \/ \A i \in Ids : Final(i) = Matching[i]
    /\ conn.pc = "register" => conn.todo = {i \in Ids : Fits(db[i])}
Starting ==
    /\ conn.pc = "rows" => \A i \in Ids : Final(i) = NoRow
    /\ conn.pc \in {"track", "existing"} =>
        /\ \A r \in conn.todo : r.row = Matching[r.id] /\ r.row # NoRow
        /\ Halts \/ \A i \in Ids : IF \E r \in conn.todo : r.id = i THEN Final(i) = NoRow ELSE Final(i) = Matching[i]
    /\ conn.pc = "track" => Halts \/ \A i \in Ids : Known(i)
    /\ conn.pc = "existing" =>
        Halts \/ (conn.row.id \in sub.known /\ \A i \in Ids \ {conn.row.id} : Known(i))

\* A connection that is open: all that keeps a row from its place is the push of its
\* change, and all that keeps an id from being known is a push that has marked it.
Live ==
    conn.pc = "open" /\ ~ Halts =>
        /\ \A i \in Ids : (\A w \in Writers : push[w].pc # "idle" => push[w].entry.id # i) => Final(i) = Matching[i]
        /\ \A i \in Ids : (\A w \in Writers : push[w].pc = "send" => push[w].entry.id # i) => Known(i)
        /\ \A w \in Writers :
            /\ push[w].pc = "load" /\ push[w].entry.kind = "create" => Final(push[w].entry.id) = NoRow
            /\ push[w].pc \in {"check", "mark", "send"} => ~ Skip(push[w].entry)
            /\ push[w].pc = "send" => (push[w].entry.id \in sub.known <=> Fits(push[w].entry.row))

Mirror == Told /\ Away /\ Wired /\ Resuming /\ Starting /\ Live

-----------------------------------------------------------------------------
(* The entries on record *)

LEMMA RecordedFacts ==
    ASSUME Logged, Numbered
    PROVE  /\ Recorded \subseteq Entry /\ log \subseteq Recorded /\ seq \in Nat
           /\ \A e \in Recorded : e.seq \in 1..seq /\ e.seq \in Nat
           /\ \A e, f \in Recorded : e.seq = f.seq => e = f
           /\ Appended => Recorded = log /\ \A i : ~ Coming(i)
<1>1. log \subseteq Entry /\ seq \in Nat
  BY SeqNat DEF Logged, StoreTyped
<1>2. \A w \in Writers : AppendAt(w, "insert") => append[w].entry \in Entry
  BY DEF Logged, AppendTyped, AppendAt
<1>3. \A e \in Recorded : e \in log \/ \E w \in Writers : AppendAt(w, "insert") /\ e = append[w].entry
  BY DEF Recorded
<1>4. Recorded \subseteq Entry /\ log \subseteq Recorded
  BY <1>1, <1>2, <1>3 DEF Recorded
<1>5. \A e \in Recorded : e.seq \in 1..seq /\ e.seq \in Nat
  BY <1>1, <1>3 DEF Numbered
<1>6. \A e, f \in Recorded : e.seq = f.seq => e = f
  BY <1>3 DEF Numbered
<1>7. Appended => Recorded = log /\ \A i : ~ Coming(i)
  BY <1>3, <1>4 DEF Appended, AppendAt, Coming
<1> QED BY <1>1, <1>4, <1>5, <1>6, <1>7

LEMMA RecordedIncr ==
    ASSUME Logged, Numbered, NEW w \in Writers, AppendIncr(w)
    PROVE  /\ seq' = seq + 1 /\ AppendAt(w, "incr") /\ append'[w].pc = "insert" /\ Rest(w)
           /\ append[w].entry \in Entry /\ append'[w].entry \in Entry
           /\ append'[w].entry.seq = seq + 1 /\ Like(append'[w].entry, append[w].entry)
           /\ Recorded' = Recorded \cup {append'[w].entry}
           /\ \A i : Coming(i) => Coming(i)' \/ (append'[w].entry.id = i /\ ~ Skip(append'[w].entry))
           /\ \A s \in Nat : Lost(s) => Lost(s)'
<1>1. /\ seq' = seq + 1 /\ log' = log /\ append[w].pc = "incr" /\ append'[w].pc = "insert" /\ Rest(w)
      /\ append[w].entry \in Entry /\ append'[w].entry \in Entry
  BY IncrMoves DEF AppendIncr, AppendAt
<1>2. append'[w].entry.seq = seq + 1 /\ Like(append'[w].entry, append[w].entry)
  <2>1. append'[w].entry = [append[w].entry EXCEPT !.seq = seq + 1]
    BY IncrMoves
  <2> QED BY <1>1, <2>1 DEF Entry, Like
<1>3. Recorded' = Recorded \cup {append'[w].entry}
  BY <1>1 DEF Recorded, AppendAt, Rest
<1>4. ASSUME NEW i, Coming(i)
      PROVE  Coming(i)' \/ (append'[w].entry.id = i /\ ~ Skip(append'[w].entry))
  <2>1. PICK v \in Writers : AppendAt(v, "incr") /\ append[v].entry.id = i /\ ~ Skip(append[v].entry)
    BY <1>4 DEF Coming
  <2>2. CASE v = w
    BY <1>2, <2>1, <2>2 DEF Like, Skip
  <2>3. CASE v # w
    <3>1. append'[v] = append[v]
      BY <1>1, <2>3 DEF Rest
    <3> QED BY <2>1, <3>1 DEF Coming, AppendAt
  <2> QED BY <2>2, <2>3
<1>5. ASSUME NEW s \in Nat, Lost(s) PROVE Lost(s)'
  <2>1. PICK n \in (s + 1)..seq : \A e \in Recorded : e.seq # n
    BY <1>5 DEF Lost
  <2>2. n # seq + 1 /\ n \in (s + 1)..seq'
    BY <1>1, RecordedFacts
  <2> QED BY <1>2, <1>3, <2>1, <2>2 DEF Lost
<1> QED BY <1>1, <1>2, <1>3, <1>4, <1>5 DEF AppendAt

LEMMA RecordedShrinks ==
    ASSUME Logged, Numbered, NEW w \in Writers, AppendStep(w), ~ AppendAt(w, "incr")
    PROVE  /\ seq' = seq /\ Recorded' \subseteq Recorded
           /\ \A v \in Writers : AppendAt(v, "incr")' <=> AppendAt(v, "incr")
           /\ \A v \in Writers : AppendAt(v, "incr") => append'[v] = append[v]
           /\ \A i : Coming(i) => Coming(i)'
           /\ \A s \in Nat : Lost(s) => Lost(s)'
<1>1. AppendInsert(w) \/ AppendCount(w) \/ AppendOldest(w) \/ AppendTrim(w)
  BY AppendCase DEF AppendIncr
<1>2. append'[w].pc # "incr" /\ Rest(w)
  BY AppendPcs
<1>3. seq' = seq
  BY <1>1 DEF AppendInsert, AppendCount, AppendOldest, AppendTrim
<1>4. Recorded' \subseteq Recorded
  <2>1. CASE AppendInsert(w)
    <3>1. append[w].pc = "insert" /\ append'[w].pc = "count" /\ log' = log \cup {append[w].entry}
      BY <2>1, InsertMoves DEF AppendInsert, AppendAt
    <3> QED BY <1>2, <3>1 DEF Recorded, AppendAt, Rest
  <2>2. CASE AppendCount(w)
    <3>1. append'[w].pc # "insert" /\ log' = log
      BY <2>2, CountMoves, IdleRecord DEF AppendCount
    <3> QED BY <1>2, <3>1 DEF Recorded, AppendAt, Rest
  <2>3. CASE AppendOldest(w)
    <3>1. append'[w].pc # "insert" /\ log' = log
      BY <2>3, OldestMoves DEF AppendOldest
    <3> QED BY <1>2, <3>1 DEF Recorded, AppendAt, Rest
  <2>4. CASE AppendTrim(w)
    <3>1. append'[w].pc # "insert" /\ log' \subseteq log
      BY <2>4, TrimMoves DEF AppendTrim
    <3> QED BY <1>2, <3>1 DEF Recorded, AppendAt, Rest
  <2> QED BY <1>1, <2>1, <2>2, <2>3, <2>4
<1>5. \A v \in Writers : AppendAt(v, "incr")' <=> AppendAt(v, "incr")
  BY <1>2 DEF Rest, AppendAt
<1>6. \A v \in Writers : AppendAt(v, "incr") => append'[v] = append[v]
  BY <1>2 DEF Rest, AppendAt
<1>7. \A i : Coming(i) => Coming(i)'
  BY <1>5, <1>6 DEF Coming
<1>8. \A s \in Nat : Lost(s) => Lost(s)'
  BY <1>3, <1>4 DEF Lost
<1> QED BY <1>3, <1>4, <1>5, <1>6, <1>7, <1>8

\* An entry that leaves the record leaves a number without an entry.
LEMMA RemovedIsLost ==
    ASSUME Logged, Numbered, seq' = seq, Recorded' \subseteq Recorded,
           NEW e \in Recorded, e \notin Recorded', NEW s \in Nat, e.seq > s
    PROVE  Lost(s)'
<1>1. e.seq \in (s + 1)..seq'
  BY RecordedFacts
<1>2. \A f \in Recorded' : f.seq # e.seq
  BY RecordedFacts
<1> QED BY <1>1, <1>2 DEF Lost

-----------------------------------------------------------------------------
(* What the record tells *)

\* A push ends, or goes on with its entry.
PushesOn == \A w \in Writers : push'[w].pc # "idle" => push[w].pc # "idle" /\ push'[w].entry = push[w].entry

LEMMA HangupPushes == ASSUME PushTyped, Hangup PROVE PushesOn
BY HangupFacts, IdlePushRecord DEF PushesOn

LEMMA PushStepPushes ==
    ASSUME PushTyped, StreamTyped, NEW w \in Writers, PushStep(w)
    PROVE  PushesOn
<1>1. CASE PushLoad(w)
  BY <1>1, LoadMoves, IdlePushRecord DEF PushesOn, PushRest, Goes
<1>2. CASE PushCheck(w)
  BY <1>2, CheckMoves, IdlePushRecord DEF PushesOn, PushRest, Goes
<1>3. CASE PushMark(w)
  BY <1>3, MarkMoves DEF PushesOn, PushRest, Goes
<1>4. CASE PushSend(w)
  BY <1>4, PushSendFacts, IdlePushRecord DEF PushesOn
<1> QED BY <1>1, <1>2, <1>3, <1>4 DEF PushStep

LEMMA MirrorSteps ==
    ASSUME Typed, [Next]_vars
    PROVE  \/ \E w \in Writers : AppendStep(w)
           \/ \E w \in Writers, kind \in Kinds, id \in Ids : Write(w, kind, id)
           \/ UNCHANGED stored /\ PushesOn
<1>0. Logged /\ PushTyped /\ StreamTyped /\ ClientTyped
  BY DEF Typed
<1>1. ASSUME NEW w \in Writers, PushStep(w) PROVE UNCHANGED stored /\ PushesOn
  BY <1>0, <1>1, PushStepPushes, PushFrameKept
<1>2. CASE Connect
  BY <1>2 DEF Connect, stored, PushesOn
<1>3. CASE SetupStep
  <2>1. UNCHANGED stored
    BY <1>3, SetupFrom
  <2>2. push' = push
    BY <1>0, <1>3, SetupSteps
  <2> QED BY <2>1, <2>2 DEF PushesOn
<1>4. CASE Receive
  <2>1. UNCHANGED stored /\ (push' = push \/ Hangup)
    BY <1>0, <1>4, ReceiveFacts DEF Reads
  <2> QED BY <1>0, <2>1, HangupPushes DEF PushesOn
<1>5. CASE Drop
  BY <1>0, <1>5, HangupPushes DEF Drop, stored
<1>6. CASE UNCHANGED vars
  BY <1>6 DEF stored, PushesOn
<1> QED BY <1>1, <1>2, <1>3, <1>4, <1>5, <1>6 DEF Next

\* The record is what it was.
LEMMA RecordKept ==
    ASSUME UNCHANGED stored
    PROVE  /\ UNCHANGED <<Recorded, Matching, seq, db, writes, log, append>>
           /\ \A i : Coming(i)' <=> Coming(i)
           /\ \A s : Lost(s)' <=> Lost(s)
           /\ \A w : AppendAt(w, "incr")' <=> AppendAt(w, "incr")
<1>1. UNCHANGED <<db, seq, log, append, writes>>
  BY DEF stored
<1>2. Recorded' = Recorded
  BY <1>1 DEF Recorded, AppendAt
<1>3. \A i : Coming(i)' <=> Coming(i)
  BY <1>1 DEF Coming, AppendAt
<1>4. \A s : Lost(s)' <=> Lost(s)
  BY <1>1, <1>2 DEF Lost
<1>5. Matching' = Matching
  BY <1>1 DEF Matching
<1> QED BY <1>1, <1>2, <1>3, <1>4, <1>5 DEF AppendAt

LEMMA ToldKept ==
    ASSUME Told, UNCHANGED stored, PushesOn
    PROVE  Told'
<1>1. \A e \in Recorded' : ~ Skip(e) /\ ~ Lost(e.seq)' /\ Newest(e)' => Matching'[e.id] = Shown(e.row)
  BY RecordKept DEF Told, Newest
<1>2. \A w \in Writers : AppendAt(w, "incr")' => append'[w].entry.row = db'[append'[w].entry.id]
  BY RecordKept DEF Told
<1>3. \A w \in Writers : push'[w].pc # "idle" =>
        /\ push'[w].entry.row = db'[push'[w].entry.id]
        /\ AppendAt(w, "incr")' => Like(append'[w].entry, push'[w].entry)
        /\ ~ AppendAt(w, "incr")' => \A e \in Recorded' : e.seq = seq' => Like(e, push'[w].entry)
  BY RecordKept DEF Told, PushesOn
<1>4. (Cardinality({i \in Ids : db[i] # NoRow}) <= writes)'
  BY RecordKept DEF Told
<1> QED BY <1>1, <1>2, <1>3, <1>4 DEF Told

LEMMA ToldIncr ==
    ASSUME Typed, Window, Still, Told, NEW w \in Writers, AppendIncr(w)
    PROVE  Told'
<1>0. Logged /\ Numbered /\ UNCHANGED <<push, db, writes>>
  BY AppendFrame DEF Window, AppendStep, served
<1> DEFINE new == append'[w].entry
<1>1. /\ seq' = seq + 1 /\ append[w].pc = "incr" /\ append'[w].pc = "insert" /\ Rest(w) /\ seq \in Nat
      /\ Recorded' = Recorded \cup {new} /\ new.seq = seq + 1 /\ Like(new, append[w].entry)
      /\ \A e \in Recorded : e.seq \in Nat /\ e.seq <= seq
  BY <1>0, RecordedIncr, RecordedFacts DEF AppendAt
<1>2. /\ \A i : Coming(i) => Coming(i)' \/ (new.id = i /\ ~ Skip(new))
      /\ \A s \in Nat : Lost(s) => Lost(s)'
  BY <1>0, RecordedIncr
<1>3. new.row = db[new.id]
  BY <1>1 DEF Told, AppendAt, Like
<1> HIDE DEF new
<1>4. Matching' = Matching
  BY <1>0 DEF Matching
<1>5. ASSUME NEW e \in Recorded', ~ Skip(e), ~ Lost(e.seq)', Newest(e)'
      PROVE  Matching'[e.id] = Shown(e.row)
  <2>1. CASE e = new
    <3>1. new.id \in Ids
      BY <1>0, RecordedIncr, EntryFields DEF new
    <3> QED BY <1>3, <1>4, <2>1, <3>1 DEF Matching, Shown
  <2>2. CASE e \in Recorded
    <3>1. ~ Lost(e.seq)
      BY <1>1, <1>2, <1>5, <2>2
    <3>2. \A f \in Recorded : f.id = e.id /\ f.seq > e.seq => Skip(f)
      BY <1>1, <1>5 DEF Newest
    <3>3. new.id = e.id => Skip(new)
      BY <1>1, <1>5, <2>2 DEF Newest
    <3>4. ~ Coming(e.id)
      BY <1>2, <1>5, <3>3 DEF Newest
    <3> QED BY <1>4, <1>5, <2>2, <3>1, <3>2, <3>4 DEF Told, Newest
  <2> QED BY <1>1, <2>1, <2>2
<1>6. \A v \in Writers : AppendAt(v, "incr")' => v # w /\ append'[v] = append[v] /\ AppendAt(v, "incr")
  BY <1>1 DEF AppendAt, Rest
<1>7. \A v \in Writers : AppendAt(v, "incr")' => append'[v].entry.row = db'[append'[v].entry.id]
  BY <1>0, <1>6 DEF Told
<1>8. ASSUME NEW v \in Writers, push'[v].pc # "idle"
      PROVE  /\ push'[v].entry.row = db'[push'[v].entry.id]
             /\ AppendAt(v, "incr")' => Like(append'[v].entry, push'[v].entry)
             /\ ~ AppendAt(v, "incr")' => \A e \in Recorded' : e.seq = seq' => Like(e, push'[v].entry)
  <2>1. v = w
    BY <1>0, <1>1, <1>8 DEF Still, AppendAt
  <2>2. Like(append[w].entry, push[w].entry) /\ push[w].entry.row = db[push[w].entry.id]
    BY <1>0, <1>1, <1>8, <2>1 DEF Told, AppendAt
  <2>3. \A e \in Recorded' : e.seq = seq' => e = new
    BY <1>1
  <2>4. Like(new, push[w].entry)
    BY <1>1, <2>2 DEF Like
  <2> QED BY <1>0, <1>6, <2>1, <2>2, <2>3, <2>4
<1>9. (Cardinality({i \in Ids : db[i] # NoRow}) <= writes)'
  BY <1>0 DEF Told
<1> QED BY <1>5, <1>7, <1>8, <1>9 DEF Told

LEMMA ToldAppend ==
    ASSUME Typed, Window, Told, NEW w \in Writers, AppendStep(w), ~ AppendAt(w, "incr")
    PROVE  Told'
<1>0. Logged /\ Numbered /\ UNCHANGED <<push, db, writes>>
  BY AppendFrame DEF Window, served
<1>1. /\ seq' = seq /\ Recorded' \subseteq Recorded
      /\ \A v \in Writers : AppendAt(v, "incr")' <=> AppendAt(v, "incr")
      /\ \A v \in Writers : AppendAt(v, "incr") => append'[v] = append[v]
      /\ \A i : Coming(i) => Coming(i)'
      /\ \A s \in Nat : Lost(s) => Lost(s)'
      /\ \A e \in Recorded : e.seq \in Nat
  BY <1>0, RecordedShrinks, RecordedFacts
<1>2. Matching' = Matching
  BY <1>0 DEF Matching
<1>3. ASSUME NEW e \in Recorded', ~ Skip(e), ~ Lost(e.seq)', Newest(e)'
      PROVE  Matching'[e.id] = Shown(e.row)
  <2>1. e \in Recorded /\ e.seq \in Nat /\ ~ Lost(e.seq) /\ ~ Coming(e.id)
    BY <1>1, <1>3 DEF Newest
  <2>2. ASSUME NEW f \in Recorded, f.id = e.id, f.seq > e.seq PROVE Skip(f)
    <3>1. f \in Recorded'
      BY <1>0, <1>1, <1>3, <2>1, <2>2, RemovedIsLost
    <3> QED BY <1>3, <2>2, <3>1 DEF Newest
  <2> QED BY <1>2, <1>3, <2>1, <2>2 DEF Told, Newest
<1>4. \A v \in Writers : AppendAt(v, "incr")' => append'[v].entry.row = db'[append'[v].entry.id]
  BY <1>0, <1>1 DEF Told
<1>5. \A v \in Writers : push'[v].pc # "idle" =>
        /\ push'[v].entry.row = db'[push'[v].entry.id]
        /\ AppendAt(v, "incr")' => Like(append'[v].entry, push'[v].entry)
        /\ ~ AppendAt(v, "incr")' => \A e \in Recorded' : e.seq = seq' => Like(e, push'[v].entry)
  BY <1>0, <1>1 DEF Told
<1>6. (Cardinality({i \in Ids : db[i] # NoRow}) <= writes)'
  BY <1>0 DEF Told
<1> QED BY <1>3, <1>4, <1>5, <1>6 DEF Told

\* A write, when requests do not run side by side.
LEMMA QuietWrite ==
    ASSUME NoRace, Typed, Window, Still, NEW w \in Writers, NEW kind \in Kinds, NEW id \in Ids, Write(w, kind, id)
    PROVE  /\ Quiet /\ conn.pc \in {"open", "down"} /\ \A i : ~ Coming(i)
           /\ UNCHANGED <<Recorded, seq, sub, conn, wire, client>>
           /\ \A s : Lost(s)' <=> Lost(s)
           /\ append'[w].entry \in Entry /\ append'[w].entry.kind = kind /\ append'[w].entry.id = id
           /\ append'[w].entry.row = db'[id]
           /\ \A v \in Writers : AppendAt(v, "incr")' <=> v = w
           /\ \A i : Coming(i)' <=> (i = id /\ ~ Skip(append'[w].entry))
           /\ push'[w].pc = "load" /\ push'[w].entry = append'[w].entry
           /\ \A v \in Writers : push'[v].pc # "idle" => v = w
           /\ writes' = writes + 1
<1>0. Logged /\ Numbered /\ PushTyped
  BY DEF Typed, Window
<1>1. Quiet /\ conn.pc \in {"open", "down"} /\ UNCHANGED <<seq, log, sub, conn, wire, client>>
  BY DEF Write, NoRace
<1>2. \A v \in Writers : ~ AppendAt(v, "incr")
  BY <1>1 DEF Quiet, Still
<1>3. /\ append[w].pc = "idle" /\ append'[w].pc = "incr" /\ Rest(w) /\ writes' = writes + 1
      /\ append'[w].entry \in Entry
      /\ append'[w].entry = [seq |-> 0, kind |-> kind, id |-> id, row |-> db'[id]]
  BY <1>0, WriteMoves
<1>4. append'[w].entry.kind = kind /\ append'[w].entry.id = id /\ append'[w].entry.row = db'[id]
  BY <1>3
<1>5. Recorded' = Recorded
  BY <1>1, <1>3 DEF Recorded, AppendAt, Rest
<1>6. \A s : Lost(s)' <=> Lost(s)
  BY <1>1, <1>5 DEF Lost
<1>7. \A v \in Writers : AppendAt(v, "incr")' <=> v = w
  BY <1>2, <1>3 DEF AppendAt, Rest
<1>8. \A i : Coming(i)' <=> (i = id /\ ~ Skip(append'[w].entry))
  BY <1>4, <1>7 DEF Coming
<1>9. /\ push'[w].pc = "load" /\ push'[w].entry = append'[w].entry
      /\ \A v \in Writers : push'[v].pc # "idle" => v = w
  BY <1>0, <1>1, WritePushes DEF Quiet, PushRest
<1> QED BY <1>1, <1>2, <1>3, <1>4, <1>5, <1>6, <1>7, <1>8, <1>9 DEF Coming

\* What a write changes of the rows that fit.
LEMMA WriteRows ==
    ASSUME Typed, NEW w \in Writers, NEW kind \in Kinds, NEW id \in Ids, Write(w, kind, id)
    PROVE  /\ \A i \in Ids : i # id => db'[i] = db[i] /\ Matching'[i] = Matching[i]
           /\ Matching'[id] = Shown(db'[id])
           /\ kind = "create" => db[id] = NoRow /\ Matching[id] = NoRow
           /\ kind = "create" /\ ~ Fits(db'[id]) => Matching'[id] = NoRow
<1>1. \A i \in Ids : i # id => db'[i] = db[i]
  <2>1. Logged /\ db \in [Ids -> Rows]
    BY DEF Typed, Logged, StoreTyped
  <2>2. PICK row \in IF kind = "delete" THEN {NoRow} ELSE [ver : {writes + 1}, fits : BOOLEAN] :
           db' = [db EXCEPT ![id] = row]
    BY Zenon DEF Write
  <2> QED BY <2>1, <2>2
<1>2. kind = "create" => db[id] = NoRow
  BY DEF Write
<1>3. \A i \in Ids : i # id => Matching'[i] = Matching[i]
  BY <1>1 DEF Matching
<1>4. Matching'[id] = Shown(db'[id])
  BY DEF Matching, Shown
<1>5. kind = "create" => Matching[id] = NoRow
  BY <1>2 DEF Matching, Fits
<1> QED BY <1>1, <1>2, <1>3, <1>4, <1>5 DEF Shown

LEMMA ToldWrite ==
    ASSUME NoRace, Typed, Window, Still, Told, NEW w \in Writers, NEW kind \in Kinds, NEW id \in Ids,
           Write(w, kind, id)
    PROVE  Told'
<1> DEFINE new == append'[w].entry
<1>1. /\ \A i : ~ Coming(i)
      /\ UNCHANGED <<Recorded, seq>>
      /\ \A s : Lost(s)' <=> Lost(s)
      /\ new.id = id /\ new.row = db'[id] /\ new.kind = kind
      /\ \A v \in Writers : AppendAt(v, "incr")' <=> v = w
      /\ \A i : Coming(i)' <=> (i = id /\ ~ Skip(new))
      /\ push'[w].pc = "load" /\ push'[w].entry = new
      /\ \A v \in Writers : push'[v].pc # "idle" => v = w
      /\ writes' = writes + 1
  BY QuietWrite
<1> HIDE DEF new
<1>2. ASSUME NEW e \in Recorded', ~ Skip(e), ~ Lost(e.seq)', Newest(e)'
      PROVE  Matching'[e.id] = Shown(e.row)
  <2>1. e \in Recorded /\ ~ Lost(e.seq) /\ Newest(e) /\ (e.id = id => Skip(new)) /\ e.id \in Ids
    BY <1>1, <1>2, RecordedFacts, EntryFields DEF Newest, Window
  <2>2. Matching[e.id] = Shown(e.row)
    BY <1>2, <2>1 DEF Told
  <2>3. CASE e.id = id
    <3>1. kind = "create" /\ ~ Fits(db'[id])
      BY <1>1, <2>1, <2>3 DEF Skip
    <3> QED BY <2>2, <2>3, <3>1, WriteRows
  <2>4. CASE e.id # id
    BY <2>1, <2>2, <2>4, WriteRows
  <2> QED BY <2>3, <2>4
<1>3. \A v \in Writers : AppendAt(v, "incr")' => append'[v].entry.row = db'[append'[v].entry.id]
  BY <1>1 DEF new
<1>4. \A v \in Writers : push'[v].pc # "idle" =>
        /\ push'[v].entry.row = db'[push'[v].entry.id]
        /\ AppendAt(v, "incr")' => Like(append'[v].entry, push'[v].entry)
        /\ ~ AppendAt(v, "incr")' => \A e \in Recorded' : e.seq = seq' => Like(e, push'[v].entry)
  BY <1>1 DEF new, Like
<1>5. Cardinality({i \in Ids : db'[i] # NoRow}) <= writes'
  <2>1. PICK S : S = {i \in Ids : db[i] # NoRow}
    OBVIOUS
  <2>2. PICK T : T = {i \in Ids : db'[i] # NoRow}
    OBVIOUS
  <2>3. T \subseteq S \cup {id} /\ IsFiniteSet(S)
    BY <2>1, <2>2, WriteRows, Finite, FS_Subset
  <2>4. Cardinality(S \cup {id}) <= Cardinality(S) + 1 /\ IsFiniteSet(S \cup {id}) /\ Cardinality(S) \in Nat
    <3>1. IsFiniteSet(S \cup {id}) /\ Cardinality(S) \in Nat
      BY <2>3, FS_AddElement, FS_CardinalityType
    <3>2. CASE id \in S
      <4>1. S \cup {id} = S
        BY <3>2
      <4>2. Cardinality(S \cup {id}) = Cardinality(S)
        BY <4>1, Zenon
      <4>3. Cardinality(S) <= Cardinality(S) + 1
        BY <3>1
      <4> QED BY <3>1, <4>2, <4>3
    <3>3. CASE id \notin S
      BY <2>3, <3>1, <3>3, FS_AddElement
    <3> QED BY <3>2, <3>3
  <2>5. Cardinality(T) <= Cardinality(S \cup {id}) /\ Cardinality(T) \in Nat /\ Cardinality(S \cup {id}) \in Nat
    BY <2>3, <2>4, ShrinkCount
  <2>6. Cardinality(S) <= writes /\ writes \in Nat
    BY <2>1, SeqNat DEF Told, Typed
  <2> QED BY <1>1, <2>2, <2>4, <2>5, <2>6
<1> QED BY <1>2, <1>3, <1>4, <1>5 DEF Told

LEMMA ToldStep ==
    ASSUME NoRace, Typed, Window, Still, Told, [Next]_vars
    PROVE  Told'
BY MirrorSteps, ToldIncr, ToldAppend, ToldWrite, ToldKept, AppendCase DEF AppendAt, AppendIncr, AppendInsert,
   AppendCount, AppendOldest, AppendTrim

\* Who is behind stays behind.
LEMMA BehindStep ==
    ASSUME NoRace, Typed, Window, Still, [Next]_vars, NEW n \in Nat, Behind(n)
    PROVE  Behind(n)'
<1>0. Logged /\ Numbered /\ seq \in Nat
  BY SeqNat DEF Typed, Window
<1>1. n <= seq /\ \A w \in Writers : push[w].pc # "idle" /\ ~ AppendAt(w, "incr") => n < seq
  BY DEF Behind
<1>2. ASSUME NEW w \in Writers, AppendIncr(w) PROVE Behind(n)'
  <2>1. seq' = seq + 1
    BY <1>2 DEF AppendIncr
  <2> QED BY <1>0, <1>1, <2>1 DEF Behind
<1>3. ASSUME NEW w \in Writers, AppendStep(w), ~ AppendAt(w, "incr") PROVE Behind(n)'
  <2>1. seq' = seq /\ push' = push /\ \A v \in Writers : AppendAt(v, "incr")' <=> AppendAt(v, "incr")
    BY <1>0, <1>3, RecordedShrinks, AppendFrame DEF served
  <2> QED BY <1>1, <2>1 DEF Behind
<1>4. ASSUME NEW w \in Writers, NEW kind \in Kinds, NEW id \in Ids, Write(w, kind, id) PROVE Behind(n)'
  <2>1. /\ seq' = seq /\ \A v \in Writers : AppendAt(v, "incr")' <=> v = w
        /\ \A v \in Writers : push'[v].pc # "idle" => v = w
    BY <1>4, QuietWrite
  <2> QED BY <1>1, <2>1 DEF Behind
<1>5. CASE UNCHANGED stored /\ PushesOn
  <2>1. seq' = seq /\ \A v \in Writers : AppendAt(v, "incr")' <=> AppendAt(v, "incr")
    BY <1>5, RecordKept
  <2> QED BY <1>1, <1>5, <2>1 DEF Behind, PushesOn
<1>6. \A w \in Writers : AppendStep(w) => AppendIncr(w) \/ ~ AppendAt(w, "incr")
  BY AppendCase DEF AppendAt, AppendInsert, AppendCount, AppendOldest, AppendTrim
<1> QED BY <1>2, <1>3, <1>4, <1>5, <1>6, MirrorSteps

\* What is owed stays owed.
LEMMA OwedAppend ==
    ASSUME Typed, Window, Behind(client.lastSeq), NEW w \in Writers, AppendStep(w), NEW i \in Ids, Owed(i)
    PROVE  Owed(i)'
<1>0. Logged /\ Numbered /\ client' = client /\ client.lastSeq \in Nat /\ seq \in Nat
  BY AppendFrame, SeqNat DEF Typed, ClientTyped, Window
<1>1. PICK n \in Nat : n = client.lastSeq
  BY <1>0
<1>2. n <= seq /\ client'.lastSeq = n
  BY <1>0, <1>1 DEF Behind
<1>3. Coming(i) \/ Lost(n) \/ \E e \in Recorded : e.id = i /\ e.seq > n /\ ~ Skip(e)
  BY <1>1 DEF Owed
<1>4. CASE AppendIncr(w)
  <2>1. /\ Recorded' = Recorded \cup {append'[w].entry} /\ append'[w].entry.seq = seq + 1
        /\ Coming(i) => Coming(i)' \/ (append'[w].entry.id = i /\ ~ Skip(append'[w].entry))
        /\ Lost(n) => Lost(n)'
    BY <1>0, <1>4, RecordedIncr
  <2>2. append'[w].entry.seq > n
    BY <1>0, <1>2, <2>1
  <2>3. Coming(i)' \/ Lost(n)' \/ \E e \in Recorded' : e.id = i /\ e.seq > n /\ ~ Skip(e)
    BY <1>3, <2>1, <2>2
  <2> QED BY <1>2, <2>3 DEF Owed, Lost
<1>5. CASE ~ AppendAt(w, "incr")
  <2>1. /\ seq' = seq /\ Recorded' \subseteq Recorded
        /\ Coming(i) => Coming(i)'
        /\ Lost(n) => Lost(n)'
    BY <1>0, <1>5, RecordedShrinks
  <2>2. ASSUME NEW e \in Recorded, e.id = i, e.seq > n, ~ Skip(e)
        PROVE  Lost(n)' \/ \E f \in Recorded' : f.id = i /\ f.seq > n /\ ~ Skip(f)
    BY <1>0, <2>1, <2>2, RemovedIsLost
  <2>3. Coming(i)' \/ Lost(n)' \/ \E e \in Recorded' : e.id = i /\ e.seq > n /\ ~ Skip(e)
    BY <1>3, <2>1, <2>2
  <2> QED BY <1>2, <2>3 DEF Owed, Lost
<1>6. AppendIncr(w) \/ ~ AppendAt(w, "incr")
  BY AppendCase DEF AppendAt, AppendInsert, AppendCount, AppendOldest, AppendTrim
<1> QED BY <1>4, <1>5, <1>6

LEMMA OwedKept ==
    ASSUME UNCHANGED stored, client' = client, NEW i, Owed(i)
    PROVE  Owed(i)'
<1>1. UNCHANGED <<Recorded, seq>> /\ (Coming(i)' <=> Coming(i))
  BY RecordKept
<1> QED BY <1>1 DEF Owed, Lost

-----------------------------------------------------------------------------
(* A client without a connection *)

LEMMA PositionKept ==
    ASSUME NoRace, Typed, Window, Still, [Next]_vars, Behind(client.lastSeq), client'.lastSeq = client.lastSeq
    PROVE  Behind(client.lastSeq)'
<1>1. PICK n \in Nat : n = client.lastSeq
  BY DEF Typed, ClientTyped
<1>2. Behind(n)'
  BY <1>1, BehindStep
<1> QED BY <1>1, <1>2 DEF Behind

LEMMA AwayAppend ==
    ASSUME NoRace, Typed, Window, Still, Away, [Next]_vars, NEW w \in Writers, AppendStep(w)
    PROVE  Away'
<1>1. UNCHANGED <<client, conn, db>>
  BY AppendFrame DEF served
<1>2. Behind(client.lastSeq)'
  BY <1>1, PositionKept DEF Away
<1>3. Matching' = Matching
  BY <1>1 DEF Matching
<1>4. \A i \in Ids : Owed(i) => Owed(i)'
  BY OwedAppend DEF Away
<1> QED BY <1>1, <1>2, <1>3, <1>4 DEF Away

LEMMA AwayWrite ==
    ASSUME NoRace, Typed, Window, Still, Away, [Next]_vars,
           NEW w \in Writers, NEW kind \in Kinds, NEW id \in Ids, Write(w, kind, id)
    PROVE  Away'
<1> DEFINE new == append'[w].entry
<1>1. /\ UNCHANGED <<client, conn, seq, Recorded>> /\ \A i : ~ Coming(i)
      /\ \A s : Lost(s)' <=> Lost(s)
      /\ new.kind = kind /\ new.row = db'[id]
      /\ \A i : Coming(i)' <=> (i = id /\ ~ Skip(new))
  BY QuietWrite
<1> HIDE DEF new
<1>2. Behind(client.lastSeq)'
  BY <1>1, PositionKept DEF Away
<1>3. \A i \in Ids : Owed(i) => Owed(i)'
  BY <1>1 DEF Owed, Lost
<1>4. ASSUME NEW i \in Ids, client.items[i] = Matching[i] PROVE client.items[i] = Matching'[i] \/ Owed(i)'
  <2>1. CASE i # id
    BY <1>4, <2>1, WriteRows
  <2>2. CASE i = id /\ ~ Skip(new)
    BY <1>1, <2>2 DEF Owed
  <2>3. CASE i = id /\ Skip(new)
    <3>1. kind = "create" /\ ~ Fits(db'[id])
      BY <1>1, <2>3 DEF Skip
    <3> QED BY <1>4, <2>3, <3>1, WriteRows
  <2> QED BY <2>1, <2>2, <2>3
<1> QED BY <1>1, <1>2, <1>3, <1>4 DEF Away

LEMMA AwayKept ==
    ASSUME Away, UNCHANGED <<stored, client>>, Behind(client.lastSeq)',
           conn'.pc \in AwayPc => conn.pc \in AwayPc
    PROVE  Away'
<1>1. Matching' = Matching
  BY RecordKept
<1>2. \A i \in Ids : Owed(i) => Owed(i)'
  BY OwedKept
<1> QED BY <1>1, <1>2 DEF Away

\* A set-up that has passed the gap check does not need the client's rows any more.
SetupPc == {"open", "refuse", "entries", "rows", "replay", "select", "register", "track", "existing"}

LEMMA SetupPcs ==
    ASSUME Typed, SetupStep
    PROVE  conn.pc \in AwayPc \/ conn'.pc \in SetupPc
<1>0. Logged /\ PushTyped /\ StreamTyped
  BY DEF Typed
<1>1. CASE ReadSequence \/ StoreSub \/ ZeroCount \/ CheckGap
  BY <1>1 DEF ReadSequence, StoreSub, ZeroCount, CheckGap, ConnAt, AwayPc
<1>2. CASE Refuse
  BY <1>0, <1>2, RefuseFacts DEF SetupPc
<1>3. CASE ReadEntries
  BY <1>0, <1>3, ReadEntriesFacts DEF SetupPc
<1>4. CASE ReplayEntry
  BY <1>0, <1>4, ReplayEntryFacts, AfterEntryFacts DEF SetupPc, Alike
<1>5. CASE ReplayNothing
  BY <1>0, <1>5, AfterEntryFacts DEF ReplayNothing, ConnAt, SetupPc
<1>6. CASE SelectIds
  BY <1>0, <1>6, SelectIdsFacts DEF SetupPc
<1>7. CASE RegisterKnownIds
  BY <1>0, <1>7, RegisterFacts DEF SetupPc
<1>8. CASE SelectRows
  BY <1>0, <1>8, SelectRowsFacts DEF SetupPc
<1>9. CASE TrackRow
  BY <1>0, <1>9, TrackRowFacts DEF SetupPc
<1>10. CASE SendExisting
  BY <1>0, <1>10, SendExistingFacts, AfterRowFacts DEF SetupPc, Alike
<1> QED BY <1>1, <1>2, <1>3, <1>4, <1>5, <1>6, <1>7, <1>8, <1>9, <1>10 DEF SetupStep

LEMMA AwayReceive ==
    ASSUME NoRace, Typed, Window, Still, Away, Wired, [Next]_vars, Receive
    PROVE  Away'
<1>0. /\ PushTyped /\ StreamTyped /\ ClientTyped /\ wire \in Seq(Frames)
      /\ client.items \in [Ids -> Rows] /\ client.lastSeq \in Nat
  BY DEF Typed, StreamTyped, ClientTyped
<1>1. PICK f : f = Head(wire)
  OBVIOUS
<1>2. conn.pc = "open" /\ wire # <<>> /\ f \in Frames /\ Reads(f)
  BY <1>0, <1>1, ReceiveFacts
<1>3. 1 \in DOMAIN wire /\ f = wire[1]
  BY <1>0, <1>1, <1>2, TailAt
<1>4. f.seq \in Nat
  BY <1>2 DEF Frames, Marks, Shows, Removals
<1>5. /\ f.kind = "connected" => f.seq >= client.lastSeq /\ Behind(f.seq)
      /\ f.kind \in RowKinds => f.seq > 0 /\ Behind(f.seq)
  BY <1>2, <1>3 DEF Wired, Framed
<1>6. CASE f.kind = "connected"
  <2>1. conn' = conn /\ client' = [client EXCEPT !.lastSeq = f.seq]
    BY <1>2, <1>6 DEF Reads, RowKinds
  <2>2. client'.lastSeq = f.seq /\ client'.items = client.items
    BY <1>0, <2>1 DEF ClientTyped
  <2>3. Behind(f.seq)'
    BY <1>4, <1>5, <1>6, BehindStep
  <2>4. Behind(client.lastSeq)'
    BY <2>2, <2>3 DEF Behind
  <2> QED BY <1>0, <1>2, <1>4, <1>5, <1>6, <2>1, <2>2, <2>4 DEF Away, AwayPc
<1>7. CASE f.kind \in RowKinds
  <2>1. conn' = conn /\ client'.lastSeq = IF f.seq > client.lastSeq THEN f.seq ELSE client.lastSeq
    BY <1>2, <1>7 DEF Reads, RowKinds
  <2>2. PICK n \in Nat : n = client'.lastSeq /\ n > 0 /\ Behind(n)
    BY <1>0, <1>4, <1>5, <1>7, <2>1 DEF Away
  <2>3. Behind(n)'
    BY <2>2, BehindStep
  <2>4. Behind(client.lastSeq)'
    BY <2>2, <2>3 DEF Behind
  <2> QED BY <1>2, <2>1, <2>2, <2>4 DEF Away, AwayPc
<1>8. CASE f.kind = "invalidate"
  <2>1. client' = Reset
    BY <1>2, <1>8 DEF Reads, RowKinds
  <2>2. client'.items = Nothing /\ client'.lastSeq = 0
    BY <2>1 DEF Reset
  <2>3. Behind(0)
    BY <1>0, SeqNat DEF Away, Behind, Typed
  <2>4. Behind(0)'
    BY <2>3, BehindStep
  <2>5. Behind(client.lastSeq)'
    BY <2>2, <2>4 DEF Behind
  <2>6. Nothing' = Nothing
    BY DEF Nothing
  <2> QED BY <2>2, <2>5, <2>6 DEF Away
<1> QED BY <1>2, <1>6, <1>7, <1>8 DEF Reads

\* A stream that has been read leaves the client with what it should hold, but for
\* the row of the change being pushed, and that is owed.
LEMMA AwayDrop ==
    ASSUME Calm, Typed, Window, Still, Told, Away, Wired, Live, [Next]_vars, Drop
    PROVE  Away'
<1>0. /\ NoRace /\ StreamTyped /\ ClientTyped /\ Logged /\ seq \in Nat /\ client.lastSeq \in Nat
      /\ db \in [Ids -> Rows]
  BY SeqNat DEF Calm, Typed, ClientTyped, Logged, StoreTyped
<1>1. conn.pc = "open" /\ wire = <<>> /\ UNCHANGED <<stored, client>>
  BY DEF Calm, Drop, ConnAt, stored
<1>2. ~ Halts /\ \A i : Final(i) = client.items[i]
  <2>1. DOMAIN wire = {}
    BY <1>1
  <2> QED BY <2>1, FinalNone DEF Halts, Final
<1>3. Behind(client.lastSeq)'
  BY <1>0, <1>1, PositionKept DEF Away
<1>4. ASSUME NEW i \in Ids PROVE client.items[i] = Matching[i] \/ Owed(i)
  <2>1. CASE \A w \in Writers : push[w].pc # "idle" => push[w].entry.id # i
    BY <1>1, <1>2, <2>1 DEF Live
  <2>2. ASSUME NEW w \in Writers, push[w].pc # "idle", push[w].entry.id = i
        PROVE  client.items[i] = Matching[i] \/ Owed(i)
    <3>1. push[w].entry.row = db[i]
      BY <2>2 DEF Told
    <3>2. ASSUME Skip(push[w].entry) PROVE client.items[i] = Matching[i]
      <4>1. Matching[i] = NoRow
        BY <3>1, <3>2 DEF Matching, Skip
      <4>2. push[w].pc \in PushPc
        BY DEF Typed, PushTyped, Pushes
      <4>3. push[w].pc = "load" /\ push[w].entry.kind = "create"
        BY <1>1, <1>2, <2>2, <3>2, <4>2 DEF Live, PushPc, Skip
      <4> QED BY <1>1, <1>2, <2>2, <4>1, <4>3 DEF Live
    <3>3. ASSUME NEW e, Like(e, push[w].entry), ~ Skip(push[w].entry) PROVE ~ Skip(e) /\ e.id = i
      BY <2>2, <3>3 DEF Like, Skip
    <3>4. CASE AppendAt(w, "incr")
      <4>1. Like(append[w].entry, push[w].entry)
        BY <2>2, <3>4 DEF Told
      <4> QED BY <3>2, <3>3, <3>4, <4>1 DEF Owed, Coming
    <3>5. CASE ~ AppendAt(w, "incr")
      <4>1. client.lastSeq < seq
        BY <2>2, <3>5 DEF Away, Behind
      <4>2. CASE Lost(client.lastSeq)
        BY <4>2 DEF Owed
      <4>3. CASE ~ Lost(client.lastSeq)
        <5>1. PICK e \in Recorded : e.seq = seq
          BY <1>0, <4>1, <4>3 DEF Lost
        <5>2. Like(e, push[w].entry)
          BY <2>2, <3>5, <5>1 DEF Told
        <5> QED BY <3>2, <3>3, <4>1, <5>1, <5>2 DEF Owed
      <4> QED BY <4>2, <4>3
    <3> QED BY <3>4, <3>5
  <2> QED BY <2>1, <2>2
<1>5. Matching' = Matching /\ \A i \in Ids : Owed(i) => Owed(i)'
  BY <1>1, RecordKept, OwedKept
<1> QED BY <1>1, <1>3, <1>4, <1>5 DEF Away

LEMMA AwayStep ==
    ASSUME Calm, Typed, Window, Still, Told, Away, Wired, Live, [Next]_vars
    PROVE  Away'
<1>0. NoRace /\ Logged /\ PushTyped /\ StreamTyped /\ ClientTyped
  BY DEF Calm, Typed
<1>1. ASSUME NEW w \in Writers, PushStep(w) PROVE Away'
  <2>1. UNCHANGED <<stored, client>> /\ conn'.pc = conn.pc
    BY <1>0, <1>1, PushFrameKept
  <2> QED BY <1>0, <2>1, AwayKept, PositionKept DEF Away
<1>2. CASE Connect
  <2>1. UNCHANGED <<stored, client>> /\ conn.pc \in AwayPc
    BY <1>0, <1>2, ConnectFacts DEF Connect, stored, AwayPc
  <2> QED BY <1>0, <2>1, AwayKept, PositionKept DEF Away
<1>3. CASE SetupStep
  <2>1. UNCHANGED <<stored, client>>
    BY <1>0, <1>3, SetupFrom, SetupSteps
  <2>2. conn'.pc \in AwayPc => conn.pc \in AwayPc
    BY <1>3, SetupPcs DEF AwayPc, SetupPc
  <2> QED BY <1>0, <2>1, <2>2, AwayKept, PositionKept DEF Away
<1>4. CASE UNCHANGED vars
  <2>1. UNCHANGED <<stored, client, conn>>
    BY <1>4 DEF stored
  <2> QED BY <1>0, <2>1, AwayKept, PositionKept DEF Away
<1> QED BY <1>0, <1>1, <1>2, <1>3, <1>4, AwayAppend, AwayWrite, AwayReceive, AwayDrop DEF Next

-----------------------------------------------------------------------------
(* The frames on the wire *)

BehindOn == \A n \in Nat : Behind(n) => Behind(n)'

LEMMA FrameSeq == \A f \in Frames : f.seq \in Nat
BY DEF Frames, Marks, Shows, Removals

LEMMA FramedKept ==
    ASSUME Framed, StreamTyped, wire' = wire, conn'.closed = conn.closed, client'.lastSeq = client.lastSeq, BehindOn
    PROVE  Framed'
<1>1. \A k \in DOMAIN wire : wire[k].seq \in Nat
  BY FrameSeq DEF StreamTyped
<1>2. \A k \in DOMAIN wire : Behind(wire[k].seq) => Behind(wire[k].seq)'
  <2> SUFFICES ASSUME NEW k \in DOMAIN wire, Behind(wire[k].seq) PROVE Behind(wire[k].seq)'
    OBVIOUS
  <2>1. PICK n \in Nat : n = wire[k].seq
    BY <1>1
  <2>2. Behind(n)' /\ wire'[k].seq = n
    BY <2>1 DEF BehindOn
  <2> QED BY <2>2 DEF Behind
<1>3. Ends(wire)'
  BY DEF Framed, Ends, RowAt, LastAt
<1>4. conn'.closed => Halts'
  BY DEF Framed, Halts
<1> QED BY <1>2, <1>3, <1>4 DEF Framed

\* A frame is sent, or what closes the stream, or nothing on a closed stream.
LEMMA FramedSend ==
    ASSUME Framed, StreamTyped, BehindOn, client'.lastSeq = client.lastSeq, NEW f \in Frames,
           f.kind # "connected", f.kind \in RowKinds => f.seq > 0 /\ \A n : n = f.seq => Behind(n)',
           Silent \/ Delivers(f) \/ Overflows
    PROVE  /\ Framed' /\ (Halts => Halts')
           /\ Silent \/ Overflows => Halts'
           /\ Delivers(f) /\ f.kind = "invalidate" => Halts'
<1>0. wire \in Seq(Frames) /\ \A k \in DOMAIN wire : wire[k].seq \in Nat
  BY FrameSeq DEF StreamTyped
<1>1. CASE Silent
  <2>1. Framed'
    BY <1>1, FramedKept DEF Silent
  <2> QED BY <1>1, <2>1 DEF Silent, Framed, Halts, Overflows, Delivers
<1>2. ASSUME NEW g \in Frames, g = f \/ g = Frame("invalidate", 0), wire' = Append(wire, g),
             ~ conn.closed, conn'.closed => g.kind = "invalidate"
      PROVE  Framed' /\ (Halts => Halts') /\ (g.kind = "invalidate" => Halts')
  <2>1. /\ DOMAIN wire = 1..Len(wire) /\ Len(wire) \in Nat
        /\ DOMAIN wire' = 1..(Len(wire) + 1) /\ wire'[Len(wire) + 1] = g
        /\ \A k \in 1..Len(wire) : wire'[k] = wire[k]
    BY <1>0, <1>2, AppendedAt
  <2>2. Ends(wire)'
    <3>1. Ends(wire)
      BY DEF Framed
    <3>2. PICK items : items = client.items
      OBVIOUS
    <3>3. CASE g.kind \in RowKinds
      BY <1>0, <1>2, <3>1, <3>3, FinalRow
    <3>4. CASE g.kind \notin RowKinds
      BY <1>0, <1>2, <3>1, <3>4, FinalMark
    <3>5. \A u : u = wire' => (Ends(u) <=> Ends(wire)')
      BY DEF Ends, RowAt, LastAt
    <3>6. Ends(Append(wire, g))
      BY <3>3, <3>4, <1>0, <1>2, <3>1, FinalRow, FinalMark
    <3> QED BY <1>2, <3>5, <3>6
  <2>3. g.kind # "connected" /\ (g.kind \in RowKinds => g = f)
    BY <1>2, FrameTypes DEF RowKinds
  <2>4. \A k \in DOMAIN wire' : k \in DOMAIN wire \/ (k = Len(wire) + 1 /\ wire'[k] = g)
    BY <2>1
  <2>5. ASSUME NEW k \in DOMAIN wire', wire'[k].kind = "connected"
        PROVE  k = 1 /\ wire'[k].seq >= client'.lastSeq /\ Behind(wire[k].seq)'
    <3>1. k \in DOMAIN wire /\ wire'[k] = wire[k]
      BY <2>1, <2>3, <2>4, <2>5
    <3>2. k = 1 /\ wire[k].seq >= client.lastSeq /\ Behind(wire[k].seq)
      BY <2>5, <3>1 DEF Framed
    <3>3. PICK n \in Nat : n = wire[k].seq
      BY <1>0, <3>1
    <3>4. Behind(n)'
      BY <3>2, <3>3 DEF BehindOn
    <3> QED BY <3>1, <3>2, <3>3, <3>4 DEF Behind
  <2>6. ASSUME NEW k \in DOMAIN wire', wire'[k].kind \in RowKinds
        PROVE  wire'[k].seq > 0 /\ Behind(wire[k].seq)'
    <3>1. CASE k \in DOMAIN wire /\ wire'[k] = wire[k]
      <4>1. wire[k].seq > 0 /\ Behind(wire[k].seq)
        BY <2>6, <3>1 DEF Framed
      <4>2. PICK n \in Nat : n = wire[k].seq
        BY <1>0, <3>1
      <4>3. Behind(n)'
        BY <4>1, <4>2 DEF BehindOn
      <4> QED BY <3>1, <4>1, <4>2, <4>3 DEF Behind
    <3>2. CASE wire'[k] = g
      <4>1. g = f
        BY <2>3, <2>6, <3>2
      <4>2. PICK n : n = f.seq
        OBVIOUS
      <4>3. f.seq > 0 /\ Behind(n)'
        BY <2>6, <3>2, <4>1, <4>2
      <4> QED BY <3>2, <4>1, <4>2, <4>3 DEF Behind
    <3> QED BY <2>1, <2>4, <3>1, <3>2
  <2>7. Halts => Halts'
    BY <2>1 DEF Halts
  <2>8. g.kind = "invalidate" => Halts'
    BY <2>1 DEF Halts
  <2> QED BY <1>2, <2>2, <2>5, <2>6, <2>7, <2>8 DEF Framed
<1>3. CASE Delivers(f)
  BY <1>2, <1>3 DEF Delivers, Silent, Overflows
<1>4. CASE Overflows
  <2>1. PICK g : g = Frame("invalidate", 0)
    OBVIOUS
  <2>2. g \in Frames /\ g.kind = "invalidate"
    BY <2>1, FrameTypes
  <2> QED BY <1>2, <1>4, <2>1, <2>2 DEF Overflows, Delivers, Silent
<1> QED BY <1>1, <1>3, <1>4

LEMMA FramedRead ==
    ASSUME Framed, StreamTyped, BehindOn, wire # <<>>, wire' = Tail(wire), Head(wire).kind # "invalidate",
           conn'.closed = conn.closed, Ends(Tail(wire))
    PROVE  Framed' /\ (Halts' <=> Halts)
<1>0. wire \in Seq(Frames) /\ \A k \in DOMAIN wire : wire[k].seq \in Nat
  BY FrameSeq DEF StreamTyped
<1>1. /\ \A k \in DOMAIN wire' : k \in Nat /\ k + 1 \in DOMAIN wire /\ wire'[k] = wire[k + 1] /\ k + 1 # 1
      /\ \A k \in DOMAIN wire : k = 1 \/ (k - 1 \in DOMAIN wire' /\ wire'[k - 1] = wire[k])
      /\ Head(wire) = wire[1]
  BY <1>0, TailAt
<1>2. Ends(wire)'
  <2>1. \A u : u = wire' => (Ends(u) <=> Ends(wire)')
    BY DEF Ends, RowAt, LastAt
  <2> QED BY <2>1
<1>3. \A k \in DOMAIN wire' : wire'[k].kind # "connected"
  BY <1>1 DEF Framed
<1>4. ASSUME NEW k \in DOMAIN wire', wire'[k].kind \in RowKinds
      PROVE  wire'[k].seq > 0 /\ Behind(wire[k].seq)'
  <2>1. wire[k + 1].seq > 0 /\ Behind(wire[k + 1].seq)
    BY <1>1, <1>4 DEF Framed
  <2>2. PICK n \in Nat : n = wire[k + 1].seq
    BY <1>0, <1>1
  <2>3. Behind(n)'
    BY <2>1, <2>2 DEF BehindOn
  <2> QED BY <1>1, <2>1, <2>2, <2>3 DEF Behind
<1>5. Halts' <=> Halts
  BY <1>1 DEF Halts
<1> QED BY <1>2, <1>3, <1>4, <1>5 DEF Framed

\* Nothing runs beside a set-up.
LEMMA SetupCalm ==
    ASSUME Typed, Still, SetupStep
    PROVE  /\ Quiet /\ Appended /\ UNCHANGED <<stored, client, push, seq, db, log, writes>> /\ BehindOn
           /\ \A n : (Behind(n) <=> n <= seq) /\ (Behind(n)' <=> n <= seq)
           /\ seq \in Nat /\ seq' = seq
<1>1. Quiet /\ Appended /\ UNCHANGED stored
  BY SetupFrom DEF Still
<1>2. UNCHANGED <<client, push>>
  BY SetupSteps DEF Typed
<1>3. UNCHANGED <<seq, db, log, writes>> /\ seq \in Nat
  BY <1>1, SeqNat DEF stored, Typed
<1>4. \A n : (Behind(n) <=> n <= seq) /\ (Behind(n)' <=> n <= seq)
  BY <1>1, <1>2, <1>3 DEF Behind, Quiet
<1> QED BY <1>1, <1>2, <1>3, <1>4 DEF BehindOn

\* Entries told apart by numbers up to n are no more than n.
LEMMA EntriesCount ==
    ASSUME NEW S, IsFiniteSet(S), NEW n \in Nat, \A e \in S : e.seq \in 1..n,
           \A e, f \in S : e.seq = f.seq => e = f
    PROVE  Cardinality(S) <= n
<1>1. PICK f : f = [e \in S |-> e.seq]
  OBVIOUS
<1>2. f \in [S -> 1..n] /\ \A x, y \in S : x # y => f[x] # f[y]
  BY <1>1
<1>3. IsFiniteSet(1..n) /\ Cardinality(1..n) = n
  BY FS_Interval
<1>4. ~ (Cardinality(1..n) < Cardinality(S))
  BY <1>2, <1>3, FS_PigeonHole
<1> QED BY <1>3, <1>4, FS_CardinalityType

\* The rows a fresh start finds are no more than the rows there are.
Found == {[id |-> i, row |-> db[i]] : i \in {j \in Ids : Fits(db[j])}}

LEMMA FoundCount ==
    ASSUME Typed, Told
    PROVE  IsFiniteSet(Found) /\ Cardinality(Found) <= writes
<1> DEFINE J == {j \in Ids : Fits(db[j])}
           K == {i \in Ids : db[i] # NoRow}
<1>1. J \subseteq K /\ IsFiniteSet(K)
  BY Finite, FS_Subset DEF Fits
<1>2. IsFiniteSet(J) /\ Cardinality(J) <= Cardinality(K) /\ Cardinality(J) \in Nat /\ Cardinality(K) \in Nat
  BY <1>1, ShrinkCount
<1>3. PICK f : f = [i \in J |-> [id |-> i, row |-> db[i]]]
  OBVIOUS
<1>4. f \in Surjection(J, Found)
  BY <1>3 DEF Surjection, Found
<1>5. IsFiniteSet(Found) /\ Cardinality(Found) <= Cardinality(J)
  BY <1>2, <1>4, FS_Surjection
<1>6. Cardinality(K) <= writes
  BY DEF Told
<1>7. Cardinality(Found) \in Nat /\ writes \in Nat
  BY <1>5, FS_CardinalityType, SeqNat DEF Typed
<1> QED BY <1>2, <1>5, <1>6, <1>7

LEMMA LessOne ==
    ASSUME NEW S, IsFiniteSet(S), NEW x \in S
    PROVE  IsFiniteSet(S \ {x}) /\ Cardinality(S \ {x}) = Cardinality(S) - 1 /\ Cardinality(S) \in Nat /\ Cardinality(S) >= 1
<1>1. Cardinality(S) \in Nat /\ Cardinality(S) # 0
  BY FS_CardinalityType, FS_EmptySet
<1> QED BY <1>1, FS_RemoveElement

LEMMA WiredIdle ==
    ASSUME Wired, StreamTyped, BehindOn, conn.pc \in {"open", "down"}, conn'.pc = conn.pc, conn'.closed = conn.closed,
           wire' = wire, client'.lastSeq = client.lastSeq, sub'.count = sub.count, sub'.stored = sub.stored
    PROVE  Wired'
<1>1. CASE conn.pc = "down"
  BY <1>1 DEF Wired, EarlyPc
<1>2. CASE conn.pc = "open"
  <2>1. Framed'
    BY <1>2, FramedKept DEF Wired
  <2>2. PICK n \in Nat : n = sub.count
    BY ConnTyped
  <2>3. Behind(n)'
    BY <1>2, <2>2 DEF Wired, BehindOn
  <2>4. Behind(sub.count)'
    BY <2>2, <2>3 DEF Behind
  <2>5. Halts' <=> Halts
    BY DEF Halts
  <2> QED BY <1>2, <2>1, <2>4, <2>5 DEF Wired, EarlyPc
<1> QED BY <1>1, <1>2

LEMMA WiredPush ==
    ASSUME Typed, Still, Wired, BehindOn, NEW w \in Writers, PushStep(w)
    PROVE  Wired'
<1>0. PushTyped /\ StreamTyped /\ sub.count \in Nat /\ seq \in Nat
  BY ConnTyped, SeqNat DEF Typed
<1>1. /\ conn.pc \in {"open", "down"} /\ UNCHANGED <<stored, client>> /\ conn'.pc = conn.pc
      /\ push[w].pc # "idle"
  BY <1>0, PushFrameKept DEF Still, Quiet
<1>2. CASE PushLoad(w)
  BY <1>0, <1>1, <1>2, WiredIdle DEF PushLoad
<1>3. CASE PushCheck(w)
  BY <1>0, <1>1, <1>3, WiredIdle DEF PushCheck
<1>4. CASE PushMark(w)
  <2>1. UNCHANGED <<conn, wire, client>> /\ sub'.count = sub.count /\ sub'.stored = sub.stored
    BY <1>0, <1>4, ConnTyped DEF PushMark, Subs
  <2> QED BY <1>0, <1>1, <2>1, WiredIdle
<1>5. CASE PushSend(w)
  <2>1. PICK f \in Frames : ShowsEntry(f, push[w].entry) /\ (Silent \/ Delivers(f) \/ Overflows)
    BY <1>0, <1>5, PushSendFacts
  <2>2. CASE conn.pc = "down"
    BY <1>1, <2>2 DEF Wired, EarlyPc
  <2>3. CASE conn.pc = "open"
    <3>1. push[w].pc = "send" /\ ~ AppendAt(w, "incr")
      BY <1>0, <1>5, PushSendFacts DEF Still
    <3>2. sub.count + 1 <= seq
      BY <1>0, <1>1, <2>3, <3>1 DEF Wired, Behind
    <3>3. \A v \in Writers : push'[v].pc = "idle"
      <4>1. push'[w] = IdlePush /\ \A v \in Writers \ {w} : push'[v] = push[v] \/ push'[v] = IdlePush
        BY <1>0, <1>5, PushSendFacts
      <4>2. \A v \in Writers \ {w} : push[v].pc = "idle"
        BY <1>1 DEF Still
      <4> QED BY <4>1, <4>2, IdlePushRecord
    <3>4. seq' = seq
      BY <1>1 DEF stored
    <3>5. \A n \in Nat : n <= seq => Behind(n)'
      BY <3>3, <3>4 DEF Behind
    <3>6. f.seq = sub.count + 1 /\ f.kind \in RowKinds /\ f.kind # "connected"
      BY <2>1 DEF ShowsEntry, RowKinds
    <3>7. /\ Framed' /\ (Halts => Halts') /\ (Silent \/ Overflows => Halts')
      <4>1. f.seq > 0 /\ \A n : n = f.seq => Behind(n)'
        BY <1>0, <3>2, <3>5, <3>6
      <4>2. Framed
        BY <2>3 DEF Wired
      <4> QED BY <1>0, <1>1, <2>1, <3>6, <4>1, <4>2, FramedSend
    <3>8. sub' = NoSub \/ sub' = [sub EXCEPT !.count = sub.count + 1]
      BY <1>5 DEF PushSend, SendEvent
    <3>9. sub'.count \in {0, sub.count + 1}
      BY <1>0, <3>8, ConnTyped DEF NoSub, Subs
    <3>10. Behind(sub.count)'
      <4>1. PICK n \in Nat : n = sub'.count /\ n <= seq
        BY <1>0, <3>2, <3>9
      <4>2. Behind(n)'
        BY <3>5, <4>1
      <4> QED BY <4>1, <4>2 DEF Behind
    <3>11. Halts' \/ sub'.stored
      <4>1. CASE Silent \/ Overflows
        BY <3>7, <4>1
      <4>2. CASE Delivers(f)
        <5>1. sub' = [sub EXCEPT !.count = sub.count + 1]
          BY <1>0, <1>5, <4>2, PushSendFacts DEF Delivers
        <5>2. sub'.stored = sub.stored
          BY <1>0, <5>1, ConnTyped DEF Subs
        <5>3. Halts \/ sub.stored
          BY <2>3 DEF Wired
        <5> QED BY <3>7, <5>2, <5>3
      <4> QED BY <2>1, <4>1, <4>2
    <3> QED BY <1>1, <2>3, <3>7, <3>10, <3>11 DEF Wired, EarlyPc
  <2> QED BY <1>1, <2>2, <2>3
<1> QED BY <1>2, <1>3, <1>4, <1>5 DEF PushStep

\* A step of a set-up that sends nothing.
LEMMA WiredSilent ==
    ASSUME Typed, Still, Wired, SetupStep, wire' = wire, conn'.closed = conn.closed,
           conn.pc \notin {"down", "sequence", "store"}, conn'.pc \notin {"down", "sequence", "store"},
           sub'.stored = sub.stored, sub'.count = sub.count, conn'.pc \in EarlyPc => conn.pc \in EarlyPc,
           conn'.pc \in {"replay", "track", "existing"} =>
                IsFiniteSet(conn'.todo) /\ sub'.count + Cardinality(conn'.todo) <= seq
    PROVE  Wired'
<1>1. Framed'
  BY SetupCalm, FramedKept DEF Typed, Wired
<1>2. Behind(sub.count)'
  <2>1. PICK n : n = sub.count
    OBVIOUS
  <2>2. Behind(n)'
    BY <2>1, SetupCalm DEF Wired
  <2> QED BY <2>1, <2>2 DEF Behind
<1>3. Halts' <=> Halts
  BY DEF Halts
<1>4. seq' = seq
  BY SetupCalm
<1> QED BY <1>1, <1>2, <1>3, <1>4 DEF Wired

\* A step of a set-up that sends a frame.
LEMMA WiredSends ==
    ASSUME Typed, Still, Wired, SetupStep, NEW f \in Frames, Silent \/ Delivers(f) \/ Overflows,
           f.kind # "connected", f.kind \in RowKinds => f.seq = sub.count + 1, sub.count + 1 <= seq,
           conn.pc \notin {"down", "sequence", "store"}, conn'.pc \notin EarlyPc \cup {"down", "sequence", "store"},
           sub' = [sub EXCEPT !.count = sub.count + 1],
           conn'.pc \in {"replay", "track", "existing"} =>
                IsFiniteSet(conn'.todo) /\ sub.count + 1 + Cardinality(conn'.todo) <= seq
    PROVE  Wired' /\ (Halts => Halts') /\ (Silent \/ Overflows => Halts')
           /\ (Delivers(f) /\ f.kind = "invalidate" => Halts')
<1>0. /\ StreamTyped /\ sub.count \in Nat /\ seq \in Nat /\ seq' = seq /\ BehindOn /\ client' = client
      /\ \A n : Behind(n)' <=> n <= seq
  BY SetupCalm, ConnTyped DEF Typed
<1>1. f.kind \in RowKinds => f.seq > 0 /\ \A n : n = f.seq => Behind(n)'
  BY <1>0
<1>2. Framed
  BY DEF Wired
<1>3. /\ Framed' /\ (Halts => Halts') /\ (Silent \/ Overflows => Halts')
      /\ Delivers(f) /\ f.kind = "invalidate" => Halts'
  BY <1>0, <1>1, <1>2, FramedSend
<1>4. sub'.count = sub.count + 1 /\ sub'.stored = sub.stored
  BY <1>0, ConnTyped DEF Subs
<1>5. Behind(sub.count)'
  <2>1. PICK n : n = sub.count + 1
    OBVIOUS
  <2>2. Behind(n)'
    BY <1>0, <2>1
  <2> QED BY <1>4, <2>1, <2>2 DEF Behind
<1>6. Halts' \/ sub'.stored
  BY <1>3, <1>4 DEF Wired
<1>7. Wired'
  BY <1>0, <1>3, <1>4, <1>5, <1>6 DEF Wired
<1> QED BY <1>3, <1>7

LEMMA WiredRefuse ==
    ASSUME Typed, Still, Away, Wired, Resuming, Refuse
    PROVE  Wired' /\ Halts' /\ conn'.pc = "open"
<1>0. PushTyped /\ StreamTyped /\ sub.count \in Nat /\ SetupStep /\ conn.pc = "refuse"
  BY ConnTyped DEF Typed, SetupStep, Refuse, ConnAt
<1>1. conn'.pc = "open" /\ sub' = [sub EXCEPT !.count = sub.count + 1]
  BY <1>0, RefuseFacts
<1>2. PICK f \in Frames : f.kind = "invalidate" /\ (Silent \/ Delivers(f) \/ Overflows)
  BY <1>0, RefuseFacts
<1>3. sub.count + 1 <= seq
  <2>1. conn.since > 0 /\ conn.since = client.lastSeq
    BY <1>0 DEF Resuming
  <2>2. client.lastSeq <= seq /\ seq \in Nat /\ client.lastSeq \in Nat
    BY SeqNat DEF Away, Behind, Typed, ClientTyped
  <2>3. sub.count = 0
    BY <1>0 DEF Wired, EarlyPc
  <2> QED BY <2>1, <2>2, <2>3
<1>4. f.kind # "connected" /\ f.kind \notin RowKinds
  BY <1>2 DEF RowKinds
<1>5. conn'.pc \notin EarlyPc \cup {"down", "sequence", "store"}
  BY <1>1 DEF EarlyPc
<1> QED BY <1>0, <1>1, <1>2, <1>3, <1>4, <1>5, WiredSends

LEMMA WiredReplay ==
    ASSUME Typed, Still, Wired, ReplayEntry
    PROVE  Wired' /\ (Halts => Halts') /\ (Silent \/ Overflows => Halts')
<1>0. PushTyped /\ StreamTyped /\ sub.count \in Nat /\ SetupStep /\ conn.pc = "replay" /\ seq \in Nat
  BY ConnTyped, SeqNat DEF Typed, SetupStep, ReplayEntry, ConnAt
<1>1. /\ Alike(conn', AfterEntry) /\ sub' = [sub EXCEPT !.count = sub.count + 1]
      /\ NextEntry \in conn.todo
  BY <1>0, ReplayEntryFacts, NextEntryIs DEF StreamTyped
<1>2. PICK f \in Frames : ShowsEntry(f, NextEntry) /\ (Silent \/ Delivers(f) \/ Overflows)
  BY <1>0, ReplayEntryFacts
<1>3. conn'.todo = conn.todo \ {NextEntry} /\ conn'.pc \in {"replay", "select"}
  BY <1>0, <1>1, AfterEntryFacts DEF Alike
<1>4. IsFiniteSet(conn.todo) /\ sub.count + Cardinality(conn.todo) <= seq
  BY <1>0 DEF Wired
<1>5. PICK S : S = conn'.todo
  OBVIOUS
<1>6. IsFiniteSet(S) /\ Cardinality(S) = Cardinality(conn.todo) - 1 /\ Cardinality(S) \in Nat /\ Cardinality(conn.todo) \in Nat
  BY <1>1, <1>3, <1>4, <1>5, LessOne, FS_CardinalityType
<1>7. sub.count + 1 <= seq /\ sub.count + 1 + Cardinality(S) <= seq
  BY <1>0, <1>4, <1>6
<1>8. f.kind # "connected" /\ f.seq = sub.count + 1
  BY <1>2 DEF ShowsEntry, RowKinds
<1>9. conn'.pc \notin EarlyPc \cup {"down", "sequence", "store"}
  BY <1>3 DEF EarlyPc
<1> QED BY <1>0, <1>1, <1>2, <1>5, <1>6, <1>7, <1>8, <1>9, WiredSends

LEMMA WiredExisting ==
    ASSUME Typed, Still, Wired, SendExisting
    PROVE  Wired' /\ (Halts => Halts') /\ (Silent \/ Overflows => Halts')
<1>0. PushTyped /\ StreamTyped /\ sub.count \in Nat /\ SetupStep /\ conn.pc = "existing" /\ seq \in Nat
  BY ConnTyped, SeqNat DEF Typed, SetupStep, SendExisting, ConnAt
<1>1. Alike(conn', AfterRow) /\ sub' = [sub EXCEPT !.count = sub.count + 1] /\ conn.row \in conn.todo
  BY <1>0, SendExistingFacts, AfterRowFacts
<1>2. PICK f \in Frames : f.kind = "existing" /\ f.seq = sub.count + 1 /\ (Silent \/ Delivers(f) \/ Overflows)
  BY <1>0, SendExistingFacts
<1>3. conn'.todo = conn.todo \ {conn.row} /\ conn'.pc \in {"open", "track"}
  BY <1>0, <1>1, AfterRowFacts DEF Alike
<1>4. IsFiniteSet(conn.todo) /\ sub.count + Cardinality(conn.todo) <= seq
  BY <1>0 DEF Wired
<1>5. PICK S : S = conn'.todo
  OBVIOUS
<1>6. IsFiniteSet(S) /\ Cardinality(S) = Cardinality(conn.todo) - 1 /\ Cardinality(S) \in Nat /\ Cardinality(conn.todo) \in Nat
  BY <1>1, <1>3, <1>4, <1>5, LessOne, FS_CardinalityType
<1>7. sub.count + 1 <= seq /\ sub.count + 1 + Cardinality(S) <= seq
  BY <1>0, <1>4, <1>6
<1>8. f.kind # "connected"
  BY <1>2
<1>9. conn'.pc \notin EarlyPc \cup {"down", "sequence", "store"}
  BY <1>3 DEF EarlyPc
<1> QED BY <1>0, <1>1, <1>2, <1>5, <1>6, <1>7, <1>8, <1>9, WiredSends

LEMMA WiredFirst ==
    ASSUME Typed, Still, Away, Wired, ReadSequence
    PROVE  Wired'
<1>0. Logged /\ StreamTyped /\ SetupStep /\ conn.pc = "sequence" /\ seq \in Nat
  BY SeqNat DEF Typed, SetupStep, ReadSequence, ConnAt
<1>1. conn'.pc = "store" /\ conn'.closed = conn.closed /\ wire' = <<Frame("connected", seq)>> /\ ~ conn.closed
  BY <1>0, ReadSequenceFacts DEF Wired
<1>2. PICK f : f = Frame("connected", seq)
  OBVIOUS
<1>3. f.kind = "connected" /\ f.seq = seq
  BY <1>0, <1>2, FrameTypes
<1>4. DOMAIN wire' = {1} /\ wire'[1] = f
  BY <1>1, <1>2
<1>5. \A k \in DOMAIN wire' : k = 1 /\ wire'[k] = f
  BY <1>4
<1>6. seq >= client'.lastSeq /\ seq' = seq
  <2>1. client' = client /\ seq' = seq
    BY <1>0, SetupCalm
  <2>2. client.lastSeq <= seq /\ client.lastSeq \in Nat
    BY DEF Away, Behind, Typed, ClientTyped
  <2> QED BY <1>0, <2>1, <2>2
<1>7. Ends(wire)'
  BY <1>3, <1>5 DEF Ends, RowAt, RowKinds
<1>8. \A k \in DOMAIN wire' : Behind(wire[k].seq)'
  <2> SUFFICES ASSUME NEW k \in DOMAIN wire' PROVE Behind(wire[k].seq)'
    OBVIOUS
  <2>1. PICK n : n = seq
    OBVIOUS
  <2>2. Behind(n)' /\ wire'[k].seq = n
    BY <1>0, <1>3, <1>5, <2>1, SetupCalm
  <2> QED BY <2>2 DEF Behind
<1>9. Framed'
  BY <1>1, <1>3, <1>5, <1>6, <1>7, <1>8 DEF Framed, RowKinds
<1> QED BY <1>1, <1>3, <1>5, <1>9 DEF Wired, EarlyPc

LEMMA WiredStored ==
    ASSUME Typed, Still, Wired, StoreSub
    PROVE  Wired'
<1>0. StreamTyped /\ SetupStep /\ conn.pc = "store" /\ seq \in Nat
  BY SeqNat DEF Typed, SetupStep, StoreSub, ConnAt
<1>1. conn'.pc = "zero" /\ conn'.closed = conn.closed /\ sub'.stored = TRUE /\ sub'.count = 0 /\ wire' = wire
  BY <1>0, StoreSubFacts
<1>2. Framed'
  BY <1>0, <1>1, SetupCalm, FramedKept DEF Wired
<1>3. Behind(sub.count)'
  <2>1. PICK n : n = 0
    OBVIOUS
  <2>2. Behind(n)'
    BY <1>0, <2>1, SetupCalm
  <2> QED BY <1>1, <2>1, <2>2 DEF Behind
<1> QED BY <1>0, <1>1, <1>2, <1>3 DEF Wired, EarlyPc

LEMMA WiredSetup ==
    ASSUME Typed, Window, Still, Current, Told, Away, Wired, Resuming, SetupStep
    PROVE  Wired'
<1>0. Logged /\ PushTyped /\ StreamTyped /\ sub.count \in Nat /\ seq \in Nat
  BY ConnTyped, SeqNat DEF Typed
<1>1. CASE ReadSequence
  BY <1>1, WiredFirst
<1>2. CASE StoreSub
  BY <1>2, WiredStored
<1>3. CASE ZeroCount
  <2>1. conn.pc = "zero"
    BY <1>3 DEF ZeroCount, ConnAt
  <2>2. sub'.count = sub.count
    BY <1>0, <1>3, <2>1, ZeroCountFacts DEF Wired, EarlyPc
  <2> QED BY <1>0, <1>3, <2>1, <2>2, ZeroCountFacts, WiredSilent DEF EarlyPc
<1>4. CASE CheckGap
  <2>1. conn.pc = "gap"
    BY <1>4 DEF CheckGap, ConnAt
  <2> QED BY <1>0, <1>4, <2>1, CheckGapFacts, WiredSilent DEF EarlyPc
<1>5. CASE Refuse
  BY <1>5, WiredRefuse
<1>6. CASE ReadEntries
  <2>1. conn.pc = "entries"
    BY <1>6 DEF ReadEntries, ConnAt
  <2>2. /\ conn'.closed = conn.closed /\ sub' = sub /\ wire' = wire
        /\ conn'.pc \in {"select", "replay"}
        /\ conn'.todo = {e \in log : e.seq > conn.since /\ e.seq <= conn.upto}
    BY <1>0, <1>6, ReadEntriesFacts
  <2>3. sub.count = 0
    BY <2>1 DEF Wired, EarlyPc
  <2>4. PICK S : S = conn'.todo
    OBVIOUS
  <2>5. S \subseteq log /\ IsFiniteSet(S)
    BY <1>0, <2>2, <2>4, FS_Subset DEF Logged, StoreTyped
  <2>6. Cardinality(S) <= seq /\ Cardinality(S) \in Nat
    BY <1>0, <2>5, EntriesCount, FS_CardinalityType DEF Window, Numbered
  <2>7. sub'.count + Cardinality(S) <= seq
    BY <2>2, <2>3, <2>6
  <2> QED BY <2>1, <2>2, <2>4, <2>5, <2>7, WiredSilent DEF EarlyPc
<1>7. CASE ReplayEntry
  BY <1>7, WiredReplay
<1>8. CASE ReplayNothing
  <2>1. conn.pc = "replay" /\ conn' = AfterEntry /\ sub' = sub /\ wire' = wire
    BY <1>8 DEF ReplayNothing, ConnAt
  <2>2. /\ conn'.todo = conn.todo \ {NextEntry} /\ conn'.closed = conn.closed
        /\ conn'.pc \in {"select", "replay"} /\ NextEntry \in conn.todo
    BY <1>0, <2>1, AfterEntryFacts, NextEntryIs DEF StreamTyped
  <2>3. IsFiniteSet(conn.todo) /\ sub.count + Cardinality(conn.todo) <= seq
    BY <2>1 DEF Wired
  <2>4. PICK S : S = conn'.todo
    OBVIOUS
  <2>5. IsFiniteSet(S) /\ Cardinality(S) = Cardinality(conn.todo) - 1 /\ Cardinality(conn.todo) \in Nat
    <3>1. /\ IsFiniteSet(conn.todo \ {NextEntry}) /\ Cardinality(conn.todo) \in Nat
          /\ Cardinality(conn.todo \ {NextEntry}) = Cardinality(conn.todo) - 1
      BY <2>2, <2>3, LessOne
    <3>2. S = conn.todo \ {NextEntry}
      BY <2>2, <2>4
    <3> QED BY Zenon, <3>1, <3>2
  <2>6. sub'.count + Cardinality(S) <= seq
    BY <1>0, <2>1, <2>3, <2>5
  <2> QED BY <2>1, <2>2, <2>4, <2>5, <2>6, WiredSilent DEF EarlyPc
<1>9. CASE SelectIds
  <2>1. conn.pc = "select"
    BY <1>9 DEF SelectIds, ConnAt
  <2> QED BY <1>0, <1>9, <2>1, SelectIdsFacts, WiredSilent DEF EarlyPc
<1>10. CASE RegisterKnownIds
  <2>1. conn.pc = "register"
    BY <1>10 DEF RegisterKnownIds, ConnAt
  <2> QED BY <1>0, <1>10, <2>1, RegisterFacts, WiredSilent DEF EarlyPc
<1>11. CASE SelectRows
  <2>1. conn.pc = "rows"
    BY <1>11 DEF SelectRows, ConnAt
  <2>2. /\ conn'.todo = Found /\ conn'.pc \in {"open", "track"} /\ conn'.closed = conn.closed
        /\ sub' = sub /\ wire' = wire
    BY <1>0, <1>11, SelectRowsFacts DEF Found
  <2>3. sub.count = 0
    BY <2>1 DEF Wired, EarlyPc
  <2>4. writes = seq
    <3>1. Appended
      BY <2>1 DEF Still
    <3>2. Incr = {}
      BY <3>1 DEF Incr, Appended, AppendAt
    <3>3. Cardinality(Incr) = 0
      BY <3>2, FS_EmptySet
    <3> QED BY <1>0, <3>3 DEF Logged, Counted
  <2>5. IsFiniteSet(Found) /\ Cardinality(Found) <= seq /\ Cardinality(Found) \in Nat
    BY <2>4, FoundCount, FS_CardinalityType
  <2>6. sub'.count + Cardinality(Found) <= seq
    BY <2>2, <2>3, <2>5
  <2> QED BY <2>1, <2>2, <2>5, <2>6, WiredSilent DEF EarlyPc
<1>12. CASE TrackRow
  <2>1. conn.pc = "track" /\ IsFiniteSet(conn.todo) /\ sub.count + Cardinality(conn.todo) <= seq
    BY <1>12 DEF TrackRow, ConnAt, Wired
  <2> QED BY <1>0, <1>12, <2>1, TrackRowFacts, WiredSilent DEF EarlyPc
<1>13. CASE SendExisting
  BY <1>13, WiredExisting
<1> QED BY <1>1, <1>2, <1>3, <1>4, <1>5, <1>6, <1>7, <1>8, <1>9, <1>10, <1>11, <1>12, <1>13 DEF SetupStep

LEMMA WiredReceive ==
    ASSUME Typed, Wired, BehindOn, Receive
    PROVE  Wired'
<1>0. PushTyped /\ StreamTyped /\ ClientTyped /\ client.items \in [Ids -> Rows] /\ wire \in Seq(Frames)
  BY DEF Typed, ClientTyped, StreamTyped
<1>1. PICK f : f = Head(wire)
  OBVIOUS
<1>2. conn.pc = "open" /\ wire # <<>> /\ f \in Frames /\ Reads(f)
  BY <1>0, <1>1, ReceiveFacts
<1>3. CASE f.kind = "invalidate"
  <2>1. conn'.pc = "down"
    BY <1>0, <1>2, <1>3, HangupFacts DEF Reads, RowKinds
  <2> QED BY <2>1 DEF Wired, EarlyPc
<1>4. CASE f.kind # "invalidate"
  <2>1. wire' = Tail(wire) /\ UNCHANGED <<conn, sub>> /\ ClientTyped'
    BY <1>0, <1>2, <1>4, ReceiveFacts DEF Reads
  <2>2. client'.items \in [Ids -> Rows]
    BY <2>1 DEF ClientTyped, Rows
  <2>3. Ends(wire) /\ Framed
    BY <1>2 DEF Wired, Framed
  <2>4. Ends(Tail(wire))
    <3>1. PICK held \in [Ids -> Rows] : held = client'.items
      BY <2>2
    <3>2. \/ f.kind \notin RowKinds /\ held = client.items
          \/ f.kind \in RowKinds /\ held = [client.items EXCEPT ![f.id] = f.row]
      BY <1>0, <1>2, <1>4, <3>1 DEF Reads, ClientTyped, RowKinds
    <3> QED BY <1>0, <1>1, <1>2, <2>3, <3>1, <3>2, FinalRead
  <2>5. Framed' /\ (Halts' <=> Halts)
    BY <1>0, <1>1, <1>2, <1>4, <2>1, <2>3, <2>4, FramedRead
  <2>6. Behind(sub.count)'
    <3>1. PICK n \in Nat : n = sub.count
      BY <1>0, ConnTyped
    <3>2. Behind(n)'
      BY <1>2, <3>1 DEF Wired, BehindOn
    <3> QED BY <2>1, <3>1, <3>2 DEF Behind
  <2> QED BY <1>2, <2>1, <2>5, <2>6 DEF Wired, EarlyPc
<1> QED BY <1>3, <1>4

LEMMA WiredStep ==
    ASSUME Calm, Typed, Window, Still, Current, Told, Away, Wired, Resuming, [Next]_vars
    PROVE  Wired'
<1>0. NoRace /\ Logged /\ PushTyped /\ StreamTyped /\ ClientTyped
  BY DEF Calm, Typed
<1>1. BehindOn
  BY <1>0, BehindStep DEF BehindOn
<1>2. ASSUME NEW w \in Writers, AppendStep(w) PROVE Wired'
  <2>1. UNCHANGED <<conn, wire, sub, client>> /\ append[w].pc # "idle"
    BY <1>2, AppendFrame DEF served
  <2>2. conn.pc \in {"open", "down"}
    BY <2>1 DEF Still, Appended
  <2> QED BY <1>0, <1>1, <2>1, <2>2, WiredIdle
<1>3. ASSUME NEW w \in Writers, NEW kind \in Kinds, NEW id \in Ids, Write(w, kind, id) PROVE Wired'
  BY <1>0, <1>1, <1>3, QuietWrite, WiredIdle
<1>4. ASSUME NEW w \in Writers, PushStep(w) PROVE Wired'
  BY <1>1, <1>4, WiredPush
<1>5. CASE Connect
  BY <1>0, <1>5, ConnectFacts DEF Wired, EarlyPc
<1>6. CASE SetupStep
  BY <1>6, WiredSetup
<1>7. CASE Receive
  BY <1>1, <1>7, WiredReceive
<1>8. CASE Drop
  BY <1>0, <1>8, HangupFacts DEF Drop, Wired, EarlyPc
<1>9. CASE UNCHANGED vars
  <2>1. UNCHANGED <<conn, wire, client, sub, seq>>
    BY <1>9
  <2>2. Framed <=> Framed'
    BY <1>9 DEF Framed, Ends, RowAt, LastAt, Halts, Behind, AppendAt
  <2>3. (Behind(sub.count)' <=> Behind(sub.count)) /\ (Halts' <=> Halts)
    BY <1>9 DEF Behind, AppendAt, Halts
  <2> QED BY <2>1, <2>2, <2>3 DEF Wired
<1> QED BY <1>2, <1>3, <1>4, <1>5, <1>6, <1>7, <1>8, <1>9 DEF Next

-----------------------------------------------------------------------------
(* How far a set-up is *)

\* What is left of a step that is no part of a set-up.
LEMMA OutsideSetup ==
    ASSUME NoRace, Typed, Window, Still, [Next]_vars
    PROVE  \/ SetupStep
           \/ UNCHANGED vars
           \/ conn'.pc \in {"open", "down"}
           \/ conn'.pc = "sequence" /\ conn'.since = client'.lastSeq
<1>0. Logged /\ PushTyped /\ StreamTyped /\ ClientTyped
  BY DEF Typed
<1>1. ASSUME NEW w \in Writers, AppendStep(w) PROVE conn'.pc \in {"open", "down"}
  <2>1. append[w].pc # "idle" /\ conn' = conn
    BY <1>1, AppendFrame DEF served
  <2> QED BY <2>1 DEF Still, Appended
<1>2. ASSUME NEW w \in Writers, PushStep(w) PROVE conn'.pc \in {"open", "down"}
  <2>1. push[w].pc # "idle" /\ conn'.pc = conn.pc
    BY <1>0, <1>2, PushFrameKept
  <2> QED BY <2>1 DEF Still, Quiet
<1>3. ASSUME NEW w \in Writers, NEW kind \in Kinds, NEW id \in Ids, Write(w, kind, id)
      PROVE  conn'.pc \in {"open", "down"}
  BY <1>3, QuietWrite
<1>4. CASE Connect
  BY <1>0, <1>4, ConnectFacts
<1>5. CASE Receive
  <2>1. conn.pc = "open" /\ Reads(Head(wire))
    BY <1>0, <1>5, ReceiveFacts
  <2>2. conn' = conn \/ Hangup
    BY <2>1 DEF Reads
  <2> QED BY <1>0, <2>1, <2>2, HangupFacts
<1>6. CASE Drop
  BY <1>0, <1>6, HangupFacts DEF Drop
<1> QED BY <1>1, <1>2, <1>3, <1>4, <1>5, <1>6 DEF Next

\* What a set-up has read is what it works with.
LEMMA SetupHeld ==
    ASSUME Typed, Window, Still, SetupStep
    PROVE  /\ UNCHANGED <<Matching, log, db, client>> /\ Recorded = log /\ \A i : ~ Coming(i)
           /\ \A s : Lost(s)' <=> Lost(s)
           /\ wire' = wire => (Halts' <=> Halts) /\ \A i : Final(i)' = Final(i)
<1>0. Logged /\ Numbered
  BY DEF Typed, Window
<1>1. /\ Appended /\ UNCHANGED <<stored, client>>
  BY SetupCalm
<1>2. Recorded = log /\ \A i : ~ Coming(i)
  BY <1>0, <1>1, RecordedFacts
<1>3. UNCHANGED <<Matching, log, db>> /\ \A s : Lost(s)' <=> Lost(s)
  BY <1>1, RecordKept
<1>4. wire' = wire => (Halts' <=> Halts) /\ \A i : Final(i)' = Final(i)
  BY <1>1 DEF Halts, Final
<1> QED BY <1>1, <1>2, <1>3, <1>4

\* The lost numbers of a later position are lost of an earlier one.
LEMMA LostAbove ==
    ASSUME NEW m \in Nat, NEW n \in Nat, m <= n, Logged, Lost(n)
    PROVE  Lost(m)
<1>1. seq \in Nat
  BY SeqNat
<1>2. PICK k \in (n + 1)..seq : \A e \in Recorded : e.seq # k
  BY DEF Lost
<1>3. k \in (m + 1)..seq
  BY <1>1, <1>2
<1> QED BY <1>2, <1>3 DEF Lost

LEMMA LostKept ==
    ASSUME \A s : Lost(s)' <=> Lost(s), conn'.since = conn.since
    PROVE  Lost(conn.since)' <=> Lost(conn.since)
<1>1. PICK s : s = conn.since
  OBVIOUS
<1>2. Lost(s)' <=> Lost(s)
  OBVIOUS
<1>3. Lost(conn.since) <=> Lost(s)
  BY <1>1
<1>4. Lost(conn.since)' <=> Lost(s)'
  BY <1>1 DEF Lost
<1> QED BY <1>2, <1>3, <1>4

\* A client whose stream has told it only its position still has its own rows, and
\* what it is owed is in the changelog.
LEMMA ResumingGap ==
    ASSUME Typed, Window, Pairs, Still, Current, Away, Wired, Resuming, CheckGap
    PROVE  Resuming'
<1>0. /\ StreamTyped /\ Logged /\ Numbered /\ SetupStep /\ conn.pc = "gap" /\ seq \in Nat /\ conn.since \in Nat
      /\ conn.since > 0
  BY SeqNat, ConnTyped DEF Typed, Window, SetupStep, CheckGap, ConnAt, Current
<1>1. /\ SameSpan(conn') /\ sub' = sub /\ wire' = wire
      /\ conn'.pc = (IF NeedsInvalidation(conn.since) THEN "refuse" ELSE "entries")
  BY <1>0, CheckGapFacts
<1>2. /\ UNCHANGED <<Matching, log, db, client>> /\ Recorded = log /\ \A i : ~ Coming(i)
      /\ Lost(conn.since)' <=> Lost(conn.since)
      /\ \A i : Final(i)' = Final(i)
  BY <1>0, <1>1, SetupHeld, LostKept DEF SameSpan
<1>3. CASE NeedsInvalidation(conn.since)
  BY <1>0, <1>1, <1>2, <1>3 DEF Resuming, SameSpan
<1>4. CASE ~ NeedsInvalidation(conn.since)
  <2>1. Appended
    BY <1>0, SetupCalm
  <2>2. ~ Lost(conn.since)
    BY <1>0, <1>2, <1>4, <2>1, NoGap DEF Lost
  <2>3. conn.since = client.lastSeq
    BY <1>0 DEF Resuming
  <2>4. ASSUME NEW i \in Ids
        PROVE  Final(i) = Matching[i] \/ \E e \in log : e.id = i /\ e.seq > conn.since /\ ~ Skip(e)
    <3>1. \A k \in DOMAIN wire : ~ RowAt(wire, i, k)
      BY <1>0 DEF Wired, EarlyPc, RowAt, RowKinds
    <3>2. Final(i) = client.items[i]
      BY <3>1, FinalNone DEF Final
    <3>3. client.items[i] = Matching[i] \/ Owed(i)
      BY <1>0, <2>3 DEF Away, AwayPc
    <3> QED BY <1>2, <2>2, <2>3, <3>2, <3>3 DEF Owed
  <2>5. ASSUME NEW i \in Ids
        PROVE  Final(i)' = Matching'[i] \/ \E e \in log' : e.id = i /\ e.seq > conn'.since /\ ~ Skip(e)
    BY <1>1, <1>2, <2>4 DEF SameSpan
  <2> QED BY <1>0, <1>1, <1>2, <1>4, <2>2, <2>5 DEF Resuming, SameSpan
<1> QED BY <1>3, <1>4

\* The entries read are all there are above the position.
LEMMA ResumingRead ==
    ASSUME Typed, Window, Still, Current, Resuming, ReadEntries
    PROVE  Resuming'
<1>0. StreamTyped /\ Logged /\ Numbered /\ SetupStep /\ conn.pc = "entries" /\ seq \in Nat /\ conn.since \in Nat
  BY SeqNat, ConnTyped DEF Typed, Window, SetupStep, ReadEntries, ConnAt
<1>1. /\ SameSpan(conn') /\ sub' = sub /\ wire' = wire
      /\ conn'.todo = {e \in log : e.seq > conn.since /\ e.seq <= conn.upto}
      /\ conn'.pc = (IF conn'.todo = {} THEN "select" ELSE "replay")
  BY <1>0, ReadEntriesFacts
<1>2. /\ UNCHANGED <<Matching, log, db, client>>
      /\ Lost(conn.since)' <=> Lost(conn.since)
      /\ \A i : Final(i)' = Final(i)
  BY <1>0, <1>1, SetupHeld, LostKept DEF SameSpan
<1>3. \A e \in log : e.seq \in Nat /\ e.seq <= conn.upto
  BY <1>0 DEF Current, Numbered
<1>4. conn'.todo = {e \in log : e.seq > conn.since}
  BY <1>1, <1>3
<1>5. \A i \in Ids : Final(i)' = Matching'[i] \/ \E e \in conn'.todo : e.id = i /\ ~ Skip(e)
  <2>1. \A i \in Ids : Final(i) = Matching[i] \/ \E e \in log : e.id = i /\ e.seq > conn.since /\ ~ Skip(e)
    BY <1>0 DEF Resuming
  <2> QED BY <1>2, <1>4, <2>1
<1>6. CASE conn'.todo = {}
  <2>1. \A i \in Ids : Final(i)' = Matching'[i]
    BY <1>5, <1>6
  <2> QED BY <1>0, <1>1, <1>2, <1>6, <2>1 DEF Resuming, SameSpan
<1>7. CASE conn'.todo # {}
  <2>1. /\ conn'.todo \subseteq log' /\ \A e \in conn'.todo : e.seq > conn'.since
        /\ \A e \in conn'.todo, f \in log' : f.seq > e.seq => f \in conn'.todo
    BY <1>0, <1>1, <1>2, <1>3, <1>4 DEF SameSpan
  <2>2. conn'.pc = "replay" /\ conn'.since = client'.lastSeq /\ sub'.known = {} /\ ~ Lost(conn.since)'
    BY <1>0, <1>1, <1>2, <1>7 DEF Resuming, SameSpan
  <2> QED BY <1>5, <2>1, <2>2 DEF Resuming
<1> QED BY <1>6, <1>7

\* The set-up replays the oldest entry it has left.
LEMMA AfterReplay ==
    ASSUME Typed, Window, Still, Resuming, conn.pc = "replay", SetupStep,
           conn'.todo = AfterEntry.todo, conn'.pc = AfterEntry.pc, SameSpan(conn'), sub'.known = sub.known,
           \/ Halts'
           \/ \A i \in Ids : Final(i)' = Matching[i] \/ \E e \in conn.todo \ {NextEntry} : e.id = i /\ ~ Skip(e)
    PROVE  Resuming'
<1>0. StreamTyped /\ conn.since \in Nat
  BY ConnTyped DEF Typed
<1>1. /\ conn'.todo = conn.todo \ {NextEntry}
      /\ conn'.pc = (IF conn'.todo = {} THEN "select" ELSE "replay")
  BY <1>0, AfterEntryFacts
<1>2. /\ UNCHANGED <<Matching, log, client>>
      /\ Lost(conn.since)' <=> Lost(conn.since)
  BY SetupHeld, LostKept DEF SameSpan
<1>3. Halts' \/ \A i \in Ids : Final(i)' = Matching'[i] \/ \E e \in conn'.todo : e.id = i /\ ~ Skip(e)
  BY <1>1, <1>2
<1>4. conn'.since = client'.lastSeq /\ sub'.known = {} /\ ~ Lost(conn.since)'
  BY <1>2 DEF Resuming, SameSpan
<1>5. CASE conn'.todo = {}
  <2>1. Halts' \/ \A i \in Ids : Final(i)' = Matching'[i]
    BY <1>3, <1>5
  <2> QED BY <1>1, <1>4, <1>5, <2>1 DEF Resuming
<1>6. CASE conn'.todo # {}
  <2>1. NextEntry \in conn.todo /\ \A f \in conn.todo : NextEntry.seq <= f.seq
    BY <1>0, NextEntryIs DEF StreamTyped
  <2>2. /\ conn.todo \subseteq log /\ \A e \in conn.todo : e.seq > conn.since
        /\ \A e \in conn.todo, f \in log : f.seq > e.seq => f \in conn.todo
    BY DEF Resuming
  <2>3. \A e \in log : e.seq \in Nat
    BY SeqNat DEF Typed, Window, Numbered
  <2>4. \A e \in conn.todo, f \in log : f.seq > e.seq => f # NextEntry
    BY <2>1, <2>2, <2>3
  <2>5. /\ conn'.todo \subseteq log' /\ \A e \in conn'.todo : e.seq > conn'.since
        /\ \A e \in conn'.todo, f \in log' : f.seq > e.seq => f \in conn'.todo
    BY <1>1, <1>2, <2>2, <2>4 DEF SameSpan
  <2>6. conn'.pc = "replay"
    BY <1>1, <1>6
  <2> QED BY <1>3, <1>4, <2>5, <2>6 DEF Resuming
<1> QED BY <1>5, <1>6

\* The last entry of a row that is replayed shows what the table holds.
LEMMA ResumingReplay ==
    ASSUME Typed, Window, Still, Told, Wired, Resuming, ReplayEntry
    PROVE  Resuming'
<1>0. /\ PushTyped /\ StreamTyped /\ Logged /\ Numbered /\ SetupStep /\ wire \in Seq(Frames)
      /\ seq \in Nat /\ conn.since \in Nat
  BY SeqNat, ConnTyped DEF Typed, Window, SetupStep
<1>1. /\ conn.pc = "replay" /\ Alike(conn', AfterEntry) /\ sub' = [sub EXCEPT !.count = sub.count + 1]
      /\ ~ Skip(NextEntry)
  BY <1>0, ReplayEntryFacts DEF Skip
<1>2. PICK f \in Frames : ShowsEntry(f, NextEntry) /\ (Silent \/ Delivers(f) \/ Overflows)
  BY <1>0, ReplayEntryFacts
<1>3. SameSpan(conn') /\ conn'.todo = AfterEntry.todo /\ conn'.pc = AfterEntry.pc
  BY <1>0, <1>1, AfterEntryFacts DEF Alike, SameSpan
<1>4. sub'.known = sub.known
  BY <1>0, <1>1 DEF StreamTyped, Subs
<1>5. (Halts => Halts') /\ (Silent \/ Overflows => Halts')
  BY WiredReplay
<1>6. ASSUME Delivers(f), ~ Halts
      PROVE  \A i \in Ids : Final(i)' = Matching[i] \/ \E e \in conn.todo \ {NextEntry} : e.id = i /\ ~ Skip(e)
  <2> SUFFICES ASSUME NEW i \in Ids, \A e \in conn.todo \ {NextEntry} : e.id = i => Skip(e)
               PROVE  Final(i)' = Matching[i]
    OBVIOUS
  <2>1. client' = client /\ Recorded = log /\ \A j : ~ Coming(j)
    BY <1>0, SetupHeld
  <2>2. Ends(wire) /\ wire' = Append(wire, f) /\ f.kind \in RowKinds /\ f.id = NextEntry.id
        /\ f.row = Shown(NextEntry.row)
    BY <1>1, <1>2, <1>6 DEF Wired, Framed, Delivers, ShowsEntry
  <2>3. CASE i # NextEntry.id
    <3>1. Final(i)' = Final(i)
      BY <1>0, <2>1, <2>2, <2>3, FinalRow DEF Final
    <3> QED BY <1>1, <1>6, <2>3, <3>1 DEF Resuming
  <2>4. CASE i = NextEntry.id
    <3>1. Final(i)' = Shown(NextEntry.row)
      BY <1>0, <2>1, <2>2, <2>4, FinalRow DEF Final
    <3>2. NextEntry \in conn.todo /\ NextEntry \in log /\ NextEntry.seq > conn.since /\ NextEntry.seq \in Nat
      BY <1>0, <1>1, NextEntryIs, EntrySeq DEF Resuming, StreamTyped
    <3>3. Newest(NextEntry)
      <4>1. ASSUME NEW g \in log, g.id = i, g.seq > NextEntry.seq PROVE Skip(g)
        <5>1. g \in conn.todo /\ g # NextEntry
          BY <1>1, <3>2, <4>1 DEF Resuming
        <5> QED BY <4>1, <5>1
      <4> QED BY <2>1, <2>4, <4>1 DEF Newest
    <3>4. ~ Lost(NextEntry.seq)
      BY <1>0, <1>1, <3>2, LostAbove DEF Resuming
    <3> QED BY <1>1, <2>1, <2>4, <3>1, <3>2, <3>3, <3>4 DEF Told
  <2> QED BY <2>3, <2>4
<1> QED BY <1>0, <1>1, <1>2, <1>3, <1>4, <1>5, <1>6, AfterReplay

LEMMA ResumingNothing ==
    ASSUME Typed, Window, Still, Resuming, ReplayNothing
    PROVE  Resuming'
<1>0. StreamTyped /\ SetupStep
  BY DEF Typed, SetupStep
<1>1. /\ conn.pc = "replay" /\ conn' = AfterEntry /\ sub' = sub /\ wire' = wire /\ Skip(NextEntry)
  BY DEF ReplayNothing, ConnAt, Skip
<1>2. (Halts' <=> Halts) /\ \A i : Final(i)' = Final(i)
  BY <1>0, <1>1, SetupHeld
<1>3. SameSpan(conn')
  BY <1>0, <1>1, AfterEntryFacts
<1>4. \/ Halts'
      \/ \A i \in Ids : Final(i)' = Matching[i] \/ \E e \in conn.todo \ {NextEntry} : e.id = i /\ ~ Skip(e)
  BY <1>1, <1>2 DEF Resuming
<1> QED BY <1>0, <1>1, <1>3, <1>4, AfterReplay

LEMMA ResumingSetup ==
    ASSUME Typed, Window, Pairs, Still, Current, Told, Away, Wired, Resuming, SetupStep
    PROVE  Resuming'
<1>0. StreamTyped /\ Logged /\ PushTyped
  BY DEF Typed
<1>1. client' = client
  BY SetupHeld
<1>2. CASE ReadSequence
  <2>1. conn'.pc = "store" /\ conn'.since = conn.since /\ conn.pc = "sequence"
    BY <1>0, <1>2, ReadSequenceFacts DEF ReadSequence, ConnAt
  <2> QED BY <1>1, <2>1 DEF Resuming
<1>3. CASE StoreSub
  <2>1. conn'.pc = "zero" /\ conn'.since = conn.since /\ conn.pc = "store" /\ sub'.known = {}
    BY <1>0, <1>3, StoreSubFacts DEF StoreSub, ConnAt, SameSpan
  <2> QED BY <1>1, <2>1 DEF Resuming
<1>4. CASE ZeroCount
  <2>1. conn'.pc \in {"gap", "rows"} /\ conn'.since = conn.since /\ conn.pc = "zero" /\ sub'.known = sub.known
    BY <1>0, <1>4, ZeroCountFacts DEF ZeroCount, ConnAt, SameSpan
  <2> QED BY <1>1, <2>1 DEF Resuming
<1>5. CASE CheckGap
  BY <1>5, ResumingGap
<1>6. CASE Refuse
  BY <1>0, <1>6, RefuseFacts DEF Resuming
<1>7. CASE ReadEntries
  BY <1>7, ResumingRead
<1>8. CASE ReplayEntry
  BY <1>8, ResumingReplay
<1>9. CASE ReplayNothing
  BY <1>9, ResumingNothing
<1>10. CASE SelectIds
  <2>1. /\ SameSpan(conn') /\ conn'.pc = "register" /\ sub' = sub /\ wire' = wire /\ conn.pc = "select"
        /\ conn'.todo = {i \in Ids : Fits(db[i])}
    BY <1>0, <1>10, SelectIdsFacts DEF SelectIds, ConnAt
  <2>2. Matching' = Matching /\ db' = db /\ (Halts' <=> Halts) /\ \A i : Final(i)' = Final(i)
    BY <2>1, SetupHeld
  <2>3. conn'.todo = {i \in Ids : Fits(db'[i])}
    BY <2>1, <2>2
  <2> QED BY <1>1, <2>1, <2>2, <2>3 DEF Resuming, SameSpan
<1>11. CASE RegisterKnownIds
  BY <1>0, <1>11, RegisterFacts DEF Resuming
<1>12. CASE SelectRows
  <2>1. /\ SameSpan(conn') /\ conn'.pc \in {"open", "track"} /\ conn.pc = "rows"
    BY <1>0, <1>12, SelectRowsFacts DEF SelectRows, ConnAt
  <2> QED BY <1>1, <2>1 DEF Resuming, SameSpan
<1>13. CASE TrackRow
  <2>1. /\ SameSpan(conn') /\ conn'.pc = "existing" /\ conn.pc = "track"
    BY <1>0, <1>13, TrackRowFacts DEF TrackRow, ConnAt
  <2> QED BY <1>1, <2>1 DEF Resuming, SameSpan
<1>14. CASE SendExisting
  <2>1. /\ SameSpan(conn') /\ conn'.pc \in {"open", "track"} /\ conn.pc = "existing"
    BY <1>0, <1>14, SendExistingFacts, AfterRowFacts DEF Alike, SameSpan
  <2> QED BY <1>1, <2>1 DEF Resuming, SameSpan
<1> QED
  BY <1>2, <1>3, <1>4, <1>5, <1>6, <1>7, <1>8, <1>9, <1>10, <1>11, <1>12, <1>13, <1>14 DEF SetupStep

LEMMA ResumingStep ==
    ASSUME Calm, Typed, Window, Still, Current, Told, Away, Wired, Resuming, [Next]_vars
    PROVE  Resuming'
<1>1. NoRace /\ Pairs
  BY DEF Calm
<1>2. CASE UNCHANGED vars
  <2>1. UNCHANGED <<Matching, log, db, client, conn, sub>> /\ \A s : Lost(s)' <=> Lost(s)
    BY <1>2, RecordKept DEF stored
  <2>2. /\ \A i : Final(i)' = Final(i)
        /\ Halts' <=> Halts
        /\ Lost(conn.since)' <=> Lost(conn.since)
    BY <1>2, <2>1, LostKept DEF Final, Halts
  <2> QED BY <2>1, <2>2 DEF Resuming
<1>3. CASE conn'.pc \in {"open", "down"}
  BY <1>3 DEF Resuming
<1>4. CASE conn'.pc = "sequence" /\ conn'.since = client'.lastSeq
  BY <1>4 DEF Resuming
<1> QED BY <1>1, <1>2, <1>3, <1>4, OutsideSetup, ResumingSetup

-----------------------------------------------------------------------------
(* A fresh start *)

\* A client without a position holds nothing, and its stream has shown it nothing.
LEMMA StartingZero ==
    ASSUME Typed, Window, Still, Away, Wired, Resuming, ZeroCount
    PROVE  Starting'
<1>0. StreamTyped /\ SetupStep /\ conn.pc = "zero" /\ conn.since \in Nat
  BY ConnTyped DEF Typed, SetupStep, ZeroCount, ConnAt
<1>1. conn'.pc = (IF conn.since > 0 THEN "gap" ELSE "rows") /\ wire' = wire
  BY <1>0, ZeroCountFacts
<1>2. \A i : Final(i)' = Final(i)
  BY <1>0, <1>1, SetupHeld
<1>3. CASE conn.since > 0
  BY <1>1, <1>3 DEF Starting
<1>4. CASE ~ (conn.since > 0)
  <2>1. client.lastSeq = 0
    BY <1>0, <1>4 DEF Resuming
  <2>2. client.items = Nothing
    BY <2>1 DEF Away
  <2>3. ASSUME NEW i \in Ids PROVE Final(i) = NoRow
    <3>1. \A k \in DOMAIN wire : ~ RowAt(wire, i, k)
      BY <1>0 DEF Wired, EarlyPc, RowAt, RowKinds
    <3> QED BY <2>2, <3>1, FinalNone DEF Final, Nothing
  <2> QED BY <1>1, <1>2, <1>4, <2>3 DEF Starting
<1> QED BY <1>3, <1>4

\* What a fresh start has left to send, and that all it has not is in its place.
Sent ==
    /\ \A r \in conn'.todo : r.row = Matching'[r.id] /\ r.row # NoRow
    /\ Halts' \/ \A i \in Ids : IF \E r \in conn'.todo : r.id = i THEN Final(i)' = NoRow ELSE Final(i)' = Matching'[i]
    /\ Halts' \/ \A i \in Ids : Known(i)'

LEMMA SelectFinds ==
    ASSUME Typed, Window, Still, Resuming, Starting, SelectRows
    PROVE  Sent /\ conn'.pc = (IF conn'.todo = {} THEN "open" ELSE "track")
<1>0. StreamTyped /\ Logged /\ SetupStep /\ conn.pc = "rows" /\ db \in [Ids -> Rows]
  BY DEF Typed, SetupStep, SelectRows, ConnAt, Logged, StoreTyped
<1>1. /\ conn'.todo = Found /\ conn'.pc = (IF conn'.todo = {} THEN "open" ELSE "track") /\ sub' = sub /\ wire' = wire
  BY <1>0, SelectRowsFacts DEF Found
<1>2. UNCHANGED Matching /\ \A i : Final(i)' = Final(i)
  BY <1>0, <1>1, SetupHeld
<1>3. ASSUME NEW r \in Found PROVE r.row = Matching[r.id] /\ r.row # NoRow
  BY <1>0 DEF Found, Matching, Fits
<1>4. ASSUME NEW i \in Ids, \A r \in Found : r.id # i PROVE Matching[i] = NoRow
  <2>1. ~ Fits(db[i])
    <3> SUFFICES ASSUME Fits(db[i]) PROVE FALSE
      OBVIOUS
    <3>1. [id |-> i, row |-> db[i]] \in Found
      BY DEF Found
    <3> QED BY <1>4, <3>1
  <2> QED BY <2>1 DEF Matching
<1>5. \A i \in Ids : Final(i)' = NoRow
  BY <1>0, <1>2 DEF Starting
<1>6. \A i \in Ids : i \notin sub'.known
  BY <1>0, <1>1 DEF Resuming
<1>7. \A i \in Ids : IF \E r \in conn'.todo : r.id = i THEN Final(i)' = NoRow ELSE Final(i)' = Matching'[i]
  BY <1>1, <1>2, <1>4, <1>5
<1>8. \A r \in conn'.todo : r.row = Matching'[r.id] /\ r.row # NoRow
  BY <1>1, <1>2, <1>3
<1>9. \A i \in Ids : Known(i)'
  BY <1>5, <1>6 DEF Known
<1> QED BY <1>1, <1>7, <1>8, <1>9 DEF Sent

LEMMA StartingTrack ==
    ASSUME Typed, Window, Still, Starting, TrackRow
    PROVE  Starting'
<1>0. StreamTyped /\ SetupStep /\ conn.pc = "track"
  BY DEF Typed, SetupStep, TrackRow, ConnAt
<1>1. /\ conn'.pc = "existing" /\ conn'.todo = conn.todo /\ wire' = wire
      /\ sub'.known = sub.known \cup {conn'.row.id}
  BY <1>0, TrackRowFacts
<1>2. /\ UNCHANGED Matching
      /\ Halts' <=> Halts
      /\ \A i : Final(i)' = Final(i)
  BY <1>0, <1>1, SetupHeld
<1>3. Halts \/ \A i \in Ids \ {conn'.row.id} : Known(i)'
  BY <1>0, <1>1, <1>2 DEF Starting, Known
<1>4. conn'.row.id \in sub'.known
  BY <1>1
<1>5. /\ \A r \in conn'.todo : r.row = Matching'[r.id] /\ r.row # NoRow
      /\ Halts' \/ \A i \in Ids : IF \E r \in conn'.todo : r.id = i THEN Final(i)' = NoRow ELSE Final(i)' = Matching'[i]
  BY <1>0, <1>1, <1>2 DEF Starting
<1> QED BY <1>1, <1>2, <1>3, <1>4, <1>5 DEF Starting

LEMMA ExistingSends ==
    ASSUME Typed, Window, Still, Wired, Starting, SendExisting
    PROVE  Sent /\ conn'.todo = conn.todo \ {conn.row} /\ conn'.pc = (IF conn'.todo = {} THEN "open" ELSE "track")
<1>0. /\ PushTyped /\ StreamTyped /\ SetupStep /\ wire \in Seq(Frames)
      /\ conn.todo \subseteq Founds /\ conn.pc = "existing"
  BY ConnTyped, SendExistingFacts DEF Typed, SetupStep, StreamTyped, ConnOK
<1>1. /\ Alike(conn', AfterRow) /\ sub' = [sub EXCEPT !.count = sub.count + 1]
  BY <1>0, SendExistingFacts
<1>2. PICK f \in Frames : /\ f.kind = "existing" /\ f.id = conn.row.id /\ f.row = conn.row.row
                          /\ (Silent \/ Delivers(f) \/ Overflows)
  BY <1>0, SendExistingFacts
<1>3. /\ conn'.todo = conn.todo \ {conn.row} /\ conn'.pc = (IF conn'.todo = {} THEN "open" ELSE "track")
      /\ conn.row \in conn.todo /\ conn.row \in Founds /\ conn.row.id \in Ids
  BY <1>0, <1>1, AfterRowFacts DEF Alike
<1>4. sub'.known = sub.known
  BY <1>0, <1>1 DEF StreamTyped, Subs
<1>5. (Halts => Halts') /\ (Silent \/ Overflows => Halts')
  BY WiredExisting
<1>6. UNCHANGED <<Matching, client>>
  BY <1>0, SetupHeld
<1>7. \A r \in conn.todo : r.row = Matching[r.id] /\ r.row # NoRow
  BY <1>0 DEF Starting
<1>8. \A r \in conn'.todo : r.id # conn.row.id
  <2> SUFFICES ASSUME NEW r \in conn'.todo, r.id = conn.row.id PROVE FALSE
    OBVIOUS
  <2>1. r \in conn.todo /\ r # conn.row /\ r \in Founds
    BY <1>0, <1>3
  <2>2. r.row = conn.row.row
    BY <1>3, <1>7, <2>1
  <2> QED BY <1>3, <2>1, <2>2 DEF Founds
<1>9. \A r \in conn'.todo : r.row = Matching'[r.id] /\ r.row # NoRow
  BY <1>3, <1>6, <1>7
<1>10. ASSUME Delivers(f), ~ Halts
       PROVE  \A i \in Ids : /\ IF \E r \in conn'.todo : r.id = i THEN Final(i)' = NoRow ELSE Final(i)' = Matching'[i]
                             /\ Known(i)'
  <2> SUFFICES ASSUME NEW i \in Ids
               PROVE  /\ IF \E r \in conn'.todo : r.id = i THEN Final(i)' = NoRow ELSE Final(i)' = Matching'[i]
                      /\ Known(i)'
    OBVIOUS
  <2>1. Ends(wire) /\ wire' = Append(wire, f) /\ f.kind \in RowKinds
    BY <1>0, <1>2, <1>10 DEF Wired, Framed, Delivers, RowKinds
  <2>2. CASE i # conn.row.id
    <3>1. Final(i)' = Final(i)
      BY <1>0, <1>2, <1>6, <2>1, <2>2, FinalRow DEF Final
    <3>2. Known(i) /\ IF \E r \in conn.todo : r.id = i THEN Final(i) = NoRow ELSE Final(i) = Matching[i]
      BY <1>0, <1>10, <2>2 DEF Starting
    <3>3. Known(i)'
      BY <1>4, <3>1, <3>2 DEF Known
    <3>4. (\E r \in conn'.todo : r.id = i) <=> \E r \in conn.todo : r.id = i
      BY <1>3, <2>2
    <3> QED BY <1>6, <3>1, <3>2, <3>3, <3>4
  <2>3. CASE i = conn.row.id
    <3>1. Final(i)' = conn.row.row
      BY <1>0, <1>2, <1>6, <2>1, <2>3, FinalRow DEF Final
    <3>2. Final(i)' = Matching'[i] /\ Final(i)' # NoRow
      BY <1>3, <1>6, <1>7, <2>3, <3>1
    <3>3. i \in sub'.known
      BY <1>0, <1>4, <1>10, <2>3 DEF Starting
    <3> QED BY <1>8, <2>3, <3>2, <3>3 DEF Known
  <2> QED BY <2>2, <2>3
<1> QED BY <1>2, <1>3, <1>5, <1>9, <1>10 DEF Sent

LEMMA StartingSelect ==
    ASSUME Typed, Window, Still, Resuming, Starting, SelectRows
    PROVE  Starting'
<1>1. Sent /\ conn'.pc \in {"open", "track"}
  BY SelectFinds
<1> QED BY <1>1 DEF Sent, Starting

LEMMA StartingSend ==
    ASSUME Typed, Window, Still, Wired, Starting, SendExisting
    PROVE  Starting'
<1>1. Sent /\ conn'.pc \in {"open", "track"}
  BY ExistingSends
<1> QED BY <1>1 DEF Sent, Starting

LEMMA StartingSetup ==
    ASSUME Typed, Window, Still, Away, Wired, Resuming, Starting, SetupStep
    PROVE  Starting'
<1>0. StreamTyped /\ Logged /\ PushTyped
  BY DEF Typed
<1>1. CASE ReadSequence \/ StoreSub \/ CheckGap \/ Refuse \/ SelectIds \/ RegisterKnownIds
  <2>1. conn'.pc \notin {"rows", "track", "existing"}
    BY <1>0, <1>1, ReadSequenceFacts, StoreSubFacts, CheckGapFacts, RefuseFacts, SelectIdsFacts, RegisterFacts
  <2> QED BY <2>1 DEF Starting
<1>2. CASE ReadEntries
  <2>1. conn'.pc \notin {"rows", "track", "existing"}
    BY <1>0, <1>2, ReadEntriesFacts
  <2> QED BY <2>1 DEF Starting
<1>3. CASE ReplayEntry
  <2>1. conn'.pc \notin {"rows", "track", "existing"}
    BY <1>0, <1>3, ReplayEntryFacts, AfterEntryFacts DEF Alike
  <2> QED BY <2>1 DEF Starting
<1>4. CASE ReplayNothing
  <2>1. conn'.pc \notin {"rows", "track", "existing"}
    BY <1>0, <1>4, AfterEntryFacts DEF ReplayNothing, ConnAt
  <2> QED BY <2>1 DEF Starting
<1> QED BY <1>1, <1>2, <1>3, <1>4, StartingZero, StartingSelect, StartingTrack, StartingSend DEF SetupStep

LEMMA StartingStep ==
    ASSUME Calm, Typed, Window, Still, Away, Wired, Resuming, Starting, [Next]_vars
    PROVE  Starting'
<1>1. NoRace /\ Pairs
  BY DEF Calm
<1>2. CASE UNCHANGED vars
  <2>1. UNCHANGED <<Matching, client, conn, sub>>
    BY <1>2, RecordKept DEF stored
  <2>2. /\ \A i : Final(i)' = Final(i)
        /\ Halts' <=> Halts
    BY <1>2 DEF Final, Halts
  <2>3. \A i : Known(i)' <=> Known(i)
    BY <2>1, <2>2 DEF Known
  <2> QED BY <2>1, <2>2, <2>3 DEF Starting
<1>3. CASE conn'.pc \in {"open", "down"}
  BY <1>3 DEF Starting
<1>4. CASE conn'.pc = "sequence" /\ conn'.since = client'.lastSeq
  BY <1>4 DEF Starting
<1> QED BY <1>1, <1>2, <1>3, <1>4, OutsideSetup, StartingSetup

-----------------------------------------------------------------------------
(* An open connection *)

LEMMA LiveSame ==
    ASSUME Live, UNCHANGED served, UNCHANGED <<client, Matching>>
    PROVE  Live'
<1>1. /\ UNCHANGED <<push, sub, conn, wire>>
      /\ Halts' <=> Halts
      /\ \A i : Final(i)' = Final(i)
  BY DEF Halts, Final, served
<1>2. \A i : Known(i)' <=> Known(i)
  BY <1>1 DEF Known
<1> QED BY <1>1, <1>2 DEF Live

LEMMA LiveWrite ==
    ASSUME NoRace, Typed, Window, Still, Live, NEW w \in Writers, NEW kind \in Kinds, NEW id \in Ids,
           Write(w, kind, id)
    PROVE  Live'
<1>1. /\ Quiet /\ UNCHANGED <<sub, conn, wire, client>>
      /\ push'[w].pc = "load" /\ push'[w].entry.id = id /\ push'[w].entry.kind = kind
      /\ \A v \in Writers : push'[v].pc # "idle" => v = w
  BY QuietWrite
<1>2. /\ \A i \in Ids : i # id => Matching'[i] = Matching[i]
      /\ kind = "create" => Matching[id] = NoRow
  BY WriteRows
<1>3. /\ Halts' <=> Halts
      /\ \A i : Final(i)' = Final(i)
  BY <1>1 DEF Halts, Final
<1>4. \A i : Known(i)' <=> Known(i)
  BY <1>1, <1>3 DEF Known
<1> SUFFICES ASSUME conn'.pc = "open", ~ Halts' PROVE Live'
  BY DEF Live
<1>5. \A i \in Ids : Final(i) = Matching[i] /\ Known(i)
  BY <1>1, <1>3 DEF Live, Quiet
<1>6. \A v \in Writers : push'[v].pc \notin {"check", "mark", "send"}
  BY <1>1
<1>7. \A v \in Writers : push'[v].pc = "load" /\ push'[v].entry.kind = "create" => Final(push[v].entry.id)' = NoRow
  <2> SUFFICES ASSUME NEW v \in Writers, push'[v].pc = "load", push'[v].entry.kind = "create"
               PROVE  Final(push[v].entry.id)' = NoRow
    OBVIOUS
  <2>1. v = w /\ kind = "create" /\ push'[v].entry.id = id
    BY <1>1
  <2>2. Final(id)' = NoRow
    BY <1>2, <1>3, <1>5, <2>1
  <2> QED BY <2>1, <2>2 DEF Final
<1>8. \A i \in Ids : (\A v \in Writers : push'[v].pc # "idle" => push'[v].entry.id # i) => Final(i)' = Matching'[i]
  BY <1>1, <1>2, <1>3, <1>5
<1>9. \A i \in Ids : Known(i)'
  BY <1>4, <1>5
<1> QED BY <1>6, <1>7, <1>8, <1>9 DEF Live

\* A connection is handed out when nothing is being pushed.
LEMMA LiveOpened ==
    ASSUME Quiet', Halts' \/ \A i \in Ids : Final(i)' = Matching'[i] /\ Known(i)'
    PROVE  Live'
BY DEF Live, Quiet

LEMMA SentAll ==
    ASSUME Sent, Quiet', conn'.todo = {}
    PROVE  Live'
BY LiveOpened DEF Sent

LEMMA LiveSetup ==
    ASSUME Typed, Window, Still, Away, Wired, Resuming, Starting, SetupStep
    PROVE  Live'
<1>0. StreamTyped /\ Logged /\ PushTyped
  BY DEF Typed
<1>1. Quiet'
  BY SetupCalm DEF Quiet
<1>2. CASE ReadSequence \/ StoreSub \/ CheckGap \/ SelectIds \/ ZeroCount \/ TrackRow
  <2>1. conn'.pc # "open"
    BY <1>0, <1>2, ReadSequenceFacts, StoreSubFacts, CheckGapFacts, SelectIdsFacts, ZeroCountFacts, TrackRowFacts
  <2> QED BY <2>1 DEF Live
<1>3. CASE ReadEntries
  <2>1. conn'.pc # "open"
    BY <1>0, <1>3, ReadEntriesFacts
  <2> QED BY <2>1 DEF Live
<1>4. CASE ReplayEntry
  <2>1. conn'.pc # "open"
    BY <1>0, <1>4, ReplayEntryFacts, AfterEntryFacts DEF Alike
  <2> QED BY <2>1 DEF Live
<1>5. CASE ReplayNothing
  <2>1. conn'.pc # "open"
    BY <1>0, <1>5, AfterEntryFacts DEF ReplayNothing, ConnAt
  <2> QED BY <2>1 DEF Live
<1>6. CASE Refuse
  BY <1>1, <1>6, WiredRefuse, LiveOpened
<1>7. CASE RegisterKnownIds
  <2>1. /\ conn.pc = "register" /\ sub'.known = sub.known \cup conn.todo /\ wire' = wire
    BY <1>0, <1>7, RegisterFacts DEF RegisterKnownIds, ConnAt
  <2>2. /\ UNCHANGED Matching
        /\ Halts' <=> Halts
        /\ \A i : Final(i)' = Final(i)
    BY <2>1, SetupHeld
  <2>3. Halts \/ \A i \in Ids : Final(i) = Matching[i]
    BY <2>1 DEF Resuming
  <2>4. sub'.known = {i \in Ids : Fits(db[i])}
    BY <2>1 DEF Resuming
  <2>5. \A i \in Ids : i \in sub'.known <=> Matching[i] # NoRow
    BY <2>4 DEF Matching, Fits
  <2>6. Halts' \/ \A i \in Ids : Final(i)' = Matching'[i] /\ Known(i)'
    BY <2>2, <2>3, <2>5 DEF Known
  <2> QED BY <1>1, <2>6, LiveOpened
<1>8. CASE SelectRows
  <2>1. Sent /\ conn'.pc = (IF conn'.todo = {} THEN "open" ELSE "track")
    BY <1>8, SelectFinds
  <2> QED BY <1>1, <2>1, SentAll DEF Live
<1>9. CASE SendExisting
  <2>1. Sent /\ conn'.pc = (IF conn'.todo = {} THEN "open" ELSE "track")
    BY <1>9, ExistingSends
  <2> QED BY <1>1, <2>1, SentAll DEF Live
<1> QED BY <1>2, <1>3, <1>4, <1>5, <1>6, <1>7, <1>8, <1>9 DEF SetupStep

\* Reading a frame changes nothing of what the client will hold.
LEMMA LiveReceive ==
    ASSUME NoRace, Typed, Window, Still, Wired, Live, [Next]_vars, Receive
    PROVE  Live'
<1>0. /\ PushTyped /\ StreamTyped /\ ClientTyped /\ wire \in Seq(Frames) /\ client.items \in [Ids -> Rows]
  BY DEF Typed, StreamTyped, ClientTyped
<1>1. PICK f : f = Head(wire)
  OBVIOUS
<1>2. conn.pc = "open" /\ wire # <<>> /\ f \in Frames /\ Reads(f) /\ UNCHANGED stored
  BY <1>0, <1>1, ReceiveFacts
<1>3. Framed
  BY <1>2 DEF Wired
<1>4. CASE f.kind = "invalidate"
  <2>1. conn'.pc = "down"
    BY <1>0, <1>2, <1>4, HangupFacts DEF Reads, RowKinds
  <2> QED BY <2>1 DEF Live
<1>5. CASE f.kind # "invalidate"
  <2>1. wire' = Tail(wire) /\ UNCHANGED <<conn, sub, push>>
    BY <1>2, <1>5 DEF Reads
  <2>2. \/ f.kind \notin RowKinds /\ client'.items = client.items
        \/ f.kind \in RowKinds /\ client'.items = [client.items EXCEPT ![f.id] = f.row]
    BY <1>0, <1>2, <1>5 DEF Reads, RowKinds, ClientTyped
  <2>3. client'.items \in [Ids -> Rows]
    BY <1>0, ReceiveFacts DEF ClientTyped
  <2>4. Ends(Tail(wire)) /\ \A i \in Ids : FinalOf(Tail(wire), client'.items, i) = FinalOf(wire, client.items, i)
    BY <1>0, <1>1, <1>2, <1>3, <2>2, <2>3, FinalRead DEF Framed
  <2>5. \A i \in Ids : Final(i)' = Final(i)
    BY <2>1, <2>4 DEF Final
  <2>6. BehindOn
    BY BehindStep DEF BehindOn
  <2>7. Halts' <=> Halts
    BY <1>0, <1>1, <1>2, <1>3, <1>5, <2>1, <2>4, <2>6, FramedRead
  <2>8. UNCHANGED Matching
    BY <1>2, RecordKept
  <2>9. \A i \in Ids : Known(i)' <=> Known(i)
    BY <2>1, <2>5 DEF Known
  <2>10. \A w \in Writers : push[w].pc # "idle" => push[w].entry.id \in Ids
    BY <1>0, EntryFields DEF PushTyped
  <2>11. \A w \in Writers : push[w].pc # "idle" => Final(push[w].entry.id)' = Final(push[w].entry.id)
    BY <2>1, <2>5, <2>10 DEF Final
  <2> QED BY <2>1, <2>5, <2>7, <2>8, <2>9, <2>11 DEF Live
<1> QED BY <1>4, <1>5

\* One push is under way: what it leaves decides what is right of an open connection.
LEMMA LivePushed ==
    ASSUME Typed, Still, NEW w \in Writers, PushStep(w),
           conn'.pc = "open" /\ ~ Halts' =>
             /\ \A i \in Ids : (push'[w].pc # "idle" /\ push'[w].entry.id = i) \/ Final(i)' = Matching'[i]
             /\ \A i \in Ids : (push'[w].pc = "send" /\ push'[w].entry.id = i) \/ Known(i)'
             /\ push'[w].pc # "load"
             /\ push'[w].pc \in {"check", "mark", "send"} => ~ Skip(push'[w].entry)
             /\ push'[w].pc = "send" => (push'[w].entry.id \in sub'.known <=> Fits(push'[w].entry.row))
    PROVE  Live'
<1>0. PushTyped /\ StreamTyped
  BY DEF Typed
<1>1. /\ push[w].pc # "idle"
      /\ \A v \in Writers \ {w} : push'[v] = push[v] \/ push'[v] = IdlePush
  BY <1>0, PushFrameKept
<1>2. \A v \in Writers \ {w} : push'[v].pc = "idle"
  BY <1>1, IdlePushRecord DEF Still
<1>3. \A v \in Writers : push'[v].pc # "idle" => v = w
  BY <1>2
<1> SUFFICES ASSUME conn'.pc = "open", ~ Halts' PROVE Live'
  BY DEF Live
<1>4. \A i \in Ids : (\A v \in Writers : push'[v].pc # "idle" => push'[v].entry.id # i) => Final(i)' = Matching'[i]
  OBVIOUS
<1>5. \A i \in Ids : (\A v \in Writers : push'[v].pc = "send" => push'[v].entry.id # i) => Known(i)'
  OBVIOUS
<1>6. \A v \in Writers :
        /\ push'[v].pc # "load"
        /\ push'[v].pc \in {"check", "mark", "send"} => ~ Skip(push'[v].entry)
        /\ push'[v].pc = "send" => (push'[v].entry.id \in sub'.known <=> Fits(push'[v].entry.row))
  BY <1>3
<1> QED BY <1>4, <1>5, <1>6 DEF Live

\* What a push finds of an open connection.
LEMMA LiveBefore ==
    ASSUME Typed, Still, Told, Wired, Live, NEW w \in Writers, PushStep(w), conn.pc = "open", ~ Halts
    PROVE  /\ push[w].entry \in Entry /\ push[w].entry.id \in Ids
           /\ \A i \in Ids : i = push[w].entry.id \/ Final(i) = Matching[i]
           /\ \A i \in Ids : (push[w].pc = "send" /\ i = push[w].entry.id) \/ Known(i)
           /\ Matching[push[w].entry.id] = Shown(push[w].entry.row)
           /\ push[w].pc = "load" /\ push[w].entry.kind = "create" => Final(push[w].entry.id) = NoRow
           /\ push[w].pc \in {"check", "mark", "send"} => ~ Skip(push[w].entry)
           /\ push[w].pc = "send" => (push[w].entry.id \in sub.known <=> Fits(push[w].entry.row))
           /\ sub.stored /\ ~ conn.closed
<1>0. PushTyped /\ StreamTyped
  BY DEF Typed
<1>1. push[w].pc # "idle"
  BY <1>0, PushFrameKept
<1>2. push[w].entry \in Entry /\ push[w].entry.id \in Ids
  BY <1>0, <1>1, EntryFields DEF PushTyped
<1>3. \A v \in Writers : push[v].pc # "idle" => v = w
  BY <1>1 DEF Still
<1>4. push[w].entry.row = db[push[w].entry.id]
  BY <1>1 DEF Told
<1>5. Matching[push[w].entry.id] = Shown(push[w].entry.row)
  BY <1>2, <1>4 DEF Matching, Shown
<1>6. sub.stored /\ ~ conn.closed
  BY DEF Wired, Framed
<1>7. \A i \in Ids : i = push[w].entry.id \/ Final(i) = Matching[i]
  BY <1>3 DEF Live
<1>8. \A i \in Ids : (push[w].pc = "send" /\ i = push[w].entry.id) \/ Known(i)
  BY <1>3 DEF Live
<1> QED BY <1>2, <1>5, <1>6, <1>7, <1>8 DEF Live

\* A step of a push that sends nothing.
LEMMA LiveQuietly ==
    ASSUME UNCHANGED <<wire, conn, client, db>>
    PROVE  /\ UNCHANGED Matching
           /\ Halts' <=> Halts
           /\ \A i : Final(i)' = Final(i)
BY DEF Halts, Final, Matching, Fits

LEMMA LiveLoad ==
    ASSUME Typed, Still, Told, Wired, Live, NEW w \in Writers, PushLoad(w)
    PROVE  Live'
<1>0. PushTyped /\ PushStep(w)
  BY DEF Typed, PushStep
<1>1. UNCHANGED <<wire, conn, client, db, sub>>
  BY DEF PushLoad
<1>2. /\ UNCHANGED Matching
      /\ Halts' <=> Halts
      /\ \A i : Final(i)' = Final(i)
  BY <1>1, LiveQuietly
<1>3. \A i : Known(i)' <=> Known(i)
  BY <1>1, <1>2 DEF Known
<1> SUFFICES ASSUME conn'.pc = "open", ~ Halts' PROVE Live'
  BY DEF Live
<1> DEFINE e == push[w].entry
<1>4. /\ push[w].pc = "load"
      /\ \/ push'[w] = IdlePush /\ (~ sub.stored \/ (e.kind = "create" /\ ~ Fits(e.row)))
         \/ sub.stored /\ e.kind = "create" /\ Fits(e.row) /\ Goes(w, "mark")
         \/ sub.stored /\ e.kind # "create" /\ Goes(w, "check")
  BY <1>0, LoadMoves
<1>5. /\ \A i \in Ids : i = e.id \/ Final(i) = Matching[i]
      /\ \A i \in Ids : Known(i)
      /\ Matching[e.id] = Shown(e.row) /\ e.id \in Ids
      /\ e.kind = "create" => Final(e.id) = NoRow
      /\ sub.stored
  BY <1>0, <1>1, <1>2, <1>4, LiveBefore
<1> HIDE DEF e
<1>6. CASE push'[w] = IdlePush
  <2>1. e.kind = "create" /\ ~ Fits(e.row)
    BY <1>4, <1>5, <1>6, IdlePushRecord DEF Goes
  <2>2. Final(e.id) = Matching[e.id]
    BY <1>5, <2>1 DEF Shown
  <2>3. \A i \in Ids : Final(i)' = Matching'[i] /\ Known(i)'
    BY <1>2, <1>3, <1>5, <2>2
  <2> QED BY <1>0, <1>6, <2>3, IdlePushRecord, LivePushed
<1>7. CASE Goes(w, "mark") \/ Goes(w, "check")
  <2>1. push'[w].pc \in {"mark", "check"} /\ push'[w].entry = e
    BY <1>7 DEF Goes, e
  <2>2. ~ Skip(e)
    BY <1>4, <1>7, <2>1, IdlePushRecord DEF Skip, Goes
  <2>3. \A i \in Ids : (i = e.id \/ Final(i)' = Matching'[i]) /\ Known(i)'
    BY <1>2, <1>3, <1>5
  <2> QED BY <1>0, <2>1, <2>2, <2>3, LivePushed
<1> QED BY <1>4, <1>6, <1>7

LEMMA LiveCheck ==
    ASSUME Typed, Still, Told, Wired, Live, NEW w \in Writers, PushCheck(w)
    PROVE  Live'
<1>0. PushTyped /\ PushStep(w)
  BY DEF Typed, PushStep
<1>1. UNCHANGED <<wire, conn, client, db, sub>>
  BY DEF PushCheck
<1>2. /\ UNCHANGED Matching
      /\ Halts' <=> Halts
      /\ \A i : Final(i)' = Final(i)
  BY <1>1, LiveQuietly
<1>3. \A i : Known(i)' <=> Known(i)
  BY <1>1, <1>2 DEF Known
<1> SUFFICES ASSUME conn'.pc = "open", ~ Halts' PROVE Live'
  BY DEF Live
<1> DEFINE e == push[w].entry
<1>4. /\ push[w].pc = "check"
      /\ \/ push'[w] = IdlePush /\ e.id \notin sub.known /\ ~ Fits(e.row)
         \/ e.id \in sub.known /\ Fits(e.row) /\ Goes(w, "send")
         \/ ~ (e.id \in sub.known <=> Fits(e.row)) /\ Goes(w, "mark")
  BY <1>0, CheckMoves
<1>5. /\ \A i \in Ids : i = e.id \/ Final(i) = Matching[i]
      /\ \A i \in Ids : Known(i)
      /\ Matching[e.id] = Shown(e.row) /\ e.id \in Ids
      /\ ~ Skip(e)
  BY <1>0, <1>1, <1>2, <1>4, LiveBefore
<1> HIDE DEF e
<1>6. CASE push'[w] = IdlePush /\ e.id \notin sub.known /\ ~ Fits(e.row)
  <2>1. Final(e.id) = Matching[e.id]
    BY <1>5, <1>6 DEF Shown, Known
  <2>2. \A i \in Ids : Final(i)' = Matching'[i] /\ Known(i)'
    BY <1>2, <1>3, <1>5, <2>1
  <2> QED BY <1>0, <1>6, <2>2, IdlePushRecord, LivePushed
<1>7. CASE Goes(w, "mark") \/ (Goes(w, "send") /\ e.id \in sub.known /\ Fits(e.row))
  <2>1. push'[w].pc \in {"mark", "send"} /\ push'[w].entry = e
    BY <1>7 DEF Goes, e
  <2>2. push'[w].pc = "send" => (e.id \in sub'.known <=> Fits(e.row))
    BY <1>1, <1>7 DEF Goes
  <2>3. \A i \in Ids : (i = e.id \/ Final(i)' = Matching'[i]) /\ Known(i)'
    BY <1>2, <1>3, <1>5
  <2> QED BY <1>0, <1>5, <2>1, <2>2, <2>3, LivePushed
<1> QED BY <1>4, <1>6, <1>7

LEMMA LiveMark ==
    ASSUME Typed, Still, Told, Wired, Live, NEW w \in Writers, PushMark(w)
    PROVE  Live'
<1>0. PushTyped /\ StreamTyped /\ PushStep(w)
  BY DEF Typed, PushStep
<1>1. UNCHANGED <<wire, conn, client, db>>
  BY DEF PushMark
<1>2. /\ UNCHANGED Matching
      /\ Halts' <=> Halts
      /\ \A i : Final(i)' = Final(i)
  BY <1>1, LiveQuietly
<1> SUFFICES ASSUME conn'.pc = "open", ~ Halts' PROVE Live'
  BY DEF Live
<1> DEFINE e == push[w].entry
<1>3. push[w].pc = "mark" /\ push'[w].pc = "send" /\ push'[w].entry = e
  BY <1>0, MarkMoves DEF Goes
<1>4. sub'.known = IF Fits(e.row) THEN sub.known \cup {e.id} ELSE sub.known \ {e.id}
  BY <1>0 DEF PushMark, StreamTyped, Subs
<1>5. /\ \A i \in Ids : i = e.id \/ Final(i) = Matching[i]
      /\ \A i \in Ids : Known(i)
      /\ e.id \in Ids
      /\ ~ Skip(e)
  BY <1>0, <1>1, <1>2, <1>3, LiveBefore
<1> HIDE DEF e
<1>6. \A i \in Ids : i = e.id \/ (Final(i)' = Matching'[i] /\ Known(i)')
  BY <1>2, <1>4, <1>5 DEF Known
<1>7. e.id \in sub'.known <=> Fits(e.row)
  BY <1>4
<1> QED BY <1>0, <1>3, <1>5, <1>6, <1>7, LivePushed

LEMMA LiveSend ==
    ASSUME Typed, Still, Told, Wired, Live, NEW w \in Writers, PushSend(w)
    PROVE  Live'
<1>0. PushTyped /\ StreamTyped /\ PushStep(w) /\ wire \in Seq(Frames)
  BY DEF Typed, PushStep, StreamTyped
<1> DEFINE e == push[w].entry
<1>1. push[w].pc = "send" /\ push'[w] = IdlePush /\ Alike(conn', conn)
  BY <1>0, PushSendFacts
<1>2. PICK f \in Frames : ShowsEntry(f, e) /\ (Silent \/ Delivers(f) \/ Overflows)
  BY <1>0, PushSendFacts
<1> SUFFICES ASSUME conn'.pc = "open", ~ Halts' PROVE Live'
  BY DEF Live
<1>3. conn.pc = "open" /\ UNCHANGED <<client, db>>
  BY <1>1 DEF Alike, PushSend
<1>4. Ends(wire) /\ (conn.closed => Halts)
  BY <1>3 DEF Wired, Framed
<1>5. ~ Halts /\ wire' = Append(wire, f) /\ Delivers(f)
  <2>1. ASSUME Silent PROVE FALSE
    BY <1>4, <2>1 DEF Silent, Halts
  <2>2. ASSUME Overflows PROVE FALSE
    <3>1. PICK g : g = Frame("invalidate", 0)
      OBVIOUS
    <3>2. g \in Frames /\ g.kind = "invalidate"
      BY <3>1, FrameTypes
    <3>3. wire' = Append(wire, g)
      BY <2>2, <3>1 DEF Overflows
    <3>4. Len(wire) + 1 \in DOMAIN wire' /\ wire'[Len(wire) + 1] = g
      BY <1>0, <3>2, <3>3, AppendedAt
    <3> QED BY <3>2, <3>4 DEF Halts
  <2>3. Delivers(f)
    BY <1>2, <2>1, <2>2
  <2>4. \A k \in DOMAIN wire : k \in DOMAIN wire' /\ wire'[k] = wire[k]
    BY <1>0, <2>3, AppendedAt DEF Delivers
  <2> QED BY <2>3, <2>4 DEF Delivers, Halts
<1>6. sub' = [sub EXCEPT !.count = sub.count + 1]
  BY <1>0, <1>5, PushSendFacts DEF Delivers
<1>7. sub'.known = sub.known
  BY <1>0, <1>6 DEF StreamTyped, Subs
<1>8. /\ \A i \in Ids : i = e.id \/ (Final(i) = Matching[i] /\ Known(i))
      /\ Matching[e.id] = Shown(e.row) /\ e.id \in Ids
      /\ e.id \in sub.known <=> Fits(e.row)
  BY <1>0, <1>1, <1>3, <1>5, LiveBefore
<1> HIDE DEF e
<1>9. f.kind \in RowKinds /\ f.id = e.id /\ f.row = Shown(e.row)
  BY <1>2 DEF ShowsEntry
<1>10. Matching' = Matching
  BY <1>3 DEF Matching, Fits
<1>11. \A i \in Ids : Final(i)' = Matching'[i]
  <2>1. Final(f.id)' = Shown(e.row)
    BY <1>0, <1>3, <1>4, <1>5, <1>9, FinalRow DEF Final
  <2>2. \A i \in Ids : i # e.id => Final(i)' = Final(i)
    BY <1>0, <1>3, <1>4, <1>5, <1>9, FinalRow DEF Final
  <2> QED BY <1>8, <1>9, <1>10, <2>1, <2>2
<1>12. \A i \in Ids : Known(i)'
  <2>1. Shown(e.row) # NoRow <=> Fits(e.row)
    BY DEF Shown, Fits
  <2>2. \A i \in Ids : Known(i) => (i \in sub.known <=> Final(i) # NoRow)
    BY DEF Known
  <2>3. \A i \in Ids : i \in sub'.known <=> Matching[i] # NoRow
    BY <1>7, <1>8, <2>1, <2>2
  <2> QED BY <1>10, <1>11, <2>3 DEF Known
<1> QED BY <1>0, <1>1, <1>11, <1>12, IdlePushRecord, LivePushed

LEMMA LiveStep ==
    ASSUME Calm, Typed, Window, Still, Told, Away, Wired, Resuming, Starting, Live, [Next]_vars
    PROVE  Live'
<1>0. NoRace /\ PushTyped /\ StreamTyped /\ ClientTyped
  BY DEF Calm, Typed
<1>1. ASSUME NEW w \in Writers, AppendStep(w) PROVE Live'
  <2>1. UNCHANGED served /\ UNCHANGED <<client, db>>
    BY <1>1, AppendFrame
  <2>2. UNCHANGED Matching
    BY <2>1 DEF Matching, Fits
  <2> QED BY <2>1, <2>2, LiveSame
<1>2. ASSUME NEW w \in Writers, PushStep(w) PROVE Live'
  BY <1>2, LiveLoad, LiveCheck, LiveMark, LiveSend DEF PushStep
<1>3. ASSUME NEW w \in Writers, NEW kind \in Kinds, NEW id \in Ids, Write(w, kind, id) PROVE Live'
  BY <1>0, <1>3, LiveWrite
<1>4. CASE Connect
  BY <1>0, <1>4, ConnectFacts DEF Live
<1>5. CASE SetupStep
  BY <1>5, LiveSetup
<1>6. CASE Receive
  BY <1>0, <1>6, LiveReceive
<1>7. CASE Drop
  BY <1>0, <1>7, HangupFacts DEF Drop, Live
<1>8. CASE UNCHANGED vars
  <2>1. UNCHANGED served /\ UNCHANGED <<client, Matching>>
    BY <1>8 DEF served, Matching, Fits
  <2> QED BY <2>1, LiveSame
<1> QED BY <1>1, <1>2, <1>3, <1>4, <1>5, <1>6, <1>7, <1>8 DEF Next

-----------------------------------------------------------------------------
(* The client mirrors the table *)

LEMMA InitMirror == ASSUME Calm, Init PROVE Mirror
<1>0. seq = 0 /\ log = {} /\ conn = NoConn /\ wire = <<>> /\ writes = 0
      /\ client = [items |-> Nothing, lastSeq |-> 0] /\ db = Nothing
      /\ append = [w \in Writers |-> IdleAppend] /\ push = [w \in Writers |-> IdlePush]
  BY DEF Calm, Init, Nothing
<1>1. conn.pc = "down" /\ \A w \in Writers : append[w].pc = "idle" /\ push[w].pc = "idle"
  BY <1>0 DEF NoConn, IdleAppend, IdlePush
<1>2. Recorded = {}
  BY <1>0, <1>1 DEF Recorded, AppendAt
<1>3. Told
  <2>1. {i \in Ids : db[i] # NoRow} = {}
    BY <1>0 DEF Nothing
  <2>2. Cardinality({i \in Ids : db[i] # NoRow}) <= writes
    BY <1>0, <2>1, FS_EmptySet
  <2> QED BY <1>1, <1>2, <2>2 DEF Told, AppendAt
<1>4. Away
  BY <1>0, <1>1 DEF Away, Behind
<1>5. Wired
  BY <1>1 DEF Wired, EarlyPc
<1> QED BY <1>1, <1>3, <1>4, <1>5 DEF Mirror, Resuming, Starting, Live

LEMMA MirrorStep ==
    ASSUME Calm, Typed, Window, Still, Current, Mirror, [Next]_vars
    PROVE  Mirror'
<1>1. Told /\ Away /\ Wired /\ Resuming /\ Starting /\ Live
  BY DEF Mirror
<1>2. NoRace
  BY DEF Calm
<1> QED BY <1>1, <1>2, ToldStep, AwayStep, WiredStep, ResumingStep, StartingStep, LiveStep DEF Mirror

\* When everything is pushed and read, the client holds what it was to hold.
LEMMA SettledMirrors ==
    ASSUME Typed, Wired, Live, Settled
    PROVE  client.items = Matching /\ sub.known = {i \in Ids : client.items[i] # NoRow}
<1>1. conn.pc = "open" /\ wire = <<>> /\ \A w \in Writers : push[w].pc = "idle"
  BY DEF Settled, ConnAt, Quiet
<1>2. client.items \in [Ids -> Rows] /\ sub.known \subseteq Ids
  BY ConnTyped DEF Typed, ClientTyped
<1>3. DOMAIN wire = {}
  BY <1>1
<1>4. ~ Halts /\ \A i : Final(i) = client.items[i]
  BY <1>3, FinalNone DEF Halts, Final
<1>5. \A i \in Ids : client.items[i] = Matching[i] /\ (i \in sub.known <=> client.items[i] # NoRow)
  BY <1>1, <1>4 DEF Live, Known
<1>6. client.items = Matching
  BY <1>2, <1>5 DEF Matching
<1> QED BY <1>2, <1>5, <1>6

\* The inductive invariant: nothing runs beside a set-up, what was read is current,
\* and at every stage the client holds, is about to read or is owed its rows.
Inv == Typed /\ Window /\ Still /\ Current /\ Mirror

LEMMA InvHolds ==
    ASSUME Calm
    PROVE  Spec => []Inv
<1>0. NoRace /\ Pairs
  BY DEF Calm
<1>1. Init => Inv
  BY InitTyped, InitWindow, InitStill, InitMirror DEF Inv
<1>2. Inv /\ [Next]_vars => Inv'
  BY <1>0, TypedStep, WindowStep, StillStep, CurrentStep, MirrorStep DEF Inv
<1> QED BY <1>1, <1>2, PTL DEF Spec

\* When all that was committed is logged, pushed and read, the client holds exactly
\* the rows that fit its filter, in their latest version: after a fresh snapshot, live
\* events, any number of reconnects with a replay of the changelog, and invalidates
\* for a full queue or a trimmed window (src/src/resource/hook.ts and subscription.ts,
\* client/subscription-manager.ts), for all rows and bounds, when requests push one at
\* a time and none runs beside a set-up.
THEOREM FeedMirrors ==
    ASSUME Calm
    PROVE  Spec => []ClientMirrors
<1>1. Inv => ClientMirrors
  BY SettledMirrors DEF Inv, Mirror, ClientMirrors
<1> QED BY <1>1, InvHolds, PTL

\* Under the same conditions the ids the server tracks for the subscription, which
\* decide whether an event is an addition, a change or a removal, are those of the
\* rows the client holds.
THEOREM FeedKnownIsHeld ==
    ASSUME Calm
    PROVE  Spec => []KnownIsHeld
<1>1. Inv => KnownIsHeld
  BY SettledMirrors DEF Inv, Mirror, KnownIsHeld
<1> QED BY <1>1, InvHolds, PTL

=============================================================================
