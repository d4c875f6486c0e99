------------------------------ MODULE LiveFeed ------------------------------
(***************************************************************************)
(* Live subscriptions of src/src/resource and the client that follows one: *)
(* requests change rows of a resource, append to the changelog and push    *)
(* events to the subscription; a client keeps a copy of the rows that fit  *)
(* its filter, loses its connection and resumes from a sequence number.    *)
(*                                                                         *)
(* One resource, one subscriber, one server process that writes the SSE    *)
(* stream itself (GET /subscribe; a store without scoped subscriptions).   *)
(* An action is one operation on the database or the key-value store and   *)
(* the local code that runs when its answer arrives.                       *)
(***************************************************************************)
EXTENDS Integers, FiniteSets, Sequences, FiniteSetsExt

CONSTANTS
    Ids,        \* row ids
    Writers,    \* names for the write requests in flight
    Seeded,     \* rows the database holds that the changelog never saw
    MaxWrites,  \* bound: how many writes are committed
    MaxEntries, \* config.maxEntries of the changelog
    MaxQueue,   \* sse.maxQueueBytes, counted in frames
    MaxDrops,   \* bound: how often the connection breaks
    Hazards,    \* the disturbances the environment may cause
    NoRow

\* race: requests run side by side and while a connection is set up;
\* lose: a connection breaks with frames still on the wire or before it is set up.
HazardKinds == {"race", "lose"}

ASSUME FeedAssumption ==
    /\ Seeded \subseteq Ids
    /\ IsFiniteSet(Ids) /\ IsFiniteSet(Writers)
    /\ MaxWrites \in Nat /\ MaxDrops \in Nat
    /\ MaxEntries \in Nat \ {0} /\ MaxQueue \in Nat \ {0}
    /\ Hazards \subseteq HazardKinds
    /\ NoRow \notin [ver : Nat, fits : BOOLEAN]

VARIABLES
    db,      \* the table
    seq,     \* the changelog's sequence key
    log,     \* the changelog's sorted set
    append,  \* the changelog append of a write request
    push,    \* the push of a write request to the subscription
    sub,     \* the subscription the server keeps for the current connection
    conn,    \* the request that sets the connection up, and its stream
    wire,    \* frames written and not read yet
    client,  \* the SubscriptionManager's copy of the rows, and its position
    writes, drops

server == <<append, push, sub, conn, wire>>
vars == <<db, seq, log, append, push, sub, conn, wire, client, writes, drops>>

-----------------------------------------------------------------------------
(* Types *)

\* A row: which write made it, and whether it fits the subscription's filter.
Row == [ver : 0..MaxWrites, fits : BOOLEAN]
Kinds == {"create", "update", "delete"}
Entry == [seq : 0..MaxWrites, kind : Kinds, id : Ids, row : Row \cup {NoRow}]

AppendPc == {"idle", "incr", "insert", "count", "oldest", "trim"}
PushPc == {"idle", "load", "check", "mark", "send"}
ConnPc == {"down", "sequence", "store", "zero", "gap", "refuse", "entries", "replay",
           "select", "register", "rows", "track", "existing", "open"}
FrameKinds == {"connected", "existing", "added", "changed", "removed", "invalidate"}

TypeOK ==
    /\ db \in [Ids -> Row \cup {NoRow}]
    /\ seq \in 0..MaxWrites
    /\ log \subseteq Entry
    /\ \A w \in Writers :
        /\ append[w].pc \in AppendPc
        /\ append[w].pc # "idle" => append[w].entry \in Entry
        /\ append[w].old \subseteq Entry
        /\ push[w].pc \in PushPc
        /\ push[w].pc # "idle" => push[w].entry \in Entry
    /\ sub.stored \in BOOLEAN /\ sub.known \subseteq Ids /\ sub.count \in Nat
    /\ conn.pc \in ConnPc /\ conn.closed \in BOOLEAN
    /\ conn.since \in Nat /\ conn.upto \in 0..MaxWrites
    /\ conn.pc = "replay" => conn.todo \subseteq Entry
    /\ conn.pc = "register" => conn.todo \subseteq Ids
    /\ conn.pc \in {"track", "existing"} => conn.todo \subseteq [id : Ids, row : Row]
    /\ \A f \in {wire[i] : i \in DOMAIN wire} :
        /\ f.kind \in FrameKinds /\ f.seq \in Nat
        /\ f.kind \in {"existing", "added", "changed"} => f.id \in Ids /\ f.row \in Row
        /\ f.kind = "removed" => f.id \in Ids
    /\ client.items \in [Ids -> Row \cup {NoRow}] /\ client.lastSeq \in Nat

Nothing == [i \in Ids |-> NoRow]
IdleAppend == [pc |-> "idle", entry |-> NoRow, excess |-> 0, old |-> {}]
IdlePush == [pc |-> "idle", entry |-> NoRow, was |-> FALSE]
NoSub == [stored |-> FALSE, known |-> {}, count |-> 0]
NoConn == [pc |-> "down", closed |-> FALSE, since |-> 0, upto |-> 0, todo |-> {}, row |-> NoRow]

Fits(row) == row # NoRow /\ row.fits
Matching == [i \in Ids |-> IF Fits(db[i]) THEN db[i] ELSE NoRow]

Init ==
    /\ db = [i \in Ids |-> IF i \in Seeded THEN [ver |-> 0, fits |-> TRUE] ELSE NoRow]
    /\ seq = 0
    /\ log = {}
    /\ append = [w \in Writers |-> IdleAppend]
    /\ push = [w \in Writers |-> IdlePush]
    /\ sub = NoSub
    /\ conn = NoConn
    /\ wire = <<>>
    /\ client = [items |-> Nothing, lastSeq |-> 0]
    /\ writes = 0
    /\ drops = 0

-----------------------------------------------------------------------------
(* The changelog *)

AppendAt(w, pc) == append[w].pc = pc

AppendIncr(w) ==
    /\ AppendAt(w, "incr")
    /\ seq' = seq + 1
    /\ append' = [append EXCEPT ![w].pc = "insert", ![w].entry.seq = seq + 1]
    /\ UNCHANGED <<db, log, push, sub, conn, wire, client, writes, drops>>

AppendInsert(w) ==
    /\ AppendAt(w, "insert")
    /\ log' = log \cup {append[w].entry}
    /\ append' = [append EXCEPT ![w].pc = "count"]
    /\ UNCHANGED <<db, seq, push, sub, conn, wire, client, writes, drops>>

AppendCount(w) ==
    /\ AppendAt(w, "count")
    /\ LET excess == Cardinality(log) - MaxEntries IN
        append' = [append EXCEPT ![w] =
                      IF excess > 0 THEN [@ EXCEPT !.pc = "oldest", !.excess = excess]
                                    ELSE IdleAppend]
    /\ UNCHANGED <<db, seq, log, push, sub, conn, wire, client, writes, drops>>

\* A wrong trim: zrange from the other end.
Highest(n) == {e \in log : Cardinality({f \in log : f.seq > e.seq}) < n}

\* zrange(entries, 0, n - 1)
Lowest(n) == {e \in log : Cardinality({f \in log : f.seq < e.seq}) < n}

AppendOldest(w) ==
    /\ AppendAt(w, "oldest")
    /\ append' = [append EXCEPT ![w].pc = "trim", ![w].old = Lowest(append[w].excess)]
    /\ UNCHANGED <<db, seq, log, push, sub, conn, wire, client, writes, drops>>

AppendTrim(w) ==
    /\ AppendAt(w, "trim")
    /\ log' = log \ append[w].old
    /\ append' = [append EXCEPT ![w] = IdleAppend]
    /\ UNCHANGED <<db, seq, push, sub, conn, wire, client, writes, drops>>

AppendStep(w) == \/ AppendIncr(w) \/ AppendInsert(w) \/ AppendCount(w)
                 \/ AppendOldest(w) \/ AppendTrim(w)

MinAvailable == IF log = {} THEN seq ELSE Min({e.seq : e \in log})

\* A wrong gap check: trimmed entries are only noticed when nothing is left.
NoticesEmptyOnly(since) == since > 0 /\ log = {} /\ since < seq

NeedsInvalidation(since) == since > 0 /\ since < MinAvailable

EntriesSince(since) == {e \in log : e.seq > since}

-----------------------------------------------------------------------------
(* The stream *)

Frame(kind, n) == [kind |-> kind, seq |-> n]
RowFrame(kind, n, id, row) == [kind |-> kind, seq |-> n, id |-> id, row |-> row]

\* A wrong backpressure test, one frame too early.
FullEarly == Len(wire) >= MaxQueue - 1

Full == Len(wire) >= MaxQueue

\* A push that was under way for a subscription that is gone changes nothing more.
Forgotten == [w \in Writers |-> IF push[w].pc \in {"check", "mark", "send"} THEN IdlePush
                                                                          ELSE push[w]]

\* The next number of the subscription and sendEvent under the invalidate policy.
\* Once the stream has been handed out, closing it removes the subscription;
\* before that onClose has no handle yet and the subscription stays behind.
SendEvent(frame, nextConn, nextPush) ==
    LET closes == Full /\ ~ conn.closed
        torn   == closes /\ conn.pc = "open"
    IN /\ wire' = IF conn.closed THEN wire
                  ELSE Append(wire, IF Full THEN Frame("invalidate", 0) ELSE frame)
       /\ conn' = [nextConn EXCEPT !.closed = conn.closed \/ closes]
       /\ sub' = IF torn THEN NoSub ELSE [sub EXCEPT !.count = @ + 1]
       /\ push' = IF torn THEN [w \in Writers |-> IF nextPush[w].pc = "load" THEN nextPush[w]
                                                                           ELSE IdlePush]
                          ELSE nextPush

-----------------------------------------------------------------------------
(* Write requests *)

Quiet == \A w \in Writers : push[w].pc = "idle"
Appended == \A w \in Writers : append[w].pc = "idle"

\* The row is committed and the after-hook has run: from here on the changelog
\* append, which the handler does not await, and the push run side by side.
Write(w, kind, id) ==
    /\ push[w].pc = "idle" /\ append[w].pc = "idle"
    /\ writes < MaxWrites
    /\ "race" \in Hazards \/ (Quiet /\ conn.pc \in {"open", "down"})
    /\ kind = "create" <=> db[id] = NoRow
    /\ \E row \in IF kind = "delete" THEN {NoRow}
                  ELSE [ver : {writes + 1}, fits : BOOLEAN] :
        LET entry == [seq |-> 0, kind |-> kind, id |-> id, row |-> row] IN
        /\ db' = [db EXCEPT ![id] = row]
        /\ append' = [append EXCEPT ![w] = [IdleAppend EXCEPT !.pc = "incr", !.entry = entry]]
        /\ push' = [push EXCEPT ![w] = [pc |-> "load", entry |-> entry, was |-> FALSE]]
    /\ writes' = writes + 1
    /\ UNCHANGED <<seq, log, sub, conn, wire, client, drops>>

PushAt(w, pc) == push[w].pc = pc

\* hgetall of the resource's subscriptions; an insert that does not fit is done.
\* recordCreate/Update/Delete was called before: its incr was issued first, and
\* the store answers one caller's operations in order.
PushLoad(w) ==
    /\ PushAt(w, "load")
    /\ ~ AppendAt(w, "incr")
    /\ LET e == push[w].entry IN
        push' = [push EXCEPT ![w] =
                   IF ~ sub.stored \/ (e.kind = "create" /\ ~ Fits(e.row)) THEN IdlePush
                   ELSE [@ EXCEPT !.pc = IF e.kind = "create" THEN "mark" ELSE "check"]]
    /\ UNCHANGED <<db, seq, log, append, sub, conn, wire, client, writes, drops>>

\* isObjectRelevant, and which event the change is for this subscription.
PushCheck(w) ==
    /\ PushAt(w, "check")
    /\ LET was == push[w].entry.id \in sub.known
           is  == Fits(push[w].entry.row)
       IN push' = [push EXCEPT ![w] = IF ~ was /\ ~ is THEN IdlePush
                                      ELSE [@ EXCEPT !.was = was,
                                                     !.pc = IF was /\ is THEN "send" ELSE "mark"]]
    /\ UNCHANGED <<db, seq, log, append, sub, conn, wire, client, writes, drops>>

PushMark(w) ==
    /\ PushAt(w, "mark")
    /\ LET e == push[w].entry IN
        sub' = [sub EXCEPT !.known = IF Fits(e.row) THEN @ \cup {e.id} ELSE @ \ {e.id}]
    /\ push' = [push EXCEPT ![w].pc = "send"]
    /\ UNCHANGED <<db, seq, log, append, conn, wire, client, writes, drops>>

\* A wrong push: a row that leaves the filter is sent as a change.
PushAlways(e, was) ==
    RowFrame(IF was THEN "changed" ELSE "added", sub.count + 1, e.id, e.row)

PushFrame(e, was) ==
    IF ~ Fits(e.row) THEN RowFrame("removed", sub.count + 1, e.id, NoRow)
    ELSE RowFrame(IF was THEN "changed" ELSE "added", sub.count + 1, e.id, e.row)

PushSend(w) ==
    /\ PushAt(w, "send")
    /\ SendEvent(PushFrame(push[w].entry, push[w].was), conn, [push EXCEPT ![w] = IdlePush])
    /\ UNCHANGED <<db, seq, log, append, client, writes, drops>>

PushStep(w) == PushLoad(w) \/ PushCheck(w) \/ PushMark(w) \/ PushSend(w)

-----------------------------------------------------------------------------
(* startResourceSubscription *)

ConnAt(pc) == conn.pc = pc
Goto(pc) == [conn EXCEPT !.pc = pc]

\* The client connects, from its last sequence number if it has one.
Connect ==
    /\ ConnAt("down")
    /\ "race" \in Hazards \/ (Quiet /\ Appended)
    /\ conn' = [NoConn EXCEPT !.pc = "sequence", !.since = client.lastSeq]
    /\ UNCHANGED <<db, seq, log, append, push, sub, wire, client, writes, drops>>

ReadSequence ==
    /\ ConnAt("sequence")
    /\ conn' = [conn EXCEPT !.pc = "store", !.upto = seq]
    /\ wire' = <<Frame("connected", seq)>>
    /\ UNCHANGED <<db, seq, log, append, push, sub, client, writes, drops>>

StoreSub ==
    /\ ConnAt("store")
    /\ sub' = [NoSub EXCEPT !.stored = TRUE]
    /\ conn' = Goto("zero")
    /\ UNCHANGED <<db, seq, log, append, push, wire, client, writes, drops>>

\* Only now is the subscription's counter set to 0.
ZeroCount ==
    /\ ConnAt("zero")
    /\ sub' = [sub EXCEPT !.count = 0]
    /\ conn' = Goto(IF conn.since > 0 THEN "gap" ELSE "rows")
    /\ UNCHANGED <<db, seq, log, append, push, wire, client, writes, drops>>

CheckGap ==
    /\ ConnAt("gap")
    /\ conn' = Goto(IF NeedsInvalidation(conn.since) THEN "refuse" ELSE "entries")
    /\ UNCHANGED <<db, seq, log, append, push, sub, wire, client, writes, drops>>

Refuse ==
    /\ ConnAt("refuse")
    /\ SendEvent(Frame("invalidate", sub.count + 1), Goto("open"), push)
    /\ UNCHANGED <<db, seq, log, append, client, writes, drops>>

ReadEntries ==
    /\ ConnAt("entries")
    /\ LET todo == {e \in EntriesSince(conn.since) : e.seq <= conn.upto} IN
        conn' = [conn EXCEPT !.todo = todo, !.pc = IF todo = {} THEN "select" ELSE "replay"]
    /\ UNCHANGED <<db, seq, log, append, push, sub, wire, client, writes, drops>>

NextEntry == CHOOSE e \in conn.todo : \A f \in conn.todo : e.seq <= f.seq
AfterEntry == [conn EXCEPT !.todo = @ \ {NextEntry},
                           !.pc = IF conn.todo = {NextEntry} THEN "select" ELSE "replay"]

\* A delete, or an update that leaves the filter, is replayed as removed whether
\* or not the client holds the row.
ReplayFrame(e) ==
    IF ~ Fits(e.row) THEN RowFrame("removed", sub.count + 1, e.id, NoRow)
    ELSE RowFrame(IF e.kind = "create" THEN "added" ELSE "changed", sub.count + 1, e.id, e.row)

ReplayEntry ==
    /\ ConnAt("replay")
    /\ ~ (NextEntry.kind = "create" /\ ~ Fits(NextEntry.row))
    /\ SendEvent(ReplayFrame(NextEntry), AfterEntry, push)
    /\ UNCHANGED <<db, seq, log, append, client, writes, drops>>

\* A create that does not fit was never visible.
ReplayNothing ==
    /\ ConnAt("replay")
    /\ NextEntry.kind = "create" /\ ~ Fits(NextEntry.row)
    /\ conn' = AfterEntry
    /\ UNCHANGED <<db, seq, log, append, push, sub, wire, client, writes, drops>>

\* After a replay the matching ids are selected, then registered as known.
SelectIds ==
    /\ ConnAt("select")
    /\ conn' = [conn EXCEPT !.pc = "register", !.todo = {i \in Ids : Fits(db[i])}]
    /\ UNCHANGED <<db, seq, log, append, push, sub, wire, client, writes, drops>>

\* A wrong resume: the rows the client already holds are not registered.
RegisterNothing ==
    /\ ConnAt("register")
    /\ conn' = [conn EXCEPT !.pc = "open", !.todo = {}]
    /\ UNCHANGED <<db, seq, log, append, push, sub, wire, client, writes, drops>>

RegisterKnownIds ==
    /\ ConnAt("register")
    /\ sub' = [sub EXCEPT !.known = @ \cup conn.todo]
    /\ conn' = [conn EXCEPT !.pc = "open", !.todo = {}]
    /\ UNCHANGED <<db, seq, log, append, push, wire, client, writes, drops>>

\* A fresh start selects the matching rows and sends them one by one.
SelectRows ==
    /\ ConnAt("rows")
    /\ LET found == {[id |-> i, row |-> db[i]] : i \in {j \in Ids : Fits(db[j])}} IN
        conn' = [conn EXCEPT !.todo = found, !.pc = IF found = {} THEN "open" ELSE "track"]
    /\ UNCHANGED <<db, seq, log, append, push, sub, wire, client, writes, drops>>

TrackRow ==
    /\ ConnAt("track")
    /\ \E r \in conn.todo :
        /\ sub' = [sub EXCEPT !.known = @ \cup {r.id}]
        /\ conn' = [conn EXCEPT !.pc = "existing", !.row = r]
    /\ UNCHANGED <<db, seq, log, append, push, wire, client, writes, drops>>

SendExisting ==
    /\ ConnAt("existing")
    /\ SendEvent(RowFrame("existing", sub.count + 1, conn.row.id, conn.row.row),
                 [conn EXCEPT !.todo = @ \ {conn.row}, !.row = NoRow,
                              !.pc = IF conn.todo = {conn.row} THEN "open" ELSE "track"],
                 push)
    /\ UNCHANGED <<db, seq, log, append, client, writes, drops>>

SetupStep == \/ ReadSequence \/ StoreSub \/ ZeroCount \/ CheckGap \/ Refuse
             \/ ReadEntries \/ ReplayEntry \/ ReplayNothing \/ SelectIds
             \/ RegisterKnownIds \/ SelectRows \/ TrackRow \/ SendExisting

-----------------------------------------------------------------------------
(* The client *)

Hangup ==
    /\ conn' = NoConn
    /\ wire' = <<>>
    /\ sub' = NoSub
    /\ push' = Forgotten

\* What an invalidate leaves of the client's state.
Reset == [items |-> Nothing, lastSeq |-> 0]

\* The response, and with it the first frame, reaches the client when the set-up
\* is done.
Receive ==
    /\ ConnAt("open")
    /\ wire # <<>>
    /\ LET f == Head(wire)
           position == IF f.seq > client.lastSeq THEN f.seq ELSE client.lastSeq
       IN \/ /\ f.kind = "connected"
             /\ client' = [client EXCEPT !.lastSeq = f.seq]
             /\ wire' = Tail(wire)
             /\ UNCHANGED <<conn, sub, push>>
          \/ /\ f.kind \in {"existing", "added", "changed", "removed"}
             /\ client' = [items |-> [client.items EXCEPT ![f.id] = f.row], lastSeq |-> position]
             /\ wire' = Tail(wire)
             /\ UNCHANGED <<conn, sub, push>>
          \/ /\ f.kind = "invalidate"
             /\ client' = Reset
             /\ Hangup
    /\ UNCHANGED <<db, seq, log, append, writes, drops>>

\* The connection breaks; the client keeps its rows and its position.
Drop ==
    /\ conn.pc # "down"
    /\ drops < MaxDrops
    /\ "lose" \in Hazards \/ (ConnAt("open") /\ wire = <<>>)
    /\ Hangup
    /\ drops' = drops + 1
    /\ UNCHANGED <<db, seq, log, append, client, writes>>

-----------------------------------------------------------------------------
Next ==
    \/ \E w \in Writers : AppendStep(w) \/ PushStep(w)
    \/ \E w \in Writers, kind \in Kinds, id \in Ids : Write(w, kind, id)
    \/ Connect \/ SetupStep \/ Receive \/ Drop

\* The store and the database answer, a waiting frame is read, and the client
\* reconnects; nobody has to write, and the connection need not break.
Fairness ==
    /\ \A w \in Writers : WF_vars(AppendStep(w)) /\ WF_vars(PushStep(w))
    /\ WF_vars(Connect) /\ WF_vars(SetupStep) /\ WF_vars(Receive)

Spec == Init /\ [][Next]_vars /\ Fairness

-----------------------------------------------------------------------------
(* Properties *)

\* Everything committed has been logged, pushed and read.
Settled ==
    /\ Quiet /\ Appended
    /\ ConnAt("open") /\ ~ conn.closed /\ wire = <<>>

\* When nothing is on its way any more the client holds exactly the rows that fit
\* its filter, in their latest version, however it was connected before: by a
\* fresh snapshot, by live events, by a replay of the changelog or by an
\* invalidate in between.
ClientMirrors == Settled => client.items = Matching

\* The ids the server tracks for the subscription are those the client holds: a
\* later event is classified as added, changed or removed by them.
KnownIsHeld == Settled => sub.known = {i \in Ids : client.items[i] # NoRow}

\* When no append is under way the changelog is a gap-free suffix of the sequence
\* no longer than its bound, although two appends may overlap and trim by what
\* they read.  (Of three, two may trim an entry too many each while the third has
\* still to insert below: the suffix then has a hole.)
WindowContiguous ==
    Appended => /\ Cardinality(log) <= MaxEntries
                /\ \A e \in log : \A n \in e.seq..seq : \E f \in log : f.seq = n

\* A resume that passed the gap check finds in the changelog every entry between
\* the client's position and the sequence it was told.
ReplayComplete ==
    ConnAt("entries") =>
        \A n \in (conn.since + 1)..conn.upto : \E e \in log : e.seq = n

\* Once writes and breaks are over, the connection comes to rest: no client is
\* sent round from invalidate to reconnect to invalidate.
Settles == <>[]Settled

\* A connection that resumed has been sent every change it missed.
CatchupDelivered == Settled /\ conn.since > 0 => client.items = Matching

\* A change numbered after the sequence a resume replays up to is delivered live.
LiveAfterUpto ==
    Settled /\ conn.since > 0 =>
        \A e \in log : e.seq > conn.upto /\ Fits(e.row) /\ db[e.id] = e.row
                        => client.items[e.id] = e.row

\* A client that starts from nothing ends with all the matching rows.
FreshStart == <>[](Settled /\ client.items = Matching)
=============================================================================
