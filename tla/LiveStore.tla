------------------------------ MODULE LiveStore ------------------------------
(***************************************************************************)
(* The client's live query (src/src/client/live-store.ts) without an       *)
(* offline manager: a cache that is filled by list requests, kept up to    *)
(* date by the events of a subscription, and written ahead by the          *)
(* application's own mutations, whose answers race with the events.        *)
(*                                                                         *)
(* A row has one field. The subscription is as LiveFeed describes it for   *)
(* one client: every event once and in order, an invalidate when the       *)
(* client was away for too long.                                           *)
(***************************************************************************)
EXTENDS Integers, FiniteSets, Sequences

CONSTANTS
    StoreModes,     \* "live", or "strict" when the query has a limit
    Limit,          \* options.limit
    StartRows,         \* rows there are at the start
    MaxRows, MaxCreates, MaxMutations, MaxOthers,   \* bounds: rows, own creates, own and others' writes
    MaxIncidents    \* bound: lost connections, failed mutations and lists after the first

ASSUME LiveStoreAssumption ==
    /\ StoreModes \subseteq {"live", "strict"}
    /\ Limit \in Nat \ {0} /\ StartRows \in 0..MaxRows
    /\ {MaxRows, MaxCreates, MaxMutations, MaxOthers, MaxIncidents} \subseteq Nat

VARIABLES
    mode,
    rows,       \* the server's table
    stream,     \* events on their way to the store
    feed,       \* the subscription: "none", "opening", "on", or "lost" with an invalidate on its way
    ops,        \* the store's mutations on their way
    list,       \* the list request on its way
    view        \* what createLiveQuery keeps

VARIABLES
    astray,     \* rows the store may show wrongly until their next event
    drifted,    \* whether totalCount may be wrong until the next quiet refresh
    failed,     \* optimistic rows that stay: their create failed, or its answer came too late
    count       \* of each bounded step

storeVars == <<mode, rows, stream, feed, ops, list, view, astray, drifted, failed, count>>

\* Server ids are positive and never used again; optimistic ids are negative. 0 is no value.
RowIds == 1..MaxRows
Shadows == {-n : n \in 1..MaxCreates}
Entries == RowIds \cup Shadows
Values == Nat
Uncounted == -1

Steps == {"row", "create", "mutation", "other", "incident", "value"}
Bounds == [row |-> MaxRows, create |-> MaxCreates, mutation |-> MaxMutations, other |-> MaxOthers,
           incident |-> MaxIncidents]
May(step) == count[step] < Bounds[step]
Counting(some) == count' = [s \in Steps |-> IF s \in some THEN count[s] + 1 ELSE count[s]]
NewValue == count["value"] + 1

NoList == [pc |-> "none", more |-> FALSE, page |-> [i \in RowIds |-> 0], total |-> 0, cursor |-> 0]
Asked(more) == [NoList EXCEPT !.pc = "asked", !.more = more]

LiveStoreTypeOK ==
    /\ mode \in StoreModes /\ rows \in [RowIds -> Values] /\ feed \in {"none", "opening", "on", "lost"}
    /\ \A i \in DOMAIN stream : stream[i].kind \in {"added", "changed", "removed", "invalidate"}
    /\ \A op \in ops : op.kind \in {"create", "update", "delete"} /\ op.id \in Entries /\ op.row \in RowIds \cup {0}
    /\ list.pc \in {"none", "asked", "read"} /\ list.page \in [RowIds -> Values]
    /\ view.cache \in [Entries -> Values] /\ view.updating \in [Entries -> Values]
    /\ view.optimistic \subseteq Shadows /\ view.deleting \subseteq Entries
    /\ view.remote \in [RowIds -> Values] /\ view.mapped \in [Shadows -> RowIds \cup {0}]
    /\ view.total \in Nat \cup {Uncounted} /\ view.cursor \in RowIds \cup {0}
    /\ astray \subseteq RowIds /\ drifted \in BOOLEAN /\ failed \subseteq Shadows

LiveStoreInit ==
    /\ mode \in StoreModes
    /\ rows = [i \in RowIds |-> IF i <= StartRows THEN i ELSE 0]
    /\ stream = <<>> /\ feed = "none" /\ ops = {}
    /\ list = Asked(FALSE)
    /\ view = [cache |-> [k \in Entries |-> 0], optimistic |-> {}, deleting |-> {},
               updating |-> [k \in Entries |-> 0], remote |-> [i \in RowIds |-> 0],
               mapped |-> [o \in Shadows |-> 0], total |-> Uncounted, cursor |-> 0]
    /\ astray = {} /\ drifted = FALSE /\ failed = {}
    /\ count = [s \in Steps |-> IF s \in {"row", "value"} THEN StartRows ELSE 0]

-----------------------------------------------------------------------------
(* The handlers of the store: the view after each of them *)

Bump(total, by) == IF total = Uncounted THEN Uncounted ELSE IF total + by < 0 THEN 0 ELSE total + by

\* The optimistic rows that stand for a row.
StandIns(v, id) == {o \in Shadows : v.mapped[o] = id /\ v.cache[o] # 0}

Overlaid(v, key, value) == IF v.updating[key] # 0 THEN v.updating[key] ELSE value

\* Mutant of HandleAdd: the answer of a create leaves the optimistic row where it is.
HandleAddBeside(v, id, value, optimistic) ==
    IF \/ id \in v.deleting
       \/ optimistic = 0 /\ mode = "strict"
    THEN v
    ELSE [v EXCEPT !.deleting = @ \ {optimistic}, !.cache[id] = Overlaid(v, id, value),
                   !.total = Bump(@, IF v.cache[id] = 0 THEN 1 ELSE 0)]

\* optimistic is 0 when the event, or the answer, has none.
HandleAdd(v, id, value, optimistic) ==
    LET reconciles == optimistic \in v.optimistic
        u == IF ~reconciles THEN v
             ELSE [v EXCEPT !.cache[optimistic] = 0, !.optimistic = @ \ {optimistic}, !.mapped[optimistic] = id,
                            !.updating = IF v.updating[optimistic] = 0 THEN @
                                         ELSE [v.updating EXCEPT ![optimistic] = 0, ![id] = v.updating[optimistic]]]
        old == StandIns(u, id)
        new == ~reconciles /\ old = {} /\ v.cache[id] = 0
    IN IF \/ id \in v.deleting
          \/ optimistic = 0 /\ mode = "strict"
       THEN v
       ELSE [u EXCEPT !.deleting = @ \ {optimistic},
                      !.cache = [k \in Entries |-> IF k = id THEN Overlaid(u, id, value)
                                                   ELSE IF k \in old THEN 0 ELSE u.cache[k]],
                      !.total = Bump(@, IF new THEN 1 ELSE 0)]

HandleChange(v, id, value) ==
    IF mode = "strict" /\ v.cache[id] = 0 /\ StandIns(v, id) = {}
    THEN [v EXCEPT !.remote[id] = value]
    ELSE [v EXCEPT !.cache = [k \in Entries |-> IF k = id THEN value ELSE IF k \in StandIns(v, id) THEN 0 ELSE v.cache[k]],
                   !.optimistic = @ \ StandIns(v, id)]

HandleRemove(v, id) ==
    [v EXCEPT !.total = Bump(@, IF v.cache[id] # 0 THEN -1 ELSE 0), !.cache[id] = 0, !.deleting = @ \ {id}]

\* refresh, when its answer is here.
Refreshed(v) ==
    LET mine(id) == {o \in Shadows : v.mapped[o] = id}
        hidden(id) == (mine(id) \cup {id}) \cap v.deleting # {}
        shown(id) == IF list.page[id] = 0 \/ hidden(id) THEN 0
                     ELSE LET over == {o \in mine(id) : v.updating[o] # 0}
                          IN IF over # {} THEN v.updating[CHOOSE o \in over : TRUE] ELSE Overlaid(v, id, list.page[id])
    IN [v EXCEPT !.cache = [k \in Entries |-> IF k \in RowIds THEN shown(k)
                                              ELSE IF k \in v.optimistic \ v.deleting THEN v.cache[k] ELSE 0],
                 !.total = list.total, !.cursor = list.cursor]

\* loadMore, when its answer is here.
Loaded(v) ==
    LET taken == {id \in RowIds : list.page[id] # 0 /\ id \notin v.deleting}
    IN [v EXCEPT !.cache = [k \in Entries |->
                     IF k \notin taken THEN v.cache[k]
                     ELSE IF v.remote[k] # 0 THEN v.remote[k] ELSE Overlaid(v, k, list.page[k])],
                 !.remote = [id \in RowIds |-> IF id \in taken THEN 0 ELSE v.remote[id]],
                 !.cursor = list.cursor]

-----------------------------------------------------------------------------
(* The server *)

\* An event of a write, when there is a subscription.
Push(kind, id, value) ==
    IF feed = "on"
    THEN stream' = Append(stream, [kind |-> kind, id |-> id, value |-> value]) /\ UNCHANGED <<astray, drifted>>
    ELSE stream' = stream /\ astray' = astray \cup {id} /\ drifted' = TRUE

\* The lowest ids first, Limit of them when the query has a limit.
PageAfter(cursor) ==
    LET all == {id \in RowIds : rows[id] # 0 /\ id > cursor}
        ids == IF mode = "live" THEN all ELSE {id \in all : Cardinality({x \in all : x < id}) < Limit}
    IN [pc |-> "read", more |-> list.more, total |-> Cardinality({id \in RowIds : rows[id] # 0}),
        page |-> [id \in RowIds |-> IF id \in ids THEN rows[id] ELSE 0],
        cursor |-> IF ids = all THEN 0 ELSE CHOOSE id \in ids : \A x \in ids : x <= id]

ListRead ==
    /\ list.pc = "asked"
    /\ list' = PageAfter(IF list.more THEN view.cursor ELSE 0)
    \* A change kept for a later page outlives the refresh.
    /\ astray' = IF list.more THEN astray ELSE {id \in astray : view.remote[id] # 0}
    /\ drifted' = (drifted /\ list.more)
    /\ UNCHANGED <<mode, rows, stream, feed, ops, view, failed, count>>

Subscribe ==
    /\ feed = "opening"
    /\ feed' = "on"
    /\ UNCHANGED <<mode, rows, stream, ops, list, view, astray, drifted, failed, count>>

ServerWrite(op) ==
    /\ op.row = 0
    /\ CASE op.kind = "create" ->
              /\ May("row") /\ Counting({"row"})
              /\ LET id == count["row"] + 1 IN
                 /\ rows' = [rows EXCEPT ![id] = op.value]
                 /\ Push("added", id, op.value)
                 /\ ops' = (ops \ {op}) \cup {[op EXCEPT !.row = id]}
         [] op.kind # "create" /\ op.id \in RowIds /\ rows[op.id] # 0 ->
              /\ rows' = [rows EXCEPT ![op.id] = IF op.kind = "update" THEN op.value ELSE 0]
              /\ Push(IF op.kind = "update" THEN "changed" ELSE "removed", op.id, op.value)
              /\ ops' = ops \ {op} /\ count' = count
         [] OTHER ->
              /\ ops' = ops \ {op} /\ UNCHANGED <<rows, stream, astray, drifted, count>>
    /\ UNCHANGED <<mode, feed, list, view, failed>>

\* Nothing of the store is undone when a mutation fails.
Fail(op) ==
    /\ op.row = 0 /\ May("incident") /\ Counting({"incident"})
    /\ ops' = ops \ {op}
    /\ failed' = IF op.kind = "create" THEN failed \cup {op.id} ELSE failed
    /\ astray' = IF op.kind = "update" /\ op.id \in RowIds THEN astray \cup {op.id} ELSE astray
    /\ drifted' = (drifted \/ op.kind # "update")
    /\ UNCHANGED <<mode, rows, stream, feed, list, view>>

\* Another client's writes.
OtherWrite ==
    /\ May("other")
    /\ \/ /\ May("row") /\ Counting({"other", "row", "value"})
          /\ LET id == count["row"] + 1 IN rows' = [rows EXCEPT ![id] = NewValue] /\ Push("added", id, NewValue)
       \/ /\ Counting({"other", "value"})
          /\ \E id \in RowIds : rows[id] # 0 /\ rows' = [rows EXCEPT ![id] = NewValue] /\ Push("changed", id, NewValue)
       \/ /\ Counting({"other"})
          /\ \E id \in RowIds : rows[id] # 0 /\ rows' = [rows EXCEPT ![id] = 0] /\ Push("removed", id, 0)
    /\ UNCHANGED <<mode, feed, ops, list, view, failed>>

\* The connection is lost for longer than the changelog reaches back.
Gap ==
    /\ feed = "on" /\ May("incident") /\ Counting({"incident"})
    /\ feed' = "lost"
    /\ stream' = <<[kind |-> "invalidate", id |-> 0, value |-> 0]>>
    /\ astray' = astray \cup {stream[i].id : i \in DOMAIN stream} \cup {id \in RowIds : view.remote[id] # 0}
    /\ drifted' = (drifted \/ stream # <<>>)
    /\ UNCHANGED <<mode, rows, ops, list, view, failed>>
-----------------------------------------------------------------------------
(* What reaches the store *)

Later(id) == \E i \in DOMAIN stream : stream[i].id = id

Hidden(id) == ({o \in Shadows : view.mapped[o] = id} \cup {id}) \cap view.deleting # {}

\* refresh, or loadMore, goes on. A failed list request changes no row, and is left out.
ListAnswer ==
    LET v == IF list.more THEN Loaded(view) ELSE Refreshed(view)
        \* A change that was kept is newer than the page, unless the row has been in the cache since.
        fromEvent(id) == list.more /\ view.remote[id] # 0 /\ (view.remote[id] = rows[id] \/ Later(id))
        other == {id \in RowIds : list.page[id] # 0 /\ v.cache[id] \notin {0, list.page[id]} /\ ~fromEvent(id)}
    IN
    /\ list.pc = "read"
    /\ view' = v
    /\ list' = NoList
    /\ feed' = IF feed = "none" THEN "opening" ELSE feed
    /\ astray' = astray \cup other
    /\ drifted' = (\/ drifted
                   \/ ~list.more /\ (ops # {} \/ \E id \in RowIds : list.page[id] # 0 /\ Hidden(id)))
    /\ UNCHANGED <<mode, rows, stream, ops, failed, count>>

\* The next event of a row. The request header that gives an added event its
\* optimisticId is sent by an offline manager only.
Deliver ==
    /\ stream # <<>> /\ Head(stream).kind # "invalidate"
    /\ LET e == Head(stream)
           value == IF e.kind = "removed" THEN 0 ELSE e.value
           v == CASE e.kind = "added" -> HandleAdd(view, e.id, value, 0)
                  [] e.kind = "changed" -> HandleChange(view, e.id, value)
                  [] e.kind = "removed" -> HandleRemove(view, e.id)
           \* The answer of a list that was read before this write will hide it.
           lost == /\ list.pc = "read" /\ list.page[e.id] # value
                   /\ list.more => list.page[e.id] # 0 /\ (value = 0 \/ v.remote[e.id] # value)
           wrong == lost \/ v.cache[e.id] \notin {0, value}
           uncounted == \/ e.kind = "added" /\ \E op \in ops : op.row = e.id
                        \/ e.kind = "changed" /\ view.cache[e.id] = 0
                        \/ e.kind = "removed" /\ view.cache[e.id] = 0 /\ e.id \notin view.deleting
       IN /\ view' = v
          /\ astray' = IF wrong THEN astray \cup {e.id} ELSE astray \ {e.id}
          /\ drifted' = (drifted \/ wrong \/ uncounted)
    /\ stream' = Tail(stream)
    /\ UNCHANGED <<mode, rows, feed, ops, list, failed, count>>

\* handleInvalidate asks for a list, and the subscription manager connects again. Bound: when no list is under way.
Invalidate ==
    /\ stream # <<>> /\ Head(stream).kind = "invalidate" /\ list.pc = "none"
    /\ list' = Asked(FALSE)
    /\ feed' = "opening"
    /\ stream' = Tail(stream)
    /\ UNCHANGED <<mode, rows, ops, view, astray, drifted, failed, count>>

\* The answer of a create. When the application has deleted the row since its event, the optimistic row stays.
Answer(op) ==
    LET v == HandleAdd(view, op.row, op.value, op.id)
        wrong == \/ rows[op.row] # op.value /\ ~Later(op.row)
                 \/ v.cache[op.row] \notin {0, op.value}
    IN
    /\ op.row # 0
    /\ view' = v
    /\ ops' = ops \ {op}
    /\ astray' = IF wrong THEN astray \cup {op.row} ELSE astray
    /\ drifted' = (drifted \/ wrong)
    /\ failed' = IF op.row \in view.deleting THEN failed \cup {op.id} ELSE failed
    /\ UNCHANGED <<mode, rows, stream, feed, list, count>>

-----------------------------------------------------------------------------
(* What the application calls: mutate, refresh, loadMore *)

Submit(kind, key) == ops' = ops \cup {[kind |-> kind, id |-> key, value |-> NewValue, row |-> 0]}

\* The application knows a row by its id, or by the optimistic id it was given.
Addressed(key) == view.cache[key] # 0 \/ (key \in Shadows /\ view.mapped[key] # 0)

MutateCreate ==
    LET key == -(count["create"] + 1) IN
    /\ May("create") /\ Counting({"create", "value"})
    /\ view' = [view EXCEPT !.optimistic = @ \cup {key}, !.cache[key] = NewValue, !.total = Bump(@, 1)]
    /\ Submit("create", key)
    /\ UNCHANGED <<mode, rows, stream, feed, list, astray, drifted, failed>>

MutateUpdate(key) ==
    /\ Addressed(key) /\ May("mutation") /\ Counting({"mutation", "value"})
    /\ view' = [view EXCEPT !.cache[key] = IF @ = 0 THEN 0 ELSE NewValue, !.updating[key] = NewValue]
    /\ Submit("update", key)
    /\ UNCHANGED <<mode, rows, stream, feed, list, astray, drifted, failed>>

MutateDelete(key) ==
    /\ Addressed(key) /\ May("mutation") /\ Counting({"mutation"})
    /\ view' = [view EXCEPT !.total = Bump(@, IF view.cache[key] # 0 THEN -1 ELSE 0), !.cache[key] = 0,
                            !.optimistic = @ \ {key}, !.deleting = @ \cup {key}]
    /\ Submit("delete", key)
    /\ drifted' = (drifted \/ key \in failed)
    /\ UNCHANGED <<mode, rows, stream, feed, list, astray, failed>>

Refresh ==
    /\ list.pc = "none" /\ May("incident") /\ Counting({"incident"})
    /\ list' = Asked(FALSE)
    /\ UNCHANGED <<mode, rows, stream, feed, ops, view, astray, drifted, failed>>

LoadMore ==
    /\ list.pc = "none" /\ view.cursor # 0 /\ May("incident") /\ Counting({"incident"})
    /\ list' = Asked(TRUE)
    /\ UNCHANGED <<mode, rows, stream, feed, ops, view, astray, drifted, failed>>

LiveStoreNext ==
    \/ ListRead \/ Subscribe \/ OtherWrite \/ Gap
    \/ \E op \in ops : ServerWrite(op) \/ Fail(op) \/ Answer(op)
    \/ ListAnswer \/ Deliver \/ Invalidate
    \/ MutateCreate \/ Refresh \/ LoadMore
    \/ \E key \in Entries : MutateUpdate(key) \/ MutateDelete(key)
LiveStoreSpec == LiveStoreInit /\ [][LiveStoreNext]_storeVars

-----------------------------------------------------------------------------
(* Properties *)

AtRest == feed = "on" /\ stream = <<>> /\ list.pc = "none" /\ ops = {}

\* When nothing is on its way, the store shows the server's rows. What may
\* differ is a row whose last event an older answer, or a mutation that is
\* still held to be pending, has hidden (astray), and a row deleted here.
RowsShown ==
    \A id \in RowIds \ astray :
        view.cache[id] = rows[id] \/ (view.cache[id] = 0 /\ (mode = "strict" \/ Hidden(id)))

\* The comment in mutate.create: "so the optimistic entry is replaced instead of left as a duplicate".
NoDuplicate == \A o \in Shadows : view.cache[o] # 0 => o \in failed

\* The comment at bumpTotal: the total keeps in sync with live changes, and a refresh heals it.
TotalRight == mode = "live" /\ ~drifted => view.total = Cardinality({id \in RowIds : rows[id] # 0})

StoreSettled == AtRest => RowsShown /\ NoDuplicate /\ TotalRight
=============================================================================
