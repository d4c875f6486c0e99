---------------------------- MODULE OfflineQueue ----------------------------
(***************************************************************************)
(* The client's offline queue (src/src/client/offline.ts, tab-sync.ts and  *)
(* the optimistic writes of repository.ts) against a server behind the     *)
(* idempotency middleware (src/src/middleware/idempotency.ts).             *)
(*                                                                         *)
(* A write is first sent as it is; if that fails it is queued in           *)
(* localStorage, and the tab that holds the leadership sends the queue,    *)
(* one mutation after the other. Requests and answers get lost, pages are  *)
(* reloaded, tabs compete.                                                 *)
(*                                                                         *)
(* localStorage answers at once: whatever a tab does between two answers   *)
(* from the network is one step.                                           *)
(***************************************************************************)
EXTENDS Integers, FiniteSets, SequencesExt

CONSTANTS
    Tabs,
    Objects,        \* what the writes are about
    Existing,       \* those the server has from the start
    Plans,          \* bound: sets of writes the user may make
    MaxRetries,     \* config.maxRetries
    Resolutions,    \* what handleConflict may return
    Nobody,         \* no leader; no key
    Gone,           \* a page that was closed and left its lock behind
    MaxFaults       \* bound: messages lost, pages reloaded, outages, leaders frozen

Writes == UNION Plans
\* The optimistic id of an object that is created carries no number; its rows on the server do.
Ids == Objects \X Nat
Strategies == {"discard", "retry", "resolve"}

ASSUME OfflineAssumption ==
    /\ Existing \subseteq Objects
    /\ \A w \in Writes :
          /\ w.tab \in Tabs /\ w.obj \in Objects /\ w.kind \in {"create", "update", "delete"}
          /\ w.contested \in BOOLEAN
          /\ w.kind = "create" => w.obj \notin Existing
    /\ Resolutions \subseteq Strategies
    /\ MaxRetries \in Nat \ {0}
    /\ MaxFaults \in Nat
    /\ Nobody \notin Tabs /\ Gone \notin Tabs /\ Nobody # Gone

VARIABLES
    todo,       \* writes the user has yet to make
    direct,     \* writes whose first request is under way
    queue,      \* the stored mutations, by timestamp
    tab,        \* each tab's isOnline, idMappings and the list its sync works on
    posts,      \* id-remapped messages on their way to other tabs
    leader,     \* the holder of the leader lock
    wire,       \* requests on their way, at the server or answered
    live, made, \* the server's rows, and how often each object was created
    applied,    \* writes that took effect there
    keyed,      \* whether the middleware looks at the header the client sends
    cache,      \* answers it remembers
    saving      \* answers it has yet to store

client == <<todo, direct, queue, tab, posts, leader>>
server == <<live, made, applied, keyed, cache, saving>>

VARIABLES losses, reloads, lapses,
    issued,     \* writes the user has made
    excused,    \* writes that were still in a page's memory, or merged into what was being sent
    sends,      \* how often each mutation was sent by a sync
    unsure      \* creates given up whose answer the server will not repeat

faults == <<losses, reloads, lapses>>
ghosts == <<issued, excused, sends, unsure>>
offlineVars == <<client, wire, server, faults, ghosts>>

-----------------------------------------------------------------------------
(* Types *)

None == [ok |-> FALSE, why |-> "none", n |-> 0]
Answers == [ok : BOOLEAN, why : {"none", "missing", "conflict"}, n : Nat]
\* The key of the first request, of the stored mutation, and of each version a conflict made.
Directly == -1
Keys == [write : Writes, of : -1..MaxRetries] \cup {Nobody}
Mutations == [write : Writes, edits : SUBSET Writes, retry : 0..MaxRetries,
              status : {"pending", "processing", "failed"}, key : Keys]
Requests == [tab : Tabs, waits : BOOLEAN, direct : BOOLEAN, write : Writes, edits : SUBSET Writes,
             target : Ids, key : Keys, attempt : 0..MaxRetries,
             stage : {"sent", "running", "answered"}, answer : Answers]

OfflineTypeOK ==
    /\ todo \subseteq Writes /\ direct \subseteq Writes
    /\ queue \in Seq(Mutations)
    /\ \A i, j \in 1..Len(queue) : queue[i].write = queue[j].write => i = j
    /\ DOMAIN tab = Tabs
    /\ \A t \in Tabs : /\ tab[t].online \in BOOLEAN /\ tab[t].ids \in [Objects -> Nat]
                       /\ tab[t].list \in Seq(Mutations)
    /\ posts \subseteq [to : Tabs, obj : Objects, n : Nat]
    /\ leader \in Tabs \cup {Nobody, Gone}
    /\ wire \subseteq Requests
    /\ live \subseteq Ids /\ made \in [Objects -> Nat] /\ applied \subseteq Writes
    /\ keyed \in BOOLEAN
    /\ cache \subseteq [key : Keys, answer : Answers] /\ saving \subseteq [key : Keys, answer : Answers]
    /\ issued \subseteq Writes /\ excused \subseteq Writes /\ sends \in [Writes -> Nat] /\ unsure \in [Objects -> Nat]

Closed == [online |-> TRUE, ids |-> [o \in Objects |-> 0], list |-> <<>>]

OfflineInit ==
    /\ todo \in Plans
    /\ direct = {} /\ queue = <<>> /\ posts = {} /\ leader = Nobody
    /\ tab = [t \in Tabs |-> Closed]
    /\ wire = {}
    /\ live = Existing \X {0} /\ made = [o \in Objects |-> 0] /\ applied = {}
    \* Creates alone carry a key.
    /\ keyed \in {FALSE, \E w \in todo : w.kind = "create"}
    /\ cache = {} /\ saving = {}
    /\ losses = 0 /\ reloads = 0 /\ lapses = 0
    /\ issued = {} /\ excused = {} /\ sends = [w \in Writes |-> 0] /\ unsure = [o \in Objects |-> 0]

-----------------------------------------------------------------------------
(* The queue *)

Sendable(m) == m.status \in {"pending", "failed"} /\ m.retry < MaxRetries
\* The mutations at the positions in S, in their order (filter, without recursion).
Nth(S, n) == CHOOSE i \in S : Cardinality({j \in S : j <= i}) = n
Filtered(q, S) == [n \in 1..Cardinality(S) |-> q[Nth(S, n)]]
Waiting(q) == Filtered(q, {i \in DOMAIN q : Sendable(q[i])})
Without(w) == Filtered(queue, {i \in DOMAIN queue : queue[i].write # w})
\* updateMutation with a new status, with a status and the number of retries, or with a version
\* made of a conflict. Nothing happens to a mutation that is no longer stored.
Processing(q, w) ==
    [i \in DOMAIN q |-> IF q[i].write = w THEN [q[i] EXCEPT !.status = "processing"] ELSE q[i]]
Retrying(q, w, status, retry) ==
    [i \in DOMAIN q |-> IF q[i].write = w THEN [q[i] EXCEPT !.status = status, !.retry = retry] ELSE q[i]]
Versioned(q, w, m) == [i \in DOMAIN q |-> IF q[i].write = w THEN m ELSE q[i]]

NewMutation(w) == [write |-> w, edits |-> {w}, retry |-> 0, status |-> "pending",
                   key |-> [write |-> w, of |-> 0]]

\* findMergeableMutation: the first stored mutation that is not being sent, of the same kind
\* and object, and recent enough; time is the number of those that are too old.
Mergeable(w, time) ==
    {i \in (time + 1)..Len(queue) :
        /\ queue[i].status \in {"pending", "failed"}
        /\ queue[i].write.kind = w.kind /\ queue[i].write.obj = w.obj
        /\ w.kind = "create" => queue[i].write = w}

\* Mutants of Merged: the stored edits are replaced; the old mutation stays beside the merged one.
MergedLosing(i, w) == ReplaceAt(queue, i, [queue[i] EXCEPT !.edits = {w}])
MergedTwice(i, w) == Append(queue, [queue[i] EXCEPT !.edits = @ \cup {w}])

\* A merged update takes its time, and so its place, from the newest one.
Merged(i, w) ==
    LET m == [queue[i] EXCEPT !.edits = @ \cup {w}] IN
    IF w.kind = "update" THEN Append(RemoveAt(queue, i), m) ELSE ReplaceAt(queue, i, m)

\* Mutant of Request: every attempt has a key of its own.
RequestRekeyed(t, m, ids) ==
    [tab |-> t, waits |-> TRUE, direct |-> FALSE, write |-> m.write, edits |-> m.edits,
     target |-> <<m.write.obj, IF m.write.kind = "create" THEN 0 ELSE ids[m.write.obj]>>,
     key |-> IF m.write.kind = "create" THEN [m.key EXCEPT !.of = m.retry] ELSE Nobody,
     attempt |-> m.retry, stage |-> "sent", answer |-> None]

Request(t, m, ids) ==
    [tab |-> t, waits |-> TRUE, direct |-> FALSE, write |-> m.write, edits |-> m.edits,
     target |-> <<m.write.obj, IF m.write.kind = "create" THEN 0 ELSE ids[m.write.obj]>>,
     key |-> IF m.write.kind = "create" THEN m.key ELSE Nobody,
     attempt |-> m.retry, stage |-> "sent", answer |-> None]

\* The loop of syncPendingMutations comes to its next mutation, or ends.
Send(t, state, q, w) ==
    IF state.list = <<>>
    THEN /\ tab' = [tab EXCEPT ![t] = state]
         /\ queue' = q /\ wire' = w
         /\ UNCHANGED sends
    ELSE LET m == Head(state.list) IN
         /\ tab' = [tab EXCEPT ![t] = state]
         /\ queue' = Processing(q, m.write)
         /\ wire' = w \cup {Request(t, m, state.ids)}
         /\ sends' = [sends EXCEPT ![m.write] = @ + 1]

\* Mutant of Leads: the lock of another tab is not looked at.
LeadsAlways(t) == TRUE

Leads(t) == leader \in {t, Nobody}

\* syncPendingMutations of tab t, which is in the given state, over the queue q.
Sync(t, state, q, w) ==
    IF state.list = <<>> /\ state.online /\ Leads(t)
    THEN /\ leader' = t
         /\ Send(t, [state EXCEPT !.list = Waiting(q)], q, w)
    ELSE /\ tab' = [tab EXCEPT ![t] = state]
         /\ queue' = q /\ wire' = w
         /\ UNCHANGED <<leader, sends>>

\* queueMutation, after the first request of w failed.
Enqueue(t, w, wires) ==
    /\ direct' = direct \ {w}
    /\ \E time \in 0..Len(queue) :
          LET found == Mergeable(w, time) IN
          IF found = {}
          THEN /\ Sync(t, tab[t], Append(queue, NewMutation(w)), wires)
               /\ UNCHANGED excused
          ELSE LET i == Min(found) IN
               /\ queue' = Merged(i, w)
               /\ wire' = wires
               /\ excused' = IF \E u \in Tabs : \E m \in ToSet(tab[u].list) :
                                    m.write = queue[i].write
                             THEN excused \cup {w} ELSE excused
               /\ UNCHANGED <<tab, leader, sends>>

-----------------------------------------------------------------------------
(* The client *)

\* create, update or delete of a repository: the first request.
Make(w) ==
    /\ w \in todo
    /\ todo' = todo \ {w}
    /\ direct' = direct \cup {w}
    /\ wire' = wire \cup
          {[Request(w.tab, NewMutation(w), tab[w.tab].ids) EXCEPT
               !.direct = TRUE, !.key = IF w.kind = "create" THEN [write |-> w, of |-> Directly]
                                        ELSE Nobody]}
    /\ issued' = issued \cup {w}
    /\ UNCHANGED <<queue, tab, posts, leader, server, faults, excused, sends, unsure>>

MayFail == losses + reloads + lapses < MaxFaults

Advanced(t) == [tab[t] EXCEPT !.list = Tail(@)]

\* Mutant of MarkFailed: the mutation is left as processing.
MarkFailedNever(q, wires) == Send(q.tab, Advanced(q.tab), queue, wires)

\* An error other than a conflict: marked as failed, and reported.
MarkFailed(q, wires) ==
    LET retry == Head(tab[q.tab].list).retry + 1 IN
    Send(q.tab, Advanced(q.tab), Retrying(queue, q.write, "failed", retry), wires)

\* The request or its answer gets lost, or a timeout aborts it. The server may still work on it.
Drop(q) ==
    /\ q.waits
    /\ MayFail /\ losses' = losses + 1
    /\ \E rest \in SUBSET {[q EXCEPT !.waits = FALSE]} :
          LET wires == (wire \ {q}) \cup rest IN
          /\ q.stage = "running" => rest # {}
          /\ q.stage = "answered" => rest = {}
          /\ IF q.direct THEN Enqueue(q.tab, q.write, wires)
             ELSE /\ MarkFailed(q, wires)
                  /\ UNCHANGED <<direct, leader, excused>>
          /\ unsure' = IF /\ q.write.kind = "create"
                          /\ rest # {} \/ q.stage = "answered"
                          /\ ~ (keyed /\ ~q.direct /\ \E c \in cache : c.key = q.key)
                       THEN [unsure EXCEPT ![q.write.obj] = @ + 1] ELSE unsure
    /\ UNCHANGED <<todo, posts, server, reloads, lapses, issued>>

Known(t, q) == IF q.write.kind = "create" THEN [tab[t] EXCEPT !.ids[q.write.obj] = q.answer.n]
               ELSE tab[t]

\* The answer to a first request: anything but success puts the write into the queue.
FirstAnswer(q) ==
    /\ q.waits /\ q.direct /\ q.stage = "answered"
    /\ IF q.answer.ok
       THEN /\ direct' = direct \ {q.write}
            /\ tab' = [tab EXCEPT ![q.tab] = Known(q.tab, q)]
            /\ wire' = wire \ {q}
            /\ UNCHANGED <<queue, leader, excused, sends>>
       ELSE Enqueue(q.tab, q.write, wire \ {q})
    /\ UNCHANGED <<todo, posts, server, faults, issued, unsure>>

Stored(w) == {m \in ToSet(queue) : m.write = w}

\* handleConflict and what follows: the mutation is given up, tried again, or replaced by a
\* version made from the copy that was sent, under a new key.
Resolve(q, how) ==
    LET copy == Head(tab[q.tab].list)
        again == [copy EXCEPT !.retry = @ + 1, !.status = "pending"]
    IN
    /\ excused' = IF how = "discard"
                  THEN excused \cup UNION {m.edits : m \in Stored(q.write)} ELSE excused
    /\ Send(q.tab, Advanced(q.tab),
            CASE how = "discard" -> Without(q.write)
              [] how = "retry" -> Retrying(queue, q.write, "pending", again.retry)
              [] how = "resolve" -> Versioned(queue, q.write, [again EXCEPT !.key.of = again.retry]),
            wire \ {q})

\* The answer to a mutation of the queue.
SyncAnswer(q) ==
    LET t == q.tab
        others == IF q.write.kind = "create" THEN Tabs \ {t} ELSE {}
    IN
    /\ q.waits /\ ~q.direct /\ q.stage = "answered"
    /\ IF q.answer.ok
       THEN /\ posts' = posts \cup [to : others, obj : {q.write.obj}, n : {q.answer.n}]
            /\ Send(t, [Known(t, q) EXCEPT !.list = Tail(@)], Without(q.write), wire \ {q})
            /\ UNCHANGED excused
       ELSE /\ IF q.answer.why = "conflict" THEN \E how \in Resolutions : Resolve(q, how)
               ELSE MarkFailed(q, wire \ {q}) /\ UNCHANGED excused
            /\ UNCHANGED posts
    /\ UNCHANGED <<todo, direct, leader, server, faults, issued, unsure>>

\* Mutant of Online: only a tab that was offline syncs.
OnlineAgain(t) ==
    /\ ~tab[t].online
    /\ Sync(t, [tab[t] EXCEPT !.online = TRUE], queue, wire)
    /\ UNCHANGED <<todo, direct, posts, server, faults, issued, excused, unsure>>

\* The browser's online event, or setOnlineStatus.
Online(t) ==
    /\ Sync(t, [tab[t] EXCEPT !.online = TRUE], queue, wire)
    /\ UNCHANGED <<todo, direct, posts, server, faults, issued, excused, unsure>>

Offline(t) ==
    /\ tab[t].online
    /\ MayFail /\ losses' = losses + 1
    /\ tab' = [tab EXCEPT ![t].online = FALSE]
    /\ UNCHANGED <<todo, direct, queue, posts, leader, wire, server, reloads, lapses, ghosts>>

\* id-remapped: the first mapping of an id stays.
Hear(p) ==
    /\ posts' = posts \ {p}
    /\ tab' = [tab EXCEPT ![p.to].ids[p.obj] = IF @ = 0 THEN p.n ELSE @]
    /\ UNCHANGED <<todo, direct, queue, leader, wire, server, faults, ghosts>>

\* A page is closed and opened again; only localStorage survives. Its lock is left behind.
Reload(t) ==
    /\ MayFail /\ reloads' = reloads + 1
    /\ tab' = [tab EXCEPT ![t] = [Closed EXCEPT !.online = tab[t].online]]
    /\ direct' = {w \in direct : w.tab # t}
    /\ excused' = excused \cup {w \in direct : w.tab = t}
    /\ posts' = {p \in posts : p.to # t}
    /\ wire' = {q \in wire : q.tab # t} \cup
               {[q EXCEPT !.waits = FALSE] : q \in {r \in wire : r.tab = t /\ r.stage # "answered"}}
    /\ leader' = IF leader = t THEN Gone ELSE leader
    /\ UNCHANGED <<todo, queue, server, losses, lapses, issued, sends, unsure>>

\* LEADER_TTL_MS after the last heartbeat: of a tab that is gone, or of one that was frozen.
Expire == /\ leader = Gone /\ leader' = Nobody
          /\ UNCHANGED <<todo, direct, queue, tab, posts, wire, server, faults, ghosts>>

Lapse == /\ leader \in Tabs /\ leader' = Nobody
         /\ MayFail /\ lapses' = lapses + 1
         /\ UNCHANGED <<todo, direct, queue, tab, posts, wire, server, losses, reloads, ghosts>>

-----------------------------------------------------------------------------
(* The server *)

\* The lookup of idempotencyMiddleware.
Arrive(q) ==
    LET hits == {c \in cache : keyed /\ c.key = q.key} IN
    /\ q.stage = "sent"
    /\ wire' = (wire \ {q}) \cup
          (IF hits = {} THEN {[q EXCEPT !.stage = "running"]}
           ELSE {[q EXCEPT !.stage = "answered", !.answer = c.answer] : c \in hits})
    /\ UNCHANGED <<client, server, faults, ghosts>>

\* The handler's answer: to whoever still waits, and to the middleware, which stores it later.
Respond(q, answer) ==
    /\ wire' = (wire \ {q}) \cup
               (IF q.waits THEN {[q EXCEPT !.stage = "answered", !.answer = answer]} ELSE {})
    /\ saving' = IF keyed /\ q.key # Nobody THEN saving \cup {[key |-> q.key, answer |-> answer]}
                 ELSE saving

Ok(n) == [ok |-> TRUE, why |-> "none", n |-> n]
Refusal(why) == [ok |-> FALSE, why |-> why, n |-> 0]

Create(q) ==
    LET n == made[q.write.obj] + 1 IN
    /\ q.stage = "running" /\ q.write.kind = "create"
    /\ made' = [made EXCEPT ![q.write.obj] = n]
    /\ live' = live \cup {<<q.write.obj, n>>}
    /\ applied' = applied \cup q.edits
    /\ Respond(q, Ok(n))
    /\ UNCHANGED <<client, keyed, cache, faults, ghosts>>

Change(q) ==
    /\ q.stage = "running" /\ q.write.kind \in {"update", "delete"}
    /\ q.target \in live
    /\ live' = IF q.write.kind = "delete" THEN live \ {q.target} ELSE live
    /\ applied' = applied \cup q.edits
    /\ Respond(q, Ok(0))
    /\ UNCHANGED <<client, made, keyed, cache, faults, ghosts>>

Refuse(q) ==
    /\ q.stage = "running"
    /\ \/ /\ q.write.kind # "create" /\ q.target \notin live
          /\ Respond(q, Refusal("missing"))
       \/ q.write.contested /\ Respond(q, Refusal("conflict"))
    /\ UNCHANGED <<client, live, made, applied, keyed, cache, faults, ghosts>>

\* storage.set, which the answer does not wait for.
Save(s) ==
    /\ cache' = {c \in cache : c.key # s.key} \cup {s}
    /\ saving' = saving \ {s}
    /\ UNCHANGED <<client, wire, live, made, applied, keyed, faults, ghosts>>

-----------------------------------------------------------------------------

Serve == \/ \E q \in wire : Arrive(q) \/ Create(q) \/ Change(q) \/ Refuse(q)
         \/ \E s \in saving : Save(s)
Answered == \E q \in wire : FirstAnswer(q) \/ SyncAnswer(q)

OfflineNext ==
    \/ \E w \in todo : Make(w)
    \/ \E q \in wire : Drop(q)
    \/ Answered
    \/ Serve
    \/ \E t \in Tabs : Online(t) \/ Offline(t) \/ Reload(t)
    \/ \E p \in posts : Hear(p)
    \/ Expire
    \/ Lapse

\* The server works, answers arrive, abandoned locks run out, and the browser reports again
\* and again that it is online.
OfflineFairness ==
    /\ WF_offlineVars(Serve) /\ WF_offlineVars(Answered) /\ WF_offlineVars(Expire)
    /\ \A t \in Tabs : WF_offlineVars(Online(t))

OfflineSpec == OfflineInit /\ [][OfflineNext]_offlineVars /\ OfflineFairness

-----------------------------------------------------------------------------
(* Properties *)

Done(w) == w \in applied \/ (w.kind = "delete" /\ \A n \in 0..made[w.obj] : <<w.obj, n>> \notin live)

\* No write of the user vanishes: it is on its first way, stored, or done at the server, unless
\* the page was closed before it was stored, a conflict discarded it, or it was merged into a
\* mutation the running sync had read before.
Accounted ==
    \A w \in issued \ (direct \cup excused) :
        Done(w) \/ \E m \in ToSet(queue) : w \in m.edits

\* As long as no tab loses the leadership while it lives, two tabs never send at once
\* (docs/contracts/offline-sync.md, "Single flusher"), and tabs, reloads, conflicts and lost
\* answers together send a mutation at most maxRetries times.
SentInTurn == lapses = 0 =>
    /\ \A t, u \in Tabs : tab[t].list # <<>> /\ tab[u].list # <<>> => t = u
    /\ \A w \in Writes : sends[w] <= MaxRetries

\* An object is created once, and once more for every create given up that the server cannot
\* tell from a new one, as long as no tab loses the leadership while it lives.
CreatedOnce == lapses = 0 => \A o \in Objects : made[o] <= 1 + unsure[o]

\* A page that is closed leaves at most one mutation that no sync takes up again.
Stranded == {m \in ToSet(queue) : /\ m.status = "processing"
                                  /\ \A t \in Tabs : tab[t].list # <<>> =>
                                        Head(tab[t].list).write # m.write}
StrandedBounded == Cardinality(Stranded) <= reloads

\* Again and again no mutation waits: what is stored is taken up by a sync in the end.
TakenUp == []<>(\A m \in ToSet(queue) : ~Sendable(m))
=============================================================================
