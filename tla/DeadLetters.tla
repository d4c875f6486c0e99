---------------------------- MODULE DeadLetters ----------------------------
(***************************************************************************)
(* The operators' side of the dead letter queue (src/src/tasks/dlq.ts):    *)
(* retry, retryAll and purge are sequences of separate store operations    *)
(* that meet each other, workers that bury tasks, and crashes.             *)
(*                                                                         *)
(* A task that is replayed gets a new id and keeps its original one: an id *)
(* is an original and the number of the replay. A record may be partial:   *)
(* burying a task whose record was deleted writes its status all the same, *)
(* and what that leaves cannot be read as a task.                          *)
(***************************************************************************)
EXTENDS Integers, FiniteSets, Sequences

CONSTANTS
    Originals,      \* tasks that die at the beginning
    Callers,        \* of retry, retryAll and purge
    MaxCalls,       \* bound: calls made
    MaxReplays,     \* bound: replays of one original
    MaxStops        \* bound: callers that crash

ASSUME LettersAssumption ==
    /\ IsFiniteSet(Originals) /\ IsFiniteSet(Callers)
    /\ MaxCalls \in Nat /\ MaxReplays \in Nat /\ MaxStops \in Nat

Letters == Originals \X (0..MaxReplays)
Original(id) == id[1]

VARIABLES
    record,     \* tasks' hashes: whole, partial or none
    listed,     \* DEAD_LETTER_KEY
    entries,    \* hashes of dead letters
    waiting,    \* tasks given back to the queue
    burying,    \* adds under way, and their next step
    caller,     \* what each caller does, to which ids
    replays,    \* ids handed out for each original
    audited     \* replays in the audit log

VARIABLES calls, stops,
    doubled,    \* reads of an entry that another caller was about to delete, for each original
    purged, crashed, torn,  \* originals that a purge, a crash or a partial record ended
    strayed     \* ids unlisted while their entry stayed, by a crash or by a purge

letters == <<record, listed, entries, waiting, replays, audited>>
letterGhosts == <<calls, stops, doubled, purged, crashed, torn, strayed>>
lettersVars == <<letters, burying, caller, letterGhosts>>

\* Where a retry has deleted the entry and not given the task back yet.
NotYetBack == {"drop", "requeue", "enqueue"}

Resting == [pc |-> "idle", ids |-> <<>>, all |-> {}]
Points == {"idle", "read", "unlist", "forget", "drop", "requeue", "enqueue", "audit", "purge", "erase"}

LettersTypeOK ==
    /\ record \in [Letters -> {"none", "whole", "partial"}]
    /\ listed \subseteq Letters /\ entries \subseteq Letters /\ waiting \subseteq Letters
    /\ audited \subseteq Letters /\ strayed \subseteq Letters
    /\ burying \subseteq [id : Letters, step : {"list", "file"}]
    /\ \A p \in Callers : /\ caller[p].pc \in Points /\ caller[p].ids \in Seq(Letters)
                          /\ caller[p].all \subseteq Letters
    /\ replays \in [Originals -> 0..MaxReplays] /\ doubled \in [Originals -> Nat]
    /\ purged \cup crashed \cup torn \subseteq Originals /\ stops \in 0..MaxStops /\ calls \in 0..MaxCalls

LettersInit ==
    /\ record \in [Letters -> {"none", "whole", "partial"}]
    /\ \A id \in Letters : (record[id] = "none") = (id[2] > 0)
    /\ listed = {} /\ entries = {} /\ waiting = {} /\ audited = {}
    /\ burying = [id : Originals \X {0}, step : {"list"}]
    /\ caller = [p \in Callers |-> Resting]
    /\ replays = [o \in Originals |-> 0]
    /\ calls = 0 /\ stops = 0 /\ doubled = replays /\ purged = {} /\ crashed = {} /\ torn = {} /\ strayed = {}

At(p, pc) == caller[p].pc = pc
Subject(p) == Head(caller[p].ids)
Has(p) == caller[p].ids # <<>>
Move(p, pc) == caller' = [caller EXCEPT ![p].pc = pc]
\* The loop of retryAll or purge goes on with the next id.
Proceed(p, pc) == caller' = [caller EXCEPT ![p].pc = pc, ![p].ids = Tail(@)]

-----------------------------------------------------------------------------
(* add, called by a worker; and the worker that runs a replayed task *)

\* The replay fails for good, too. Its record is whole, so updateStatus leaves it so.
FailAgain(id) ==
    /\ waiting' = waiting \ {id}
    /\ burying' = burying \cup {[id |-> id, step |-> "list"]}
    /\ UNCHANGED <<record, listed, entries, replays, audited, caller, letterGhosts>>

AddToList(b) ==
    /\ b.step = "list"
    /\ listed' = listed \cup {b.id}
    /\ burying' = (burying \ {b}) \cup {[b EXCEPT !.step = "file"]}
    /\ UNCHANGED <<record, entries, waiting, replays, audited, caller, letterGhosts>>

AddEntry(b) ==
    /\ b.step = "file"
    /\ entries' = entries \cup {b.id}
    /\ burying' = burying \ {b}
    /\ UNCHANGED <<record, listed, waiting, replays, audited, caller, letterGhosts>>

-----------------------------------------------------------------------------
(* retry and retryAll *)

Orderings(S) == {s \in [1..Cardinality(S) -> S] : \A x \in S : \E i \in DOMAIN s : s[i] = x}

\* retry(id), or retryAll with the ids that list() returned.
StartRetry(p) ==
    /\ At(p, "idle")
    /\ calls < MaxCalls /\ calls' = calls + 1
    /\ \E ids \in {{id} : id \in entries} \cup {listed \cap entries} : \E s \in Orderings(ids) :
          caller' = [caller EXCEPT ![p] = [pc |-> "read", ids |-> s, all |-> {}]]
    /\ UNCHANGED <<letters, burying, stops, doubled, purged, crashed, torn, strayed>>

\* Mutant of Found: what list() has returned is not looked up again.
FoundBefore(p) == Has(p)

Found(p) == Has(p) /\ Subject(p) \in entries

Reading(p) == /\ At(p, "read") /\ Found(p)
              /\ Move(p, "unlist")
              /\ doubled' = IF \E q \in Callers : caller[q].pc \in {"unlist", "forget"} /\ Subject(q) = Subject(p)
                            THEN [doubled EXCEPT ![Original(Subject(p))] = @ + 1] ELSE doubled
              /\ UNCHANGED <<letters, burying, calls, stops, purged, crashed, torn, strayed>>

Skip(p) == /\ At(p, "read") /\ ~Found(p)
           /\ IF Has(p) THEN Proceed(p, "read") ELSE Move(p, "idle")
           /\ UNCHANGED <<letters, burying, letterGhosts>>

RemoveListed(p) ==
    /\ At(p, "unlist")
    /\ listed' = listed \ {Subject(p)}
    /\ Move(p, "forget")
    /\ UNCHANGED <<record, entries, waiting, replays, audited, burying, letterGhosts>>

Forget(p) ==
    /\ At(p, "forget")
    /\ entries' = entries \ {Subject(p)}
    /\ Move(p, "drop")
    /\ UNCHANGED <<record, listed, waiting, replays, audited, burying, letterGhosts>>

\* storage.delete reads the task that it deletes: a partial record makes it throw.
DropRecord(p) ==
    /\ At(p, "drop")
    /\ IF record[Subject(p)] = "partial"
       THEN /\ caller' = [caller EXCEPT ![p] = Resting]
            /\ torn' = torn \cup {Original(Subject(p))}
            /\ UNCHANGED record
       ELSE /\ record' = [record EXCEPT ![Subject(p)] = "none"]
            /\ Move(p, "requeue")
            /\ UNCHANGED torn
    /\ UNCHANGED <<listed, entries, waiting, replays, audited, burying, calls, stops, doubled, purged, crashed, strayed>>

\* The task under a new id: stored, and then given to the queue.
StoreNew(p) ==
    LET o == Original(Subject(p))
        id == <<o, replays[o] + 1>>
    IN
    /\ At(p, "requeue")
    /\ replays[o] < MaxReplays
    /\ replays' = [replays EXCEPT ![o] = @ + 1]
    /\ record' = [record EXCEPT ![id] = "whole"]
    /\ caller' = [caller EXCEPT ![p].pc = "enqueue", ![p].all = {id}]
    /\ UNCHANGED <<listed, entries, waiting, audited, burying, letterGhosts>>

GiveBack(p) ==
    /\ At(p, "enqueue")
    /\ waiting' = waiting \cup caller[p].all
    /\ Move(p, "audit")
    /\ UNCHANGED <<record, listed, entries, replays, audited, burying, letterGhosts>>

Audit(p) ==
    /\ At(p, "audit")
    /\ audited' = audited \cup caller[p].all
    /\ Proceed(p, "read")
    /\ UNCHANGED <<record, listed, entries, waiting, replays, burying, letterGhosts>>

-----------------------------------------------------------------------------
(* purge *)

\* The ids that are old enough.
StartPurge(p) ==
    /\ At(p, "idle")
    /\ calls < MaxCalls /\ calls' = calls + 1
    /\ \E old \in SUBSET listed : \E s \in Orderings(old) :
          caller' = [caller EXCEPT ![p] = [pc |-> "purge", ids |-> s, all |-> old]]
    /\ UNCHANGED <<letters, burying, stops, doubled, purged, crashed, torn, strayed>>

PurgeEntry(p) ==
    /\ At(p, "purge") /\ Has(p)
    /\ entries' = entries \ {Subject(p)}
    /\ purged' = IF Subject(p) \in entries THEN purged \cup {Original(Subject(p))} ELSE purged
    /\ Move(p, "erase")
    /\ UNCHANGED <<record, listed, waiting, replays, audited, burying, calls, stops, doubled, crashed, torn, strayed>>

PurgeRecord(p) ==
    /\ At(p, "erase")
    /\ IF record[Subject(p)] = "partial"
       THEN caller' = [caller EXCEPT ![p] = Resting] /\ UNCHANGED record
       ELSE record' = [record EXCEPT ![Subject(p)] = "none"] /\ Proceed(p, "purge")
    /\ UNCHANGED <<listed, entries, waiting, replays, audited, burying, letterGhosts>>

PurgeList(p) ==
    /\ At(p, "purge") /\ ~Has(p)
    /\ listed' = listed \ caller[p].all
    /\ strayed' = strayed \cup {id \in caller[p].all : id \in entries \/ \E b \in burying : b.id = id}
    /\ caller' = [caller EXCEPT ![p] = Resting]
    /\ UNCHANGED <<record, entries, waiting, replays, audited, burying, calls, stops, doubled, purged, crashed, torn>>

-----------------------------------------------------------------------------

Stop(p) ==
    /\ ~At(p, "idle") /\ stops < MaxStops
    /\ stops' = stops + 1
    /\ caller' = [caller EXCEPT ![p] = Resting]
    /\ crashed' = IF caller[p].pc \in NotYetBack THEN crashed \cup {Original(Subject(p))} ELSE crashed
    /\ strayed' = IF At(p, "forget") THEN strayed \cup {Subject(p)} ELSE strayed
    /\ UNCHANGED <<letters, burying, calls, doubled, purged, torn>>

LettersNext ==
    \/ \E id \in waiting : FailAgain(id)
    \/ \E b \in burying : AddToList(b) \/ AddEntry(b)
    \/ \E p \in Callers : \/ StartRetry(p) \/ Reading(p) \/ Skip(p) \/ RemoveListed(p) \/ Forget(p)
                          \/ DropRecord(p) \/ StoreNew(p) \/ GiveBack(p) \/ Audit(p)
                          \/ StartPurge(p) \/ PurgeEntry(p) \/ PurgeRecord(p) \/ PurgeList(p)
                          \/ Stop(p)
LettersSpec == LettersInit /\ [][LettersNext]_lettersVars

-----------------------------------------------------------------------------
(* Properties *)

\* The places where a task may be: given back, about to be buried, dead, or read by a caller
\* that has deleted its entry.
Alive(o) == {id \in waiting \cup entries \cup {b.id : b \in burying} : Original(id) = o}
BeingRetried(o) == {p \in Callers : caller[p].pc \in NotYetBack /\ Original(Subject(p)) = o}

\* A task that died is not lost, unless it is purged, its caller crashes between deleting and
\* requeueing, or its record cannot be read.
NoneLost == \A o \in Originals : Alive(o) \cup BeingRetried(o) # {} \/ o \in purged \cup crashed \cup torn

\* It is replayed as one task, but for the callers that read its entry at the same time.
NoneDoubled == \A o \in Originals : Cardinality(Alive(o)) + Cardinality(BeingRetried(o)) <= 1 + doubled[o]

\* Every entry is listed, unless a retry is between unlisting and deleting it, or was stopped
\* there, or a purge overtook the add.
NoneHidden ==
    \A id \in entries \ listed : id \in strayed \/ \E p \in Callers : At(p, "forget") /\ Subject(p) = id

\* Dead letters are kept: none is lost, doubled or hidden, however operators meet.
LettersKept == NoneLost /\ NoneDoubled /\ NoneHidden
=============================================================================
