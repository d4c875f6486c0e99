----------------------------- MODULE TaskQueue -----------------------------
(***************************************************************************)
(* The background task system of src/src/tasks: schedulers that enqueue    *)
(* and cancel tasks, and a fleet of workers that claim, run, retry and     *)
(* bury them, all over one shared key-value store.                         *)
(*                                                                         *)
(* Every await of the code is a point where another routine may run, so    *)
(* an action is the local code of one routine up to and including its next *)
(* operation on the store.  The routines of a worker are its poll loop     *)
(* (poll), the processTask calls it has not awaited (exec, one per lane)   *)
(* and its stop() call (halt).                                             *)
(***************************************************************************)
EXTENDS Integers, FiniteSets

CONSTANTS
    Tasks,          \* task ids (each is submitted at most once)
    Workers,        \* worker ids
    Lanes,          \* names for the processTask calls in flight on a worker
    Concurrency,    \* config.concurrency
    MaxAttempts,    \* task.maxAttempts
    MaxConcurrency, \* definition.maxConcurrency; 0 when it is not set
    Buckets,        \* number of priority buckets
    BatchSize,      \* ids a scan of a bucket returns at most
    BucketOf,       \* the bucket of each task
    Handles,        \* the tasks whose type a worker takes (config.taskTypes)
    Registered,     \* the tasks whose type the registry knows
    Keys,           \* idempotency keys
    KeyOf,          \* the idempotency key of each task, or NoKey
    Entry,          \* what clients call: enqueue() stores pending, schedule() scheduled
    Faults,         \* the disturbances the environment may cause
    NoTask, NoWorker, NoKey, NoLane

FaultKinds == {"crash", "stop", "lapse", "cancel", "overrun"}

ASSUME SetsAssumption ==
    /\ NoTask \notin Tasks
    /\ NoWorker \notin Workers
    /\ NoKey \notin Keys
    /\ NoLane \notin Lanes
    /\ IsFiniteSet(Workers) /\ IsFiniteSet(Lanes)
ASSUME BoundsAssumption ==
    /\ Concurrency \in Nat \ {0}
    /\ MaxAttempts \in Nat \ {0}
    /\ MaxConcurrency \in Nat
    /\ Buckets \in Nat \ {0}
    /\ BatchSize \in Nat \ {0}
ASSUME TablesAssumption ==
    /\ BucketOf \in [Tasks -> 1..Buckets]
    /\ Handles \in [Workers -> SUBSET Tasks]
    /\ Registered \subseteq Tasks
    /\ KeyOf \in [Tasks -> Keys \cup {NoKey}]
    /\ Entry \subseteq {"pending", "scheduled"}
    /\ Faults \subseteq FaultKinds

VARIABLES
    data,       \* the task hash: none, whole, or fields without a task
    statusIdx,  \* the index set of every status
    queue,      \* is the task in its bucket's sorted set, and is it due
    lock,       \* the holder of the task's lock key
    slots,      \* the concurrency counter of the (one) task type
    dead,       \* the dead letter queue
    idem,       \* idempotency key -> task id
    marked,     \* keys with a completed marker
    sub,        \* progress of the enqueue() or schedule() call of a task
    cancel,     \* progress of the cancel() call of a task
    mode,       \* is a worker's process up, stopped or gone
    poll,       \* the poll loop of a worker
    active,     \* activeTasks: task id -> lane
    forced,     \* forceStopped
    exec,       \* the processTask calls of a worker
    halt,       \* the stop() call of a worker
    overrun     \* handlers still running after their timeout was reported

store  == <<data, statusIdx, queue, lock, slots, dead, idem, marked>>
client == <<sub, cancel>>
local  == <<mode, poll, active, forced, exec, halt, overrun>>
vars   == <<data, statusIdx, queue, lock, slots, dead, idem, marked, sub, cancel,
            mode, poll, active, forced, exec, halt, overrun>>

-----------------------------------------------------------------------------
(* Types *)

Statuses  == {"pending", "scheduled", "running", "completed", "failed", "dead"}
Claimable == {"pending", "scheduled"}
Terminal  == {"completed", "failed", "dead"}
Attempts  == 0..(MaxAttempts - 1)

Hash == [form : {"none", "whole", "partial"}, status : Statuses \cup {"none"},
         attempt : Attempts]
NoHash == [form |-> "none", status |-> "none", attempt |-> 0]

\* The task object a claim returned: a copy, never refreshed.
Claim == [id : Tasks \cup {NoTask}, status : Claimable, attempt : Attempts]
NoClaim == [id |-> NoTask, status |-> "pending", attempt |-> 0]

PollPc == {"idle", "scan", "locked", "drop", "unlist", "skip", "take", "taken",
           "bury", "buried", "over", "yield", "putback", "died"}
Poll == [pc : PollPc, list : SUBSET Tasks, bucket : 1..Buckets, cur : Tasks \cup {NoTask},
         task : Claim]
IdlePoll == [pc |-> "idle", list |-> {}, bucket |-> 1, cur |-> NoTask, task |-> NoClaim]

ExecPc == {"idle", "start", "short", "begin", "handler", "settle", "requeue",
           "readd", "bury", "done", "unlock"}
Exec == [pc : ExecPc, task : Claim, slot : BOOLEAN, aborted : BOOLEAN]
NoExec == [pc |-> "idle", task |-> NoClaim, slot |-> FALSE, aborted |-> FALSE]

\* stop(): the task it is requeueing and those it is done with.
Halt == [pc : {"idle", "next", "load", "enlist", "unlock", "over", "died"}, cur : Tasks \cup {NoTask},
         seen : SUBSET Tasks]
NoHalt == [pc |-> "idle", cur |-> NoTask, seen |-> {}]

Modes == {"up", "stopped", "gone"}

\* storage.store has written the hash, then the indexes, then the key: the task is to be queued.
Storing == {"hashed", "indexed", "stored"}

TypeOK ==
    /\ data \in [Tasks -> Hash]
    /\ statusIdx \in [Statuses -> SUBSET Tasks]
    /\ queue \in [Tasks -> {"absent", "later", "due"}]
    /\ lock \in [Tasks -> Workers \cup {NoWorker}]
    /\ slots \in Int
    /\ dead \subseteq Tasks
    /\ idem \in [Keys -> Tasks \cup {NoTask}]
    /\ marked \subseteq Keys
    /\ sub \in [Tasks -> {"new", "checked", "queued", "refused"} \cup Storing]
    /\ cancel \in [Tasks -> {"idle", "checked", "removed", "over"}]
    /\ mode \in [Workers -> Modes]
    /\ poll \in [Workers -> Poll]
    /\ active \in [Workers -> [Tasks -> Lanes \cup {NoLane}]]
    /\ forced \in [Workers -> SUBSET Tasks]
    /\ exec \in [Workers -> [Lanes -> Exec]]
    /\ halt \in [Workers -> Halt]
    /\ overrun \subseteq Workers \X Tasks

Init ==
    /\ data = [t \in Tasks |-> NoHash]
    /\ statusIdx = [s \in Statuses |-> {}]
    /\ queue = [t \in Tasks |-> "absent"]
    /\ lock = [t \in Tasks |-> NoWorker]
    /\ slots = 0
    /\ dead = {}
    /\ idem = [k \in Keys |-> NoTask]
    /\ marked = {}
    /\ sub = [t \in Tasks |-> "new"]
    /\ cancel = [t \in Tasks |-> "idle"]
    /\ mode = [w \in Workers |-> "up"]
    /\ poll = [w \in Workers |-> IdlePoll]
    /\ active = [w \in Workers |-> [t \in Tasks |-> NoLane]]
    /\ forced = [w \in Workers |-> {}]
    /\ exec = [w \in Workers |-> [l \in Lanes |-> NoExec]]
    /\ halt = [w \in Workers |-> NoHalt]
    /\ overrun = {}

-----------------------------------------------------------------------------
(* Operations on the store *)

\* Faulty variant of SetStatus: the new status is not indexed.
SetStatusUnindexed(t, old, new, attempt) ==
    /\ data' = [data EXCEPT ![t] =
                    [form |-> IF @.form = "none" THEN "partial" ELSE @.form,
                     status |-> new, attempt |-> attempt]]
    /\ statusIdx' = [statusIdx EXCEPT ![old] = @ \ {t}]

\* storage.updateStatus: one transaction that trusts the caller's idea of the
\* old status and never asks whether the hash still exists.
SetStatus(t, old, new, attempt) ==
    /\ data' = [data EXCEPT ![t] =
                    [form |-> IF @.form = "none" THEN "partial" ELSE @.form,
                     status |-> new, attempt |-> attempt]]
    /\ statusIdx' = [s \in Statuses |->
                        IF s = new THEN statusIdx[s] \cup {t}
                        ELSE IF s = old THEN statusIdx[s] \ {t}
                        ELSE statusIdx[s]]

\* storage.delete
Delete(t) ==
    /\ data' = [data EXCEPT ![t] = NoHash]
    /\ statusIdx' = [s \in Statuses |->
                        IF s = data[t].status THEN statusIdx[s] \ {t}
                        ELSE statusIdx[s]]
    /\ idem' = [k \in Keys |-> IF k = KeyOf[t] THEN NoTask ELSE idem[k]]

\* lock.release: only the holder's own key is deleted.
Release(w, t) ==
    lock' = [lock EXCEPT ![t] = IF @ = w THEN NoWorker ELSE @]

Enlist(t, when) == queue' = [queue EXCEPT ![t] = when]
Unlist(t)       == queue' = [queue EXCEPT ![t] = "absent"]

\* JSON.parse of a missing field throws, so storage.get of these rejects.
Unreadable(t) == data[t].form = "partial"
Live(t)       == data[t].form = "whole" /\ data[t].status \notin Terminal

-----------------------------------------------------------------------------
(* Schedulers: enqueue(), schedule() and cancel() *)

\* findByIdempotencyKey finds a task that is still under way: its id is
\* returned and nothing is stored.  An unreadable record makes the call reject.
EnqueueCheck(t) ==
    /\ sub[t] = "new"
    /\ KeyOf[t] # NoKey
    /\ LET found == idem[KeyOf[t]] IN
       sub' = [sub EXCEPT ![t] =
                  IF found # NoTask /\ (Live(found) \/ Unreadable(found))
                  THEN "refused" ELSE "checked"]
    /\ UNCHANGED <<store, cancel, local>>

\* storage.store, in three operations: the hash,
EnqueueStore(t) ==
    /\ sub[t] = IF KeyOf[t] = NoKey THEN "new" ELSE "checked"
    /\ \E status \in Entry :
        data' = [data EXCEPT ![t] = [form |-> "whole", status |-> status, attempt |-> 0]]
    /\ sub' = [sub EXCEPT ![t] = "hashed"]
    /\ UNCHANGED <<statusIdx, queue, lock, slots, dead, idem, marked, cancel, local>>

\* the index of its status (the index by name is not modelled),
EnqueueIndex(t) ==
    /\ sub[t] = "hashed"
    /\ statusIdx' = [statusIdx EXCEPT ![data[t].status] = @ \cup {t}]
    /\ sub' = [sub EXCEPT ![t] = IF KeyOf[t] = NoKey THEN "stored" ELSE "indexed"]
    /\ UNCHANGED <<data, queue, lock, slots, dead, idem, marked, cancel, local>>

\* and the idempotency key.
EnqueueKey(t) ==
    /\ sub[t] = "indexed"
    /\ idem' = [idem EXCEPT ![KeyOf[t]] = t]
    /\ sub' = [sub EXCEPT ![t] = "stored"]
    /\ UNCHANGED <<data, statusIdx, queue, lock, slots, dead, marked, cancel, local>>

\* queue.add: enqueue() is due at once, schedule() may be due later.
EnqueueAdd(t) ==
    /\ sub[t] = "stored"
    /\ \E when \in {"due", "later"} :
        /\ when = "later" => data[t].status = "scheduled"
        /\ Enlist(t, when)
    /\ sub' = [sub EXCEPT ![t] = "queued"]
    /\ UNCHANGED <<data, statusIdx, lock, slots, dead, idem, marked, cancel, local>>

CancelCheck(t) ==
    /\ "cancel" \in Faults
    /\ cancel[t] = "idle" /\ sub[t] = "queued"
    /\ cancel' = [cancel EXCEPT ![t] =
                      IF Live(t) /\ data[t].status # "running" THEN "checked" ELSE "over"]
    /\ UNCHANGED <<store, sub, local>>

CancelUnlist(t) ==
    /\ cancel[t] = "checked"
    /\ Unlist(t)
    /\ cancel' = [cancel EXCEPT ![t] = "removed"]
    /\ UNCHANGED <<data, statusIdx, lock, slots, dead, idem, marked, sub, local>>

\* storage.delete does nothing without a hash and rejects an unreadable one.
CancelDelete(t) ==
    /\ cancel[t] = "removed"
    /\ cancel' = [cancel EXCEPT ![t] = "over"]
    /\ IF data[t].form = "whole" THEN Delete(t) ELSE UNCHANGED <<data, statusIdx, idem>>
    /\ UNCHANGED <<queue, lock, slots, dead, marked, sub, local>>

Submits(t) == EnqueueIndex(t) \/ EnqueueKey(t) \/ EnqueueAdd(t)

ClientStep(t) == \/ EnqueueCheck(t) \/ EnqueueStore(t) \/ Submits(t)
                 \/ CancelCheck(t) \/ CancelUnlist(t) \/ CancelDelete(t)

-----------------------------------------------------------------------------
(* The poll loop: queue.claimNext and what poll() does with the claim *)

ActiveOf(w)   == {t \in Tasks : active[w][t] # NoLane}
DueIn(b)      == {t \in Tasks : BucketOf[t] = b /\ queue[t] = "due"}
PollAt(w, pc) == poll[w].pc = pc
Goto(w, pc)   == poll' = [poll EXCEPT ![w].pc = pc]

\* zrangebyscore with a limit: all that is due, or as many of these as it allows (the earliest;
\* how scores are ordered is left open).
Batches(b) == {batch \in SUBSET DueIn(b) :
                  /\ Cardinality(batch) <= BatchSize
                  /\ batch = DueIn(b) \/ Cardinality(batch) = BatchSize}

\* The loop's condition holds and there is room: list what is due in a bucket.
Scan(w) ==
    /\ PollAt(w, "idle")
    /\ mode[w] = "up"
    /\ Cardinality(ActiveOf(w)) < Concurrency
    /\ \E batch \in Batches(1) : poll' = [poll EXCEPT ![w].pc = "scan", ![w].list = batch]
    /\ UNCHANGED <<store, client, mode, active, forced, exec, halt, overrun>>

\* The listed ids are used up: the next bucket, or null and sleep.
NextBucket(w) ==
    /\ PollAt(w, "scan")
    /\ poll[w].list = {}
    /\ IF poll[w].bucket < Buckets
       THEN \E batch \in Batches(poll[w].bucket + 1) :
                poll' = [poll EXCEPT ![w].bucket = @ + 1, ![w].list = batch]
       ELSE poll' = [poll EXCEPT ![w] = IdlePoll]
    /\ UNCHANGED <<store, client, mode, active, forced, exec, halt, overrun>>

\* Faulty variant of Obtainable: the key is set without NX.
ObtainableAlways(w, t) == TRUE

\* lock.acquire: SET NX, then the key is read back.  A worker that already
\* holds the lock acquires it again.
Obtainable(w, t) == lock[t] \in {NoWorker, w}

Acquire(w) ==
    /\ PollAt(w, "scan")
    /\ \E t \in poll[w].list :
        IF Obtainable(w, t)
        THEN /\ lock' = [lock EXCEPT ![t] = w]
             /\ poll' = [poll EXCEPT ![w].pc = "locked", ![w].cur = t, ![w].list = @ \ {t}]
        ELSE /\ poll' = [poll EXCEPT ![w].list = @ \ {t}]
             /\ UNCHANGED lock
    /\ UNCHANGED <<data, statusIdx, queue, slots, dead, idem, marked, client,
                   mode, active, forced, exec, halt, overrun>>

\* storage.get under the lock.  It throws on an unreadable hash; neither
\* claimNext nor poll() catches it, so the loop ends with the lock held.
Load(w) ==
    /\ PollAt(w, "locked")
    /\ LET t == poll[w].cur
           claimable == ~ Unreadable(t) /\ data[t].status \in Claimable
       IN  poll' = [poll EXCEPT
               ![w].pc = IF Unreadable(t) THEN "died"
                         ELSE IF ~ claimable THEN "drop"
                         ELSE IF t \in Handles[w] THEN "take" ELSE "skip",
               ![w].task = IF claimable
                           THEN [id |-> t, status |-> data[t].status, attempt |-> data[t].attempt]
                           ELSE NoClaim]
    /\ UNCHANGED <<store, client, mode, active, forced, exec, halt, overrun>>

\* The lock releases of the poll loop, with the point each returns to.
Unlock(w) ==
    /\ poll[w].pc \in {"drop", "skip", "buried", "yield"}
    /\ Release(w, poll[w].cur)
    /\ poll' = CASE poll[w].pc = "drop"   -> [poll EXCEPT ![w].pc = "unlist"]
                 [] poll[w].pc = "skip"   -> [poll EXCEPT ![w].pc = "scan"]
                 [] poll[w].pc = "yield"  -> [poll EXCEPT ![w].pc = "putback"]
                 [] poll[w].pc = "buried" -> [poll EXCEPT ![w] = IdlePoll]
    /\ UNCHANGED <<data, statusIdx, queue, slots, dead, idem, marked, client,
                   mode, active, forced, exec, halt, overrun>>

\* zrem, of an id that cannot run or of the task about to be returned.
Dequeue(w) ==
    /\ \/ poll[w].pc = "unlist" /\ Goto(w, "scan")
       \/ poll[w].pc = "take"   /\ Goto(w, "taken")
    /\ Unlist(poll[w].cur)
    /\ UNCHANGED <<data, statusIdx, lock, slots, dead, idem, marked, client,
                   mode, active, forced, exec, halt, overrun>>

\* No definition for the task's type: dlq.add begins with the status.
DispatchUnknown(w) ==
    /\ PollAt(w, "taken")
    /\ poll[w].cur \notin Registered
    /\ SetStatus(poll[w].cur, poll[w].task.status, "dead", data[poll[w].cur].attempt)
    /\ Goto(w, "bury")
    /\ UNCHANGED <<queue, lock, slots, dead, idem, marked, client,
                   mode, active, forced, exec, halt, overrun>>

BuryUnknown(w) ==
    /\ PollAt(w, "bury")
    /\ dead' = dead \cup {poll[w].cur}
    /\ Goto(w, "buried")
    /\ UNCHANGED <<data, statusIdx, queue, lock, slots, idem, marked, client,
                   mode, active, forced, exec, halt, overrun>>

\* Faulty variant of Admitted: one too many.
AdmittedOffByOne(count) == count - 1 <= MaxConcurrency

\* concurrencyLimiter.tryReserve: count first, then look.
Admitted(count) == count <= MaxConcurrency

\* A worker with a slot, or without a limiter, calls processTask and does not
\* wait for it.
Dispatch(w) ==
    /\ PollAt(w, "taken")
    /\ poll[w].cur \in Registered
    /\ LET limited == MaxConcurrency > 0
           t == poll[w].cur
       IN  /\ slots' = IF limited THEN slots + 1 ELSE slots
           /\ limited => Admitted(slots + 1)
           /\ \E l \in Lanes :
                /\ exec[w][l].pc = "idle"
                /\ exec' = [exec EXCEPT ![w][l] =
                       [pc |-> "start", task |-> poll[w].task, slot |-> limited, aborted |-> FALSE]]
                /\ active' = [active EXCEPT ![w][t] = l]
    /\ poll' = [poll EXCEPT ![w] = IdlePoll]
    /\ UNCHANGED <<data, statusIdx, queue, lock, dead, idem, marked, client,
                   mode, forced, halt, overrun>>

DispatchFull(w) ==
    /\ PollAt(w, "taken")
    /\ poll[w].cur \in Registered
    /\ MaxConcurrency > 0 /\ ~ Admitted(slots + 1)
    /\ slots' = slots + 1
    /\ Goto(w, "over")
    /\ UNCHANGED <<data, statusIdx, queue, lock, dead, idem, marked, client,
                   mode, active, forced, exec, halt, overrun>>

Uncount(w) ==
    /\ PollAt(w, "over")
    /\ slots' = slots - 1
    /\ Goto(w, "yield")
    /\ UNCHANGED <<data, statusIdx, queue, lock, dead, idem, marked, client,
                   mode, active, forced, exec, halt, overrun>>

\* Faulty variant of PutBack: the task is not put back.
PutBackForgotten(w) ==
    /\ PollAt(w, "putback")
    /\ poll' = [poll EXCEPT ![w] = IdlePoll]
    /\ UNCHANGED <<store, client, mode, active, forced, exec, halt, overrun>>

\* The lock is already free when the task goes back into its queue.
PutBack(w) ==
    /\ PollAt(w, "putback")
    /\ Enlist(poll[w].cur, "due")
    /\ poll' = [poll EXCEPT ![w] = IdlePoll]
    /\ UNCHANGED <<data, statusIdx, lock, slots, dead, idem, marked, client,
                   mode, active, forced, exec, halt, overrun>>

PollStep(w) == \/ Scan(w) \/ NextBucket(w) \/ Acquire(w) \/ Load(w) \/ Unlock(w)
               \/ Dequeue(w) \/ DispatchUnknown(w) \/ BuryUnknown(w) \/ Dispatch(w)
               \/ DispatchFull(w) \/ Uncount(w) \/ PutBack(w)

-----------------------------------------------------------------------------
(* processTask.  Its local code runs in the same turn as the store operation
   that follows it; "done" is the reply to the last one before finally. *)

ExecAt(w, l, pc) == exec[w][l].pc = pc
TaskOf(w, l)     == exec[w][l].task.id
Step(w, l, pc)   == exec' = [exec EXCEPT ![w][l].pc = pc]

\* With an idempotency key the completed marker is looked up first.
Start(w, l) ==
    /\ ExecAt(w, l, "start")
    /\ Step(w, l, IF KeyOf[TaskOf(w, l)] \in marked THEN "short" ELSE "begin")
    /\ UNCHANGED <<store, client, mode, poll, active, forced, halt, overrun>>

\* The key has run before: completed from the stored result, no handler.
Short(w, l) ==
    /\ ExecAt(w, l, "short")
    /\ SetStatus(TaskOf(w, l), exec[w][l].task.status, "completed", data[TaskOf(w, l)].attempt)
    /\ Step(w, l, "done")
    /\ UNCHANGED <<queue, lock, slots, dead, idem, marked, client,
                   mode, poll, active, forced, halt, overrun>>

Begin(w, l) ==
    /\ ExecAt(w, l, "begin")
    /\ SetStatus(TaskOf(w, l), exec[w][l].task.status, "running", data[TaskOf(w, l)].attempt)
    /\ Step(w, l, "handler")
    /\ UNCHANGED <<queue, lock, slots, dead, idem, marked, client,
                   mode, poll, active, forced, halt, overrun>>

\* The handler's result.  After a forced stop it is thrown away.
HandlerReturns(w, l) ==
    /\ ExecAt(w, l, "handler")
    /\ LET t == TaskOf(w, l) IN
       \/ /\ t \in forced[w]
          /\ Step(w, l, "done")
          /\ UNCHANGED <<data, statusIdx, marked>>
       \/ /\ t \notin forced[w] /\ KeyOf[t] # NoKey
          /\ marked' = marked \cup {KeyOf[t]}
          /\ Step(w, l, "settle")
          /\ UNCHANGED <<data, statusIdx>>
       \/ /\ t \notin forced[w] /\ KeyOf[t] = NoKey
          /\ SetStatus(t, "running", "completed", data[t].attempt)
          /\ Step(w, l, "done")
          /\ UNCHANGED marked
    /\ UNCHANGED <<queue, lock, slots, dead, idem, client,
                   mode, poll, active, forced, halt, overrun>>

Settle(w, l) ==
    /\ ExecAt(w, l, "settle")
    /\ SetStatus(TaskOf(w, l), "running", "completed", data[TaskOf(w, l)].attempt)
    /\ Step(w, l, "done")
    /\ UNCHANGED <<queue, lock, slots, dead, idem, marked, client,
                   mode, poll, active, forced, halt, overrun>>

\* Faulty variant of shouldRetry: one attempt too many.
ShouldRetryOnceMore(next) == next <= MaxAttempts

\* shouldRetry, for an error that retryOn accepts.
ShouldRetry(next) == next < MaxAttempts

\* handleTaskError: the next attempt is counted from the claimed copy, and
\* retryOn may refuse one that is left.
Retry(w, l, retryable) ==
    LET task == exec[w][l].task
        next == task.attempt + 1
    IN  IF retryable /\ ShouldRetry(next)
        THEN /\ SetStatus(task.id, "running", "scheduled", next)
             /\ Step(w, l, "requeue")
        ELSE /\ SetStatus(task.id, task.status, "dead", data[task.id].attempt)
             /\ Step(w, l, "bury")

\* The handler throws, or the timeout wins the race and leaves it running.
\* An aborted run goes back to its queue and costs no attempt.
HandlerThrows(w, l) ==
    /\ ExecAt(w, l, "handler")
    /\ LET t == TaskOf(w, l) IN
       /\ \/ /\ t \in forced[w]
             /\ Step(w, l, "done")
             /\ UNCHANGED <<data, statusIdx>>
          \/ /\ t \notin forced[w] /\ exec[w][l].aborted
             /\ SetStatus(t, "running", "scheduled", data[t].attempt)
             /\ Step(w, l, "readd")
          \/ /\ t \notin forced[w] /\ ~ exec[w][l].aborted
             /\ \E retryable \in BOOLEAN : Retry(w, l, retryable)
       /\ \/ UNCHANGED overrun
          \/ "overrun" \in Faults /\ overrun' = overrun \cup {<<w, t>>}
    /\ UNCHANGED <<queue, lock, slots, dead, idem, marked, client,
                   mode, poll, active, forced, halt>>

\* queue.add, after the backoff of a retry (which may be zero) or at once.
Requeue(w, l) ==
    /\ \/ ExecAt(w, l, "requeue") /\ \E when \in {"due", "later"} : Enlist(TaskOf(w, l), when)
       \/ ExecAt(w, l, "readd") /\ Enlist(TaskOf(w, l), "due")
    /\ Step(w, l, "done")
    /\ UNCHANGED <<data, statusIdx, lock, slots, dead, idem, marked, client,
                   mode, poll, active, forced, halt, overrun>>

Bury(w, l) ==
    /\ ExecAt(w, l, "bury")
    /\ dead' = dead \cup {TaskOf(w, l)}
    /\ Step(w, l, "done")
    /\ UNCHANGED <<data, statusIdx, queue, lock, slots, idem, marked, client,
                   mode, poll, active, forced, halt, overrun>>

\* Faulty variant of Returned: the slot is kept.
ReturnedNever(count) == count

\* concurrencyLimiter.release
Returned(count) == IF count > 0 THEN count - 1 ELSE 0

\* finally: the local sets, then the slot if there is one, then the lock.
Finally(w, l) ==
    /\ ExecAt(w, l, "done")
    /\ active' = [active EXCEPT ![w][TaskOf(w, l)] = NoLane]
    /\ forced' = [forced EXCEPT ![w] = @ \ {TaskOf(w, l)}]
    /\ IF exec[w][l].slot
       THEN /\ slots' = Returned(slots)
            /\ exec' = [exec EXCEPT ![w][l].pc = "unlock", ![w][l].slot = FALSE]
            /\ UNCHANGED lock
       ELSE /\ Release(w, TaskOf(w, l))
            /\ exec' = [exec EXCEPT ![w][l] = NoExec]
            /\ UNCHANGED slots
    /\ UNCHANGED <<data, statusIdx, queue, dead, idem, marked, client,
                   mode, poll, halt, overrun>>

\* Faulty variant of FinallyUnlock: the lock is left to its time to live.
FinallyWithoutUnlock(w, l) ==
    /\ ExecAt(w, l, "unlock")
    /\ exec' = [exec EXCEPT ![w][l] = NoExec]
    /\ UNCHANGED <<store, client, mode, poll, active, forced, halt, overrun>>

FinallyUnlock(w, l) ==
    /\ ExecAt(w, l, "unlock")
    /\ Release(w, TaskOf(w, l))
    /\ exec' = [exec EXCEPT ![w][l] = NoExec]
    /\ UNCHANGED <<data, statusIdx, queue, slots, dead, idem, marked, client,
                   mode, poll, active, forced, halt, overrun>>

\* The interval callback writes lastHeartbeatAt, which brings back a deleted
\* hash, and aborts the run when the lock is no longer this worker's.
Heartbeat(w, l) ==
    /\ exec[w][l].pc \notin {"idle", "unlock"}
    /\ LET t == TaskOf(w, l) IN
       /\ data[t].form = "none" \/ (lock[t] # w /\ ~ exec[w][l].aborted)
       /\ data' = [data EXCEPT ![t].form = IF @ = "none" THEN "partial" ELSE @]
       /\ exec' = [exec EXCEPT ![w][l].aborted = @ \/ lock[t] # w]
    /\ UNCHANGED <<statusIdx, queue, lock, slots, dead, idem, marked, client,
                   mode, poll, active, forced, halt, overrun>>

ExecStep(w, l) == \/ Start(w, l) \/ Short(w, l) \/ Begin(w, l) \/ HandlerReturns(w, l)
                  \/ Settle(w, l) \/ HandlerThrows(w, l) \/ Requeue(w, l) \/ Bury(w, l)
                  \/ Finally(w, l) \/ FinallyUnlock(w, l)

-----------------------------------------------------------------------------
(* stop(): every active task is aborted, requeued and unlocked, one by one *)

HaltAt(w, pc) == halt[w].pc = pc

StopBegin(w) ==
    /\ "stop" \in Faults
    /\ mode[w] = "up"
    /\ mode' = [mode EXCEPT ![w] = "stopped"]
    /\ halt' = [halt EXCEPT ![w].pc = "next"]
    /\ UNCHANGED <<store, client, poll, active, forced, exec, overrun>>

\* Whatever the task's status has become meanwhile, it is set to scheduled.
StopNext(w) ==
    /\ HaltAt(w, "next")
    /\ \E t \in ActiveOf(w) \ halt[w].seen :
        /\ forced' = [forced EXCEPT ![w] = @ \cup {t}]
        /\ exec' = [exec EXCEPT ![w][active[w][t]].aborted = TRUE]
        /\ SetStatus(t, "running", "scheduled", data[t].attempt)
        /\ halt' = [halt EXCEPT ![w].pc = "load", ![w].cur = t]
    /\ UNCHANGED <<queue, lock, slots, dead, idem, marked, client, mode, poll, active, overrun>>

\* storage.get: a missing record is not requeued, an unreadable one throws.
StopLoad(w) ==
    /\ HaltAt(w, "load")
    /\ halt' = [halt EXCEPT ![w].pc =
                   CASE data[halt[w].cur].form = "whole"   -> "enlist"
                     [] data[halt[w].cur].form = "none"    -> "unlock"
                     [] data[halt[w].cur].form = "partial" -> "died"]
    /\ UNCHANGED <<store, client, mode, poll, active, forced, exec, overrun>>

StopEnlist(w) ==
    /\ HaltAt(w, "enlist")
    /\ Enlist(halt[w].cur, "due")
    /\ halt' = [halt EXCEPT ![w].pc = "unlock"]
    /\ UNCHANGED <<data, statusIdx, lock, slots, dead, idem, marked, client,
                   mode, poll, active, forced, exec, overrun>>

StopUnlock(w) ==
    /\ HaltAt(w, "unlock")
    /\ Release(w, halt[w].cur)
    /\ halt' = [halt EXCEPT ![w] = [pc |-> "next", cur |-> NoTask, seen |-> @.seen \cup {@.cur}]]
    /\ UNCHANGED <<data, statusIdx, queue, slots, dead, idem, marked, client,
                   mode, poll, active, forced, exec, overrun>>

StopEnd(w) ==
    /\ HaltAt(w, "next")
    /\ ActiveOf(w) \subseteq halt[w].seen
    /\ active' = [active EXCEPT ![w] = [t \in Tasks |-> NoLane]]
    /\ halt' = [halt EXCEPT ![w].pc = "over"]
    /\ UNCHANGED <<store, client, mode, poll, forced, exec, overrun>>

StopStep(w) == \/ StopBegin(w) \/ StopNext(w) \/ StopLoad(w) \/ StopEnlist(w)
               \/ StopUnlock(w) \/ StopEnd(w)

-----------------------------------------------------------------------------
(* Time and failures *)

\* A delay or a backoff runs out.
Tick(t) ==
    /\ queue[t] = "later"
    /\ Enlist(t, "due")
    /\ UNCHANGED <<data, statusIdx, lock, slots, dead, idem, marked, client, local>>

\* Is some routine of w still occupied with t?
Engaged(w, t) ==
    \/ poll[w].cur = t /\ poll[w].pc \notin {"idle", "scan", "died"}
    \/ \E l \in Lanes : exec[w][l].pc # "idle" /\ TaskOf(w, l) = t
    \/ halt[w].cur = t /\ halt[w].pc # "died"

\* The lock's time to live ends: the heartbeats of a live routine prevent it,
\* unless the process stalls for longer than that.
Lapse(t) ==
    /\ lock[t] # NoWorker
    /\ "lapse" \in Faults \/ ~ Engaged(lock[t], t)
    /\ lock' = [lock EXCEPT ![t] = NoWorker]
    /\ UNCHANGED <<data, statusIdx, queue, slots, dead, idem, marked, client, local>>

\* The first read after resultExpiresAt deletes the record of a completed task.
ExpireResult(t) ==
    /\ data[t].form = "whole" /\ data[t].status = "completed"
    /\ Delete(t)
    /\ UNCHANGED <<queue, lock, slots, dead, marked, client, local>>

\* A handler that outlived its timeout comes to an end; nobody listens.
OverrunEnds(w, t) ==
    /\ <<w, t>> \in overrun
    /\ overrun' = overrun \ {<<w, t>>}
    /\ UNCHANGED <<store, client, mode, poll, active, forced, exec, halt>>

\* The process of a worker is gone, with all it had in memory.
Crash(w) ==
    /\ "crash" \in Faults
    /\ mode[w] # "gone"
    /\ mode' = [mode EXCEPT ![w] = "gone"]
    /\ poll' = [poll EXCEPT ![w] = IdlePoll]
    /\ active' = [active EXCEPT ![w] = [t \in Tasks |-> NoLane]]
    /\ forced' = [forced EXCEPT ![w] = {}]
    /\ exec' = [exec EXCEPT ![w] = [l \in Lanes |-> NoExec]]
    /\ halt' = [halt EXCEPT ![w] = NoHalt]
    /\ overrun' = overrun \ ({w} \X Tasks)
    /\ UNCHANGED <<store, client>>

Next ==
    \/ \E t \in Tasks : ClientStep(t) \/ Tick(t) \/ Lapse(t) \/ ExpireResult(t)
    \/ \E w \in Workers : PollStep(w) \/ StopStep(w) \/ Crash(w)
    \/ \E w \in Workers, l \in Lanes : ExecStep(w, l) \/ Heartbeat(w, l)
    \/ \E w \in Workers, t \in Tasks : OverrunEnds(w, t)

\* An awaited operation returns, a handler ends or times out, and a delay runs
\* out.  Nobody has to submit or cancel anything, to stop or to crash.
Fairness ==
    /\ \A t \in Tasks : WF_vars(Submits(t)) /\ WF_vars(Tick(t)) /\ WF_vars(Lapse(t))
    /\ \A w \in Workers : WF_vars(PollStep(w))
    /\ \A w \in Workers, l \in Lanes : WF_vars(ExecStep(w, l))

Spec == Init /\ [][Next]_vars
FairSpec == Spec /\ Fairness

-----------------------------------------------------------------------------
(* What holds in every deployment *)

\* A worker holds a task's lock only while one of its routines is occupied
\* with the task, until its process is gone or its loop or stop() has thrown:
\* no path of claimNext, poll, processTask or stop forgets a release.
NoLockLeak ==
    \A t \in Tasks : LET w == lock[t] IN
        w # NoWorker => \/ Engaged(w, t)
                        \/ mode[w] = "gone"
                        \/ "died" \in {poll[w].pc, halt[w].pc}

Runs == Workers \X Lanes
SlotHolders == {r \in Runs : exec[r[1]][r[2]].slot}
Counted == {w \in Workers : poll[w].pc = "over"}

\* tryReserve and release keep the counter at least as high as the number of
\* runs that own a slot, so never more than maxConcurrency do, whoever
\* crashes and however the counting interleaves.
ConcurrencyCap ==
    /\ SlotHolders # {} => Cardinality(SlotHolders) <= MaxConcurrency
    /\ Cardinality(SlotHolders) + Cardinality(Counted) <= slots

\* updateStatus, store and delete never leave a stored task out of the index
\* of the status it has, but for a moment while it is stored: a query by status finds it.
StatusFindable ==
    \A t \in Tasks : data[t].status # "none" /\ sub[t] # "hashed" => t \in statusIdx[data[t].status]

-----------------------------------------------------------------------------
(* What holds in some deployments only *)

\* The handlers of t that are executing.
Executing(t) == {r \in Runs : ExecAt(r[1], r[2], "handler") /\ TaskOf(r[1], r[2]) = t}
                \cup (overrun \cap (Workers \X {t}))

\* "Only one worker executes a task at a time": holds for one worker whose
\* handlers keep to their timeout, and for tasks with a single attempt.
ExclusiveExecution == \A t \in Tasks : Cardinality(Executing(t)) <= 1

\* Somebody who will still finish t or put it back into its queue.
InHand(w, t) ==
    \/ poll[w].cur = t /\ poll[w].pc \in {"take", "taken", "over", "yield", "putback", "bury"}
    \/ \E l \in Lanes : TaskOf(w, l) = t /\ exec[w][l].pc \notin {"idle", "done", "unlock"}
    \/ halt[w].cur = t /\ halt[w].pc \in {"load", "enlist"}

\* An unfinished task is never forgotten: it is in its queue, or in the hands
\* of a process that is still there.  One worker never loses a task.
NothingStranded ==
    \A t \in Tasks : Live(t) =>
        sub[t] \in Storing \/ queue[t] # "absent" \/ \E w \in Workers : InHand(w, t)

\* Once it has left the claimable states a task never comes back to them: with
\* a single attempt its handler is started once.
NeverRunAgain ==
    [][\A t \in Tasks : data[t].status \notin Claimable \cup {"none"}
                          => data'[t].status \notin Claimable]_vars

\* A run goes back to the queue because its worker lost the lock.
RunAborted == \E w \in Workers, l \in Lanes : ExecAt(w, l, "handler") /\ exec'[w][l].pc = "readd"

\* Every submitted task is completed or buried in the end, unless its runs are
\* aborted over and over (an aborted run costs no attempt).
Finishes == <>[][~ RunAborted]_vars => \A t \in Tasks : Live(t) ~> ~ Live(t)

\* "If worker dies, claim expires after timeout, allowing reclaim": while a
\* worker survives, what was submitted is still completed or buried.
ReclaimedAfterCrash == (\E w \in Workers : []<>(mode[w] = "up")) => Finishes

\* A poison task "does NOT block other tasks in queue": what nobody cancels is
\* completed or buried, whatever happens to a cancelled task.
CancelBlocksNobody ==
    <>[][~ RunAborted]_vars
        => \A t \in Tasks : Live(t) ~> (~ Live(t) \/ cancel[t] # "idle")

\* Seen from outside, a task goes through the states of TaskLifecycle.
Lifecycle == INSTANCE TaskLifecycle WITH
    life <- [t \in Tasks |-> IF data[t].form # "whole" THEN "absent"
                             ELSE IF data[t].status \in Claimable THEN "waiting"
                             ELSE data[t].status],
    tries <- [t \in Tasks |-> data[t].attempt],
    answered <- marked

FollowsLifecycle == Lifecycle!Spec
=============================================================================
