-------------------------- MODULE TaskQueueProofs --------------------------
(***************************************************************************)
(* Invariants of TaskQueue for every number of tasks, workers, lanes,      *)
(* attempts and slots and for every combination of faults.                 *)
(*                                                                         *)
(* TypeOK alone is not inductive: a routine copies task ids from its own   *)
(* program counter's record into the shared state.  Typed adds what the    *)
(* routines know about the id they carry at each point.  The last two      *)
(* parts are about what the workers hold in common: the task locks and the *)
(* slots of a task type's concurrency limit.                               *)
(***************************************************************************)
EXTENDS TaskQueue, FiniteSetTheorems, TLAPS

\* The poll loop carries a task id once it has one, and the claim it is about
\* to return is the claim of that id.
PollOK ==
    \A w \in Workers :
        /\ poll[w].pc \notin {"idle", "scan"} => poll[w].cur \in Tasks
        /\ poll[w].pc \in {"take", "taken"} => poll[w].task.id = poll[w].cur

\* A lane in use carries a task id, and none keeps its slot to the end.
ExecOK ==
    \A w \in Workers, l \in Lanes :
        /\ exec[w][l].pc # "idle" => exec[w][l].task.id \in Tasks
        /\ exec[w][l].pc \in {"idle", "unlock"} => ~ exec[w][l].slot

\* stop() carries a task id exactly while it is requeueing one, and a worker
\* that is up has not called it.
HaltOK ==
    \A w \in Workers :
        /\ mode[w] = "up" => halt[w] = NoHalt
        /\ IF halt[w].pc \in {"idle", "next", "over"} THEN halt[w].cur = NoTask
           ELSE halt[w].cur \in Tasks

Typed == TypeOK /\ PollOK /\ ExecOK /\ HaltOK

LEMMA TypedInit == Init => Typed
  BY SetsAssumption, BoundsAssumption, TablesAssumption
     DEF Init, Typed, TypeOK, PollOK, ExecOK, HaltOK, Hash, NoHash, Claim, NoClaim, Poll, IdlePoll,
         Exec, NoExec, Halt, NoHalt, Statuses, Claimable, Attempts, PollPc, ExecPc, Modes

USE DEF store, client, local, Storing, Submits

(* What the shared operators do to the types *)

LEMMA SetStatusTyped ==
  ASSUME data \in [Tasks -> Hash], statusIdx \in [Statuses -> SUBSET Tasks],
         NEW t \in Tasks, NEW old, NEW new \in Statuses, NEW attempt \in Attempts,
         SetStatus(t, old, new, attempt)
  PROVE  /\ data' \in [Tasks -> Hash]
         /\ statusIdx' \in [Statuses -> SUBSET Tasks]
  BY DEF SetStatus, Hash

LEMMA AttemptTyped ==
  ASSUME data \in [Tasks -> Hash], NEW t \in Tasks
  PROVE  data[t].attempt \in Attempts
  BY DEF Hash

LEMMA DeleteTyped ==
  ASSUME TypeOK, NEW t \in Tasks, Delete(t)
  PROVE  /\ data' \in [Tasks -> Hash]
         /\ statusIdx' \in [Statuses -> SUBSET Tasks]
         /\ idem' \in [Keys -> Tasks \cup {NoTask}]
  BY BoundsAssumption DEF TypeOK, Delete, Hash, NoHash, Attempts

LEMMA NoExecTyped == NoExec \in Exec /\ NoExec.pc = "idle" /\ ~ NoExec.slot
  BY BoundsAssumption DEF NoExec, Exec, ExecPc, Claim, NoClaim, Claimable, Attempts

\* One lane is given a new record.
LEMMA ExecTyped ==
  ASSUME exec \in [Workers -> [Lanes -> Exec]], ExecOK,
         NEW w \in Workers, NEW l \in Lanes, NEW r \in Exec, exec' = [exec EXCEPT ![w][l] = r],
         r.pc # "idle" => r.task.id \in Tasks,
         r.pc \in {"idle", "unlock"} => ~ r.slot
  PROVE  exec' \in [Workers -> [Lanes -> Exec]] /\ ExecOK'
  BY DEF ExecOK

LEMMA StepTyped ==
  ASSUME exec \in [Workers -> [Lanes -> Exec]], ExecOK,
         NEW w \in Workers, NEW l \in Lanes, NEW pc \in ExecPc \ {"idle", "unlock"},
         exec[w][l].pc # "idle", Step(w, l, pc)
  PROVE  exec' \in [Workers -> [Lanes -> Exec]] /\ ExecOK'
  <1> DEFINE r == [exec[w][l] EXCEPT !.pc = pc]
  <1>1. r \in Exec /\ r.pc = pc /\ r.task = exec[w][l].task  BY DEF Exec
  <1>2. exec[w][l].task.id \in Tasks  BY DEF ExecOK
  <1>3. exec' = [exec EXCEPT ![w][l] = r]  BY DEF Step
  <1> HIDE DEF r
  <1> QED  BY <1>1, <1>2, <1>3, ExecTyped

(* Every action preserves Typed *)

LEMMA TypedClient ==
  ASSUME NEW t \in Tasks, Typed, ClientStep(t)
  PROVE  Typed'
  <1> USE DEF Typed, TypeOK, PollOK, ExecOK, HaltOK
  <1>1. CASE EnqueueCheck(t)  BY <1>1 DEF EnqueueCheck
  <1>2. CASE EnqueueStore(t)
    BY <1>2, TablesAssumption, BoundsAssumption DEF EnqueueStore, Hash, Statuses, Attempts
  <1>3. CASE EnqueueAdd(t)    BY <1>3 DEF EnqueueAdd, Enlist
  <1>7. CASE EnqueueIndex(t)  BY <1>7 DEF EnqueueIndex
  <1>8. CASE EnqueueKey(t)    BY <1>8 DEF EnqueueKey
  <1>4. CASE CancelCheck(t)   BY <1>4 DEF CancelCheck
  <1>5. CASE CancelUnlist(t)  BY <1>5 DEF CancelUnlist, Unlist
  <1>6. CASE CancelDelete(t)
    <2>1. /\ data' \in [Tasks -> Hash]
          /\ statusIdx' \in [Statuses -> SUBSET Tasks]
          /\ idem' \in [Keys -> Tasks \cup {NoTask}]
      BY <1>6, DeleteTyped DEF CancelDelete
    <2> QED  BY <1>6, <2>1 DEF CancelDelete
  <1> QED  BY <1>1, <1>2, <1>3, <1>4, <1>5, <1>6, <1>7, <1>8 DEF ClientStep

LEMMA PollTyped ==
  ASSUME poll \in [Workers -> Poll], PollOK,
         NEW w \in Workers, NEW r \in Poll, poll' = [poll EXCEPT ![w] = r],
         r.pc \notin {"idle", "scan"} => r.cur \in Tasks,
         r.pc \in {"take", "taken"} => r.task.id = r.cur
  PROVE  poll' \in [Workers -> Poll] /\ PollOK'
  BY DEF PollOK

\* A step of the loop that only moves on.
LEMMA GotoTyped ==
  ASSUME poll \in [Workers -> Poll], PollOK,
         NEW w \in Workers, NEW pc \in PollPc, Goto(w, pc),
         pc \notin {"idle", "scan"} => poll[w].cur \in Tasks,
         pc \in {"take", "taken"} => poll[w].task.id = poll[w].cur
  PROVE  poll' \in [Workers -> Poll] /\ PollOK'
  <1> DEFINE r == [poll[w] EXCEPT !.pc = pc]
  <1>1. r \in Poll
    <2>1. \A p \in Poll : [p EXCEPT !.pc = pc] \in Poll  BY DEF Poll
    <2> QED  BY <2>1
  <1>2. r.pc = pc /\ r.cur = poll[w].cur /\ r.task = poll[w].task  BY DEF Poll
  <1>3. poll' = [poll EXCEPT ![w] = r]  BY DEF Goto
  <1> QED  BY <1>1, <1>2, <1>3, PollTyped

LEMMA IdlePollTyped == IdlePoll \in Poll
  BY BoundsAssumption DEF IdlePoll, Poll, PollPc, Claim, NoClaim, Claimable, Attempts

LEMMA TypedPoll ==
  ASSUME NEW w \in Workers, Typed, PollStep(w)
  PROVE  Typed'
  <1> USE DEF PollAt
  <1>a. /\ poll \in [Workers -> Poll] /\ PollOK
        /\ poll[w] \in Poll
        /\ poll[w].pc \notin {"idle", "scan"} => poll[w].cur \in Tasks
    BY DEF Typed, TypeOK, PollOK
  <1>1. CASE Scan(w)
    <2>5. PICK batch \in Batches(1) :
            poll' = [poll EXCEPT ![w].pc = "scan", ![w].list = batch]
      BY <1>1 DEF Scan
    <2> DEFINE r == [poll[w] EXCEPT !.pc = "scan", !.list = batch]
    <2>1. r \in Poll  BY <1>a DEF Poll, PollPc, Batches, DueIn
    <2>2. r.pc = "scan"  BY <1>a DEF Poll
    <2>3. poll' = [poll EXCEPT ![w] = r]  BY <2>5
    <2>4. poll' \in [Workers -> Poll] /\ PollOK'  BY <1>a, <2>1, <2>2, <2>3, PollTyped
    <2> QED  BY <1>1, <2>4 DEF Scan, Typed, TypeOK, ExecOK, HaltOK
  <1>2. CASE NextBucket(w)
    <2>1. \E r \in Poll : r.pc \in {"scan", "idle"} /\ poll' = [poll EXCEPT ![w] = r]
      <3>1. CASE poll[w].bucket < Buckets
        <4> DEFINE next == poll[w].bucket + 1
        <4>1. PICK batch \in Batches(next) :
                poll' = [poll EXCEPT ![w].bucket = next, ![w].list = batch]
          BY <1>2, <3>1 DEF NextBucket
        <4> DEFINE r == [poll[w] EXCEPT !.bucket = next, !.list = batch]
        <4>2. poll[w].bucket \in 1..Buckets  BY <1>a DEF Poll
        <4>3. next \in 1..Buckets  BY <3>1, <4>2, BoundsAssumption
        <4>4. batch \in SUBSET Tasks  BY DEF Batches, DueIn
        <4>5. poll' = [poll EXCEPT ![w] = r]  BY <4>1
        <4> HIDE DEF next
        <4>6. r \in Poll /\ r.pc = poll[w].pc  BY <1>a, <4>3, <4>4 DEF Poll
        <4> QED  BY <1>2, <4>5, <4>6 DEF NextBucket
      <3>2. CASE ~ (poll[w].bucket < Buckets)
        <4>1. poll' = [poll EXCEPT ![w] = IdlePoll]  BY <1>2, <3>2 DEF NextBucket
        <4>2. IdlePoll.pc = "idle"  BY DEF IdlePoll
        <4> QED  BY <4>1, <4>2, IdlePollTyped
      <3> QED  BY <3>1, <3>2
    <2>2. PICK r \in Poll : r.pc \in {"scan", "idle"} /\ poll' = [poll EXCEPT ![w] = r]
      BY <2>1
    <2>3. poll' \in [Workers -> Poll] /\ PollOK'  BY <1>a, <2>2, PollTyped
    <2> QED  BY <1>2, <2>3 DEF NextBucket, Typed, TypeOK, ExecOK, HaltOK
  <1>3. CASE Acquire(w)
    <2>1. PICK t \in poll[w].list :
            IF Obtainable(w, t)
            THEN /\ lock' = [lock EXCEPT ![t] = w]
                 /\ poll' = [poll EXCEPT ![w].pc = "locked", ![w].cur = t, ![w].list = @ \ {t}]
            ELSE /\ poll' = [poll EXCEPT ![w].list = @ \ {t}]
                 /\ UNCHANGED lock
      BY <1>3 DEF Acquire
    <2> DEFINE r == IF Obtainable(w, t)
                    THEN [poll[w] EXCEPT !.pc = "locked", !.cur = t, !.list = @ \ {t}]
                    ELSE [poll[w] EXCEPT !.list = @ \ {t}]
    <2>2. t \in Tasks  BY <1>a DEF Poll
    <2>3. r \in Poll  BY <1>a, <2>2 DEF Poll, PollPc
    <2>4. r.pc \in {"scan", "locked"} /\ (r.pc = "locked" => r.cur = t)
      BY <1>a, <1>3 DEF Acquire, Poll
    <2>5. poll' = [poll EXCEPT ![w] = r]  BY <2>1
    <2>6. poll' \in [Workers -> Poll] /\ PollOK'
      <3> HIDE DEF r
      <3> QED  BY <1>a, <2>2, <2>3, <2>4, <2>5, PollTyped
    <2>7. lock' \in [Tasks -> Workers \cup {NoWorker}]  BY <2>1, <2>2 DEF Typed, TypeOK
    <2> QED  BY <1>3, <2>6, <2>7 DEF Acquire, Typed, TypeOK, ExecOK, HaltOK
  <1>4. CASE Load(w)
    <2> DEFINE t == poll[w].cur
               ok == ~ Unreadable(t) /\ data[t].status \in Claimable
               pc == IF Unreadable(t) THEN "died"
                     ELSE IF ~ ok THEN "drop"
                     ELSE IF t \in Handles[w] THEN "take" ELSE "skip"
               c == IF ok THEN [id |-> t, status |-> data[t].status, attempt |-> data[t].attempt]
                    ELSE NoClaim
               r == [poll[w] EXCEPT !.pc = pc, !.task = c]
    <2>1. t \in Tasks  BY <1>4, <1>a DEF Load
    <2>2. c \in Claim
      <3>1. data[t].attempt \in Attempts  BY <2>1, AttemptTyped DEF Typed, TypeOK
      <3> QED  BY <2>1, <3>1, BoundsAssumption DEF Claim, NoClaim, Claimable, Attempts
    <2>3. /\ pc \in {"died", "drop", "take", "skip"}
          /\ pc = "take" => c.id = t
      OBVIOUS
    <2>4. poll' = [poll EXCEPT ![w] = r]  BY <1>4 DEF Load
    <2>5. poll' \in [Workers -> Poll] /\ PollOK'
      <3> HIDE DEF c, pc
      <3>1. r \in Poll  BY <1>a, <2>2, <2>3 DEF Poll, PollPc
      <3>2. r.pc = pc /\ r.cur = t /\ r.task = c  BY <1>a DEF Poll
      <3> HIDE DEF r
      <3> QED  BY <1>a, <2>1, <2>3, <2>4, <3>1, <3>2, PollTyped
    <2> QED  BY <1>4, <2>5 DEF Load, Typed, TypeOK, ExecOK, HaltOK
  <1>5. CASE Unlock(w)
    <2>1. poll' \in [Workers -> Poll] /\ PollOK'
      <3>1. CASE poll[w].pc = "drop"
        BY <1>5, <1>a, <3>1, GotoTyped DEF Unlock, Goto, PollPc
      <3>2. CASE poll[w].pc = "skip"
        BY <1>5, <1>a, <3>2, GotoTyped DEF Unlock, Goto, PollPc
      <3>3. CASE poll[w].pc = "yield"
        BY <1>5, <1>a, <3>3, GotoTyped DEF Unlock, Goto, PollPc
      <3>4. CASE poll[w].pc = "buried"
        BY <1>5, <1>a, <3>4, PollTyped, IdlePollTyped DEF Unlock, IdlePoll
      <3> QED  BY <1>5, <3>1, <3>2, <3>3, <3>4 DEF Unlock
    <2>2. lock' \in [Tasks -> Workers \cup {NoWorker}]
      BY <1>5 DEF Unlock, Release, Typed, TypeOK
    <2> QED  BY <1>5, <2>1, <2>2 DEF Unlock, Typed, TypeOK, ExecOK, HaltOK
  <1>6. CASE Dequeue(w)
    <2>1. poll' \in [Workers -> Poll] /\ PollOK'
      <3>1. CASE poll[w].pc = "unlist" /\ Goto(w, "scan")
        BY <1>a, <3>1, GotoTyped DEF PollPc
      <3>2. CASE poll[w].pc = "take" /\ Goto(w, "taken")
        <4>1. poll[w].task.id = poll[w].cur  BY <1>a, <3>2 DEF PollOK
        <4> QED  BY <1>a, <3>2, <4>1, GotoTyped DEF PollPc
      <3> QED  BY <1>6, <3>1, <3>2 DEF Dequeue
    <2> QED  BY <1>6, <2>1 DEF Dequeue, Unlist, Typed, TypeOK, ExecOK, HaltOK
  <1>7. CASE DispatchUnknown(w)
    <2>1. poll[w].cur \in Tasks /\ "dead" \in Statuses
      BY <1>7, <1>a DEF DispatchUnknown, Statuses
    <2>2. /\ data' \in [Tasks -> Hash]
          /\ statusIdx' \in [Statuses -> SUBSET Tasks]
      BY <1>7, <2>1, SetStatusTyped, AttemptTyped DEF DispatchUnknown, Typed, TypeOK
    <2>3. poll' \in [Workers -> Poll] /\ PollOK'
      BY <1>7, <1>a, GotoTyped DEF DispatchUnknown, PollPc
    <2> QED  BY <1>7, <2>2, <2>3 DEF DispatchUnknown, Typed, TypeOK, ExecOK, HaltOK
  <1>8. CASE BuryUnknown(w)
    <2>1. poll' \in [Workers -> Poll] /\ PollOK'
      BY <1>8, <1>a, GotoTyped DEF BuryUnknown, PollPc
    <2>2. dead' \subseteq Tasks  BY <1>8, <1>a DEF BuryUnknown, Typed, TypeOK
    <2> QED  BY <1>8, <2>1, <2>2 DEF BuryUnknown, Typed, TypeOK, ExecOK, HaltOK
  <1>9. CASE Dispatch(w)
    <2>1. PICK l \in Lanes :
            /\ exec[w][l].pc = "idle"
            /\ exec' = [exec EXCEPT ![w][l] =
                   [pc |-> "start", task |-> poll[w].task, slot |-> MaxConcurrency > 0,
                    aborted |-> FALSE]]
            /\ active' = [active EXCEPT ![w][poll[w].cur] = l]
      BY <1>9 DEF Dispatch
    <2>2. poll[w].task \in Claim /\ poll[w].task.id \in Tasks
      BY <1>9, <1>a DEF Dispatch, Poll, PollOK
    <2>3. exec' \in [Workers -> [Lanes -> Exec]]
      BY <2>1, <2>2 DEF Exec, ExecPc, Typed, TypeOK
    <2>4. ExecOK'  BY <2>1, <2>2 DEF ExecOK, Typed, TypeOK
    <2>5. active' \in [Workers -> [Tasks -> Lanes \cup {NoLane}]]  BY <2>1 DEF Typed, TypeOK
    <2>6. poll' \in [Workers -> Poll] /\ PollOK'
      BY <1>9, <1>a, IdlePollTyped, PollTyped DEF Dispatch, IdlePoll
    <2>7. slots' \in Int  BY <1>9 DEF Dispatch, Typed, TypeOK
    <2> QED  BY <1>9, <2>3, <2>4, <2>5, <2>6, <2>7 DEF Dispatch, Typed, TypeOK, HaltOK
  <1>10. CASE DispatchFull(w)
    <2>1. poll' \in [Workers -> Poll] /\ PollOK'
      BY <1>10, <1>a, GotoTyped DEF DispatchFull, PollPc
    <2> QED  BY <1>10, <2>1 DEF DispatchFull, Typed, TypeOK, ExecOK, HaltOK
  <1>11. CASE Uncount(w)
    <2>1. poll' \in [Workers -> Poll] /\ PollOK'
      BY <1>11, <1>a, GotoTyped DEF Uncount, PollPc
    <2> QED  BY <1>11, <2>1 DEF Uncount, Typed, TypeOK, ExecOK, HaltOK
  <1>12. CASE PutBack(w)
    <2>1. poll' \in [Workers -> Poll] /\ PollOK'
      BY <1>12, <1>a, IdlePollTyped, PollTyped DEF PutBack, IdlePoll
    <2> QED  BY <1>12, <2>1 DEF PutBack, Enlist, Typed, TypeOK, ExecOK, HaltOK
  <1> QED  BY <1>1, <1>2, <1>3, <1>4, <1>5, <1>6, <1>7, <1>8, <1>9, <1>10, <1>11, <1>12 DEF PollStep

LEMMA TypedExec ==
  ASSUME NEW w \in Workers, NEW l \in Lanes, Typed, ExecStep(w, l) \/ Heartbeat(w, l)
  PROVE  Typed'
  <1> USE DEF ExecAt
  <1> DEFINE t == TaskOf(w, l)
  <1>a. /\ exec \in [Workers -> [Lanes -> Exec]] /\ ExecOK
        /\ exec[w][l] \in Exec
        /\ exec[w][l].pc # "idle" => t \in Tasks
        /\ data \in [Tasks -> Hash] /\ statusIdx \in [Statuses -> SUBSET Tasks]
    BY DEF Typed, TypeOK, ExecOK, TaskOf
  <1>1. CASE Start(w, l)
    <2>1. exec' \in [Workers -> [Lanes -> Exec]] /\ ExecOK'
      BY <1>1, <1>a, StepTyped DEF Start, ExecPc
    <2> QED  BY <1>1, <2>1 DEF Start, Typed, TypeOK, PollOK, HaltOK
  <1>2. CASE Short(w, l)
    <2>1. /\ data' \in [Tasks -> Hash]
          /\ statusIdx' \in [Statuses -> SUBSET Tasks]
      BY <1>2, <1>a, SetStatusTyped, AttemptTyped DEF Short, Statuses
    <2>2. exec' \in [Workers -> [Lanes -> Exec]] /\ ExecOK'
      BY <1>2, <1>a, StepTyped DEF Short, ExecPc
    <2> QED  BY <1>2, <2>1, <2>2 DEF Short, Typed, TypeOK, PollOK, HaltOK
  <1>3. CASE Begin(w, l)
    <2>1. /\ data' \in [Tasks -> Hash]
          /\ statusIdx' \in [Statuses -> SUBSET Tasks]
      BY <1>3, <1>a, SetStatusTyped, AttemptTyped DEF Begin, Statuses
    <2>2. exec' \in [Workers -> [Lanes -> Exec]] /\ ExecOK'
      BY <1>3, <1>a, StepTyped DEF Begin, ExecPc
    <2> QED  BY <1>3, <2>1, <2>2 DEF Begin, Typed, TypeOK, PollOK, HaltOK
  <1>4. CASE HandlerReturns(w, l)
    <2>1. t \in Tasks  BY <1>4, <1>a DEF HandlerReturns
    <2>2. /\ data' \in [Tasks -> Hash]
          /\ statusIdx' \in [Statuses -> SUBSET Tasks]
      BY <1>4, <1>a, <2>1, SetStatusTyped, AttemptTyped DEF HandlerReturns, Statuses
    <2>3. exec' \in [Workers -> [Lanes -> Exec]] /\ ExecOK'
      BY <1>4, <1>a, StepTyped DEF HandlerReturns, ExecPc
    <2>4. marked' \subseteq Keys
      BY <1>4, <2>1, TablesAssumption DEF HandlerReturns, Typed, TypeOK
    <2> QED  BY <1>4, <2>2, <2>3, <2>4 DEF HandlerReturns, Typed, TypeOK, PollOK, HaltOK
  <1>5. CASE Settle(w, l)
    <2>1. /\ data' \in [Tasks -> Hash]
          /\ statusIdx' \in [Statuses -> SUBSET Tasks]
      BY <1>5, <1>a, SetStatusTyped, AttemptTyped DEF Settle, Statuses
    <2>2. exec' \in [Workers -> [Lanes -> Exec]] /\ ExecOK'
      BY <1>5, <1>a, StepTyped DEF Settle, ExecPc
    <2> QED  BY <1>5, <2>1, <2>2 DEF Settle, Typed, TypeOK, PollOK, HaltOK
  <1>6. CASE HandlerThrows(w, l)
    <2>1. t \in Tasks /\ exec[w][l].pc # "idle"  BY <1>6, <1>a DEF HandlerThrows
    <2>2. \/ /\ Step(w, l, "done")
             /\ UNCHANGED <<data, statusIdx>>
          \/ /\ SetStatus(t, "running", "scheduled", data[t].attempt)
             /\ Step(w, l, "readd")
          \/ \E retryable \in BOOLEAN : Retry(w, l, retryable)
      BY <1>6 DEF HandlerThrows
    <2>3. /\ data' \in [Tasks -> Hash] /\ statusIdx' \in [Statuses -> SUBSET Tasks]
          /\ exec' \in [Workers -> [Lanes -> Exec]] /\ ExecOK'
      <3>1. CASE Step(w, l, "done") /\ UNCHANGED <<data, statusIdx>>
        BY <1>a, <2>1, <3>1, StepTyped DEF ExecPc
      <3>2. CASE /\ SetStatus(t, "running", "scheduled", data[t].attempt)
                 /\ Step(w, l, "readd")
        BY <1>a, <2>1, <3>2, StepTyped, SetStatusTyped, AttemptTyped DEF ExecPc, Statuses
      <3>3. ASSUME NEW retryable \in BOOLEAN, Retry(w, l, retryable)
            PROVE  /\ data' \in [Tasks -> Hash] /\ statusIdx' \in [Statuses -> SUBSET Tasks]
                   /\ exec' \in [Workers -> [Lanes -> Exec]] /\ ExecOK'
        <4> DEFINE next == exec[w][l].task.attempt + 1
        <4>1. ShouldRetry(next) => next \in Attempts
          BY <1>a, BoundsAssumption DEF ShouldRetry, Exec, Claim, Attempts
        <4>2. CASE /\ ShouldRetry(next)
                   /\ SetStatus(t, "running", "scheduled", next)
                   /\ Step(w, l, "requeue")
          <5> HIDE DEF next
          <5> QED  BY <1>a, <2>1, <4>1, <4>2, StepTyped, SetStatusTyped DEF ExecPc, Statuses
        <4>3. CASE /\ SetStatus(t, exec[w][l].task.status, "dead", data[t].attempt)
                   /\ Step(w, l, "bury")
          BY <1>a, <2>1, <4>3, StepTyped, SetStatusTyped, AttemptTyped DEF ExecPc, Statuses
        <4> QED  BY <3>3, <4>2, <4>3 DEF Retry, TaskOf
      <3> QED  BY <2>2, <3>1, <3>2, <3>3
    <2>4. overrun' \subseteq Workers \X Tasks
      BY <1>6, <2>1 DEF HandlerThrows, Typed, TypeOK
    <2> QED  BY <1>6, <2>3, <2>4 DEF HandlerThrows, Typed, TypeOK, PollOK, HaltOK
  <1>7. CASE Requeue(w, l)
    <2>1. exec' \in [Workers -> [Lanes -> Exec]] /\ ExecOK'
      BY <1>7, <1>a, StepTyped DEF Requeue, ExecPc
    <2>2. queue' \in [Tasks -> {"absent", "later", "due"}]
      BY <1>7 DEF Requeue, Enlist, Typed, TypeOK
    <2> QED  BY <1>7, <2>1, <2>2 DEF Requeue, Typed, TypeOK, PollOK, HaltOK
  <1>8. CASE Bury(w, l)
    <2>1. exec' \in [Workers -> [Lanes -> Exec]] /\ ExecOK'
      BY <1>8, <1>a, StepTyped DEF Bury, ExecPc
    <2>2. dead' \subseteq Tasks  BY <1>8, <1>a DEF Bury, Typed, TypeOK
    <2> QED  BY <1>8, <2>1, <2>2 DEF Bury, Typed, TypeOK, PollOK, HaltOK
  <1>9. CASE Finally(w, l)
    <2>1. exec' \in [Workers -> [Lanes -> Exec]] /\ ExecOK'
      <3>1. CASE exec[w][l].slot
        <4> DEFINE r == [exec[w][l] EXCEPT !.pc = "unlock", !.slot = FALSE]
        <4>1. r \in Exec /\ r.pc = "unlock" /\ r.task.id \in Tasks /\ ~ r.slot
          BY <1>9, <1>a DEF Finally, Exec, ExecPc, TaskOf
        <4>2. exec' = [exec EXCEPT ![w][l] = r]
          <5>1. exec' = [exec EXCEPT ![w][l].pc = "unlock", ![w][l].slot = FALSE]
            BY <1>9, <3>1 DEF Finally
          <5>2. exec[w] \in [Lanes -> Exec] /\ exec \in [Workers -> [Lanes -> Exec]]
            BY <1>a
          <5>3. [exec EXCEPT ![w][l].pc = "unlock", ![w][l].slot = FALSE] = [exec EXCEPT ![w][l] = r]
            BY <5>2
          <5> QED BY <5>1, <5>3
        <4> HIDE DEF r
        <4> QED  BY <1>a, <4>1, <4>2, ExecTyped
      <3>2. CASE ~ exec[w][l].slot
        BY <1>9, <1>a, <3>2, ExecTyped, NoExecTyped DEF Finally
      <3> QED  BY <3>1, <3>2
    <2>2. slots' \in Int  BY <1>9 DEF Finally, Returned, Typed, TypeOK
    <2>3. lock' \in [Tasks -> Workers \cup {NoWorker}]
      BY <1>9, SMTT(60) DEF Finally, Release, Typed, TypeOK
    <2>4. /\ active' \in [Workers -> [Tasks -> Lanes \cup {NoLane}]]
          /\ forced' \in [Workers -> SUBSET Tasks]
      BY <1>9 DEF Finally, Typed, TypeOK
    <2> QED  BY <1>9, <2>1, <2>2, <2>3, <2>4 DEF Finally, Typed, TypeOK, PollOK, HaltOK
  <1>10. CASE FinallyUnlock(w, l)
    <2>1. exec' \in [Workers -> [Lanes -> Exec]] /\ ExecOK'
      BY <1>10, <1>a, ExecTyped, NoExecTyped DEF FinallyUnlock
    <2>2. lock' \in [Tasks -> Workers \cup {NoWorker}]
      BY <1>10 DEF FinallyUnlock, Release, Typed, TypeOK
    <2> QED  BY <1>10, <2>1, <2>2 DEF FinallyUnlock, Typed, TypeOK, PollOK, HaltOK
  <1>11. CASE Heartbeat(w, l)
    <2> DEFINE r == [exec[w][l] EXCEPT !.aborted = @ \/ lock[t] # w]
    <2>1. r \in Exec /\ r.pc = exec[w][l].pc /\ r.pc # "unlock" /\ r.pc # "idle" /\ r.task.id \in Tasks
      <3>1. (exec[w][l].aborted \/ lock[t] # w) \in BOOLEAN  OBVIOUS
      <3> QED  BY <1>11, <1>a, <3>1 DEF Heartbeat, Exec, TaskOf
    <2>2. exec' = [exec EXCEPT ![w][l] = r]
      <3>1. exec' = [exec EXCEPT ![w][l].aborted = exec[w][l].aborted \/ lock[t] # w]
        BY <1>11 DEF Heartbeat
      <3> QED BY <1>a, <3>1
    <2>3. exec' \in [Workers -> [Lanes -> Exec]] /\ ExecOK'
      <3> HIDE DEF r
      <3> QED  BY <1>a, <2>1, <2>2, ExecTyped
    <2>4. data' \in [Tasks -> Hash]  BY <1>11, <1>a DEF Heartbeat, Hash
    <2> QED  BY <1>11, <2>3, <2>4 DEF Heartbeat, Typed, TypeOK, PollOK, HaltOK
  <1> QED  BY <1>1, <1>2, <1>3, <1>4, <1>5, <1>6, <1>7, <1>8, <1>9, <1>10, <1>11 DEF ExecStep

LEMMA NoHaltTyped == NoHalt \in Halt /\ NoHalt.pc = "idle" /\ NoHalt.cur = NoTask
  BY DEF NoHalt, Halt

\* stop() of one worker moves on.
LEMMA HaltTyped ==
  ASSUME halt \in [Workers -> Halt], HaltOK, NEW w \in Workers, mode'[w] # "up",
         \A v \in Workers \ {w} : mode'[v] = mode[v],
         NEW r \in Halt, halt' = [halt EXCEPT ![w] = r],
         IF r.pc \in {"idle", "next", "over"} THEN r.cur = NoTask ELSE r.cur \in Tasks
  PROVE  halt' \in [Workers -> Halt] /\ HaltOK'
  BY DEF HaltOK

LEMMA TypedStop ==
  ASSUME NEW w \in Workers, Typed, StopStep(w)
  PROVE  Typed'
  <1> USE DEF HaltAt
  <1>a. /\ halt \in [Workers -> Halt] /\ HaltOK
        /\ halt[w] \in Halt
        /\ halt[w].pc \in {"load", "enlist", "unlock"} => halt[w].cur \in Tasks
        /\ halt[w].pc # "idle" => mode[w] # "up"
    BY NoHaltTyped DEF Typed, TypeOK, HaltOK
  <1>1. CASE StopBegin(w)
    <2> DEFINE r == [halt[w] EXCEPT !.pc = "next"]
    <2>1. halt[w].cur = NoTask  BY <1>1, NoHaltTyped DEF StopBegin, Typed, HaltOK
    <2>2. r \in Halt /\ r.pc = "next" /\ r.cur = NoTask  BY <1>a, <2>1 DEF Halt
    <2>3. /\ halt' = [halt EXCEPT ![w] = r]
          /\ mode' = [mode EXCEPT ![w] = "stopped"]
      BY <1>1 DEF StopBegin
    <2>4. mode' \in [Workers -> Modes] /\ mode'[w] # "up"
      BY <2>3 DEF Modes, Typed, TypeOK
    <2>5. \A v \in Workers \ {w} : mode'[v] = mode[v]  BY <2>3 DEF Typed, TypeOK
    <2>6. halt' \in [Workers -> Halt] /\ HaltOK'
      <3> HIDE DEF r
      <3> QED  BY <1>a, <2>2, <2>3, <2>4, <2>5, HaltTyped
    <2> QED  BY <1>1, <2>4, <2>6 DEF StopBegin, Typed, TypeOK, PollOK, ExecOK
  <1>2. CASE StopNext(w)
    <2>1. PICK t \in ActiveOf(w) :
            /\ forced' = [forced EXCEPT ![w] = @ \cup {t}]
            /\ exec' = [exec EXCEPT ![w][active[w][t]].aborted = TRUE]
            /\ SetStatus(t, "running", "scheduled", data[t].attempt)
            /\ halt' = [halt EXCEPT ![w].pc = "load", ![w].cur = t]
      BY <1>2 DEF StopNext
    <2> DEFINE l == active[w][t]
               r == [exec[w][l] EXCEPT !.aborted = TRUE]
               h == [halt[w] EXCEPT !.pc = "load", !.cur = t]
    <2>2. t \in Tasks /\ l \in Lanes  BY DEF ActiveOf, Typed, TypeOK
    <2>3. /\ data' \in [Tasks -> Hash]
          /\ statusIdx' \in [Statuses -> SUBSET Tasks]
      BY <2>1, <2>2, SetStatusTyped, AttemptTyped DEF Statuses, Typed, TypeOK
    <2>4. exec' \in [Workers -> [Lanes -> Exec]] /\ ExecOK'
      <3>1. exec[w][l] \in Exec  BY <2>2 DEF Typed, TypeOK
      <3>2. /\ r \in Exec /\ r.pc = exec[w][l].pc /\ r.slot = exec[w][l].slot
            /\ r.task = exec[w][l].task
        BY <3>1 DEF Exec
      <3>3. exec' = [exec EXCEPT ![w][l] = r]  BY <2>1
      <3> HIDE DEF r, l
      <3> QED  BY <2>2, <3>2, <3>3, ExecTyped DEF Typed, TypeOK, ExecOK
    <2>5. halt' \in [Workers -> Halt] /\ HaltOK'
      <3>1. h \in Halt /\ h.pc = "load" /\ h.cur = t  BY <1>a, <2>2 DEF Halt
      <3>2. halt' = [halt EXCEPT ![w] = h]  BY <2>1
      <3>3. mode' = mode /\ mode[w] # "up"  BY <1>2, <1>a DEF StopNext
      <3> HIDE DEF h
      <3> QED  BY <1>a, <2>2, <3>1, <3>2, <3>3, HaltTyped
    <2>6. forced' \in [Workers -> SUBSET Tasks]  BY <2>1, <2>2 DEF Typed, TypeOK
    <2> QED  BY <1>2, <2>3, <2>4, <2>5, <2>6 DEF StopNext, Typed, TypeOK, PollOK
  <1>3. CASE StopLoad(w)
    <2> DEFINE pc == CASE data[halt[w].cur].form = "whole"   -> "enlist"
                       [] data[halt[w].cur].form = "none"    -> "unlock"
                       [] data[halt[w].cur].form = "partial" -> "died"
               h == [halt[w] EXCEPT !.pc = pc]
    <2>1. halt[w].cur \in Tasks  BY <1>3, <1>a DEF StopLoad
    <2>2. pc \in {"enlist", "unlock", "died"}  BY <2>1 DEF Typed, TypeOK, Hash
    <2>3. h \in Halt /\ h.pc = pc /\ h.cur \in Tasks
      <3> HIDE DEF pc
      <3> QED  BY <1>a, <2>1, <2>2 DEF Halt
    <2>4. halt' = [halt EXCEPT ![w] = h]  BY <1>3 DEF StopLoad
    <2>5. mode' = mode /\ mode[w] # "up"  BY <1>3, <1>a DEF StopLoad
    <2>6. halt' \in [Workers -> Halt] /\ HaltOK'
      <3> HIDE DEF h, pc
      <3> QED  BY <1>a, <2>2, <2>3, <2>4, <2>5, HaltTyped
    <2> QED  BY <1>3, <2>6 DEF StopLoad, Typed, TypeOK, PollOK, ExecOK
  <1>4. CASE StopEnlist(w)
    <2> DEFINE h == [halt[w] EXCEPT !.pc = "unlock"]
    <2>1. h \in Halt /\ h.pc = "unlock" /\ h.cur \in Tasks  BY <1>4, <1>a DEF StopEnlist, Halt
    <2>2. halt' = [halt EXCEPT ![w] = h]  BY <1>4 DEF StopEnlist
    <2>3. mode' = mode /\ mode[w] # "up"  BY <1>4, <1>a DEF StopEnlist
    <2>4. halt' \in [Workers -> Halt] /\ HaltOK'
      <3> HIDE DEF h
      <3> QED  BY <1>a, <2>1, <2>2, <2>3, HaltTyped
    <2> QED  BY <1>4, <2>4 DEF StopEnlist, Enlist, Typed, TypeOK, PollOK, ExecOK
  <1>5. CASE StopUnlock(w)
    <2> DEFINE h == [pc |-> "next", cur |-> NoTask, seen |-> halt[w].seen \cup {halt[w].cur}]
    <2>1. h \in Halt /\ h.pc = "next" /\ h.cur = NoTask  BY <1>5, <1>a DEF StopUnlock, Halt
    <2>2. halt' = [halt EXCEPT ![w] = h]  BY <1>5 DEF StopUnlock
    <2>3. mode' = mode /\ mode[w] # "up"  BY <1>5, <1>a DEF StopUnlock
    <2>4. halt' \in [Workers -> Halt] /\ HaltOK'
      <3> HIDE DEF h
      <3> QED  BY <1>a, <2>1, <2>2, <2>3, HaltTyped
    <2>5. lock' \in [Tasks -> Workers \cup {NoWorker}]
      BY <1>5 DEF StopUnlock, Release, Typed, TypeOK
    <2> QED  BY <1>5, <2>4, <2>5 DEF StopUnlock, Typed, TypeOK, PollOK, ExecOK
  <1>6. CASE StopEnd(w)
    <2> DEFINE h == [halt[w] EXCEPT !.pc = "over"]
    <2>1. halt[w].cur = NoTask  BY <1>6 DEF StopEnd, Typed, HaltOK
    <2>2. h \in Halt /\ h.pc = "over" /\ h.cur = NoTask  BY <1>a, <2>1 DEF Halt
    <2>3. halt' = [halt EXCEPT ![w] = h]  BY <1>6 DEF StopEnd
    <2>4. mode' = mode /\ mode[w] # "up"  BY <1>6, <1>a DEF StopEnd
    <2>5. halt' \in [Workers -> Halt] /\ HaltOK'
      <3> HIDE DEF h
      <3> QED  BY <1>a, <2>2, <2>3, <2>4, HaltTyped
    <2>6. active' \in [Workers -> [Tasks -> Lanes \cup {NoLane}]]
      BY <1>6 DEF StopEnd, Typed, TypeOK
    <2> QED  BY <1>6, <2>5, <2>6 DEF StopEnd, Typed, TypeOK, PollOK, ExecOK
  <1> QED  BY <1>1, <1>2, <1>3, <1>4, <1>5, <1>6 DEF StopStep

LEMMA TypedEnvironment ==
  ASSUME Typed,
         \/ \E t \in Tasks : Tick(t) \/ Lapse(t) \/ ExpireResult(t)
         \/ \E w \in Workers, t \in Tasks : OverrunEnds(w, t)
         \/ \E w \in Workers : Crash(w)
  PROVE  Typed'
  <1>1. ASSUME NEW t \in Tasks, Tick(t) PROVE Typed'
    BY <1>1 DEF Tick, Enlist, Typed, TypeOK, PollOK, ExecOK, HaltOK
  <1>2. ASSUME NEW t \in Tasks, Lapse(t) PROVE Typed'
    BY <1>2 DEF Lapse, Typed, TypeOK, PollOK, ExecOK, HaltOK
  <1>3. ASSUME NEW t \in Tasks, ExpireResult(t) PROVE Typed'
    <2>1. /\ data' \in [Tasks -> Hash]
          /\ statusIdx' \in [Statuses -> SUBSET Tasks]
          /\ idem' \in [Keys -> Tasks \cup {NoTask}]
      BY <1>3, DeleteTyped DEF ExpireResult, Typed
    <2> QED  BY <1>3, <2>1 DEF ExpireResult, Typed, TypeOK, PollOK, ExecOK, HaltOK
  <1>4. ASSUME NEW w \in Workers, NEW t \in Tasks, OverrunEnds(w, t) PROVE Typed'
    BY <1>4 DEF OverrunEnds, Typed, TypeOK, PollOK, ExecOK, HaltOK
  <1>5. ASSUME NEW w \in Workers, Crash(w) PROVE Typed'
    <2>1. poll' \in [Workers -> Poll] /\ PollOK'
      BY <1>5, IdlePollTyped DEF Crash, IdlePoll, Typed, TypeOK, PollOK
    <2>2. exec' \in [Workers -> [Lanes -> Exec]] /\ ExecOK'
      BY <1>5, NoExecTyped DEF Crash, Typed, TypeOK, ExecOK
    <2>3. mode' \in [Workers -> Modes] /\ mode'[w] # "up"
      BY <1>5 DEF Crash, Modes, Typed, TypeOK
    <2>4. \A v \in Workers \ {w} : mode'[v] = mode[v]  BY <1>5 DEF Crash, Typed, TypeOK
    <2>5. halt' \in [Workers -> Halt] /\ HaltOK'
      BY <1>5, <2>3, <2>4, NoHaltTyped, HaltTyped DEF Crash, Typed, TypeOK
    <2>6. /\ active' \in [Workers -> [Tasks -> Lanes \cup {NoLane}]]
          /\ forced' \in [Workers -> SUBSET Tasks]
          /\ overrun' \subseteq Workers \X Tasks
      BY <1>5 DEF Crash, Typed, TypeOK
    <2> QED  BY <1>5, <2>1, <2>2, <2>3, <2>5, <2>6 DEF Crash, Typed, TypeOK
  <1> QED  BY <1>1, <1>2, <1>3, <1>4, <1>5

LEMMA TypedStep == Typed /\ [Next]_vars => Typed'
  <1> SUFFICES ASSUME Typed, [Next]_vars PROVE Typed'
    OBVIOUS
  <1>1. CASE Next
    BY <1>1, TypedClient, TypedPoll, TypedExec, TypedStop, TypedEnvironment DEF Next
  <1>2. CASE UNCHANGED vars
    BY <1>2 DEF vars, Typed, TypeOK, PollOK, ExecOK, HaltOK
  <1> QED  BY <1>1, <1>2

LEMMA TypedAlways == Spec => []Typed
  BY TypedInit, TypedStep, PTL DEF Spec

\* Every reachable state of the store and of the workers has its type, for any
\* fleet, limits and faults.
THEOREM TypeCorrect == Spec => []TypeOK
  <1>1. Typed => TypeOK  BY DEF Typed
  <1> QED  BY <1>1, TypedAlways, PTL

-----------------------------------------------------------------------------
(* A query by status finds every stored task *)

\* No submission gets to its index by the step: only EnqueueIndex brings one there.
NoneIndexed == \A u \in Tasks : sub[u] = "hashed" => sub'[u] = "hashed"

LEMMA SetStatusFindable ==
  ASSUME Typed, StatusFindable, NEW t \in Tasks, NEW old, NEW new \in Statuses, NEW attempt,
         SetStatus(t, old, new, attempt), NoneIndexed
  PROVE  StatusFindable'
  <1>1. ASSUME NEW u \in Tasks, data'[u].status # "none", sub'[u] # "hashed"
        PROVE  u \in statusIdx'[data'[u].status]
    <2>1. CASE u = t
      <3>1. data'[u].status = new  BY <2>1 DEF SetStatus, Typed, TypeOK
      <3> QED  BY <2>1, <3>1 DEF SetStatus
    <2>2. CASE u # t
      <3>1. data'[u] = data[u]  BY <2>2 DEF SetStatus, Typed, TypeOK
      <3>2. data[u].status \in Statuses /\ u \in statusIdx[data[u].status]
        BY <1>1, <3>1 DEF StatusFindable, NoneIndexed, Typed, TypeOK, Hash
      <3> QED  BY <2>2, <3>1, <3>2 DEF SetStatus
    <2> QED  BY <2>1, <2>2
  <1> QED  BY <1>1 DEF StatusFindable

LEMMA DeleteFindable ==
  ASSUME Typed, StatusFindable, NEW t \in Tasks, Delete(t), NoneIndexed
  PROVE  StatusFindable'
  <1>1. ASSUME NEW u \in Tasks, data'[u].status # "none", sub'[u] # "hashed"
        PROVE  u \in statusIdx'[data'[u].status]
    <2>1. u # t /\ data'[u] = data[u]  BY <1>1 DEF Delete, NoHash, Typed, TypeOK
    <2>2. data[u].status \in Statuses /\ u \in statusIdx[data[u].status]
      BY <1>1, <2>1 DEF StatusFindable, NoneIndexed, Typed, TypeOK, Hash
    <2> QED  BY <2>1, <2>2 DEF Delete
  <1> QED  BY <1>1 DEF StatusFindable

\* What an action may do to a record and its indexes.
RecordStep ==
    \/ NoneIndexed /\ UNCHANGED <<data, statusIdx>>
    \/ NoneIndexed /\ \E t \in Tasks, new \in Statuses : \E old, attempt : SetStatus(t, old, new, attempt)
    \/ NoneIndexed /\ \E t \in Tasks : Delete(t)
    \/ \E t \in Tasks : EnqueueStore(t) \/ EnqueueIndex(t)
    \/ NoneIndexed /\ \E w \in Workers, l \in Lanes : Heartbeat(w, l)

LEMMA NoneIndexes == Typed /\ [Next]_vars => NoneIndexed \/ \E t \in Tasks : EnqueueIndex(t)
  <1> SUFFICES ASSUME Typed, [Next]_vars, \A t \in Tasks : ~ EnqueueIndex(t) PROVE NoneIndexed
    OBVIOUS
  <1>1. ASSUME NEW t \in Tasks, ClientStep(t) PROVE NoneIndexed
    BY <1>1 DEF NoneIndexed, ClientStep, EnqueueCheck, EnqueueStore, EnqueueKey, EnqueueAdd,
                CancelCheck, CancelUnlist, CancelDelete, Typed, TypeOK
  <1>2. ASSUME NEW t \in Tasks, Tick(t) \/ Lapse(t) \/ ExpireResult(t) PROVE sub' = sub
    BY <1>2 DEF Tick, Lapse, ExpireResult
  <1>3. ASSUME NEW w \in Workers, PollStep(w) PROVE sub' = sub
    BY <1>3 DEF PollStep, Scan, NextBucket, Acquire, Load, Unlock, Dequeue, BuryUnknown,
                Dispatch, DispatchFull, DispatchUnknown, Uncount, PutBack
  <1>4. ASSUME NEW w \in Workers, StopStep(w) \/ Crash(w) PROVE sub' = sub
    BY <1>4 DEF StopStep, StopBegin, StopNext, StopLoad, StopEnlist, StopUnlock, StopEnd, Crash
  <1>5. ASSUME NEW w \in Workers, NEW l \in Lanes, ExecStep(w, l) PROVE sub' = sub
    BY <1>5 DEF ExecStep, Start, Short, Begin, HandlerReturns, HandlerThrows, Settle, Retry,
                Requeue, Bury, Finally, FinallyUnlock
  <1>6. ASSUME NEW w \in Workers, NEW t \in Tasks, OverrunEnds(w, t) PROVE sub' = sub
    BY <1>6 DEF OverrunEnds
  <1>7. ASSUME NEW w \in Workers, NEW l \in Lanes, Heartbeat(w, l) PROVE sub' = sub
    BY <1>7 DEF Heartbeat
  <1>8. CASE UNCHANGED vars  BY <1>8 DEF vars, NoneIndexed
  <1> QED  BY <1>1, <1>2, <1>3, <1>4, <1>5, <1>6, <1>7, <1>8 DEF Next, NoneIndexed

LEMMA RecordSteps == Typed /\ [Next]_vars => RecordStep
  <1> SUFFICES ASSUME Typed, [Next]_vars, NoneIndexed,
                      \A t \in Tasks : ~ EnqueueStore(t) /\ ~ EnqueueIndex(t)
               PROVE  RecordStep
    BY NoneIndexes DEF RecordStep
  <1>1. ASSUME NEW t \in Tasks, ClientStep(t) \/ Tick(t) \/ Lapse(t) \/ ExpireResult(t)
        PROVE  RecordStep
    BY <1>1 DEF RecordStep, ClientStep, EnqueueCheck, EnqueueKey, EnqueueAdd, CancelCheck, CancelUnlist,
                CancelDelete, Tick, Lapse, ExpireResult
  <1>2. ASSUME NEW w \in Workers, PollStep(w) PROVE RecordStep
    <2>1. CASE DispatchUnknown(w)
      <3>1. poll[w].cur \in Tasks /\ "dead" \in Statuses
        BY <2>1 DEF DispatchUnknown, PollAt, Typed, PollOK, Statuses
      <3> QED  BY <2>1, <3>1 DEF DispatchUnknown, RecordStep
    <2>2. CASE ~ DispatchUnknown(w)
      BY <1>2, <2>2 DEF PollStep, Scan, NextBucket, Acquire, Load, Unlock, Dequeue, BuryUnknown,
                        Dispatch, DispatchFull, Uncount, PutBack, RecordStep
    <2> QED  BY <2>1, <2>2
  <1>3. ASSUME NEW w \in Workers, StopStep(w) \/ Crash(w) PROVE RecordStep
    <2>1. CASE StopNext(w)
      <3>1. \E t \in Tasks : SetStatus(t, "running", "scheduled", data[t].attempt)
        BY <2>1 DEF StopNext, ActiveOf
      <3>2. "scheduled" \in Statuses  BY DEF Statuses
      <3> QED  BY <3>1, <3>2 DEF RecordStep
    <2>2. CASE ~ StopNext(w)
      BY <1>3, <2>2 DEF StopStep, StopBegin, StopLoad, StopEnlist, StopUnlock, StopEnd, Crash,
                        RecordStep
    <2> QED  BY <2>1, <2>2
  <1>4. ASSUME NEW w \in Workers, NEW l \in Lanes, ExecStep(w, l) PROVE RecordStep
    <2> DEFINE t == TaskOf(w, l)
    <2>1. exec[w][l].pc # "idle" => t \in Tasks  BY DEF Typed, ExecOK, TaskOf
    <2>2. CASE Short(w, l) \/ Begin(w, l) \/ Settle(w, l)
      <3>1. t \in Tasks /\ {"running", "completed"} \subseteq Statuses
        BY <2>1, <2>2 DEF Short, Begin, Settle, ExecAt, Statuses
      <3>2. \E new \in {"running", "completed"} : \E old, attempt : SetStatus(t, old, new, attempt)
        BY <2>2 DEF Short, Begin, Settle
      <3> QED  BY <3>1, <3>2 DEF RecordStep
    <2>3. CASE HandlerReturns(w, l)
      <3>1. t \in Tasks /\ "completed" \in Statuses  BY <2>1, <2>3 DEF HandlerReturns, ExecAt, Statuses
      <3> QED  BY <2>3, <3>1 DEF HandlerReturns, RecordStep
    <2>4. CASE HandlerThrows(w, l)
      <3>1. t \in Tasks /\ {"scheduled", "dead"} \subseteq Statuses
        BY <2>1, <2>4 DEF HandlerThrows, ExecAt, Statuses
      <3>2. \/ UNCHANGED <<data, statusIdx>>
            \/ \E new \in {"scheduled", "dead"} : \E old, attempt : SetStatus(t, old, new, attempt)
        BY <2>4 DEF HandlerThrows, Retry, TaskOf
      <3> QED  BY <3>1, <3>2 DEF RecordStep
    <2>5. CASE Start(w, l) \/ Requeue(w, l) \/ Bury(w, l) \/ Finally(w, l) \/ FinallyUnlock(w, l)
      BY <2>5 DEF Start, Requeue, Bury, Finally, FinallyUnlock, RecordStep
    <2> QED  BY <1>4, <2>2, <2>3, <2>4, <2>5 DEF ExecStep
  <1>5. ASSUME NEW w \in Workers, NEW t \in Tasks, OverrunEnds(w, t) PROVE RecordStep
    BY <1>5 DEF OverrunEnds, RecordStep
  <1>6. CASE UNCHANGED vars  BY <1>6 DEF vars, RecordStep
  <1>7. ASSUME NEW w \in Workers, NEW l \in Lanes, Heartbeat(w, l) PROVE RecordStep
    BY <1>7 DEF RecordStep
  <1> QED  BY <1>1, <1>2, <1>3, <1>4, <1>5, <1>6, <1>7 DEF Next

LEMMA FindableStep == Typed /\ StatusFindable /\ [Next]_vars => StatusFindable'
  <1> SUFFICES ASSUME Typed, StatusFindable, RecordStep PROVE StatusFindable'
    BY RecordSteps
  <1>1. CASE NoneIndexed /\ UNCHANGED <<data, statusIdx>>
    BY <1>1 DEF StatusFindable, NoneIndexed
  <1>2. ASSUME NEW t \in Tasks, NEW new \in Statuses, NEW old, NEW attempt,
               SetStatus(t, old, new, attempt), NoneIndexed
        PROVE  StatusFindable'
    BY <1>2, SetStatusFindable
  <1>3. ASSUME NEW t \in Tasks, Delete(t), NoneIndexed PROVE StatusFindable'
    BY <1>3, DeleteFindable
  <1>4. ASSUME NEW t \in Tasks, EnqueueStore(t) PROVE StatusFindable'
    <2>1. sub'[t] = "hashed"  BY <1>4 DEF EnqueueStore, Typed, TypeOK
    <2>2. \A u \in Tasks \ {t} : data'[u] = data[u] /\ sub'[u] = sub[u]
      BY <1>4 DEF EnqueueStore, Typed, TypeOK
    <2>3. statusIdx' = statusIdx  BY <1>4 DEF EnqueueStore
    <2> QED  BY <2>1, <2>2, <2>3 DEF StatusFindable
  <1>6. ASSUME NEW t \in Tasks, EnqueueIndex(t) PROVE StatusFindable'
    <2>1. data' = data /\ statusIdx' = [statusIdx EXCEPT ![data[t].status] = @ \cup {t}]
      BY <1>6 DEF EnqueueIndex
    <2>2. \A u \in Tasks \ {t} : sub'[u] = sub[u]  BY <1>6 DEF EnqueueIndex, Typed, TypeOK
    <2>3. ASSUME NEW u \in Tasks, data[u].status # "none", sub'[u] # "hashed"
          PROVE  u \in statusIdx'[data[u].status]
      <3>1. data[u].status \in Statuses  BY <2>3 DEF Typed, TypeOK, Hash
      <3>2. CASE u = t  BY <2>1, <3>1, <3>2 DEF Typed, TypeOK
      <3>3. CASE u # t
        <4>1. u \in statusIdx[data[u].status]  BY <2>2, <2>3, <3>3 DEF StatusFindable
        <4> QED  BY <2>1, <3>1, <4>1 DEF Typed, TypeOK
      <3> QED  BY <3>2, <3>3
    <2> QED  BY <2>1, <2>3 DEF StatusFindable
  <1>5. ASSUME NEW w \in Workers, NEW l \in Lanes, Heartbeat(w, l), NoneIndexed
        PROVE  StatusFindable'
    <2>1. statusIdx' = statusIdx  BY <1>5 DEF Heartbeat
    <2>2. \A u \in Tasks : data'[u].status = data[u].status
      BY <1>5 DEF Heartbeat, Typed, TypeOK, Hash
    <2> QED  BY <1>5, <2>1, <2>2 DEF StatusFindable, NoneIndexed
  <1> QED  BY <1>1, <1>2, <1>3, <1>4, <1>5, <1>6 DEF RecordStep

\* A stored task is always in the index of the status it has, although
\* updateStatus believes its caller about the old status and is called for
\* records that were deleted or have moved on meanwhile.
THEOREM StatusIndexed == Spec => []StatusFindable
  <1>1. Init => StatusFindable  BY DEF Init, StatusFindable, NoHash
  <1> QED  BY <1>1, FindableStep, TypedAlways, PTL DEF Spec

-----------------------------------------------------------------------------
(* No path forgets a release *)

\* NoLockLeak for one worker.  The loop gives an id back or drops it only
\* after the release, and while it does so only it could lock the id again.
KeptBy(w) ==
    /\ \A t \in Tasks : lock[t] = w => \/ Engaged(w, t)
                                       \/ mode[w] = "gone"
                                       \/ "died" \in {poll[w].pc, halt[w].pc}
    /\ poll[w].pc \in {"unlist", "putback"} => lock[poll[w].cur] # w

Kept == \A w \in Workers : KeptBy(w)

\* Which lanes work on which task is the same after the step.
SameRuns == \A v \in Workers, m \in Lanes :
                /\ exec[v][m].pc = "idle" <=> exec'[v][m].pc = "idle"
                /\ exec'[v][m].task = exec[v][m].task

LEMMA QuietKept ==
  ASSUME Kept, SameRuns, UNCHANGED <<lock, poll, halt, mode>>
  PROVE  Kept'
  BY DEF Kept, KeptBy, SameRuns, Engaged, TaskOf

\* A step of one worker's routine needs a look at this worker only.
LEMMA OneKept ==
  ASSUME Typed, Kept, NEW w \in Workers,
         \A v \in Workers \ {w} : /\ poll'[v] = poll[v] /\ exec'[v] = exec[v]
                                  /\ halt'[v] = halt[v] /\ mode'[v] = mode[v],
         \A t \in Tasks : lock'[t] \in {lock[t], NoWorker, w},
         KeptBy(w)'
  PROVE  Kept'
  <1>1. ASSUME NEW v \in Workers \ {w} PROVE KeptBy(v)'
    <2>1. \A t \in Tasks : lock'[t] = v => lock[t] = v  BY SetsAssumption
    <2>2. \A t \in Tasks : Engaged(v, t) => Engaged(v, t)'  BY DEF Engaged, TaskOf
    <2>3. poll[v].pc \in {"unlist", "putback"} => poll[v].cur \in Tasks  BY DEF Typed, PollOK
    <2> QED  BY <2>1, <2>2, <2>3 DEF Kept, KeptBy
  <1> QED  BY <1>1 DEF Kept

LEMMA StepSameRuns ==
  ASSUME exec \in [Workers -> [Lanes -> Exec]], NEW w \in Workers, NEW l \in Lanes,
         NEW pc, pc # "idle", exec[w][l].pc # "idle", Step(w, l, pc)
  PROVE  SameRuns
  <1>1. exec'[w][l].pc = pc /\ exec'[w][l].task = exec[w][l].task  BY DEF Step, Exec
  <1>2. \A v \in Workers, m \in Lanes : ~ (v = w /\ m = l) => exec'[v][m] = exec[v][m]
    BY DEF Step
  <1> QED  BY <1>1, <1>2 DEF SameRuns

LEMMA ReleaseFrees ==
  ASSUME lock \in [Tasks -> Workers \cup {NoWorker}], NEW w \in Workers, NEW t \in Tasks,
         Release(w, t)
  PROVE  /\ lock'[t] # w
         /\ \A u \in Tasks : lock'[u] \in {lock[u], NoWorker}
  BY SetsAssumption DEF Release

LEMMA KeptClient ==
  ASSUME Typed, Kept, \E t \in Tasks : \/ ClientStep(t) \/ Tick(t) \/ ExpireResult(t)
                                      \/ \E w \in Workers : OverrunEnds(w, t)
  PROVE  Kept'
  <1>1. UNCHANGED <<lock, poll, halt, mode, exec>>
    BY DEF ClientStep, EnqueueCheck, EnqueueStore, EnqueueIndex, EnqueueKey, EnqueueAdd, CancelCheck, CancelUnlist,
           CancelDelete, Tick, ExpireResult, OverrunEnds
  <1> QED  BY <1>1, QuietKept DEF SameRuns

LEMMA KeptLapse ==
  ASSUME Typed, Kept, NEW t \in Tasks, Lapse(t)
  PROVE  Kept'
  <1>1. \A w \in Workers, u \in Tasks : lock'[u] = w => lock[u] = w
    BY SetsAssumption DEF Lapse, Typed, TypeOK
  <1>2. UNCHANGED <<poll, halt, mode, exec>>  BY DEF Lapse
  <1>3. \A w \in Workers : poll[w].pc \in {"unlist", "putback"} => poll[w].cur \in Tasks
    BY DEF Typed, PollOK
  <1> QED  BY <1>1, <1>2, <1>3 DEF Kept, KeptBy, Engaged, TaskOf

LEMMA KeptCrash ==
  ASSUME Typed, Kept, NEW w \in Workers, Crash(w)
  PROVE  Kept'
  <1>1. KeptBy(w)'
    BY DEF Crash, KeptBy, IdlePoll, Typed, TypeOK
  <1>2. \A v \in Workers \ {w} : /\ poll'[v] = poll[v] /\ exec'[v] = exec[v]
                                 /\ halt'[v] = halt[v] /\ mode'[v] = mode[v]
    BY DEF Crash, Typed, TypeOK
  <1>3. lock' = lock  BY DEF Crash
  <1> QED  BY <1>1, <1>2, <1>3, OneKept

LEMMA KeptExec ==
  ASSUME Typed, Kept, NEW w \in Workers, NEW l \in Lanes, ExecStep(w, l) \/ Heartbeat(w, l)
  PROVE  Kept'
  <1> USE DEF ExecAt
  <1> DEFINE t == TaskOf(w, l)
  <1>a. /\ exec \in [Workers -> [Lanes -> Exec]] /\ exec[w][l] \in Exec
        /\ lock \in [Tasks -> Workers \cup {NoWorker}]
        /\ exec[w][l].pc # "idle" => t \in Tasks
    BY DEF Typed, TypeOK, ExecOK, TaskOf
  <1>1. CASE \/ Start(w, l) \/ Short(w, l) \/ Begin(w, l) \/ HandlerReturns(w, l)
             \/ Settle(w, l) \/ HandlerThrows(w, l) \/ Requeue(w, l) \/ Bury(w, l)
    <2>1. UNCHANGED <<lock, poll, halt, mode>>
      BY <1>1 DEF Start, Short, Begin, HandlerReturns, Settle, HandlerThrows, Requeue, Bury
    <2>2. exec[w][l].pc # "idle" /\ \E pc \in ExecPc \ {"idle"} : Step(w, l, pc)
      BY <1>1 DEF Start, Short, Begin, HandlerReturns, Settle, HandlerThrows, Retry, Requeue,
                  Bury, ExecPc
    <2>3. SameRuns  BY <1>a, <2>2, StepSameRuns
    <2> QED  BY <2>1, <2>3, QuietKept
  <1>2. CASE Heartbeat(w, l)
    <2>1. UNCHANGED <<lock, poll, halt, mode>>  BY <1>2 DEF Heartbeat
    <2>2. SameRuns
      <3>1. /\ exec'[w][l].pc = exec[w][l].pc
            /\ exec'[w][l].task = exec[w][l].task
        BY <1>a, <1>2 DEF Heartbeat, Exec
      <3>2. \A v \in Workers, m \in Lanes : ~ (v = w /\ m = l) => exec'[v][m] = exec[v][m]
        BY <1>a, <1>2 DEF Heartbeat
      <3> QED  BY <3>1, <3>2 DEF SameRuns
    <2> QED  BY <2>1, <2>2, QuietKept
  <1>3. CASE Finally(w, l) /\ exec[w][l].slot
    <2>1. UNCHANGED <<lock, poll, halt, mode>>  BY <1>3 DEF Finally
    <2>2. SameRuns
      <3>1. /\ exec'[w][l].pc = "unlock" /\ exec[w][l].pc = "done"
            /\ exec'[w][l].task = exec[w][l].task
        BY <1>a, <1>3 DEF Finally, Exec
      <3>2. \A v \in Workers, m \in Lanes : ~ (v = w /\ m = l) => exec'[v][m] = exec[v][m]
        BY <1>a, <1>3 DEF Finally
      <3> QED  BY <3>1, <3>2 DEF SameRuns
    <2> QED  BY <2>1, <2>2, QuietKept
  <1>4. CASE FinallyUnlock(w, l) \/ (Finally(w, l) /\ ~ exec[w][l].slot)
    <2>1. /\ Release(w, t) /\ exec' = [exec EXCEPT ![w][l] = NoExec]
          /\ UNCHANGED <<poll, halt, mode>> /\ t \in Tasks
      BY <1>a, <1>4 DEF Finally, FinallyUnlock
    <2>2. lock'[t] # w /\ \A u \in Tasks : lock'[u] \in {lock[u], NoWorker}
      BY <1>a, <2>1, ReleaseFrees
    <2>3. \A u \in Tasks \ {t} : Engaged(w, u) => Engaged(w, u)'
      <3>1. \A m \in Lanes \ {l} : exec'[w][m] = exec[w][m]  BY <1>a, <2>1
      <3> QED  BY <2>1, <3>1 DEF Engaged, TaskOf
    <2>4. KeptBy(w)'
      <3>1. poll[w].pc \in {"unlist", "putback"} => poll[w].cur \in Tasks  BY DEF Typed, PollOK
      <3> QED  BY <2>1, <2>2, <2>3, <3>1, SetsAssumption DEF Kept, KeptBy
    <2>5. \A v \in Workers \ {w} : exec'[v] = exec[v]  BY <1>a, <2>1
    <2> QED  BY <2>1, <2>2, <2>4, <2>5, OneKept
  <1> QED  BY <1>1, <1>2, <1>3, <1>4 DEF ExecStep

LEMMA KeptStop ==
  ASSUME Typed, Kept, NEW w \in Workers, StopStep(w)
  PROVE  Kept'
  <1> USE DEF HaltAt
  <1>a. /\ halt \in [Workers -> Halt] /\ halt[w] \in Halt
        /\ lock \in [Tasks -> Workers \cup {NoWorker}]
        /\ exec \in [Workers -> [Lanes -> Exec]]
        /\ halt[w].pc \in {"idle", "next", "over"} => halt[w].cur \notin Tasks
        /\ halt[w].pc \in {"load", "enlist", "unlock"} => halt[w].cur \in Tasks
        /\ poll[w].pc \in {"unlist", "putback"} => poll[w].cur \in Tasks
    BY SetsAssumption DEF Typed, TypeOK, HaltOK, PollOK
  <1>1. CASE StopBegin(w)
    <2>1. /\ mode[w] = "up" /\ halt[w] = NoHalt
          /\ UNCHANGED <<lock, poll, exec>>
      BY <1>1 DEF StopBegin, Typed, HaltOK
    <2>2. KeptBy(w)'
      <3>1. halt'[w].cur = halt[w].cur /\ halt[w].cur \notin Tasks
        BY <1>a, <1>1, <2>1, SetsAssumption DEF StopBegin, NoHalt, Halt
      <3>2. halt'[w].pc = "next" /\ halt[w].pc = "idle"
        BY <1>a, <1>1, <2>1 DEF StopBegin, NoHalt, Halt
      <3>3. \A u \in Tasks : Engaged(w, u) => Engaged(w, u)'
        BY <2>1, <3>1 DEF Engaged, TaskOf
      <3> QED  BY <2>1, <3>2, <3>3 DEF Kept, KeptBy
    <2>3. \A v \in Workers \ {w} : halt'[v] = halt[v] /\ mode'[v] = mode[v]
      BY <1>1, <1>a DEF StopBegin, Typed, TypeOK
    <2> QED  BY <2>1, <2>2, <2>3, OneKept
  <1>2. CASE StopNext(w)
    <2>1. PICK t \in ActiveOf(w) :
            /\ exec' = [exec EXCEPT ![w][active[w][t]].aborted = TRUE]
            /\ halt' = [halt EXCEPT ![w].pc = "load", ![w].cur = t]
      BY <1>2 DEF StopNext
    <2>2. UNCHANGED <<lock, poll, mode>>  BY <1>2 DEF StopNext
    <2>3. \A m \in Lanes : exec'[w][m].pc = exec[w][m].pc /\ exec'[w][m].task = exec[w][m].task
      BY <1>a, <2>1 DEF Exec
    <2>4. halt[w].pc = "next" /\ halt'[w].pc = "load"  BY <1>a, <1>2, <2>1 DEF StopNext
    <2>5. \A u \in Tasks : Engaged(w, u) => Engaged(w, u)'
      BY <1>a, <2>2, <2>3, <2>4 DEF Engaged, TaskOf
    <2>6. KeptBy(w)'  BY <2>2, <2>4, <2>5 DEF Kept, KeptBy
    <2>7. \A v \in Workers \ {w} : exec'[v] = exec[v] /\ halt'[v] = halt[v]  BY <1>a, <2>1
    <2> QED  BY <2>2, <2>6, <2>7, OneKept
  <1>3. CASE StopLoad(w) \/ StopEnlist(w) \/ StopEnd(w)
    <2>1. UNCHANGED <<lock, poll, mode, exec>>  BY <1>3 DEF StopLoad, StopEnlist, StopEnd
    <2>2. \A v \in Workers \ {w} : halt'[v] = halt[v]
      BY <1>3, <1>a DEF StopLoad, StopEnlist, StopEnd
    <2>3. halt'[w].cur = halt[w].cur /\ halt[w].pc # "died"
      BY <1>3, <1>a DEF StopLoad, StopEnlist, StopEnd, Halt
    <2>4. \A u \in Tasks : Engaged(w, u) => Engaged(w, u)' \/ halt'[w].pc = "died"
      BY <2>1, <2>3 DEF Engaged, TaskOf
    <2>5. KeptBy(w)'  BY <2>1, <2>3, <2>4 DEF Kept, KeptBy
    <2> QED  BY <2>1, <2>2, <2>5, OneKept
  <1>4. CASE StopUnlock(w)
    <2> DEFINE t == halt[w].cur
    <2>1. t \in Tasks /\ Release(w, t) /\ UNCHANGED <<poll, mode, exec>>
      BY <1>4, <1>a DEF StopUnlock
    <2>2. lock'[t] # w /\ \A u \in Tasks : lock'[u] \in {lock[u], NoWorker}
      BY <1>a, <2>1, ReleaseFrees
    <2>3. halt'[w].pc = "next" /\ halt[w].pc = "unlock"  BY <1>4, <1>a DEF StopUnlock
    <2>4. \A u \in Tasks \ {t} : Engaged(w, u) => Engaged(w, u)'
      BY <2>1 DEF Engaged, TaskOf
    <2>5. KeptBy(w)'
      BY <1>a, <2>1, <2>2, <2>3, <2>4, SetsAssumption DEF Kept, KeptBy
    <2>6. \A v \in Workers \ {w} : halt'[v] = halt[v]  BY <1>4, <1>a DEF StopUnlock
    <2> QED  BY <2>1, <2>2, <2>5, <2>6, OneKept
  <1> QED  BY <1>1, <1>2, <1>3, <1>4 DEF StopStep

LEMMA KeptPoll ==
  ASSUME Typed, Kept, NEW w \in Workers, PollStep(w)
  PROVE  Kept'
  <1> USE DEF PollAt, Goto
  <1>a. /\ poll \in [Workers -> Poll] /\ poll[w] \in Poll
        /\ lock \in [Tasks -> Workers \cup {NoWorker}]
        /\ exec \in [Workers -> [Lanes -> Exec]]
        /\ poll[w].pc \notin {"idle", "scan"} => poll[w].cur \in Tasks
        /\ poll[w].pc \in {"take", "taken"} => poll[w].task.id = poll[w].cur
    BY DEF Typed, TypeOK, PollOK
  <1>b. IdlePoll.pc = "idle"  BY DEF IdlePoll
  <1>1. CASE Scan(w) \/ NextBucket(w)
    <2>1. UNCHANGED <<lock, halt, mode, exec>>  BY <1>1 DEF Scan, NextBucket
    <2>2. poll[w].pc \in {"idle", "scan"} /\ poll'[w].pc \in {"idle", "scan"}
      BY <1>1, <1>a, <1>b DEF Scan, NextBucket, Poll
    <2>3. \A v \in Workers \ {w} : poll'[v] = poll[v]  BY <1>1, <1>a DEF Scan, NextBucket
    <2>4. \A u \in Tasks : Engaged(w, u) => Engaged(w, u)'  BY <2>1, <2>2 DEF Engaged, TaskOf
    <2>5. KeptBy(w)'  BY <2>1, <2>2, <2>4 DEF Kept, KeptBy
    <2> QED  BY <2>1, <2>3, <2>5, OneKept
  <1>2. CASE Acquire(w)
    <2>1. PICK t \in poll[w].list :
            IF Obtainable(w, t)
            THEN /\ lock' = [lock EXCEPT ![t] = w]
                 /\ poll' = [poll EXCEPT ![w].pc = "locked", ![w].cur = t, ![w].list = @ \ {t}]
            ELSE /\ poll' = [poll EXCEPT ![w].list = @ \ {t}]
                 /\ UNCHANGED lock
      BY <1>2 DEF Acquire
    <2>2. UNCHANGED <<halt, mode, exec>> /\ poll[w].pc = "scan"  BY <1>2 DEF Acquire
    <2>3. ASSUME Obtainable(w, t) PROVE KeptBy(w)'
      <3>1. poll'[w].pc = "locked" /\ poll'[w].cur = t  BY <1>a, <2>1, <2>3 DEF Poll
      <3>2. \A u \in Tasks : u # t => lock'[u] = lock[u]  BY <1>a, <2>1, <2>3
      <3>3. \A u \in Tasks : Engaged(w, u) \/ u = t => Engaged(w, u)'
        BY <2>2, <3>1 DEF Engaged, TaskOf
      <3> QED  BY <2>2, <3>1, <3>2, <3>3 DEF Kept, KeptBy
    <2>4. ASSUME ~ Obtainable(w, t) PROVE KeptBy(w)'
      <3>1. poll'[w].pc = "scan" /\ lock' = lock  BY <1>a, <2>1, <2>2, <2>4 DEF Poll
      <3>2. \A u \in Tasks : Engaged(w, u) => Engaged(w, u)'
        BY <2>2, <3>1 DEF Engaged, TaskOf
      <3> QED  BY <2>2, <3>1, <3>2 DEF Kept, KeptBy
    <2>5. \A v \in Workers \ {w} : poll'[v] = poll[v]  BY <1>a, <2>1
    <2>6. \A u \in Tasks : lock'[u] \in {lock[u], NoWorker, w}  BY <1>a, <2>1
    <2> QED  BY <2>2, <2>3, <2>4, <2>5, <2>6, OneKept
  <1>3. CASE Load(w)
    <2>1. UNCHANGED <<lock, halt, mode, exec>> /\ poll[w].pc = "locked"  BY <1>3 DEF Load
    <2>2. /\ poll'[w].pc \in {"died", "drop", "take", "skip"}
          /\ poll'[w].cur = poll[w].cur
      BY <1>3, <1>a DEF Load, Poll
    <2>3. \A u \in Tasks : Engaged(w, u) => Engaged(w, u)' \/ poll'[w].pc = "died"
      BY <2>1, <2>2 DEF Engaged, TaskOf
    <2>4. KeptBy(w)'  BY <2>1, <2>2, <2>3 DEF Kept, KeptBy
    <2>5. \A v \in Workers \ {w} : poll'[v] = poll[v]  BY <1>3, <1>a DEF Load
    <2> QED  BY <2>1, <2>4, <2>5, OneKept
  <1>4. CASE Unlock(w)
    <2> DEFINE t == poll[w].cur
    <2>1. t \in Tasks /\ Release(w, t) /\ UNCHANGED <<halt, mode, exec>>
      BY <1>4, <1>a DEF Unlock
    <2>2. lock'[t] # w /\ \A u \in Tasks : lock'[u] \in {lock[u], NoWorker}
      BY <1>a, <2>1, ReleaseFrees
    <2>3. /\ \/ poll'[w].pc \in {"unlist", "putback"} /\ poll'[w].cur = t
             \/ poll'[w].pc \in {"scan", "idle"}
          /\ poll[w].pc # "died"
      BY <1>4, <1>a, <1>b DEF Unlock, Poll
    <2>4. \A u \in Tasks \ {t} : Engaged(w, u) => Engaged(w, u)'
      BY <2>1, <2>3 DEF Engaged, TaskOf
    <2>5. KeptBy(w)'  BY <2>1, <2>2, <2>3, <2>4, SetsAssumption DEF Kept, KeptBy
    <2>6. \A v \in Workers \ {w} : poll'[v] = poll[v]  BY <1>4, <1>a DEF Unlock
    <2> QED  BY <2>1, <2>2, <2>5, <2>6, OneKept
  <1>5. CASE Dequeue(w)
    <2>1. UNCHANGED <<lock, halt, mode, exec>>  BY <1>5 DEF Dequeue
    <2>2. \/ poll[w].pc = "unlist" /\ poll'[w].pc = "scan"
          \/ poll[w].pc = "take" /\ poll'[w].pc = "taken" /\ poll'[w].cur = poll[w].cur
      BY <1>5, <1>a DEF Dequeue, Poll
    <2>3. ASSUME NEW u \in Tasks, Engaged(w, u), ~ (poll[w].pc = "unlist" /\ u = poll[w].cur)
          PROVE  Engaged(w, u)'
      <3>1. CASE poll[w].pc = "unlist"  BY <2>1, <2>2, <2>3, <3>1 DEF Engaged, TaskOf
      <3>2. CASE poll[w].pc = "take"    BY <2>1, <2>2, <2>3, <3>2 DEF Engaged, TaskOf
      <3> QED  BY <2>2, <3>1, <3>2
    <2>4. poll[w].pc = "unlist" => lock[poll[w].cur] # w  BY DEF Kept, KeptBy
    <2>5. KeptBy(w)'
      <3>1. ASSUME NEW u \in Tasks, lock[u] = w
            PROVE  \/ Engaged(w, u)' \/ mode[w] = "gone"
                   \/ "died" \in {poll'[w].pc, halt[w].pc}
        <4>1. \/ Engaged(w, u) \/ mode[w] = "gone" \/ halt[w].pc = "died"
          BY <2>2, <3>1 DEF Kept, KeptBy
        <4>2. ~ (poll[w].pc = "unlist" /\ u = poll[w].cur)  BY <2>4, <3>1
        <4> QED  BY <2>3, <4>1, <4>2
      <3>2. poll'[w].pc \notin {"unlist", "putback"}  BY <2>2
      <3> QED  BY <2>1, <3>1, <3>2 DEF KeptBy
    <2>6. \A v \in Workers \ {w} : poll'[v] = poll[v]  BY <1>5, <1>a DEF Dequeue
    <2> QED  BY <2>1, <2>5, <2>6, OneKept
  <1>6. CASE DispatchUnknown(w) \/ BuryUnknown(w) \/ DispatchFull(w) \/ Uncount(w)
    <2>1. UNCHANGED <<lock, halt, mode, exec>>
      BY <1>6 DEF DispatchUnknown, BuryUnknown, DispatchFull, Uncount
    <2>2. /\ poll[w].pc \in {"taken", "bury", "over"}
          /\ poll'[w].pc \in {"bury", "buried", "over", "yield"}
          /\ poll'[w].cur = poll[w].cur
      BY <1>6, <1>a DEF DispatchUnknown, BuryUnknown, DispatchFull, Uncount, Poll
    <2>3. \A u \in Tasks : Engaged(w, u) => Engaged(w, u)'
      BY <2>1, <2>2 DEF Engaged, TaskOf
    <2>4. KeptBy(w)'  BY <2>1, <2>2, <2>3 DEF Kept, KeptBy
    <2>5. \A v \in Workers \ {w} : poll'[v] = poll[v]
      BY <1>6, <1>a DEF DispatchUnknown, BuryUnknown, DispatchFull, Uncount
    <2> QED  BY <2>1, <2>4, <2>5, OneKept
  <1>7. CASE Dispatch(w)
    <2>1. PICK l \in Lanes :
            /\ exec[w][l].pc = "idle"
            /\ exec' = [exec EXCEPT ![w][l] =
                   [pc |-> "start", task |-> poll[w].task, slot |-> MaxConcurrency > 0,
                    aborted |-> FALSE]]
      BY <1>7 DEF Dispatch
    <2>2. /\ UNCHANGED <<lock, halt, mode>> /\ poll[w].pc = "taken"
          /\ poll' = [poll EXCEPT ![w] = IdlePoll]
      BY <1>7 DEF Dispatch
    <2>3. exec'[w][l].pc = "start" /\ exec'[w][l].task.id = poll[w].cur
      BY <1>a, <2>1, <2>2
    <2>4. \A m \in Lanes \ {l} : exec'[w][m] = exec[w][m]  BY <1>a, <2>1
    <2>5. \A u \in Tasks : Engaged(w, u) => Engaged(w, u)'
      BY <2>1, <2>2, <2>3, <2>4 DEF Engaged, TaskOf
    <2>6. KeptBy(w)'  BY <1>a, <1>b, <2>2, <2>5 DEF Kept, KeptBy
    <2>7. \A v \in Workers \ {w} : poll'[v] = poll[v] /\ exec'[v] = exec[v]
      BY <1>a, <2>1, <2>2
    <2> QED  BY <2>2, <2>6, <2>7, OneKept
  <1>8. CASE PutBack(w)
    <2>1. UNCHANGED <<lock, halt, mode, exec>> /\ poll[w].pc = "putback"
      BY <1>8 DEF PutBack
    <2>2. poll'[w].pc = "idle"  BY <1>8, <1>a, <1>b DEF PutBack
    <2>3. \A u \in Tasks \ {poll[w].cur} : Engaged(w, u) => Engaged(w, u)'
      BY <2>1, <2>2 DEF Engaged, TaskOf
    <2>4. KeptBy(w)'  BY <2>1, <2>2, <2>3 DEF Kept, KeptBy
    <2>5. \A v \in Workers \ {w} : poll'[v] = poll[v]  BY <1>8, <1>a DEF PutBack
    <2> QED  BY <2>1, <2>4, <2>5, OneKept
  <1> QED  BY <1>1, <1>2, <1>3, <1>4, <1>5, <1>6, <1>7, <1>8 DEF PollStep

LEMMA KeptInit == Init => Kept
  BY SetsAssumption DEF Init, Kept, KeptBy, IdlePoll

LEMMA KeptStep == Typed /\ Kept /\ [Next]_vars => Kept'
  <1> SUFFICES ASSUME Typed, Kept, [Next]_vars PROVE Kept'
    OBVIOUS
  <1>1. CASE Next
    BY <1>1, KeptClient, KeptLapse, KeptPoll, KeptStop, KeptCrash, KeptExec DEF Next
  <1>2. CASE UNCHANGED vars
    BY <1>2, QuietKept DEF vars, SameRuns
  <1> QED  BY <1>1, <1>2

\* A lock is held only for a routine that is still busy with its task, or
\* because its worker crashed or threw: every other path of claimNext, poll,
\* processTask and stop releases what it acquired.
THEOREM LocksReleased == Spec => []NoLockLeak
  <1>1. Kept /\ Typed => NoLockLeak  BY DEF Kept, KeptBy, NoLockLeak, Typed, TypeOK
  <1> QED  BY <1>1, KeptInit, KeptStep, TypedAlways, PTL DEF Spec

-----------------------------------------------------------------------------
(* The concurrency limit *)

LEMMA FleetFinite == /\ IsFiniteSet(SlotHolders) /\ IsFiniteSet(Counted)
                     /\ Cardinality(SlotHolders) \in Nat /\ Cardinality(Counted) \in Nat
  <1>1. IsFiniteSet(Runs)  BY SetsAssumption, FS_Product DEF Runs
  <1>2. SlotHolders \in SUBSET Runs /\ Counted \in SUBSET Workers
    BY DEF SlotHolders, Counted
  <1>3. IsFiniteSet(SlotHolders) /\ IsFiniteSet(Counted)
    BY <1>1, <1>2, SetsAssumption, FS_Subset
  <1> QED  BY <1>3, FS_CardinalityType

\* Nobody takes or returns a slot and nobody is between incr and decr.
LEMMA SameSlotsCap ==
  ASSUME ConcurrencyCap, slots' = slots,
         \A v \in Workers, m \in Lanes : exec'[v][m].slot = exec[v][m].slot,
         \A v \in Workers : poll'[v].pc = "over" <=> poll[v].pc = "over"
  PROVE  ConcurrencyCap'
  <1>1. SlotHolders' = SlotHolders  BY DEF SlotHolders, Runs
  <1>2. Counted' = Counted  BY DEF Counted
  <1> QED  BY <1>1, <1>2 DEF ConcurrencyCap

LEMMA CapClient ==
  ASSUME Typed, ConcurrencyCap,
         \E t \in Tasks : \/ ClientStep(t) \/ Tick(t) \/ Lapse(t) \/ ExpireResult(t)
                         \/ \E w \in Workers : OverrunEnds(w, t)
  PROVE  ConcurrencyCap'
  <1>1. UNCHANGED <<slots, poll, exec>>
    BY DEF ClientStep, EnqueueCheck, EnqueueStore, EnqueueIndex, EnqueueKey, EnqueueAdd, CancelCheck, CancelUnlist,
           CancelDelete, Tick, Lapse, ExpireResult, OverrunEnds
  <1> QED  BY <1>1, SameSlotsCap

LEMMA CapStop ==
  ASSUME Typed, ConcurrencyCap, NEW w \in Workers, StopStep(w)
  PROVE  ConcurrencyCap'
  <1>1. CASE StopNext(w)
    <2>1. PICK t \in ActiveOf(w) :
            exec' = [exec EXCEPT ![w][active[w][t]].aborted = TRUE]
      BY <1>1 DEF StopNext
    <2>2. \A v \in Workers, m \in Lanes : exec'[v][m].slot = exec[v][m].slot
      BY <2>1 DEF Typed, TypeOK, Exec
    <2>3. slots' = slots /\ poll' = poll  BY <1>1 DEF StopNext
    <2> QED  BY <2>2, <2>3, SameSlotsCap
  <1>2. CASE ~ StopNext(w)
    <2>1. UNCHANGED <<slots, poll, exec>>
      BY <1>2 DEF StopStep, StopBegin, StopLoad, StopEnlist, StopUnlock, StopEnd
    <2> QED  BY <2>1, SameSlotsCap
  <1> QED  BY <1>1, <1>2

\* The counter keeps counting what a crashed worker held.
LEMMA CapCrash ==
  ASSUME Typed, ConcurrencyCap, NEW w \in Workers, Crash(w)
  PROVE  ConcurrencyCap'
  <1>1. /\ poll' = [poll EXCEPT ![w] = IdlePoll]
        /\ exec' = [exec EXCEPT ![w] = [l \in Lanes |-> NoExec]]
        /\ slots' = slots
    BY DEF Crash
  <1>2. SlotHolders' \in SUBSET SlotHolders
    BY <1>1 DEF SlotHolders, Runs, NoExec, Typed, TypeOK
  <1>3. Counted' \in SUBSET Counted  BY <1>1 DEF Counted, IdlePoll, Typed, TypeOK
  <1>4. /\ Cardinality(SlotHolders') <= Cardinality(SlotHolders)
        /\ Cardinality(Counted') <= Cardinality(Counted)
        /\ Cardinality(SlotHolders') \in Nat /\ Cardinality(Counted') \in Nat
    BY <1>2, <1>3, FleetFinite, FS_Subset, FS_CardinalityType
  <1>5. SlotHolders' # {} => SlotHolders # {}  BY <1>2
  <1>6. slots \in Int /\ MaxConcurrency \in Nat  BY BoundsAssumption DEF Typed, TypeOK
  <1> QED  BY <1>1, <1>4, <1>5, <1>6, FleetFinite DEF ConcurrencyCap

LEMMA CapExec ==
  ASSUME Typed, ConcurrencyCap, NEW w \in Workers, NEW l \in Lanes,
         ExecStep(w, l) \/ Heartbeat(w, l)
  PROVE  ConcurrencyCap'
  <1> USE DEF ExecAt
  <1>a. /\ exec \in [Workers -> [Lanes -> Exec]] /\ exec[w][l] \in Exec
        /\ slots \in Int /\ MaxConcurrency \in Nat
    BY BoundsAssumption DEF Typed, TypeOK
  <1>1. CASE \/ Start(w, l) \/ Short(w, l) \/ Begin(w, l) \/ HandlerReturns(w, l)
             \/ Settle(w, l) \/ HandlerThrows(w, l) \/ Requeue(w, l) \/ Bury(w, l)
    <2>1. UNCHANGED <<slots, poll>>
      BY <1>1 DEF Start, Short, Begin, HandlerReturns, Settle, HandlerThrows, Requeue, Bury
    <2>2. \E pc \in ExecPc : Step(w, l, pc)
      BY <1>1 DEF Start, Short, Begin, HandlerReturns, Settle, HandlerThrows, Retry, Requeue,
                  Bury, ExecPc
    <2>3. \A v \in Workers, m \in Lanes : exec'[v][m].slot = exec[v][m].slot
      BY <1>a, <2>2 DEF Step, Exec
    <2> QED  BY <2>1, <2>3, SameSlotsCap
  <1>2. CASE Heartbeat(w, l)
    <2>1. UNCHANGED <<slots, poll>>  BY <1>2 DEF Heartbeat
    <2>2. \A v \in Workers, m \in Lanes : exec'[v][m].slot = exec[v][m].slot
      BY <1>a, <1>2 DEF Heartbeat, Exec
    <2> QED  BY <2>1, <2>2, SameSlotsCap
  <1>3. CASE Finally(w, l) /\ exec[w][l].slot
    <2>1. /\ exec' = [exec EXCEPT ![w][l].pc = "unlock", ![w][l].slot = FALSE]
          /\ slots' = Returned(slots) /\ poll' = poll
      BY <1>3 DEF Finally
    <2>2. exec'[w][l].slot = FALSE  BY <1>a, <2>1 DEF Exec
    <2>3. \A v \in Workers, m \in Lanes : ~ (v = w /\ m = l) => exec'[v][m] = exec[v][m]
      BY <1>a, <2>1
    <2>4. SlotHolders' = SlotHolders \ {<<w, l>>} /\ <<w, l>> \in SlotHolders
      BY <1>3, <2>2, <2>3 DEF SlotHolders, Runs
    <2>5. Cardinality(SlotHolders') = Cardinality(SlotHolders) - 1
      BY <2>4, FleetFinite, FS_RemoveElement
    <2>6. Counted' = Counted  BY <2>1 DEF Counted
    <2>7. SlotHolders # {}  BY <2>4
    <2>8. Cardinality(SlotHolders) + Cardinality(Counted) <= slots  BY DEF ConcurrencyCap
    <2>9. Cardinality(SlotHolders) # 0  BY <2>7, FleetFinite, FS_EmptySet
    <2>10. slots' = slots - 1
      <3>1. slots > 0  BY <1>a, <2>8, <2>9, FleetFinite
      <3> QED  BY <2>1, <3>1 DEF Returned
    <2> QED  BY <1>a, <2>5, <2>6, <2>7, <2>8, <2>10, FleetFinite DEF ConcurrencyCap
  <1>4. CASE FinallyUnlock(w, l) \/ (Finally(w, l) /\ ~ exec[w][l].slot)
    <2>1. /\ exec' = [exec EXCEPT ![w][l] = NoExec]
          /\ slots' = slots /\ poll' = poll
      BY <1>4 DEF Finally, FinallyUnlock
    <2>2. exec[w][l].slot = FALSE
      BY <1>a, <1>4 DEF FinallyUnlock, Typed, ExecOK, Exec
    <2>3. \A v \in Workers, m \in Lanes : exec'[v][m].slot = exec[v][m].slot
      BY <1>a, <2>1, <2>2 DEF NoExec
    <2> QED  BY <2>1, <2>3, SameSlotsCap
  <1> QED  BY <1>1, <1>2, <1>3, <1>4 DEF ExecStep

LEMMA CapPoll ==
  ASSUME Typed, ConcurrencyCap, NEW w \in Workers, PollStep(w)
  PROVE  ConcurrencyCap'
  <1> USE DEF PollAt, Goto
  <1>a. /\ poll \in [Workers -> Poll] /\ poll[w] \in Poll
        /\ exec \in [Workers -> [Lanes -> Exec]]
        /\ slots \in Int /\ MaxConcurrency \in Nat
        /\ Cardinality(SlotHolders) + Cardinality(Counted) <= slots
    BY BoundsAssumption DEF Typed, TypeOK, ConcurrencyCap
  <1>b. IdlePoll.pc = "idle"  BY DEF IdlePoll
  <1>1. CASE \/ Scan(w) \/ NextBucket(w) \/ Acquire(w) \/ Load(w) \/ Unlock(w) \/ Dequeue(w)
             \/ DispatchUnknown(w) \/ BuryUnknown(w) \/ PutBack(w)
    <2>1. UNCHANGED <<slots, exec>>
      BY <1>1 DEF Scan, NextBucket, Acquire, Load, Unlock, Dequeue, DispatchUnknown, BuryUnknown,
                  PutBack
    <2>2. poll[w].pc # "over"
      BY <1>1 DEF Scan, NextBucket, Acquire, Load, Unlock, Dequeue, DispatchUnknown, BuryUnknown,
                  PutBack
    <2>3. poll'[w].pc # "over"
      <3>1. CASE Scan(w) \/ NextBucket(w)
        BY <1>a, <1>b, <3>1 DEF Scan, NextBucket, Poll
      <3>2. CASE Load(w)  BY <1>a, <3>2 DEF Load, Poll
      <3>3. CASE Unlock(w)  BY <1>a, <1>b, <3>3 DEF Unlock, Poll
      <3>4. CASE Dequeue(w) \/ DispatchUnknown(w) \/ BuryUnknown(w) \/ PutBack(w)
        BY <1>a, <1>b, <3>4 DEF Dequeue, DispatchUnknown, BuryUnknown, PutBack, Poll
      <3>5. CASE Acquire(w)
        <4>1. PICK t \in poll[w].list :
                \/ poll' = [poll EXCEPT ![w].pc = "locked", ![w].cur = t, ![w].list = @ \ {t}]
                \/ poll' = [poll EXCEPT ![w].list = @ \ {t}]
          BY <3>5 DEF Acquire
        <4> QED  BY <1>a, <2>2, <4>1 DEF Poll
      <3> QED  BY <1>1, <3>1, <3>2, <3>3, <3>4, <3>5
    <2>4. \A v \in Workers \ {w} : poll'[v] = poll[v]
      BY <1>1, <1>a DEF Scan, NextBucket, Acquire, Load, Unlock, Dequeue, DispatchUnknown,
                        BuryUnknown, PutBack
    <2> QED  BY <2>1, <2>2, <2>3, <2>4, SameSlotsCap
  <1>2. CASE Dispatch(w)
    <2>1. PICK l \in Lanes :
            /\ exec[w][l].pc = "idle"
            /\ exec' = [exec EXCEPT ![w][l] =
                   [pc |-> "start", task |-> poll[w].task, slot |-> MaxConcurrency > 0,
                    aborted |-> FALSE]]
      BY <1>2 DEF Dispatch
    <2>2. /\ slots' = IF MaxConcurrency > 0 THEN slots + 1 ELSE slots
          /\ MaxConcurrency > 0 => slots + 1 <= MaxConcurrency
          /\ poll[w].pc = "taken" /\ poll' = [poll EXCEPT ![w] = IdlePoll]
      BY <1>2 DEF Dispatch, Admitted
    <2>3. ~ exec[w][l].slot /\ (exec'[w][l].slot <=> MaxConcurrency > 0)
      BY <1>a, <2>1 DEF Typed, ExecOK
    <2>4. \A v \in Workers, m \in Lanes : ~ (v = w /\ m = l) => exec'[v][m] = exec[v][m]
      BY <1>a, <2>1
    <2>5. \A v \in Workers : poll'[v].pc = "over" <=> poll[v].pc = "over"
      BY <1>a, <1>b, <2>2
    <2>6. CASE MaxConcurrency > 0
      <3>1. SlotHolders' = SlotHolders \cup {<<w, l>>} /\ <<w, l>> \notin SlotHolders
        BY <2>3, <2>4, <2>6 DEF SlotHolders, Runs
      <3>2. Cardinality(SlotHolders') = Cardinality(SlotHolders) + 1
        BY <3>1, FleetFinite, FS_AddElement
      <3>3. Counted' = Counted  BY <2>5 DEF Counted
      <3> QED  BY <1>a, <2>2, <2>6, <3>2, <3>3, FleetFinite DEF ConcurrencyCap
    <2>7. CASE ~ (MaxConcurrency > 0)
      <3>1. exec[w][l].slot = FALSE /\ exec'[w][l].slot = FALSE
        BY <1>a, <2>1, <2>3, <2>7 DEF Typed, TypeOK, Exec
      <3>2. \A v \in Workers, m \in Lanes : exec'[v][m].slot = exec[v][m].slot
        BY <2>4, <3>1
      <3> QED  BY <2>2, <2>5, <2>7, <3>2, SameSlotsCap
    <2> QED  BY <2>6, <2>7
  <1>3. CASE DispatchFull(w)
    <2>1. /\ slots' = slots + 1 /\ exec' = exec
          /\ poll[w].pc = "taken" /\ poll' = [poll EXCEPT ![w].pc = "over"]
      BY <1>3 DEF DispatchFull
    <2>2. poll'[w].pc = "over" /\ \A v \in Workers \ {w} : poll'[v] = poll[v]
      BY <1>a, <2>1 DEF Poll
    <2>3. Counted' = Counted \cup {w} /\ w \notin Counted  BY <2>1, <2>2 DEF Counted
    <2>4. Cardinality(Counted') = Cardinality(Counted) + 1
      BY <2>3, FleetFinite, FS_AddElement
    <2>5. SlotHolders' = SlotHolders  BY <2>1 DEF SlotHolders, Runs
    <2> QED  BY <1>a, <2>1, <2>4, <2>5, FleetFinite DEF ConcurrencyCap
  <1>4. CASE Uncount(w)
    <2>1. /\ slots' = slots - 1 /\ exec' = exec
          /\ poll[w].pc = "over" /\ poll' = [poll EXCEPT ![w].pc = "yield"]
      BY <1>4 DEF Uncount
    <2>2. poll'[w].pc = "yield" /\ \A v \in Workers \ {w} : poll'[v] = poll[v]
      BY <1>a, <2>1 DEF Poll
    <2>3. Counted' = Counted \ {w} /\ w \in Counted  BY <2>1, <2>2 DEF Counted
    <2>4. Cardinality(Counted') = Cardinality(Counted) - 1
      BY <2>3, FleetFinite, FS_RemoveElement
    <2>5. SlotHolders' = SlotHolders  BY <2>1 DEF SlotHolders, Runs
    <2> QED  BY <1>a, <2>1, <2>4, <2>5, FleetFinite DEF ConcurrencyCap
  <1> QED  BY <1>1, <1>2, <1>3, <1>4 DEF PollStep

LEMMA CapStep == Typed /\ ConcurrencyCap /\ [Next]_vars => ConcurrencyCap'
  <1> SUFFICES ASSUME Typed, ConcurrencyCap, [Next]_vars PROVE ConcurrencyCap'
    OBVIOUS
  <1>1. CASE Next
    BY <1>1, CapClient, CapPoll, CapExec, CapStop, CapCrash DEF Next
  <1>2. CASE UNCHANGED vars
    BY <1>2, SameSlotsCap DEF vars
  <1> QED  BY <1>1, <1>2

LEMMA CapInit == Init => ConcurrencyCap
  <1> SUFFICES ASSUME Init PROVE ConcurrencyCap
    OBVIOUS
  <1>1. SlotHolders = {} /\ Counted = {}
    BY DEF Init, SlotHolders, Counted, Runs, NoExec, IdlePoll
  <1> QED  BY <1>1, FS_EmptySet DEF Init, ConcurrencyCap

\* No more runs of a task type own a slot than maxConcurrency allows, and the
\* shared counter is never below the slots that are out, whoever crashes,
\* stalls or stops.
THEOREM SlotsCapped == Spec => []ConcurrencyCap
  BY CapInit, CapStep, TypedAlways, PTL DEF Spec

=============================================================================
