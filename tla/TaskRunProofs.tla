--------------------------- MODULE TaskRunProofs ----------------------------
(***************************************************************************)
(* What a deployment of TaskQueue with one worker promises about a task,   *)
(* for any tasks, lanes, attempts, keys and limits, as long as nothing     *)
(* breaks or stops the worker and nobody cancels: every task follows       *)
(* TaskLifecycle, and none is forgotten.                                   *)
(*                                                                         *)
(* The worker's lock does not protect it from itself: acquire() answers    *)
(* yes to the holder, and the lane that has put a task back into its queue *)
(* still owes a release when the next run of the task begins. What keeps   *)
(* the runs apart is that a task is in one place at a time: with its       *)
(* client, in its queue, with the poll loop or in a lane.                  *)
(***************************************************************************)
EXTENDS TaskQueueProofs

USE DEF store, client, local, Storing, Submits

\* One worker, and nothing that disturbs it.
OneWorker == Faults = {} /\ \A v, w \in Workers : v = w

\* Where the poll loop is with t, and where a lane is with it.
PollOf(w, t) == IF poll[w].cur = t THEN poll[w].pc ELSE "idle"
LaneOf(w, l, t) == IF TaskOf(w, l) = t THEN exec[w][l].pc ELSE "idle"

Finding == {"locked", "skip", "take"}
Taking == {"taken", "over", "yield", "putback"}
Burying == {"bury", "buried"}
Waiting == {"start", "short", "begin", "requeue", "readd"}
Running == {"handler", "settle"}
Work == Waiting \cup Running \cup {"bury"}

Is(t, statuses) == data[t].form = "whole" /\ data[t].status \in statuses

Carried(t) == \E w \in Workers : PollOf(w, t) \in Taking \cup Burying
Worked(t) == \E w \in Workers, l \in Lanes : LaneOf(w, l, t) \in Work

\* A task is in one place at a time,
OnePlace(t) ==
    /\ sub[t] # "queued" => /\ queue[t] = "absent" /\ ~Carried(t) /\ ~Worked(t)
                            /\ \A w \in Workers, l \in Lanes : LaneOf(w, l, t) = "idle"
    /\ queue[t] # "absent" => ~Carried(t) /\ ~Worked(t)
    /\ Carried(t) => ~Worked(t)
    /\ \A w \in Workers, l, m \in Lanes :
          LaneOf(w, l, t) \in Work /\ LaneOf(w, m, t) \in Work => l = m
    /\ \A w \in Workers :
          /\ t \in poll[w].list \/ PollOf(w, t) \in Finding => queue[t] # "absent"
          /\ t \in poll[w].list => PollOf(w, t) \notin Finding

\* and its record says what is true there.
RecordTrue(t) ==
    /\ sub[t] \notin Storing \cup {"queued"} => data[t] = NoHash
    /\ sub[t] \in Storing \/ queue[t] # "absent" => Is(t, Claimable)
    /\ \A w \in Workers :
          /\ PollOf(w, t) \in Taking => Is(t, Claimable)
          /\ PollOf(w, t) \in Burying => Is(t, {"dead"})
          /\ PollOf(w, t) \in {"take", "taken"} => poll[w].task.attempt = data[t].attempt
    /\ \A w \in Workers, l \in Lanes :
          /\ LaneOf(w, l, t) \in Waiting => Is(t, Claimable)
          /\ LaneOf(w, l, t) \in Running => Is(t, {"running"})
          /\ LaneOf(w, l, t) = "bury" => Is(t, {"dead"})
          /\ LaneOf(w, l, t) \in {"start", "begin", "handler"} => exec[w][l].task.attempt = data[t].attempt
          /\ LaneOf(w, l, t) = "short" => KeyOf[t] \in marked
          /\ LaneOf(w, l, t) = "settle" => KeyOf[t] \in marked

\* While it is not finished it is somewhere.
Somewhere(t) ==
    Live(t) => sub[t] \in Storing \/ queue[t] # "absent" \/ Carried(t) \/ Worked(t)

\* Nothing stops, cancels or breaks the worker.
Undisturbed ==
    /\ \A w \in Workers : /\ poll[w].pc \notin {"drop", "unlist", "died"}
                          /\ mode[w] = "up" /\ forced[w] = {}
    /\ \A t \in Tasks : cancel[t] = "idle"

Well(t) == OnePlace(t) /\ RecordTrue(t) /\ Somewhere(t)

Alone == Undisturbed /\ \A t \in Tasks : Well(t)

-----------------------------------------------------------------------------
(* Views *)

\* Neither the loop nor a lane moves t.
Off == {"idle", "scan"}

PollStays(t) == \A v \in Workers :
    /\ \/ PollOf(v, t)' = PollOf(v, t) /\ poll'[v].task = poll[v].task
       \/ PollOf(v, t)' \in Off /\ PollOf(v, t) \in Off
    /\ t \in poll'[v].list => \/ t \in poll[v].list
                              \/ queue[t] # "absent" /\ PollOf(v, t)' \in Off

LanesStay(t) == \A v \in Workers, l \in Lanes :
    \/ LaneOf(v, l, t)' = LaneOf(v, l, t) /\ exec'[v][l].task = exec[v][l].task
    \/ /\ LaneOf(v, l, t)' \notin Work /\ LaneOf(v, l, t) \notin Work
       /\ LaneOf(v, l, t) = "idle" => LaneOf(v, l, t)' = "idle"

RecordStays(t) == /\ data'[t] = data[t] /\ queue'[t] = queue[t] /\ sub'[t] = sub[t]
                  /\ marked \subseteq marked'

LEMMA Names == /\ \A s \in Finding \cup Taking \cup Burying : s \notin Off
               /\ {"start", "begin", "handler", "short", "settle", "bury"} \subseteq Work
               /\ Waiting \subseteq Work /\ Running \subseteq Work
               /\ {"take", "taken"} \cap Off = {}
BY DEF Finding, Taking, Burying, Off, Work, Waiting, Running

LEMMA StaysCarried ==
    ASSUME NEW t \in Tasks, PollStays(t), LanesStay(t)
    PROVE  /\ Carried(t)' <=> Carried(t)
           /\ Worked(t)' <=> Worked(t)
<1>1. Carried(t)' <=> Carried(t)
  BY Names DEF PollStays, Carried
<1>2. Worked(t)' <=> Worked(t)
  BY DEF LanesStay, Worked
<1> QED BY <1>1, <1>2

LEMMA Stays ==
    ASSUME NEW t \in Tasks, Well(t), PollStays(t), LanesStay(t), RecordStays(t)
    PROVE  Well(t)'
<1>0. (Carried(t)' <=> Carried(t)) /\ (Worked(t)' <=> Worked(t))
  BY StaysCarried
<1>1. OnePlace(t)'
  <2>1. /\ sub'[t] # "queued" => queue'[t] = "absent" /\ ~Carried(t)' /\ ~Worked(t)'
        /\ queue'[t] # "absent" => ~Carried(t)' /\ ~Worked(t)'
        /\ Carried(t)' => ~Worked(t)'
    BY <1>0 DEF Well, OnePlace, RecordStays
  <2>2. \A w \in Workers, l, m \in Lanes :
          LaneOf(w, l, t)' \in Work /\ LaneOf(w, m, t)' \in Work => l = m
    BY DEF Well, OnePlace, LanesStay
  <2>4. sub'[t] # "queued" => \A w \in Workers, l \in Lanes : LaneOf(w, l, t)' = "idle"
    BY DEF Well, OnePlace, LanesStay, RecordStays
  <2>3. \A w \in Workers :
          /\ t \in poll'[w].list \/ PollOf(w, t)' \in Finding => queue'[t] # "absent"
          /\ t \in poll'[w].list => PollOf(w, t)' \notin Finding
    BY Names DEF Well, OnePlace, PollStays, RecordStays
  <2> QED BY <2>1, <2>2, <2>3, <2>4 DEF OnePlace
<1>2. RecordTrue(t)'
  <2>1. /\ sub'[t] \notin Storing \cup {"queued"} => data'[t] = NoHash
        /\ sub'[t] \in Storing \/ queue'[t] # "absent" => Is(t, Claimable)'
        /\ \A s : Is(t, s)' <=> Is(t, s)
    BY DEF Well, RecordTrue, RecordStays, Is
  <2>2. ASSUME NEW w \in Workers
        PROVE  /\ PollOf(w, t)' \in Taking => Is(t, Claimable)'
               /\ PollOf(w, t)' \in Burying => Is(t, {"dead"})'
               /\ PollOf(w, t)' \in {"take", "taken"} => poll'[w].task.attempt = data'[t].attempt
    <3>1. \/ PollOf(w, t)' = PollOf(w, t) /\ poll'[w].task = poll[w].task
          \/ PollOf(w, t)' \in Off
      BY DEF PollStays
    <3> QED BY <2>1, <3>1, Names DEF Well, RecordTrue, RecordStays
  <2>3. ASSUME NEW w \in Workers, NEW l \in Lanes
        PROVE  /\ LaneOf(w, l, t)' \in Waiting => Is(t, Claimable)'
               /\ LaneOf(w, l, t)' \in Running => Is(t, {"running"})'
               /\ LaneOf(w, l, t)' = "bury" => Is(t, {"dead"})'
               /\ LaneOf(w, l, t)' \in {"start", "begin", "handler"}
                    => exec'[w][l].task.attempt = data'[t].attempt
               /\ LaneOf(w, l, t)' = "short" => KeyOf[t] \in marked'
               /\ LaneOf(w, l, t)' = "settle" => KeyOf[t] \in marked'
    <3>1. \/ LaneOf(w, l, t)' = LaneOf(w, l, t) /\ exec'[w][l].task = exec[w][l].task
          \/ LaneOf(w, l, t)' \notin Work
      BY DEF LanesStay
    <3> QED BY <2>1, <3>1, Names DEF Well, RecordTrue, RecordStays
  <2> QED BY <2>1, <2>2, <2>3 DEF RecordTrue
<1>3. Somewhere(t)'
  BY <1>0 DEF Well, Somewhere, RecordStays, Live
<1> QED BY <1>1, <1>2, <1>3 DEF Well

-----------------------------------------------------------------------------
(* What the routines' steps do to the views *)

\* A step of the loop alone, of worker w and task t.
LEMMA PollMoves ==
    ASSUME Typed, NEW w \in Workers, NEW t \in Tasks, NEW next \in Poll,
           poll' = [poll EXCEPT ![w] = next],
           poll[w].cur = t \/ poll[w].pc \in Off, next.cur = t \/ next.pc \in Off,
           next.list \subseteq poll[w].list,
           NEW u \in Tasks, u # t
    PROVE  PollStays(u)
<1>1. poll \in [Workers -> Poll]
  BY DEF Typed, TypeOK
<1>2. poll'[w] = next /\ \A v \in Workers \ {w} : poll'[v] = poll[v]
  BY <1>1
<1>3. ASSUME NEW v \in Workers, v # w
      PROVE  PollOf(v, u)' = PollOf(v, u) /\ poll'[v].task = poll[v].task /\ poll'[v].list = poll[v].list
  BY <1>2, <1>3 DEF PollOf
<1>4. PollOf(w, u)' \in Off /\ PollOf(w, u) \in Off
  BY <1>2 DEF PollOf, Off
<1> QED BY <1>2, <1>3, <1>4 DEF PollStays

LEMMA PollKept ==
    ASSUME UNCHANGED poll, NEW u \in Tasks
    PROVE  PollStays(u)
BY DEF PollStays, PollOf

LEMMA LanesKept ==
    ASSUME UNCHANGED exec, NEW u \in Tasks
    PROVE  LanesStay(u)
BY DEF LanesStay, LaneOf, TaskOf

\* A lane goes on with its task.
LEMMA LaneMoves ==
    ASSUME Typed, NEW w \in Workers, NEW l \in Lanes, NEW t, t = TaskOf(w, l),
           NEW pc, Step(w, l, pc)
    PROVE  /\ \A v \in Workers, m \in Lanes : exec'[v][m].task = exec[v][m].task
           /\ LaneOf(w, l, t)' = pc /\ LaneOf(w, l, t) = exec[w][l].pc
           /\ \A v \in Workers, m \in Lanes, u \in Tasks :
                 ~(v = w /\ m = l /\ u = t) => LaneOf(v, m, u)' = LaneOf(v, m, u)
           /\ \A u \in Tasks : u # t => LanesStay(u)
<1>1. exec \in [Workers -> [Lanes -> Exec]]
  BY DEF Typed, TypeOK
<1>2. exec'[w][l].pc = pc /\ exec'[w][l].task = exec[w][l].task
  BY <1>1 DEF Step, Exec
<1>3. \A v \in Workers, m \in Lanes : ~(v = w /\ m = l) => exec'[v][m] = exec[v][m]
  BY <1>1 DEF Step
<1>4. \A v \in Workers, m \in Lanes : exec'[v][m].task = exec[v][m].task
  BY <1>2, <1>3
<1>5. LaneOf(w, l, t)' = pc /\ LaneOf(w, l, t) = exec[w][l].pc
  BY <1>2 DEF LaneOf, TaskOf
<1>6. ASSUME NEW v \in Workers, NEW m \in Lanes, NEW u \in Tasks, ~(v = w /\ m = l /\ u = t)
      PROVE  LaneOf(v, m, u)' = LaneOf(v, m, u)
  BY <1>2, <1>3, <1>6 DEF LaneOf, TaskOf
<1>7. \A u \in Tasks : u # t => LanesStay(u)
  BY <1>4, <1>6 DEF LanesStay
<1> QED BY <1>4, <1>5, <1>6, <1>7

\* A lane that is not working is given a task, or is through with one.
LEMMA LaneTurns ==
    ASSUME Typed, NEW w \in Workers, NEW l \in Lanes, NEW x \in Exec,
           exec' = [exec EXCEPT ![w][l] = x],
           NEW u \in Tasks, exec[w][l].pc \notin Work,
           \/ x.pc = "idle" \/ x.task.id # u
           \/ x.pc \notin Work /\ exec[w][l].pc # "idle" /\ exec[w][l].task.id = u
    PROVE  LanesStay(u)
<1>1. exec \in [Workers -> [Lanes -> Exec]]
  BY DEF Typed, TypeOK
<1>2. exec'[w][l] = x /\ \A v \in Workers, m \in Lanes : ~(v = w /\ m = l) => exec'[v][m] = exec[v][m]
  BY <1>1
<1>3. "idle" \notin Work
  BY DEF Work, Waiting, Running
<1> QED BY <1>2, <1>3 DEF LanesStay, LaneOf, TaskOf

\* updateStatus of a record that is there.
LEMMA StatusMoves ==
    ASSUME Typed, NEW t \in Tasks, NEW old, NEW new \in Statuses, NEW attempt \in Attempts,
           SetStatus(t, old, new, attempt), data[t].form = "whole"
    PROVE  /\ data'[t] = [form |-> "whole", status |-> new, attempt |-> attempt]
           /\ \A u \in Tasks : u # t => data'[u] = data[u]
BY DEF Typed, TypeOK, SetStatus, Hash

LEMMA Undisturbs ==
    ASSUME OneWorker, Typed, Undisturbed, [Next]_vars,
           \A w \in Workers : poll'[w].pc \notin {"drop", "unlist", "died"}
    PROVE  Undisturbed'
<1>1. /\ \A t \in Tasks : cancel'[t] = "idle"
      /\ \A w \in Workers : mode'[w] = "up" /\ forced'[w] = {}
  <2>1. CASE UNCHANGED vars
    BY <2>1 DEF vars, Undisturbed
  <2>2. ASSUME NEW t \in Tasks, ClientStep(t) \/ Tick(t) \/ Lapse(t) \/ ExpireResult(t)
        PROVE  UNCHANGED <<mode, forced, cancel>>
    BY <2>2 DEF ClientStep, EnqueueCheck, EnqueueStore, EnqueueIndex, EnqueueKey, EnqueueAdd,
                CancelCheck, CancelUnlist, CancelDelete, Tick, Lapse, ExpireResult,
                OneWorker, Undisturbed
  <2>3. ASSUME NEW w \in Workers, PollStep(w)
        PROVE  UNCHANGED <<mode, forced, cancel>>
    BY <2>3 DEF PollStep, Scan, NextBucket, Acquire, Load, Unlock, Dequeue, DispatchUnknown,
                BuryUnknown, Dispatch, DispatchFull, Uncount, PutBack
  <2>4. ASSUME NEW w \in Workers, StopStep(w) \/ Crash(w)
        PROVE  FALSE
    <3>1. halt[w].pc = "idle" /\ Faults = {}
      BY DEF Undisturbed, Typed, HaltOK, NoHalt, OneWorker
    <3> QED BY <2>4, <3>1 DEF StopStep, StopBegin, StopNext, StopLoad, StopEnlist, StopUnlock, StopEnd,
                              HaltAt, Crash
  <2>5. ASSUME NEW w \in Workers, NEW l \in Lanes, ExecStep(w, l) \/ Heartbeat(w, l)
        PROVE  UNCHANGED <<mode, cancel>> /\ \A v \in Workers : forced'[v] \subseteq forced[v]
    <3>1. CASE Finally(w, l)
      BY <3>1 DEF Finally, Typed, TypeOK
    <3>2. CASE ~Finally(w, l)
      BY <2>5, <3>2 DEF ExecStep, Start, Short, Begin, HandlerReturns, Settle, HandlerThrows, Requeue,
                        Bury, FinallyUnlock, Heartbeat
    <3> QED BY <3>1, <3>2
  <2>6. ASSUME NEW w \in Workers, NEW t \in Tasks, OverrunEnds(w, t)
        PROVE  UNCHANGED <<mode, forced, cancel>>
    BY <2>6 DEF OverrunEnds
  <2> QED BY <2>1, <2>2, <2>3, <2>4, <2>5, <2>6 DEF Next, Undisturbed
<1> QED BY <1>1 DEF Undisturbed

\* What may happen to a task that no routine has: its record, its place in the queue, its client.
LEMMA RecordMoves ==
    ASSUME NEW t \in Tasks, Well(t), UNCHANGED poll, ~Carried(t), ~Worked(t),
           \A w \in Workers, l \in Lanes : LaneOf(w, l, t)' = LaneOf(w, l, t),
           marked \subseteq marked',
           sub[t] # "queued" \/ data'[t] # data[t] => queue[t] = "absent",
           sub'[t] # "queued" => queue'[t] = "absent" /\ sub[t] # "queued",
           sub'[t] \notin Storing \cup {"queued"} => data'[t] = NoHash,
           sub'[t] \in Storing \/ queue'[t] # "absent" => Is(t, Claimable)',
           queue[t] # "absent" => queue'[t] # "absent",
           Live(t)' => sub'[t] \in Storing \/ queue'[t] # "absent"
    PROVE  Well(t)'
<1>1. /\ \A w \in Workers : PollOf(w, t)' = PollOf(w, t)
      /\ \A w \in Workers, l \in Lanes : LaneOf(w, l, t)' = LaneOf(w, l, t)
  BY DEF PollOf
<1>2. ~Carried(t)' /\ ~Worked(t)'
  BY <1>1 DEF Carried, Worked
<1>3. OnePlace(t)'
  BY <1>1, <1>2 DEF Well, OnePlace
<1>4. \A w \in Workers : PollOf(w, t) \notin Taking \cup Burying /\ PollOf(w, t) # "taken"
  BY DEF Carried, Taking
<1>5. \A w \in Workers, l \in Lanes :
        LaneOf(w, l, t) \notin Work \cup {"start", "begin", "handler", "short", "settle", "bury"}
  BY Names DEF Worked
<1>6. \A w \in Workers : PollOf(w, t) = "take" => data'[t] = data[t]
  BY DEF Well, OnePlace, Finding
<1>7. RecordTrue(t)'
  <2>1. \A w \in Workers :
          /\ PollOf(w, t)' \in Taking => Is(t, Claimable)'
          /\ PollOf(w, t)' \in Burying => Is(t, {"dead"})'
          /\ PollOf(w, t)' \in {"take", "taken"} => poll'[w].task.attempt = data'[t].attempt
    BY <1>1, <1>4, <1>6 DEF Well, RecordTrue
  <2>2. \A w \in Workers, l \in Lanes :
          /\ LaneOf(w, l, t)' \notin Waiting \cup Running
          /\ LaneOf(w, l, t)' \notin {"start", "begin", "handler", "short", "settle", "bury"}
    BY <1>1, <1>5 DEF Work
  <2> QED BY <2>1, <2>2 DEF RecordTrue
<1>8. Somewhere(t)'
  BY DEF Somewhere
<1> QED BY <1>3, <1>7, <1>8 DEF Well

\* What the loop may do with the task it is at.
LEMMA LoopMoves ==
    ASSUME OneWorker, NEW w \in Workers, NEW t \in Tasks, Well(t), ~Worked(t), sub[t] = "queued",
           NEW pc, PollOf(w, t)' = pc,
           UNCHANGED exec, sub'[t] = sub[t], marked \subseteq marked',
           t \in poll'[w].list => pc \notin Finding,
           t \in poll'[w].list \/ pc \in Finding => queue'[t] # "absent",
           queue'[t] # "absent" => pc \notin Taking \cup Burying /\ Is(t, Claimable)',
           pc \in Taking => Is(t, Claimable)',
           pc \in Burying => Is(t, {"dead"})',
           pc \in {"take", "taken"} => poll'[w].task.attempt = data'[t].attempt,
           Live(t)' => queue'[t] # "absent" \/ pc \in Taking \cup Burying
    PROVE  Well(t)'
<1>1. \A v \in Workers : v = w
  BY DEF OneWorker
<1>2. \A v \in Workers, l \in Lanes : LaneOf(v, l, t)' = LaneOf(v, l, t)
  BY DEF LaneOf, TaskOf
<1>3. ~Worked(t)' /\ (Carried(t)' <=> pc \in Taking \cup Burying)
  BY <1>1, <1>2 DEF Worked, Carried
<1>4. OnePlace(t)'
  BY <1>1, <1>2, <1>3 DEF Well, OnePlace
<1>5. RecordTrue(t)'
  <2>1. \A v \in Workers, l \in Lanes :
          /\ LaneOf(v, l, t)' \notin Waiting \cup Running
          /\ LaneOf(v, l, t)' \notin {"start", "begin", "handler", "short", "settle", "bury"}
    BY <1>3, Names DEF Worked
  <2> QED BY <1>1, <2>1 DEF RecordTrue
<1>6. Somewhere(t)'
  BY <1>3 DEF Somewhere
<1> QED BY <1>4, <1>5, <1>6 DEF Well

\* What a lane may do with its task.
LEMMA LaneWorks ==
    ASSUME OneWorker, Typed, NEW w \in Workers, NEW l \in Lanes, NEW t \in Tasks, t = TaskOf(w, l),
           exec[w][l].pc \in Work, Well(t), NEW pc, Step(w, l, pc), pc # "idle",
           UNCHANGED poll, sub'[t] = sub[t], marked \subseteq marked',
           queue'[t] # "absent" => pc \notin Work /\ Is(t, Claimable)',
           pc \in Waiting => Is(t, Claimable)',
           pc \in Running => Is(t, {"running"})',
           pc = "bury" => Is(t, {"dead"})',
           pc \in {"start", "begin", "handler"} => exec[w][l].task.attempt = data'[t].attempt,
           pc \in {"short", "settle"} => KeyOf[t] \in marked',
           Live(t)' => queue'[t] # "absent" \/ pc \in Work
    PROVE  Well(t)'
<1>1. /\ \A v, u \in Workers : v = u
      /\ LaneOf(w, l, t)' = pc /\ LaneOf(w, l, t) \in Work
      /\ \A m \in Lanes : m # l => LaneOf(w, m, t)' = LaneOf(w, m, t)
      /\ \A v \in Workers, m \in Lanes : exec'[v][m].task = exec[v][m].task
  BY LaneMoves DEF OneWorker
<1>2. Worked(t) /\ ~Carried(t) /\ queue[t] = "absent" /\ sub[t] = "queued"
  BY <1>1 DEF Worked, Well, OnePlace
<1>3. \A m \in Lanes : m # l => LaneOf(w, m, t) \notin Work
  BY <1>1 DEF Well, OnePlace
<1>4. \A v \in Workers : PollOf(v, t)' = PollOf(v, t)
  BY DEF PollOf
<1>5. ~Carried(t)' /\ (Worked(t)' <=> pc \in Work)
  BY <1>1, <1>2, <1>3, <1>4 DEF Worked, Carried
<1>6. \A v \in Workers : t \notin poll[v].list /\ PollOf(v, t) \notin Finding \cup Taking \cup Burying
  BY <1>2 DEF Well, OnePlace, Carried
<1>7. OnePlace(t)'
  BY <1>1, <1>2, <1>3, <1>4, <1>5, <1>6 DEF OnePlace
<1>8. RecordTrue(t)'
  <2>1. \A v \in Workers : PollOf(v, t)' \notin Taking \cup Burying \cup {"take", "taken"}
    BY <1>4, <1>6 DEF Finding, Taking
  <2>2. ASSUME NEW m \in Lanes, m # l
        PROVE  /\ LaneOf(w, m, t)' \notin Waiting \cup Running
               /\ LaneOf(w, m, t)' \notin {"start", "begin", "handler", "short", "settle", "bury"}
    BY <1>1, <1>3, <2>2, Names
  <2>3. sub'[t] = "queued" /\ (queue'[t] # "absent" => Is(t, Claimable)')
    BY <1>2
  <2> QED BY <1>1, <2>1, <2>2, <2>3 DEF RecordTrue
<1>9. Somewhere(t)'
  BY <1>5 DEF Somewhere
<1> QED BY <1>7, <1>8, <1>9 DEF Well

-----------------------------------------------------------------------------
(* The steps of the poll loop *)

LEMMA Rest ==
    ASSUME NEW t \in Tasks, \A u \in Tasks : Well(u), Well(t)',
           \A u \in Tasks : u # t => PollStays(u) /\ LanesStay(u) /\ RecordStays(u)
    PROVE  \A u \in Tasks : Well(u)'
BY Stays

\* The loop before and after a claim.
LEMMA OffMoves ==
    ASSUME Typed, NEW w \in Workers, NEW next \in Poll, poll' = [poll EXCEPT ![w] = next],
           poll[w].pc \in Off, next.pc \in Off,
           \A u \in next.list : u \in poll[w].list \/ queue[u] # "absent",
           NEW u \in Tasks
    PROVE  PollStays(u)
<1>1. poll \in [Workers -> Poll]
  BY DEF Typed, TypeOK
<1>2. poll'[w] = next /\ \A v \in Workers \ {w} : poll'[v] = poll[v]
  BY <1>1
<1>3. ASSUME NEW v \in Workers, v # w
      PROVE  PollOf(v, u)' = PollOf(v, u) /\ poll'[v].task = poll[v].task /\ poll'[v].list = poll[v].list
  BY <1>2, <1>3 DEF PollOf
<1>4. PollOf(w, u)' \in Off /\ PollOf(w, u) \in Off
  BY <1>2 DEF PollOf, Off
<1> QED BY <1>2, <1>3, <1>4 DEF PollStays

\* The loop goes on with its claim.
LEMMA GoMoves ==
    ASSUME Typed, NEW w \in Workers, NEW pc \in PollPc, Goto(w, pc), poll[w].pc \notin Off,
           NEW t, t = poll[w].cur
    PROVE  /\ t \in Tasks /\ PollOf(w, t) = poll[w].pc /\ PollOf(w, t)' = pc
           /\ poll'[w].pc = pc /\ poll'[w].list = poll[w].list /\ poll'[w].task = poll[w].task
           /\ \A u \in Tasks : u # t => PollStays(u)
<1>1. poll \in [Workers -> Poll] /\ poll[w] \in Poll /\ t \in Tasks
  BY DEF Typed, TypeOK, PollOK, Off
<1> DEFINE next == [poll[w] EXCEPT !.pc = pc]
<1>2. next \in Poll
  <2>1. \A p \in Poll : [p EXCEPT !.pc = pc] \in Poll
    BY DEF Poll
  <2> QED BY <1>1, <2>1
<1>3. next.pc = pc /\ next.cur = t /\ next.list = poll[w].list /\ next.task = poll[w].task
  BY <1>1 DEF Poll
<1>4. poll' = [poll EXCEPT ![w] = next] /\ poll'[w] = next
  BY <1>1 DEF Goto
<1> HIDE DEF next
<1>5. \A u \in Tasks : u # t => PollStays(u)
  BY <1>1, <1>2, <1>3, <1>4, PollMoves
<1> QED BY <1>1, <1>3, <1>4, <1>5 DEF PollOf

\* The loop is through with its claim.
LEMMA IdleMoves ==
    ASSUME Typed, NEW w \in Workers, poll' = [poll EXCEPT ![w] = IdlePoll], poll[w].pc \notin Off,
           NEW t, t = poll[w].cur
    PROVE  /\ t \in Tasks /\ PollOf(w, t) = poll[w].pc /\ PollOf(w, t)' = "idle"
           /\ poll'[w].pc = "idle" /\ poll'[w].list = {}
           /\ \A u \in Tasks : u # t => PollStays(u)
<1>1. poll \in [Workers -> Poll] /\ t \in Tasks
  BY DEF Typed, TypeOK, PollOK, Off
<1>2. IdlePoll.pc = "idle" /\ IdlePoll.pc \in Off /\ IdlePoll.list = {} /\ IdlePoll.cur = NoTask
  BY DEF IdlePoll, Off
<1>3. poll'[w] = IdlePoll
  BY <1>1
<1>4. \A u \in Tasks : u # t => PollStays(u)
  BY <1>1, <1>2, IdlePollTyped, PollMoves
<1> QED BY <1>1, <1>2, <1>3, <1>4, SetsAssumption DEF PollOf

\* What is known of the loop's task.
LEMMA LoopAt ==
    ASSUME NEW w \in Workers, NEW t \in Tasks, Well(t)
    PROVE  /\ PollOf(w, t) \in Finding \/ t \in poll[w].list =>
                 queue[t] # "absent" /\ ~Carried(t) /\ Is(t, Claimable)
           /\ PollOf(w, t) \in Taking \cup Burying => queue[t] = "absent"
           /\ PollOf(w, t) \in Finding \cup Taking \cup Burying \/ t \in poll[w].list =>
                 ~Worked(t) /\ sub[t] = "queued"
           /\ PollOf(w, t) \in Finding \cup Taking \cup Burying => t \notin poll[w].list
           /\ PollOf(w, t) \in Taking => Is(t, Claimable)
           /\ PollOf(w, t) \in Burying => Is(t, {"dead"})
           /\ PollOf(w, t) \in {"take", "taken"} => poll[w].task.attempt = data[t].attempt
<1>1. PollOf(w, t) \in Taking \cup Burying => Carried(t)
  BY DEF Carried
<1> QED BY <1>1 DEF Well, OnePlace, RecordTrue

LEMMA Alive == \A t \in Tasks : Is(t, {"dead"}) \/ Is(t, {"completed"}) => ~Live(t)
BY DEF Is, Live, Terminal

PollGood(w) == poll'[w].pc \notin {"drop", "unlist", "died"}

\* The loop lists what is due.
LEMMA ScanMoves ==
    ASSUME Typed, NEW w \in Workers, Scan(w) \/ NextBucket(w)
    PROVE  (\A u \in Tasks : PollStays(u)) /\ poll'[w].pc \in Off
<1>1. poll \in [Workers -> Poll] /\ poll[w] \in Poll /\ poll[w].pc \in Off
  BY DEF Typed, TypeOK, Scan, NextBucket, PollAt, Off
<1>2. PICK next \in Poll : /\ poll' = [poll EXCEPT ![w] = next]
                           /\ next.pc \in Off
                           /\ \A u \in next.list : queue[u] # "absent"
  <2>0. \A b : \A batch \in Batches(b) :
            batch \subseteq Tasks /\ \A u \in batch : queue[u] # "absent"
    BY DEF Batches, DueIn
  <2>1. CASE Scan(w)
    <3>1. PICK batch \in Batches(1) : poll' = [poll EXCEPT ![w].pc = "scan", ![w].list = batch]
      BY <2>1 DEF Scan
    <3> DEFINE next == [poll[w] EXCEPT !.pc = "scan", !.list = batch]
    <3>2. next \in Poll /\ next.pc = "scan" /\ next.list = batch
      <4>1. \A p \in Poll : /\ [p EXCEPT !.pc = "scan", !.list = batch] \in Poll
                            /\ [p EXCEPT !.pc = "scan", !.list = batch].pc = "scan"
                            /\ [p EXCEPT !.pc = "scan", !.list = batch].list = batch
        BY <2>0 DEF Poll, PollPc
      <4> QED BY <1>1, <4>1
    <3>3. poll' = [poll EXCEPT ![w] = next]
      BY <3>1
    <3> HIDE DEF next
    <3> QED BY <2>0, <3>2, <3>3 DEF Off
  <2>2. CASE NextBucket(w) /\ poll[w].bucket < Buckets
    <3> DEFINE b == poll[w].bucket + 1
    <3>1. b \in 1..Buckets
      <4>1. \A p \in Poll : p.bucket \in 1..Buckets
        BY DEF Poll
      <4> QED BY <1>1, <2>2, <4>1, BoundsAssumption
    <3>2. PICK batch \in Batches(b) : poll' = [poll EXCEPT ![w].bucket = b, ![w].list = batch]
      BY <2>2 DEF NextBucket
    <3> DEFINE next == [poll[w] EXCEPT !.bucket = b, !.list = batch]
    <3>3. poll' = [poll EXCEPT ![w] = next]
      BY <3>2
    <3> HIDE DEF b
    <3>4. next \in Poll /\ next.pc = poll[w].pc /\ next.list = batch
      <4>1. \A p \in Poll : /\ [p EXCEPT !.bucket = b, !.list = batch] \in Poll
                            /\ [p EXCEPT !.bucket = b, !.list = batch].pc = p.pc
                            /\ [p EXCEPT !.bucket = b, !.list = batch].list = batch
        BY <2>0, <3>1 DEF Poll
      <4> QED BY <1>1, <4>1
    <3> HIDE DEF next
    <3> QED BY <1>1, <2>0, <3>3, <3>4
  <2>3. CASE NextBucket(w) /\ ~(poll[w].bucket < Buckets)
    <3>1. poll' = [poll EXCEPT ![w] = IdlePoll]
      BY <2>3 DEF NextBucket
    <3> QED BY <3>1, IdlePollTyped DEF IdlePoll, Off
  <2> QED BY <2>1, <2>2, <2>3
<1> QED BY <1>1, <1>2, OffMoves

LEMMA WellScan ==
    ASSUME Typed, NEW w \in Workers, \A u \in Tasks : Well(u), Scan(w) \/ NextBucket(w)
    PROVE  (\A u \in Tasks : Well(u)') /\ PollGood(w)
<1>1. UNCHANGED <<exec, data, queue, sub, marked>>
  BY DEF Scan, NextBucket
<1>2. \A u \in Tasks : PollStays(u) /\ LanesStay(u) /\ RecordStays(u)
  BY <1>1, ScanMoves, LanesKept DEF RecordStays
<1>3. PollGood(w)
  BY ScanMoves DEF PollGood, Off
<1> QED BY <1>2, <1>3, Stays

LEMMA WellAcquire ==
    ASSUME OneWorker, Typed, NEW w \in Workers, \A u \in Tasks : Well(u), Acquire(w)
    PROVE  (\A u \in Tasks : Well(u)') /\ PollGood(w)
<1>1. poll \in [Workers -> Poll] /\ poll[w] \in Poll /\ poll[w].pc = "scan" /\ poll[w].pc \in Off
  BY DEF Typed, TypeOK, Acquire, PollAt, Off
<1>2. UNCHANGED <<exec, data, queue, sub, marked>>
  BY DEF Acquire
<1>3. PICK t \in poll[w].list :
         \/ poll' = [poll EXCEPT ![w].pc = "locked", ![w].cur = t, ![w].list = @ \ {t}]
         \/ poll' = [poll EXCEPT ![w].list = @ \ {t}]
  BY DEF Acquire
<1>4. t \in Tasks
  BY <1>1 DEF Poll
<1>5. CASE poll' = [poll EXCEPT ![w].pc = "locked", ![w].cur = t, ![w].list = @ \ {t}]
  <2> DEFINE next == [poll[w] EXCEPT !.pc = "locked", !.cur = t, !.list = @ \ {t}]
  <2>1. next \in Poll /\ next.pc = "locked" /\ next.cur = t /\ next.list = poll[w].list \ {t}
    BY <1>1, <1>4 DEF Poll, PollPc
  <2>2. poll' = [poll EXCEPT ![w] = next] /\ poll'[w] = next
    BY <1>1, <1>5
  <2> HIDE DEF next
  <2>3. PollOf(w, t)' = "locked"
    BY <2>1, <2>2 DEF PollOf
  <2>4. Well(t)'
    <3>1. /\ queue[t] # "absent" /\ Is(t, Claimable) /\ ~Worked(t) /\ sub[t] = "queued"
      BY <1>4, LoopAt
    <3>2. t \notin poll'[w].list /\ Is(t, Claimable)'
      BY <1>2, <2>1, <2>2, <3>1 DEF Is
    <3> QED BY <1>2, <1>4, <2>3, <3>1, <3>2, LoopMoves DEF Taking, Burying
  <2>5. \A u \in Tasks : u # t => PollStays(u)
    BY <1>1, <1>4, <2>1, <2>2, PollMoves
  <2>6. \A u \in Tasks : LanesStay(u) /\ RecordStays(u)
    BY <1>2, LanesKept DEF RecordStays
  <2>7. PollGood(w)
    BY <2>1, <2>2 DEF PollGood
  <2> QED BY <1>4, <2>4, <2>5, <2>6, <2>7, Rest
<1>6. CASE poll' = [poll EXCEPT ![w].list = @ \ {t}]
  <2> DEFINE next == [poll[w] EXCEPT !.list = @ \ {t}]
  <2>1. next \in Poll /\ next.pc = poll[w].pc /\ next.list = poll[w].list \ {t}
    BY <1>1 DEF Poll
  <2>2. poll' = [poll EXCEPT ![w] = next] /\ poll'[w] = next
    BY <1>1, <1>6
  <2> HIDE DEF next
  <2>3. \A u \in Tasks : PollStays(u)
    BY <1>1, <2>1, <2>2, OffMoves
  <2>6. \A u \in Tasks : LanesStay(u) /\ RecordStays(u)
    BY <1>2, LanesKept DEF RecordStays
  <2>7. PollGood(w)
    BY <1>1, <2>1, <2>2 DEF PollGood
  <2> QED BY <2>3, <2>6, <2>7, Stays
<1> QED BY <1>3, <1>5, <1>6

\* A record with a claimable status is found claimable.
LEMMA WellLoad ==
    ASSUME OneWorker, Typed, NEW w \in Workers, \A u \in Tasks : Well(u), Load(w)
    PROVE  (\A u \in Tasks : Well(u)') /\ PollGood(w)
<1>0. PICK t : t = poll[w].cur
  OBVIOUS
<1>1. poll \in [Workers -> Poll] /\ poll[w] \in Poll /\ poll[w].pc = "locked" /\ t \in Tasks
  BY <1>0 DEF Typed, TypeOK, PollOK, Load, PollAt
<1>2. UNCHANGED <<exec, data, queue, sub, marked>>
  BY DEF Load
<1>3. PollOf(w, t) = "locked"
  BY <1>0, <1>1 DEF PollOf
<1>4. /\ queue[t] # "absent" /\ Is(t, Claimable) /\ ~Worked(t) /\ sub[t] = "queued"
      /\ t \notin poll[w].list
  BY <1>1, <1>3, LoopAt DEF Finding
<1>5. PICK pc \in {"take", "skip"} :
         poll' = [poll EXCEPT ![w].pc = pc,
                              ![w].task = [id |-> t, status |-> data[t].status, attempt |-> data[t].attempt]]
  BY <1>0, <1>1, <1>4 DEF Load, Unreadable, Is
<1> DEFINE next == [poll[w] EXCEPT !.pc = pc,
                        !.task = [id |-> t, status |-> data[t].status, attempt |-> data[t].attempt]]
<1>6. next \in Poll /\ next.pc = pc /\ next.cur = t /\ next.list = poll[w].list
      /\ next.task.attempt = data[t].attempt
  <2> DEFINE c == [id |-> t, status |-> data[t].status, attempt |-> data[t].attempt]
  <2>1. c \in Claim /\ c.attempt = data[t].attempt
    <3>1. data[t] \in Hash /\ data[t].status \in Claimable
      BY <1>1, <1>4 DEF Typed, TypeOK, Is
    <3>2. data[t].attempt \in Attempts
      BY <3>1 DEF Hash
    <3> QED BY <1>1, <3>1, <3>2 DEF Claim
  <2>2. pc \in PollPc
    BY <1>5 DEF PollPc
  <2> HIDE DEF c
  <2>3. \A p \in Poll : LET q == [p EXCEPT !.pc = pc, !.task = c] IN
          q \in Poll /\ q.pc = pc /\ q.cur = p.cur /\ q.list = p.list /\ q.task = c
    BY <2>1, <2>2 DEF Poll
  <2>4. next = [poll[w] EXCEPT !.pc = pc, !.task = c]
    BY DEF c
  <2> QED BY <1>0, <1>1, <2>1, <2>3, <2>4
<1>7. poll' = [poll EXCEPT ![w] = next] /\ poll'[w] = next
  BY <1>1, <1>5
<1> HIDE DEF next
<1>8. PollOf(w, t)' = pc
  <2>1. poll'[w].cur = t /\ poll'[w].pc = pc
    BY <1>6, <1>7
  <2> QED BY <2>1 DEF PollOf
<1>9. Well(t)'
  <2>1. t \notin poll'[w].list /\ Is(t, Claimable)' /\ poll'[w].task.attempt = data'[t].attempt
    BY <1>2, <1>4, <1>6, <1>7 DEF Is
  <2>2. pc \notin Taking \cup Burying
    BY <1>5 DEF Taking, Burying
  <2> QED BY <1>1, <1>2, <1>4, <1>8, <2>1, <2>2, LoopMoves
<1>10. \A u \in Tasks : u # t => PollStays(u)
  BY <1>0, <1>1, <1>6, <1>7, PollMoves
<1>11. \A u \in Tasks : LanesStay(u) /\ RecordStays(u)
  BY <1>2, LanesKept DEF RecordStays
<1>12. PollGood(w)
  BY <1>5, <1>6, <1>7 DEF PollGood
<1> QED BY <1>1, <1>9, <1>10, <1>11, <1>12, Rest

LEMMA WellUnlock ==
    ASSUME OneWorker, Typed, Undisturbed, NEW w \in Workers, \A u \in Tasks : Well(u), Unlock(w)
    PROVE  (\A u \in Tasks : Well(u)') /\ PollGood(w)
<1>1. UNCHANGED <<exec, data, queue, sub, marked>>
  BY DEF Unlock
<1>2. PICK t : t = poll[w].cur
  OBVIOUS
<1>3. poll[w].pc \in {"skip", "yield", "buried"} /\ poll[w].pc \notin Off
  BY DEF Unlock, Undisturbed, Off
<1>4. PICK pc : /\ t \in Tasks /\ PollOf(w, t) = poll[w].pc /\ PollOf(w, t)' = pc
                /\ poll'[w].pc = pc /\ poll'[w].list \subseteq poll[w].list
                /\ \A u \in Tasks : u # t => PollStays(u)
                /\ \/ poll[w].pc = "skip" /\ pc = "scan"
                   \/ poll[w].pc = "yield" /\ pc = "putback"
                   \/ poll[w].pc = "buried" /\ pc = "idle"
  <2>1. CASE poll[w].pc = "skip"
    <3>1. Goto(w, "scan") /\ "scan" \in PollPc
      BY <2>1 DEF Unlock, Goto, PollPc
    <3> QED BY <1>2, <1>3, <2>1, <3>1, GoMoves
  <2>2. CASE poll[w].pc = "yield"
    <3>1. Goto(w, "putback") /\ "putback" \in PollPc
      BY <2>2 DEF Unlock, Goto, PollPc
    <3> QED BY <1>2, <1>3, <2>2, <3>1, GoMoves
  <2>3. CASE poll[w].pc = "buried"
    <3>1. poll' = [poll EXCEPT ![w] = IdlePoll]
      BY <2>3 DEF Unlock
    <3> QED BY <1>2, <1>3, <2>3, <3>1, IdleMoves
  <2> QED BY <1>3, <2>1, <2>2, <2>3
<1>5. Well(t)'
  <2>1. /\ ~Worked(t) /\ sub[t] = "queued" /\ t \notin poll[w].list /\ Well(t)
        /\ \A s : Is(t, s)' <=> Is(t, s)
        /\ Live(t)' <=> Live(t)
    BY <1>1, <1>3, <1>4, LoopAt DEF Finding, Taking, Burying, Is, Live
  <2>2. CASE poll[w].pc = "skip" /\ pc = "scan"
    BY <1>1, <1>4, <2>1, <2>2, LoopAt, LoopMoves DEF Finding, Taking, Burying
  <2>3. CASE poll[w].pc = "yield" /\ pc = "putback"
    BY <1>1, <1>4, <2>1, <2>3, LoopAt, LoopMoves DEF Finding, Taking, Burying
  <2>4. CASE poll[w].pc = "buried" /\ pc = "idle"
    BY <1>1, <1>4, <2>1, <2>4, LoopAt, LoopMoves, Alive DEF Finding, Taking, Burying
  <2> QED BY <1>4, <2>2, <2>3, <2>4
<1>6. \A u \in Tasks : LanesStay(u) /\ RecordStays(u)
  BY <1>1, LanesKept DEF RecordStays
<1>7. PollGood(w)
  BY <1>4 DEF PollGood
<1> QED BY <1>4, <1>5, <1>6, <1>7, Rest

LEMMA WellDequeue ==
    ASSUME OneWorker, Typed, Undisturbed, NEW w \in Workers, \A u \in Tasks : Well(u), Dequeue(w)
    PROVE  (\A u \in Tasks : Well(u)') /\ PollGood(w)
<1>1. PICK t : t = poll[w].cur
  OBVIOUS
<1>2. poll[w].pc = "take" /\ Goto(w, "taken") /\ poll[w].pc \notin Off /\ "taken" \in PollPc
  BY DEF Dequeue, Undisturbed, Off, PollPc
<1>3. /\ t \in Tasks /\ PollOf(w, t) = "take" /\ PollOf(w, t)' = "taken"
      /\ poll'[w].pc = "taken" /\ poll'[w].list = poll[w].list /\ poll'[w].task = poll[w].task
      /\ \A u \in Tasks : u # t => PollStays(u)
  BY <1>1, <1>2, GoMoves
<1>4. /\ UNCHANGED <<exec, data, sub, marked>>
      /\ queue'[t] = "absent" /\ \A u \in Tasks : u # t => queue'[u] = queue[u]
  BY <1>1, <1>3 DEF Dequeue, Unlist, Typed, TypeOK
<1>5. Well(t)'
  <2>1. /\ ~Worked(t) /\ sub[t] = "queued" /\ t \notin poll[w].list /\ Well(t)
        /\ Is(t, Claimable) /\ poll[w].task.attempt = data[t].attempt
    BY <1>3, LoopAt DEF Finding
  <2>2. Is(t, Claimable)'
    BY <1>4, <2>1 DEF Is
  <2> QED BY <1>3, <1>4, <2>1, <2>2, LoopMoves DEF Finding, Taking, Burying
<1>6. \A u \in Tasks : u # t => LanesStay(u) /\ RecordStays(u)
  BY <1>4, LanesKept DEF RecordStays
<1>7. PollGood(w)
  BY <1>3 DEF PollGood
<1> QED BY <1>3, <1>5, <1>6, <1>7, Rest

LEMMA WellUnknown ==
    ASSUME OneWorker, Typed, NEW w \in Workers, \A u \in Tasks : Well(u),
           DispatchUnknown(w) \/ BuryUnknown(w)
    PROVE  (\A u \in Tasks : Well(u)') /\ PollGood(w)
<1>1. PICK t : t = poll[w].cur
  OBVIOUS
<1>2. PICK pc : /\ \/ poll[w].pc = "taken" /\ pc = "bury" /\ DispatchUnknown(w)
                   \/ poll[w].pc = "bury" /\ pc = "buried" /\ BuryUnknown(w)
                /\ Goto(w, pc) /\ poll[w].pc \notin Off /\ pc \in PollPc
                /\ UNCHANGED <<exec, queue, sub, marked>>
  BY DEF DispatchUnknown, BuryUnknown, PollAt, Off, PollPc
<1>3. /\ t \in Tasks /\ PollOf(w, t) = poll[w].pc /\ PollOf(w, t)' = pc
      /\ poll'[w].pc = pc /\ poll'[w].list = poll[w].list /\ poll'[w].task = poll[w].task
      /\ \A u \in Tasks : u # t => PollStays(u)
  BY <1>1, <1>2, GoMoves
<1>4. /\ ~Worked(t) /\ sub[t] = "queued" /\ t \notin poll[w].list /\ Well(t) /\ queue[t] = "absent"
      /\ poll[w].pc = "taken" => Is(t, Claimable)
      /\ poll[w].pc = "bury" => Is(t, {"dead"})
  BY <1>2, <1>3, LoopAt DEF Taking, Burying
<1>5. Is(t, {"dead"})' /\ \A u \in Tasks : u # t => data'[u] = data[u]
  <2>1. CASE DispatchUnknown(w)
    <3>1. data[t].form = "whole" /\ data[t].attempt \in Attempts
      BY <1>2, <1>3, <1>4, <2>1, AttemptTyped DEF Is, DispatchUnknown, PollAt, Typed, TypeOK
    <3>2. SetStatus(t, poll[w].task.status, "dead", data[t].attempt) /\ "dead" \in Statuses
      BY <1>1, <2>1 DEF DispatchUnknown, Statuses
    <3>3. /\ data'[t] = [form |-> "whole", status |-> "dead", attempt |-> data[t].attempt]
          /\ \A u \in Tasks : u # t => data'[u] = data[u]
      BY <1>3, <3>1, <3>2, StatusMoves
    <3> QED BY <3>3 DEF Is
  <2>2. CASE BuryUnknown(w)
    BY <1>2, <1>4, <2>2 DEF BuryUnknown, Is, PollAt
  <2> QED BY <1>2, <2>1, <2>2
<1>6. Well(t)'
  <2>1. pc \in Burying \ (Taking \cup Finding)
    BY <1>2 DEF Burying, Taking, Finding
  <2>2. pc \notin {"take", "taken"}
    BY <1>2
  <2> QED BY <1>2, <1>3, <1>4, <1>5, <2>1, <2>2, LoopMoves
<1>7. \A u \in Tasks : u # t => LanesStay(u) /\ RecordStays(u)
  BY <1>2, <1>5, LanesKept DEF RecordStays
<1>8. PollGood(w)
  BY <1>2, <1>3 DEF PollGood
<1> QED BY <1>3, <1>6, <1>7, <1>8, Rest

LEMMA WellCount ==
    ASSUME OneWorker, Typed, NEW w \in Workers, \A u \in Tasks : Well(u),
           DispatchFull(w) \/ Uncount(w)
    PROVE  (\A u \in Tasks : Well(u)') /\ PollGood(w)
<1>1. PICK t : t = poll[w].cur
  OBVIOUS
<1>2. PICK pc : /\ poll[w].pc \in {"taken", "over"} /\ pc \in {"over", "yield"}
                /\ Goto(w, pc) /\ poll[w].pc \notin Off /\ pc \in PollPc
                /\ UNCHANGED <<exec, data, queue, sub, marked>>
  BY DEF DispatchFull, Uncount, PollAt, Off, PollPc
<1>3. /\ t \in Tasks /\ PollOf(w, t) = poll[w].pc /\ PollOf(w, t)' = pc
      /\ poll'[w].pc = pc /\ poll'[w].list = poll[w].list
      /\ \A u \in Tasks : u # t => PollStays(u)
  BY <1>1, <1>2, GoMoves
<1>4. /\ ~Worked(t) /\ sub[t] = "queued" /\ t \notin poll[w].list /\ Well(t) /\ queue[t] = "absent"
      /\ Is(t, Claimable)
  BY <1>2, <1>3, LoopAt DEF Taking
<1>5. Well(t)'
  <2>1. pc \in Taking \ (Burying \cup Finding) /\ pc \notin {"take", "taken"}
    BY <1>2 DEF Burying, Taking, Finding
  <2>2. Is(t, Claimable)'
    BY <1>2, <1>4 DEF Is
  <2> QED BY <1>2, <1>3, <1>4, <2>1, <2>2, LoopMoves
<1>6. \A u \in Tasks : LanesStay(u) /\ RecordStays(u)
  BY <1>2, LanesKept DEF RecordStays
<1>7. PollGood(w)
  BY <1>2, <1>3 DEF PollGood
<1> QED BY <1>3, <1>5, <1>6, <1>7, Rest

LEMMA WellPutBack ==
    ASSUME OneWorker, Typed, NEW w \in Workers, \A u \in Tasks : Well(u), PutBack(w)
    PROVE  (\A u \in Tasks : Well(u)') /\ PollGood(w)
<1>1. PICK t : t = poll[w].cur
  OBVIOUS
<1>2. /\ poll[w].pc = "putback" /\ poll[w].pc \notin Off
      /\ poll' = [poll EXCEPT ![w] = IdlePoll]
      /\ UNCHANGED <<exec, data, sub, marked>>
  BY DEF PutBack, PollAt, Off
<1>3. /\ t \in Tasks /\ PollOf(w, t) = poll[w].pc /\ PollOf(w, t)' = "idle"
      /\ poll'[w].pc = "idle" /\ poll'[w].list = {}
      /\ \A u \in Tasks : u # t => PollStays(u)
  BY <1>1, <1>2, IdleMoves
<1>4. ~Worked(t) /\ sub[t] = "queued" /\ Well(t) /\ Is(t, Claimable)
  BY <1>2, <1>3, LoopAt DEF Taking
<1>5. queue'[t] = "due" /\ \A u \in Tasks : u # t => queue'[u] = queue[u]
  BY <1>1, <1>3 DEF PutBack, Enlist, Typed, TypeOK
<1>6. Well(t)'
  <2>1. "idle" \notin Taking \cup Burying \cup Finding
    BY DEF Burying, Taking, Finding
  <2>2. Is(t, Claimable)'
    BY <1>2, <1>4 DEF Is
  <2> QED BY <1>2, <1>3, <1>4, <1>5, <2>1, <2>2, LoopMoves
<1>7. \A u \in Tasks : u # t => LanesStay(u) /\ RecordStays(u)
  BY <1>2, <1>5, LanesKept DEF RecordStays
<1>8. PollGood(w)
  BY <1>3 DEF PollGood
<1> QED BY <1>3, <1>6, <1>7, <1>8, Rest

\* The claim passes from the loop to a lane that is idle.
LEMMA WellDispatch ==
    ASSUME OneWorker, Typed, NEW w \in Workers, \A u \in Tasks : Well(u), Dispatch(w)
    PROVE  (\A u \in Tasks : Well(u)') /\ PollGood(w)
<1>1. PICK t : t = poll[w].cur
  OBVIOUS
<1>2. /\ poll[w].pc = "taken" /\ poll[w].pc \notin Off
      /\ poll' = [poll EXCEPT ![w] = IdlePoll]
      /\ UNCHANGED <<data, queue, sub, marked>>
  BY DEF Dispatch, PollAt, Off
<1>3. /\ t \in Tasks /\ PollOf(w, t) = poll[w].pc /\ PollOf(w, t)' = "idle"
      /\ poll'[w].pc = "idle" /\ poll'[w].list = {}
      /\ \A u \in Tasks : u # t => PollStays(u)
  BY <1>1, <1>2, IdleMoves
<1>4. /\ ~Worked(t) /\ sub[t] = "queued" /\ Well(t) /\ queue[t] = "absent" /\ Is(t, Claimable)
      /\ poll[w].task.attempt = data[t].attempt
  BY <1>2, <1>3, LoopAt DEF Taking
<1>5. PICK l \in Lanes, x \in Exec :
         /\ exec[w][l].pc = "idle" /\ exec' = [exec EXCEPT ![w][l] = x]
         /\ x.pc = "start" /\ x.task = poll[w].task /\ x.task.id = t
  <2>1. PICK l \in Lanes :
          /\ exec[w][l].pc = "idle"
          /\ exec' = [exec EXCEPT ![w][l] =
                 [pc |-> "start", task |-> poll[w].task, slot |-> (MaxConcurrency > 0), aborted |-> FALSE]]
    BY DEF Dispatch
  <2> DEFINE x == [pc |-> "start", task |-> poll[w].task, slot |-> (MaxConcurrency > 0), aborted |-> FALSE]
  <2>2. poll[w].task \in Claim /\ poll[w].task.id = t
    BY <1>1, <1>2 DEF Typed, TypeOK, PollOK, Poll
  <2>3. x \in Exec /\ x.pc = "start" /\ x.task = poll[w].task
    BY <2>2 DEF Exec, ExecPc
  <2> HIDE DEF x
  <2> QED BY <2>1, <2>2, <2>3 DEF x
<1>6. /\ exec'[w][l] = x
      /\ \A m \in Lanes : m # l => exec'[w][m] = exec[w][m]
      /\ \A v \in Workers : v = w
  BY <1>5 DEF Typed, TypeOK, OneWorker
<1>7. /\ LaneOf(w, l, t)' = "start"
      /\ \A m \in Lanes : m # l => LaneOf(w, m, t)' = LaneOf(w, m, t)
      /\ \A m \in Lanes : LaneOf(w, m, t) \notin Work
  BY <1>4, <1>5, <1>6 DEF LaneOf, TaskOf, Worked
<1>8. Well(t)'
  <2>1. Worked(t)' /\ ~Carried(t)'
    BY <1>3, <1>6, <1>7 DEF Worked, Carried, Work, Waiting, Taking, Burying
  <2>2. \A m \in Lanes : m # l => /\ LaneOf(w, m, t)' \notin Work \cup Waiting \cup Running
                                  /\ LaneOf(w, m, t)' \notin {"start", "begin", "handler", "short", "settle", "bury"}
    BY <1>7, Names
  <2>3. Is(t, Claimable)' /\ exec'[w][l].task.attempt = data'[t].attempt
    BY <1>2, <1>4, <1>5, <1>6 DEF Is
  <2>4. OnePlace(t)'
    BY <1>2, <1>3, <1>4, <1>6, <2>1, <2>2 DEF OnePlace, Finding
  <2>5. RecordTrue(t)'
    BY <1>2, <1>3, <1>4, <1>6, <1>7, <2>2, <2>3 DEF RecordTrue, Taking, Burying, Running
  <2>6. Somewhere(t)'
    BY <2>1 DEF Somewhere
  <2> QED BY <2>4, <2>5, <2>6 DEF Well
<1>9. \A u \in Tasks : u # t => LanesStay(u) /\ RecordStays(u)
  <2>1. exec[w][l].pc \notin Work
    BY <1>5 DEF Work, Waiting, Running
  <2> QED BY <1>2, <1>5, <2>1, LaneTurns DEF RecordStays
<1>10. PollGood(w)
  BY <1>3 DEF PollGood
<1> QED BY <1>3, <1>8, <1>9, <1>10, Rest

LEMMA WellPoll ==
    ASSUME OneWorker, Typed, Undisturbed, NEW w \in Workers, \A u \in Tasks : Well(u), PollStep(w)
    PROVE  (\A u \in Tasks : Well(u)') /\ PollGood(w)
BY WellScan, WellAcquire, WellLoad, WellUnlock, WellDequeue, WellUnknown, WellDispatch, WellCount,
   WellPutBack DEF PollStep

-----------------------------------------------------------------------------
(* Clients, time and the lanes *)

LEMMA Untouched == (\A w \in Workers, l \in Lanes : \A t : UNCHANGED exec => LaneOf(w, l, t)' = LaneOf(w, l, t))
BY DEF LaneOf, TaskOf

\* Who has a record that is completed, unfinished or not there.
LEMMA Whose ==
    ASSUME NEW t \in Tasks, Well(t)
    PROVE  /\ sub[t] # "queued" \/ queue[t] # "absent" => ~Carried(t) /\ ~Worked(t)
           /\ sub[t] # "queued" => queue[t] = "absent"
           /\ data[t].form # "whole" \/ data[t].status = "completed" =>
                 ~Carried(t) /\ ~Worked(t) /\ queue[t] = "absent" /\ sub[t] \notin Storing
<1>1. sub[t] # "queued" \/ queue[t] # "absent" => ~Carried(t) /\ ~Worked(t)
  BY DEF Well, OnePlace
<1>2. sub[t] # "queued" => queue[t] = "absent"
  BY DEF Well, OnePlace
<1>3. ASSUME data[t].form # "whole" \/ data[t].status = "completed"
      PROVE  ~Carried(t) /\ ~Worked(t) /\ queue[t] = "absent" /\ sub[t] \notin Storing
  <2>1. ~Is(t, Claimable) /\ ~Is(t, {"running"}) /\ ~Is(t, {"dead"})
    BY <1>3 DEF Is, Claimable
  <2>2. ~Carried(t)
    BY <2>1 DEF Well, RecordTrue, Carried
  <2>3. ~Worked(t)
    BY <2>1 DEF Well, RecordTrue, Worked, Work
  <2> QED BY <2>1, <2>2, <2>3 DEF Well, RecordTrue
<1> QED BY <1>1, <1>2, <1>3

LEMMA WellClient ==
    ASSUME OneWorker, Typed, Undisturbed, NEW t \in Tasks, \A u \in Tasks : Well(u), ClientStep(t)
    PROVE  \A u \in Tasks : Well(u)'
<1> USE DEF Typed, TypeOK
<1>1. UNCHANGED <<poll, exec, marked>>
  BY DEF ClientStep, EnqueueCheck, EnqueueStore, EnqueueIndex, EnqueueKey, EnqueueAdd,
         CancelCheck, CancelUnlist, CancelDelete
<1>2. ASSUME NEW u \in Tasks
      PROVE  PollStays(u) /\ LanesStay(u)
  BY <1>1, PollKept, LanesKept
<1>3. CASE EnqueueCheck(t)
  <2>1. /\ sub[t] = "new" /\ sub'[t] \in {"refused", "checked"} /\ UNCHANGED <<data, queue>>
        /\ \A u \in Tasks : u # t => sub'[u] = sub[u]
    BY <1>3 DEF EnqueueCheck
  <2>2. data[t] = NoHash /\ queue[t] = "absent"
    BY <2>1 DEF Well, OnePlace, RecordTrue
  <2>3. Well(t)'
    <3>1. ~Carried(t) /\ ~Worked(t) /\ queue[t] = "absent" /\ queue'[t] = "absent" /\ sub[t] # "queued"
      BY <2>1, <2>2, Whose
    <3>2. \A w \in Workers, l \in Lanes : LaneOf(w, l, t)' = LaneOf(w, l, t)
      BY <1>1, Untouched
    <3>3. data'[t] = NoHash /\ ~ Live(t)'
      BY <2>1, <2>2 DEF Live, NoHash
    <3> QED BY <1>1, <2>1, <3>1, <3>2, <3>3, RecordMoves
  <2>4. \A u \in Tasks : u # t => RecordStays(u)
    BY <1>1, <2>1 DEF RecordStays
  <2> QED BY <1>2, <2>3, <2>4, Rest
<1>4. CASE EnqueueStore(t)
  <2>1. /\ sub[t] \in {"new", "checked"} /\ sub'[t] = "hashed" /\ UNCHANGED queue
        /\ \A u \in Tasks : u # t => sub'[u] = sub[u] /\ data'[u] = data[u]
        /\ data'[t].form = "whole" /\ data'[t].status \in Claimable
    BY <1>4, TablesAssumption DEF EnqueueStore, Claimable
  <2>2. Is(t, Claimable)'
    BY <2>1 DEF Is
  <2>3. Well(t)'
    <3>1. ~Carried(t) /\ ~Worked(t) /\ queue[t] = "absent" /\ queue'[t] = "absent" /\ sub[t] # "queued"
      BY <2>1, Whose
    <3>2. \A w \in Workers, l \in Lanes : LaneOf(w, l, t)' = LaneOf(w, l, t)
      BY <1>1, Untouched
    <3> QED BY <1>1, <2>1, <2>2, <3>1, <3>2, RecordMoves
  <2>4. \A u \in Tasks : u # t => RecordStays(u)
    BY <1>1, <2>1 DEF RecordStays
  <2> QED BY <1>2, <2>3, <2>4, Rest
<1>8. CASE EnqueueIndex(t) \/ EnqueueKey(t)
  <2>1. /\ sub[t] \in Storing /\ sub'[t] \in Storing /\ UNCHANGED <<data, queue>>
        /\ \A u \in Tasks : u # t => sub'[u] = sub[u]
    BY <1>8 DEF EnqueueIndex, EnqueueKey
  <2>2. Is(t, Claimable)'
    BY <2>1 DEF Is, Well, RecordTrue
  <2>3. Well(t)'
    <3>1. ~Carried(t) /\ ~Worked(t) /\ queue[t] = "absent" /\ queue'[t] = "absent" /\ sub[t] # "queued"
      BY <2>1, Whose
    <3>2. \A w \in Workers, l \in Lanes : LaneOf(w, l, t)' = LaneOf(w, l, t)
      BY <1>1, Untouched
    <3> QED BY <1>1, <2>1, <2>2, <3>1, <3>2, RecordMoves
  <2>4. \A u \in Tasks : u # t => RecordStays(u)
    BY <1>1, <2>1 DEF RecordStays
  <2> QED BY <1>2, <2>3, <2>4, Rest
<1>5. CASE EnqueueAdd(t)
  <2>1. /\ sub[t] = "stored" /\ sub'[t] = "queued" /\ UNCHANGED data /\ queue'[t] # "absent"
        /\ \A u \in Tasks : u # t => sub'[u] = sub[u] /\ queue'[u] = queue[u]
    BY <1>5 DEF EnqueueAdd, Enlist
  <2>2. Is(t, Claimable)'
    BY <2>1 DEF Is, Well, RecordTrue
  <2>3. Well(t)'
    <3>1. ~Carried(t) /\ ~Worked(t) /\ queue[t] = "absent"
      BY <2>1, Whose
    <3>2. \A w \in Workers, l \in Lanes : LaneOf(w, l, t)' = LaneOf(w, l, t)
      BY <1>1, Untouched
    <3> QED BY <1>1, <2>1, <2>2, <3>1, <3>2, RecordMoves
  <2>4. \A u \in Tasks : u # t => RecordStays(u)
    BY <1>1, <2>1 DEF RecordStays
  <2> QED BY <1>2, <2>3, <2>4, Rest
<1>6. CASE CancelCheck(t) \/ CancelUnlist(t) \/ CancelDelete(t)
  BY <1>6 DEF CancelCheck, CancelUnlist, CancelDelete, OneWorker, Undisturbed
<1> QED BY <1>3, <1>4, <1>5, <1>6, <1>8 DEF ClientStep

LEMMA WellTime ==
    ASSUME Typed, NEW t \in Tasks, \A u \in Tasks : Well(u), Tick(t) \/ Lapse(t) \/ ExpireResult(t)
    PROVE  \A u \in Tasks : Well(u)'
<1> USE DEF Typed, TypeOK
<1>1. UNCHANGED <<poll, exec, marked, sub>>
  BY DEF Tick, Lapse, ExpireResult
<1>2. ASSUME NEW u \in Tasks
      PROVE  PollStays(u) /\ LanesStay(u)
  BY <1>1, PollKept, LanesKept
<1>3. CASE Tick(t)
  <2>1. /\ queue[t] # "absent" /\ queue'[t] # "absent" /\ UNCHANGED data
        /\ \A u \in Tasks : u # t => queue'[u] = queue[u]
    BY <1>3 DEF Tick, Enlist
  <2>2. Is(t, Claimable)' /\ sub[t] = "queued"
    BY <2>1, Whose DEF Is, Well, RecordTrue
  <2>3. Well(t)'
    <3>1. ~Carried(t) /\ ~Worked(t)
      BY <2>1, Whose
    <3>2. \A w \in Workers, l \in Lanes : LaneOf(w, l, t)' = LaneOf(w, l, t)
      BY <1>1, Untouched
    <3> QED BY <1>1, <2>1, <2>2, <3>1, <3>2, RecordMoves
  <2>4. \A u \in Tasks : u # t => RecordStays(u)
    BY <1>1, <2>1 DEF RecordStays
  <2> QED BY <1>2, <2>3, <2>4, Rest
<1>4. CASE Lapse(t)
  <2>1. \A u \in Tasks : RecordStays(u)
    BY <1>1, <1>4 DEF RecordStays, Lapse
  <2> QED BY <1>2, <2>1, Stays
<1>5. CASE ExpireResult(t)
  <2>1. /\ data'[t] = NoHash /\ UNCHANGED queue /\ data[t].status = "completed"
        /\ \A u \in Tasks : u # t => data'[u] = data[u]
    BY <1>5 DEF ExpireResult, Delete
  <2>2. ~Carried(t) /\ ~Worked(t) /\ queue[t] = "absent" /\ sub[t] \notin Storing
    BY <2>1, Whose
  <2>3. Well(t)'
    <3>1. \A w \in Workers, l \in Lanes : LaneOf(w, l, t)' = LaneOf(w, l, t)
      BY <1>1, Untouched
    <3>2. ~ Live(t)'
      BY <2>1 DEF Live, NoHash
    <3>3. UNCHANGED poll /\ marked \subseteq marked' /\ sub'[t] = sub[t] /\ queue'[t] = queue[t]
      BY <1>1, <2>1
    <3>4. /\ sub'[t] # "queued" => queue'[t] = "absent" /\ sub[t] # "queued"
          /\ sub'[t] \notin Storing \cup {"queued"} => data'[t] = NoHash
          /\ ~ (sub'[t] \in Storing \/ queue'[t] # "absent")
      BY <2>1, <2>2, <3>3
    <3> QED BY <2>2, <3>1, <3>2, <3>3, <3>4, RecordMoves
  <2>4. \A u \in Tasks : u # t => RecordStays(u)
    BY <1>1, <2>1 DEF RecordStays
  <2> QED BY <1>2, <2>3, <2>4, Rest
<1> QED BY <1>3, <1>4, <1>5

\* The callback brings back a hash that is gone, and only that.
LEMMA WellHeartbeat ==
    ASSUME Typed, NEW w \in Workers, NEW l \in Lanes, \A u \in Tasks : Well(u), Heartbeat(w, l)
    PROVE  \A u \in Tasks : Well(u)'
<1>1. PICK t : t = TaskOf(w, l)
  OBVIOUS
<1>2. /\ exec \in [Workers -> [Lanes -> Exec]] /\ data \in [Tasks -> Hash] /\ t \in Tasks
      /\ exec[w][l].pc \notin {"idle", "unlock"}
      /\ UNCHANGED <<poll, queue, sub, marked>>
  BY <1>1 DEF Typed, TypeOK, ExecOK, Heartbeat, TaskOf
<1>3. exec' = [exec EXCEPT ![w][l].aborted = @ \/ lock[t] # w]
  BY <1>1 DEF Heartbeat
<1>4. ASSUME NEW v \in Workers, NEW m \in Lanes
      PROVE  exec'[v][m].pc = exec[v][m].pc /\ exec'[v][m].task = exec[v][m].task
  BY <1>2, <1>3 DEF Exec
<1>5. ASSUME NEW v \in Workers, NEW m \in Lanes, NEW u \in Tasks
      PROVE  LaneOf(v, m, u)' = LaneOf(v, m, u)
  BY <1>4 DEF LaneOf, TaskOf
<1>6. ASSUME NEW u \in Tasks
      PROVE  PollStays(u) /\ LanesStay(u)
  BY <1>2, <1>4, <1>5, PollKept DEF LanesStay
<1>7. data' = [data EXCEPT ![t].form = IF @ = "none" THEN "partial" ELSE @]
  BY <1>1 DEF Heartbeat
<1>8. \A u \in Tasks : u # t => RecordStays(u)
  BY <1>2, <1>7 DEF RecordStays
<1>9. CASE data[t].form = "none"
  <2>1. data'[t].form = "partial"
    BY <1>2, <1>7, <1>9 DEF Hash
  <2>2. ~Carried(t) /\ ~Worked(t) /\ queue[t] = "absent" /\ sub[t] \notin Storing
    BY <1>2, <1>9, Whose
  <2>3. sub[t] = "queued"
    <3>1. LaneOf(w, l, t) # "idle"
      BY <1>1, <1>2 DEF LaneOf
    <3> QED BY <1>2, <3>1 DEF Well, OnePlace
  <2>4. Well(t)'
    BY <1>2, <1>5, <2>1, <2>2, <2>3, RecordMoves DEF Live
  <2> QED BY <1>2, <1>6, <1>8, <2>4, Rest
<1>10. CASE data[t].form # "none"
  <2>1. RecordStays(t)
    BY <1>2, <1>7, <1>10 DEF RecordStays, Hash
  <2> QED BY <1>6, <1>8, <2>1, Stays
<1> QED BY <1>9, <1>10

\* What is known of a lane's task.
LEMMA LaneAt ==
    ASSUME Typed, NEW w \in Workers, NEW l \in Lanes, NEW t, t = TaskOf(w, l),
           exec[w][l].pc \in Work, \A u \in Tasks : Well(u)
    PROVE  /\ t \in Tasks /\ Well(t) /\ sub[t] = "queued" /\ queue[t] = "absent"
           /\ data[t] \in Hash /\ data[t].form = "whole" /\ data[t].attempt \in Attempts
           /\ exec[w][l].pc \in Waiting => Is(t, Claimable)
           /\ exec[w][l].pc \in Running => Is(t, {"running"})
           /\ exec[w][l].pc = "bury" => Is(t, {"dead"})
           /\ exec[w][l].pc \in {"start", "begin", "handler"} => exec[w][l].task.attempt = data[t].attempt
           /\ exec[w][l].pc \in {"short", "settle"} => KeyOf[t] \in marked
<1>1. t \in Tasks /\ data[t] \in Hash /\ data[t].attempt \in Attempts
  <2>1. t \in Tasks
    BY DEF Typed, TypeOK, ExecOK, TaskOf, Work, Waiting, Running
  <2> QED BY <2>1, AttemptTyped DEF Typed, TypeOK
<1>2. LaneOf(w, l, t) = exec[w][l].pc /\ Worked(t)
  BY DEF LaneOf, Worked
<1>3. sub[t] = "queued" /\ queue[t] = "absent"
  BY <1>1, <1>2 DEF Well, OnePlace
<1>4. /\ exec[w][l].pc \in Waiting => Is(t, Claimable)
      /\ exec[w][l].pc \in Running => Is(t, {"running"})
      /\ exec[w][l].pc = "bury" => Is(t, {"dead"})
      /\ exec[w][l].pc \in {"start", "begin", "handler"} => exec[w][l].task.attempt = data[t].attempt
      /\ exec[w][l].pc \in {"short", "settle"} => KeyOf[t] \in marked
  BY <1>1, <1>2 DEF Well, RecordTrue
<1>5. data[t].form = "whole"
  BY <1>4 DEF Work, Is
<1> QED BY <1>1, <1>3, <1>4, <1>5

\* What a step of a lane does to the tasks it does not have.
LEMMA LaneRest ==
    ASSUME Typed, NEW w \in Workers, NEW l \in Lanes, NEW t \in Tasks, t = TaskOf(w, l),
           NEW pc, Step(w, l, pc), \A u \in Tasks : Well(u), Well(t)', UNCHANGED <<poll, sub>>,
           marked \subseteq marked', \A u \in Tasks : u # t => data'[u] = data[u] /\ queue'[u] = queue[u]
    PROVE  \A u \in Tasks : Well(u)'
<1>1. \A u \in Tasks : u # t => PollStays(u) /\ LanesStay(u) /\ RecordStays(u)
  BY LaneMoves, PollKept DEF RecordStays
<1> QED BY <1>1, Rest

\* The lane's task gets a new status and stays out of its queue.
LEMMA LaneSets ==
    ASSUME OneWorker, Typed, NEW w \in Workers, NEW l \in Lanes, NEW t, t = TaskOf(w, l),
           exec[w][l].pc \in Work, \A u \in Tasks : Well(u),
           NEW old, NEW new \in Statuses, NEW attempt \in Attempts, SetStatus(t, old, new, attempt),
           NEW pc, Step(w, l, pc), UNCHANGED <<poll, sub, queue, marked>>,
           \/ pc = "done" /\ new = "completed"
           \/ pc = "handler" /\ new = "running" /\ exec[w][l].task.attempt = attempt
           \/ pc \in {"requeue", "readd"} /\ new = "scheduled"
           \/ pc = "bury" /\ new = "dead"
    PROVE  \A u \in Tasks : Well(u)'
<1>1. /\ t \in Tasks /\ Well(t) /\ sub[t] = "queued" /\ queue[t] = "absent" /\ data[t].form = "whole"
  BY LaneAt
<1>2. /\ data'[t] = [form |-> "whole", status |-> new, attempt |-> attempt]
      /\ \A u \in Tasks : u # t => data'[u] = data[u]
  BY <1>1, StatusMoves
<1>3. Well(t)'
  <2>1. \A s : Is(t, s)' <=> new \in s
    BY <1>2 DEF Is
  <2>2. /\ pc # "idle"
        /\ queue'[t] = "absent"
        /\ pc \in Waiting => new \in Claimable
        /\ pc \in Running => new = "running"
        /\ pc = "bury" => new = "dead"
        /\ pc \in {"start", "begin", "handler"} => exec[w][l].task.attempt = data'[t].attempt
        /\ pc \notin {"short", "settle"}
        /\ Live(t)' => pc \in Work
    BY <1>1, <1>2 DEF Work, Waiting, Running, Claimable, Live, Terminal
  <2> QED BY <1>1, <2>1, <2>2, LaneWorks
<1> QED BY <1>1, <1>2, <1>3, LaneRest

LEMMA WellExec ==
    ASSUME OneWorker, Typed, Undisturbed, NEW w \in Workers, NEW l \in Lanes,
           \A u \in Tasks : Well(u), ExecStep(w, l)
    PROVE  \A u \in Tasks : Well(u)'
<1>1. PICK t : t = TaskOf(w, l)
  OBVIOUS
<1>2. UNCHANGED <<poll, sub>>
  BY DEF ExecStep, Start, Short, Begin, HandlerReturns, Settle, HandlerThrows, Requeue, Bury, Finally,
         FinallyUnlock
<1>3. forced[w] = {}
  BY DEF Undisturbed
<1>4. {"running", "completed", "scheduled", "dead"} \subseteq Statuses
  BY DEF Statuses
<1>5. CASE Start(w, l)
  <2>1. PICK pc : /\ Step(w, l, pc) /\ pc \in {"short", "begin"}
                  /\ pc = "short" => KeyOf[t] \in marked
    BY <1>1, <1>5 DEF Start
  <2>2. exec[w][l].pc = "start" /\ UNCHANGED <<data, queue, marked>> /\ exec[w][l].pc \in Work
    BY <1>5 DEF Start, ExecAt, Work, Waiting
  <2>3. /\ t \in Tasks /\ Well(t) /\ queue[t] = "absent"
        /\ Is(t, Claimable) /\ exec[w][l].task.attempt = data[t].attempt
    BY <1>1, <2>2, LaneAt DEF Waiting
  <2>4. Is(t, Claimable)'
    BY <2>2, <2>3 DEF Is
  <2>5. pc \in Work /\ pc \notin Running /\ pc # "idle"
    BY <2>1 DEF Work, Waiting, Running
  <2>6. Well(t)'
    BY <1>1, <1>2, <2>1, <2>2, <2>3, <2>4, <2>5, LaneWorks
  <2> QED BY <1>1, <1>2, <2>1, <2>2, <2>3, <2>6, LaneRest
<1>6. CASE Short(w, l)
  <2>1. exec[w][l].pc \in Work /\ UNCHANGED <<queue, marked>> /\ Step(w, l, "done")
        /\ SetStatus(t, exec[w][l].task.status, "completed", data[t].attempt)
    BY <1>1, <1>6 DEF Short, ExecAt, Work, Waiting
  <2> QED BY <1>1, <1>2, <1>4, <2>1, LaneAt, LaneSets
<1>7. CASE Begin(w, l)
  <2>1. exec[w][l].pc = "begin" /\ exec[w][l].pc \in Work /\ UNCHANGED <<queue, marked>> /\ Step(w, l, "handler")
        /\ SetStatus(t, exec[w][l].task.status, "running", data[t].attempt)
    BY <1>1, <1>7 DEF Begin, ExecAt, Work, Waiting
  <2>2. exec[w][l].task.attempt = data[t].attempt /\ data[t].attempt \in Attempts
    BY <1>1, <2>1, LaneAt
  <2> QED BY <1>1, <1>2, <1>4, <2>1, <2>2, LaneSets
<1>8. CASE HandlerReturns(w, l)
  <2>1. exec[w][l].pc = "handler" /\ exec[w][l].pc \in Work /\ exec[w][l].pc \in Running /\ UNCHANGED queue
    BY <1>8 DEF HandlerReturns, ExecAt, Work, Running
  <2>2. CASE marked' = marked \cup {KeyOf[t]} /\ Step(w, l, "settle") /\ UNCHANGED data
    <3>1. t \in Tasks /\ Well(t) /\ queue[t] = "absent" /\ Is(t, {"running"})
      BY <1>1, <2>1, LaneAt
    <3>2. Is(t, {"running"})'
      BY <2>2, <3>1 DEF Is
    <3>3. "settle" \in Work /\ "settle" \notin Waiting
      BY DEF Work, Waiting, Running
    <3>4. Well(t)'
      BY <1>1, <1>2, <2>1, <2>2, <3>1, <3>2, <3>3, LaneWorks
    <3> QED BY <1>1, <1>2, <2>1, <2>2, <3>1, <3>4, LaneRest
  <2>3. CASE SetStatus(t, "running", "completed", data[t].attempt) /\ Step(w, l, "done") /\ UNCHANGED marked
    BY <1>1, <1>2, <1>4, <2>1, <2>3, LaneAt, LaneSets
  <2> QED BY <1>1, <1>3, <1>8, <2>2, <2>3 DEF HandlerReturns
<1>9. CASE Settle(w, l)
  <2>1. exec[w][l].pc \in Work /\ UNCHANGED <<queue, marked>> /\ Step(w, l, "done")
        /\ SetStatus(t, "running", "completed", data[t].attempt)
    BY <1>1, <1>9 DEF Settle, ExecAt, Work, Running
  <2> QED BY <1>1, <1>2, <1>4, <2>1, LaneAt, LaneSets
<1>10. CASE HandlerThrows(w, l)
  <2>1. exec[w][l].pc = "handler" /\ exec[w][l].pc \in Work /\ UNCHANGED <<queue, marked>>
    BY <1>10 DEF HandlerThrows, ExecAt, Work, Running
  <2>2. t = exec[w][l].task.id /\ data[t].attempt \in Attempts
    BY <1>1, <2>1, LaneAt DEF TaskOf
  <2>3. CASE SetStatus(t, "running", "scheduled", data[t].attempt) /\ Step(w, l, "readd")
    BY <1>1, <1>2, <1>4, <2>1, <2>2, <2>3, LaneSets
  <2>4. ASSUME NEW retryable \in BOOLEAN, Retry(w, l, retryable)
        PROVE  \A u \in Tasks : Well(u)'
    <3> DEFINE next == exec[w][l].task.attempt + 1
    <3>1. CASE next < MaxAttempts /\ SetStatus(t, "running", "scheduled", next) /\ Step(w, l, "requeue")
      <4>1. next \in Attempts
        <5>1. exec[w][l].task.attempt \in Attempts
          BY DEF Typed, TypeOK, Exec, Claim
        <5> QED BY <3>1, <5>1, BoundsAssumption DEF Attempts
      <4> HIDE DEF next
      <4> QED BY <1>1, <1>2, <1>4, <2>1, <3>1, <4>1, LaneSets
    <3>2. CASE SetStatus(t, exec[w][l].task.status, "dead", data[t].attempt) /\ Step(w, l, "bury")
      BY <1>1, <1>2, <1>4, <2>1, <2>2, <3>2, LaneSets
    <3> QED BY <2>2, <2>4, <3>1, <3>2 DEF Retry, ShouldRetry
  <2> QED BY <1>1, <1>3, <1>10, <2>3, <2>4 DEF HandlerThrows
<1>11. CASE Requeue(w, l)
  <2>1. exec[w][l].pc \in Waiting /\ exec[w][l].pc \in Work /\ UNCHANGED <<data, marked>> /\ Step(w, l, "done")
    BY <1>11 DEF Requeue, ExecAt, Work, Waiting
  <2>2. t \in Tasks /\ Well(t) /\ Is(t, Claimable)
    BY <1>1, <2>1, LaneAt
  <2>3. queue'[t] # "absent" /\ \A u \in Tasks : u # t => queue'[u] = queue[u]
    BY <1>1, <1>11, <2>2 DEF Requeue, Enlist, Typed, TypeOK
  <2>4. "done" \notin Work \cup Waiting \cup Running /\ Is(t, Claimable)'
    BY <2>1, <2>2 DEF Work, Waiting, Running, Is
  <2>5. Well(t)'
    BY <1>1, <1>2, <2>1, <2>2, <2>3, <2>4, LaneWorks
  <2> QED BY <1>1, <1>2, <2>1, <2>2, <2>3, <2>5, LaneRest
<1>12. CASE Bury(w, l)
  <2>1. exec[w][l].pc = "bury" /\ exec[w][l].pc \in Work /\ UNCHANGED <<data, queue, marked>> /\ Step(w, l, "done")
    BY <1>12 DEF Bury, ExecAt, Work
  <2>2. t \in Tasks /\ Well(t) /\ Is(t, {"dead"}) /\ queue[t] = "absent"
    BY <1>1, <2>1, LaneAt
  <2>3. "done" \notin Work \cup Waiting \cup Running /\ ~Live(t)'
    BY <2>1, <2>2 DEF Work, Waiting, Running, Is, Live, Terminal
  <2>5. Well(t)'
    BY <1>1, <1>2, <2>1, <2>2, <2>3, LaneWorks
  <2> QED BY <1>1, <1>2, <2>1, <2>2, <2>5, LaneRest
<1>13. CASE Finally(w, l) \/ FinallyUnlock(w, l)
  <2>1. UNCHANGED <<data, queue, marked>> /\ exec[w][l].pc \in {"done", "unlock"} /\ exec[w][l].pc \notin Work
    BY <1>13 DEF Finally, FinallyUnlock, ExecAt, Work, Waiting, Running
  <2>2. PICK x \in Exec : /\ exec' = [exec EXCEPT ![w][l] = x]
                          /\ \/ x.pc = "idle"
                             \/ x.pc = "unlock" /\ x.task = exec[w][l].task
    <3>1. NoExec \in Exec /\ NoExec.pc = "idle"
      BY NoExecTyped
    <3>2. exec[w][l] \in Exec /\ exec \in [Workers -> [Lanes -> Exec]]
      BY DEF Typed, TypeOK
    <3>3. CASE exec' = [exec EXCEPT ![w][l] = NoExec]
      BY <3>1, <3>3
    <3>4. CASE exec' = [exec EXCEPT ![w][l].pc = "unlock", ![w][l].slot = FALSE]
      <4> DEFINE x == [exec[w][l] EXCEPT !.pc = "unlock", !.slot = FALSE]
      <4>1. x \in Exec /\ x.pc = "unlock" /\ x.task = exec[w][l].task
        BY <3>2 DEF Exec, ExecPc
      <4>2. exec' = [exec EXCEPT ![w][l] = x]
        BY <3>2, <3>4
      <4> HIDE DEF x
      <4> QED BY <4>1, <4>2
    <3> QED BY <1>13, <3>3, <3>4 DEF Finally, FinallyUnlock
  <2>3. \A u \in Tasks : LanesStay(u)
    <3>1. "unlock" \notin Work
      BY DEF Work, Waiting, Running
    <3> QED BY <2>1, <2>2, <3>1, LaneTurns
  <2>4. \A u \in Tasks : PollStays(u) /\ RecordStays(u)
    BY <1>2, <2>1, PollKept DEF RecordStays
  <2> QED BY <2>3, <2>4, Stays
<1> QED BY <1>5, <1>6, <1>7, <1>8, <1>9, <1>10, <1>11, <1>12, <1>13 DEF ExecStep

-----------------------------------------------------------------------------
(* Alone is an invariant *)

LEMMA AloneInit == OneWorker /\ Init => Alone
<1> SUFFICES ASSUME OneWorker, Init
             PROVE  Alone
  OBVIOUS
<1>1. Undisturbed
  BY DEF Init, Undisturbed, IdlePoll
<1>2. ASSUME NEW t \in Tasks
      PROVE  Well(t)
  <2>1. /\ sub[t] = "new" /\ data[t] = NoHash /\ queue[t] = "absent"
        /\ \A w \in Workers : poll[w].list = {} /\ poll[w].pc = "idle" /\ poll[w].cur = NoTask
        /\ \A w \in Workers, l \in Lanes : exec[w][l].pc = "idle"
    BY DEF Init, IdlePoll, NoExec
  <2>2. /\ \A w \in Workers : PollOf(w, t) = "idle"
        /\ \A w \in Workers, l \in Lanes : LaneOf(w, l, t) = "idle"
    BY <2>1 DEF PollOf, LaneOf
  <2>3. ~Carried(t) /\ ~Worked(t)
    BY <2>2 DEF Carried, Worked, Taking, Burying, Work, Waiting, Running
  <2>4. OnePlace(t)
    BY <2>1, <2>2, <2>3 DEF OnePlace, Finding, Work, Waiting, Running
  <2>5. RecordTrue(t)
    BY <2>1, <2>2 DEF RecordTrue, Taking, Burying, Waiting, Running
  <2>6. Somewhere(t)
    BY <2>1 DEF Somewhere, Live, NoHash
  <2> QED BY <2>4, <2>5, <2>6 DEF Well
<1> QED BY <1>1, <1>2 DEF Alone

LEMMA AloneStep == OneWorker /\ Typed /\ Alone /\ [Next]_vars => Alone'
<1> SUFFICES ASSUME OneWorker, Typed, Undisturbed, \A u \in Tasks : Well(u), [Next]_vars
             PROVE  (\A u \in Tasks : Well(u)') /\ \A w \in Workers : PollGood(w)
  BY Undisturbs DEF Alone, PollGood
<1>0. \A v \in Workers : poll'[v] = poll[v] => PollGood(v)
  BY DEF Undisturbed, PollGood
<1>1. CASE UNCHANGED vars
  <2>1. UNCHANGED <<poll, exec, data, queue, sub, marked>>
    BY <1>1 DEF vars
  <2>2. \A u \in Tasks : PollStays(u) /\ LanesStay(u) /\ RecordStays(u)
    BY <2>1, PollKept, LanesKept DEF RecordStays
  <2> QED BY <1>0, <2>1, <2>2, Stays
<1>2. ASSUME NEW t \in Tasks, ClientStep(t)
      PROVE  (\A u \in Tasks : Well(u)') /\ UNCHANGED poll
  <2>1. UNCHANGED poll
    BY <1>2 DEF ClientStep, EnqueueCheck, EnqueueStore, EnqueueIndex, EnqueueKey, EnqueueAdd,
                CancelCheck, CancelUnlist, CancelDelete
  <2> QED BY <1>2, <2>1, WellClient
<1>3. ASSUME NEW t \in Tasks, Tick(t) \/ Lapse(t) \/ ExpireResult(t)
      PROVE  (\A u \in Tasks : Well(u)') /\ UNCHANGED poll
  <2>1. UNCHANGED poll
    BY <1>3 DEF Tick, Lapse, ExpireResult
  <2> QED BY <1>3, <2>1, WellTime
<1>4. ASSUME NEW w \in Workers, PollStep(w)
      PROVE  (\A u \in Tasks : Well(u)') /\ \A v \in Workers : PollGood(v)
  <2>1. \A v \in Workers : v = w
    BY DEF OneWorker
  <2> QED BY <1>4, <2>1, WellPoll
<1>5. ASSUME NEW w \in Workers, StopStep(w) \/ Crash(w)
      PROVE  FALSE
  <2>1. halt[w].pc = "idle" /\ Faults = {}
    BY DEF Undisturbed, Typed, HaltOK, NoHalt, OneWorker
  <2> QED BY <1>5, <2>1 DEF StopStep, StopBegin, StopNext, StopLoad, StopEnlist, StopUnlock, StopEnd,
                            HaltAt, Crash
<1>6. ASSUME NEW w \in Workers, NEW l \in Lanes, ExecStep(w, l)
      PROVE  (\A u \in Tasks : Well(u)') /\ UNCHANGED poll
  <2>1. UNCHANGED poll
    BY <1>6 DEF ExecStep, Start, Short, Begin, HandlerReturns, Settle, HandlerThrows, Requeue, Bury,
                Finally, FinallyUnlock
  <2> QED BY <1>6, <2>1, WellExec
<1>7. ASSUME NEW w \in Workers, NEW l \in Lanes, Heartbeat(w, l)
      PROVE  (\A u \in Tasks : Well(u)') /\ UNCHANGED poll
  <2>1. UNCHANGED poll
    BY <1>7 DEF Heartbeat
  <2> QED BY <1>7, <2>1, WellHeartbeat
<1>8. ASSUME NEW w \in Workers, NEW t \in Tasks, OverrunEnds(w, t)
      PROVE  (\A u \in Tasks : Well(u)') /\ UNCHANGED poll
  <2>1. UNCHANGED <<poll, exec, data, queue, sub, marked>>
    BY <1>8 DEF OverrunEnds
  <2>2. \A u \in Tasks : PollStays(u) /\ LanesStay(u) /\ RecordStays(u)
    BY <2>1, PollKept, LanesKept DEF RecordStays
  <2> QED BY <2>1, <2>2, Stays
<1> QED BY <1>0, <1>1, <1>2, <1>3, <1>4, <1>5, <1>6, <1>7, <1>8 DEF Next

LEMMA AloneAlways ==
    ASSUME OneWorker
    PROVE  Spec => []Alone
<1>1. Init => Alone
  BY AloneInit
<1>2. Typed /\ Alone /\ [Next]_vars => Alone'
  BY AloneStep
<1> QED BY <1>1, <1>2, TypedAlways, PTL DEF Spec

\* One worker that nothing disturbs never forgets a task: an unfinished one
\* is with its client, in its queue, with the poll loop or in a lane.
THEOREM NothingForgotten ==
    ASSUME OneWorker
    PROVE  Spec => []NothingStranded
<1>1. ASSUME Alone
      PROVE  NothingStranded
  <2> SUFFICES ASSUME NEW t \in Tasks, Live(t), sub[t] \notin Storing, queue[t] = "absent"
               PROVE  \E w \in Workers : InHand(w, t)
    BY DEF NothingStranded
  <2>1. Well(t)
    BY <1>1 DEF Alone
  <2>2. ASSUME NEW w \in Workers, PollOf(w, t) \in Taking \cup Burying
        PROVE  InHand(w, t)
    <3>1. PollOf(w, t) \notin Burying
      BY <2>1, Alive DEF Well, RecordTrue
    <3>2. poll[w].cur = t /\ poll[w].pc \in Taking
      BY <2>2, <3>1 DEF PollOf, Taking
    <3> QED BY <3>2 DEF InHand, Taking
  <2>3. ASSUME NEW w \in Workers, NEW l \in Lanes, LaneOf(w, l, t) \in Work
        PROVE  InHand(w, t)
    <3>1. TaskOf(w, l) = t /\ exec[w][l].pc \in Work
      BY <2>3 DEF LaneOf, Work, Waiting, Running
    <3> QED BY <3>1 DEF InHand, Work, Waiting, Running
  <2> QED BY <2>1, <2>2, <2>3 DEF Well, Somewhere, Carried, Worked
<1> QED BY <1>1, AloneAlways, PTL

-----------------------------------------------------------------------------
(* TaskLifecycle *)

LifeOf(t) == IF data[t].form # "whole" THEN "absent"
             ELSE IF data[t].status \in Claimable THEN "waiting"
             ELSE data[t].status
Life == [t \in Tasks |-> LifeOf(t)]
Tries == [t \in Tasks |-> data[t].attempt]

LEMMA Seen == Lifecycle!Next <=> \E t \in Tasks :
    \/ /\ Life[t] = "absent" /\ Life' = [Life EXCEPT ![t] = "waiting"]
       /\ Tries' = Tries /\ marked' = marked
    \/ /\ Life[t] = "waiting" /\ Life' = [Life EXCEPT ![t] = "running"]
       /\ Tries' = Tries /\ marked' = marked
    \/ /\ Life[t] = "running" /\ KeyOf[t] # NoKey /\ marked' = marked \cup {KeyOf[t]}
       /\ Life' = Life /\ Tries' = Tries
    \/ /\ Life[t] = "running" /\ Life' = [Life EXCEPT ![t] = "completed"]
       /\ KeyOf[t] # NoKey => KeyOf[t] \in marked
       /\ Tries' = Tries /\ marked' = marked
    \/ /\ Life[t] = "waiting" /\ Life' = [Life EXCEPT ![t] = "completed"]
       /\ KeyOf[t] \in marked
       /\ Tries' = Tries /\ marked' = marked
    \/ /\ Life[t] = "running" /\ Life' = [Life EXCEPT ![t] = "waiting"]
       /\ Tries[t] + 1 < MaxAttempts /\ Tries' = [Tries EXCEPT ![t] = @ + 1]
       /\ marked' = marked
    \/ /\ Life[t] = "running" /\ Life' = [Life EXCEPT ![t] = "waiting"]
       /\ Tries' = Tries /\ marked' = marked
    \/ /\ \/ Life[t] = "running" /\ Life' = [Life EXCEPT ![t] = "dead"]
          \/ t \notin Registered /\ Life[t] = "waiting" /\ Life' = [Life EXCEPT ![t] = "dead"]
       /\ Tries' = Tries /\ marked' = marked
    \/ /\ Life[t] = "completed" /\ Life' = [Life EXCEPT ![t] = "absent"]
       /\ Tries' = [Tries EXCEPT ![t] = 0] /\ marked' = marked
BY ZenonT(40) DEF Lifecycle!Next, Lifecycle!Submit, Lifecycle!Run, Lifecycle!Answer, Lifecycle!Complete,
       Lifecycle!Reuse, Lifecycle!Retry, Lifecycle!Abandon, Lifecycle!Bury, Lifecycle!Forget,
       Lifecycle!Become, Life, Tries, LifeOf

LifeStep == Lifecycle!Next \/ UNCHANGED <<Life, Tries, marked>>

LEMMA Same == UNCHANGED <<data, marked>> => LifeStep
BY DEF LifeStep, Life, Tries, LifeOf

\* What one task may do.
LEMMA Moves ==
    ASSUME NEW t \in Tasks, \A u \in Tasks : u # t => data'[u] = data[u],
           \/ /\ LifeOf(t) = "absent" /\ LifeOf(t)' = "waiting"
              /\ data'[t].attempt = data[t].attempt /\ marked' = marked
           \/ /\ LifeOf(t) = "waiting" /\ LifeOf(t)' = "running"
              /\ data'[t].attempt = data[t].attempt /\ marked' = marked
           \/ /\ LifeOf(t) = "running" /\ KeyOf[t] # NoKey /\ marked' = marked \cup {KeyOf[t]}
              /\ data'[t] = data[t]
           \/ /\ LifeOf(t) = "running" /\ LifeOf(t)' = "completed"
              /\ KeyOf[t] # NoKey => KeyOf[t] \in marked
              /\ data'[t].attempt = data[t].attempt /\ marked' = marked
           \/ /\ LifeOf(t) = "waiting" /\ LifeOf(t)' = "completed"
              /\ KeyOf[t] \in marked
              /\ data'[t].attempt = data[t].attempt /\ marked' = marked
           \/ /\ LifeOf(t) = "running" /\ LifeOf(t)' = "waiting"
              /\ data[t].attempt + 1 < MaxAttempts /\ data'[t].attempt = data[t].attempt + 1
              /\ marked' = marked
           \/ /\ LifeOf(t) = "running" /\ LifeOf(t)' = "waiting"
              /\ data'[t].attempt = data[t].attempt /\ marked' = marked
           \/ /\ LifeOf(t) = "running" \/ (t \notin Registered /\ LifeOf(t) = "waiting")
              /\ LifeOf(t)' = "dead"
              /\ data'[t].attempt = data[t].attempt /\ marked' = marked
           \/ /\ LifeOf(t) = "completed" /\ LifeOf(t)' = "absent"
              /\ data'[t].attempt = 0 /\ marked' = marked
    PROVE  LifeStep
<1>1. \A u \in Tasks : u # t => LifeOf(u)' = LifeOf(u)
  BY DEF LifeOf
<1>2. Life[t] = LifeOf(t) /\ Life' = [Life EXCEPT ![t] = LifeOf(t)']
  BY <1>1 DEF Life
<1>3. /\ Tries[t] = data[t].attempt /\ Tries' = [Tries EXCEPT ![t] = data'[t].attempt]
      /\ data'[t].attempt = data[t].attempt => Tries' = Tries
  BY DEF Tries
<1>4. /\ data'[t] = data[t] => Life' = Life
      /\ \A n : n = Tries[t] + 1 => [Tries EXCEPT ![t] = n] = [Tries EXCEPT ![t] = @ + 1]
  BY <1>1 DEF Life, LifeOf
<1> QED BY <1>2, <1>3, <1>4, Seen DEF LifeStep

\* updateStatus of a record that is there.
LEMMA Sets ==
    ASSUME Typed, NEW t \in Tasks, data[t].form = "whole",
           NEW old, NEW new \in Statuses, NEW attempt \in Attempts, SetStatus(t, old, new, attempt)
    PROVE  /\ \A u \in Tasks : u # t => data'[u] = data[u]
           /\ LifeOf(t)' = IF new \in Claimable THEN "waiting" ELSE new
           /\ data'[t].attempt = attempt
<1>1. /\ data'[t] = [form |-> "whole", status |-> new, attempt |-> attempt]
      /\ \A u \in Tasks : u # t => data'[u] = data[u]
  BY StatusMoves
<1> QED BY <1>1 DEF LifeOf

LEMMA IsLife == \A t \in Tasks : /\ Is(t, Claimable) => LifeOf(t) = "waiting"
                                 /\ Is(t, {"running"}) => LifeOf(t) = "running"
BY DEF Is, LifeOf, Claimable

LEMMA LifeLane ==
    ASSUME OneWorker, Typed, Undisturbed, NEW w \in Workers, NEW l \in Lanes,
           \A u \in Tasks : Well(u), ExecStep(w, l)
    PROVE  LifeStep
<1>1. PICK t : t = TaskOf(w, l)
  OBVIOUS
<1>2. forced[w] = {}
  BY DEF Undisturbed
<1>3. {"running", "completed", "scheduled", "dead"} \subseteq Statuses
  BY DEF Statuses
<1>4. "scheduled" \in Claimable /\ {"running", "completed", "dead"} \cap Claimable = {}
  BY DEF Claimable
<1>5. CASE Start(w, l) \/ Requeue(w, l) \/ Bury(w, l) \/ Finally(w, l) \/ FinallyUnlock(w, l)
  BY <1>5, Same DEF Start, Requeue, Bury, Finally, FinallyUnlock
<1>6. CASE Short(w, l)
  <2>1. exec[w][l].pc = "short" /\ exec[w][l].pc \in Work /\ exec[w][l].pc \in Waiting /\ UNCHANGED marked
        /\ SetStatus(t, exec[w][l].task.status, "completed", data[t].attempt)
    BY <1>1, <1>6 DEF Short, ExecAt, Work, Waiting
  <2>2. /\ t \in Tasks /\ data[t].form = "whole" /\ data[t].attempt \in Attempts
        /\ Is(t, Claimable) /\ KeyOf[t] \in marked
    BY <1>1, <2>1, LaneAt
  <2> QED BY <1>3, <1>4, <2>1, <2>2, Sets, IsLife, Moves
<1>7. CASE Begin(w, l)
  <2>1. exec[w][l].pc = "begin" /\ exec[w][l].pc \in Work /\ exec[w][l].pc \in Waiting /\ UNCHANGED marked
        /\ SetStatus(t, exec[w][l].task.status, "running", data[t].attempt)
    BY <1>1, <1>7 DEF Begin, ExecAt, Work, Waiting
  <2>2. /\ t \in Tasks /\ data[t].form = "whole" /\ data[t].attempt \in Attempts
        /\ Is(t, Claimable)
    BY <1>1, <2>1, LaneAt
  <2> QED BY <1>3, <1>4, <2>1, <2>2, Sets, IsLife, Moves
<1>8. CASE HandlerReturns(w, l)
  <2>1. exec[w][l].pc = "handler" /\ exec[w][l].pc \in Work /\ exec[w][l].pc \in Running
    BY <1>8 DEF HandlerReturns, ExecAt, Work, Running
  <2>2. /\ t \in Tasks /\ data[t].form = "whole" /\ data[t].attempt \in Attempts
        /\ Is(t, {"running"})
    BY <1>1, <2>1, LaneAt
  <2>3. CASE KeyOf[t] # NoKey /\ marked' = marked \cup {KeyOf[t]} /\ UNCHANGED data
    BY <2>2, <2>3, IsLife, Moves
  <2>4. CASE KeyOf[t] = NoKey /\ SetStatus(t, "running", "completed", data[t].attempt) /\ UNCHANGED marked
    BY <1>3, <1>4, <2>2, <2>4, Sets, IsLife, Moves
  <2> QED BY <1>1, <1>2, <1>8, <2>3, <2>4 DEF HandlerReturns
<1>9. CASE Settle(w, l)
  <2>1. exec[w][l].pc = "settle" /\ exec[w][l].pc \in Work /\ exec[w][l].pc \in Running /\ UNCHANGED marked
        /\ SetStatus(t, "running", "completed", data[t].attempt)
    BY <1>1, <1>9 DEF Settle, ExecAt, Work, Running
  <2>2. /\ t \in Tasks /\ data[t].form = "whole" /\ data[t].attempt \in Attempts
        /\ Is(t, {"running"}) /\ KeyOf[t] \in marked
    BY <1>1, <2>1, LaneAt
  <2> QED BY <1>3, <1>4, <2>1, <2>2, Sets, IsLife, Moves
<1>10. CASE HandlerThrows(w, l)
  <2>1. exec[w][l].pc = "handler" /\ exec[w][l].pc \in Work /\ exec[w][l].pc \in Running /\ UNCHANGED marked
    BY <1>10 DEF HandlerThrows, ExecAt, Work, Running
  <2>2. /\ t \in Tasks /\ data[t].form = "whole" /\ data[t].attempt \in Attempts
        /\ Is(t, {"running"}) /\ exec[w][l].task.attempt = data[t].attempt
        /\ exec[w][l].task.id = t
    BY <1>1, <2>1, LaneAt DEF TaskOf
  <2>3. CASE SetStatus(t, "running", "scheduled", data[t].attempt)
    BY <1>3, <1>4, <2>1, <2>2, <2>3, Sets, IsLife, Moves
  <2>4. ASSUME NEW retryable \in BOOLEAN, Retry(w, l, retryable)
        PROVE  LifeStep
    <3>1. CASE data[t].attempt + 1 < MaxAttempts /\ SetStatus(t, "running", "scheduled", data[t].attempt + 1)
      <4>1. data[t].attempt + 1 \in Attempts
        BY <2>2, <3>1, BoundsAssumption DEF Attempts
      <4> QED BY <1>3, <1>4, <2>1, <2>2, <3>1, <4>1, Sets, IsLife, Moves
    <3>2. CASE SetStatus(t, exec[w][l].task.status, "dead", data[t].attempt)
      BY <1>3, <1>4, <2>1, <2>2, <3>2, Sets, IsLife, Moves
    <3> QED BY <2>2, <2>4, <3>1, <3>2 DEF Retry, ShouldRetry
  <2> QED BY <1>1, <1>2, <1>10, <2>3, <2>4 DEF HandlerThrows
<1> QED BY <1>5, <1>6, <1>7, <1>8, <1>9, <1>10 DEF ExecStep

LEMMA LifeNext == OneWorker /\ Typed /\ Alone /\ [Next]_vars => LifeStep
<1> SUFFICES ASSUME OneWorker, Typed, Undisturbed, \A u \in Tasks : Well(u), [Next]_vars
             PROVE  LifeStep
  BY DEF Alone
<1>1. CASE UNCHANGED vars
  BY <1>1, Same DEF vars
<1>2. ASSUME NEW t \in Tasks, ClientStep(t)
      PROVE  LifeStep
  <2>1. CASE EnqueueStore(t)
    <3>1. /\ sub[t] \notin Storing \cup {"queued"} /\ UNCHANGED marked
          /\ \A u \in Tasks : u # t => data'[u] = data[u]
          /\ data'[t].form = "whole" /\ data'[t].status \in Claimable /\ data'[t].attempt = 0
      BY <2>1, TablesAssumption DEF EnqueueStore, Claimable, Typed, TypeOK
    <3>2. data[t] = NoHash
      BY <3>1 DEF Well, RecordTrue
    <3>3. LifeOf(t) = "absent" /\ LifeOf(t)' = "waiting" /\ data[t].attempt = 0
      BY <3>1, <3>2 DEF LifeOf, NoHash
    <3> QED BY <3>1, <3>3, Moves
  <2>2. CASE EnqueueCheck(t) \/ EnqueueIndex(t) \/ EnqueueKey(t) \/ EnqueueAdd(t)
    BY <2>2, Same DEF EnqueueCheck, EnqueueIndex, EnqueueKey, EnqueueAdd
  <2>3. ~(CancelCheck(t) \/ CancelUnlist(t) \/ CancelDelete(t))
    BY DEF CancelCheck, CancelUnlist, CancelDelete, OneWorker, Undisturbed
  <2> QED BY <1>2, <2>1, <2>2, <2>3 DEF ClientStep
<1>3. ASSUME NEW t \in Tasks, Tick(t) \/ Lapse(t)
      PROVE  LifeStep
  BY <1>3, Same DEF Tick, Lapse
<1>4. ASSUME NEW t \in Tasks, ExpireResult(t)
      PROVE  LifeStep
  <2>1. /\ data'[t] = NoHash /\ UNCHANGED marked
        /\ \A u \in Tasks : u # t => data'[u] = data[u]
        /\ data[t].form = "whole" /\ data[t].status = "completed"
    BY <1>4 DEF ExpireResult, Delete, Typed, TypeOK
  <2>2. LifeOf(t) = "completed" /\ LifeOf(t)' = "absent" /\ data'[t].attempt = 0
    BY <2>1 DEF LifeOf, NoHash, Claimable
  <2> QED BY <2>1, <2>2, Moves
<1>5. ASSUME NEW w \in Workers, PollStep(w)
      PROVE  LifeStep
  <2>1. CASE DispatchUnknown(w)
    <3>1. PICK t : t = poll[w].cur
      OBVIOUS
    <3>2. /\ t \in Tasks /\ PollOf(w, t) = "taken" /\ t \notin Registered /\ UNCHANGED marked
          /\ SetStatus(t, poll[w].task.status, "dead", data[t].attempt)
      BY <2>1, <3>1 DEF DispatchUnknown, PollAt, PollOf, Typed, PollOK
    <3>3. Is(t, Claimable)
      BY <3>2, LoopAt DEF Taking
    <3>4. data[t].form = "whole" /\ data[t].attempt \in Attempts /\ "dead" \in Statuses
          /\ "dead" \notin Claimable
      BY <3>2, <3>3, AttemptTyped DEF Is, Statuses, Claimable, Typed, TypeOK
    <3> QED BY <3>2, <3>3, <3>4, Sets, IsLife, Moves
  <2>2. CASE ~DispatchUnknown(w)
    <3>1. UNCHANGED <<data, marked>>
      BY <1>5, <2>2 DEF PollStep, Scan, NextBucket, Acquire, Load, Unlock, Dequeue, BuryUnknown,
                        Dispatch, DispatchFull, Uncount, PutBack
    <3> QED BY <3>1, Same
  <2> QED BY <2>1, <2>2
<1>6. ASSUME NEW w \in Workers, StopStep(w) \/ Crash(w)
      PROVE  FALSE
  <2>1. halt[w].pc = "idle" /\ Faults = {}
    BY DEF Undisturbed, Typed, HaltOK, NoHalt, OneWorker
  <2> QED BY <1>6, <2>1 DEF StopStep, StopBegin, StopNext, StopLoad, StopEnlist, StopUnlock, StopEnd,
                            HaltAt, Crash
<1>7. ASSUME NEW w \in Workers, NEW l \in Lanes, Heartbeat(w, l)
      PROVE  LifeStep
  <2>1. PICK t : t = TaskOf(w, l)
    OBVIOUS
  <2>2. /\ data \in [Tasks -> Hash] /\ UNCHANGED marked
        /\ data' = [data EXCEPT ![t].form = IF @ = "none" THEN "partial" ELSE @]
    BY <1>7, <2>1 DEF Heartbeat, Typed, TypeOK
  <2>3. \A u \in Tasks : LifeOf(u)' = LifeOf(u) /\ data'[u].attempt = data[u].attempt
    BY <2>2 DEF LifeOf, Hash
  <2> QED BY <2>2, <2>3 DEF LifeStep, Life, Tries
<1>8. ASSUME NEW w \in Workers, NEW t \in Tasks, OverrunEnds(w, t)
      PROVE  LifeStep
  BY <1>8, Same DEF OverrunEnds
<1> QED BY <1>1, <1>2, <1>3, <1>4, <1>5, <1>6, <1>7, <1>8, LifeLane DEF Next

LEMMA LifeInit == Init => Lifecycle!Init
BY DEF Init, NoHash, Lifecycle!Init

LEMMA LifeSeen == LifeStep => [Lifecycle!Next]_(Lifecycle!vars)
BY DEF LifeStep, Lifecycle!vars, Life, Tries, LifeOf

\* One worker that nothing disturbs takes every task through the states of
\* TaskLifecycle: no attempt beyond the last, no return from a final state,
\* and no run for a key whose answer is stored.
THEOREM LifecycleKept ==
    ASSUME OneWorker
    PROVE  Spec => FollowsLifecycle
<1>1. Typed /\ Alone /\ [Next]_vars => [Lifecycle!Next]_(Lifecycle!vars)
  BY LifeNext, LifeSeen
<1> QED BY <1>1, LifeInit, TypedAlways, AloneAlways, PTL DEF Spec, FollowsLifecycle, Lifecycle!Spec

-----------------------------------------------------------------------------
(***************************************************************************)
(* A task that may be tried once is begun once, on any number of workers   *)
(* that crash between any two operations, with handlers that outlive their *)
(* timeouts and clients that cancel.                                       *)
(*                                                                         *)
(* The lock alone does not say so: a worker may hold a list of due tasks   *)
(* that is older than a whole run of one of them, and gets its lock again  *)
(* once that run is over. What helps then is the status, which no longer   *)
(* allows a claim. A lock that lapses under a run, a stop() or a limiter   *)
(* that puts a claimed task back would break this, so the theorems exclude *)
(* them.                                                                   *)
(***************************************************************************)


\* One attempt, no limiter, and neither a stop() nor a lock that lapses under its holder.
SingleShot == MaxAttempts = 1 /\ MaxConcurrency = 0 /\ "lapse" \notin Faults /\ "stop" \notin Faults

Holding == {"locked", "drop", "skip", "take", "taken", "bury", "buried"}
Chosen == {"take", "taken"}
Begun == {"start", "short", "begin", "handler"}

\* Who is at t holds its lock, and the holder is at it once.
Held(t) == \A w \in Workers :
    /\ PollOf(w, t) \in Holding => lock[t] = w
    /\ PollOf(w, t) \notin Off => t \notin poll[w].list
    /\ PollOf(w, t) \in {"taken", "bury", "buried"} => queue[t] = "absent"
    /\ \A l \in Lanes : LaneOf(w, l, t) # "idle" =>
          /\ lock[t] = w /\ queue[t] = "absent" /\ t \notin poll[w].list /\ PollOf(w, t) \in Off
          /\ \A m \in Lanes : LaneOf(w, m, t) # "idle" => l = m

\* A task whose handler outlived its timeout is not begun again.
BegunOnce(t) ==
    /\ \A v, w \in Workers : <<v, t>> \in overrun /\ <<w, t>> \in overrun => v = w
    /\ \A v \in Workers : <<v, t>> \in overrun =>
          /\ data[t].status \notin Claimable
          /\ \A w \in Workers : /\ PollOf(w, t) \notin Chosen
                                /\ \A l \in Lanes : LaneOf(w, l, t) \notin Begun

\* Nobody is at a task whose client has not put it into its queue.
Unknown(t) == sub[t] # "queued" =>
    /\ sub[t] \notin Storing => data[t] = NoHash
    /\ queue[t] = "absent" /\ cancel[t] = "idle"
    /\ \A w \in Workers : /\ PollOf(w, t) \in Off /\ t \notin poll[w].list /\ <<w, t>> \notin overrun
                          /\ \A l \in Lanes : LaneOf(w, l, t) = "idle"

\* No lane loses its lock, owns a slot or puts its task back, and nobody stops.
Plain ==
    /\ \A w \in Workers : /\ mode[w] # "stopped" /\ halt[w] = NoHalt /\ forced[w] = {}
                          /\ poll[w].pc \notin {"over", "yield", "putback"}
    /\ \A w \in Workers, l \in Lanes : /\ ~exec[w][l].slot /\ ~exec[w][l].aborted
                                       /\ exec[w][l].pc \notin {"requeue", "readd"}

Single(t) == Held(t) /\ BegunOnce(t) /\ Unknown(t)

Singly == Plain /\ \A t \in Tasks : Single(t)

-----------------------------------------------------------------------------
(* Steps that begin nothing *)

PollKeeps(t) == \A w \in Workers :
    /\ \/ PollOf(w, t)' \in Off
       \/ /\ PollOf(w, t) \notin Off
          /\ PollOf(w, t)' \in Holding => PollOf(w, t) \in Holding
          /\ PollOf(w, t)' \in Chosen => PollOf(w, t) \in Chosen \/ data[t].status \in Claimable
          /\ PollOf(w, t)' \in {"taken", "bury", "buried"} => queue'[t] = "absent"
          /\ t \in poll'[w].list => t \in poll[w].list
    /\ t \in poll'[w].list => t \in poll[w].list \/ queue[t] # "absent"

LanesKeep(t) == \A w \in Workers, l \in Lanes :
    LaneOf(w, l, t)' # "idle" => /\ LaneOf(w, l, t) # "idle"
                                 /\ LaneOf(w, l, t)' \in Begun => LaneOf(w, l, t) \in Begun

\* The lock changes only when nobody is at t any more.
LockKeeps(t) ==
    \/ lock'[t] = lock[t]
    \/ \A w \in Workers : PollOf(w, t)' \notin Holding /\ \A l \in Lanes : LaneOf(w, l, t)' = "idle"

RecordKeeps(t) ==
    /\ queue[t] = "absent" => queue'[t] = "absent"
    /\ sub'[t] = sub[t]
    /\ cancel'[t] = cancel[t] \/ sub[t] = "queued"
    /\ data'[t].status = data[t].status \/ data'[t].status \notin Claimable
    /\ sub[t] \notin Storing \cup {"queued"} => data'[t] \in {data[t], NoHash}
    /\ \A w \in Workers : <<w, t>> \in overrun' => <<w, t>> \in overrun

LEMMA Keeps ==
    ASSUME NEW t \in Tasks, Single(t), PollKeeps(t), LanesKeep(t), LockKeeps(t), RecordKeeps(t)
    PROVE  Single(t)'
<1>1. Held(t)'
  <2> SUFFICES ASSUME NEW w \in Workers
               PROVE  /\ PollOf(w, t)' \in Holding => lock'[t] = w
                      /\ PollOf(w, t)' \notin Off => t \notin poll'[w].list
                      /\ PollOf(w, t)' \in {"taken", "bury", "buried"} => queue'[t] = "absent"
                      /\ \A l \in Lanes : LaneOf(w, l, t)' # "idle" =>
                            /\ lock'[t] = w /\ queue'[t] = "absent" /\ t \notin poll'[w].list
                            /\ PollOf(w, t)' \in Off
                            /\ \A m \in Lanes : LaneOf(w, m, t)' # "idle" => l = m
    BY DEF Held
  <2>1. PollOf(w, t)' \in Holding => lock'[t] = w
    BY DEF Single, Held, PollKeeps, LockKeeps, Holding, Off
  <2>2. PollOf(w, t)' \notin Off => t \notin poll'[w].list
    BY DEF Single, Held, PollKeeps
  <2>3. PollOf(w, t)' \in {"taken", "bury", "buried"} => queue'[t] = "absent"
    BY DEF PollKeeps, Off
  <2>4. ASSUME NEW l \in Lanes, LaneOf(w, l, t)' # "idle"
        PROVE  /\ lock'[t] = w /\ queue'[t] = "absent" /\ t \notin poll'[w].list
               /\ PollOf(w, t)' \in Off
               /\ \A m \in Lanes : LaneOf(w, m, t)' # "idle" => l = m
    BY <2>4 DEF Single, Held, PollKeeps, LanesKeep, LockKeeps, RecordKeeps
  <2> QED BY <2>1, <2>2, <2>3, <2>4
<1>2. BegunOnce(t)'
  <2>1. \A v, w \in Workers : <<v, t>> \in overrun' /\ <<w, t>> \in overrun' => v = w
    BY DEF Single, BegunOnce, RecordKeeps
  <2>2. ASSUME NEW v \in Workers, <<v, t>> \in overrun'
        PROVE  /\ data'[t].status \notin Claimable
               /\ \A w \in Workers : /\ PollOf(w, t)' \notin Chosen
                                     /\ \A l \in Lanes : LaneOf(w, l, t)' \notin Begun
    <3>1. /\ data[t].status \notin Claimable
          /\ \A w \in Workers : /\ PollOf(w, t) \notin Chosen
                                /\ \A l \in Lanes : LaneOf(w, l, t) \notin Begun
      BY <2>2 DEF Single, BegunOnce, RecordKeeps
    <3>2. "idle" \notin Begun /\ Off \cap Chosen = {}
      BY DEF Begun, Chosen, Off
    <3> QED BY <3>1, <3>2 DEF RecordKeeps, PollKeeps, LanesKeep
  <2> QED BY <2>1, <2>2 DEF BegunOnce
<1>3. Unknown(t)'
  BY DEF Single, Unknown, PollKeeps, LanesKeep, RecordKeeps
<1> QED BY <1>1, <1>2, <1>3 DEF Single

\* What the view lemmas of TaskRunProofs say is enough.
LEMMA StaysKeep ==
    ASSUME NEW t \in Tasks, Single(t), PollStays(t), queue'[t] = queue[t]
    PROVE  PollKeeps(t)
<1> SUFFICES ASSUME NEW w \in Workers
             PROVE  /\ \/ PollOf(w, t)' \in Off
                       \/ /\ PollOf(w, t) \notin Off
                          /\ PollOf(w, t)' \in Holding => PollOf(w, t) \in Holding
                          /\ PollOf(w, t)' \in Chosen => PollOf(w, t) \in Chosen \/ data[t].status \in Claimable
                          /\ PollOf(w, t)' \in {"taken", "bury", "buried"} => queue'[t] = "absent"
                          /\ t \in poll'[w].list => t \in poll[w].list
                    /\ t \in poll'[w].list => t \in poll[w].list \/ queue[t] # "absent"
  BY DEF PollKeeps
<1>1. CASE PollOf(w, t)' \in Off
  BY <1>1 DEF PollStays
<1>2. CASE PollOf(w, t)' \notin Off
  <2>1. PollOf(w, t)' = PollOf(w, t) /\ (t \in poll'[w].list => t \in poll[w].list)
    BY <1>2 DEF PollStays
  <2>2. PollOf(w, t) \in {"taken", "bury", "buried"} => queue'[t] = "absent"
    BY DEF Single, Held
  <2> QED BY <1>2, <2>1, <2>2
<1> QED BY <1>1, <1>2

LEMMA LanesStayKeep ==
    ASSUME NEW t \in Tasks, LanesStay(t)
    PROVE  LanesKeep(t)
<1>1. Begun \subseteq Work
  BY DEF Begun, Work, Waiting, Running
<1> QED BY <1>1 DEF LanesStay, LanesKeep

\* Others than t are left alone.
LEMMA SingleRest ==
    ASSUME NEW t, \A u \in Tasks : Single(u), t \in Tasks => Single(t)',
           \A u \in Tasks : u # t => /\ PollStays(u) /\ LanesStay(u)
                                     /\ queue'[u] = queue[u] /\ lock'[u] = lock[u] /\ sub'[u] = sub[u]
                                     /\ cancel'[u] = cancel[u] /\ data'[u] = data[u]
                                     /\ \A w \in Workers : <<w, u>> \in overrun' => <<w, u>> \in overrun
    PROVE  \A u \in Tasks : Single(u)'
<1> SUFFICES ASSUME NEW u \in Tasks, u # t
             PROVE  Single(u)'
  OBVIOUS
<1>1. PollKeeps(u) /\ LanesKeep(u)
  BY StaysKeep, LanesStayKeep
<1>2. LockKeeps(u) /\ RecordKeeps(u)
  BY DEF LockKeeps, RecordKeeps
<1> QED BY <1>1, <1>2, Keeps

\* What a step leaves alone of the tasks that are not t.
Apart(t) == \A u \in Tasks : u # t =>
    /\ queue'[u] = queue[u] /\ lock'[u] = lock[u] /\ sub'[u] = sub[u]
    /\ cancel'[u] = cancel[u] /\ data'[u] = data[u]
    /\ \A w \in Workers : <<w, u>> \in overrun' => <<w, u>> \in overrun

LEMMA Away == ASSUME UNCHANGED <<queue, lock, sub, cancel, data, overrun>>, NEW t
              PROVE  Apart(t)
BY DEF Apart

LEMMA SingleOthers ==
    ASSUME NEW t, \A u \in Tasks : Single(u), t \in Tasks => Single(t)', Apart(t),
           \A u \in Tasks : u # t => PollStays(u) /\ LanesStay(u)
    PROVE  \A u \in Tasks : Single(u)'
BY SingleRest DEF Apart

\* Who is at a task it has claimed.
LEMMA Claimed ==
    ASSUME NEW t \in Tasks, Single(t), NEW w \in Workers
    PROVE  /\ PollOf(w, t) \notin Off => sub[t] = "queued" /\ \A l \in Lanes : LaneOf(w, l, t) = "idle"
           /\ PollOf(w, t) \notin Off => t \notin poll[w].list
           /\ PollOf(w, t) \in Holding => lock[t] = w
           /\ t \in poll[w].list => sub[t] = "queued" /\ \A l \in Lanes : LaneOf(w, l, t) = "idle"
           /\ \A l \in Lanes : LaneOf(w, l, t) # "idle" =>
                 sub[t] = "queued" /\ lock[t] = w /\ queue[t] = "absent"
BY DEF Single, Held, Unknown

LEMMA HoldingOn == Holding \cap Off = {} /\ Chosen \subseteq Holding /\ "idle" \notin Begun
BY DEF Holding, Off, Chosen, Begun

\* Nobody else is at a task whose lock w holds.
LEMMA Alone1 ==
    ASSUME NEW t \in Tasks, Single(t), NEW w \in Workers, lock[t] = w, NEW v \in Workers, v # w
    PROVE  PollOf(v, t) \notin Holding /\ \A l \in Lanes : LaneOf(v, l, t) = "idle"
BY DEF Single, Held

\* A step of the loop of w, at t.
LEMMA PollKeepsAt ==
    ASSUME NEW w \in Workers, NEW t \in Tasks, Single(t),
           \A v \in Workers : v # w => poll'[v] = poll[v],
           queue[t] = "absent" => queue'[t] = "absent",
           t \in poll'[w].list => t \in poll[w].list \/ queue[t] # "absent",
           \/ PollOf(w, t)' \in Off
           \/ /\ PollOf(w, t) \notin Off
              /\ PollOf(w, t)' \in Holding => PollOf(w, t) \in Holding
              /\ PollOf(w, t)' \in Chosen => PollOf(w, t) \in Chosen \/ data[t].status \in Claimable
              /\ PollOf(w, t)' \in {"taken", "bury", "buried"} => queue'[t] = "absent"
              /\ t \in poll'[w].list => t \in poll[w].list
    PROVE  PollKeeps(t)
<1> SUFFICES ASSUME NEW v \in Workers, v # w
             PROVE  /\ \/ PollOf(v, t)' \in Off
                       \/ /\ PollOf(v, t) \notin Off
                          /\ PollOf(v, t)' \in Holding => PollOf(v, t) \in Holding
                          /\ PollOf(v, t)' \in Chosen => PollOf(v, t) \in Chosen \/ data[t].status \in Claimable
                          /\ PollOf(v, t)' \in {"taken", "bury", "buried"} => queue'[t] = "absent"
                          /\ t \in poll'[v].list => t \in poll[v].list
                    /\ t \in poll'[v].list => t \in poll[v].list \/ queue[t] # "absent"
  BY DEF PollKeeps
<1>1. PollOf(v, t)' = PollOf(v, t) /\ poll'[v].list = poll[v].list
  BY DEF PollOf
<1>2. PollOf(v, t) \in {"taken", "bury", "buried"} => queue'[t] = "absent"
  BY DEF Single, Held
<1> QED BY <1>1, <1>2

LEMMA LanesKeptAll == UNCHANGED exec => \A t \in Tasks : LanesKeep(t)
BY LanesKept, LanesStayKeep

\* The loop gives up the lock of the task it is at.
LEMMA LosesLock ==
    ASSUME NEW w \in Workers, NEW t \in Tasks, Single(t), UNCHANGED exec,
           \A v \in Workers : v # w => poll'[v] = poll[v],
           PollOf(w, t) \in Holding, PollOf(w, t)' \notin Holding
    PROVE  LockKeeps(t)
<1>1. lock[t] = w /\ \A l \in Lanes : LaneOf(w, l, t) = "idle"
  BY Claimed, HoldingOn
<1>2. \A v \in Workers : v # w => PollOf(v, t)' \notin Holding /\ \A l \in Lanes : LaneOf(v, l, t) = "idle"
  BY <1>1, Alone1 DEF PollOf
<1>3. \A v \in Workers, l \in Lanes : LaneOf(v, l, t)' = LaneOf(v, l, t)
  BY Untouched
<1> QED BY <1>1, <1>2, <1>3 DEF LockKeeps

\* updateStatus, of whatever is there.
LEMMA Overwrites ==
    ASSUME Typed, NEW t \in Tasks, NEW old, NEW new, NEW attempt, SetStatus(t, old, new, attempt)
    PROVE  data'[t].status = new /\ \A u \in Tasks : u # t => data'[u] = data[u]
BY DEF Typed, TypeOK, SetStatus, Hash

-----------------------------------------------------------------------------
(* The steps of the poll loop *)

PollPlain(w) == poll'[w].pc \notin {"over", "yield", "putback"}

LEMMA OtherLoops ==
    ASSUME Typed, NEW w \in Workers, PollStep(w)
    PROVE  \A v \in Workers : v # w => poll'[v] = poll[v]
<1> SUFFICES ASSUME NEW v \in Workers, v # w
             PROVE  poll'[v] = poll[v]
  OBVIOUS
<1>1. poll \in [Workers -> Poll]
  BY DEF Typed, TypeOK
<1>2. CASE Unlock(w)
  BY <1>1, <1>2 DEF Unlock
<1>3. CASE Acquire(w)
  BY <1>1, <1>3 DEF Acquire
<1>4. CASE Scan(w) \/ NextBucket(w) \/ Load(w) \/ Dequeue(w)
  BY <1>1, <1>4 DEF Scan, NextBucket, Load, Dequeue, Goto
<1>5. CASE \/ DispatchUnknown(w) \/ BuryUnknown(w) \/ Dispatch(w) \/ DispatchFull(w) \/ Uncount(w)
           \/ PutBack(w)
  BY <1>1, <1>5 DEF DispatchUnknown, BuryUnknown, Dispatch, DispatchFull, Uncount, PutBack, Goto
<1> QED BY <1>2, <1>3, <1>4, <1>5 DEF PollStep

LEMMA OnceScan ==
    ASSUME Typed, NEW w \in Workers, \A u \in Tasks : Single(u), Scan(w) \/ NextBucket(w)
    PROVE  (\A u \in Tasks : Single(u)') /\ PollPlain(w)
<1>1. UNCHANGED <<exec, queue, lock, sub, cancel, data, overrun>>
  BY DEF Scan, NextBucket
<1>2. \A u \in Tasks : PollStays(u) /\ LanesStay(u)
  BY <1>1, ScanMoves, LanesKept
<1>3. PollPlain(w)
  BY ScanMoves DEF PollPlain, Off
<1>4. NoTask \notin Tasks /\ Apart(NoTask)
  BY <1>1, SetsAssumption, Away
<1> QED BY <1>2, <1>3, <1>4, SingleOthers

LEMMA OnceAcquire ==
    ASSUME Typed, NEW w \in Workers, \A u \in Tasks : Single(u), Acquire(w)
    PROVE  (\A u \in Tasks : Single(u)') /\ PollPlain(w)
<1>1. /\ poll \in [Workers -> Poll] /\ poll[w] \in Poll /\ lock \in [Tasks -> Workers \cup {NoWorker}]
      /\ poll[w].pc = "scan" /\ poll[w].pc \in Off
  BY DEF Typed, TypeOK, Acquire, PollAt, Off
<1>2. UNCHANGED <<exec, data, queue, sub, cancel, overrun>>
  BY DEF Acquire
<1>3. PICK t \in poll[w].list :
         \/ /\ lock[t] \in {NoWorker, w}
            /\ lock' = [lock EXCEPT ![t] = w]
            /\ poll' = [poll EXCEPT ![w].pc = "locked", ![w].cur = t, ![w].list = @ \ {t}]
         \/ poll' = [poll EXCEPT ![w].list = @ \ {t}] /\ UNCHANGED lock
  BY DEF Acquire, Obtainable
<1>4. t \in Tasks
  BY <1>1 DEF Poll
<1>5. CASE /\ lock[t] \in {NoWorker, w}
           /\ lock' = [lock EXCEPT ![t] = w]
           /\ poll' = [poll EXCEPT ![w].pc = "locked", ![w].cur = t, ![w].list = @ \ {t}]
  <2> DEFINE next == [poll[w] EXCEPT !.pc = "locked", !.cur = t, !.list = @ \ {t}]
  <2>1. next \in Poll /\ next.pc = "locked" /\ next.cur = t /\ next.list = poll[w].list \ {t}
    BY <1>1, <1>4 DEF Poll, PollPc
  <2>2. poll' = [poll EXCEPT ![w] = next] /\ poll'[w] = next
    BY <1>1, <1>5
  <2> HIDE DEF next
  <2>3. PollOf(w, t)' = "locked" /\ t \notin poll'[w].list
    BY <2>1, <2>2 DEF PollOf
  <2>4. \A v \in Workers : v # w => PollOf(v, t)' = PollOf(v, t) /\ poll'[v].list = poll[v].list
    BY <1>1, <2>2 DEF PollOf
  <2>5. /\ \A v \in Workers : v # w => PollOf(v, t) \notin Holding
        /\ \A v \in Workers, l \in Lanes : LaneOf(v, l, t)' = "idle"
        /\ sub[t] = "queued" /\ lock'[t] = w
    <3>1. \A v \in Workers : v # w => lock[t] # v
      BY <1>5, SetsAssumption
    <3>2. \A v \in Workers : v # w => PollOf(v, t) \notin Holding
      BY <1>4, <3>1, Claimed
    <3>3. \A v \in Workers, l \in Lanes : LaneOf(v, l, t) = "idle"
      BY <1>4, <3>1, Claimed
    <3>4. sub[t] = "queued" /\ lock'[t] = w
      BY <1>1, <1>4, <1>5, Claimed
    <3> QED BY <1>2, <3>2, <3>3, <3>4, Untouched
  <2>6. Held(t)'
    <3>1. \A v \in Workers : v # w => /\ PollOf(v, t)' \notin Holding
                                      /\ PollOf(v, t)' \notin Off => t \notin poll'[v].list
      BY <1>4, <2>4, <2>5, Claimed
    <3> QED BY <2>3, <2>5, <3>1 DEF Held, Holding
  <2>7. BegunOnce(t)'
    <3>1. BegunOnce(t)
      BY <1>4 DEF Single
    <3>2. "locked" \notin Chosen
      BY DEF Chosen
    <3> QED BY <1>2, <2>3, <2>4, <2>5, <3>1, <3>2, HoldingOn DEF BegunOnce
  <2>8. Single(t)'
    BY <1>2, <2>5, <2>6, <2>7 DEF Single, Unknown
  <2>9. Apart(t)
    BY <1>1, <1>2, <1>5 DEF Apart
  <2>10. \A u \in Tasks : u # t => PollStays(u) /\ LanesStay(u)
    BY <1>1, <1>2, <1>4, <2>1, <2>2, PollMoves, LanesKept
  <2>11. PollPlain(w)
    BY <2>1, <2>2 DEF PollPlain
  <2> QED BY <2>8, <2>9, <2>10, <2>11, SingleOthers
<1>6. CASE poll' = [poll EXCEPT ![w].list = @ \ {t}] /\ UNCHANGED lock
  <2> DEFINE next == [poll[w] EXCEPT !.list = @ \ {t}]
  <2>1. next \in Poll /\ next.pc = poll[w].pc /\ next.list = poll[w].list \ {t}
    BY <1>1 DEF Poll
  <2>2. poll' = [poll EXCEPT ![w] = next] /\ poll'[w] = next
    BY <1>1, <1>6
  <2> HIDE DEF next
  <2>3. \A u \in Tasks : PollStays(u) /\ LanesStay(u)
    BY <1>1, <1>2, <2>1, <2>2, OffMoves, LanesKept
  <2>4. PollPlain(w)
    BY <1>1, <2>1, <2>2 DEF PollPlain
  <2>5. NoTask \notin Tasks
    BY SetsAssumption
  <2> QED BY <1>2, <1>6, <2>3, <2>4, <2>5, Away, SingleOthers
<1> QED BY <1>3, <1>5, <1>6

\* A claim is taken only while the status allows it: nobody has begun the task.
LEMMA OnceLoad ==
    ASSUME Typed, NEW w \in Workers, \A u \in Tasks : Single(u), Load(w)
    PROVE  (\A u \in Tasks : Single(u)') /\ PollPlain(w)
<1>0. PICK t : t = poll[w].cur
  OBVIOUS
<1>1. poll \in [Workers -> Poll] /\ poll[w] \in Poll /\ poll[w].pc = "locked" /\ t \in Tasks
  BY <1>0 DEF Typed, TypeOK, PollOK, Load, PollAt
<1>2. UNCHANGED <<exec, data, queue, lock, sub, cancel, overrun>>
  BY DEF Load
<1>3. PICK pc \in {"died", "drop", "take", "skip"}, c \in Claim :
         /\ poll' = [poll EXCEPT ![w].pc = pc, ![w].task = c]
         /\ pc = "take" => data[t].status \in Claimable
  <2> DEFINE claimable == ~ Unreadable(t) /\ data[t].status \in Claimable
             pc == IF Unreadable(t) THEN "died"
                   ELSE IF ~ claimable THEN "drop"
                   ELSE IF t \in Handles[w] THEN "take" ELSE "skip"
             c == IF claimable
                  THEN [id |-> t, status |-> data[t].status, attempt |-> data[t].attempt]
                  ELSE NoClaim
  <2>1. poll' = [poll EXCEPT ![w].pc = pc, ![w].task = c]
    BY <1>0 DEF Load
  <2>2. c \in Claim
    <3>1. data[t].attempt \in Attempts
      BY <1>1, AttemptTyped DEF Typed, TypeOK
    <3>2. NoClaim \in Claim
      BY BoundsAssumption DEF NoClaim, Claim, Claimable, Attempts
    <3> QED BY <1>1, <3>1, <3>2 DEF Claim
  <2>3. pc \in {"died", "drop", "take", "skip"} /\ (pc = "take" => data[t].status \in Claimable)
    OBVIOUS
  <2> HIDE DEF pc, c
  <2> QED BY <2>1, <2>2, <2>3
<1> DEFINE next == [poll[w] EXCEPT !.pc = pc, !.task = c]
<1>4. next \in Poll /\ next.pc = pc /\ next.cur = t /\ next.list = poll[w].list
  <2>1. pc \in PollPc
    BY <1>3 DEF PollPc
  <2>2. \A p \in Poll : LET q == [p EXCEPT !.pc = pc, !.task = c] IN
          q \in Poll /\ q.pc = pc /\ q.cur = p.cur /\ q.list = p.list
    BY <1>3, <2>1 DEF Poll
  <2> QED BY <1>0, <1>1, <2>2
<1>5. poll' = [poll EXCEPT ![w] = next] /\ poll'[w] = next
  BY <1>1, <1>3
<1> HIDE DEF next
<1>6. PollOf(w, t) = "locked" /\ PollOf(w, t)' = pc
  BY <1>0, <1>1, <1>4, <1>5 DEF PollOf
<1>7. Single(t)'
  <2>1. PollKeeps(t)
    <3>1. \A v \in Workers : v # w => poll'[v] = poll[v]
      BY <1>1, <1>5
    <3>2. "locked" \in Holding /\ "locked" \notin Off /\ pc \notin {"taken", "bury", "buried"}
          /\ (pc \in Chosen => data[t].status \in Claimable)
      BY <1>3 DEF Holding, Off, Chosen
    <3>3. poll'[w].list = poll[w].list
      BY <1>4, <1>5
    <3> QED BY <1>1, <1>2, <1>6, <3>1, <3>2, <3>3, PollKeepsAt
  <2>2. LanesKeep(t) /\ LockKeeps(t) /\ RecordKeeps(t)
    BY <1>1, <1>2, LanesKeptAll DEF LockKeeps, RecordKeeps
  <2> QED BY <1>1, <2>1, <2>2, Keeps
<1>8. \A u \in Tasks : u # t => PollStays(u) /\ LanesStay(u)
  BY <1>0, <1>1, <1>2, <1>4, <1>5, PollMoves, LanesKept
<1>9. PollPlain(w)
  BY <1>3, <1>4, <1>5 DEF PollPlain
<1>10. Apart(t)
  BY <1>2, Away
<1> QED BY <1>7, <1>8, <1>9, <1>10, SingleOthers

\* Where the loop releases the lock it is through with the task.
LEMMA OnceUnlock ==
    ASSUME Typed, Plain, NEW w \in Workers, \A u \in Tasks : Single(u), Unlock(w)
    PROVE  (\A u \in Tasks : Single(u)') /\ PollPlain(w)
<1>1. PICK t : t = poll[w].cur
  OBVIOUS
<1>2. poll[w].pc \in {"drop", "skip", "buried"} /\ poll[w].pc \notin Off /\ poll[w].pc \in Holding
  BY DEF Unlock, Plain, Off, Holding
<1>3. PICK pc \in {"unlist", "scan", "idle"} :
         /\ t \in Tasks /\ PollOf(w, t) = poll[w].pc /\ PollOf(w, t)' = pc
         /\ poll'[w].pc = pc /\ poll'[w].list \subseteq poll[w].list
         /\ \A u \in Tasks : u # t => PollStays(u)
  <2>1. CASE poll[w].pc = "drop"
    <3>1. Goto(w, "unlist") /\ "unlist" \in PollPc
      BY <2>1 DEF Unlock, Goto, PollPc
    <3> QED BY <1>1, <1>2, <3>1, GoMoves
  <2>2. CASE poll[w].pc = "skip"
    <3>1. Goto(w, "scan") /\ "scan" \in PollPc
      BY <2>2 DEF Unlock, Goto, PollPc
    <3> QED BY <1>1, <1>2, <3>1, GoMoves
  <2>3. CASE poll[w].pc = "buried"
    <3>1. poll' = [poll EXCEPT ![w] = IdlePoll]
      BY <2>3 DEF Unlock
    <3> QED BY <1>1, <1>2, <3>1, IdleMoves
  <2> QED BY <1>2, <2>1, <2>2, <2>3
<1>4. /\ UNCHANGED <<exec, data, queue, sub, cancel, overrun>>
      /\ \A u \in Tasks : u # t => lock'[u] = lock[u]
  BY <1>1, <1>3 DEF Unlock, Release, Typed, TypeOK
<1>5. \A v \in Workers : v # w => poll'[v] = poll[v]
  BY OtherLoops DEF PollStep
<1>6. Single(t)'
  <2>1. pc \notin Holding /\ pc \notin Chosen /\ pc \notin {"taken", "bury", "buried"}
    BY <1>3 DEF Holding, Chosen
  <2>2. PollKeeps(t)
    BY <1>2, <1>3, <1>4, <1>5, <2>1, PollKeepsAt
  <2>3. LockKeeps(t)
    BY <1>2, <1>3, <1>4, <1>5, <2>1, LosesLock
  <2>4. LanesKeep(t) /\ RecordKeeps(t)
    BY <1>3, <1>4, LanesKeptAll DEF RecordKeeps
  <2> QED BY <1>3, <2>2, <2>3, <2>4, Keeps
<1>7. Apart(t)
  BY <1>4 DEF Apart
<1>8. \A u \in Tasks : u # t => PollStays(u) /\ LanesStay(u)
  BY <1>3, <1>4, LanesKept
<1>9. PollPlain(w)
  BY <1>3 DEF PollPlain
<1> QED BY <1>6, <1>7, <1>8, <1>9, SingleOthers

LEMMA OnceDequeue ==
    ASSUME Typed, NEW w \in Workers, \A u \in Tasks : Single(u), Dequeue(w)
    PROVE  (\A u \in Tasks : Single(u)') /\ PollPlain(w)
<1>1. PICK t : t = poll[w].cur
  OBVIOUS
<1>2. PICK pc : /\ \/ poll[w].pc = "unlist" /\ pc = "scan"
                   \/ poll[w].pc = "take" /\ pc = "taken"
                /\ Goto(w, pc) /\ poll[w].pc \notin Off /\ pc \in PollPc
  BY DEF Dequeue, Off, PollPc
<1>3. /\ t \in Tasks /\ PollOf(w, t) = poll[w].pc /\ PollOf(w, t)' = pc
      /\ poll'[w].pc = pc /\ poll'[w].list = poll[w].list
      /\ \A u \in Tasks : u # t => PollStays(u)
  BY <1>1, <1>2, GoMoves
<1>4. /\ UNCHANGED <<exec, data, lock, sub, cancel, overrun>>
      /\ queue'[t] = "absent" /\ \A u \in Tasks : u # t => queue'[u] = queue[u]
  BY <1>1, <1>3 DEF Dequeue, Unlist, Typed, TypeOK
<1>5. \A v \in Workers : v # w => poll'[v] = poll[v]
  BY OtherLoops DEF PollStep
<1>6. Single(t)'
  <2>1. pc \in Off \/ (poll[w].pc \in Holding /\ poll[w].pc \in Chosen)
    BY <1>2 DEF Holding, Off, Chosen
  <2>2. PollKeeps(t)
    BY <1>2, <1>3, <1>4, <1>5, <2>1, PollKeepsAt
  <2>3. LanesKeep(t) /\ LockKeeps(t) /\ RecordKeeps(t)
    BY <1>3, <1>4, LanesKeptAll DEF LockKeeps, RecordKeeps
  <2> QED BY <1>3, <2>2, <2>3, Keeps
<1>7. Apart(t)
  BY <1>4 DEF Apart
<1>8. \A u \in Tasks : u # t => PollStays(u) /\ LanesStay(u)
  BY <1>3, <1>4, LanesKept
<1>9. PollPlain(w)
  BY <1>2, <1>3 DEF PollPlain
<1> QED BY <1>6, <1>7, <1>8, <1>9, SingleOthers

LEMMA OnceUnknown ==
    ASSUME Typed, NEW w \in Workers, \A u \in Tasks : Single(u),
           DispatchUnknown(w) \/ BuryUnknown(w)
    PROVE  (\A u \in Tasks : Single(u)') /\ PollPlain(w)
<1>1. PICK t : t = poll[w].cur
  OBVIOUS
<1>2. PICK pc : /\ \/ poll[w].pc = "taken" /\ pc = "bury"
                   \/ poll[w].pc = "bury" /\ pc = "buried"
                /\ Goto(w, pc) /\ poll[w].pc \notin Off /\ pc \in PollPc
                /\ UNCHANGED <<exec, queue, lock, sub, cancel, overrun>>
  BY DEF DispatchUnknown, BuryUnknown, PollAt, Off, PollPc
<1>3. /\ t \in Tasks /\ PollOf(w, t) = poll[w].pc /\ PollOf(w, t)' = pc
      /\ poll'[w].pc = pc /\ poll'[w].list = poll[w].list
      /\ \A u \in Tasks : u # t => PollStays(u)
  BY <1>1, <1>2, GoMoves
<1>4. /\ \A u \in Tasks : u # t => data'[u] = data[u]
      /\ data'[t] = data[t] \/ data'[t].status \notin Claimable
  <2>1. CASE DispatchUnknown(w)
    BY <1>1, <1>3, <2>1, Overwrites DEF DispatchUnknown, Claimable
  <2>2. CASE BuryUnknown(w)
    BY <2>2 DEF BuryUnknown
  <2> QED BY <2>1, <2>2
<1>5. \A v \in Workers : v # w => poll'[v] = poll[v]
  BY OtherLoops DEF PollStep
<1>6. Single(t)'
  <2>1. poll[w].pc \in Holding /\ pc \notin Chosen
    BY <1>2 DEF Holding, Chosen
  <2>2. sub[t] = "queued" /\ queue[t] = "absent"
    BY <1>2, <1>3, Claimed DEF Single, Held
  <2>3. PollKeeps(t)
    BY <1>2, <1>3, <1>5, <2>1, <2>2, PollKeepsAt
  <2>4. LanesKeep(t) /\ LockKeeps(t) /\ RecordKeeps(t)
    BY <1>2, <1>3, <1>4, <2>2, LanesKeptAll DEF LockKeeps, RecordKeeps
  <2> QED BY <1>3, <2>3, <2>4, Keeps
<1>7. Apart(t)
  BY <1>2, <1>4 DEF Apart
<1>8. \A u \in Tasks : u # t => PollStays(u) /\ LanesStay(u)
  BY <1>2, <1>3, LanesKept
<1>9. PollPlain(w)
  BY <1>2, <1>3 DEF PollPlain
<1> QED BY <1>6, <1>7, <1>8, <1>9, SingleOthers

\* The claim passes from the loop to a lane; no other lane has the task.
LEMMA OnceDispatch ==
    ASSUME Typed, NEW w \in Workers, \A u \in Tasks : Single(u), Dispatch(w)
    PROVE  (\A u \in Tasks : Single(u)') /\ PollPlain(w)
<1>1. PICK t : t = poll[w].cur
  OBVIOUS
<1>2. /\ poll[w].pc = "taken" /\ poll[w].pc \notin Off /\ poll[w].pc \in Holding /\ poll[w].pc \in Chosen
      /\ poll' = [poll EXCEPT ![w] = IdlePoll]
      /\ UNCHANGED <<data, queue, lock, sub, cancel, overrun>>
  BY DEF Dispatch, PollAt, Off, Holding, Chosen
<1>3. /\ t \in Tasks /\ PollOf(w, t) = poll[w].pc /\ PollOf(w, t)' = "idle"
      /\ poll'[w].pc = "idle" /\ poll'[w].list = {}
      /\ \A u \in Tasks : u # t => PollStays(u)
  BY <1>1, <1>2, IdleMoves
<1>4. /\ \A l \in Lanes : LaneOf(w, l, t) = "idle"
      /\ sub[t] = "queued" /\ queue[t] = "absent" /\ lock[t] = w
  BY <1>2, <1>3, Claimed DEF Single, Held
<1>5. PICK l \in Lanes, x \in Exec :
         /\ exec[w][l].pc = "idle" /\ exec' = [exec EXCEPT ![w][l] = x]
         /\ x.pc = "start" /\ x.task.id = t
  <2>1. PICK l \in Lanes :
          /\ exec[w][l].pc = "idle"
          /\ exec' = [exec EXCEPT ![w][l] =
                 [pc |-> "start", task |-> poll[w].task, slot |-> (MaxConcurrency > 0), aborted |-> FALSE]]
    BY DEF Dispatch
  <2> DEFINE x == [pc |-> "start", task |-> poll[w].task, slot |-> (MaxConcurrency > 0), aborted |-> FALSE]
  <2>2. poll[w].task \in Claim /\ poll[w].task.id = t
    BY <1>1, <1>2 DEF Typed, TypeOK, PollOK, Poll
  <2>3. x \in Exec /\ x.pc = "start" /\ x.task = poll[w].task
    BY <2>2 DEF Exec, ExecPc
  <2> HIDE DEF x
  <2> QED BY <2>1, <2>2, <2>3 DEF x
<1>6. /\ exec'[w][l] = x
      /\ \A v \in Workers, m \in Lanes : ~(v = w /\ m = l) => exec'[v][m] = exec[v][m]
  BY <1>5 DEF Typed, TypeOK
<1>7. /\ LaneOf(w, l, t)' = "start"
      /\ \A v \in Workers, m \in Lanes : ~(v = w /\ m = l) => LaneOf(v, m, t)' = LaneOf(v, m, t)
  BY <1>5, <1>6 DEF LaneOf, TaskOf
<1>8. /\ \A v \in Workers : v # w => poll'[v] = poll[v] /\ PollOf(v, t)' = PollOf(v, t)
      /\ \A v \in Workers : v # w => PollOf(v, t) \notin Holding /\ \A m \in Lanes : LaneOf(v, m, t) = "idle"
  BY <1>3, <1>4, OtherLoops, Alone1 DEF PollStep, PollOf
<1>9. Single(t)'
  <2>1. "idle" \notin Holding /\ "idle" \in Off /\ "idle" \notin Chosen
    BY DEF Holding, Off, Chosen
  <2>2. \A m \in Lanes : m # l => LaneOf(w, m, t)' = "idle"
    BY <1>4, <1>7
  <2>3. \A v \in Workers : v # w => /\ PollOf(v, t)' \notin Holding
                                    /\ PollOf(v, t)' \notin Off => t \notin poll'[v].list
                                    /\ \A m \in Lanes : LaneOf(v, m, t)' = "idle"
    BY <1>3, <1>7, <1>8, Claimed
  <2>4. Held(t)'
    BY <1>2, <1>3, <1>4, <2>1, <2>2, <2>3 DEF Held, Holding
  <2>5. BegunOnce(t)'
    <3>1. \A v \in Workers : <<v, t>> \notin overrun
      BY <1>2, <1>3 DEF Single, BegunOnce
    <3> QED BY <1>2, <3>1 DEF BegunOnce
  <2>6. Unknown(t)'
    BY <1>2, <1>4 DEF Unknown
  <2> QED BY <2>4, <2>5, <2>6 DEF Single
<1>10. Apart(t)
  BY <1>2, Away
<1>11. \A u \in Tasks : u # t => PollStays(u) /\ LanesStay(u)
  <2>1. exec[w][l].pc \notin Work
    BY <1>5 DEF Work, Waiting, Running
  <2> QED BY <1>3, <1>5, <2>1, LaneTurns
<1>12. PollPlain(w)
  BY <1>3 DEF PollPlain
<1> QED BY <1>9, <1>10, <1>11, <1>12, SingleOthers

LEMMA OncePoll ==
    ASSUME SingleShot, Typed, Plain, NEW w \in Workers, \A u \in Tasks : Single(u), PollStep(w)
    PROVE  (\A u \in Tasks : Single(u)') /\ PollPlain(w)
<1>1. ~DispatchFull(w) /\ ~Uncount(w) /\ ~PutBack(w)
  BY DEF SingleShot, Plain, DispatchFull, Uncount, PutBack, PollAt
<1> QED BY <1>1, OnceScan, OnceAcquire, OnceLoad, OnceUnlock, OnceDequeue, OnceUnknown, OnceDispatch
        DEF PollStep

-----------------------------------------------------------------------------
(* Clients, time and crashes *)

\* A task that nobody knows yet is submitted, step by step.
LEMMA Submitted ==
    ASSUME NEW t \in Tasks, Single(t), sub[t] # "queued", UNCHANGED <<poll, exec, lock, cancel, overrun>>,
           sub'[t] # "queued" => queue'[t] = "absent",
           sub'[t] \notin Storing \cup {"queued"} => data'[t] = NoHash
    PROVE  Single(t)'
<1>1. /\ \A w \in Workers : PollOf(w, t)' = PollOf(w, t)
      /\ \A w \in Workers, l \in Lanes : LaneOf(w, l, t)' = LaneOf(w, l, t)
  BY Untouched DEF PollOf
<1>2. /\ cancel[t] = "idle"
      /\ \A w \in Workers : /\ PollOf(w, t) \in Off /\ t \notin poll[w].list /\ <<w, t>> \notin overrun
                            /\ \A l \in Lanes : LaneOf(w, l, t) = "idle"
  BY DEF Single, Unknown
<1>3. Held(t)'
  BY <1>1, <1>2, HoldingOn DEF Held, Off
<1>4. BegunOnce(t)'
  BY <1>2 DEF BegunOnce
<1>5. Unknown(t)'
  BY <1>1, <1>2 DEF Unknown
<1> QED BY <1>3, <1>4, <1>5 DEF Single

LEMMA PollKeptAll == UNCHANGED <<poll, queue>> => \A t \in Tasks : Single(t) => PollKeeps(t)
BY PollKept, StaysKeep

\* The loops and lanes stay where they are, and nobody begins anything.
LEMMA LocalKeeps ==
    ASSUME NEW t \in Tasks, UNCHANGED <<poll, exec>>, Single(t), queue[t] = "absent" => queue'[t] = "absent"
    PROVE  PollKeeps(t) /\ LanesKeep(t)
<1>1. \A w \in Workers : PollOf(w, t)' = PollOf(w, t)
  BY DEF PollOf
<1>2. \A w \in Workers : PollOf(w, t) \in {"taken", "bury", "buried"} => queue'[t] = "absent"
  BY DEF Single, Held
<1> QED BY <1>1, <1>2, LanesKeptAll DEF PollKeeps

LEMMA OnceClient ==
    ASSUME Typed, NEW t \in Tasks, \A u \in Tasks : Single(u), ClientStep(t)
    PROVE  \A u \in Tasks : Single(u)'
<1> USE DEF Typed, TypeOK
<1>1. UNCHANGED <<poll, exec, lock, overrun>>
  BY DEF ClientStep, EnqueueCheck, EnqueueStore, EnqueueIndex, EnqueueKey, EnqueueAdd,
         CancelCheck, CancelUnlist, CancelDelete
<1>2. ASSUME NEW u \in Tasks
      PROVE  PollStays(u) /\ LanesStay(u)
  BY <1>1, PollKept, LanesKept
<1>3. Apart(t)
  <2>1. CASE EnqueueCheck(t)
    BY <2>1 DEF EnqueueCheck, Apart
  <2>2. CASE EnqueueStore(t)
    BY <2>2 DEF EnqueueStore, Apart
  <2>3. CASE EnqueueAdd(t)
    BY <2>3 DEF EnqueueAdd, Enlist, Apart
  <2>7. CASE EnqueueIndex(t) \/ EnqueueKey(t)
    BY <2>7 DEF EnqueueIndex, EnqueueKey, Apart
  <2>4. CASE CancelCheck(t)
    BY <2>4 DEF CancelCheck, Apart
  <2>5. CASE CancelUnlist(t)
    BY <2>5 DEF CancelUnlist, Unlist, Apart
  <2>6. CASE CancelDelete(t)
    BY <2>6 DEF CancelDelete, Delete, Apart
  <2> QED BY <2>1, <2>2, <2>3, <2>4, <2>5, <2>6, <2>7 DEF ClientStep
<1>4. Single(t)'
  <2>1. CASE EnqueueCheck(t)
    <3>1. /\ sub[t] = "new" /\ sub'[t] \notin Storing \cup {"queued"} /\ UNCHANGED <<data, queue, cancel>>
      BY <2>1 DEF EnqueueCheck
    <3>2. data[t] = NoHash /\ queue[t] = "absent"
      BY <3>1 DEF Single, Unknown
    <3> QED BY <1>1, <3>1, <3>2, Submitted
  <2>2. CASE EnqueueStore(t)
    <3>1. sub[t] \in {"new", "checked"} /\ sub'[t] = "hashed" /\ UNCHANGED <<queue, cancel>>
      BY <2>2 DEF EnqueueStore
    <3>2. queue[t] = "absent"
      BY <3>1 DEF Single, Unknown
    <3> QED BY <1>1, <3>1, <3>2, Submitted
  <2>3. CASE EnqueueAdd(t)
    <3>1. sub[t] = "stored" /\ sub'[t] = "queued" /\ UNCHANGED cancel
      BY <2>3 DEF EnqueueAdd
    <3> QED BY <1>1, <3>1, Submitted
  <2>5. CASE EnqueueIndex(t) \/ EnqueueKey(t)
    <3>1. sub[t] \in Storing /\ sub'[t] \in Storing /\ UNCHANGED <<data, queue, cancel>>
      BY <2>5 DEF EnqueueIndex, EnqueueKey
    <3>2. queue[t] = "absent"
      BY <3>1 DEF Single, Unknown
    <3> QED BY <1>1, <3>1, <3>2, Submitted
  <2>4. CASE CancelCheck(t) \/ CancelUnlist(t) \/ CancelDelete(t)
    <3>1. cancel[t] # "idle" \/ sub[t] = "queued"
      BY <2>4 DEF CancelCheck, CancelUnlist, CancelDelete
    <3>2. sub[t] = "queued"
      BY <3>1 DEF Single, Unknown
    <3>3. /\ UNCHANGED sub
          /\ queue[t] = "absent" => queue'[t] = "absent"
          /\ data'[t] = data[t] \/ data'[t] = NoHash
      BY <2>4 DEF CancelCheck, CancelUnlist, CancelDelete, Unlist, Delete
    <3>4. NoHash.status \notin Claimable
      BY DEF NoHash, Claimable
    <3>5. LockKeeps(t) /\ RecordKeeps(t)
      BY <1>1, <3>2, <3>3, <3>4 DEF LockKeeps, RecordKeeps
    <3> QED BY <1>1, <3>3, <3>5, LocalKeeps, Keeps
  <2> QED BY <2>1, <2>2, <2>3, <2>4, <2>5 DEF ClientStep
<1> QED BY <1>2, <1>3, <1>4, SingleOthers

LEMMA OnceTime ==
    ASSUME SingleShot, Typed, NEW t \in Tasks, \A u \in Tasks : Single(u),
           Tick(t) \/ Lapse(t) \/ ExpireResult(t)
    PROVE  \A u \in Tasks : Single(u)'
<1> USE DEF Typed, TypeOK
<1>1. UNCHANGED <<poll, exec, sub, cancel, overrun>>
  BY DEF Tick, Lapse, ExpireResult
<1>2. ASSUME NEW u \in Tasks
      PROVE  PollStays(u) /\ LanesStay(u)
  BY <1>1, PollKept, LanesKept
<1>3. Apart(t)
  <2>1. CASE Tick(t)
    BY <2>1 DEF Tick, Enlist, Apart
  <2>2. CASE Lapse(t)
    BY <2>2 DEF Lapse, Apart
  <2>3. CASE ExpireResult(t)
    BY <2>3 DEF ExpireResult, Delete, Apart
  <2> QED BY <2>1, <2>2, <2>3
<1>4. queue[t] = "absent" => queue'[t] = "absent"
  BY DEF Tick, Lapse, ExpireResult
<1>5. RecordKeeps(t)
  <2>1. data'[t] = data[t] \/ data'[t] = NoHash
    BY DEF Tick, Lapse, ExpireResult, Delete
  <2>2. NoHash.status \notin Claimable
    BY DEF NoHash, Claimable
  <2> QED BY <1>1, <1>4, <2>1, <2>2 DEF RecordKeeps
<1>6. LockKeeps(t)
  <2>1. CASE Tick(t) \/ ExpireResult(t)
    BY <2>1 DEF Tick, ExpireResult, LockKeeps
  <2>2. CASE Lapse(t)
    <3>1. PICK w \in Workers : lock[t] = w /\ ~Engaged(w, t)
      BY <2>2 DEF Lapse, SingleShot
    <3>2. PollOf(w, t) \notin Holding /\ \A l \in Lanes : LaneOf(w, l, t) = "idle"
      BY <3>1 DEF Engaged, PollOf, LaneOf, Holding
    <3>3. \A v \in Workers : PollOf(v, t) \notin Holding /\ \A l \in Lanes : LaneOf(v, l, t) = "idle"
      BY <3>1, <3>2, Alone1
    <3>4. /\ \A v \in Workers : PollOf(v, t)' = PollOf(v, t)
          /\ \A v \in Workers, l \in Lanes : LaneOf(v, l, t)' = LaneOf(v, l, t)
      BY <1>1, Untouched DEF PollOf
    <3> QED BY <3>3, <3>4 DEF LockKeeps
  <2> QED BY <2>1, <2>2
<1>7. Single(t)'
  BY <1>1, <1>4, <1>5, <1>6, LocalKeeps, Keeps
<1> QED BY <1>2, <1>3, <1>7, SingleOthers

\* A crash takes the routines of one worker away; the locks stay.
LEMMA OnceCrash ==
    ASSUME Typed, NEW w \in Workers, \A u \in Tasks : Single(u), Crash(w)
    PROVE  (\A u \in Tasks : Single(u)') /\ \A v \in Workers : poll'[v] = poll[v] \/ poll'[v] = IdlePoll
<1>1. /\ poll \in [Workers -> Poll] /\ exec \in [Workers -> [Lanes -> Exec]]
      /\ poll' = [poll EXCEPT ![w] = IdlePoll]
      /\ exec' = [exec EXCEPT ![w] = [l \in Lanes |-> NoExec]]
      /\ UNCHANGED <<data, queue, lock, sub, cancel>> /\ overrun' \subseteq overrun
  BY DEF Typed, TypeOK, Crash
<1>2. /\ poll'[w].pc = "idle" /\ poll'[w].list = {}
      /\ \A v \in Workers : v # w => poll'[v] = poll[v]
      /\ \A l \in Lanes : exec'[w][l].pc = "idle"
      /\ \A v \in Workers, l \in Lanes : v # w => exec'[v][l] = exec[v][l]
  BY <1>1, NoExecTyped DEF IdlePoll
<1>3. ASSUME NEW u \in Tasks
      PROVE  Single(u)'
  <2>1. /\ PollOf(w, u)' \in Off
        /\ \A v \in Workers : v # w => PollOf(v, u)' = PollOf(v, u)
    BY <1>2 DEF PollOf, Off
  <2>2. \A v \in Workers, l \in Lanes : LaneOf(v, l, u)' = "idle" \/ LaneOf(v, l, u)' = LaneOf(v, l, u)
    BY <1>2 DEF LaneOf, TaskOf
  <2>3. PollKeeps(u)
    BY <1>1, <1>2, <2>1, PollKeepsAt
  <2>4. LanesKeep(u)
    BY <2>2 DEF LanesKeep
  <2>5. LockKeeps(u) /\ RecordKeeps(u)
    BY <1>1 DEF LockKeeps, RecordKeeps
  <2> QED BY <2>3, <2>4, <2>5, Keeps
<1> QED BY <1>1, <1>3

-----------------------------------------------------------------------------
(* The lanes *)

LEMMA LaneHas ==
    ASSUME Typed, NEW w \in Workers, NEW l \in Lanes, NEW t, t = TaskOf(w, l), exec[w][l].pc # "idle",
           \A u \in Tasks : Single(u)
    PROVE  /\ t \in Tasks /\ LaneOf(w, l, t) = exec[w][l].pc
           /\ sub[t] = "queued" /\ lock[t] = w /\ queue[t] = "absent" /\ PollOf(w, t) \in Off
           /\ \A m \in Lanes : m # l => LaneOf(w, m, t) = "idle"
<1>1. t \in Tasks /\ LaneOf(w, l, t) = exec[w][l].pc
  BY DEF Typed, TypeOK, ExecOK, TaskOf, LaneOf
<1>2. Single(t)
  BY <1>1
<1> QED BY <1>1, <1>2, Claimed DEF Single, Held

\* A lane goes on; the task's status becomes one that allows no claim, if it changes.
LEMMA OnceStep ==
    ASSUME Typed, NEW w \in Workers, NEW l \in Lanes, NEW t, t = TaskOf(w, l), exec[w][l].pc # "idle",
           \A u \in Tasks : Single(u), NEW pc, Step(w, l, pc),
           pc \in Begun => exec[w][l].pc \in Begun,
           UNCHANGED <<poll, queue, lock, sub, cancel, overrun>>,
           \A u \in Tasks : u # t => data'[u] = data[u],
           t \in Tasks => data'[t].status = data[t].status \/ data'[t].status \notin Claimable
    PROVE  \A u \in Tasks : Single(u)'
<1>1. t \in Tasks /\ LaneOf(w, l, t) = exec[w][l].pc /\ sub[t] = "queued" /\ Single(t)
  BY LaneHas
<1>2. /\ LaneOf(w, l, t)' = pc
      /\ \A v \in Workers, m \in Lanes : ~(v = w /\ m = l) => LaneOf(v, m, t)' = LaneOf(v, m, t)
      /\ \A u \in Tasks : u # t => LanesStay(u)
  BY <1>1, LaneMoves
<1>3. LanesKeep(t)
  BY <1>1, <1>2 DEF LanesKeep
<1>4. PollKeeps(t) /\ LockKeeps(t) /\ RecordKeeps(t)
  BY <1>1, PollKeptAll DEF LockKeeps, RecordKeeps
<1>5. Single(t)'
  BY <1>1, <1>3, <1>4, Keeps
<1>6. \A u \in Tasks : u # t => PollStays(u) /\ LanesStay(u)
  BY <1>2, PollKept
<1>7. Apart(t)
  BY DEF Apart
<1> QED BY <1>5, <1>6, <1>7, SingleOthers

\* The handler is given up and goes on: its task is buried and the lane begins no other.
LEMMA OnceAbandons ==
    ASSUME Typed, NEW w \in Workers, NEW l \in Lanes, NEW t, t = TaskOf(w, l), exec[w][l].pc = "handler",
           \A u \in Tasks : Single(u), Step(w, l, "bury"),
           UNCHANGED <<poll, queue, lock, sub, cancel>>, overrun' = overrun \cup {<<w, t>>},
           \A u \in Tasks : u # t => data'[u] = data[u],
           t \in Tasks => data'[t].status \notin Claimable
    PROVE  \A u \in Tasks : Single(u)'
<1>1. /\ t \in Tasks /\ LaneOf(w, l, t) = "handler" /\ sub[t] = "queued" /\ Single(t)
      /\ lock[t] = w /\ PollOf(w, t) \in Off
      /\ \A m \in Lanes : m # l => LaneOf(w, m, t) = "idle"
  BY LaneHas
<1>2. /\ LaneOf(w, l, t)' = "bury"
      /\ \A v \in Workers, m \in Lanes : ~(v = w /\ m = l) => LaneOf(v, m, t)' = LaneOf(v, m, t)
      /\ \A u \in Tasks : u # t => LanesStay(u)
  BY <1>1, LaneMoves
<1>3. \A v \in Workers : PollOf(v, t)' = PollOf(v, t)
  BY DEF PollOf
<1>4. \A v \in Workers : <<v, t>> \notin overrun
  <2>1. "handler" \in Begun
    BY DEF Begun
  <2> QED BY <1>1, <2>1 DEF Single, BegunOnce
<1>5. \A v \in Workers : /\ PollOf(v, t) \notin Chosen
                         /\ v # w => \A m \in Lanes : LaneOf(v, m, t) = "idle"
  <2>1. Off \cap Chosen = {}
    BY DEF Off, Chosen
  <2> QED BY <1>1, <2>1, Alone1, HoldingOn
<1>6. Held(t)'
  BY <1>1, <1>2, <1>3 DEF Single, Held
<1>7. BegunOnce(t)'
  <2>1. \A v \in Workers, m \in Lanes : LaneOf(v, m, t)' \notin Begun
    <3>1. "idle" \notin Begun /\ "bury" \notin Begun
      BY DEF Begun
    <3> QED BY <1>1, <1>2, <1>5, <3>1
  <2>2. \A v \in Workers : <<v, t>> \in overrun' => v = w
    BY <1>4
  <2> QED BY <1>1, <1>3, <1>5, <2>1, <2>2 DEF BegunOnce
<1>8. Unknown(t)'
  BY <1>1 DEF Unknown
<1>9. Single(t)'
  BY <1>6, <1>7, <1>8 DEF Single
<1>10. \A u \in Tasks : u # t => PollStays(u) /\ LanesStay(u)
  BY <1>2, PollKept
<1>11. Apart(t)
  BY DEF Apart
<1> QED BY <1>9, <1>10, <1>11, SingleOthers

\* A lane that is through releases the lock: nobody else is at the task.
LEMMA OnceFinally ==
    ASSUME Typed, Plain, NEW w \in Workers, NEW l \in Lanes, \A u \in Tasks : Single(u),
           Finally(w, l) \/ FinallyUnlock(w, l)
    PROVE  \A u \in Tasks : Single(u)'
<1>1. PICK t : t = TaskOf(w, l)
  OBVIOUS
<1>2. /\ exec[w][l].pc \in {"done", "unlock"} /\ exec' = [exec EXCEPT ![w][l] = NoExec] /\ Release(w, t)
      /\ UNCHANGED <<poll, data, queue, sub, cancel, overrun>>
  BY <1>1 DEF Finally, FinallyUnlock, ExecAt, Plain
<1>3. /\ t \in Tasks /\ Single(t) /\ lock[t] = w /\ PollOf(w, t) \in Off
      /\ \A m \in Lanes : m # l => LaneOf(w, m, t) = "idle"
  BY <1>1, <1>2, LaneHas
<1>4. /\ exec'[w][l].pc = "idle"
      /\ \A v \in Workers, m \in Lanes : ~(v = w /\ m = l) => exec'[v][m] = exec[v][m]
  BY <1>2, NoExecTyped DEF Typed, TypeOK
<1>5. /\ \A u : LaneOf(w, l, u)' = "idle"
      /\ \A v \in Workers, m \in Lanes, u \in Tasks :
            ~(v = w /\ m = l) => LaneOf(v, m, u)' = LaneOf(v, m, u)
  BY <1>4 DEF LaneOf, TaskOf
<1>6. LanesKeep(t)
  BY <1>3, <1>5 DEF LanesKeep
<1>7. LockKeeps(t)
  <2>1. \A v \in Workers : PollOf(v, t)' = PollOf(v, t)
    BY <1>2 DEF PollOf
  <2>2. \A v \in Workers : v # w => PollOf(v, t) \notin Holding /\ \A m \in Lanes : LaneOf(v, m, t) = "idle"
    BY <1>3, Alone1
  <2>3. PollOf(w, t) \notin Holding
    BY <1>3, HoldingOn
  <2> QED BY <1>3, <1>5, <2>1, <2>2, <2>3 DEF LockKeeps
<1>8. PollKeeps(t) /\ RecordKeeps(t)
  BY <1>2, <1>3, PollKeptAll DEF RecordKeeps
<1>9. Single(t)'
  BY <1>3, <1>6, <1>7, <1>8, Keeps
<1>10. \A u \in Tasks : u # t => PollStays(u) /\ LanesStay(u)
  <2>1. exec[w][l].pc \notin Work
    BY <1>2 DEF Work, Waiting, Running
  <2> QED BY <1>2, <2>1, PollKept, NoExecTyped, LaneTurns
<1>11. Apart(t)
  BY <1>2, <1>3 DEF Apart, Release, Typed, TypeOK
<1> QED BY <1>9, <1>10, <1>11, SingleOthers

\* With one attempt a run that fails is buried: its worker still has the lock.
LEMMA Buries ==
    ASSUME SingleShot, Typed, Plain, NEW w \in Workers, NEW l \in Lanes, NEW t, t = TaskOf(w, l),
           HandlerThrows(w, l)
    PROVE  Step(w, l, "bury") /\ SetStatus(t, exec[w][l].task.status, "dead", data[t].attempt)
<1>1. forced[w] = {} /\ ~exec[w][l].aborted
  BY DEF Plain
<1>2. PICK retryable \in BOOLEAN : Retry(w, l, retryable)
  BY <1>1 DEF HandlerThrows
<1>3. exec[w][l].task.attempt \in Nat /\ exec[w][l].task.id = t
  BY BoundsAssumption DEF Typed, TypeOK, Exec, Claim, Attempts, TaskOf
<1>4. ~ShouldRetry(exec[w][l].task.attempt + 1)
  BY <1>3 DEF ShouldRetry, SingleShot
<1> QED BY <1>2, <1>3, <1>4 DEF Retry

LEMMA OnceExec ==
    ASSUME SingleShot, Typed, Plain, NEW w \in Workers, NEW l \in Lanes, \A u \in Tasks : Single(u),
           ExecStep(w, l)
    PROVE  \A u \in Tasks : Single(u)'
<1>1. PICK t : t = TaskOf(w, l)
  OBVIOUS
<1>2. CASE Finally(w, l) \/ FinallyUnlock(w, l)
  BY <1>2, OnceFinally
<1>3. CASE Requeue(w, l)
  BY <1>3 DEF Requeue, ExecAt, Plain
<1>4. exec[w][l].pc # "idle" => t \in Tasks
  BY <1>1, LaneHas
<1>5. {"running", "completed", "dead"} \cap Claimable = {}
  BY DEF Claimable
<1>6. CASE Start(w, l)
  <2>1. PICK pc \in {"short", "begin"} : Step(w, l, pc)
    BY <1>6 DEF Start
  <2>2. exec[w][l].pc # "idle" /\ exec[w][l].pc \in Begun
        /\ UNCHANGED <<poll, queue, lock, sub, cancel, overrun, data>>
    BY <1>6 DEF Start, ExecAt, Begun
  <2> QED BY <1>1, <2>1, <2>2, OnceStep
<1>7. CASE Short(w, l) \/ Begin(w, l) \/ Settle(w, l)
  <2>1. PICK pc, old, new, attempt :
           new \in {"running", "completed"} /\ Step(w, l, pc) /\ SetStatus(t, old, new, attempt) /\ (pc \in Begun => exec[w][l].pc \in Begun)
    <3>1. CASE Short(w, l)
      <4>1. /\ Step(w, l, "done") /\ SetStatus(t, exec[w][l].task.status, "completed", data[t].attempt)
            /\ "done" \in Begun => exec[w][l].pc \in Begun
        BY <1>1, <3>1 DEF Short, Begun, ExecAt
      <4> QED BY <4>1
    <3>2. CASE Begin(w, l)
      <4>1. /\ Step(w, l, "handler") /\ SetStatus(t, exec[w][l].task.status, "running", data[t].attempt)
            /\ "handler" \in Begun => exec[w][l].pc \in Begun
        BY <1>1, <3>2 DEF Begin, Begun, ExecAt
      <4> QED BY <4>1
    <3>3. CASE Settle(w, l)
      <4>1. /\ Step(w, l, "done") /\ SetStatus(t, "running", "completed", data[t].attempt)
            /\ "done" \in Begun => exec[w][l].pc \in Begun
        BY <1>1, <3>3 DEF Settle, Begun, ExecAt
      <4> QED BY <4>1
    <3> QED BY <1>7, <3>1, <3>2, <3>3
  <2>2. exec[w][l].pc # "idle" /\ UNCHANGED <<poll, queue, lock, sub, cancel, overrun>>
    BY <1>7 DEF Short, Begin, Settle, ExecAt
  <2>3. data'[t].status \notin Claimable /\ \A u \in Tasks : u # t => data'[u] = data[u]
    BY <1>4, <1>5, <2>1, <2>2, Overwrites
  <2> QED BY <1>1, <2>1, <2>2, <2>3, OnceStep
<1>8. CASE HandlerReturns(w, l)
  <2>1. exec[w][l].pc # "idle" /\ UNCHANGED <<poll, queue, lock, sub, cancel, overrun>>
    BY <1>8 DEF HandlerReturns, ExecAt
  <2>2. PICK pc \in {"done", "settle"} : Step(w, l, pc)
    BY <1>8 DEF HandlerReturns
  <2>3. pc \notin Begun
    BY DEF Begun
  <2>4. UNCHANGED data \/ SetStatus(t, "running", "completed", data[t].attempt)
    BY <1>1, <1>8 DEF HandlerReturns
  <2>5. /\ \A u \in Tasks : u # t => data'[u] = data[u]
        /\ data'[t].status = data[t].status \/ data'[t].status \notin Claimable
    BY <1>4, <1>5, <2>1, <2>4, Overwrites
  <2> QED BY <1>1, <2>1, <2>2, <2>3, <2>5, OnceStep
<1>9. CASE HandlerThrows(w, l)
  <2>1. /\ exec[w][l].pc = "handler" /\ exec[w][l].pc # "idle" /\ t \in Tasks
        /\ UNCHANGED <<poll, queue, lock, sub, cancel>>
    BY <1>4, <1>9 DEF HandlerThrows, ExecAt
  <2>2. Step(w, l, "bury") /\ SetStatus(t, exec[w][l].task.status, "dead", data[t].attempt)
    BY <1>1, <1>9, Buries
  <2>3. data'[t].status \notin Claimable /\ \A u \in Tasks : u # t => data'[u] = data[u]
    BY <1>5, <2>1, <2>2, Overwrites
  <2>4. "bury" \notin Begun
    BY DEF Begun
  <2>5. CASE UNCHANGED overrun
    BY <1>1, <2>1, <2>2, <2>3, <2>4, <2>5, OnceStep
  <2>6. CASE overrun' = overrun \cup {<<w, t>>}
    BY <1>1, <2>1, <2>2, <2>3, <2>6, OnceAbandons
  <2> QED BY <1>1, <1>9, <2>5, <2>6 DEF HandlerThrows
<1>10. CASE Bury(w, l)
  <2>1. exec[w][l].pc # "idle" /\ UNCHANGED <<poll, queue, lock, sub, cancel, overrun, data>> /\ Step(w, l, "done")
    BY <1>10 DEF Bury, ExecAt
  <2>2. "done" \notin Begun
    BY DEF Begun
  <2> QED BY <1>1, <2>1, <2>2, OnceStep
<1> QED BY <1>2, <1>3, <1>6, <1>7, <1>8, <1>9, <1>10 DEF ExecStep

\* The callback finds the lock where it should be.
LEMMA OnceHeartbeat ==
    ASSUME Typed, Plain, NEW w \in Workers, NEW l \in Lanes, \A u \in Tasks : Single(u), Heartbeat(w, l)
    PROVE  (\A u \in Tasks : Single(u)') /\ UNCHANGED exec
<1>1. PICK t : t = TaskOf(w, l)
  OBVIOUS
<1>2. /\ exec \in [Workers -> [Lanes -> Exec]] /\ data \in [Tasks -> Hash]
      /\ exec[w][l].pc # "idle" /\ exec[w][l].aborted = FALSE
      /\ exec' = [exec EXCEPT ![w][l].aborted = @ \/ lock[t] # w]
      /\ data' = [data EXCEPT ![t].form = IF @ = "none" THEN "partial" ELSE @]
      /\ UNCHANGED <<poll, queue, lock, sub, cancel, overrun>>
  BY <1>1 DEF Typed, TypeOK, Heartbeat, Plain, Exec
<1>3. t \in Tasks /\ lock[t] = w /\ sub[t] = "queued"
  BY <1>1, <1>2, LaneHas
<1>4. UNCHANGED exec
  <2>1. exec' = [exec EXCEPT ![w][l].aborted = FALSE]
    BY <1>2, <1>3
  <2>2. [exec[w][l] EXCEPT !.aborted = FALSE] = exec[w][l]
    BY <1>2 DEF Exec
  <2>3. exec' = [exec EXCEPT ![w] = [exec[w] EXCEPT ![l] = exec[w][l]]]
    BY <2>1, <2>2
  <2>4. [exec[w] EXCEPT ![l] = exec[w][l]] = exec[w]
    BY <1>2
  <2> QED BY <1>2, <2>3, <2>4
<1>5. data'[t].status = data[t].status /\ \A u \in Tasks : u # t => data'[u] = data[u]
  BY <1>2, <1>3 DEF Hash
<1>6. Single(t)'
  <2>1. LockKeeps(t) /\ RecordKeeps(t)
    BY <1>2, <1>3, <1>5 DEF LockKeeps, RecordKeeps
  <2>2. PollKeeps(t) /\ LanesKeep(t)
    BY <1>2, <1>3, <1>4, LocalKeeps
  <2> QED BY <1>3, <2>1, <2>2, Keeps
<1>7. \A u \in Tasks : u # t => PollStays(u) /\ LanesStay(u)
  BY <1>2, <1>4, PollKept, LanesKept
<1>8. Apart(t)
  BY <1>2, <1>5 DEF Apart
<1> QED BY <1>4, <1>6, <1>7, <1>8, SingleOthers

-----------------------------------------------------------------------------
(* Singly is an invariant *)

LanePlain(w, l) == /\ ~exec[w][l].slot /\ ~exec[w][l].aborted
                   /\ exec[w][l].pc \notin {"requeue", "readd"}

LEMMA NewLane ==
    ASSUME Typed, NEW w \in Workers, NEW l \in Lanes, NEW x, exec' = [exec EXCEPT ![w][l] = x],
           ~x.slot, ~x.aborted, x.pc \notin {"requeue", "readd"},
           \A v \in Workers, m \in Lanes : LanePlain(v, m)
    PROVE  \A v \in Workers, m \in Lanes : LanePlain(v, m)'
<1>1. exec'[w][l] = x /\ \A v \in Workers, m \in Lanes : ~(v = w /\ m = l) => exec'[v][m] = exec[v][m]
  BY DEF Typed, TypeOK
<1> QED BY <1>1 DEF LanePlain

LEMMA StepLane ==
    ASSUME Typed, NEW w \in Workers, NEW l \in Lanes, NEW pc, Step(w, l, pc), pc \notin {"requeue", "readd"},
           \A v \in Workers, m \in Lanes : LanePlain(v, m)
    PROVE  \A v \in Workers, m \in Lanes : LanePlain(v, m)'
<1> DEFINE x == [exec[w][l] EXCEPT !.pc = pc]
<1>1. x.pc = pc /\ x.slot = exec[w][l].slot /\ x.aborted = exec[w][l].aborted
  BY DEF Typed, TypeOK, Exec
<1>2. exec' = [exec EXCEPT ![w][l] = x]
  BY DEF Step
<1> HIDE DEF x
<1> QED BY <1>1, <1>2, NewLane DEF LanePlain

LEMMA LanesPlain ==
    ASSUME SingleShot, Typed, Plain, \A u \in Tasks : Single(u), [Next]_vars
    PROVE  \A v \in Workers, m \in Lanes : LanePlain(v, m)'
<1>0. \A v \in Workers, m \in Lanes : LanePlain(v, m)
  BY DEF Plain, LanePlain
<1>1. CASE UNCHANGED exec
  BY <1>0, <1>1 DEF LanePlain
<1>2. ASSUME NEW w \in Workers, Dispatch(w)
      PROVE  \A v \in Workers, m \in Lanes : LanePlain(v, m)'
  <2> DEFINE x == [pc |-> "start", task |-> poll[w].task, slot |-> (MaxConcurrency > 0), aborted |-> FALSE]
  <2>1. PICK l \in Lanes : exec' = [exec EXCEPT ![w][l] = x]
    BY <1>2 DEF Dispatch
  <2>2. ~x.slot /\ ~x.aborted /\ x.pc \notin {"requeue", "readd"}
    <3>1. ~(MaxConcurrency > 0)
      BY DEF SingleShot
    <3>2. x.slot = (MaxConcurrency > 0) /\ x.aborted = FALSE /\ x.pc = "start"
      OBVIOUS
    <3> QED BY <3>1, <3>2
  <2> HIDE DEF x
  <2> QED BY <1>0, <2>1, <2>2, NewLane
<1>3. ASSUME NEW w \in Workers, Crash(w)
      PROVE  \A v \in Workers, m \in Lanes : LanePlain(v, m)'
  <2>1. /\ \A m \in Lanes : exec'[w][m] = NoExec
        /\ \A v \in Workers, m \in Lanes : v # w => exec'[v][m] = exec[v][m]
    BY <1>3 DEF Crash, Typed, TypeOK
  <2> QED BY <1>0, <2>1 DEF LanePlain, NoExec
<1>4. ASSUME NEW w \in Workers, NEW l \in Lanes, ExecStep(w, l)
      PROVE  \A v \in Workers, m \in Lanes : LanePlain(v, m)'
  <2>1. CASE Finally(w, l) \/ FinallyUnlock(w, l)
    <3>1. exec' = [exec EXCEPT ![w][l] = NoExec]
      BY <2>1 DEF Finally, FinallyUnlock, Plain
    <3>2. ~NoExec.slot /\ ~NoExec.aborted /\ NoExec.pc \notin {"requeue", "readd"}
      BY DEF NoExec
    <3> QED BY <1>0, <3>1, <3>2, NewLane
  <2>2. CASE HandlerThrows(w, l)
    BY <1>0, <2>2, Buries, StepLane
  <2>3. CASE Requeue(w, l)
    BY <2>3 DEF Requeue, ExecAt, Plain
  <2>4. CASE \/ Start(w, l) \/ Short(w, l) \/ Begin(w, l) \/ HandlerReturns(w, l) \/ Settle(w, l)
             \/ Bury(w, l)
    <3>1. PICK pc \in {"short", "begin", "done", "handler", "settle"} : Step(w, l, pc)
      BY <2>4 DEF Start, Short, Begin, HandlerReturns, Settle, Bury
    <3> QED BY <1>0, <3>1, StepLane
  <2> QED BY <1>4, <2>1, <2>2, <2>3, <2>4 DEF ExecStep
<1>5. ASSUME NEW w \in Workers, NEW l \in Lanes, Heartbeat(w, l)
      PROVE  UNCHANGED exec
  BY <1>5, OnceHeartbeat
<1>6. ASSUME NEW w \in Workers, PollStep(w), ~Dispatch(w)
      PROVE  UNCHANGED exec
  BY <1>6 DEF PollStep, Scan, NextBucket, Acquire, Load, Unlock, Dequeue, DispatchUnknown, BuryUnknown,
              DispatchFull, Uncount, PutBack
<1>7. ASSUME NEW w \in Workers, StopStep(w)
      PROVE  UNCHANGED exec
  BY <1>7 DEF StopStep, StopBegin, StopNext, StopLoad, StopEnlist, StopUnlock, StopEnd, HaltAt, Plain,
              NoHalt, SingleShot
<1>8. ASSUME NEW t \in Tasks, ClientStep(t) \/ Tick(t) \/ Lapse(t) \/ ExpireResult(t)
      PROVE  UNCHANGED exec
  BY <1>8 DEF ClientStep, EnqueueCheck, EnqueueStore, EnqueueIndex, EnqueueKey, EnqueueAdd,
              CancelCheck, CancelUnlist, CancelDelete,
              Tick, Lapse, ExpireResult
<1>9. ASSUME NEW w \in Workers, NEW t \in Tasks, OverrunEnds(w, t)
      PROVE  UNCHANGED exec
  BY <1>9 DEF OverrunEnds
<1>10. CASE UNCHANGED vars
  BY <1>1, <1>10 DEF vars
<1> QED BY <1>1, <1>2, <1>3, <1>4, <1>5, <1>6, <1>7, <1>8, <1>9, <1>10 DEF Next

\* Without the fault, no worker is stopped.
LEMMA NeverStops ==
    ASSUME SingleShot, Plain, NEW w \in Workers, StopStep(w)
    PROVE  FALSE
<1>1. halt[w].pc = "idle"
  BY DEF Plain, NoHalt
<1>2. "stop" \notin Faults
  BY DEF SingleShot
<1>3. "stop" \in Faults \/ halt[w].pc \in {"next", "load", "enlist", "unlock"}
  <2>1. CASE StopBegin(w)
    BY <2>1 DEF StopBegin
  <2>2. CASE StopNext(w) \/ StopLoad(w) \/ StopEnlist(w)
    BY <2>2 DEF StopNext, StopLoad, StopEnlist, HaltAt
  <2>3. CASE StopUnlock(w) \/ StopEnd(w)
    BY <2>3 DEF StopUnlock, StopEnd, HaltAt
  <2> QED BY <2>1, <2>2, <2>3 DEF StopStep
<1> QED BY <1>1, <1>2, <1>3

LEMMA Stopless ==
    ASSUME SingleShot, Typed, Plain, [Next]_vars, NEW v \in Workers
    PROVE  mode'[v] # "stopped" /\ halt'[v] = NoHalt /\ forced'[v] = {}
<1>1. CASE UNCHANGED vars
  BY <1>1 DEF vars, Plain
<1>2. ASSUME NEW t \in Tasks, ClientStep(t) \/ Tick(t) \/ Lapse(t) \/ ExpireResult(t)
      PROVE  UNCHANGED <<mode, halt, forced>>
  BY <1>2 DEF ClientStep, EnqueueCheck, EnqueueStore, EnqueueIndex, EnqueueKey, EnqueueAdd,
              CancelCheck, CancelUnlist, CancelDelete,
              Tick, Lapse, ExpireResult
<1>3. ASSUME NEW w \in Workers, PollStep(w)
      PROVE  UNCHANGED <<mode, halt, forced>>
  BY <1>3 DEF PollStep, Scan, NextBucket, Acquire, Load, Unlock, Dequeue, DispatchUnknown, BuryUnknown,
              Dispatch, DispatchFull, Uncount, PutBack
<1>4. ASSUME NEW w \in Workers, StopStep(w)
      PROVE  FALSE
  BY <1>4, NeverStops
<1>5. ASSUME NEW w \in Workers, Crash(w)
      PROVE  mode'[v] # "stopped" /\ halt'[v] = NoHalt /\ forced'[v] = {}
  BY <1>5 DEF Crash, Typed, TypeOK, Plain
<1>6. ASSUME NEW w \in Workers, NEW l \in Lanes, ExecStep(w, l) \/ Heartbeat(w, l)
      PROVE  UNCHANGED <<mode, halt>> /\ forced'[v] \subseteq forced[v]
  <2>1. CASE Finally(w, l)
    BY <2>1 DEF Finally, Typed, TypeOK
  <2>2. CASE ~Finally(w, l)
    BY <1>6, <2>2 DEF ExecStep, Start, Short, Begin, HandlerReturns, Settle, HandlerThrows, Requeue, Bury,
                      FinallyUnlock, Heartbeat
  <2> QED BY <2>1, <2>2
<1>7. ASSUME NEW w \in Workers, NEW t \in Tasks, OverrunEnds(w, t)
      PROVE  UNCHANGED <<mode, halt, forced>>
  BY <1>7 DEF OverrunEnds
<1> QED BY <1>1, <1>2, <1>3, <1>4, <1>5, <1>6, <1>7 DEF Next, Plain

LEMMA SinglyInit == Init => Singly
<1> SUFFICES ASSUME Init
             PROVE  Singly
  OBVIOUS
<1>1. Plain
  BY DEF Init, Plain, IdlePoll, NoExec
<1>2. ASSUME NEW t \in Tasks
      PROVE  Single(t)
  <2>1. /\ sub[t] = "new" /\ data[t] = NoHash /\ queue[t] = "absent" /\ cancel[t] = "idle" /\ overrun = {}
        /\ \A w \in Workers : poll[w].list = {} /\ poll[w].pc = "idle" /\ poll[w].cur = NoTask
        /\ \A w \in Workers, l \in Lanes : exec[w][l].pc = "idle"
    BY DEF Init, IdlePoll, NoExec
  <2>2. /\ \A w \in Workers : PollOf(w, t) = "idle" /\ PollOf(w, t) \in Off
        /\ \A w \in Workers, l \in Lanes : LaneOf(w, l, t) = "idle"
    BY <2>1 DEF PollOf, LaneOf, Off
  <2>3. Held(t)
    BY <2>1, <2>2, HoldingOn DEF Held
  <2>4. BegunOnce(t) /\ Unknown(t)
    BY <2>1, <2>2 DEF BegunOnce, Unknown
  <2> QED BY <2>3, <2>4 DEF Single
<1> QED BY <1>1, <1>2 DEF Singly

LEMMA SinglyStep == SingleShot /\ Typed /\ Singly /\ [Next]_vars => Singly'
<1> SUFFICES ASSUME SingleShot, Typed, Plain, \A u \in Tasks : Single(u), [Next]_vars
             PROVE  (\A u \in Tasks : Single(u)') /\ \A w \in Workers : PollPlain(w)
  BY Stopless, LanesPlain DEF Singly, Plain, LanePlain, PollPlain
<1>0. \A v \in Workers : poll'[v] = poll[v] \/ poll'[v] = IdlePoll => PollPlain(v)
  BY DEF Plain, PollPlain, IdlePoll
<1>1. CASE UNCHANGED <<poll, exec, data, queue, lock, sub, cancel>> /\ overrun' \subseteq overrun
  <2>1. \A u \in Tasks : PollKeeps(u) /\ LanesKeep(u) /\ LockKeeps(u) /\ RecordKeeps(u)
    BY <1>1, LocalKeeps DEF LockKeeps, RecordKeeps
  <2> QED BY <1>0, <1>1, <2>1, Keeps
<1>2. ASSUME NEW t \in Tasks, ClientStep(t) \/ Tick(t) \/ Lapse(t) \/ ExpireResult(t)
      PROVE  (\A u \in Tasks : Single(u)') /\ UNCHANGED poll
  <2>1. UNCHANGED poll
    BY <1>2 DEF ClientStep, EnqueueCheck, EnqueueStore, EnqueueIndex, EnqueueKey, EnqueueAdd,
                CancelCheck, CancelUnlist, CancelDelete,
                Tick, Lapse, ExpireResult
  <2> QED BY <1>2, <2>1, OnceClient, OnceTime
<1>3. ASSUME NEW w \in Workers, PollStep(w)
      PROVE  (\A u \in Tasks : Single(u)') /\ \A v \in Workers : PollPlain(v)
  BY <1>0, <1>3, OncePoll, OtherLoops
<1>4. ASSUME NEW w \in Workers, StopStep(w)
      PROVE  FALSE
  BY <1>4, NeverStops
<1>5. ASSUME NEW w \in Workers, Crash(w)
      PROVE  (\A u \in Tasks : Single(u)') /\ \A v \in Workers : PollPlain(v)
  BY <1>0, <1>5, OnceCrash
<1>6. ASSUME NEW w \in Workers, NEW l \in Lanes, ExecStep(w, l) \/ Heartbeat(w, l)
      PROVE  (\A u \in Tasks : Single(u)') /\ UNCHANGED poll
  <2>1. UNCHANGED poll
    BY <1>6 DEF ExecStep, Start, Short, Begin, HandlerReturns, Settle, HandlerThrows, Requeue, Bury,
                Finally, FinallyUnlock, Heartbeat
  <2> QED BY <1>6, <2>1, OnceExec, OnceHeartbeat
<1>7. ASSUME NEW w \in Workers, NEW t \in Tasks, OverrunEnds(w, t)
      PROVE  UNCHANGED <<poll, exec, data, queue, lock, sub, cancel>> /\ overrun' \subseteq overrun
  BY <1>7 DEF OverrunEnds
<1>8. CASE UNCHANGED vars
  BY <1>1, <1>8 DEF vars
<1> QED BY <1>0, <1>1, <1>2, <1>3, <1>4, <1>5, <1>6, <1>7, <1>8 DEF Next

LEMMA SinglyAlways ==
    ASSUME SingleShot
    PROVE  Spec => []Singly
<1>1. Typed /\ Singly /\ [Next]_vars => Singly'
  BY SinglyStep
<1> QED BY <1>1, SinglyInit, TypedAlways, PTL DEF Spec

\* A task with a single attempt is never executed by two handlers at a time, on any number of
\* workers with any number of lanes, through crashes, cancels and handlers that outlive their
\* timeouts.
THEOREM ExecutedAlone ==
    ASSUME SingleShot
    PROVE  Spec => []ExclusiveExecution
<1>1. ASSUME Typed, Singly
      PROVE  ExclusiveExecution
  <2> SUFFICES ASSUME NEW t \in Tasks
               PROVE  Cardinality(Executing(t)) <= 1
    BY DEF ExclusiveExecution
  <2>1. Single(t)
    BY <1>1 DEF Singly
  <2>2. \A w \in Workers, l \in Lanes : ExecAt(w, l, "handler") /\ TaskOf(w, l) = t =>
           LaneOf(w, l, t) = "handler" /\ lock[t] = w /\ \A m \in Lanes : LaneOf(w, m, t) # "idle" => l = m
    BY <2>1 DEF ExecAt, LaneOf, Single, Held
  <2>3. "handler" \in Begun
    BY DEF Begun
  <2>4. \E x : Executing(t) \subseteq {x}
    <3>1. CASE \E v \in Workers : <<v, t>> \in overrun
      <4>1. PICK v \in Workers : <<v, t>> \in overrun
        BY <3>1
      <4>2. Executing(t) \subseteq {<<v, t>>}
        BY <2>1, <2>2, <2>3, <4>1 DEF Executing, Runs, Single, BegunOnce
      <4> QED BY <4>2
    <3>2. CASE (\A v \in Workers : <<v, t>> \notin overrun)
               /\ \E w \in Workers, l \in Lanes : ExecAt(w, l, "handler") /\ TaskOf(w, l) = t
      <4>1. PICK w \in Workers, l \in Lanes : ExecAt(w, l, "handler") /\ TaskOf(w, l) = t
        BY <3>2
      <4>2. Executing(t) \subseteq {<<w, l>>}
        BY <2>2, <3>2, <4>1 DEF Executing, Runs
      <4> QED BY <4>2
    <3>3. CASE (\A v \in Workers : <<v, t>> \notin overrun)
               /\ ~\E w \in Workers, l \in Lanes : ExecAt(w, l, "handler") /\ TaskOf(w, l) = t
      BY <3>3 DEF Executing, Runs
    <3> QED BY <3>1, <3>2, <3>3
  <2>5. PICK x : Executing(t) = {} \/ Executing(t) = {x}
    BY <2>4
  <2> QED BY <2>5, FS_EmptySet, FS_Singleton
<1> QED BY <1>1, TypedAlways, SinglyAlways, PTL

LEMMA OnceStatus ==
    ASSUME SingleShot, Typed, Singly, [Next]_vars, NEW t \in Tasks,
           data[t].status \notin Claimable \cup {"none"}
    PROVE  data'[t].status \notin Claimable
<1>a. data \in [Tasks -> Hash]
  BY DEF Typed, TypeOK
<1>0. {"running", "completed", "dead", "none"} \cap Claimable = {}
  BY DEF Claimable
<1>1. CASE UNCHANGED data
  BY <1>1
<1>2. ASSUME NEW u \in Tasks, EnqueueStore(u)
      PROVE  data'[t] = data[t]
  <2>1. data[u] = NoHash
    BY <1>2 DEF EnqueueStore, Singly, Single, Unknown
  <2>2. u # t
    BY <2>1 DEF NoHash
  <2> QED BY <1>2, <1>a, <2>2 DEF EnqueueStore
<1>3. ASSUME NEW u \in Tasks, CancelDelete(u) \/ ExpireResult(u)
      PROVE  data'[t].status \notin Claimable
  <2>1. UNCHANGED data \/ data' = [data EXCEPT ![u] = NoHash]
    BY <1>3 DEF CancelDelete, ExpireResult, Delete
  <2>2. data'[t] = data[t] \/ data'[t] = NoHash
    BY <1>a, <2>1
  <2> QED BY <2>2 DEF NoHash, Claimable
<1>4. ASSUME NEW u \in Tasks, ClientStep(u) \/ Tick(u) \/ Lapse(u), ~EnqueueStore(u), ~CancelDelete(u)
      PROVE  UNCHANGED data
  BY <1>4 DEF ClientStep, EnqueueCheck, EnqueueIndex, EnqueueKey, EnqueueAdd, CancelCheck, CancelUnlist, Tick, Lapse
<1>5. ASSUME NEW w \in Workers, DispatchUnknown(w)
      PROVE  data'[t].status \notin Claimable
  <2>1. poll[w].cur \in Tasks
    BY <1>5 DEF DispatchUnknown, PollAt, PollOK, Typed, TypeOK
  <2> QED BY <1>0, <1>5, <2>1, Overwrites DEF DispatchUnknown
<1>6. ASSUME NEW w \in Workers, PollStep(w), ~DispatchUnknown(w)
      PROVE  UNCHANGED data
  BY <1>6 DEF PollStep, Scan, NextBucket, Acquire, Load, Unlock, Dequeue, BuryUnknown,
              Dispatch, DispatchFull, Uncount, PutBack
<1>7. ASSUME NEW w \in Workers, StopStep(w)
      PROVE  FALSE
  BY <1>7, NeverStops DEF Singly
<1>8. ASSUME NEW w \in Workers, Crash(w)
      PROVE  UNCHANGED data
  BY <1>8 DEF Crash
<1>9. ASSUME NEW w \in Workers, NEW l \in Lanes, ExecStep(w, l)
      PROVE  data'[t].status \notin Claimable
  <2>1. PICK u : u = TaskOf(w, l)
    OBVIOUS
  <2>2. exec[w][l].pc # "idle" => u \in Tasks
    BY <2>1 DEF ExecOK, TaskOf, Typed, TypeOK
  <2>3. CASE HandlerThrows(w, l)
    <3>1. SetStatus(u, exec[w][l].task.status, "dead", data[u].attempt)
      BY <2>1, <2>3, Buries DEF Singly
    <3>2. u \in Tasks
      BY <2>2, <2>3 DEF HandlerThrows, ExecAt
    <3> QED BY <1>0, <3>1, <3>2, Overwrites
  <2>4. CASE Short(w, l) \/ Begin(w, l) \/ Settle(w, l)
    <3>1. PICK old, new, attempt : new \in {"running", "completed"} /\ SetStatus(u, old, new, attempt)
      BY <2>1, <2>4 DEF Short, Begin, Settle
    <3>2. u \in Tasks
      BY <2>2, <2>4 DEF Short, Begin, Settle, ExecAt
    <3> QED BY <1>0, <3>1, <3>2, Overwrites
  <2>5. CASE HandlerReturns(w, l)
    <3>1. UNCHANGED data \/ SetStatus(u, "running", "completed", data[u].attempt)
      BY <2>1, <2>5 DEF HandlerReturns
    <3>2. u \in Tasks
      BY <2>2, <2>5 DEF HandlerReturns, ExecAt
    <3> QED BY <1>0, <3>1, <3>2, Overwrites
  <2>6. CASE Start(w, l) \/ Requeue(w, l) \/ Bury(w, l) \/ Finally(w, l) \/ FinallyUnlock(w, l)
    BY <2>6 DEF Start, Requeue, Bury, Finally, FinallyUnlock
  <2> QED BY <1>9, <2>3, <2>4, <2>5, <2>6 DEF ExecStep
<1>10. ASSUME NEW w \in Workers, NEW l \in Lanes, Heartbeat(w, l)
      PROVE  data'[t].status = data[t].status
  BY <1>a, <1>10 DEF Heartbeat, Hash
<1>11. ASSUME NEW w \in Workers, NEW u \in Tasks, OverrunEnds(w, u)
      PROVE  UNCHANGED data
  BY <1>11 DEF OverrunEnds
<1>12. CASE UNCHANGED vars
  BY <1>1, <1>12 DEF vars
<1> QED BY <1>1, <1>2, <1>3, <1>4, <1>5, <1>6, <1>7, <1>8, <1>9, <1>10, <1>11, <1>12 DEF Next

\* With a single attempt a task whose run was begun never becomes claimable again: its handler
\* is started once, on any fleet.
THEOREM StartedOnce ==
    ASSUME SingleShot
    PROVE  Spec => NeverRunAgain
<1>1. Typed /\ Singly /\ [Next]_vars =>
        [\A t \in Tasks : data[t].status \notin Claimable \cup {"none"} => data'[t].status \notin Claimable]_vars
  BY OnceStatus
<1> QED BY <1>1, TypedAlways, SinglyAlways, PTL DEF Spec, NeverRunAgain
=============================================================================
