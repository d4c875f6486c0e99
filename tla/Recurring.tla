------------------------------ MODULE Recurring ------------------------------
(***************************************************************************)
(* Recurring schedules (src/src/tasks/recurring.ts): the scheduler's tick  *)
(* against pause, resume and delete, every store operation a step. A tick  *)
(* is started by a timer that waits for none before it, in one process or  *)
(* in several.                                                             *)
(*                                                                         *)
(* Schedules are by interval; the calendar of cron expressions is left     *)
(* out.                                                                    *)
(***************************************************************************)
EXTENDS Integers, FiniteSets, Sequences

CONSTANTS
    Schedules,
    Interval,
    Catchup,        \* the policies a schedule may have
    Ticks, Managers,    \* those who run tick(), and those who call the rest
    Horizon,        \* bound: the clock
    MaxOrders       \* bound: calls of pause, resume and delete

Policies == {"skip", "last", "all"}
ASSUME RecurringAssumption ==
    /\ IsFiniteSet(Schedules) /\ Catchup \subseteq Policies
    /\ Interval \in Nat \ {0} /\ Horizon \in Nat /\ MaxOrders \in Nat

VARIABLES
    time,
    policy,
    hash,       \* the schedules' hashes
    due,        \* RECURRING_KEY: schedules to their score
    tick,       \* each tick(): what it has read, and how far it is
    order,      \* each call of pause, resume or delete
    fired       \* how often each schedule's task was enqueued

VARIABLES
    orders,
    crossed     \* schedules listed by two ticks at once, or handled by a tick and a call at once

recurringVars == <<time, policy, hash, due, tick, order, fired, orders, crossed>>

Unset == -1
\* A hash is partial when only some of its fields were written: it cannot be read as a schedule.
Unscheduled == [state |-> "none", enabled |-> FALSE, last |-> Unset, next |-> Unset]
Idle == [pc |-> "idle", now |-> 0, ids |-> <<>>, left |-> 0]
NoOrder == [does |-> "none", step |-> 0, id |-> CHOOSE s \in Schedules : TRUE, next |-> 0]

RecurringTypeOK ==
    /\ time \in 0..Horizon /\ policy \in [Schedules -> Policies]
    /\ \A s \in Schedules :
          /\ hash[s].state \in {"none", "whole", "partial"} /\ hash[s].enabled \in BOOLEAN
          /\ hash[s].last \in {Unset} \cup (0..Horizon) /\ fired[s] \in Nat
          /\ hash[s].next \in {Unset} \cup (0..(Horizon + Interval))
    /\ DOMAIN due \subseteq Schedules
    /\ \A k \in Ticks : tick[k].pc \in {"idle", "load", "clear", "fire", "save", "relist"}
    /\ \A k \in Ticks : tick[k].left \in 0..(Horizon \div Interval)
    /\ \A m \in Managers : order[m].does \in {"none", "pause", "resume", "delete"}
    /\ crossed \subseteq Schedules

\* create() has stored each schedule and listed it at time 0.
RecurringInit ==
    /\ time = 0
    /\ policy \in [Schedules -> Catchup]
    /\ hash = [s \in Schedules |-> [state |-> "whole", enabled |-> TRUE, last |-> Unset, next |-> Interval]]
    /\ due = [s \in Schedules |-> Interval]
    /\ tick = [k \in Ticks |-> Idle]
    /\ order = [m \in Managers |-> NoOrder]
    /\ fired = [s \in Schedules |-> 0]
    /\ orders = 0 /\ crossed = {}

ListedAt(s, score) == due' = [x \in DOMAIN due \cup {s} |-> IF x = s THEN score ELSE due[x]]
UnlistedNow(s) == due' = [x \in DOMAIN due \ {s} |-> due[x]]

\* hmset and hset of some fields: what was not there becomes a partial hash.
WithFields(s, h) == [hash EXCEPT ![s] = [h EXCEPT !.state = IF h.state = "none" THEN "partial" ELSE h.state]]

Handling(s) ==
    {k \in Ticks : tick[k].pc \in {"fire", "save", "relist"} /\ Head(tick[k].ids) = s}
Carrying(s) == {k \in Ticks : \E i \in DOMAIN tick[k].ids : tick[k].ids[i] = s}
Ordering(s) == {m \in Managers : order[m].does # "none" /\ order[m].id = s}

-----------------------------------------------------------------------------
(* tick *)

\* computeMissedOccurrences for an interval, without its cap of 1000.
Missed(from, to) == IF to < from THEN 0 ELSE (to - from) \div Interval

\* resolveFireTimes
FireTimes(s, now) ==
    IF policy[s] \in {"skip", "last"} THEN 1
    ELSE LET from == IF hash[s].last # Unset THEN hash[s].last ELSE hash[s].next
             missed == Missed(from, now)
         IN IF missed > 1 THEN missed ELSE 1

ByScore(S) == {q \in [1..Cardinality(S) -> S] :
                  /\ \A s \in S : \E i \in DOMAIN q : q[i] = s
                  /\ \A i, j \in DOMAIN q : i < j => due[q[i]] <= due[q[j]]}

\* Mutant of StartTick: schedules that are not due yet are taken, too.
StartEarly(k) ==
    /\ tick[k].pc = "idle"
    /\ DOMAIN due # {}
    /\ \E q \in ByScore(DOMAIN due) :
          tick' = [tick EXCEPT ![k] = [pc |-> "load", now |-> time, ids |-> q, left |-> 0]]
    /\ UNCHANGED <<time, policy, hash, due, order, fired, orders, crossed>>

StartTick(k) ==
    LET ripe == {s \in DOMAIN due : due[s] <= time} IN
    /\ tick[k].pc = "idle"
    /\ ripe # {} /\ crossed # Schedules
    /\ \E q \in ByScore(ripe) :
          tick' = [tick EXCEPT ![k] = [pc |-> "load", now |-> time, ids |-> q, left |-> 0]]
    /\ crossed' = crossed \cup {s \in ripe : Carrying(s) # {}}
    /\ UNCHANGED <<time, policy, hash, due, order, fired, orders>>

\* The next schedule of the list, or the end of it.
NextOf(k) ==
    IF Len(tick[k].ids) = 1 THEN [tick EXCEPT ![k] = Idle]
    ELSE [tick EXCEPT ![k].pc = "load", ![k].ids = Tail(@)]

\* A partial hash throws, and ends the tick.
LoadHash(k) ==
    LET s == Head(tick[k].ids) IN
    /\ tick[k].pc = "load"
    /\ tick' = CASE hash[s].state = "none" -> [tick EXCEPT ![k].pc = "clear"]
                 [] hash[s].state = "partial" -> [tick EXCEPT ![k] = Idle]
                 [] hash[s].state = "whole" /\ ~hash[s].enabled -> NextOf(k)
                 [] OTHER -> [tick EXCEPT ![k].pc = "fire", ![k].left = FireTimes(s, tick[k].now)]
    /\ crossed' = IF tick'[k].pc = "fire" /\ Ordering(s) # {} THEN crossed \cup {s} ELSE crossed
    /\ UNCHANGED <<time, policy, hash, due, order, fired, orders>>

Clear(k) ==
    /\ tick[k].pc = "clear"
    /\ UnlistedNow(Head(tick[k].ids))
    /\ tick' = NextOf(k)
    /\ UNCHANGED <<time, policy, hash, order, fired, orders, crossed>>

Fire(k) ==
    /\ tick[k].pc = "fire"
    /\ fired' = [fired EXCEPT ![Head(tick[k].ids)] = @ + 1]
    /\ tick' = [tick EXCEPT ![k].left = @ - 1, ![k].pc = IF tick[k].left = 1 THEN "save" ELSE "fire"]
    /\ UNCHANGED <<time, policy, hash, due, order, orders, crossed>>

SaveRun(k) ==
    LET s == Head(tick[k].ids) IN
    /\ tick[k].pc = "save"
    /\ hash' = WithFields(s, [hash[s] EXCEPT !.last = tick[k].now, !.next = tick[k].now + Interval])
    /\ tick' = [tick EXCEPT ![k].pc = "relist"]
    /\ UNCHANGED <<time, policy, due, order, fired, orders, crossed>>

Relist(k) ==
    /\ tick[k].pc = "relist"
    /\ ListedAt(Head(tick[k].ids), tick[k].now + Interval)
    /\ tick' = NextOf(k)
    /\ UNCHANGED <<time, policy, hash, order, fired, orders, crossed>>

-----------------------------------------------------------------------------
(* pause, resume, delete: each call's next operation *)

Ask(m) ==
    /\ order[m].does = "none" /\ orders < MaxOrders /\ crossed # Schedules
    /\ \E s \in Schedules, does \in {"pause", "resume", "delete"} :
          /\ order' = [order EXCEPT ![m] = [does |-> does, step |-> 1, id |-> s, next |-> 0]]
          /\ crossed' = IF Handling(s) \cup Ordering(s) # {} THEN crossed \cup {s} ELSE crossed
    /\ orders' = orders + 1
    /\ UNCHANGED <<time, policy, hash, due, tick, fired>>

ManagerStep(m, does, n) == order[m].does = does /\ order[m].step = n
Advance(m) == order' = [order EXCEPT ![m].step = @ + 1]
End(m) == order' = [order EXCEPT ![m] = NoOrder]

Pause(m) ==
    LET s == order[m].id IN
    /\ \/ /\ ManagerStep(m, "pause", 1)
          /\ hash' = WithFields(s, [hash[s] EXCEPT !.enabled = FALSE])
          /\ Advance(m) /\ UNCHANGED due
       \/ ManagerStep(m, "pause", 2) /\ UnlistedNow(s) /\ End(m) /\ UNCHANGED hash
    /\ UNCHANGED <<time, policy, tick, fired, orders, crossed>>

\* The next run is computed when the schedule was read.
Resume(m) ==
    LET s == order[m].id IN
    /\ \/ /\ ManagerStep(m, "resume", 1)
          /\ IF hash[s].state # "whole" THEN End(m)
             ELSE order' = [order EXCEPT ![m].step = 2, ![m].next = time + Interval]
          /\ UNCHANGED <<hash, due>>
       \/ /\ ManagerStep(m, "resume", 2)
          /\ hash' = WithFields(s, [hash[s] EXCEPT !.enabled = TRUE, !.next = order[m].next])
          /\ Advance(m) /\ UNCHANGED due
       \/ ManagerStep(m, "resume", 3) /\ ListedAt(s, order[m].next) /\ End(m) /\ UNCHANGED hash
    /\ UNCHANGED <<time, policy, tick, fired, orders, crossed>>

DeleteSchedule(m) ==
    LET s == order[m].id IN
    /\ \/ ManagerStep(m, "delete", 1) /\ UnlistedNow(s) /\ Advance(m) /\ UNCHANGED hash
       \/ ManagerStep(m, "delete", 2) /\ hash' = [hash EXCEPT ![s] = Unscheduled] /\ End(m) /\ UNCHANGED due
    /\ UNCHANGED <<time, policy, tick, fired, orders, crossed>>

-----------------------------------------------------------------------------

Elapse == /\ time < Horizon /\ crossed # Schedules /\ time' = time + 1
          /\ UNCHANGED <<policy, hash, due, tick, order, fired, orders, crossed>>

RecurringNext ==
    \/ \E k \in Ticks : StartTick(k) \/ LoadHash(k) \/ Clear(k) \/ Fire(k) \/ SaveRun(k) \/ Relist(k)
    \/ \E m \in Managers : Ask(m) \/ Pause(m) \/ Resume(m) \/ DeleteSchedule(m)
    \/ Elapse
RecurringSpec == RecurringInit /\ [][RecurringNext]_recurringVars

-----------------------------------------------------------------------------
(* Properties, of schedules that no two ticks or calls handled at the same time *)

\* A task is never enqueued more often than its interval has passed, whatever is caught up.
NotTooOften == \A s \in Schedules \ crossed : fired[s] <= time \div Interval

\* An enabled schedule stays among the due ones.
StaysListed ==
    \A s \in Schedules \ crossed :
        hash[s].state = "whole" /\ hash[s].enabled => s \in DOMAIN due \/ Ordering(s) # {}

\* What was deleted leaves no hash that stops every later tick, unless a deleted one was paused.
NothingLeft == \A s \in Schedules \ crossed : hash[s].state = "partial" => s \notin DOMAIN due

\* contracts/tasks.md, "Recurring tasks execute at specified intervals".
SchedulesKept == NotTooOften /\ StaysListed /\ NothingLeft
=============================================================================
