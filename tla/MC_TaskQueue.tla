---------------------------- MODULE MC_TaskQueue ----------------------------
(* Small fleets for TLC: up to two workers and two tasks of one type, and a *)
(* task t3 whose type nobody registered.                                    *)
EXTENDS TaskQueue, TLC

CONSTANTS t1, t2, t3, w1, w2, k1

OneBucket == [t \in Tasks |-> 1]
TwoBuckets == [t \in Tasks |-> IF t = t1 THEN 2 ELSE 1]
AllTypes  == [w \in Workers |-> Tasks]
\* w2 takes no task of t3's type.
SomeTypes == [w \in Workers |-> IF w = w2 THEN Tasks \ {t3} ELSE Tasks]
NoKeys    == [t \in Tasks |-> NoKey]
OneKey    == [t \in Tasks |-> k1]
TaskSym   == Permutations({t1, t2})
FleetSym  == Permutations(Workers) \cup TaskSym
=============================================================================
