------------------------------- MODULE Backlogs -------------------------------
(***************************************************************************)
(* What waits until somebody takes it up: a client's offline writes, the   *)
(* dead letters operators retry, the recurring schedules that start tasks; *)
(* and the key-value store that keeps such records. A behaviour is one of  *)
(* one of these parts while the others wait: each reaches the others'      *)
(* state through operations that its own module models (a replay stores a  *)
(* new task, a tick enqueues one), so what holds of a part here is what    *)
(* holds of it alone.                                                      *)
(***************************************************************************)
EXTENDS OfflineQueue, DeadLetters, Recurring, KeyValue

CONSTANT Running    \* the parts that may run

BacklogParts == {"offline", "letters", "recurring", "keyvalue"}

ASSUME BacklogAssumption == Running \subseteq BacklogParts

VARIABLE runs       \* the part that runs

backlogVars == <<runs, offlineVars, lettersVars, recurringVars, kvVars>>

Pick(S) == CHOOSE x \in S : TRUE

\* A part that waits has one initial state.
BacklogInit ==
    /\ runs \in Running
    /\ OfflineInit /\ (runs # "offline" => todo = Pick(Plans) /\ ~keyed)
    /\ LettersInit /\ (runs # "letters" => \A id \in Letters : record[id] # "partial")
    /\ RecurringInit /\ (runs # "recurring" => \A x \in Schedules : policy[x] = Pick(Catchup))
    /\ KeyValueInit

OfflineStep == runs = "offline" /\ OfflineNext /\ UNCHANGED <<runs, lettersVars, recurringVars, kvVars>>
LettersStep == runs = "letters" /\ LettersNext /\ UNCHANGED <<runs, offlineVars, recurringVars, kvVars>>
RecurringStep == runs = "recurring" /\ RecurringNext /\ UNCHANGED <<runs, offlineVars, lettersVars, kvVars>>
KeyValueStep == runs = "keyvalue" /\ KeyValueNext /\ UNCHANGED <<runs, offlineVars, lettersVars, recurringVars>>

BacklogNext == OfflineStep \/ LettersStep \/ RecurringStep \/ KeyValueStep

\* OfflineFairness, where the offline queue runs.
BacklogFairness ==
    /\ WF_offlineVars(runs = "offline" /\ Serve) /\ WF_offlineVars(runs = "offline" /\ Answered)
    /\ WF_offlineVars(runs = "offline" /\ Expire)
    /\ \A t \in Tabs : WF_offlineVars(runs = "offline" /\ Online(t))

BacklogSpec == BacklogInit /\ [][BacklogNext]_backlogVars /\ BacklogFairness

-----------------------------------------------------------------------------

\* The promises of the dead letters (LettersKept) and of the schedules (SchedulesKept), over
\* records of the types that the code stores.
LettersHold == runs = "letters" => LettersTypeOK /\ LettersKept
SchedulesHold == runs = "recurring" => RecurringTypeOK /\ SchedulesKept

\* SameAnswers and DurableLayout of KeyValue, asked where the stores run: the two stores answer
\* every call alike, and the Durable Object's storage is whole after every call.
StoresAgree == runs = "keyvalue" => SameAnswers /\ DurableLayout
=============================================================================
