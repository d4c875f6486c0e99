--------------------------- MODULE TaskLifecycle ---------------------------
(***************************************************************************)
(* What the task system promises about one task, whoever works on it: the  *)
(* states of docs/contracts/tasks.md, bounded retries, and the answer from *)
(* a stored result for a second task with the same idempotency key.        *)
(***************************************************************************)
EXTENDS Integers

CONSTANTS Tasks, MaxAttempts, Registered, Keys, KeyOf, NoKey

VARIABLES
    life,       \* the state of a task
    tries,      \* failed attempts so far
    answered    \* keys whose handler has returned a result

vars == <<life, tries, answered>>

States == {"absent", "waiting", "running", "completed", "dead"}

Init == /\ life = [t \in Tasks |-> "absent"]
        /\ tries = [t \in Tasks |-> 0]
        /\ answered = {}

Become(t, from, to) ==
    /\ life[t] = from
    /\ life' = [life EXCEPT ![t] = to]

Submit(t) == Become(t, "absent", "waiting") /\ UNCHANGED <<tries, answered>>
Run(t)    == Become(t, "waiting", "running") /\ UNCHANGED <<tries, answered>>

\* The handler returned: the result is kept for the key before the task ends.
Answer(t) == /\ life[t] = "running" /\ KeyOf[t] # NoKey
             /\ answered' = answered \cup {KeyOf[t]}
             /\ UNCHANGED <<life, tries>>
Complete(t) == /\ Become(t, "running", "completed")
               /\ KeyOf[t] # NoKey => KeyOf[t] \in answered
               /\ UNCHANGED <<tries, answered>>

\* A task whose key is answered completes without running.
Reuse(t) == /\ Become(t, "waiting", "completed")
            /\ KeyOf[t] \in answered
            /\ UNCHANGED <<tries, answered>>

Retry(t) == /\ Become(t, "running", "waiting")
            /\ tries[t] + 1 < MaxAttempts
            /\ tries' = [tries EXCEPT ![t] = @ + 1]
            /\ UNCHANGED answered
\* A run whose worker lost the lock costs no attempt.
Abandon(t) == Become(t, "running", "waiting") /\ UNCHANGED <<tries, answered>>

Bury(t)  == /\ \/ Become(t, "running", "dead")
               \/ t \notin Registered /\ Become(t, "waiting", "dead")
            /\ UNCHANGED <<tries, answered>>

\* The record of a completed task is dropped after its time to live.
Forget(t) == /\ Become(t, "completed", "absent")
             /\ tries' = [tries EXCEPT ![t] = 0]
             /\ UNCHANGED answered

Next == \E t \in Tasks : \/ Submit(t) \/ Run(t) \/ Answer(t) \/ Complete(t) \/ Reuse(t)
                         \/ Retry(t) \/ Abandon(t) \/ Bury(t) \/ Forget(t)

Spec == Init /\ [][Next]_vars
=============================================================================
