-------------------------- MODULE CreditsContract --------------------------
(***************************************************************************)
(* What docs/contracts/billing.md promises about the credits of one        *)
(* account, however the ledger is built: no overdraw, and an idempotency   *)
(* key that is applied once and afterwards answers its original result.    *)
(***************************************************************************)
EXTENDS Integers

CONSTANTS Callers, Requests, NoKey, NoRequest, NoAnswer

VARIABLES
    balance,    \* credits of the account
    book,       \* keyed operations that took effect: key, kind, amount, balance after
    asked,      \* the request a caller waits for, or waited for last
    answer      \* its answer, NoAnswer while it waits

After(r, b) == CASE r.kind = "grant" -> b + r.amount
                 [] r.kind = "consume" -> b - r.amount
                 [] r.kind = "set" -> r.amount

Overdraws(r, b) == r.kind = "consume" /\ ~r.neg /\ After(r, b) < 0
Booked(r) == {k \in book : k.key = r.key}
Waiting(c) == asked[c] # NoRequest /\ answer[c] = NoAnswer

Init == /\ balance = 0
        /\ book = {}
        /\ asked = [c \in Callers |-> NoRequest]
        /\ answer = [c \in Callers |-> NoAnswer]

Ask(c) == /\ ~Waiting(c)
          /\ \E r \in Requests : asked' = [asked EXCEPT ![c] = r]
          /\ answer' = [answer EXCEPT ![c] = NoAnswer]
          /\ UNCHANGED <<balance, book>>

Answer(c, how, b) == answer' = [answer EXCEPT ![c] = [how |-> how, balance |-> b]]

\* The operation takes effect; its answer may still get lost on the way.
Apply(c) ==
    LET r == asked[c] IN
    /\ Waiting(c)
    /\ ~Overdraws(r, balance)
    /\ r.key # NoKey => Booked(r) = {}
    /\ balance' = After(r, balance)
    /\ book' = IF r.key = NoKey THEN book
               ELSE book \cup {[key |-> r.key, kind |-> r.kind, amount |-> r.amount,
                                balance |-> After(r, balance)]}
    /\ \/ Answer(c, "applied", After(r, balance))
       \/ UNCHANGED answer
    /\ UNCHANGED asked

\* A used key answers what it answered first, or that it meant something else.
Repeat(c) ==
    LET r == asked[c] IN
    /\ Waiting(c) /\ r.key # NoKey
    /\ \E k \in Booked(r) :
          IF k.kind = r.kind /\ k.amount = r.amount
          THEN Answer(c, "duplicate", k.balance)
          ELSE Answer(c, "conflict", 0)
    /\ UNCHANGED <<balance, book, asked>>

Refuse(c) == /\ Waiting(c)
             /\ Overdraws(asked[c], balance)
             /\ Answer(c, "refused", balance)
             /\ UNCHANGED <<balance, book, asked>>

Fail(c) == Waiting(c) /\ Answer(c, "error", 0) /\ UNCHANGED <<balance, book, asked>>

\* A caller dies; what took effect stays.
Leave(c) == /\ asked' = [asked EXCEPT ![c] = NoRequest]
            /\ answer' = [answer EXCEPT ![c] = NoAnswer]
            /\ UNCHANGED <<balance, book>>

Next == \E c \in Callers :
    Ask(c) \/ Apply(c) \/ Repeat(c) \/ Refuse(c) \/ Fail(c) \/ Leave(c)

Spec == Init /\ [][Next]_<<balance, book, asked, answer>>
=============================================================================
