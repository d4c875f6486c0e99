---------------------------- MODULE CreditLedger ----------------------------
(***************************************************************************)
(* The durable credits ledger of src/src/billing/credits.ts                *)
(* (createDrizzleCreditsLedger) for one account: a balances row with a     *)
(* version and an append-only table of entries, written together.  A       *)
(* caller reads without a lock, commits against the version it read and    *)
(* starts over when another writer was faster.                             *)
(*                                                                         *)
(* An action is one statement or transaction on the database and the       *)
(* local code that runs when its answer arrives.                           *)
(***************************************************************************)
EXTENDS Integers

CONSTANTS
    Callers,    \* whoever calls grant, consume or set
    Requests,   \* what they may ask for
    NoKey,      \* an operation without an idempotency key
    MaxSafe,    \* Number.MAX_SAFE_INTEGER
    MaxRetries, \* options.maxRetries
    MaxCalls,   \* bound: how many calls are made
    MaxFaults   \* bound: how many transactions fail or lose their answer

Kinds == {"grant", "consume", "set"}
Safe(n) == -MaxSafe <= n /\ n <= MaxSafe

\* What assertAmount lets through: whole numbers, not negative but for set.
ASSUME LedgerAssumption ==
    /\ MaxSafe \in Nat /\ MaxRetries \in Nat /\ MaxCalls \in Nat /\ MaxFaults \in Nat
    /\ \A r \in Requests :
        /\ DOMAIN r = {"kind", "amount", "key", "neg"}
        /\ r.kind \in Kinds /\ r.neg \in BOOLEAN
        /\ r.amount \in Int /\ Safe(r.amount)
        /\ r.kind # "set" => r.amount >= 0

VARIABLES
    row,        \* the account's row of billing_credit_balances
    entries,    \* its rows of billing_credit_entries
    call,       \* each caller's call of mutate
    begun, faults

ledger == <<row, entries, call>>
vars == <<row, entries, call, begun, faults>>

NoRequest == [kind |-> "none", amount |-> 0, key |-> NoKey, neg |-> FALSE]
NoAnswer == [how |-> "none", balance |-> 0]

Keys == {r.key : r \in Requests}
Row == [balance : Int, version : Nat]
\* neg is the call's allowNegative, which the table does not keep.
Entry == [seq : Nat, kind : Kinds, delta : Int, balance : Int, key : Keys, neg : BOOLEAN]
Answers == {"applied", "duplicate", "conflict", "refused", "error"}
Answer == [how : Answers, balance : Int]
CallPc == {"idle", "find", "read", "commit", "lost", "after", "returned"}

TypeOK ==
    /\ row \in Row
    /\ entries \subseteq Entry
    /\ call \in [Callers -> [pc : CallPc, req : Requests \cup {NoRequest}, attempt : 0..MaxRetries,
                             seen : Row, answer : Answer \cup {NoAnswer}]]
    /\ \A c \in Callers : /\ call[c].pc # "idle" => call[c].req \in Requests
                          /\ call[c].pc = "returned" <=> call[c].answer # NoAnswer
    /\ begun \in Nat /\ faults \in Nat

NewAccount == [balance |-> 0, version |-> 0]
NoCall == [pc |-> "idle", req |-> NoRequest, attempt |-> 0, seen |-> NewAccount,
           answer |-> NoAnswer]

LedgerInit == /\ row = NewAccount
              /\ entries = {}
              /\ call = [c \in Callers |-> NoCall]
              /\ faults = 0
Init == LedgerInit /\ begun = 0

Goto(c, pc) == call' = [call EXCEPT ![c].pc = pc]
Return(c, how, b) ==
    call' = [call EXCEPT ![c].pc = "returned", ![c].answer = [how |-> how, balance |-> b]]

-----------------------------------------------------------------------------
(* mutate *)

Begin(c, r) ==
    /\ call[c].pc \in {"idle", "returned"}
    /\ call' = [call EXCEPT ![c] = [NoCall EXCEPT !.pc = "find", !.req = r]]
    /\ UNCHANGED <<row, entries, faults>>

Abs(n) == IF n < 0 THEN -n ELSE n
WithKey(r) == {e \in entries : r.key # NoKey /\ e.key = r.key}

\* duplicateOf: the entry of a key answers for it only if it was the same operation.
RecordedAmount(e) == IF e.kind = "set" THEN e.balance ELSE Abs(e.delta)
Matches(e, r) == e.kind = r.kind /\ RecordedAmount(e) = r.amount

\* Mutant: a repeat is answered with the balance of now.
AnswerNow(c, e) == IF Matches(e, call[c].req) THEN Return(c, "duplicate", row.balance)
                   ELSE Return(c, "conflict", 0)
AnswerTwin(c, e) == IF Matches(e, call[c].req) THEN Return(c, "duplicate", e.balance)
                    ELSE Return(c, "conflict", 0)

Find(c) ==
    /\ call[c].pc = "find"
    /\ \/ \E e \in WithKey(call[c].req) : AnswerTwin(c, e)
       \/ WithKey(call[c].req) = {} /\ Goto(c, "read")
    /\ UNCHANGED <<row, entries, faults>>

Delta(r, b) == CASE r.kind = "grant" -> r.amount
                 [] r.kind = "consume" -> -r.amount
                 [] r.kind = "set" -> r.amount - b
\* Mutant: off by one.
OverdrawsLate(r, b) == r.kind = "consume" /\ ~r.neg /\ b + Delta(r, b) < -1
Overdraws(r, b) == r.kind = "consume" /\ ~r.neg /\ b + Delta(r, b) < 0

\* ensureBalanceRow and readBalance.
Read(c) ==
    LET r == call[c].req
        next == row.balance + Delta(r, row.balance)
    IN
    /\ call[c].pc = "read"
    /\ \/ Overdraws(r, row.balance) /\ Return(c, "refused", row.balance)
       \/ ~Overdraws(r, row.balance) /\ ~Safe(next) /\ Return(c, "error", 0)
       \/ /\ ~Overdraws(r, row.balance) /\ Safe(next)
          /\ call' = [call EXCEPT ![c].pc = "commit", ![c].seen = row]
    /\ UNCHANGED <<row, entries, faults>>

\* Mutant: the entry is numbered by the version of now, its balance is the one read.
EntryLate(c) ==
    LET r == call[c].req
        was == call[c].seen
        delta == Delta(r, was.balance)
    IN [seq |-> row.version + 1, kind |-> r.kind, delta |-> delta, balance |-> was.balance + delta,
        key |-> r.key, neg |-> r.neg]

EntryOf(c) ==
    LET r == call[c].req
        was == call[c].seen
        delta == Delta(r, was.balance)
    IN [seq |-> was.version + 1, kind |-> r.kind, delta |-> delta, balance |-> was.balance + delta,
        key |-> r.key, neg |-> r.neg]

\* Mutant: the key has no index of its own.
ClashesInTurn(e) == \E f \in entries : f.seq = e.seq
\* The unique indexes on (account, seq) and (account, idempotencyKey).
Clashes(e) == \E f \in entries : f.seq = e.seq \/ (e.key # NoKey /\ f.key = e.key)

Fault == faults < MaxFaults /\ faults' = faults + 1

\* runAtomic: the update finds no row when the version moved on, and a clash of the
\* insert rolls the update back.
Commit(c) ==
    LET e == EntryOf(c) IN
    /\ call[c].pc = "commit"
    /\ ~Clashes(e)
    /\ entries' = entries \cup {e}
    /\ row' = IF row.version = call[c].seen.version
              THEN [balance |-> e.balance, version |-> e.seq] ELSE row
    /\ \/ Return(c, "applied", e.balance) /\ UNCHANGED faults
       \/ Goto(c, "lost") /\ Fault

Rollback(c) ==
    /\ call[c].pc = "commit"
    /\ \/ Clashes(EntryOf(c)) /\ UNCHANGED faults
       \/ Fault
    /\ Goto(c, "lost")
    /\ UNCHANGED <<row, entries>>

Lost(c) ==
    /\ call[c].pc = "lost"
    /\ \/ \E e \in WithKey(call[c].req) : AnswerTwin(c, e)
       \/ WithKey(call[c].req) = {} /\ Goto(c, "after")
    /\ UNCHANGED <<row, entries, faults>>

\* Only a version that moved on is taken for contention and tried again.
TryAgain(c) == row.version # call[c].seen.version /\ call[c].attempt < MaxRetries
After(c) ==
    /\ call[c].pc = "after"
    /\ \/ TryAgain(c) /\ call' = [call EXCEPT ![c].pc = "find", ![c].attempt = @ + 1]
       \/ ~TryAgain(c) /\ Return(c, "error", 0)
    /\ UNCHANGED <<row, entries, faults>>

Mutate(c) == Find(c) \/ Read(c) \/ Commit(c) \/ Rollback(c) \/ Lost(c) \/ After(c)

Call(c) == /\ begun < MaxCalls
           /\ \E r \in Requests : Begin(c, r)
           /\ begun' = begun + 1

Next == \E c \in Callers : Call(c) \/ (Mutate(c) /\ UNCHANGED begun)

Spec == Init /\ [][Next]_vars

-----------------------------------------------------------------------------
(* Properties *)

\* The entries account for the balance: numbered 1 to the row's version, each one's balance
\* is its predecessor's plus its delta, and the newest one's is the row's. A lost update of
\* two writers, or one half of runAtomic without the other, breaks the chain.
Conserved ==
    /\ {e.seq : e \in entries} = 1..row.version
    /\ \A e \in entries :
          /\ \A f \in entries : f.seq = e.seq => f = e
          /\ e.seq = 1 => e.balance = e.delta
          /\ \A f \in entries : e.seq = f.seq + 1 => e.balance = f.balance + e.delta
          /\ e.seq = row.version => e.balance = row.balance
    /\ row.version = 0 => row.balance = 0

\* A consume without allowNegative never leaves the account below zero, whoever consumed
\* between its read and its commit.
NoOverdraw == \A e \in entries : e.kind = "consume" /\ ~e.neg => e.balance >= 0

Booked(e) == [key |-> e.key, kind |-> e.kind, amount |-> RecordedAmount(e), balance |-> e.balance]

Contract == INSTANCE CreditsContract WITH
    balance <- row.balance,
    book <- {Booked(e) : e \in {f \in entries : f.key # NoKey}},
    asked <- [c \in Callers |-> call[c].req],
    answer <- [c \in Callers |-> call[c].answer]

\* The ledger implements its contract: every commit is one atomic operation on the balance,
\* a key takes effect once however often commits clash or answers get lost, and a repeat
\* answers with the result of the first.
KeepsContract == Contract!Spec
=============================================================================
