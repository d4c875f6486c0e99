--------------------------- MODULE BillingProofs ----------------------------
(***************************************************************************)
(* The credits ledger, for any number of callers, requests, retries and    *)
(* faults: its entries account for the balance, a consume never overdraws  *)
(* the account, and it implements CreditsContract.                         *)
(*                                                                         *)
(* And the event pipeline over it, for any number of deliveries and        *)
(* reconciliation runs, over any payments: what is marked done or answered *)
(* with 200 has run, a payment is credited once, and a hook fires once     *)
(* more only for a mishap of its own.                                      *)
(*                                                                         *)
(* The claim of an event does not exclude: it lapses under a slow runner,  *)
(* who then frees the claim of another. So the inductive invariant of the  *)
(* pipeline does not say that one runner is at an event. It counts those   *)
(* who may still run its hook, or free its claim for one who may, against  *)
(* the mishaps.                                                            *)
(***************************************************************************)
EXTENDS Billing, FiniteSetTheorems, TLAPS

USE DEF vars, ledger

-----------------------------------------------------------------------------
(* The credits ledger *)

CallRec == [pc : CallPc, req : Requests \cup {NoRequest}, attempt : 0..MaxRetries,
            seen : Row, answer : Answer \cup {NoAnswer}]

RowTyped == row \in Row
EntriesTyped == entries \subseteq Entry
CallTyped == call \in [Callers -> CallRec]
Answered == \A c \in Callers : /\ call[c].pc # "idle" => call[c].req \in Requests
                               /\ call[c].pc = "returned" <=> call[c].answer # NoAnswer
Counted == begun \in Nat /\ faults \in Nat

LEMMA TypeParts == TypeOK <=> RowTyped /\ EntriesTyped /\ CallTyped /\ Answered /\ Counted
  BY DEF TypeOK, RowTyped, EntriesTyped, CallTyped, Answered, Counted, CallRec

\* What a caller that is about to commit knows: the row as it was, which was enough.
Informed(c) ==
    /\ call[c].pc = "idle" => call[c].req = NoRequest
    /\ call[c].pc = "commit" =>
          /\ call[c].seen.version <= row.version
          /\ call[c].seen.version = row.version => call[c].seen.balance = row.balance
          /\ ~Overdraws(call[c].req, call[c].seen.balance)

\* A caller calls, whoever counts the calls.
Opens(c) == \E r \in Requests : Begin(c, r)

IInv == TypeOK /\ Conserved /\ NoOverdraw /\ \A c \in Callers : Informed(c)

\* The requests, as assertAmount leaves them.
LEMMA RequestTyped ==
    ASSUME NEW r \in Requests
    PROVE  /\ r.kind \in Kinds /\ r.neg \in BOOLEAN /\ r.amount \in Int /\ r.key \in Keys
           /\ r.kind # "set" => r.amount >= 0
           /\ r # NoRequest
  <1>1. r.kind \in Kinds /\ r.neg \in BOOLEAN /\ r.amount \in Int
    BY LedgerAssumption
  <1>2. r.kind # "set" => r.amount >= 0
    BY LedgerAssumption
  <1>3. r.key \in Keys
    BY DEF Keys
  <1>4. r # NoRequest
    BY <1>1 DEF NoRequest, Kinds
  <1> QED BY <1>1, <1>2, <1>3, <1>4

LEMMA DeltaTyped ==
    ASSUME NEW r \in Requests, NEW b \in Int
    PROVE  Delta(r, b) \in Int
  BY RequestTyped DEF Delta, Kinds

LEMMA OverdrawsTyped ==
    ASSUME NEW r \in Requests, NEW b \in Int
    PROVE  /\ r.neg \/ r.kind # "consume" => ~Overdraws(r, b)
           /\ ~r.neg /\ r.kind = "consume" => (Overdraws(r, b) <=> b < r.amount)
  <1>1. r.amount \in Int /\ (r.neg = TRUE \/ r.neg = FALSE)
    BY RequestTyped
  <1>2. r.kind = "consume" => Delta(r, b) = -r.amount
    BY DEF Delta
  <1> QED BY <1>1, <1>2 DEF Overdraws

-----------------------------------------------------------------------------
(* Types *)

\* In the middle of a call.
Busy(c) == call[c].pc \notin {"idle", "returned"}

LEMMA BecomesTyped ==
    ASSUME CallTyped, Answered, NEW c \in Callers, NEW n \in CallRec,
           n.pc \notin {"idle", "returned"}, n.req \in Requests, n.answer = NoAnswer,
           call' = [call EXCEPT ![c] = n]
    PROVE  CallTyped' /\ Answered'
  <1>1. CallTyped'
    BY DEF CallTyped
  <1>2. call'[c] = n /\ \A d \in Callers \ {c} : call'[d] = call[d]
    BY DEF CallTyped
  <1>3. Answered'
    BY <1>2 DEF Answered
  <1> QED BY <1>1, <1>3

LEMMA BusyWaits ==
    ASSUME Answered, NEW c \in Callers, Busy(c)
    PROVE  call[c].req \in Requests /\ call[c].answer = NoAnswer
  BY DEF Answered, Busy

LEMMA GotoTyped ==
    ASSUME CallTyped, Answered, NEW c \in Callers, NEW pc \in CallPc \ {"idle", "returned"},
           Busy(c), Goto(c, pc)
    PROVE  CallTyped' /\ Answered'
  <1>1. call[c] \in CallRec /\ [call[c] EXCEPT !.pc = pc] \in CallRec
    BY DEF CallTyped, CallRec
  <1>2. call' = [call EXCEPT ![c] = [call[c] EXCEPT !.pc = pc]]
    BY DEF Goto
  <1>3. CallTyped'
    BY <1>1, <1>2 DEF CallTyped
  <1>4. /\ call'[c].pc = pc /\ call'[c].req = call[c].req /\ call'[c].answer = call[c].answer
        /\ \A d \in Callers \ {c} : call'[d] = call[d]
    BY <1>1, <1>2 DEF CallTyped, CallRec
  <1>5. Answered'
    BY <1>4 DEF Answered, Busy
  <1> QED BY <1>3, <1>5

LEMMA ReturnTyped ==
    ASSUME CallTyped, Answered, NEW c \in Callers, NEW how \in Answers, NEW b \in Int,
           Busy(c), Return(c, how, b)
    PROVE  CallTyped' /\ Answered'
  <1> DEFINE a == [how |-> how, balance |-> b]
             r == [call[c] EXCEPT !.pc = "returned", !.answer = a]
  <1>1. a \in Answer /\ a # NoAnswer
    BY DEF Answer, NoAnswer, Answers
  <1>2. call[c] \in CallRec
    BY DEF CallTyped
  <1>3. r \in CallRec
    BY <1>1, <1>2 DEF CallRec, CallPc
  <1>4. call' = [call EXCEPT ![c] = r]
    BY DEF Return
  <1>5. CallTyped'
    BY <1>3, <1>4 DEF CallTyped
  <1>6. r.pc = "returned" /\ r.req = call[c].req /\ r.answer = a
    BY <1>2 DEF CallRec
  <1>7. /\ call'[c].pc = "returned" /\ call'[c].req = call[c].req /\ call'[c].answer = a
        /\ \A d \in Callers \ {c} : call'[d] = call[d]
    BY <1>4, <1>6 DEF CallTyped
  <1>8. call[c].req \in Requests
    BY DEF Answered, Busy
  <1> HIDE DEF a, r
  <1>9. Answered'
    BY <1>1, <1>7, <1>8 DEF Answered
  <1> QED BY <1>5, <1>9

LEMMA EntryTyped ==
    ASSUME CallTyped, Answered, NEW c \in Callers, Busy(c)
    PROVE  LET e == EntryOf(c)  r == call[c].req  was == call[c].seen IN
           /\ e \in Entry
           /\ e.seq = was.version + 1 /\ e.kind = r.kind /\ e.key = r.key /\ e.neg = r.neg
           /\ e.delta = Delta(r, was.balance) /\ e.balance = was.balance + e.delta
  <1>1. call[c].req \in Requests
    BY DEF Answered, Busy
  <1>2. call[c].seen.version \in Nat /\ call[c].seen.balance \in Int
    BY DEF CallTyped, CallRec, Row
  <1>3. Delta(call[c].req, call[c].seen.balance) \in Int
    BY <1>1, <1>2, DeltaTyped
  <1> QED BY <1>1, <1>2, <1>3, RequestTyped DEF EntryOf, Entry

LEMMA TwinTyped ==
    ASSUME CallTyped, Answered, EntriesTyped, NEW c \in Callers, Busy(c),
           NEW e \in entries, AnswerTwin(c, e)
    PROVE  CallTyped' /\ Answered'
  <1>1. e.balance \in Int
    BY DEF EntriesTyped, Entry
  <1>2. CASE Matches(e, call[c].req)
    BY <1>1, <1>2, ReturnTyped DEF AnswerTwin, Answers
  <1>3. CASE ~Matches(e, call[c].req)
    BY <1>3, ReturnTyped DEF AnswerTwin, Answers
  <1> QED BY <1>2, <1>3

\* Every step keeps the callers' records well-formed.
LEMMA CallStepTyped ==
    ASSUME TypeOK, NEW c \in Callers, Opens(c) \/ Mutate(c)
    PROVE  CallTyped' /\ Answered'
  <1> USE TypeParts
  <1>1. CASE Opens(c)
    <2>1. PICK r \in Requests : Begin(c, r)
      BY <1>1 DEF Opens
    <2> DEFINE n == [NoCall EXCEPT !.pc = "find", !.req = r]
    <2>2. n \in CallRec /\ n.pc = "find" /\ n.req = r /\ n.answer = NoAnswer
      <3>1. NoCall \in CallRec /\ NoCall.answer = NoAnswer
        BY LedgerAssumption DEF NoCall, CallRec, CallPc, NewAccount, Row
      <3> QED BY <3>1 DEF CallRec, CallPc
    <2>3. call' = [call EXCEPT ![c] = n]
      BY <2>1 DEF Begin
    <2> HIDE DEF n
    <2> QED BY <2>2, <2>3, BecomesTyped
  <1>2. CASE Find(c)
    <2>1. Busy(c)
      BY <1>2 DEF Find, Busy
    <2>2. CASE \E e \in WithKey(call[c].req) : AnswerTwin(c, e)
      BY <2>1, <2>2, TwinTyped DEF WithKey
    <2>3. CASE Goto(c, "read")
      BY <2>1, <2>3, GotoTyped DEF CallPc
    <2> QED BY <1>2, <2>2, <2>3 DEF Find
  <1>3. CASE Read(c)
    <2>1. Busy(c) /\ row.balance \in Int
      BY <1>3 DEF Read, Busy, RowTyped, Row
    <2>2. CASE Return(c, "refused", row.balance) \/ Return(c, "error", 0)
      BY <2>1, <2>2, ReturnTyped DEF Answers
    <2>3. CASE call' = [call EXCEPT ![c].pc = "commit", ![c].seen = row]
      <3> DEFINE n == [call[c] EXCEPT !.pc = "commit", !.seen = row]
      <3>1. call[c] \in CallRec /\ row \in Row
        BY DEF CallTyped, RowTyped
      <3>2. n \in CallRec /\ n.pc = "commit" /\ n.req = call[c].req /\ n.answer = call[c].answer
        BY <3>1 DEF CallRec, CallPc
      <3>3. call' = [call EXCEPT ![c] = n]
        BY <2>3
      <3> HIDE DEF n
      <3> QED BY <2>1, <3>2, <3>3, BusyWaits, BecomesTyped
    <2> QED BY <1>3, <2>2, <2>3 DEF Read
  <1>4. CASE Commit(c)
    <2>1. Busy(c)
      BY <1>4 DEF Commit, Busy
    <2>2. EntryOf(c).balance \in Int
      BY <2>1, EntryTyped DEF Entry
    <2>3. CASE Return(c, "applied", EntryOf(c).balance)
      BY <2>1, <2>2, <2>3, ReturnTyped DEF Answers
    <2>4. CASE Goto(c, "lost")
      BY <2>1, <2>4, GotoTyped DEF CallPc
    <2> QED BY <1>4, <2>3, <2>4 DEF Commit
  <1>5. CASE Rollback(c)
    BY <1>5, GotoTyped DEF Rollback, Busy, CallPc
  <1>6. CASE Lost(c)
    <2>1. Busy(c)
      BY <1>6 DEF Lost, Busy
    <2>2. CASE \E e \in WithKey(call[c].req) : AnswerTwin(c, e)
      BY <2>1, <2>2, TwinTyped DEF WithKey
    <2>3. CASE Goto(c, "after")
      BY <2>1, <2>3, GotoTyped DEF CallPc
    <2> QED BY <1>6, <2>2, <2>3 DEF Lost
  <1>7. CASE After(c)
    <2>1. Busy(c)
      BY <1>7 DEF After, Busy
    <2>2. CASE Return(c, "error", 0)
      BY <2>1, <2>2, ReturnTyped DEF Answers
    <2>3. CASE /\ TryAgain(c)
               /\ call' = [call EXCEPT ![c].pc = "find", ![c].attempt = @ + 1]
      <3> DEFINE n == [call[c] EXCEPT !.pc = "find", !.attempt = @ + 1]
      <3>1. call[c] \in CallRec /\ call[c].attempt + 1 \in 0..MaxRetries
        BY <2>3, LedgerAssumption DEF CallTyped, CallRec, TryAgain
      <3>2. n \in CallRec /\ n.pc = "find" /\ n.req = call[c].req /\ n.answer = call[c].answer
        BY <3>1 DEF CallRec, CallPc
      <3>3. call' = [call EXCEPT ![c] = n]
        BY <2>3
      <3> HIDE DEF n
      <3> QED BY <2>1, <3>2, <3>3, BusyWaits, BecomesTyped
    <2> QED BY <1>7, <2>2, <2>3 DEF After
  <1> QED BY <1>1, <1>2, <1>3, <1>4, <1>5, <1>6, <1>7 DEF Mutate

\* A caller's step other than a commit leaves the ledger as it is.
LEMMA OnlyCommitWrites ==
    ASSUME NEW c \in Callers, Opens(c) \/ Mutate(c), ~Commit(c)
    PROVE  UNCHANGED <<row, entries>>
  BY DEF Opens, Begin, Mutate, Find, Read, Rollback, Lost, After

LEMMA CommitWrites ==
    ASSUME TypeOK, NEW c \in Callers, Commit(c)
    PROVE  /\ EntryOf(c) \in Entry
           /\ entries' = entries \cup {EntryOf(c)}
           /\ row' \in Row
  <1> USE TypeParts
  <1>1. EntryOf(c) \in Entry
    BY EntryTyped DEF Commit, Busy
  <1> QED BY <1>1 DEF Commit, Row, RowTyped, Entry

LEMMA StepTyped ==
    ASSUME TypeOK, NEW c \in Callers, Opens(c) \/ Mutate(c), begun' \in Nat
    PROVE  TypeOK'
  <1> USE TypeParts
  <1>1. CallTyped' /\ Answered'
    BY CallStepTyped
  <1>2. RowTyped' /\ EntriesTyped'
    BY OnlyCommitWrites, CommitWrites DEF RowTyped, EntriesTyped
  <1>3. faults' \in Nat
    <2>1. faults' = faults \/ Commit(c) \/ Rollback(c)
      BY DEF Opens, Begin, Mutate, Find, Read, Lost, After
    <2>2. Commit(c) \/ Rollback(c) => faults' \in {faults, faults + 1}
      BY DEF Commit, Rollback, Fault
    <2> QED BY <2>1, <2>2 DEF Counted
  <1>4. TypeOK' <=> RowTyped' /\ EntriesTyped' /\ CallTyped' /\ Answered' /\ Counted'
    BY DEF TypeOK, RowTyped, EntriesTyped, CallTyped, Answered, Counted, CallRec
  <1> QED BY <1>1, <1>2, <1>3, <1>4 DEF Counted

-----------------------------------------------------------------------------
(* The chain of entries *)

\* The version the caller read is still the row's, and so is the balance.
LEMMA CommitIsCurrent ==
    ASSUME TypeOK, Conserved, NEW c \in Callers, Informed(c), Commit(c)
    PROVE  /\ call[c].seen.version = row.version /\ call[c].seen.balance = row.balance
           /\ EntryOf(c).seq = row.version + 1
           /\ EntryOf(c).balance = row.balance + EntryOf(c).delta
           /\ row' = [balance |-> EntryOf(c).balance, version |-> row.version + 1]
  <1> USE TypeParts
  <1> DEFINE e == EntryOf(c)
             was == call[c].seen
  <1>1. /\ e.seq = was.version + 1 /\ e.balance = was.balance + e.delta
        /\ was.version \in Nat /\ row.version \in Nat
    BY EntryTyped DEF Commit, Busy, CallTyped, CallRec, Row, RowTyped
  <1>2. was.version <= row.version /\ (was.version = row.version => was.balance = row.balance)
    BY DEF Commit, Informed
  <1>3. e.seq \notin {f.seq : f \in entries}
    BY DEF Commit, Clashes
  <1>4. e.seq \notin 1..row.version
    BY <1>3 DEF Conserved
  <1>5. was.version = row.version
    BY <1>1, <1>2, <1>4
  <1> QED BY <1>1, <1>2, <1>5 DEF Commit

LEMMA CommitConserves ==
    ASSUME TypeOK, Conserved, NEW c \in Callers, Informed(c), Commit(c)
    PROVE  Conserved'
  <1> USE TypeParts
  <1> DEFINE e == EntryOf(c)
  <1>1. /\ e.seq = row.version + 1 /\ e.balance = row.balance + e.delta
        /\ row'.balance = e.balance /\ row'.version = row.version + 1
        /\ entries' = entries \cup {e}
    BY CommitIsCurrent, CommitWrites
  <1>2. row.version \in Nat /\ row.balance \in Int
    BY DEF RowTyped, Row
  <1>3. e \in Entry /\ \A f \in entries : f \in Entry
    BY CommitWrites DEF EntriesTyped
  <1>4. \A f \in entries : f.seq \in 1..row.version
    BY DEF Conserved
  <1> HIDE DEF e
  <1>5. {f.seq : f \in entries'} = 1..row'.version
    <2>1. {f.seq : f \in entries'} = {f.seq : f \in entries} \cup {e.seq}
      BY <1>1
    <2>2. {f.seq : f \in entries} = 1..row.version
      BY DEF Conserved
    <2>3. 1..(row.version + 1) = 1..row.version \cup {row.version + 1}
      BY <1>2
    <2> QED BY <1>1, <2>1, <2>2, <2>3
  <1>6. ASSUME NEW f \in entries', NEW g \in entries'
        PROVE  /\ g.seq = f.seq => g = f
               /\ f.seq = 1 => f.balance = f.delta
               /\ f.seq = g.seq + 1 => f.balance = g.balance + f.delta
               /\ f.seq = row'.version => f.balance = row'.balance
    <2>1. f \in entries \cup {e} /\ g \in entries \cup {e}
      BY <1>1
    <2>2. CASE f = e /\ g = e
      BY <1>1, <1>2, <1>3, <2>2 DEF Conserved, Entry
    <2>3. CASE f = e /\ g \in entries
      BY <1>1, <1>2, <1>3, <1>4, <2>3 DEF Conserved, Entry
    <2>4. CASE f \in entries /\ g = e
      BY <1>1, <1>2, <1>3, <1>4, <2>4 DEF Conserved, Entry
    <2>5. CASE f \in entries /\ g \in entries
      BY <1>1, <1>2, <1>3, <1>4, <2>5 DEF Conserved, Entry
    <2> QED BY <2>1, <2>2, <2>3, <2>4, <2>5
  <1>7. row'.version # 0
    BY <1>1, <1>2
  <1> QED BY <1>5, <1>6, <1>7 DEF Conserved

LEMMA CommitAffords ==
    ASSUME TypeOK, NoOverdraw, NEW c \in Callers, Informed(c), Commit(c)
    PROVE  NoOverdraw'
  <1> USE TypeParts
  <1> DEFINE e == EntryOf(c)
             r == call[c].req
             was == call[c].seen
  <1>1. /\ e.kind = r.kind /\ e.neg = r.neg /\ e.delta = Delta(r, was.balance)
        /\ e.balance = was.balance + e.delta /\ entries' = entries \cup {e}
        /\ was.balance \in Int /\ r \in Requests
    BY EntryTyped, CommitWrites, BusyWaits DEF Commit, Busy, CallTyped, CallRec, Row
  <1>2. ~Overdraws(r, was.balance)
    BY DEF Commit, Informed
  <1>3. e.kind = "consume" /\ ~e.neg => e.balance >= 0
    BY <1>1, <1>2, DeltaTyped DEF Overdraws
  <1> QED BY <1>1, <1>3 DEF NoOverdraw

-----------------------------------------------------------------------------
(* What a caller knows *)

\* Where a step leads, and what it leaves alone.
LEMMA CallerMoves ==
    ASSUME TypeOK, NEW c \in Callers, Opens(c) \/ Mutate(c)
    PROVE  /\ \A d \in Callers \ {c} : call'[d] = call[d]
           /\ call'[c].pc # "idle"
           /\ call'[c].pc = "commit" => Read(c) /\ call'[c].seen = row
                                       /\ ~Overdraws(call'[c].req, row.balance)
  <1> USE TypeParts
  <1>0. call[c] \in CallRec
    BY DEF CallTyped
  <1> DEFINE Alone == /\ call'[c].pc \notin {"idle", "commit"}
                      /\ \A d \in Callers \ {c} : call'[d] = call[d]
  <1>1. \A pc : Goto(c, pc) /\ pc \notin {"idle", "commit"} => Alone
    BY <1>0 DEF Goto, CallTyped, CallRec
  <1>2. \A how, b : Return(c, how, b) => Alone
    BY <1>0 DEF Return, CallTyped, CallRec
  <1>3. \A e : AnswerTwin(c, e) => Alone
    BY <1>2 DEF AnswerTwin
  <1> HIDE DEF Alone
  <1>4. CASE Opens(c)
    <2>1. PICK r \in Requests : call' = [call EXCEPT ![c] = [NoCall EXCEPT !.pc = "find", !.req = r]]
      BY <1>4 DEF Opens, Begin
    <2> QED BY <2>1 DEF CallTyped, NoCall, Alone
  <1>5. Find(c) \/ Commit(c) \/ Rollback(c) \/ Lost(c) => Alone
    <2>1. Find(c) => Alone
      <3>1. Find(c) => Goto(c, "read") \/ \E e : AnswerTwin(c, e)
        BY DEF Find
      <3> QED BY <3>1, <1>1, <1>3
    <2>2. Commit(c) => Alone
      <3>1. Commit(c) => Goto(c, "lost") \/ Return(c, "applied", EntryOf(c).balance)
        BY DEF Commit
      <3> QED BY <3>1, <1>1, <1>2
    <2>3. Rollback(c) => Alone
      <3>1. Rollback(c) => Goto(c, "lost")
        BY DEF Rollback
      <3> QED BY <3>1, <1>1
    <2>4. Lost(c) => Alone
      <3>1. Lost(c) => Goto(c, "after") \/ \E e : AnswerTwin(c, e)
        BY DEF Lost
      <3> QED BY <3>1, <1>1, <1>3
    <2> QED BY <2>1, <2>2, <2>3, <2>4
  <1>6. CASE Read(c)
    <2>1. CASE Return(c, "refused", row.balance) \/ Return(c, "error", 0)
      BY <2>1, <1>2 DEF Alone
    <2>2. CASE /\ ~Overdraws(call[c].req, row.balance)
               /\ call' = [call EXCEPT ![c].pc = "commit", ![c].seen = row]
      BY <1>0, <1>6, <2>2 DEF CallTyped, CallRec
    <2> QED BY <1>6, <2>1, <2>2 DEF Read
  <1>7. After(c) => Alone
    <2>1. CASE Return(c, "error", 0)
      BY <2>1, <1>2
    <2>2. CASE call' = [call EXCEPT ![c].pc = "find", ![c].attempt = @ + 1]
      BY <1>0, <2>2 DEF CallTyped, CallRec, Alone
    <2> QED BY <2>1, <2>2 DEF After
  <1> QED BY <1>4, <1>5, <1>6, <1>7 DEF Mutate, Alone

LEMMA StaysInformed ==
    ASSUME IInv, NEW c \in Callers, Opens(c) \/ Mutate(c), NEW d \in Callers
    PROVE  Informed(d)'
  <1> USE TypeParts DEF IInv
  <1>1. row' = row \/ row'.version = row.version + 1
    BY OnlyCommitWrites, CommitIsCurrent
  <1>2. row.version \in Nat /\ call[d].seen.version \in Nat
    BY DEF RowTyped, Row, CallTyped, CallRec
  <1>3. CASE d # c
    <2>1. call'[d] = call[d]
      BY <1>3, CallerMoves
    <2> QED BY <1>1, <1>2, <2>1 DEF Informed, Overdraws, Delta
  <1>4. CASE d = c
    <2>1. CASE call'[c].pc = "commit"
      <3>1. Read(c) /\ call'[c].seen = row /\ ~Overdraws(call'[c].req, row.balance)
        BY <2>1, CallerMoves
      <3>2. row' = row
        BY <3>1 DEF Read
      <3> QED BY <1>2, <1>4, <2>1, <3>1, <3>2 DEF Informed, Overdraws, Delta
    <2>2. CASE call'[c].pc # "commit"
      BY <1>4, <2>2, CallerMoves DEF Informed
    <2> QED BY <2>1, <2>2
  <1> QED BY <1>3, <1>4

-----------------------------------------------------------------------------
(* The invariant *)

LEMMA LedgerStarts == LedgerInit /\ begun \in Nat => IInv
  <1> SUFFICES ASSUME LedgerInit, begun \in Nat PROVE IInv
    OBVIOUS
  <1>1. NoCall \in CallRec /\ NoCall.pc = "idle" /\ NoCall.req = NoRequest /\ NoCall.answer = NoAnswer
    BY LedgerAssumption DEF NoCall, CallRec, CallPc, NewAccount, Row
  <1>2. call = [c \in Callers |-> NoCall] /\ row = NewAccount /\ entries = {} /\ faults = 0
    BY DEF LedgerInit
  <1> HIDE DEF NoCall
  <1>3. TypeOK
    BY <1>1, <1>2, TypeParts
       DEF RowTyped, EntriesTyped, CallTyped, Answered, Counted, NewAccount, Row
  <1>4. Conserved /\ NoOverdraw
    BY <1>2 DEF Conserved, NoOverdraw, NewAccount
  <1>5. \A c \in Callers : Informed(c)
    BY <1>1, <1>2 DEF Informed
  <1> QED BY <1>3, <1>4, <1>5 DEF IInv

LEMMA InitInductive == Init => IInv
  BY LedgerStarts DEF Init

LEMMA StepKept ==
    ASSUME IInv, NEW c \in Callers, Opens(c) \/ Mutate(c), begun' \in Nat
    PROVE  IInv'
  <1>1. TypeOK'
    BY StepTyped DEF IInv
  <1>2. Conserved'
    BY OnlyCommitWrites, CommitConserves DEF IInv, Conserved
  <1>3. NoOverdraw'
    BY OnlyCommitWrites, CommitAffords DEF IInv, NoOverdraw
  <1>4. \A d \in Callers : Informed(d)'
    BY StaysInformed
  <1> QED BY <1>1, <1>2, <1>3, <1>4 DEF IInv

LEMMA StepInductive == IInv /\ [Next]_vars => IInv'
  <1> SUFFICES ASSUME IInv, [Next]_vars PROVE IInv'
    OBVIOUS
  <1>1. CASE UNCHANGED vars
    BY <1>1 DEF IInv, TypeOK, Conserved, NoOverdraw, Informed, Overdraws, Delta
  <1>2. CASE Next
    <2>1. PICK c \in Callers : Call(c) \/ (Mutate(c) /\ UNCHANGED begun)
      BY <1>2 DEF Next
    <2>2. (Opens(c) \/ Mutate(c)) /\ begun' \in Nat
      BY <2>1, TypeParts DEF Call, Opens, IInv, Counted
    <2> QED BY <2>2, StepKept
  <1> QED BY <1>1, <1>2

LEMMA Inductive == Spec => []IInv
  BY InitInductive, StepInductive, PTL DEF Spec

\* mutate keeps its tables and its callers' answers well-formed, for any number of callers,
\* retries and faults.
THEOREM LedgerTyped == Spec => []TypeOK
  BY Inductive, PTL DEF IInv

\* However many callers race and whatever transactions fail, the entries of the account form
\* an unbroken chain that ends at its balance.
THEOREM LedgerConserved == Spec => []Conserved
  BY Inductive, PTL DEF IInv

\* No consume without allowNegative leaves the account below zero, for any number of callers.
THEOREM LedgerNoOverdraw == Spec => []NoOverdraw
  BY Inductive, PTL DEF IInv

-----------------------------------------------------------------------------
(* The contract *)

BookOf == {Booked(e) : e \in {f \in entries : f.key # NoKey}}
AskedOf == [c \in Callers |-> call[c].req]
AnswerOf == [c \in Callers |-> call[c].answer]
contractVars == <<row.balance, BookOf, AskedOf, AnswerOf>>

LEMMA BusyIsWaiting ==
    ASSUME TypeOK, NEW c \in Callers, Busy(c)
    PROVE  Contract!Waiting(c) /\ AskedOf[c] = call[c].req /\ call[c].req \in Requests
  <1>1. call[c].req \in Requests /\ call[c].answer = NoAnswer
    BY TypeParts, BusyWaits
  <1> QED BY <1>1, RequestTyped DEF Contract!Waiting, AskedOf

\* Moving on without an answer is no step of the contract.
LEMMA GotoMaps ==
    ASSUME TypeOK, NEW c \in Callers, NEW pc, Goto(c, pc)
    PROVE  UNCHANGED <<AskedOf, AnswerOf>>
  <1>1. call[c] \in CallRec
    BY TypeParts DEF CallTyped
  <1>2. \A d \in Callers : call'[d].req = call[d].req /\ call'[d].answer = call[d].answer
    BY <1>1, TypeParts DEF Goto, CallTyped, CallRec
  <1> QED BY <1>2 DEF AskedOf, AnswerOf

LEMMA ReturnMaps ==
    ASSUME TypeOK, NEW c \in Callers, NEW how, NEW b, Return(c, how, b)
    PROVE  Contract!Answer(c, how, b) /\ UNCHANGED AskedOf
  <1>1. call[c] \in CallRec
    BY TypeParts DEF CallTyped
  <1>2. /\ \A d \in Callers : call'[d].req = call[d].req
        /\ \A d \in Callers \ {c} : call'[d].answer = call[d].answer
        /\ call'[c].answer = [how |-> how, balance |-> b]
    BY <1>1, TypeParts DEF Return, CallTyped, CallRec
  <1>3. AnswerOf' = [AnswerOf EXCEPT ![c] = [how |-> how, balance |-> b]]
    BY <1>2 DEF AnswerOf
  <1> QED BY <1>2, <1>3 DEF AskedOf, AnswerOf, Contract!Answer

\* The answer of an earlier entry is the contract's Repeat.
LEMMA TwinMaps ==
    ASSUME TypeOK, NEW c \in Callers, Busy(c), NEW e \in WithKey(call[c].req), AnswerTwin(c, e),
           UNCHANGED <<row, entries>>
    PROVE  Contract!Repeat(c)
  <1> DEFINE r == call[c].req
             k == Booked(e)
  <1>1. Contract!Waiting(c) /\ AskedOf[c] = r
    BY BusyIsWaiting
  <1>2. r.key # NoKey /\ e \in entries /\ e.key = r.key
    BY DEF WithKey
  <1>3. k \in BookOf /\ k.key = r.key /\ k.balance = e.balance
        /\ (k.kind = r.kind /\ k.amount = r.amount <=> Matches(e, r))
    BY <1>2 DEF BookOf, Booked, Matches
  <1>4. k \in Contract!Booked(r)
    BY <1>3 DEF Contract!Booked, BookOf
  <1>5. IF k.kind = r.kind /\ k.amount = r.amount THEN Contract!Answer(c, "duplicate", k.balance)
        ELSE Contract!Answer(c, "conflict", 0)
    BY <1>3, ReturnMaps DEF AnswerTwin
  <1>6. UNCHANGED <<row.balance, BookOf, AskedOf>>
    BY ReturnMaps DEF BookOf, AnswerTwin
  <1> HIDE DEF k, r
  <1> QED BY <1>1, <1>2, <1>4, <1>5, <1>6 DEF Contract!Repeat, AskedOf, BookOf, r

LEMMA OpenMaps ==
    ASSUME TypeOK, NEW c \in Callers, Informed(c), Opens(c)
    PROVE  Contract!Ask(c)
  <1>1. PICK r \in Requests : Begin(c, r)
    BY DEF Opens
  <1>2. ~Contract!Waiting(c)
    BY <1>1, TypeParts DEF Begin, Informed, Answered, Contract!Waiting
  <1>3. /\ call'[c].req = r /\ call'[c].answer = NoAnswer
        /\ \A d \in Callers \ {c} : call'[d] = call[d]
    BY <1>1, TypeParts DEF Begin, NoCall, CallTyped
  <1>4. AskedOf' = [AskedOf EXCEPT ![c] = r] /\ AnswerOf' = [AnswerOf EXCEPT ![c] = NoAnswer]
    BY <1>3 DEF AskedOf, AnswerOf
  <1>5. UNCHANGED <<row.balance, BookOf>>
    BY <1>1 DEF Begin, BookOf
  <1> QED BY <1>2, <1>4, <1>5 DEF Contract!Ask, AskedOf, AnswerOf, BookOf

LEMMA ErrorMaps ==
    ASSUME TypeOK, NEW c \in Callers, Busy(c), Return(c, "error", 0), UNCHANGED <<row, entries>>
    PROVE  Contract!Fail(c)
  BY BusyIsWaiting, ReturnMaps DEF Contract!Fail, AskedOf, BookOf

LEMMA OverdrawsMaps ==
    ASSUME NEW r \in Requests, NEW b \in Int
    PROVE  /\ Contract!Overdraws(r, b) <=> Overdraws(r, b)
           /\ Contract!After(r, b) = b + Delta(r, b)
  <1>1. Contract!After(r, b) = b + Delta(r, b)
    BY RequestTyped DEF Contract!After, Delta, Kinds
  <1> QED BY <1>1 DEF Contract!Overdraws, Overdraws

\* A commit is the contract's Apply: on the balance as it is, and under an unused key.
LEMMA CommitMaps ==
    ASSUME IInv, NEW c \in Callers, Commit(c)
    PROVE  Contract!Apply(c)
  <1> USE TypeParts DEF IInv
  <1> DEFINE r == call[c].req
             e == EntryOf(c)
  <1>1. Contract!Waiting(c) /\ AskedOf[c] = r /\ r \in Requests
    BY BusyIsWaiting DEF Commit, Busy
  <1>2. /\ e.balance = row.balance + e.delta /\ row'.balance = e.balance
        /\ call[c].seen.balance = row.balance /\ entries' = entries \cup {e}
        /\ row.balance \in Int
    BY CommitIsCurrent, CommitWrites DEF RowTyped, Row
  <1>3. e.kind = r.kind /\ e.key = r.key /\ e.delta = Delta(r, row.balance)
    BY <1>2, EntryTyped DEF Commit, Busy
  <1>4. e.balance = Contract!After(r, row.balance)
    BY <1>1, <1>2, <1>3, OverdrawsMaps
  <1>5. ~Contract!Overdraws(r, row.balance)
    BY <1>1, <1>2, OverdrawsMaps DEF Commit, Informed
  <1>6. r.key # NoKey => Contract!Booked(r) = {}
    BY <1>3 DEF Commit, Clashes, Contract!Booked, Booked
  <1>7. RecordedAmount(e) = r.amount
    BY <1>1, <1>2, <1>3, RequestTyped DEF RecordedAmount, Abs, Delta, Kinds
  <1>8. BookOf' = IF r.key = NoKey THEN BookOf
                  ELSE BookOf \cup {[key |-> r.key, kind |-> r.kind, amount |-> r.amount,
                                     balance |-> Contract!After(r, row.balance)]}
    <2>1. Booked(e) = [key |-> r.key, kind |-> r.kind, amount |-> r.amount,
                       balance |-> Contract!After(r, row.balance)]
      BY <1>3, <1>4, <1>7 DEF Booked
    <2> HIDE DEF e, r
    <2>2. BookOf' = {Booked(f) : f \in {g \in entries \cup {e} : g.key # NoKey}}
      BY <1>2 DEF BookOf, Booked, RecordedAmount, Abs
    <2>3. CASE r.key = NoKey
      BY <1>3, <2>2, <2>3 DEF BookOf
    <2>4. CASE r.key # NoKey
      BY <1>3, <2>1, <2>2, <2>4 DEF BookOf
    <2> QED BY <2>3, <2>4
  <1>9. /\ UNCHANGED AskedOf
        /\ \/ Contract!Answer(c, "applied", Contract!After(r, row.balance))
           \/ UNCHANGED AnswerOf
    <2>1. Return(c, "applied", e.balance) \/ Goto(c, "lost")
      BY DEF Commit
    <2>2. CASE Return(c, "applied", e.balance)
      <3> HIDE DEF e, r
      <3>1. PICK b : b = e.balance
        OBVIOUS
      <3>2. Return(c, "applied", b)
        BY <2>2, <3>1 DEF Return
      <3>3. Contract!Answer(c, "applied", b) /\ UNCHANGED AskedOf
        BY <3>2, ReturnMaps
      <3> QED BY <1>4, <3>1, <3>3 DEF Contract!Answer
    <2>3. CASE Goto(c, "lost")
      BY <2>3, GotoMaps
    <2> QED BY <2>1, <2>2, <2>3
  <1> HIDE DEF e, r
  <1>10. /\ row'.balance = Contract!After(AskedOf[c], row.balance)
         /\ BookOf' = IF AskedOf[c].key = NoKey THEN BookOf
                      ELSE BookOf \cup {[key |-> AskedOf[c].key, kind |-> AskedOf[c].kind,
                                         amount |-> AskedOf[c].amount,
                                         balance |-> Contract!After(AskedOf[c], row.balance)]}
    BY <1>1, <1>2, <1>4, <1>8
  <1>11. /\ ~Contract!Overdraws(AskedOf[c], row.balance)
         /\ AskedOf[c].key # NoKey => Contract!Booked(AskedOf[c]) = {}
    BY <1>1, <1>5, <1>6
  <1>12. \/ Contract!Answer(c, "applied", Contract!After(AskedOf[c], row.balance))
         \/ UNCHANGED AnswerOf
    BY <1>1, <1>9 DEF Contract!Answer
  <1> QED BY <1>1, <1>9, <1>10, <1>11, <1>12 DEF Contract!Apply, AskedOf, AnswerOf, BookOf

LEMMA StepMaps ==
    ASSUME IInv, NEW c \in Callers, Opens(c) \/ Mutate(c)
    PROVE  Contract!Next \/ UNCHANGED contractVars
  <1> USE DEF IInv
  <1> DEFINE Still == UNCHANGED <<AskedOf, AnswerOf>>
  <1>0. ~Commit(c) => UNCHANGED <<row, entries>> /\ BookOf' = BookOf
    BY OnlyCommitWrites DEF BookOf
  <1>1. CASE Opens(c)
    BY <1>1, OpenMaps DEF Contract!Next
  <1>2. CASE Commit(c)
    BY <1>2, CommitMaps DEF Contract!Next
  <1>3. CASE Find(c)
    <2>1. Busy(c) /\ UNCHANGED <<row, entries>>
      BY <1>3 DEF Find, Busy
    <2>2. CASE \E e \in WithKey(call[c].req) : AnswerTwin(c, e)
      BY <2>1, <2>2, TwinMaps DEF Contract!Next
    <2>3. CASE Goto(c, "read")
      BY <2>1, <2>3, GotoMaps DEF contractVars, BookOf
    <2> QED BY <1>3, <2>2, <2>3 DEF Find
  <1>4. CASE Lost(c)
    <2>1. Busy(c) /\ UNCHANGED <<row, entries>>
      BY <1>4 DEF Lost, Busy
    <2>2. CASE \E e \in WithKey(call[c].req) : AnswerTwin(c, e)
      BY <2>1, <2>2, TwinMaps DEF Contract!Next
    <2>3. CASE Goto(c, "after")
      BY <2>1, <2>3, GotoMaps DEF contractVars, BookOf
    <2> QED BY <1>4, <2>2, <2>3 DEF Lost
  <1>5. CASE Read(c)
    <2>1. Busy(c) /\ UNCHANGED <<row, entries>> /\ row.balance \in Int
      BY <1>5, TypeParts DEF Read, Busy, RowTyped, Row
    <2>2. CASE Overdraws(call[c].req, row.balance) /\ Return(c, "refused", row.balance)
      <3>1. Contract!Overdraws(AskedOf[c], row.balance)
        <4>1. call[c].req \in Requests /\ AskedOf[c] = call[c].req
          BY <2>1, BusyIsWaiting
        <4>2. Contract!Overdraws(call[c].req, row.balance)
          BY <2>1, <2>2, <4>1, OverdrawsMaps
        <4> QED BY <4>1, <4>2
      <3>2. Contract!Waiting(c)
        BY <2>1, BusyIsWaiting
      <3>3. Contract!Answer(c, "refused", row.balance) /\ UNCHANGED AskedOf
        <4>1. PICK b : b = row.balance
          OBVIOUS
        <4>2. Return(c, "refused", b)
          BY <2>2, <4>1 DEF Return
        <4>3. Contract!Answer(c, "refused", b) /\ UNCHANGED AskedOf
          BY <4>2, ReturnMaps
        <4> QED BY <4>1, <4>3 DEF Contract!Answer
      <3>4. UNCHANGED <<row.balance, BookOf>>
        BY <2>1 DEF BookOf
      <3>5. Contract!Refuse(c)
        BY <3>1, <3>2, <3>3, <3>4 DEF Contract!Refuse, AskedOf, BookOf
      <3> QED BY <3>5 DEF Contract!Next
    <2>3. CASE Return(c, "error", 0)
      BY <2>1, <2>3, ErrorMaps DEF Contract!Next
    <2>4. CASE call' = [call EXCEPT ![c].pc = "commit", ![c].seen = row]
      <3>1. \A d \in Callers : call'[d].req = call[d].req /\ call'[d].answer = call[d].answer
        BY <2>4, TypeParts DEF CallTyped, CallRec
      <3> QED BY <2>1, <3>1 DEF contractVars, AskedOf, AnswerOf, BookOf
    <2> QED BY <1>5, <2>2, <2>3, <2>4 DEF Read
  <1>6. CASE Rollback(c) /\ ~Commit(c)
    BY <1>0, <1>6, GotoMaps DEF Rollback, contractVars, BookOf
  <1>7. CASE After(c)
    <2>1. Busy(c) /\ UNCHANGED <<row, entries>>
      BY <1>7 DEF After, Busy
    <2>2. CASE Return(c, "error", 0)
      BY <2>1, <2>2, ErrorMaps DEF Contract!Next
    <2>3. CASE call' = [call EXCEPT ![c].pc = "find", ![c].attempt = @ + 1]
      <3>1. \A d \in Callers : call'[d].req = call[d].req /\ call'[d].answer = call[d].answer
        BY <2>3, TypeParts DEF CallTyped, CallRec
      <3> QED BY <2>1, <3>1 DEF contractVars, AskedOf, AnswerOf, BookOf
    <2> QED BY <1>7, <2>2, <2>3 DEF After
  <1> QED BY <1>1, <1>2, <1>3, <1>4, <1>5, <1>6, <1>7 DEF Mutate

LEMMA InitMaps == Init => Contract!Init
  <1> SUFFICES ASSUME Init PROVE Contract!Init
    OBVIOUS
  <1>1. \A c \in Callers : call[c].req = NoRequest /\ call[c].answer = NoAnswer
    BY DEF Init, LedgerInit, NoCall
  <1>2. row.balance = 0 /\ entries = {}
    BY DEF Init, LedgerInit, NewAccount
  <1> QED BY <1>1, <1>2 DEF Contract!Init

\* The durable ledger implements docs/contracts/billing.md as CreditsContract states it: atomic
\* operations, no overdraw, each key applied once and answered alike ever after, with any
\* number of racing callers, failed transactions and lost answers.
THEOREM LedgerKeepsContract == Spec => KeepsContract
  <1>1. Init => Contract!Init
    BY InitMaps
  <1>2. IInv /\ [Next]_vars => [Contract!Next]_contractVars
    <2> SUFFICES ASSUME IInv, [Next]_vars PROVE Contract!Next \/ UNCHANGED contractVars
      OBVIOUS
    <2>1. CASE UNCHANGED vars
      BY <2>1 DEF contractVars, BookOf, AskedOf, AnswerOf
    <2>2. CASE Next
      BY <2>2, StepMaps DEF Next, Call, Opens
    <2> QED BY <2>1, <2>2
  <1> QED BY <1>1, <1>2, Inductive, PTL
          DEF Spec, KeepsContract, Contract!Spec, contractVars, BookOf, AskedOf, AnswerOf

-----------------------------------------------------------------------------
(* The event pipeline *)

USE DEF billing, billingVars, pipeline

RunRec == [pc : RunPc, ev : Event \cup {NoEvent}, attempt : 0..3]
ReconRec == [pc : ReconPc, remote : Statuses \cup {Absent}, local : Statuses \cup {Absent},
             stale : BOOLEAN]
SeenRec == [hooks : Nat, put : BOOLEAN]

ClaimsTyped == claims \subseteq Claims /\ \A a, b \in claims : a.id = b.id => a = b
RunTyped == run \in [Runners -> RunRec]
ReconTyped == recon \in [Reconcilers -> ReconRec]
SeenTyped == seen \in [EventIds -> SeenRec]
RestTyped == /\ remote \in Statuses \cup {Absent} /\ changes \in 0..MaxChanges
             /\ sent \subseteq Event /\ mirror \in Statuses \cup {Absent}
             /\ mishaps \in 0..MaxMishaps
Typed == ClaimsTyped /\ RunTyped /\ ReconTyped /\ SeenTyped /\ RestTyped

LEMMA BillingTypes == BillingTypeOK <=> TypeOK /\ Typed
  BY DEF BillingTypeOK, Typed, ClaimsTyped, RunTyped, ReconTyped, SeenTyped, RestTyped, RunRec, ReconRec,
         SeenRec

-----------------------------------------------------------------------------
(* The invariant *)

Credited(id) == \E e \in entries : e.key = id

\* A runner that holds a claim is at the event it claimed.
Claimed == \A k \in claims :
    k.holder \in Runners => run[k.holder].ev.id = k.id /\ run[k.holder].pc \notin {"idle", "set"}

\* An answer that says the operation took effect is right.
Honest == \A c \in Callers :
    call[c].answer.how \in {"applied", "duplicate"} /\ call[c].req.key # NoKey => Credited(call[c].req.key)

\* What a runner has done for its event so far.
Done(x) == LET ev == run[x].ev IN
    /\ run[x].pc # "idle" => ev \in Event
    /\ run[x].pc \in {"grant", "granting"} => IsPayment(ev)
    /\ run[x].pc = "granting" => call[x].pc # "idle" /\ call[x].req = GrantRequest(ev.id)
    /\ run[x].pc \in {"hook", "put", "complete"} /\ IsPayment(ev) => Credited(ev.id)
    /\ run[x].pc \in {"put", "complete"} => seen[ev.id].hooks > 0
    /\ run[x].pc = "complete" => seen[ev.id].put

\* A reconciliation run is in the pipeline only to apply a drift.
Compared(r) == /\ recon[r].pc \in {"check", "apply", "persist"} => recon[r].remote \in Statuses
               /\ run[r].pc # "idle" => recon[r].pc = "apply"

\* Who may still run the hook of an event, or free its claim for one who may.
Pending(id) == {x \in Runners : /\ run[x].ev.id = id
                                /\ \/ run[x].pc \in {"grant", "granting", "hook", "del"}
                                   \/ run[x].pc \in {"get", "check"} /\ Holder(id) = x}
Vacant(id) == IF Holder(id) \in {"free", "orphan"} THEN 1 ELSE 0
HooksLeft(id) == seen[id].hooks + Cardinality(Pending(id)) + Vacant(id) <= 1 + mishaps

\* The unique index on the key, and whose grants have the size of a payment's.
KeysOnce == \A e, f \in entries : e.key = f.key /\ e.key # NoKey => e = f
GrantsPaid == \A e \in entries : e.kind = "grant" /\ e.delta = Credits => e.key \in Payments

BillingInv == /\ IInv /\ Typed /\ Claimed /\ Honest /\ SeenAfterSuccess /\ KeysOnce
              /\ \A x \in Runners : Done(x)
              /\ \A r \in Reconcilers : Compared(r)

-----------------------------------------------------------------------------
(* Claims and their holders *)

LEMMA Names == \A x \in Runners : x \in Callers /\ x # "free" /\ x # "orphan" /\ x # "done"
  BY BillingAssumption

LEMMA HolderIs ==
    ASSUME ClaimsTyped, NEW id
    PROVE  /\ \A k \in claims : k.id = id => Holder(id) = k.holder
           /\ (\A k \in claims : k.id # id) => Holder(id) = "free"
           /\ Holder(id) # "free" => \E k \in claims : k.id = id /\ k.holder = Holder(id)
           /\ Holder(id) \in Runners \cup {"free", "orphan", "done"}
<1>1. \A k \in claims : k.id = id => Holder(id) = k.holder
  BY DEF ClaimsTyped, Holder
<1>2. (\A k \in claims : k.id # id) => Holder(id) = "free"
  BY DEF Holder
<1>3. \A k \in claims : k.holder \in Runners \cup {"orphan", "done"}
  BY DEF ClaimsTyped, Claims
<1> QED BY <1>1, <1>2, <1>3

LEMMA Holds ==
    ASSUME ClaimsTyped, NEW id \in EventIds, NEW holder \in Runners \cup {"orphan", "done"}, Hold(id, holder)
    PROVE  /\ ClaimsTyped' /\ Holder(id)' = holder /\ \A j : j # id => Holder(j)' = Holder(j)
           /\ \A k \in claims' : k \in claims \/ k = [id |-> id, holder |-> holder]
           /\ \A k \in claims' : k.id = id => k.holder = holder
<1> DEFINE n == [id |-> id, holder |-> holder]
<1>1. n \in Claims /\ n.id = id /\ n.holder = holder
  BY DEF Claims
<1>2. claims' = {k \in claims : k.id # id} \cup {n}
  BY DEF Hold
<1> HIDE DEF n
<1>3. ClaimsTyped'
  BY <1>1, <1>2 DEF ClaimsTyped
<1>4. \A k \in claims' : k.id = id => k.holder = holder
  BY <1>1, <1>2
<1>5. Holder(id)' = holder
  BY <1>1, <1>2, <1>4 DEF Holder
<1>6. ASSUME NEW j, j # id
      PROVE  Holder(j)' = Holder(j)
  <2>1. \A k : k \in claims' /\ k.id = j <=> k \in claims /\ k.id = j
    BY <1>1, <1>2, <1>6
  <2> QED BY <2>1 DEF Holder
<1> QED BY <1>1, <1>2, <1>3, <1>4, <1>5, <1>6 DEF n

\* A claim vanishes.
LEMMA Frees ==
    ASSUME ClaimsTyped, NEW id, claims' = {k \in claims : k.id # id}
    PROVE  ClaimsTyped' /\ Holder(id)' = "free" /\ \A j : j # id => Holder(j)' = Holder(j)
<1>1. ClaimsTyped'
  BY DEF ClaimsTyped
<1>2. Holder(id)' = "free"
  BY DEF Holder
<1>3. ASSUME NEW j, j # id
      PROVE  Holder(j)' = Holder(j)
  <2>1. \A k : k \in claims' /\ k.id = j <=> k \in claims /\ k.id = j
    BY <1>3
  <2> QED BY <2>1 DEF Holder
<1> QED BY <1>1, <1>2, <1>3

LEMMA Vanishes ==
    ASSUME ClaimsTyped, NEW k \in claims, claims' = claims \ {k}
    PROVE  claims' = {m \in claims : m.id # k.id} /\ Holder(k.id) = k.holder
BY HolderIs DEF ClaimsTyped

-----------------------------------------------------------------------------
(* Steps of a runner *)

Others(x) == \A y \in Runners \ {x} : run'[y] = run[y]

LEMMA RunMoves ==
    ASSUME RunTyped, NEW x \in Runners, NEW pc \in RunPc, Step(x, pc)
    PROVE  /\ RunTyped' /\ Others(x)
           /\ run'[x].pc = pc /\ run'[x].ev = run[x].ev /\ run'[x].attempt = run[x].attempt
<1>1. run[x] \in RunRec
  BY DEF RunTyped
<1>2. PICK n : n = [run[x] EXCEPT !.pc = pc]
  OBVIOUS
<1>3. n \in RunRec /\ n.pc = pc /\ n.ev = run[x].ev /\ n.attempt = run[x].attempt
  BY <1>1, <1>2 DEF RunRec
<1>4. run' = [run EXCEPT ![x] = n]
  BY <1>2 DEF Step
<1> QED BY <1>3, <1>4 DEF RunTyped, Others

LEMMA RunBegins ==
    ASSUME RunTyped, NEW x \in Runners, NEW ev \in Event,
           run' = [run EXCEPT ![x] = [NoRun EXCEPT !.pc = "set", !.ev = ev]]
    PROVE  RunTyped' /\ Others(x) /\ run'[x].pc = "set" /\ run'[x].ev = ev
<1>1. PICK n : n = [NoRun EXCEPT !.pc = "set", !.ev = ev]
  OBVIOUS
<1>2. n = [pc |-> "set", ev |-> ev, attempt |-> 0]
  BY <1>1 DEF NoRun
<1>3. n \in RunRec /\ n.pc = "set" /\ n.ev = ev
  BY <1>2 DEF RunRec, RunPc
<1>4. run' = [run EXCEPT ![x] = n]
  BY <1>1
<1> QED BY <1>3, <1>4 DEF RunTyped, Others

LEMMA RunEnds ==
    ASSUME RunTyped, NEW x \in Runners, run' = [run EXCEPT ![x] = NoRun]
    PROVE  RunTyped' /\ Others(x) /\ run'[x].pc = "idle"
<1>1. NoRun \in RunRec /\ NoRun.pc = "idle"
  BY DEF RunRec, NoRun, RunPc
<1> QED BY <1>1 DEF RunTyped, Others

LEMMA EventTyped ==
    ASSUME RunTyped, NEW x \in Runners
    PROVE  /\ run[x].pc \in RunPc /\ run[x].ev \in Event \cup {NoEvent} /\ run[x].attempt \in 0..3
           /\ run[x].ev \in Event => run[x].ev.id \in EventIds /\ run[x].ev.status \in Statuses \cup {Absent}
<1>1. run[x] \in RunRec
  BY DEF RunTyped
<1> QED BY <1>1 DEF RunRec, Event

\* The step of a runner through its pipeline that ends it, whatever its result.
LEMMA Finishes ==
    ASSUME Typed, NEW x \in Runners, NEW result, Finish(x, result), \A r \in Reconcilers : Compared(r),
           run[x].pc # "idle"
    PROVE  /\ RunTyped' /\ Others(x) /\ run'[x].pc = "idle"
           /\ ReconTyped' /\ \A r \in Reconcilers : Compared(r)'
           /\ sent' \subseteq sent
           /\ result \notin {"applied", "already_applied"} => sent' = sent
           /\ \A ev \in sent \ sent' : ev = run[x].ev
<1>1. run' = [run EXCEPT ![x] = NoRun]
  BY DEF Finish
<1>2. RunTyped' /\ Others(x) /\ run'[x].pc = "idle"
  BY <1>1, RunEnds DEF Typed
<1>3. x \in Handlers <=> x \notin Reconcilers
  BY BillingAssumption DEF Runners
<1>4. CASE x \in Handlers
  <2>1. UNCHANGED recon /\ (UNCHANGED sent \/ sent' = sent \ {run[x].ev})
        /\ (result \notin {"applied", "already_applied"} => sent' = sent)
    BY <1>4 DEF Finish, Acknowledge
  <2>2. \A r \in Reconcilers : r # x /\ r \in Runners
    BY <1>3, <1>4 DEF Runners
  <2> QED BY <1>2, <2>1, <2>2 DEF Typed, ReconTyped, Compared, Others
<1>5. CASE x \in Reconcilers
  <2>1. /\ UNCHANGED sent
        /\ recon' = [recon EXCEPT ![x] = IF result = "already_applied"
                                         THEN [recon[x] EXCEPT !.pc = "persist"] ELSE NoRecon]
    BY <1>3, <1>5 DEF Finish
  <2>2. recon[x] \in ReconRec /\ recon[x].remote \in Statuses
    BY <1>5 DEF Typed, ReconTyped, Compared
  <2>3. PICK n : n = IF result = "already_applied" THEN [recon[x] EXCEPT !.pc = "persist"] ELSE NoRecon
    OBVIOUS
  <2>4. n \in ReconRec /\ (n.pc \in {"check", "apply", "persist"} => n.remote \in Statuses)
    BY <2>2, <2>3 DEF ReconRec, NoRecon, ReconPc
  <2>5. recon' = [recon EXCEPT ![x] = n]
    BY <2>1, <2>3
  <2>6. ReconTyped' /\ recon'[x] = n /\ \A r \in Reconcilers \ {x} : recon'[r] = recon[r]
    BY <1>5, <2>4, <2>5 DEF Typed, ReconTyped
  <2>7. \A r \in Reconcilers : Compared(r)'
    BY <1>2, <2>4, <2>6 DEF Compared, Others, Runners
  <2> QED BY <1>2, <2>1, <2>6, <2>7
<1> QED BY <1>3, <1>4, <1>5

-----------------------------------------------------------------------------
(* The ledger under the pipeline *)

LEMMA CallerDies ==
    ASSUME IInv, NEW x \in Callers, call' = [call EXCEPT ![x] = NoCall],
           UNCHANGED <<row, entries, begun, faults>>
    PROVE  IInv' /\ call'[x] = NoCall /\ \A d \in Callers \ {x} : call'[d] = call[d]
<1> USE TypeParts DEF IInv
<1>1. NoCall \in CallRec /\ NoCall.pc = "idle" /\ NoCall.req = NoRequest /\ NoCall.answer = NoAnswer
  BY LedgerAssumption DEF NoCall, CallRec, CallPc, NewAccount, Row
<1> HIDE DEF NoCall
<1>2. call'[x] = NoCall /\ \A d \in Callers \ {x} : call'[d] = call[d]
  BY DEF CallTyped
<1>3. CallTyped'
  BY <1>1 DEF CallTyped
<1>4. Answered'
  BY <1>1, <1>2 DEF Answered
<1>5. RowTyped' /\ EntriesTyped' /\ Counted'
  BY DEF RowTyped, EntriesTyped, Counted
<1>6. TypeOK'
  BY <1>3, <1>4, <1>5 DEF TypeOK, RowTyped, EntriesTyped, CallTyped, Answered, Counted, CallRec
<1>7. Conserved' /\ NoOverdraw'
  BY DEF Conserved, NoOverdraw
<1>8. \A d \in Callers : Informed(d)'
  BY <1>1, <1>2 DEF Informed, Overdraws, Delta
<1> QED BY <1>2, <1>6, <1>7, <1>8

\* How the ledger moves with the pipeline: not at all, by the step of a call, or a caller dies.
LEMMA LedgerMoves ==
    ASSUME BillingInv, [BillingNext]_billingVars
    PROVE  \/ UNCHANGED vars
           \/ \E c \in Callers : /\ Opens(c) \/ Mutate(c)
                                 /\ begun' \in Nat /\ UNCHANGED seen
           \/ \E x \in Runners : Crash(x)
<1>1. begun \in Nat
  BY TypeParts DEF BillingInv, IInv, Counted
<1>2. ASSUME NEW c \in Callers, (Call(c) /\ UNCHANGED billing) \/ (Mutate(c) /\ UNCHANGED <<billing, begun>>)
      PROVE  (Opens(c) \/ Mutate(c)) /\ begun' \in Nat /\ UNCHANGED seen
  BY <1>1, <1>2 DEF Call, Opens
<1>3. ASSUME NEW x \in Runners, GrantStart(x) \/ GrantStep(x)
      PROVE  x \in Callers /\ (Opens(x) \/ Mutate(x)) /\ begun' \in Nat /\ UNCHANGED seen
  <2>1. GrantStart(x) => GrantRequest(run[x].ev.id) \in Requests
    BY BillingAssumption DEF GrantStart, At, BillingInv, Done, IsPayment
  <2> QED BY <1>1, <1>3, <2>1, Names DEF GrantStart, GrantStep, Opens
<1>4. ASSUME NEW x \in Runners, RunClaimed(x), ~GrantStart(x), ~GrantStep(x)
      PROVE  UNCHANGED vars
  BY <1>4 DEF RunClaimed, ClaimSet, ClaimGet, GrantEnd, Hook, Put, Complete, Throw, ReleaseGet, ReleaseDel
<1>5. ASSUME NEW r \in Reconcilers, Reconcile(r)
      PROVE  UNCHANGED vars
  BY <1>5 DEF Reconcile, Start, List, ReadLocal, Fetch, ProviderError, CheckUnchanged, PersistAgain
<1>6. CASE Change \/ Expire \/ Lapse \/ \E h \in Handlers : \E ev \in sent : Deliver(h, ev)
  BY <1>6 DEF Change, Expire, Lapse, Deliver
<1> QED BY <1>2, <1>3, <1>4, <1>5, <1>6 DEF BillingNext, LedgerNext

LEMMA LedgerKept ==
    ASSUME BillingInv, [BillingNext]_billingVars
    PROVE  IInv'
<1>1. CASE UNCHANGED vars
  BY <1>1, StepInductive DEF BillingInv
<1>2. ASSUME NEW c \in Callers, Opens(c) \/ Mutate(c), begun' \in Nat
      PROVE  IInv'
  BY <1>2, StepKept DEF BillingInv
<1>3. ASSUME NEW x \in Runners, Crash(x)
      PROVE  IInv'
  BY <1>3, Names, CallerDies DEF Crash, BillingInv
<1> QED BY <1>1, <1>2, <1>3, LedgerMoves

-----------------------------------------------------------------------------
(* What the ledger says *)

Recorded == entries \subseteq entries'

\* A call that ends well took effect, now or before.
LEMMA AnswersMove ==
    ASSUME IInv, Honest, NEW c \in Callers, Opens(c) \/ Mutate(c)
    PROVE  /\ Recorded /\ Honest'
           /\ Mutate(c) => call'[c].req = call[c].req /\ call'[c].pc # "idle"
           /\ \A d \in Callers \ {c} : call'[d] = call[d]
<1> USE TypeParts DEF IInv
<1>0. call[c] \in CallRec
  BY DEF CallTyped
<1>1. Recorded
  BY OnlyCommitWrites, CommitWrites DEF Recorded
<1>2. call'[c].pc # "idle" /\ \A d \in Callers \ {c} : call'[d] = call[d]
  BY CallerMoves
<1> DEFINE Fair == call'[c].answer.how \in {"applied", "duplicate"} /\ call'[c].req.key # NoKey
                     => \E e \in entries' : e.key = call'[c].req.key
<1>3. \A pc : Goto(c, pc) => call'[c].req = call[c].req /\ call'[c].answer = call[c].answer
  BY <1>0 DEF Goto, CallTyped, CallRec
<1>4. \A how, b : Return(c, how, b) => call'[c].req = call[c].req /\ call'[c].answer.how = how
  BY <1>0 DEF Return, CallTyped, CallRec
<1>5. ASSUME NEW e \in WithKey(call[c].req), AnswerTwin(c, e)
      PROVE  call'[c].req = call[c].req /\ Fair
  <2>1. e \in entries /\ e.key = call[c].req.key
    BY DEF WithKey
  <2>2. call'[c].req = call[c].req
    BY <1>4, <1>5 DEF AnswerTwin
  <2> QED BY <1>1, <2>1, <2>2 DEF Credited, Recorded
<1>6. ASSUME call'[c].req = call[c].req, call'[c].answer = call[c].answer
      PROVE  Fair
  BY <1>1, <1>6 DEF Honest, Credited, Recorded
<1>7. CASE Opens(c) /\ ~Mutate(c)
  <2>1. PICK r \in Requests : call' = [call EXCEPT ![c] = [NoCall EXCEPT !.pc = "find", !.req = r]]
    BY <1>7 DEF Opens, Begin
  <2>2. call'[c].answer.how = "none"
    BY <2>1 DEF CallTyped, NoCall, NoAnswer
  <2> QED BY <1>1, <1>2, <1>7, <2>2 DEF Honest, Credited, Recorded
<1>8. CASE Mutate(c)
  <2> SUFFICES call'[c].req = call[c].req /\ Fair
    BY <1>1, <1>2 DEF Honest, Credited, Recorded
  <2>1. CASE Find(c) \/ Lost(c)
    <3>1. \/ \E e \in WithKey(call[c].req) : AnswerTwin(c, e)
          \/ Goto(c, "read") \/ Goto(c, "after")
      BY <2>1 DEF Find, Lost
    <3> QED BY <1>3, <1>5, <1>6, <3>1
  <2>2. CASE Read(c)
    <3>1. \/ Return(c, "refused", row.balance) \/ Return(c, "error", 0)
          \/ call' = [call EXCEPT ![c].pc = "commit", ![c].seen = row]
      BY <2>2 DEF Read
    <3>2. call' = [call EXCEPT ![c].pc = "commit", ![c].seen = row]
              => call'[c].req = call[c].req /\ call'[c].answer = call[c].answer
      BY <1>0 DEF CallTyped, CallRec
    <3> QED BY <1>4, <1>6, <3>1, <3>2
  <2>3. CASE Commit(c)
    <3>1. EntryOf(c) \in entries' /\ EntryOf(c).key = call[c].req.key
      BY <2>3 DEF Commit, EntryOf
    <3>2. Return(c, "applied", EntryOf(c).balance) \/ Goto(c, "lost")
      BY <2>3 DEF Commit
    <3>3. call'[c].req = call[c].req
      BY <1>3, <1>4, <3>2
    <3> QED BY <3>1, <3>3 DEF Credited
  <2>4. CASE Rollback(c)
    BY <1>3, <1>6, <2>4 DEF Rollback
  <2>5. CASE After(c)
    <3>1. Return(c, "error", 0) \/ call' = [call EXCEPT ![c].pc = "find", ![c].attempt = @ + 1]
      BY <2>5 DEF After
    <3>2. call' = [call EXCEPT ![c].pc = "find", ![c].attempt = @ + 1]
              => call'[c].req = call[c].req /\ call'[c].answer = call[c].answer
      BY <1>0 DEF CallTyped, CallRec
    <3> QED BY <1>4, <1>6, <3>1, <3>2
  <2> QED BY <1>8, <2>1, <2>2, <2>3, <2>4, <2>5 DEF Mutate
<1> QED BY <1>1, <1>2, <1>7, <1>8

\* The unique index on the idempotency key.
LEMMA KeysStayUnique ==
    ASSUME IInv, KeysOnce, NEW c \in Callers, Opens(c) \/ Mutate(c)
    PROVE  KeysOnce'
<1>1. CASE ~Commit(c)
  BY <1>1, OnlyCommitWrites DEF KeysOnce
<1>2. CASE Commit(c)
  <2>1. PICK e : e = EntryOf(c)
    OBVIOUS
  <2>2. entries' = entries \cup {e} /\ ~Clashes(e)
    BY <1>2, <2>1 DEF Commit
  <2> QED BY <2>2 DEF KeysOnce, Clashes
<1> QED BY <1>1, <1>2

\* A grant of what a payment is worth has a payment's key, whoever makes it.
PaymentsAlone == \A r \in Requests : r.kind = "grant" /\ r.amount = Credits => r.key \in Payments

LEMMA GrantsStayPaid ==
    ASSUME PaymentsAlone, IInv, GrantsPaid, NEW c \in Callers, Opens(c) \/ Mutate(c)
    PROVE  GrantsPaid'
<1>1. CASE ~Commit(c)
  BY <1>1, OnlyCommitWrites DEF GrantsPaid
<1>2. CASE Commit(c)
  <2>1. PICK e : e = EntryOf(c)
    OBVIOUS
  <2>2. entries' = entries \cup {e}
    BY <1>2, <2>1 DEF Commit
  <2>3. call[c].req \in Requests
    BY <1>2, TypeParts, BusyWaits DEF Commit, Busy, IInv
  <2>4. PICK r \in Requests : r = call[c].req
    BY <2>3
  <2>5. e.kind = r.kind /\ e.key = r.key /\ e.delta = Delta(r, call[c].seen.balance)
    BY <2>1, <2>4 DEF EntryOf
  <2>6. e.kind = "grant" => e.delta = r.amount
    BY <2>5 DEF Delta
  <2> QED BY <2>2, <2>5, <2>6 DEF GrantsPaid, PaymentsAlone
<1> QED BY <1>1, <1>2

-----------------------------------------------------------------------------
(* Events only gain *)

Grows == /\ Recorded
         /\ \A id \in EventIds : /\ seen[id].hooks <= seen'[id].hooks
                                 /\ seen[id].put => seen'[id].put

LEMMA LedgerGrows ==
    ASSUME BillingInv, [BillingNext]_billingVars
    PROVE  Recorded /\ Honest' /\ KeysOnce'
<1>1. CASE UNCHANGED vars
  BY <1>1 DEF BillingInv, Recorded, Honest, KeysOnce, Credited
<1>2. ASSUME NEW c \in Callers, Opens(c) \/ Mutate(c)
      PROVE  Recorded /\ Honest' /\ KeysOnce'
  BY <1>2, AnswersMove, KeysStayUnique DEF BillingInv
<1>3. ASSUME NEW x \in Runners, Crash(x)
      PROVE  Recorded /\ Honest' /\ KeysOnce'
  <2>1. x \in Callers /\ UNCHANGED <<row, entries, begun, faults>> /\ call' = [call EXCEPT ![x] = NoCall]
    BY <1>3, Names DEF Crash
  <2>2. call'[x] = NoCall /\ \A d \in Callers \ {x} : call'[d] = call[d]
    BY <2>1, CallerDies DEF BillingInv
  <2>3. NoCall.answer.how = "none"
    BY DEF NoCall, NoAnswer
  <2> QED BY <2>1, <2>2, <2>3 DEF BillingInv, Recorded, Honest, KeysOnce, Credited
<1> QED BY <1>1, <1>2, <1>3, LedgerMoves

LEMMA SeenMoves ==
    ASSUME BillingInv, [BillingNext]_billingVars
    PROVE  UNCHANGED seen \/ \E x \in Runners : Hook(x) \/ Put(x)
<1>1. ASSUME NEW x \in Runners, RunClaimed(x), ~Hook(x), ~Put(x)
      PROVE  UNCHANGED seen
  BY <1>1 DEF RunClaimed, ClaimSet, ClaimGet, GrantStart, GrantStep, GrantEnd, Complete, Throw, ReleaseGet,
              ReleaseDel
<1>2. ASSUME NEW r \in Reconcilers, Reconcile(r)
      PROVE  UNCHANGED seen
  BY <1>2 DEF Reconcile, Start, List, ReadLocal, Fetch, ProviderError, CheckUnchanged, PersistAgain
<1>3. CASE \/ Change \/ Expire \/ Lapse \/ LedgerNext \/ UNCHANGED billingVars
           \/ \E h \in Handlers : \E ev \in sent : Deliver(h, ev)
           \/ \E x \in Runners : Crash(x)
  BY <1>3 DEF Change, Expire, Lapse, Deliver, Crash, LedgerNext
<1> QED BY <1>1, <1>2, <1>3 DEF BillingNext

LEMMA HookCounts ==
    ASSUME BillingInv, NEW x \in Runners, Hook(x)
    PROVE  LET id == run[x].ev.id IN
           /\ id \in EventIds /\ seen'[id].hooks = seen[id].hooks + 1 /\ seen'[id].put = seen[id].put
           /\ SeenTyped' /\ \A j \in EventIds \ {id} : seen'[j] = seen[j]
<1>1. PICK id : id = run[x].ev.id
  OBVIOUS
<1>2. id \in EventIds
  BY <1>1, EventTyped DEF Hook, At, BillingInv, Done, Typed
<1>3. seen \in [EventIds -> SeenRec] /\ seen[id] \in SeenRec
  BY <1>2 DEF BillingInv, Typed, SeenTyped
<1>4. PICK n : n = [seen[id] EXCEPT !.hooks = seen[id].hooks + 1]
  OBVIOUS
<1>5. seen' = [seen EXCEPT ![id] = n]
  BY <1>1, <1>4 DEF Hook
<1>6. n \in SeenRec /\ n.hooks = seen[id].hooks + 1 /\ n.put = seen[id].put
  BY <1>3, <1>4 DEF SeenRec
<1> QED BY <1>1, <1>2, <1>3, <1>5, <1>6 DEF SeenTyped

LEMMA PutMarks ==
    ASSUME BillingInv, NEW x \in Runners, Put(x)
    PROVE  LET id == run[x].ev.id IN
           /\ id \in EventIds /\ seen'[id].hooks = seen[id].hooks /\ seen'[id].put
           /\ SeenTyped' /\ \A j \in EventIds \ {id} : seen'[j] = seen[j]
<1>1. PICK id : id = run[x].ev.id
  OBVIOUS
<1>2. id \in EventIds
  BY <1>1, EventTyped DEF Put, At, BillingInv, Done, Typed
<1>3. seen \in [EventIds -> SeenRec] /\ seen[id] \in SeenRec
  BY <1>2 DEF BillingInv, Typed, SeenTyped
<1>4. PICK n : n = [seen[id] EXCEPT !.put = TRUE]
  OBVIOUS
<1>5. seen' = [seen EXCEPT ![id] = n]
  BY <1>1, <1>4 DEF Put
<1>6. n \in SeenRec /\ n.hooks = seen[id].hooks /\ n.put
  BY <1>3, <1>4 DEF SeenRec
<1> QED BY <1>1, <1>2, <1>3, <1>5, <1>6 DEF SeenTyped

LEMMA EventsGain ==
    ASSUME BillingInv, [BillingNext]_billingVars
    PROVE  SeenTyped' /\ Grows
<1>1. \A id \in EventIds : seen[id].hooks \in Nat
  BY DEF BillingInv, Typed, SeenTyped, SeenRec
<1>2. CASE UNCHANGED seen
  BY <1>1, <1>2, LedgerGrows DEF Grows, BillingInv, Typed, SeenTyped
<1>3. ASSUME NEW x \in Runners, Hook(x)
      PROVE  SeenTyped' /\ Grows
  BY <1>1, <1>3, LedgerGrows, HookCounts DEF Grows
<1>4. ASSUME NEW x \in Runners, Put(x)
      PROVE  SeenTyped' /\ Grows
  BY <1>1, <1>4, LedgerGrows, PutMarks DEF Grows
<1> QED BY <1>2, <1>3, <1>4, SeenMoves

LEMMA RanStays ==
    ASSUME SeenTyped, SeenTyped', Grows, NEW id \in EventIds, Ran(id)
    PROVE  Ran(id)'
<1>1. seen[id].hooks \in Nat /\ seen'[id].hooks \in Nat
  BY DEF SeenTyped, SeenRec
<1>2. seen'[id].hooks > 0 /\ seen'[id].put
  BY <1>1 DEF Ran, Grows
<1>3. id \in Payments => \E e \in entries' : e.key = id
  BY DEF Ran, Grows, Recorded
<1> QED BY <1>2, <1>3 DEF Ran

-----------------------------------------------------------------------------
(* Runs and reconciliation runs keep their types *)

AllCompared == \A r \in Reconcilers : Compared(r)

LEMMA Steps ==
    ASSUME Typed, AllCompared, NEW x \in Runners, NEW pc \in RunPc, pc # "idle", run[x].pc # "idle",
           Step(x, pc), recon' = recon
    PROVE  RunTyped' /\ Others(x) /\ ReconTyped' /\ AllCompared'
<1>1. RunTyped' /\ Others(x) /\ run'[x].pc = pc
  BY RunMoves DEF Typed
<1>2. ReconTyped'
  BY DEF Typed, ReconTyped
<1>3. \A r \in Reconcilers : r \in Runners
  BY DEF Runners
<1> QED BY <1>1, <1>2, <1>3 DEF AllCompared, Compared, Others

LEMMA Stores ==
    ASSUME ReconTyped, NEW state \in [Reconcilers -> ReconRec], NEW status, Store(status, state)
    PROVE  ReconTyped' /\ \A r \in Reconcilers : recon'[r].pc = state[r].pc /\ recon'[r].remote = state[r].remote
<1> SUFFICES ASSUME NEW r \in Reconcilers
             PROVE  /\ recon'[r] \in ReconRec /\ recon'[r].pc = state[r].pc
                    /\ recon'[r].remote = state[r].remote
  BY DEF ReconTyped, Store
<1>1. state[r] \in ReconRec
  OBVIOUS
<1>2. recon'[r] = state[r] \/ recon'[r] = [state[r] EXCEPT !.stale = TRUE]
  BY DEF Store
<1> QED BY <1>1, <1>2 DEF ReconRec

RunsWell == RunTyped' /\ ReconTyped' /\ AllCompared'

LEMMA ClaimGetWell ==
    ASSUME Typed, AllCompared, NEW x \in Runners, ClaimGet(x)
    PROVE  RunsWell /\ sent' \subseteq sent /\ Others(x)
<1> DEFINE holder == Holder(run[x].ev.id)
<1>1. run[x].pc = "get" /\ run[x].attempt \in 0..3
  BY EventTyped DEF ClaimGet, At, Typed
<1>2. CASE /\ Step(x, IF IsPayment(run[x].ev) THEN "grant" ELSE "hook")
           /\ UNCHANGED <<sent, recon>>
  <2>1. PICK pc \in {"grant", "hook"} : Step(x, pc)
    BY <1>2
  <2> QED BY <1>1, <1>2, <2>1, Steps DEF RunsWell, RunPc
<1>3. CASE /\ run[x].attempt < 3 /\ run' = [run EXCEPT ![x].pc = "set", ![x].attempt = @ + 1]
           /\ UNCHANGED <<sent, recon>>
  <2>1. PICK m \in 0..3 : m = run[x].attempt + 1
    BY <1>1, <1>3
  <2>2. run[x] \in RunRec
    BY DEF Typed, RunTyped
  <2>3. PICK n : n = [run[x] EXCEPT !.pc = "set", !.attempt = m]
    OBVIOUS
  <2>4. n \in RunRec /\ n.pc = "set"
    BY <2>2, <2>3 DEF RunRec, RunPc
  <2>5. run' = [run EXCEPT ![x] = n]
    BY <1>3, <2>1, <2>2, <2>3 DEF RunRec
  <2>6. RunTyped' /\ Others(x) /\ run'[x].pc = "set"
    BY <2>4, <2>5 DEF Typed, RunTyped, Others
  <2> QED BY <1>1, <1>3, <2>6 DEF RunsWell, Typed, ReconTyped, AllCompared, Compared, Others, Runners
<1>4. CASE Finish(x, "already_applied") \/ Finish(x, "in_flight")
  BY <1>1, <1>4, Finishes DEF RunsWell, AllCompared
<1> QED BY <1>1, <1>2, <1>3, <1>4 DEF ClaimGet

LEMMA PutWell ==
    ASSUME Typed, AllCompared, NEW x \in Runners, Put(x), run[x].ev \in Event
    PROVE  RunsWell /\ Others(x) /\ mirror' \in Statuses \cup {Absent}
<1>1. RunTyped' /\ Others(x) /\ run'[x].pc = "complete"
  BY RunMoves DEF Put, RunPc, Typed
<1>2. run[x].pc = "put"
  BY DEF Put, At
<1>3. /\ ReconTyped' /\ mirror' \in Statuses \cup {Absent}
      /\ \A r \in Reconcilers : recon'[r].pc = recon[r].pc /\ recon'[r].remote = recon[r].remote
  <2>1. CASE UNCHANGED <<mirror, recon>>
    BY <2>1 DEF Typed, ReconTyped, RestTyped
  <2>2. CASE Store(run[x].ev.status, recon)
    <3>1. run[x].ev.status \in Statuses \cup {Absent}
      BY EventTyped DEF Typed
    <3>2. mirror' = run[x].ev.status
      BY <2>2 DEF Store
    <3>3. recon \in [Reconcilers -> ReconRec] /\ ReconTyped
      BY DEF Typed, ReconTyped
    <3> QED BY <2>2, <3>1, <3>2, <3>3, Stores
  <2> QED BY <2>1, <2>2 DEF Put
<1> QED BY <1>1, <1>2, <1>3 DEF RunsWell, AllCompared, Compared, Others, Runners

LEMMA RunClaimedWell ==
    ASSUME Typed, AllCompared, NEW x \in Runners, Done(x), RunClaimed(x)
    PROVE  RunsWell /\ RestTyped' /\ Others(x)
<1>1. CASE ClaimGet(x)
  <2>1. RunsWell /\ sent' \subseteq sent /\ Others(x)
    BY <1>1, ClaimGetWell
  <2> QED BY <1>1, <2>1 DEF ClaimGet, RestTyped, Typed
<1>2. CASE Put(x)
  <2>1. run[x].ev \in Event
    BY <1>2 DEF Put, At, Done
  <2>2. RunsWell /\ Others(x) /\ mirror' \in Statuses \cup {Absent}
    BY <1>2, <2>1, PutWell
  <2> QED BY <1>2, <2>2 DEF Put, RestTyped, Typed
<1>3. CASE Complete(x) \/ ReleaseDel(x) \/ (ReleaseGet(x) /\ Finish(x, "failed"))
  <2>1. PICK result : Finish(x, result)
    BY <1>3 DEF Complete, ReleaseDel
  <2>2. run[x].pc # "idle"
    BY <1>3 DEF Complete, ReleaseDel, ReleaseGet, At
  <2>3. RunsWell /\ Others(x) /\ sent' \subseteq sent
    BY <2>1, <2>2, Finishes DEF RunsWell, AllCompared
  <2>4. UNCHANGED <<remote, changes, mirror, mishaps>>
    BY <1>3 DEF Complete, ReleaseDel, ReleaseGet
  <2> QED BY <2>3, <2>4 DEF RestTyped, Typed
<1>4. CASE \/ ClaimSet(x) \/ GrantStart(x) \/ GrantEnd(x) \/ Hook(x) \/ Throw(x)
           \/ (ReleaseGet(x) /\ ~Finish(x, "failed"))
  <2>1. PICK pc \in {"get", "granting", "hook", "check", "put", "del"} : Step(x, pc)
    BY <1>4 DEF ClaimSet, GrantStart, GrantEnd, Hook, Throw, ReleaseGet
  <2>2. run[x].pc # "idle"
    BY <1>4 DEF ClaimSet, GrantStart, GrantEnd, Hook, Throw, ReleaseGet, At
  <2>3. UNCHANGED recon
    BY <1>4 DEF ClaimSet, GrantStart, GrantEnd, Hook, Throw, ReleaseGet
  <2>4. RunsWell /\ Others(x)
    BY <2>1, <2>2, <2>3, Steps DEF RunsWell, RunPc
  <2>5. UNCHANGED <<remote, changes, sent, mirror>> /\ mishaps' \in {mishaps, mishaps + 1}
        /\ (mishaps' # mishaps => mishaps < MaxMishaps)
    BY <1>4 DEF ClaimSet, GrantStart, GrantEnd, Hook, Throw, ReleaseGet, Mishap
  <2>6. mishaps' \in 0..MaxMishaps
    BY <2>5, BillingAssumption DEF RestTyped, Typed
  <2> QED BY <2>4, <2>5, <2>6 DEF RestTyped, Typed
<1>5. CASE GrantStep(x)
  BY <1>5 DEF GrantStep, RunsWell, Typed, RunTyped, ReconTyped, RestTyped, AllCompared, Compared, Others
<1> QED BY <1>1, <1>2, <1>3, <1>4, <1>5 DEF RunClaimed

-----------------------------------------------------------------------------
(* Reconciliation *)

\* A reconciliation run changes its own record to n.
LEMMA ReconMoves ==
    ASSUME ReconTyped, AllCompared, NEW r \in Reconcilers, NEW n \in ReconRec, recon' = [recon EXCEPT ![r] = n],
           n.pc \in {"check", "apply", "persist"} => n.remote \in Statuses,
           run'[r].pc # "idle" => n.pc = "apply",
           \A q \in Reconcilers \ {r} : run'[q] = run[q]
    PROVE  ReconTyped' /\ AllCompared'
<1>1. ReconTyped' /\ recon'[r] = n /\ \A q \in Reconcilers \ {r} : recon'[q] = recon[q]
  BY DEF ReconTyped
<1> QED BY <1>1 DEF AllCompared, Compared

LEMMA ReconcileWell ==
    ASSUME Typed, AllCompared, NEW r \in Reconcilers, Reconcile(r)
    PROVE  /\ RunsWell /\ RestTyped' /\ Others(r)
           /\ run' # run => /\ run[r].pc = "idle" /\ run'[r].pc = "set" /\ run'[r].ev \in Event
                            /\ UNCHANGED <<claims, seen, entries, call>>
<1>0. recon[r] \in ReconRec /\ recon[r].remote \in Statuses \cup {Absent} /\ remote \in Statuses \cup {Absent}
      /\ mirror \in Statuses \cup {Absent} /\ recon[r].local \in Statuses \cup {Absent}
  BY DEF Typed, ReconTyped, RestTyped, ReconRec
<1>1. recon[r].pc # "apply" => run[r].pc = "idle"
  BY DEF AllCompared, Compared
<1>2. NoRecon \in ReconRec /\ NoRecon.pc = "idle"
  BY DEF NoRecon, ReconRec, ReconPc
<1>3. ASSUME NEW n \in ReconRec, recon' = [recon EXCEPT ![r] = n], recon[r].pc # "apply", UNCHANGED run,
             n.pc \in {"check", "apply", "persist"} => n.remote \in Statuses
      PROVE  RunsWell /\ Others(r)
  BY <1>1, <1>3, ReconMoves DEF RunsWell, Typed, RunTyped, Others
<1>4. ASSUME NEW local \in Statuses \cup {Absent}, NEW status \in Statuses \cup {Absent},
             status \in Statuses \/ local = status, Compare(r, local, status), recon[r].pc # "apply", UNCHANGED run
      PROVE  RunsWell /\ Others(r)
  <2>1. PICK n : n = IF local = status THEN NoRecon
                     ELSE [recon[r] EXCEPT !.pc = "check", !.remote = status, !.local = local]
    OBVIOUS
  <2>2. n \in ReconRec /\ (n.pc \in {"check", "apply", "persist"} => n.remote \in Statuses)
    BY <1>0, <1>2, <1>4, <2>1 DEF ReconRec, ReconPc
  <2>3. recon' = [recon EXCEPT ![r] = n]
    BY <1>4, <2>1 DEF Compare
  <2> QED BY <1>3, <1>4, <2>2, <2>3
<1>5. CASE Start(r) \/ List(r) \/ (ReadLocal(r) /\ recon[r].remote = Absent /\ mirror # Absent)
  <2>1. PICK n : n = IF Start(r) THEN [recon[r] EXCEPT !.pc = "list"]
                     ELSE IF List(r) THEN [recon[r] EXCEPT !.pc = "local", !.remote = remote]
                     ELSE [recon[r] EXCEPT !.pc = "get", !.local = mirror]
    OBVIOUS
  <2>2. n \in ReconRec /\ n.pc \notin {"check", "apply", "persist"}
    BY <1>0, <2>1 DEF ReconRec, ReconPc
  <2>3. Start(r) => recon' = [recon EXCEPT ![r] = [recon[r] EXCEPT !.pc = "list"]]
    BY DEF Start
  <2>4. List(r) => recon' = [recon EXCEPT ![r] = [recon[r] EXCEPT !.pc = "local", !.remote = remote]]
    BY <1>0 DEF List, ReconRec
  <2>5. ReadLocal(r) /\ recon[r].remote = Absent /\ mirror # Absent
            => recon' = [recon EXCEPT ![r] = [recon[r] EXCEPT !.pc = "get", !.local = mirror]]
    BY <1>0 DEF ReadLocal, ReconRec
  <2>6. recon' = [recon EXCEPT ![r] = n]
    BY <1>5, <2>1, <2>3, <2>4, <2>5
  <2>7. recon[r].pc # "apply" /\ UNCHANGED <<run, remote, changes, sent, mirror, mishaps>>
    BY <1>5 DEF Start, List, ReadLocal, ReconAt
  <2> QED BY <1>3, <2>2, <2>6, <2>7 DEF Typed, RestTyped
<1>6. CASE ReadLocal(r) /\ ~(recon[r].remote = Absent /\ mirror # Absent)
  <2>1. Compare(r, mirror, recon[r].remote) /\ recon[r].pc # "apply"
        /\ UNCHANGED <<run, remote, changes, sent, mirror, mishaps>>
    BY <1>6 DEF ReadLocal, ReconAt
  <2>2. recon[r].remote \in Statuses \/ mirror = recon[r].remote
    BY <1>0, <1>6
  <2> QED BY <1>0, <1>4, <2>1, <2>2 DEF Typed, RestTyped
<1>7. CASE Fetch(r)
  <2>1. recon[r].pc # "apply" /\ UNCHANGED <<run, remote, changes, sent, mirror, mishaps>>
    BY <1>7 DEF Fetch, ReconAt
  <2>2. \/ remote # Absent /\ Compare(r, recon[r].local, remote)
        \/ recon' = [recon EXCEPT ![r] = NoRecon]
        \/ Compare(r, recon[r].local, "canceled")
    BY <1>7 DEF Fetch
  <2>3. "canceled" \in Statuses /\ (remote # Absent => remote \in Statuses)
    BY <1>0 DEF Statuses
  <2> QED BY <1>0, <1>2, <1>3, <1>4, <2>1, <2>2, <2>3 DEF Typed, RestTyped
<1>8. CASE ProviderError(r)
  <2>1. recon[r].pc # "apply" /\ UNCHANGED <<run, remote, changes, sent, mirror>>
        /\ recon' = [recon EXCEPT ![r] = NoRecon] /\ mishaps < MaxMishaps /\ mishaps' = mishaps + 1
    BY <1>8 DEF ProviderError, Mishap
  <2>2. mishaps' \in 0..MaxMishaps
    BY <2>1, BillingAssumption DEF Typed, RestTyped
  <2> QED BY <1>2, <1>3, <2>1, <2>2 DEF Typed, RestTyped
<1>9. CASE PersistAgain(r)
  <2>1. recon[r].pc = "persist" /\ UNCHANGED <<run, remote, changes, sent, mishaps>>
        /\ Store(recon[r].remote, [recon EXCEPT ![r] = NoRecon])
    BY <1>9 DEF PersistAgain, ReconAt
  <2>2. mirror' \in Statuses \cup {Absent}
    BY <1>0, <2>1 DEF Store
  <2>3. PICK state : state = [recon EXCEPT ![r] = NoRecon]
    OBVIOUS
  <2>4. state \in [Reconcilers -> ReconRec] /\ state[r] = NoRecon /\ \A q \in Reconcilers \ {r} : state[q] = recon[q]
    BY <1>2, <2>3 DEF Typed, ReconTyped
  <2>5. ReconTyped' /\ \A q \in Reconcilers : recon'[q].pc = state[q].pc /\ recon'[q].remote = state[q].remote
    BY <2>1, <2>3, <2>4, Stores DEF Typed
  <2>6. AllCompared'
    BY <1>1, <1>2, <2>1, <2>4, <2>5 DEF AllCompared, Compared
  <2> QED BY <2>1, <2>2, <2>5, <2>6 DEF RunsWell, Typed, RestTyped, RunTyped, Others
<1>10. CASE CheckUnchanged(r) /\ recon[r].stale
  <2>1. recon[r].pc # "apply" /\ UNCHANGED <<run, remote, changes, sent, mirror, mishaps>>
        /\ recon' = [recon EXCEPT ![r] = NoRecon]
    BY <1>10 DEF CheckUnchanged, ReconAt
  <2> QED BY <1>2, <1>3, <2>1 DEF Typed, RestTyped
<1>11. CASE CheckUnchanged(r) /\ ~recon[r].stale
  <2>1. PICK ev : ev = [id |-> <<"drift", recon[r].local, recon[r].remote>>, status |-> recon[r].remote]
    OBVIOUS
  <2>2. /\ recon[r].pc = "check" /\ recon' = [recon EXCEPT ![r].pc = "apply"]
        /\ run' = [run EXCEPT ![r] = [NoRun EXCEPT !.pc = "set", !.ev = ev]]
        /\ UNCHANGED <<remote, changes, sent, claims, mirror, seen, mishaps, vars>>
    BY <1>11, <2>1 DEF CheckUnchanged, ReconAt
  <2>3. recon[r].remote \in Statuses
    BY <2>2 DEF AllCompared, Compared
  <2>4. ev \in Event
    <3>1. ev.id \in EventIds
      BY <1>0, <2>1, <2>3 DEF EventIds, Drifts
    <3> QED BY <2>1, <2>3, <3>1 DEF Event
  <2>5. r \in Runners
    BY DEF Runners
  <2>6. RunTyped' /\ Others(r) /\ run'[r].pc = "set" /\ run'[r].ev = ev
    BY <2>2, <2>4, <2>5, RunBegins DEF Typed
  <2>7. PICK n : n = [recon[r] EXCEPT !.pc = "apply"]
    OBVIOUS
  <2>8. n \in ReconRec /\ n.pc = "apply" /\ n.remote \in Statuses /\ recon' = [recon EXCEPT ![r] = n]
    BY <1>0, <2>2, <2>3, <2>7 DEF ReconRec, ReconPc
  <2>9. ReconTyped' /\ AllCompared'
    BY <2>6, <2>8, ReconMoves DEF Typed, Others, Runners
  <2> QED BY <1>1, <2>2, <2>4, <2>6, <2>9 DEF RunsWell, Typed, RestTyped
<1> QED BY <1>5, <1>6, <1>7, <1>8, <1>9, <1>10, <1>11 DEF Reconcile

-----------------------------------------------------------------------------
(* Claims *)

ClaimsWell == ClaimsTyped' /\ Claimed'

\* The claim of an event a runner is at, if it is its own.
LEMMA OwnClaim ==
    ASSUME ClaimsTyped, Claimed, NEW x \in Runners, NEW k \in claims, k.holder = x
    PROVE  /\ k.id = run[x].ev.id /\ Holder(run[x].ev.id) = x
           /\ run[x].pc \notin {"idle", "set"}
BY HolderIs DEF Claimed

\* A runner moves; what it holds afterwards is a claim of its event.
LEMMA MovesWithClaims ==
    ASSUME Claimed, NEW x \in Runners, Others(x),
           \A k \in claims' : k.holder \in Runners /\ k.holder # x => k \in claims,
           \A k \in claims' : k.holder = x => run'[x].ev.id = k.id /\ run'[x].pc \notin {"idle", "set"}
    PROVE  Claimed'
BY DEF Claimed, Others

LEMMA RunClaimedClaims ==
    ASSUME BillingInv, NEW x \in Runners, RunClaimed(x), Others(x)
    PROVE  ClaimsWell
<1> DEFINE id == run[x].ev.id
<1> USE DEF BillingInv, Typed
<1>1. ASSUME UNCHANGED claims, run'[x].ev = run[x].ev, run'[x].pc \notin {"idle", "set"}
      PROVE  ClaimsWell
  BY <1>1, OwnClaim, MovesWithClaims DEF ClaimsWell, ClaimsTyped
<1>2. ASSUME UNCHANGED claims, Holder(id) # x \/ run[x].pc = "set"
      PROVE  ClaimsWell
  BY <1>2, OwnClaim, MovesWithClaims DEF ClaimsWell, ClaimsTyped
<1>3. run[x].pc # "idle" => id \in EventIds
  BY EventTyped DEF Done
<1>4. CASE ClaimSet(x)
  <2>1. run[x].pc = "set" /\ Step(x, "get")
    BY <1>4 DEF ClaimSet, At
  <2>2. run'[x].pc = "get" /\ run'[x].ev = run[x].ev
    BY <2>1, RunMoves DEF RunPc
  <2>3. CASE UNCHANGED claims
    BY <1>1, <2>2, <2>3
  <2>4. CASE Hold(id, x)
    <3>1. /\ ClaimsTyped'
          /\ \A k \in claims' : k \in claims \/ k = [id |-> id, holder |-> x]
      BY <1>3, <2>1, <2>4, Holds
    <3>2. \A k \in claims' : k.holder = x => k.id = id
      BY <2>1, <3>1, OwnClaim
    <3> QED BY <2>2, <3>1, <3>2, MovesWithClaims DEF ClaimsWell
  <2> QED BY <1>4, <2>3, <2>4 DEF ClaimSet
<1>5. CASE ClaimGet(x)
  <2>1. UNCHANGED claims /\ (Holder(id) # x \/ Step(x, IF IsPayment(run[x].ev) THEN "grant" ELSE "hook"))
    BY <1>5, Names DEF ClaimGet
  <2>2. ASSUME Step(x, IF IsPayment(run[x].ev) THEN "grant" ELSE "hook")
        PROVE  run'[x].ev = run[x].ev /\ run'[x].pc \notin {"idle", "set"}
    <3>1. PICK pc \in {"grant", "hook"} : Step(x, pc)
      BY <2>2
    <3> QED BY <3>1, RunMoves DEF RunPc
  <2> QED BY <1>1, <1>2, <2>1, <2>2
<1>6. CASE GrantStep(x)
  BY <1>6 DEF GrantStep, ClaimsWell, ClaimsTyped, Claimed
<1>7. CASE \/ GrantStart(x) \/ GrantEnd(x) \/ Hook(x) \/ Put(x) \/ Throw(x)
           \/ (ReleaseGet(x) /\ Holder(id) = x)
  <2>1. PICK pc \in {"granting", "hook", "check", "put", "complete", "del"} : Step(x, pc)
    BY <1>7 DEF GrantStart, GrantEnd, Hook, Put, Throw, ReleaseGet
  <2>2. run'[x].ev = run[x].ev /\ run'[x].pc \notin {"idle", "set"}
    BY <2>1, RunMoves DEF RunPc
  <2>3. UNCHANGED claims
    BY <1>7 DEF GrantStart, GrantEnd, Hook, Put, Throw, ReleaseGet
  <2> QED BY <1>1, <2>2, <2>3
<1>8. CASE ReleaseGet(x) /\ Holder(id) # x
  BY <1>2, <1>8 DEF ReleaseGet
<1>9. CASE Complete(x)
  <2>1. Hold(id, "done") /\ id \in EventIds
    BY <1>3, <1>9 DEF Complete, At
  <2>2. /\ ClaimsTyped' /\ \A k \in claims' : k.id = id => k.holder = "done"
        /\ \A k \in claims' : k \in claims \/ k = [id |-> id, holder |-> "done"]
    BY <2>1, Holds
  <2>3. \A k \in claims' : k.holder # x
    BY <2>2, OwnClaim, Names
  <2> QED BY <2>2, <2>3, Names, MovesWithClaims DEF ClaimsWell
<1>10. CASE ReleaseDel(x)
  <2>1. claims' = {k \in claims : k.id # id}
    BY <1>10 DEF ReleaseDel
  <2>2. \A k \in claims' : k \in claims /\ k.holder # x
    BY <2>1, OwnClaim
  <2> QED BY <2>1, <2>2, Frees, MovesWithClaims DEF ClaimsWell
<1> QED BY <1>4, <1>5, <1>6, <1>7, <1>8, <1>9, <1>10 DEF RunClaimed

LEMMA CrashClaims ==
    ASSUME BillingInv, NEW x \in Runners, Crash(x)
    PROVE  /\ ClaimsWell /\ Others(x)
           /\ \A k \in claims' : k \in claims \/ k.holder = "orphan"
           /\ \A k \in claims' : k.holder # x
           /\ \A id : Holder(id)' = Holder(id) \/ (Holder(id) = x /\ Holder(id)' = "orphan")
<1> DEFINE Orphaned(k) == IF k.holder = x THEN [k EXCEPT !.holder = "orphan"] ELSE k
<1>0. ClaimsTyped /\ Claimed /\ RunTyped
  BY DEF BillingInv, Typed
<1>1. \A k \in claims : /\ Orphaned(k) \in Claims /\ Orphaned(k).id = k.id
                        /\ k.holder = x => Orphaned(k).holder = "orphan"
                        /\ k.holder # x => Orphaned(k) = k
  BY <1>0 DEF ClaimsTyped, Claims
<1>2. claims' = {Orphaned(k) : k \in claims}
  BY DEF Crash
<1> HIDE DEF Orphaned
<1>3. ClaimsTyped'
  BY <1>0, <1>1, <1>2 DEF ClaimsTyped
<1>4. \A k \in claims' : (k \in claims \/ k.holder = "orphan") /\ k.holder # x
  BY <1>1, <1>2, Names
<1>5. Others(x)
  BY <1>0, RunEnds DEF Crash
<1>6. Claimed'
  BY <1>0, <1>4, <1>5, Names, MovesWithClaims
<1>7. ASSUME NEW id
      PROVE  Holder(id)' = Holder(id) \/ (Holder(id) = x /\ Holder(id)' = "orphan")
  <2>1. CASE \A k \in claims : k.id # id
    <3>1. \A k \in claims' : k.id # id
      BY <1>1, <1>2, <2>1
    <3>2. Holder(id) = "free"
      BY <1>0, <2>1, HolderIs
    <3>3. Holder(id)' = "free"
      BY <3>1 DEF Holder
    <3> QED BY <3>2, <3>3
  <2>2. CASE \E k \in claims : k.id = id
    <3>1. PICK k \in claims : k.id = id
      BY <2>2
    <3>2. Holder(id) = k.holder
      BY <1>0, <3>1, HolderIs
    <3>3. Orphaned(k) \in claims' /\ Orphaned(k).id = id /\ \A m \in claims' : m.id = id => m = Orphaned(k)
      BY <1>0, <1>1, <1>2, <3>1 DEF ClaimsTyped
    <3>4. Holder(id)' = Orphaned(k).holder
      BY <3>3 DEF Holder
    <3>5. CASE k.holder = x
      BY <1>1, <3>1, <3>2, <3>4, <3>5
    <3>6. CASE k.holder # x
      BY <1>1, <3>1, <3>2, <3>4, <3>6
    <3> QED BY <3>5, <3>6
  <2> QED BY <2>1, <2>2
<1> QED BY <1>3, <1>4, <1>5, <1>6, <1>7 DEF ClaimsWell

LEMMA ClaimsKept ==
    ASSUME BillingInv, [BillingNext]_billingVars
    PROVE  ClaimsWell
<1> USE DEF BillingInv, Typed
<1>0. \A x \in Runners, k \in claims : run[x].pc = "idle" => k.holder # x
  BY DEF Claimed
<1>1. CASE UNCHANGED <<claims, run>>
  BY <1>1 DEF ClaimsWell, ClaimsTyped, Claimed
<1>2. ASSUME NEW x \in Runners, UNCHANGED claims, Others(x), run[x].pc = "idle"
      PROVE  ClaimsWell
  BY <1>0, <1>2, MovesWithClaims DEF ClaimsWell, ClaimsTyped
<1>3. ASSUME NEW h \in Handlers, NEW ev \in sent, Deliver(h, ev)
      PROVE  ClaimsWell
  <2>1. h \in Runners /\ ev \in Event
    BY DEF Runners, RestTyped
  <2>2. Others(h)
    BY <1>3, <2>1, RunBegins DEF Deliver
  <2> QED BY <1>2, <1>3, <2>1, <2>2 DEF Deliver
<1>4. ASSUME NEW x \in Runners, RunClaimed(x)
      PROVE  ClaimsWell
  <2>1. Others(x)
    BY <1>4, RunClaimedWell DEF AllCompared
  <2> QED BY <1>4, <2>1, RunClaimedClaims
<1>5. ASSUME NEW x \in Runners, Crash(x)
      PROVE  ClaimsWell
  BY <1>5, CrashClaims
<1>6. ASSUME NEW r \in Reconcilers, Reconcile(r)
      PROVE  ClaimsWell
  <2>1. UNCHANGED claims
    BY <1>6 DEF Reconcile, Start, List, ReadLocal, Fetch, ProviderError, CheckUnchanged, PersistAgain
  <2>2. r \in Runners /\ Others(r) /\ (run' # run => run[r].pc = "idle")
    BY <1>6, ReconcileWell DEF AllCompared, Runners
  <2> QED BY <1>1, <1>2, <2>1, <2>2
<1>7. CASE Expire \/ Lapse
  <2>1. claims' \subseteq claims /\ UNCHANGED run
    BY <1>7 DEF Expire, Lapse
  <2> QED BY <2>1 DEF ClaimsWell, ClaimsTyped, Claimed
<1>8. CASE Change \/ LedgerNext \/ UNCHANGED billingVars
  BY <1>1, <1>8 DEF Change, LedgerNext
<1> QED BY <1>3, <1>4, <1>5, <1>6, <1>7, <1>8 DEF BillingNext

-----------------------------------------------------------------------------
(* What runners have done *)

LEMMA DoneStays ==
    ASSUME SeenTyped, SeenTyped', RunTyped, Grows, NEW y \in Runners, Done(y), run'[y] = run[y],
           run[y].pc = "granting" => call'[y].pc # "idle" /\ call'[y].req = call[y].req
    PROVE  Done(y)'
<1>1. run[y].pc # "idle" => run[y].ev.id \in EventIds
  BY EventTyped DEF Done
<1>2. \A id \in EventIds : /\ seen[id].hooks \in Nat /\ seen'[id].hooks \in Nat
                           /\ seen[id].hooks <= seen'[id].hooks /\ (seen[id].put => seen'[id].put)
  BY DEF SeenTyped, SeenRec, Grows
<1>3. \A id : Credited(id) => Credited(id)'
  BY DEF Credited, Grows, Recorded
<1> QED BY <1>1, <1>2, <1>3 DEF Done, IsPayment

LEMMA CallsStay ==
    ASSUME BillingInv, [BillingNext]_billingVars, NEW y \in Runners, run[y].pc = "granting", run'[y] = run[y]
    PROVE  call'[y].pc # "idle" /\ call'[y].req = call[y].req
<1> USE DEF BillingInv, Typed
<1>0. call[y].pc # "idle"
  BY DEF Done
<1>1. CASE UNCHANGED call
  BY <1>0, <1>1
<1>2. ASSUME NEW c \in Callers \ Runners, LedgerNext, Call(c) \/ Mutate(c)
      PROVE  call'[y] = call[y]
  BY <1>2, Names, AnswersMove DEF Call, Opens
<1>3. ASSUME NEW x \in Runners, GrantStart(x)
      PROVE  call'[y] = call[y]
  <2>1. GrantRequest(run[x].ev.id) \in Requests /\ run[x].pc = "grant" /\ Begin(x, GrantRequest(run[x].ev.id))
    BY <1>3, BillingAssumption DEF GrantStart, At, Done, IsPayment
  <2>2. Opens(x) /\ x # y
    BY <2>1 DEF Opens
  <2> QED BY <2>2, Names, AnswersMove
<1>4. ASSUME NEW x \in Runners, GrantStep(x)
      PROVE  call'[y].pc # "idle" /\ call'[y].req = call[y].req
  BY <1>0, <1>4, Names, AnswersMove DEF GrantStep
<1>5. ASSUME NEW x \in Runners, Crash(x)
      PROVE  call'[y] = call[y]
  <2>1. run'[x].pc = "idle"
    BY <1>5, RunEnds DEF Crash
  <2>2. call' = [call EXCEPT ![x] = NoCall] /\ x # y
    BY <1>5, <2>1 DEF Crash
  <2> QED BY <2>2, Names, TypeParts DEF IInv, CallTyped
<1>6. ASSUME NEW x \in Runners, RunClaimed(x), ~GrantStart(x), ~GrantStep(x)
      PROVE  UNCHANGED call
  BY <1>6 DEF RunClaimed, ClaimSet, ClaimGet, GrantEnd, Hook, Put, Complete, Throw, ReleaseGet, ReleaseDel
<1>7. ASSUME NEW r \in Reconcilers, Reconcile(r)
      PROVE  UNCHANGED call
  BY <1>7 DEF Reconcile, Start, List, ReadLocal, Fetch, ProviderError, CheckUnchanged, PersistAgain
<1>8. CASE \/ Change \/ Expire \/ Lapse \/ UNCHANGED billingVars
           \/ \E h \in Handlers : \E ev \in sent : Deliver(h, ev)
  BY <1>1, <1>8 DEF Change, Expire, Lapse, Deliver
<1> QED BY <1>0, <1>1, <1>2, <1>3, <1>4, <1>5, <1>6, <1>7, <1>8 DEF BillingNext, LedgerNext

\* A step of its own keeps what a runner has done.
LEMMA DoneMoves ==
    ASSUME BillingInv, SeenTyped', Grows, NEW x \in Runners, RunClaimed(x), ~GrantStep(x)
    PROVE  Done(x)'
<1> USE DEF BillingInv, Typed
<1> DEFINE ev == run[x].ev
<1>1. /\ run[x].pc # "idle"
      /\ ev \in Event /\ ev.id \in EventIds
  <2>1. run[x].pc # "idle"
    BY DEF RunClaimed, ClaimSet, ClaimGet, GrantStart, GrantStep, GrantEnd, Hook, Put, Complete, Throw,
           ReleaseGet, ReleaseDel, At
  <2> QED BY <2>1, EventTyped DEF Done
<1>2. \A id : Credited(id) => Credited(id)'
  BY DEF Credited, Grows, Recorded
<1>3. ASSUME NEW pc \in {"get", "grant", "check", "del"}, Step(x, pc), pc = "grant" => IsPayment(ev)
      PROVE  Done(x)'
  <2>1. run'[x].pc = pc /\ run'[x].ev = ev
    BY <1>3, RunMoves DEF RunPc
  <2> QED BY <1>1, <1>3, <2>1 DEF Done, IsPayment
<1>4. ASSUME NEW pc \in {"hook", "put", "complete"}, Step(x, pc), IsPayment(ev) => Credited(ev.id),
             pc # "hook" => seen'[ev.id].hooks > 0, pc = "complete" => seen'[ev.id].put
      PROVE  Done(x)'
  <2>1. run'[x].pc = pc /\ run'[x].ev = ev
    BY <1>4, RunMoves DEF RunPc
  <2> QED BY <1>1, <1>2, <1>4, <2>1 DEF Done, IsPayment
<1>5. ASSUME run'[x].pc = "idle"
      PROVE  Done(x)'
  BY <1>5 DEF Done
<1>6. ASSUME NEW result, Finish(x, result)
      PROVE  run'[x].pc = "idle"
  BY <1>6, RunEnds DEF Finish
<1>7. CASE ClaimSet(x) \/ Throw(x) \/ ReleaseGet(x) \/ ReleaseDel(x) \/ Complete(x)
  <2>1. \/ Step(x, "get") \/ Step(x, "check") \/ Step(x, "del")
        \/ Finish(x, "failed") \/ Finish(x, "applied")
    BY <1>7 DEF ClaimSet, Throw, ReleaseGet, ReleaseDel, Complete
  <2> QED BY <1>3, <1>5, <1>6, <2>1
<1>8. CASE ClaimGet(x)
  <2>1. CASE Step(x, IF IsPayment(ev) THEN "grant" ELSE "hook")
    <3>1. CASE IsPayment(ev)
      BY <1>3, <2>1, <3>1
    <3>2. CASE ~IsPayment(ev)
      BY <1>4, <2>1, <3>2
    <3> QED BY <3>1, <3>2
  <2>2. CASE run' = [run EXCEPT ![x].pc = "set", ![x].attempt = @ + 1]
    <3>1. run[x] \in RunRec
      BY DEF RunTyped
    <3>2. run'[x].pc = "set" /\ run'[x].ev = ev
      BY <2>2, <3>1 DEF RunTyped, RunRec
    <3> QED BY <1>1, <3>2 DEF Done
  <2>3. CASE Finish(x, "already_applied") \/ Finish(x, "in_flight")
    BY <1>5, <1>6, <2>3
  <2> QED BY <1>8, <2>1, <2>2, <2>3 DEF ClaimGet
<1>9. CASE GrantStart(x)
  <2>1. IsPayment(ev) /\ Step(x, "granting")
    BY <1>9 DEF GrantStart, At, Done
  <2>2. call' = [call EXCEPT ![x] = [NoCall EXCEPT !.pc = "find", !.req = GrantRequest(ev.id)]]
    BY <1>9 DEF GrantStart, Begin
  <2>3. call'[x].pc = "find" /\ call'[x].req = GrantRequest(ev.id)
    BY <2>2, Names, TypeParts DEF IInv, CallTyped, NoCall
  <2>4. run'[x].pc = "granting" /\ run'[x].ev = ev
    BY <2>1, RunMoves DEF RunPc
  <2> QED BY <1>1, <2>1, <2>3, <2>4 DEF Done, IsPayment
<1>10. CASE GrantEnd(x)
  <2>1. CASE Step(x, "check")
    BY <1>3, <2>1
  <2>2. CASE Step(x, "hook") /\ call[x].answer.how \in {"applied", "duplicate"}
    <3>1. IsPayment(ev) /\ call[x].req = GrantRequest(ev.id)
      BY <1>10 DEF GrantEnd, At, Done
    <3>2. call[x].req.key = ev.id /\ ev.id # NoKey
      BY <3>1, BillingAssumption DEF GrantRequest, IsPayment
    <3>3. Credited(ev.id)
      BY <2>2, <3>2, Names DEF Honest
    <3> QED BY <1>4, <2>2, <3>3
  <2> QED BY <1>10, <2>1, <2>2 DEF GrantEnd
<1>11. CASE Hook(x)
  <2>1. Step(x, "put") /\ (IsPayment(ev) => Credited(ev.id))
    BY <1>11 DEF Hook, At, Done
  <2>2. seen'[ev.id].hooks = seen[ev.id].hooks + 1 /\ seen[ev.id].hooks \in Nat
    BY <1>1, <1>11, HookCounts DEF SeenTyped, SeenRec
  <2>3. seen'[ev.id].hooks > 0
    BY <2>2
  <2> QED BY <1>4, <2>1, <2>3
<1>12. CASE Put(x)
  <2>1. Step(x, "complete") /\ (IsPayment(ev) => Credited(ev.id)) /\ seen[ev.id].hooks > 0
    BY <1>12 DEF Put, At, Done
  <2>2. seen'[ev.id].hooks = seen[ev.id].hooks /\ seen'[ev.id].put
    BY <1>12, PutMarks
  <2> QED BY <1>4, <2>1, <2>2
<1> QED BY <1>7, <1>8, <1>9, <1>10, <1>11, <1>12 DEF RunClaimed

LEMMA DoneKept ==
    ASSUME BillingInv, [BillingNext]_billingVars, NEW y \in Runners
    PROVE  Done(y)'
<1> USE DEF BillingInv, Typed
<1>0. SeenTyped' /\ Grows
  BY EventsGain
<1>1. CASE run'[y] = run[y]
  BY <1>0, <1>1, CallsStay, DoneStays
<1>2. CASE run'[y].pc = "idle"
  BY <1>2 DEF Done
<1>3. CASE run'[y].pc = "set" /\ run'[y].ev \in Event
  BY <1>3 DEF Done
<1>4. ASSUME NEW x \in Runners, RunClaimed(x)
      PROVE  Done(y)'
  <2>1. Others(x)
    BY <1>4, RunClaimedWell DEF AllCompared
  <2>2. CASE x = y /\ ~GrantStep(x)
    BY <1>0, <1>4, <2>2, DoneMoves
  <2>3. CASE x # y \/ GrantStep(x)
    BY <1>1, <2>1, <2>3 DEF Others, GrantStep
  <2> QED BY <2>2, <2>3
<1>5. ASSUME NEW x \in Runners, Crash(x)
      PROVE  run'[y] = run[y] \/ run'[y].pc = "idle"
  BY <1>5, RunEnds DEF Crash, Others
<1>6. ASSUME NEW r \in Reconcilers, Reconcile(r)
      PROVE  run'[y] = run[y] \/ (run'[y].pc = "set" /\ run'[y].ev \in Event)
  BY <1>6, ReconcileWell DEF AllCompared, Others
<1>7. ASSUME NEW h \in Handlers, NEW ev \in sent, Deliver(h, ev)
      PROVE  run'[y] = run[y] \/ (run'[y].pc = "set" /\ run'[y].ev \in Event)
  <2>1. h \in Runners /\ ev \in Event
    BY DEF Runners, RestTyped
  <2>2. run'[h].pc = "set" /\ run'[h].ev = ev /\ Others(h)
    BY <1>7, <2>1, RunBegins DEF Deliver
  <2> QED BY <2>1, <2>2 DEF Others
<1>8. CASE Change \/ LedgerNext \/ Expire \/ Lapse \/ UNCHANGED billingVars
  BY <1>1, <1>8 DEF Change, LedgerNext, Expire, Lapse
<1> QED BY <1>1, <1>2, <1>3, <1>4, <1>5, <1>6, <1>7, <1>8 DEF BillingNext

-----------------------------------------------------------------------------
(* The invariant is inductive *)

LEMMA TypesKept ==
    ASSUME BillingInv, [BillingNext]_billingVars
    PROVE  Typed' /\ AllCompared'
<1> USE DEF BillingInv
<1>0. SeenTyped' /\ ClaimsTyped'
  BY EventsGain, ClaimsKept DEF ClaimsWell
<1> SUFFICES RunsWell /\ RestTyped'
  BY <1>0 DEF RunsWell, Typed
<1>1. CASE UNCHANGED billing
  BY <1>1 DEF RunsWell, AllCompared, Compared, Typed, RunTyped, ReconTyped, RestTyped
<1>2. CASE Change
  <2>1. UNCHANGED <<run, recon, mirror, mishaps>>
    BY <1>2 DEF Change
  <2>2. changes' \in 0..MaxChanges /\ remote' \in Statuses \cup {Absent} /\ sent' \subseteq Event
    <3>1. PICK s \in Statuses \cup {Absent} :
              /\ changes < MaxChanges /\ changes' = changes + 1 /\ remote' = s
              /\ sent' = IF s = Absent THEN sent
                         ELSE sent \cup {[id |-> <<"change", changes + 1>>, status |-> s]}
      BY <1>2 DEF Change
    <3>2. changes + 1 \in 1..MaxChanges /\ changes + 1 \in 0..MaxChanges /\ sent \subseteq Event
      BY <3>1, BillingAssumption DEF Typed, RestTyped
    <3>3. PICK id : id = <<"change", changes + 1>>
      OBVIOUS
    <3>4. id \in EventIds
      BY <3>2, <3>3 DEF EventIds, SubEvents
    <3>5. [id |-> id, status |-> s] \in Event
      BY <3>4 DEF Event
    <3> QED BY <3>1, <3>2, <3>3, <3>5
  <2> QED BY <2>1, <2>2 DEF RunsWell, AllCompared, Compared, Typed, RunTyped, ReconTyped, RestTyped
<1>3. ASSUME NEW h \in Handlers, NEW ev \in sent, Deliver(h, ev)
      PROVE  RunsWell /\ RestTyped'
  <2>1. h \in Runners /\ h \notin Reconcilers /\ ev \in Event
    BY BillingAssumption DEF Runners, Typed, RestTyped
  <2>2. RunTyped' /\ Others(h) /\ UNCHANGED <<remote, changes, sent, mirror, recon, mishaps>>
    BY <1>3, <2>1, RunBegins DEF Deliver, Typed
  <2> QED BY <2>1, <2>2 DEF RunsWell, AllCompared, Compared, Typed, ReconTyped, RestTyped, Others, Runners
<1>4. ASSUME NEW x \in Runners, RunClaimed(x)
      PROVE  RunsWell /\ RestTyped'
  BY <1>4, RunClaimedWell DEF AllCompared
<1>5. ASSUME NEW x \in Runners, Crash(x)
      PROVE  RunsWell /\ RestTyped'
  <2>1. RunTyped' /\ Others(x) /\ run'[x].pc = "idle"
    BY <1>5, RunEnds DEF Crash, Typed
  <2>2. recon' = [r \in Reconcilers |-> IF r = x THEN NoRecon ELSE recon[r]]
        /\ UNCHANGED <<remote, changes, sent, mirror>> /\ mishaps < MaxMishaps /\ mishaps' = mishaps + 1
    BY <1>5 DEF Crash, Mishap
  <2>3. NoRecon \in ReconRec /\ NoRecon.pc = "idle"
    BY DEF NoRecon, ReconRec, ReconPc
  <2>4. ReconTyped' /\ AllCompared'
    BY <2>1, <2>2, <2>3 DEF Typed, ReconTyped, AllCompared, Compared, Others, Runners
  <2>5. mishaps' \in 0..MaxMishaps
    BY <2>2, BillingAssumption DEF Typed, RestTyped
  <2> QED BY <2>1, <2>2, <2>4, <2>5 DEF RunsWell, Typed, RestTyped
<1>6. ASSUME NEW r \in Reconcilers, Reconcile(r)
      PROVE  RunsWell /\ RestTyped'
  BY <1>6, ReconcileWell DEF AllCompared
<1>7. CASE Expire \/ Lapse
  <2>1. UNCHANGED <<remote, changes, sent, mirror, run, recon>> /\ mishaps' \in {mishaps, mishaps + 1}
        /\ (mishaps' # mishaps => mishaps < MaxMishaps)
    BY <1>7 DEF Expire, Lapse, Mishap
  <2>2. mishaps' \in 0..MaxMishaps
    BY <2>1, BillingAssumption DEF Typed, RestTyped
  <2> QED BY <2>1, <2>2 DEF RunsWell, AllCompared, Compared, Typed, RunTyped, ReconTyped, RestTyped
<1>8. CASE LedgerNext
  BY <1>1, <1>8 DEF LedgerNext
<1> QED BY <1>1, <1>2, <1>3, <1>4, <1>5, <1>6, <1>7, <1>8 DEF BillingNext

\* Which steps mark an event done.
LEMMA DoneIsMarked ==
    ASSUME BillingInv, [BillingNext]_billingVars, NEW k \in claims', k.holder = "done"
    PROVE  k \in claims \/ \E x \in Runners : Complete(x) /\ k.id = run[x].ev.id
<1> USE DEF BillingInv, Typed
<1>1. ASSUME NEW x \in Runners, Complete(x)
      PROVE  k \in claims \/ k.id = run[x].ev.id
  BY <1>1 DEF Complete, Hold
<1>2. ASSUME NEW x \in Runners, ClaimSet(x)
      PROVE  k \in claims
  BY <1>2, Names DEF ClaimSet, Hold
<1>3. ASSUME NEW x \in Runners, Crash(x)
      PROVE  k \in claims
  BY <1>3, CrashClaims
<1>4. ASSUME NEW x \in Runners, RunClaimed(x), ~Complete(x), ~ClaimSet(x)
      PROVE  claims' \subseteq claims
  BY <1>4 DEF RunClaimed, ClaimGet, GrantStart, GrantStep, GrantEnd, Hook, Put, Throw, ReleaseGet, ReleaseDel
<1>5. ASSUME NEW r \in Reconcilers, Reconcile(r)
      PROVE  claims' = claims
  BY <1>5 DEF Reconcile, Start, List, ReadLocal, Fetch, ProviderError, CheckUnchanged, PersistAgain
<1>6. CASE \/ Change \/ Expire \/ Lapse \/ LedgerNext \/ UNCHANGED billingVars
           \/ \E h \in Handlers : \E ev \in sent : Deliver(h, ev)
  BY <1>6 DEF Change, Expire, Lapse, Deliver, LedgerNext
<1> QED BY <1>1, <1>2, <1>3, <1>4, <1>5, <1>6 DEF BillingNext

\* A runner that is about to mark its event done has done all of it.
LEMMA CompleteHasRun ==
    ASSUME BillingInv, NEW x \in Runners, run[x].pc = "complete"
    PROVE  run[x].ev.id \in EventIds /\ Ran(run[x].ev.id)
<1>1. run[x].ev.id \in EventIds
  BY EventTyped DEF BillingInv, Typed, Done
<1> QED BY <1>1 DEF BillingInv, Done, Ran, IsPayment, Credited

LEMMA SuccessKept ==
    ASSUME BillingInv, [BillingNext]_billingVars
    PROVE  SeenAfterSuccess'
<1> SUFFICES ASSUME NEW k \in claims', k.holder = "done"
             PROVE  Ran(k.id)'
  BY DEF SeenAfterSuccess
<1>1. CASE k \in claims
  <2>1. k.id \in EventIds /\ Ran(k.id)
    BY <1>1 DEF BillingInv, SeenAfterSuccess, Typed, ClaimsTyped, Claims
  <2> QED BY <2>1, EventsGain, RanStays DEF BillingInv, Typed
<1>2. ASSUME NEW x \in Runners, Complete(x), k.id = run[x].ev.id
      PROVE  Ran(k.id)'
  <2>1. k.id \in EventIds /\ Ran(k.id)
    BY <1>2, CompleteHasRun DEF Complete, At
  <2> QED BY <2>1, EventsGain, RanStays DEF BillingInv, Typed
<1> QED BY <1>1, <1>2, DoneIsMarked

LEMMA InvKept == BillingInv /\ [BillingNext]_billingVars => BillingInv'
<1> SUFFICES ASSUME BillingInv, [BillingNext]_billingVars
             PROVE  BillingInv'
  OBVIOUS
<1>1. IInv'
  BY LedgerKept
<1>2. Typed' /\ AllCompared'
  BY TypesKept
<1>3. Claimed'
  BY ClaimsKept DEF ClaimsWell
<1>4. Honest' /\ KeysOnce'
  BY LedgerGrows
<1>5. SeenAfterSuccess'
  BY SuccessKept
<1>6. \A x \in Runners : Done(x)'
  BY DoneKept
<1> QED BY <1>1, <1>2, <1>3, <1>4, <1>5, <1>6 DEF BillingInv, AllCompared

LEMMA InvInit == BillingInit => BillingInv
<1> SUFFICES ASSUME BillingInit
             PROVE  BillingInv
  OBVIOUS
<1>1. IInv
  BY LedgerStarts, LedgerAssumption DEF BillingInit
<1>2. /\ NoRun \in RunRec /\ NoRun.pc = "idle"
      /\ NoRecon \in ReconRec /\ NoRecon.pc = "idle"
  BY DEF NoRun, RunRec, RunPc, NoRecon, ReconRec, ReconPc
<1>3. /\ claims = {} /\ run = [x \in Runners |-> NoRun] /\ recon = [r \in Reconcilers |-> NoRecon]
      /\ remote = Absent /\ mirror = Absent /\ mishaps = 0 /\ entries = {}
      /\ seen = [id \in EventIds |-> [hooks |-> 0, put |-> FALSE]]
      /\ call = [c \in Callers |-> NoCall]
  BY DEF BillingInit, LedgerInit
<1>4. changes \in 0..MaxChanges /\ mishaps \in 0..MaxMishaps
  BY <1>3, BillingAssumption DEF BillingInit
<1>5. sent \subseteq Event
  <2>1. sent = {} \/ sent = {[id |-> p, status |-> Absent] : p \in Payments}
    BY DEF BillingInit
  <2> QED BY <2>1 DEF Event, EventIds
<1>6. SeenTyped
  <2>1. [hooks |-> 0, put |-> FALSE] \in SeenRec
    BY DEF SeenRec
  <2> QED BY <1>3, <2>1 DEF SeenTyped
<1>7. Typed
  BY <1>2, <1>3, <1>4, <1>5, <1>6 DEF Typed, ClaimsTyped, RunTyped, ReconTyped, RestTyped
<1>8. Honest
  BY <1>3 DEF Honest, NoCall, NoAnswer
<1>9. Claimed /\ SeenAfterSuccess /\ KeysOnce
  BY <1>3 DEF Claimed, SeenAfterSuccess, KeysOnce
<1>10. \A x \in Runners : Done(x)
  BY <1>2, <1>3 DEF Done
<1>11. \A r \in Reconcilers : Compared(r)
  BY <1>2, <1>3 DEF Compared, Runners
<1> QED BY <1>1, <1>7, <1>8, <1>9, <1>10, <1>11 DEF BillingInv

LEMMA InvAlways == BillingSpec => []BillingInv
  BY InvInit, InvKept, PTL DEF BillingSpec

\* What the pipeline stores, and what its runs and the provider hold meanwhile, is well-formed,
\* for any number of deliveries, reconciliation runs, payments and changes.
THEOREM PipelineTyped == BillingSpec => []BillingTypeOK
BY InvAlways, BillingTypes, PTL DEF BillingInv, IInv

\* An event marked done has had its credits, its hook and its record, whatever claims lapsed,
\* runs died, hooks threw or deliveries overlapped before.
THEOREM DoneHasRun == BillingSpec => []SeenAfterSuccess
BY InvAlways, PTL DEF BillingInv

LEMMA AnswerHasRun ==
    ASSUME BillingInv, [BillingNext]_billingVars, NEW ev \in sent \ sent'
    PROVE  Ran(ev.id)
<1> USE DEF BillingInv, Typed
<1>1. ASSUME NEW x \in Runners, Complete(x)
      PROVE  Ran(ev.id)
  <2>1. run[x].pc = "complete" /\ Finish(x, "applied")
    BY <1>1 DEF Complete, At
  <2>2. ev = run[x].ev
    BY <2>1, Finishes
  <2> QED BY <2>1, <2>2, CompleteHasRun
<1>2. ASSUME NEW x \in Runners, ClaimGet(x)
      PROVE  Ran(ev.id)
  <2>1. run[x].pc = "get"
    BY <1>2 DEF ClaimGet, At
  <2>2. CASE UNCHANGED sent
    BY <2>2
  <2>3. CASE Finish(x, "in_flight")
    BY <2>1, <2>3, Finishes
  <2>4. CASE Finish(x, "already_applied") /\ Holder(run[x].ev.id) = "done"
    <3>1. ev = run[x].ev
      BY <2>1, <2>4, Finishes
    <3>2. PICK k \in claims : k.id = ev.id /\ k.holder = "done"
      BY <2>4, <3>1, HolderIs
    <3> QED BY <3>2 DEF SeenAfterSuccess
  <2> QED BY <1>2, <2>2, <2>3, <2>4 DEF ClaimGet
<1>3. ASSUME NEW x \in Runners, ReleaseGet(x) \/ ReleaseDel(x)
      PROVE  Ran(ev.id)
  <2>1. run[x].pc # "idle" /\ (UNCHANGED sent \/ Finish(x, "failed"))
    BY <1>3 DEF ReleaseGet, ReleaseDel, At
  <2> QED BY <2>1, Finishes
<1>4. ASSUME NEW x \in Runners, RunClaimed(x), ~Complete(x), ~ClaimGet(x), ~ReleaseGet(x), ~ReleaseDel(x)
      PROVE  UNCHANGED sent
  BY <1>4 DEF RunClaimed, ClaimSet, GrantStart, GrantStep, GrantEnd, Hook, Put, Throw
<1>5. ASSUME NEW r \in Reconcilers, Reconcile(r)
      PROVE  UNCHANGED sent
  BY <1>5 DEF Reconcile, Start, List, ReadLocal, Fetch, ProviderError, CheckUnchanged, PersistAgain
<1>6. CASE \/ Change \/ Expire \/ Lapse \/ LedgerNext \/ UNCHANGED billingVars
           \/ \E h \in Handlers : \E e \in sent : Deliver(h, e)
           \/ \E x \in Runners : Crash(x)
  <2>1. sent \subseteq sent'
    BY <1>6 DEF Change, Expire, Lapse, LedgerNext, Deliver, Crash
  <2> QED BY <2>1
<1> QED BY <1>1, <1>2, <1>3, <1>4, <1>5, <1>6 DEF BillingNext

\* The provider stops delivering an event only after it ran: a delivery that failed, or met
\* another one in flight, is never answered with 200.
THEOREM AnsweredHasRun == BillingSpec => AnsweredAfterSuccess
<1>1. BillingInv /\ [BillingNext]_billingVars => [\A ev \in sent \ sent' : Ran(ev.id)]_billingVars
  BY AnswerHasRun
<1> QED BY <1>1, InvAlways, PTL DEF BillingSpec, AnsweredAfterSuccess

-----------------------------------------------------------------------------
(* Credits *)

LEMMA PaidKept ==
    ASSUME PaymentsAlone
    PROVE  BillingInv /\ GrantsPaid /\ [BillingNext]_billingVars => GrantsPaid'
<1> SUFFICES ASSUME BillingInv, GrantsPaid, [BillingNext]_billingVars
             PROVE  GrantsPaid'
  OBVIOUS
<1>1. CASE UNCHANGED vars
  BY <1>1 DEF GrantsPaid
<1>2. ASSUME NEW c \in Callers, Opens(c) \/ Mutate(c)
      PROVE  GrantsPaid'
  BY <1>2, GrantsStayPaid DEF BillingInv
<1>3. ASSUME NEW x \in Runners, Crash(x)
      PROVE  GrantsPaid'
  BY <1>3 DEF Crash, GrantsPaid
<1> QED BY <1>1, <1>2, <1>3, LedgerMoves

\* A payment is credited once, however often its event is delivered, by however many runners,
\* with crashes in the middle of a grant and answers that get lost. Grants of a payment's size
\* are counted, so nobody else may grant as much under a key of its own.
THEOREM CreditedOnce ==
    ASSUME PaymentsAlone
    PROVE  BillingSpec => []PaidOnce
<1>1. BillingInit => GrantsPaid
  BY DEF BillingInit, LedgerInit, GrantsPaid
<1>2. BillingInv /\ GrantsPaid => PaidOnce
  <2> SUFFICES ASSUME BillingInv, GrantsPaid
               PROVE  PaidOnce
    OBVIOUS
  <2> DEFINE S == {e \in entries : e.kind = "grant" /\ e.delta = Credits}
             f == [e \in S |-> e.key]
  <2>1. \A e \in S : e.key \in Payments /\ e.key # NoKey
    BY BillingAssumption DEF GrantsPaid
  <2>2. \A d, e \in S : d.key = e.key => d = e
    BY <2>1 DEF BillingInv, KeysOnce
  <2>3. f \in Injection(S, Payments)
    BY <2>1, <2>2 DEF Injection, IsInjective
  <2>4. Cardinality(S) <= Cardinality(Payments)
    BY <2>3, FS_Injection, BillingAssumption
  <2> QED BY <2>4 DEF PaidOnce
<1> QED BY <1>1, <1>2, PaidKept, InvAlways, PTL DEF BillingSpec

-----------------------------------------------------------------------------
(* Hooks *)

LEMMA Counts ==
    ASSUME NEW id
    PROVE  /\ IsFiniteSet(Pending(id)) /\ Cardinality(Pending(id)) \in Nat
           /\ IsFiniteSet(Pending(id)') /\ Cardinality(Pending(id)') \in Nat
           /\ Vacant(id) \in {0, 1} /\ Vacant(id)' \in {0, 1}
           /\ Holder(id)' = Holder(id) => Vacant(id)' = Vacant(id)
<1>1. Pending(id) \in SUBSET Runners /\ Pending(id)' \in SUBSET Runners
  BY DEF Pending
<1>2. IsFiniteSet(Pending(id)) /\ IsFiniteSet(Pending(id)')
  BY <1>1, FS_Subset, BillingAssumption
<1>3. Cardinality(Pending(id)) \in Nat /\ Cardinality(Pending(id)') \in Nat
  BY <1>2, FS_CardinalityType
<1>4. /\ Vacant(id) \in {0, 1} /\ Vacant(id)' \in {0, 1}
      /\ Holder(id)' = Holder(id) => Vacant(id)' = Vacant(id)
  BY DEF Vacant
<1> QED BY <1>2, <1>3, <1>4

\* How many may run the hook after a step of x.
LEMMA Changes ==
    ASSUME NEW id, NEW x
    PROVE  /\ Pending(id)' \subseteq Pending(id) => Cardinality(Pending(id)') <= Cardinality(Pending(id))
           /\ Pending(id)' \subseteq Pending(id) \cup {x}
                => Cardinality(Pending(id)') <= Cardinality(Pending(id)) + 1
           /\ Pending(id)' \subseteq Pending(id) \ {x} /\ x \in Pending(id)
                => Cardinality(Pending(id)') + 1 <= Cardinality(Pending(id))
<1> DEFINE P == Pending(id)
           Q == Pending(id)'
<1>1. IsFiniteSet(P) /\ Cardinality(P) \in Nat /\ IsFiniteSet(Q) /\ Cardinality(Q) \in Nat
  BY Counts
<1> HIDE DEF P, Q
<1>2. Q \subseteq P => Cardinality(Q) <= Cardinality(P)
  BY <1>1, FS_Subset
<1>3. ASSUME Q \subseteq P \cup {x}
      PROVE  Cardinality(Q) <= Cardinality(P) + 1
  <2>1. /\ IsFiniteSet(P \cup {x})
        /\ Cardinality(P \cup {x}) = Cardinality(P) \/ Cardinality(P \cup {x}) = Cardinality(P) + 1
    BY <1>1, FS_AddElement
  <2>2. Cardinality(Q) <= Cardinality(P \cup {x})
    BY <1>3, <2>1, FS_Subset
  <2> QED BY <1>1, <2>1, <2>2
<1>4. ASSUME Q \subseteq P \ {x}, x \in P
      PROVE  Cardinality(Q) + 1 <= Cardinality(P)
  <2>1. IsFiniteSet(P \ {x}) /\ Cardinality(P \ {x}) = Cardinality(P) - 1
    BY <1>1, <1>4, FS_RemoveElement
  <2>2. Cardinality(Q) <= Cardinality(P \ {x})
    BY <1>4, <2>1, FS_Subset
  <2> QED BY <1>1, <2>1, <2>2
<1> QED BY <1>2, <1>3, <1>4 DEF P, Q

\* A step of x: the others may not come to hold the event's claim by it.
LEMMA OthersPend ==
    ASSUME NEW id, NEW x \in Runners, Others(x), \A y \in Runners \ {x} : Holder(id)' = y => Holder(id) = y
    PROVE  /\ Pending(id)' \subseteq Pending(id) \cup {x}
           /\ x \in Pending(id) => Pending(id)' \subseteq Pending(id)
           /\ x \notin Pending(id)' => Pending(id)' \subseteq Pending(id) /\ Pending(id)' \subseteq Pending(id) \ {x}
<1>1. ASSUME NEW y \in Pending(id)', y # x
      PROVE  y \in Pending(id)
  <2>1. y \in Runners /\ run'[y] = run[y]
    BY <1>1 DEF Pending, Others
  <2>2. run'[y].ev.id = id /\ (\/ run'[y].pc \in {"grant", "granting", "hook", "del"}
                               \/ run'[y].pc \in {"get", "check"} /\ Holder(id)' = y)
    BY <1>1 DEF Pending
  <2>3. run[y].ev.id = id /\ (\/ run[y].pc \in {"grant", "granting", "hook", "del"}
                              \/ run[y].pc \in {"get", "check"} /\ Holder(id) = y)
    BY <1>1, <2>1, <2>2
  <2> QED BY <2>1, <2>3 DEF Pending
<1> QED BY <1>1

\* What a step may do to an event's hooks, its runners and its claim.
LEMMA HooksStayLeft ==
    ASSUME BillingInv, SeenTyped', NEW id \in EventIds, HooksLeft(id), NEW x,
           mishaps' \in Nat, mishaps <= mishaps',
           \/ /\ Pending(id)' \subseteq Pending(id)
              /\ seen'[id].hooks = seen[id].hooks /\ Vacant(id)' <= Vacant(id)
           \/ /\ Pending(id)' \subseteq Pending(id) \cup {x}
              /\ seen'[id].hooks = seen[id].hooks /\ Vacant(id) = 1 /\ Vacant(id)' = 0
           \/ /\ Pending(id)' \subseteq Pending(id) \ {x} /\ x \in Pending(id)
              /\ seen'[id].hooks + Vacant(id)' <= seen[id].hooks + Vacant(id) + 1
           \/ /\ mishaps' = mishaps + 1 /\ Pending(id)' \subseteq Pending(id) \cup {x}
              /\ seen'[id].hooks = seen[id].hooks /\ Vacant(id)' <= Vacant(id)
           \/ /\ mishaps' = mishaps + 1 /\ Pending(id)' \subseteq Pending(id)
              /\ seen'[id].hooks = seen[id].hooks
    PROVE  HooksLeft(id)'
<1>1. seen[id].hooks \in Nat /\ seen'[id].hooks \in Nat /\ mishaps \in Nat
  BY DEF BillingInv, Typed, SeenTyped, SeenRec, RestTyped
<1>2. PICK p, q, v, w \in Nat : /\ p = Cardinality(Pending(id)) /\ q = Cardinality(Pending(id)')
                                /\ v = Vacant(id) /\ w = Vacant(id)' /\ v <= 1 /\ w <= 1
  BY Counts
<1>3. seen[id].hooks + p + v <= 1 + mishaps
  BY <1>2 DEF HooksLeft
<1>4. /\ Pending(id)' \subseteq Pending(id) => q <= p
      /\ Pending(id)' \subseteq Pending(id) \cup {x} => q <= p + 1
      /\ Pending(id)' \subseteq Pending(id) \ {x} /\ x \in Pending(id) => q + 1 <= p
  BY <1>2, Changes
<1>5. seen'[id].hooks + q + w <= 1 + mishaps'
  BY <1>1, <1>2, <1>3, <1>4
<1> QED BY <1>2, <1>5 DEF HooksLeft

LEMMA AtEvent ==
    ASSUME BillingInv, NEW x \in Runners, RunClaimed(x)
    PROVE  run[x].pc # "idle" /\ run[x].ev \in Event /\ run[x].ev.id \in EventIds
<1>1. run[x].pc # "idle"
  BY DEF RunClaimed, ClaimSet, ClaimGet, GrantStart, GrantStep, GrantEnd, Hook, Put, Complete, Throw,
         ReleaseGet, ReleaseDel, At
<1> QED BY <1>1, EventTyped DEF BillingInv, Done, Typed

\* A runner at another event.
LEMMA ElsewhereLeft ==
    ASSUME BillingInv, SeenTyped', NEW x \in Runners, RunClaimed(x), Others(x), NEW id \in EventIds,
           id # run[x].ev.id, HooksLeft(id)
    PROVE  HooksLeft(id)'
<1> USE DEF BillingInv, Typed
<1>0. run[x].ev \in Event /\ run[x].ev.id \in EventIds
  BY AtEvent
<1>1. Holder(id)' = Holder(id)
  <2>1. ASSUME NEW holder \in Runners \cup {"orphan", "done"}, Hold(run[x].ev.id, holder)
        PROVE  Holder(id)' = Holder(id)
    BY <1>0, <2>1, Holds
  <2>2. CASE claims' = {k \in claims : k.id # run[x].ev.id}
    BY <2>2, Frees
  <2>3. CASE UNCHANGED claims
    BY <2>3 DEF Holder
  <2>4. \/ UNCHANGED claims \/ claims' = {k \in claims : k.id # run[x].ev.id}
        \/ \E holder \in Runners \cup {"orphan", "done"} : Hold(run[x].ev.id, holder)
    BY DEF RunClaimed, ClaimSet, ClaimGet, GrantStart, GrantStep, GrantEnd, Hook, Put, Complete, Throw,
           ReleaseGet, ReleaseDel
  <2> QED BY <2>1, <2>2, <2>3, <2>4
<1>2. run'[x].ev = run[x].ev \/ run'[x].pc = "idle"
  <2>1. ASSUME NEW result, Finish(x, result)
        PROVE  run'[x].pc = "idle"
    BY <2>1, RunEnds DEF Finish
  <2>2. ASSUME NEW pc \in RunPc, Step(x, pc)
        PROVE  run'[x].ev = run[x].ev
    BY <2>2, RunMoves
  <2>3. CASE ClaimGet(x)
    <3>1. run[x] \in RunRec
      BY DEF RunTyped
    <3>2. run' = [run EXCEPT ![x].pc = "set", ![x].attempt = @ + 1] => run'[x].ev = run[x].ev
      BY <3>1 DEF RunTyped, RunRec
    <3>3. Step(x, IF IsPayment(run[x].ev) THEN "grant" ELSE "hook") => Step(x, "grant") \/ Step(x, "hook")
      OBVIOUS
    <3> QED BY <2>1, <2>2, <2>3, <3>2, <3>3 DEF ClaimGet, RunPc
  <2>4. CASE GrantStep(x)
    BY <2>4 DEF GrantStep
  <2>5. CASE ~ClaimGet(x) /\ ~GrantStep(x)
    <3>1. \/ \E pc \in RunPc : Step(x, pc)
          \/ \E result : Finish(x, result)
      BY <2>5 DEF RunClaimed, ClaimSet, GrantStart, GrantEnd, Hook, Put, Complete, Throw,
                  ReleaseGet, ReleaseDel, RunPc
    <3> QED BY <2>1, <2>2, <3>1
  <2> QED BY <2>3, <2>4, <2>5
<1>3. x \notin Pending(id)'
  BY <1>2 DEF Pending
<1>4. Pending(id)' \subseteq Pending(id)
  BY <1>1, <1>3, OthersPend
<1>5. seen'[id] = seen[id]
  <2>1. CASE Hook(x) \/ Put(x)
    BY <2>1, HookCounts, PutMarks
  <2>2. CASE ~Hook(x) /\ ~Put(x)
    BY <2>2 DEF RunClaimed, ClaimSet, ClaimGet, GrantStart, GrantStep, GrantEnd, Complete, Throw, ReleaseGet,
                ReleaseDel
  <2> QED BY <2>1, <2>2
<1>6. mishaps' \in {mishaps, mishaps + 1} /\ mishaps \in Nat
  BY DEF RestTyped, RunClaimed, ClaimSet, ClaimGet, GrantStart, GrantStep, GrantEnd, Hook, Put, Complete, Throw,
         ReleaseGet, ReleaseDel, Mishap
<1>7. Vacant(id)' <= Vacant(id)
  BY <1>1, Counts
<1> QED BY <1>4, <1>5, <1>6, <1>7, HooksStayLeft

\* A runner at this event.
LEMMA HereLeft ==
    ASSUME BillingInv, SeenTyped', NEW x \in Runners, RunClaimed(x), Others(x), NEW id \in EventIds,
           id = run[x].ev.id, HooksLeft(id)
    PROVE  HooksLeft(id)'
<1> USE DEF BillingInv, Typed
<1>0. run[x].ev \in Event /\ mishaps \in Nat
  BY AtEvent DEF RestTyped
<1>1. Holder(id) # x \/ run[x].pc \notin {"idle", "set"}
  BY HolderIs, OwnClaim, Names
<1>2. ASSUME UNCHANGED claims
      PROVE  Holder(id)' = Holder(id) /\ Vacant(id)' <= Vacant(id)
  BY <1>2, Counts DEF Holder
<1>3. ASSUME NEW result, Finish(x, result)
      PROVE  x \notin Pending(id)'
  BY <1>3, RunEnds DEF Finish, Pending
<1>4. ASSUME UNCHANGED <<claims, seen, mishaps>>, x \in Pending(id) \/ x \notin Pending(id)'
      PROVE  HooksLeft(id)'
  BY <1>0, <1>2, <1>4, OthersPend, HooksStayLeft
<1>5. CASE ClaimSet(x)
  <2>1. run[x].pc = "set" /\ Step(x, "get") /\ UNCHANGED <<seen, mishaps>>
    BY <1>5 DEF ClaimSet, At
  <2>2. run'[x].pc = "get" /\ run'[x].ev = run[x].ev
    BY <2>1, RunMoves DEF RunPc
  <2>3. CASE UNCHANGED claims
    <3>1. x \notin Pending(id)'
      BY <1>1, <1>2, <2>1, <2>2, <2>3 DEF Pending
    <3> QED BY <1>4, <2>1, <2>3, <3>1
  <2>4. CASE Holder(id) = "free" /\ Hold(id, x)
    <3>1. Holder(id)' = x
      BY <2>4, Holds
    <3>2. Vacant(id) = 1 /\ Vacant(id)' = 0
      BY <2>4, <3>1, Names DEF Vacant
    <3>3. Pending(id)' \subseteq Pending(id) \cup {x}
      <4>1. \A y \in Runners \ {x} : Holder(id)' = y => Holder(id) = y
        BY <3>1
      <4> QED BY <4>1, OthersPend
    <3> QED BY <1>0, <2>1, <3>2, <3>3, HooksStayLeft
  <2> QED BY <1>5, <2>3, <2>4 DEF ClaimSet
<1>6. CASE ClaimGet(x)
  <2>1. run[x].pc = "get" /\ UNCHANGED <<claims, seen, mishaps>>
    BY <1>6 DEF ClaimGet, At
  <2>2. CASE Holder(id) = x
    <3>1. x \in Pending(id)
      BY <2>1, <2>2 DEF Pending
    <3> QED BY <1>4, <2>1, <3>1
  <2>3. CASE Holder(id) # x
    <3>1. \/ run' = [run EXCEPT ![x].pc = "set", ![x].attempt = @ + 1]
          \/ Finish(x, "already_applied") \/ Finish(x, "in_flight")
      BY <1>6, <2>3 DEF ClaimGet
    <3>2. run[x] \in RunRec
      BY DEF RunTyped
    <3>3. run' = [run EXCEPT ![x].pc = "set", ![x].attempt = @ + 1] => x \notin Pending(id)'
      BY <3>2 DEF RunTyped, RunRec, Pending
    <3> QED BY <1>3, <1>4, <2>1, <3>1, <3>3
  <2> QED BY <2>2, <2>3
<1>7. CASE GrantStart(x) \/ GrantStep(x) \/ GrantEnd(x)
  <2>1. run[x].pc \in {"grant", "granting"} /\ UNCHANGED <<claims, seen, mishaps>>
    BY <1>7 DEF GrantStart, GrantStep, GrantEnd, At
  <2>2. x \in Pending(id)
    BY <2>1 DEF Pending
  <2> QED BY <1>4, <2>1, <2>2
<1>8. CASE Hook(x)
  <2>1. run[x].pc = "hook" /\ Step(x, "put") /\ UNCHANGED <<claims, mishaps>>
    BY <1>8 DEF Hook, At
  <2>2. x \in Pending(id)
    BY <2>1 DEF Pending
  <2>3. run'[x].pc = "put"
    BY <2>1, RunMoves DEF RunPc
  <2>4. x \notin Pending(id)'
    BY <2>3 DEF Pending
  <2>5. Pending(id)' \subseteq Pending(id) \ {x}
    BY <1>2, <2>1, <2>4, OthersPend
  <2>6. seen'[id].hooks = seen[id].hooks + 1 /\ seen[id].hooks \in Nat
    BY <1>8, HookCounts DEF SeenTyped, SeenRec
  <2>7. seen'[id].hooks + Vacant(id)' <= seen[id].hooks + Vacant(id) + 1
    BY <1>2, <2>1, <2>6, Counts
  <2> QED BY <1>0, <2>1, <2>2, <2>5, <2>7, HooksStayLeft
<1>9. CASE Put(x)
  <2>1. Step(x, "complete") /\ UNCHANGED <<claims, mishaps>>
    BY <1>9 DEF Put
  <2>2. run'[x].pc = "complete"
    BY <2>1, RunMoves DEF RunPc
  <2>3. x \notin Pending(id)'
    BY <2>2 DEF Pending
  <2>4. seen'[id].hooks = seen[id].hooks
    BY <1>9, PutMarks
  <2> QED BY <1>0, <1>2, <2>1, <2>3, <2>4, OthersPend, HooksStayLeft
<1>10. CASE Complete(x)
  <2>1. Hold(id, "done") /\ Finish(x, "applied") /\ UNCHANGED <<seen, mishaps>>
    BY <1>10 DEF Complete
  <2>2. Holder(id)' = "done"
    BY <2>1, Holds
  <2>3. Vacant(id)' <= Vacant(id)
    BY <2>2, Counts DEF Vacant
  <2>4. x \notin Pending(id)'
    BY <1>3, <2>1
  <2>5. Pending(id)' \subseteq Pending(id)
    BY <2>2, <2>4, Names, OthersPend
  <2> QED BY <1>0, <2>1, <2>3, <2>5, HooksStayLeft
<1>11. CASE Throw(x)
  <2>1. UNCHANGED <<claims, seen>> /\ mishaps' = mishaps + 1
    BY <1>11 DEF Throw, Mishap
  <2>2. Pending(id)' \subseteq Pending(id) \cup {x}
    <3>1. \A y \in Runners \ {x} : Holder(id)' = y => Holder(id) = y
      BY <1>2, <2>1
    <3> QED BY <3>1, OthersPend
  <2>3. mishaps' \in Nat /\ mishaps <= mishaps'
    BY <1>0, <2>1
  <2>4. seen'[id].hooks = seen[id].hooks /\ Vacant(id)' <= Vacant(id)
    BY <1>2, <2>1
  <2> QED BY <2>1, <2>2, <2>3, <2>4, HooksStayLeft
<1>12. CASE ReleaseGet(x)
  <2>1. run[x].pc = "check" /\ UNCHANGED <<claims, seen, mishaps>>
    BY <1>12 DEF ReleaseGet, At
  <2>2. CASE Holder(id) = x
    <3>1. x \in Pending(id)
      BY <2>1, <2>2 DEF Pending
    <3> QED BY <1>4, <2>1, <3>1
  <2>3. CASE Holder(id) # x
    BY <1>3, <1>4, <1>12, <2>1, <2>3 DEF ReleaseGet
  <2> QED BY <2>2, <2>3
<1>13. CASE ReleaseDel(x)
  <2>1. run[x].pc = "del" /\ claims' = {k \in claims : k.id # id} /\ Finish(x, "failed")
        /\ UNCHANGED <<seen, mishaps>>
    BY <1>13 DEF ReleaseDel, At
  <2>2. Holder(id)' = "free"
    BY <2>1, Frees
  <2>3. x \in Pending(id) /\ x \notin Pending(id)'
    BY <1>3, <2>1 DEF Pending
  <2>4. Pending(id)' \subseteq Pending(id) \ {x}
    BY <2>2, <2>3, Names, OthersPend
  <2>5. seen'[id].hooks = seen[id].hooks /\ seen[id].hooks \in Nat
    BY <2>1 DEF SeenTyped, SeenRec
  <2>6. seen'[id].hooks + Vacant(id)' <= seen[id].hooks + Vacant(id) + 1
    BY <2>5, Counts
  <2> QED BY <1>0, <2>1, <2>3, <2>4, <2>6, HooksStayLeft
<1> QED BY <1>5, <1>6, <1>7, <1>8, <1>9, <1>10, <1>11, <1>12, <1>13 DEF RunClaimed

LEMMA HooksKept ==
    ASSUME BillingInv, [BillingNext]_billingVars, NEW id \in EventIds, HooksLeft(id)
    PROVE  HooksLeft(id)'
<1> USE DEF BillingInv, Typed
<1>0. SeenTyped' /\ mishaps \in Nat
  BY EventsGain DEF RestTyped
<1>1. ASSUME UNCHANGED <<claims, run, seen>>, mishaps' \in {mishaps, mishaps + 1}
      PROVE  HooksLeft(id)'
  <2>1. Pending(id)' = Pending(id) /\ Vacant(id)' = Vacant(id)
    BY <1>1 DEF Pending, Vacant, Holder
  <2>2. Vacant(id)' <= Vacant(id)
    BY <2>1, Counts
  <2> QED BY <1>0, <1>1, <2>1, <2>2, HooksStayLeft
<1>2. ASSUME NEW x \in Runners, UNCHANGED <<claims, seen>>, mishaps' = mishaps, Others(x), run'[x].pc = "set"
      PROVE  HooksLeft(id)'
  <2>1. Holder(id)' = Holder(id) /\ x \notin Pending(id)'
    BY <1>2 DEF Pending, Holder
  <2>2. Pending(id)' \subseteq Pending(id) /\ Vacant(id)' <= Vacant(id)
    BY <1>2, <2>1, OthersPend, Counts
  <2> QED BY <1>0, <1>2, <2>2, HooksStayLeft
<1>3. ASSUME NEW h \in Handlers, NEW ev \in sent, Deliver(h, ev)
      PROVE  HooksLeft(id)'
  <2>1. h \in Runners /\ ev \in Event
    BY DEF Runners, RestTyped
  <2>2. Others(h) /\ run'[h].pc = "set"
    BY <1>3, <2>1, RunBegins DEF Deliver
  <2> QED BY <1>2, <1>3, <2>1, <2>2 DEF Deliver
<1>4. ASSUME NEW x \in Runners, RunClaimed(x)
      PROVE  HooksLeft(id)'
  <2>1. Others(x)
    BY <1>4, RunClaimedWell DEF AllCompared
  <2> QED BY <1>0, <1>4, <2>1, HereLeft, ElsewhereLeft
<1>5. ASSUME NEW x \in Runners, Crash(x)
      PROVE  HooksLeft(id)'
  <2>1. Others(x) /\ (Holder(id)' = Holder(id) \/ Holder(id)' = "orphan")
    BY <1>5, CrashClaims
  <2>2. run'[x].pc = "idle"
    BY <1>5, RunEnds DEF Crash
  <2>3. x \notin Pending(id)'
    BY <2>2 DEF Pending
  <2>4. Pending(id)' \subseteq Pending(id)
    BY <2>1, <2>3, Names, OthersPend
  <2>5. mishaps' = mishaps + 1 /\ UNCHANGED seen
    BY <1>5 DEF Crash, Mishap
  <2> QED BY <1>0, <2>4, <2>5, HooksStayLeft
<1>6. ASSUME NEW r \in Reconcilers, Reconcile(r)
      PROVE  HooksLeft(id)'
  <2>1. UNCHANGED <<claims, seen>> /\ mishaps' \in {mishaps, mishaps + 1} /\ (ProviderError(r) => UNCHANGED run)
        /\ (~ProviderError(r) => mishaps' = mishaps)
    BY <1>6 DEF Reconcile, Start, List, ReadLocal, Fetch, ProviderError, CheckUnchanged, PersistAgain, Mishap
  <2>2. CASE run' = run
    BY <1>1, <2>1, <2>2
  <2>3. CASE run' # run
    <3>1. r \in Runners /\ Others(r) /\ run'[r].pc = "set"
      BY <1>6, <2>3, ReconcileWell DEF AllCompared, Runners
    <3> QED BY <1>2, <2>1, <2>3, <3>1
  <2> QED BY <2>2, <2>3
<1>7. CASE Expire \/ Lapse
  <2>1. PICK k \in claims : /\ claims' = claims \ {k} /\ UNCHANGED <<run, seen>>
                            /\ \/ k.holder = "orphan" /\ mishaps' = mishaps
                               \/ mishaps' = mishaps + 1
    BY <1>7 DEF Expire, Lapse, Mishap
  <2>2. claims' = {m \in claims : m.id # k.id} /\ Holder(k.id) = k.holder
    BY <2>1, Vanishes
  <2>3. Holder(k.id)' = "free" /\ (id # k.id => Holder(id)' = Holder(id))
    BY <2>2, Frees
  <2>4. Pending(id)' \subseteq Pending(id)
    <3>1. Holder(id)' = "free" \/ Holder(id)' = Holder(id)
      BY <2>3
    <3> QED BY <2>1, <3>1, Names DEF Pending
  <2>5. CASE mishaps' = mishaps + 1
    BY <1>0, <2>1, <2>4, <2>5, HooksStayLeft
  <2>6. CASE k.holder = "orphan" /\ mishaps' = mishaps
    <3>1. Vacant(id)' <= Vacant(id)
      <4>1. CASE id = k.id
        BY <2>2, <2>3, <2>6, <4>1 DEF Vacant
      <4>2. CASE id # k.id
        BY <2>3, <4>2, Counts
      <4> QED BY <4>1, <4>2
    <3> QED BY <1>0, <2>1, <2>4, <2>6, <3>1, HooksStayLeft
  <2> QED BY <2>1, <2>5, <2>6
<1>8. CASE Change \/ LedgerNext \/ UNCHANGED billingVars
  BY <1>1, <1>8 DEF Change, LedgerNext
<1> QED BY <1>3, <1>4, <1>5, <1>6, <1>7, <1>8 DEF BillingNext

LEMMA HooksInit == BillingInit => \A id \in EventIds : HooksLeft(id)
<1> SUFFICES ASSUME BillingInit, NEW id \in EventIds
             PROVE  HooksLeft(id)
  OBVIOUS
<1>1. /\ run = [x \in Runners |-> NoRun] /\ mishaps = 0
      /\ seen = [i \in EventIds |-> [hooks |-> 0, put |-> FALSE]]
  BY DEF BillingInit
<1>2. Pending(id) = {}
  BY <1>1 DEF Pending, NoRun
<1>3. Cardinality(Pending(id)) = 0
  BY <1>2, FS_EmptySet
<1>4. seen[id].hooks = 0
  BY <1>1
<1> QED BY <1>1, <1>3, <1>4, Counts DEF HooksLeft

\* The hook of an event fires once, and each further time has a crash, a lapsed claim, or an
\* error of its own: neither duplicates nor runs side by side nor the two-step release of a
\* claim that has meanwhile become another's fire it again for nothing.
THEOREM HooksPaidFor == BillingSpec => []HookPerMishap
<1> DEFINE All == \A id \in EventIds : HooksLeft(id)
<1>1. BillingInit => All
  BY HooksInit
<1>2. BillingInv /\ All /\ [BillingNext]_billingVars => All'
  BY HooksKept
<1>3. BillingInv /\ All => HookPerMishap
  <2> SUFFICES ASSUME BillingInv, NEW id \in EventIds, HooksLeft(id)
               PROVE  seen[id].hooks <= 1 + mishaps
    BY DEF HookPerMishap
  <2>1. seen[id].hooks \in Nat /\ mishaps \in Nat
    BY DEF BillingInv, Typed, SeenTyped, SeenRec, RestTyped
  <2> QED BY <2>1, Counts DEF HooksLeft
<1> QED BY <1>1, <1>2, <1>3, InvAlways, PTL DEF BillingSpec

-----------------------------------------------------------------------------
(* The ledger under the pipeline *)

\* Deliveries and runs that die in the middle of a grant break neither the chain of entries nor
\* the limit of a consume.
THEOREM PipelineConserves == BillingSpec => [](Conserved /\ NoOverdraw)
BY InvAlways, PTL DEF BillingInv, IInv

\* What a caller asks and was answered is all the contract sees of its call.
LEMMA CallsSeen ==
    ASSUME NEW x \in Callers, NEW q, NEW a, call'[x].req = q, call'[x].answer = a,
           \A d \in Callers \ {x} : call'[d] = call[d]
    PROVE  /\ AskedOf' = [AskedOf EXCEPT ![x] = q]
           /\ AnswerOf' = [AnswerOf EXCEPT ![x] = a]
  BY DEF AskedOf, AnswerOf

LEMMA LeaveMaps ==
    ASSUME TypeOK, NEW x \in Callers, call' = [call EXCEPT ![x] = NoCall], UNCHANGED <<row, entries>>
    PROVE  Contract!Leave(x)
<1>1. call'[x] = NoCall /\ \A d \in Callers \ {x} : call'[d] = call[d]
  BY TypeParts DEF CallTyped
<1>2. NoCall.req = NoRequest /\ NoCall.answer = NoAnswer
  BY DEF NoCall
<1>3. call'[x].req = NoRequest /\ call'[x].answer = NoAnswer
  BY <1>2, <1>1
<1>4. AskedOf' = [AskedOf EXCEPT ![x] = NoRequest] /\ AnswerOf' = [AnswerOf EXCEPT ![x] = NoAnswer]
  BY ONLY <1>1, <1>3, CallsSeen, x \in Callers
<1>5. UNCHANGED <<row.balance, BookOf>>
  BY DEF BookOf
<1> QED BY <1>4, <1>5 DEF Contract!Leave, AskedOf, AnswerOf, BookOf

\* The ledger keeps its contract towards its other callers while deliveries grant, race and die.
THEOREM PipelineKeepsContract == BillingSpec => KeepsContract
<1>1. BillingInit => Contract!Init
  <2> SUFFICES ASSUME BillingInit
               PROVE  Contract!Init
    OBVIOUS
  <2>1. \A c \in Callers : call[c].req = NoRequest /\ call[c].answer = NoAnswer
    BY DEF BillingInit, LedgerInit, NoCall
  <2>2. row.balance = 0 /\ entries = {}
    BY DEF BillingInit, LedgerInit, NewAccount
  <2> QED BY <2>1, <2>2 DEF Contract!Init
<1>2. BillingInv /\ [BillingNext]_billingVars => [Contract!Next]_contractVars
  <2> SUFFICES ASSUME BillingInv, [BillingNext]_billingVars
               PROVE  Contract!Next \/ UNCHANGED contractVars
    OBVIOUS
  <2>1. CASE UNCHANGED vars
    BY <2>1 DEF contractVars, BookOf, AskedOf, AnswerOf
  <2>2. ASSUME NEW c \in Callers, Opens(c) \/ Mutate(c)
        PROVE  Contract!Next \/ UNCHANGED contractVars
    BY <2>2, StepMaps DEF BillingInv
  <2>3. ASSUME NEW x \in Runners, Crash(x)
        PROVE  Contract!Next
    <3>1. x \in Callers /\ Contract!Leave(x)
      BY <2>3, Names, LeaveMaps DEF Crash, BillingInv, IInv
    <3> QED BY <3>1 DEF Contract!Next
  <2> QED BY <2>1, <2>2, <2>3, LedgerMoves
<1> QED BY <1>1, <1>2, InvAlways, PTL
        DEF BillingSpec, KeepsContract, Contract!Spec, contractVars, BookOf, AskedOf, AnswerOf
=============================================================================
