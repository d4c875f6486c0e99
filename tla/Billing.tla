------------------------------ MODULE Billing ------------------------------
(***************************************************************************)
(* The event pipeline of src/src/billing (index.ts, reconcile.ts) over the *)
(* durable credits ledger: webhook deliveries and reconciliation runs      *)
(* claim an event in the key-value store, grant credits, run the app's     *)
(* onEvent hook, write the local mirror of a subscription and mark the     *)
(* event done. The payment provider retries what was not answered with     *)
(* 200, duplicates deliveries and reorders them.                           *)
(*                                                                         *)
(* One account and one subscription. An action is one operation on the     *)
(* key-value store, the database, the provider or the hook, and the local  *)
(* code that runs when its answer arrives.                                 *)
(***************************************************************************)
EXTENDS CreditLedger, FiniteSets

CONSTANTS
    Handlers,       \* deliveries processed at the same time
    SubHandlers,    \* bound: those of them that carry events of the subscription
    Reconcilers,    \* reconciliation runs at the same time
    Payments,       \* ids of payment.succeeded events
    Credits,        \* plan.credits
    MaxChanges,     \* bound: how often the subscription changes at the provider
    MaxMishaps      \* bound: crashes, lapsed claims, failed hooks and writes

Runners == Handlers \cup Reconcilers
Statuses == {"active", "canceled"}
Absent == "absent"
Terminal == {"canceled"}

GrantRequest(id) == [kind |-> "grant", amount |-> Credits, key |-> id, neg |-> FALSE]

ASSUME BillingAssumption ==
    /\ Runners \subseteq Callers /\ Handlers \cap Reconcilers = {} /\ SubHandlers \subseteq Handlers
    /\ IsFiniteSet(Runners) /\ Runners \cap {"free", "orphan", "done"} = {}
    /\ IsFiniteSet(Payments) /\ NoKey \notin Payments
    /\ \A p \in Payments : GrantRequest(p) \in Requests
    /\ Credits \in Nat \ {0} /\ MaxChanges \in Nat /\ MaxMishaps \in Nat

VARIABLES
    remote,     \* the subscription's state at the provider
    changes,    \* how often it changed
    sent,       \* events the provider delivers until they are answered with 200
    claims,     \* covara:billing:evt:*
    mirror,     \* the subscription store's record: the state it holds
    run,        \* runClaimed of each delivery or reconciliation run
    recon,      \* reconcileCustomer and applyDrift of each run
    seen,       \* the events that ran: credits granted, hook run, mirror written
    mishaps

pipeline == <<claims, mirror, run, seen>>
billing == <<remote, changes, sent, claims, mirror, run, recon, seen, mishaps>>
billingVars == <<vars, billing>>

-----------------------------------------------------------------------------
(* Types *)

SubEvents == {<<"change", n>> : n \in 1..MaxChanges}
\* The deterministic id of a synthesized event: what was stored and what the provider said.
Drifts == {<<"drift", from, to>> : from \in Statuses \cup {Absent}, to \in Statuses}
EventIds == Payments \cup SubEvents \cup Drifts
Event == [id : EventIds, status : Statuses \cup {Absent}]
NoEvent == [id |-> <<>>, status |-> Absent]
IsPayment(ev) == ev.id \in Payments


\* A claim is a runner's token, the token of a runner that died, or the mark "done".
Claims == [id : EventIds, holder : Runners \cup {"orphan", "done"}]
RunPc == {"idle", "set", "get", "grant", "granting", "hook", "put", "complete", "check", "del"}
ReconPc == {"idle", "list", "local", "get", "check", "apply", "persist"}

BillingTypeOK ==
    /\ TypeOK
    /\ remote \in Statuses \cup {Absent} /\ changes \in 0..MaxChanges
    /\ sent \subseteq Event
    /\ claims \subseteq Claims
    /\ \A a, b \in claims : a.id = b.id => a = b
    /\ mirror \in Statuses \cup {Absent}
    /\ run \in [Runners -> [pc : RunPc, ev : Event \cup {NoEvent}, attempt : 0..3]]
    /\ recon \in [Reconcilers -> [pc : ReconPc, remote : Statuses \cup {Absent},
                               local : Statuses \cup {Absent}, stale : BOOLEAN]]
    /\ seen \in [EventIds -> [hooks : Nat, put : BOOLEAN]]
    /\ mishaps \in 0..MaxMishaps

NoRun == [pc |-> "idle", ev |-> NoEvent, attempt |-> 0]
NoRecon == [pc |-> "idle", remote |-> Absent, local |-> Absent, stale |-> FALSE]

Holder(id) == IF \E k \in claims : k.id = id THEN (CHOOSE k \in claims : k.id = id).holder
              ELSE "free"

\* Mutant: a claim is added beside the one that is there.
HoldBeside(id, holder) == claims' = claims \cup {[id |-> id, holder |-> holder]}
Hold(id, holder) == claims' = {k \in claims : k.id # id} \cup {[id |-> id, holder |-> holder]}

\* The behaviours exercise the ledger alone, payments, or the subscription.
BillingInit ==
    /\ LedgerInit
    /\ remote = Absent
    /\ claims = {}
    /\ mirror = Absent
    /\ run = [x \in Runners |-> NoRun]
    /\ recon = [r \in Reconcilers |-> NoRecon]
    /\ seen = [id \in EventIds |-> [hooks |-> 0, put |-> FALSE]]
    /\ mishaps = 0
    /\ \/ begun = 0 /\ changes = MaxChanges /\ sent = {}
       \/ begun = MaxCalls /\ changes = MaxChanges
          /\ sent = {[id |-> p, status |-> Absent] : p \in Payments}
       \/ begun = MaxCalls /\ changes = 0 /\ sent = {}

Mishap == mishaps < MaxMishaps /\ mishaps' = mishaps + 1

-----------------------------------------------------------------------------
(* The provider *)

Change ==
    /\ changes < MaxChanges
    /\ \E s \in (Statuses \cup {Absent}) \ {remote} :
          /\ remote = Absent => changes = 0
          /\ remote' = s
          /\ sent' = IF s = Absent THEN sent
                     ELSE sent \cup {[id |-> <<"change", changes + 1>>, status |-> s]}
    /\ changes' = changes + 1
    /\ UNCHANGED <<pipeline, recon, mishaps, vars>>

Deliver(h, ev) ==
    /\ run[h].pc = "idle"
    /\ ev \in sent
    /\ IsPayment(ev) \/ h \in SubHandlers
    /\ run' = [run EXCEPT ![h] = [NoRun EXCEPT !.pc = "set", !.ev = ev]]
    /\ UNCHANGED <<remote, changes, sent, claims, mirror, recon, seen, mishaps, vars>>

\* The answer 200, which may get lost.
Acknowledge(ev) == sent' \in {sent, sent \ {ev}}

-----------------------------------------------------------------------------
(* runClaimed *)

At(x, pc) == run[x].pc = pc
Step(x, pc) == run' = [run EXCEPT ![x].pc = pc]

\* Mutant: a delivery that found another one in flight is answered with 200.
FinishInFlight(x, result) ==
    /\ run' = [run EXCEPT ![x] = NoRun]
    /\ IF x \in Handlers
       THEN /\ UNCHANGED recon
            /\ IF result # "failed" THEN Acknowledge(run[x].ev) ELSE UNCHANGED sent
       ELSE /\ UNCHANGED sent
            /\ recon' = [recon EXCEPT ![x] = IF result = "already_applied"
                                             THEN [@ EXCEPT !.pc = "persist"] ELSE NoRecon]

\* runClaimed has its result: a delivery is answered, a reconciliation run goes on.
Finish(x, result) ==
    /\ run' = [run EXCEPT ![x] = NoRun]
    /\ IF x \in Handlers
       THEN /\ UNCHANGED recon
            /\ IF result \in {"applied", "already_applied"} THEN Acknowledge(run[x].ev)
               ELSE UNCHANGED sent
       ELSE /\ UNCHANGED sent
            /\ recon' = [recon EXCEPT ![x] = IF result = "already_applied"
                                             THEN [@ EXCEPT !.pc = "persist"] ELSE NoRecon]

\* Mutant: set without nx.
ClaimOver(x) ==
    /\ At(x, "set")
    /\ Hold(run[x].ev.id, x)
    /\ Step(x, "get")
    /\ UNCHANGED <<remote, changes, sent, mirror, recon, seen, mishaps, vars>>

\* kv.set(key, token, {nx, px})
ClaimSet(x) ==
    /\ At(x, "set")
    /\ IF Holder(run[x].ev.id) = "free" THEN Hold(run[x].ev.id, x) ELSE UNCHANGED claims
    /\ Step(x, "get")
    /\ UNCHANGED <<remote, changes, sent, mirror, recon, seen, mishaps, vars>>

\* kv.get(key): a claim that vanished in between is tried again, three times, and then left to
\* the provider's retry, like another's.
ClaimGet(x) ==
    LET holder == Holder(run[x].ev.id) IN
    /\ At(x, "get")
    /\ \/ /\ holder = x
          /\ Step(x, IF IsPayment(run[x].ev) THEN "grant" ELSE "hook")
          /\ UNCHANGED <<sent, recon>>
       \/ /\ holder = "free" /\ run[x].attempt < 3
          /\ run' = [run EXCEPT ![x].pc = "set", ![x].attempt = @ + 1]
          /\ UNCHANGED <<sent, recon>>
       \/ holder = "done" /\ Finish(x, "already_applied")
       \/ /\ holder \notin {x, "done"} /\ (holder = "free" => run[x].attempt = 3)
          /\ Finish(x, "in_flight")
    /\ UNCHANGED <<remote, changes, claims, mirror, seen, mishaps, vars>>

\* processEvent: credits.grant under the key billing:<provider>:<event id>
GrantStart(x) ==
    /\ At(x, "grant")
    /\ Begin(x, GrantRequest(run[x].ev.id))
    /\ Step(x, "granting")
    /\ UNCHANGED <<remote, changes, sent, claims, mirror, recon, seen, mishaps, begun>>

GrantStep(x) ==
    /\ At(x, "granting")
    /\ Mutate(x)
    /\ UNCHANGED <<billing, begun>>

\* Mutant: an error of the ledger is swallowed.
GrantAnyhow(x) ==
    /\ At(x, "granting") /\ call[x].pc = "returned"
    /\ Step(x, "hook")
    /\ UNCHANGED <<remote, changes, sent, claims, mirror, recon, seen, mishaps, vars>>

GrantEnd(x) ==
    /\ At(x, "granting") /\ call[x].pc = "returned"
    /\ Step(x, IF call[x].answer.how \in {"applied", "duplicate"} THEN "hook" ELSE "check")
    /\ UNCHANGED <<remote, changes, sent, claims, mirror, recon, seen, mishaps, vars>>

\* config.onEvent
Hook(x) ==
    /\ At(x, "hook")
    /\ seen' = [seen EXCEPT ![run[x].ev.id].hooks = @ + 1]
    /\ Step(x, "put")
    /\ UNCHANGED <<remote, changes, sent, claims, mirror, recon, mishaps, vars>>

\* store.put: the record's new updatedAt tells a run that read it before.
Store(status, state) ==
    /\ mirror' = status
    /\ recon' = [r \in Reconcilers |-> IF state[r].pc \in {"get", "check"}
                                       THEN [state[r] EXCEPT !.stale = TRUE] ELSE state[r]]

\* persistSubscription, last: only for events of a subscription.
Put(x) ==
    LET ev == run[x].ev IN
    /\ At(x, "put")
    /\ IF IsPayment(ev) THEN UNCHANGED <<mirror, recon>> ELSE Store(ev.status, recon)
    /\ seen' = [seen EXCEPT ![ev.id].put = TRUE]
    /\ Step(x, "complete")
    /\ UNCHANGED <<remote, changes, sent, claims, mishaps, vars>>

\* kv.set(key, "done", {px}), whoever holds the claim by now
Complete(x) ==
    /\ At(x, "complete")
    /\ Hold(run[x].ev.id, "done")
    /\ Finish(x, "applied")
    /\ UNCHANGED <<remote, changes, mirror, seen, mishaps, vars>>

\* A hook or a write that throws.
Throw(x) ==
    /\ run[x].pc \in {"hook", "put"}
    /\ Mishap
    /\ Step(x, "check")
    /\ UNCHANGED <<remote, changes, sent, claims, mirror, recon, seen, vars>>

\* release: compare the token, then delete, in two operations.
ReleaseGet(x) ==
    /\ At(x, "check")
    /\ \/ Holder(run[x].ev.id) = x /\ Step(x, "del") /\ UNCHANGED <<sent, recon>>
       \/ Holder(run[x].ev.id) # x /\ Finish(x, "failed")
    /\ UNCHANGED <<remote, changes, claims, mirror, seen, mishaps, vars>>

ReleaseDel(x) ==
    /\ At(x, "del")
    /\ claims' = {k \in claims : k.id # run[x].ev.id}
    /\ Finish(x, "failed")
    /\ UNCHANGED <<remote, changes, mirror, seen, mishaps, vars>>

RunClaimed(x) ==
    \/ ClaimSet(x) \/ ClaimGet(x) \/ GrantStart(x) \/ GrantStep(x) \/ GrantEnd(x)
    \/ Hook(x) \/ Put(x) \/ Complete(x) \/ Throw(x) \/ ReleaseGet(x) \/ ReleaseDel(x)

-----------------------------------------------------------------------------
(* Reconciliation *)

ReconAt(r, pc) == recon[r].pc = pc

\* A run that knows no customer ends at once.
Start(r) ==
    /\ ReconAt(r, "idle")
    /\ remote # Absent \/ mirror # Absent
    /\ recon' = [recon EXCEPT ![r].pc = "list"]
    /\ UNCHANGED <<remote, changes, sent, pipeline, mishaps, vars>>

\* listAllSubscriptions or listSubscriptions
List(r) ==
    /\ ReconAt(r, "list")
    /\ recon' = [recon EXCEPT ![r].pc = "local", ![r].remote = remote]
    /\ UNCHANGED <<remote, changes, sent, pipeline, mishaps, vars>>

\* What to do about a local record once the provider's state is known.
Compare(r, local, status) ==
    recon' = [recon EXCEPT ![r] = IF local = status THEN NoRecon
                                  ELSE [@ EXCEPT !.pc = "check", !.remote = status, !.local = local]]

\* store.listByCustomer: a subscription the provider did not list is fetched by itself.
ReadLocal(r) ==
    /\ ReconAt(r, "local")
    /\ IF recon[r].remote = Absent /\ mirror # Absent
       THEN recon' = [recon EXCEPT ![r].pc = "get", ![r].local = mirror]
       ELSE Compare(r, mirror, recon[r].remote)
    /\ UNCHANGED <<remote, changes, sent, pipeline, mishaps, vars>>

\* getSubscription: a 404 cancels a local subscription that is not over yet.
Fetch(r) ==
    /\ ReconAt(r, "get")
    /\ IF remote # Absent THEN Compare(r, recon[r].local, remote)
       ELSE IF recon[r].local \in Terminal
            THEN recon' = [recon EXCEPT ![r] = NoRecon]
            ELSE Compare(r, recon[r].local, "canceled")
    /\ UNCHANGED <<remote, changes, sent, pipeline, mishaps, vars>>

\* A call to the provider that fails ends the run with a report.
ProviderError(r) ==
    /\ recon[r].pc \in {"list", "get"}
    /\ Mishap
    /\ recon' = [recon EXCEPT ![r] = NoRecon]
    /\ UNCHANGED <<remote, changes, sent, pipeline, vars>>

\* applyDrift: only if the record is still the one compared.
CheckUnchanged(r) ==
    /\ ReconAt(r, "check")
    /\ \/ /\ ~recon[r].stale
          /\ recon' = [recon EXCEPT ![r].pc = "apply"]
          /\ run' = [run EXCEPT ![r] =
                [NoRun EXCEPT !.pc = "set",
                              !.ev = [id |-> <<"drift", recon[r].local, recon[r].remote>>,
                                      status |-> recon[r].remote]]]
       \/ /\ recon[r].stale
          /\ recon' = [recon EXCEPT ![r] = NoRecon]
          /\ UNCHANGED run
    /\ UNCHANGED <<remote, changes, sent, claims, mirror, seen, mishaps, vars>>

\* Mutant: an event that ran before is taken for one whose record is written.
PersistNothing(r) ==
    /\ ReconAt(r, "persist")
    /\ recon' = [recon EXCEPT ![r] = NoRecon]
    /\ UNCHANGED <<remote, changes, sent, pipeline, mishaps, vars>>

\* An event that ran before fires no hook again, but the record is written.
PersistAgain(r) ==
    /\ ReconAt(r, "persist")
    /\ Store(recon[r].remote, [recon EXCEPT ![r] = NoRecon])
    /\ UNCHANGED <<remote, changes, sent, claims, run, seen, mishaps, vars>>

Reconcile(r) == \/ Start(r) \/ List(r) \/ ReadLocal(r) \/ Fetch(r) \/ ProviderError(r)
                \/ CheckUnchanged(r) \/ PersistAgain(r)

-----------------------------------------------------------------------------
(* Time and failures *)

\* A process dies in the middle of a delivery or a run.
Crash(x) ==
    /\ run[x].pc # "idle"
    /\ Mishap
    /\ claims' = {IF k.holder = x THEN [k EXCEPT !.holder = "orphan"] ELSE k : k \in claims}
    /\ run' = [run EXCEPT ![x] = NoRun]
    /\ call' = [call EXCEPT ![x] = NoCall]
    /\ recon' = [r \in Reconcilers |-> IF r = x THEN NoRecon ELSE recon[r]]
    /\ UNCHANGED <<remote, changes, sent, mirror, seen, row, entries, begun, faults>>

\* Mutant: a claim without a lease.
ExpireNever == claims = {} /\ UNCHANGED billingVars

\* The lease of a dead runner's claim runs out.
Expire == /\ \E k \in claims : k.holder = "orphan" /\ claims' = claims \ {k}
          /\ UNCHANGED <<remote, changes, sent, mirror, run, recon, seen, mishaps, vars>>

\* The lease of a slow runner's claim, or the time a done event is remembered, runs out.
Lapse == /\ \E k \in claims : k.holder # "orphan" /\ claims' = claims \ {k}
         /\ Mishap
         /\ UNCHANGED <<remote, changes, sent, mirror, run, recon, seen, vars>>

LedgerNext == \E c \in Callers \ Runners :
    \/ Call(c) /\ UNCHANGED billing
    \/ Mutate(c) /\ UNCHANGED <<billing, begun>>

BillingNext ==
    \/ LedgerNext
    \/ Change
    \/ \E h \in Handlers : \E ev \in sent : Deliver(h, ev)
    \/ \E x \in Runners : RunClaimed(x) \/ Crash(x)
    \/ \E r \in Reconcilers : Reconcile(r)
    \/ Expire
    \/ Lapse

\* Handlers, runs of the recurring reconciliation and leases make progress; the provider
\* retries a payment's event until it is answered.
BillingSpec ==
    /\ BillingInit /\ [][BillingNext]_billingVars
    /\ \A x \in Runners : WF_billingVars(RunClaimed(x))
    /\ \A r \in Reconcilers : WF_billingVars(Reconcile(r))
    /\ \A p \in Payments :
          SF_billingVars(\E h \in Handlers : Deliver(h, [id |-> p, status |-> Absent]))
    /\ WF_billingVars(Expire)

-----------------------------------------------------------------------------
(* Properties *)

Ran(id) == /\ seen[id].hooks > 0 /\ seen[id].put
           /\ id \in Payments => \E e \in entries : e.key = id

\* An event is marked done only after its credits, its hook and its record: a crash, a lost
\* lease or an error in between leaves it to a retry.
SeenAfterSuccess == \A k \in claims : k.holder = "done" => Ran(k.id)

\* The provider gives up an event only when it ran: no other answer than 200 for a delivery
\* that was refused, failed or found another one in flight.
AnsweredAfterSuccess == [][\A ev \in sent \ sent' : Ran(ev.id)]_billingVars

\* A payment is credited once, whatever claims lapse, runs crash or deliveries overlap.
PaidOnce ==
    Cardinality({e \in entries : e.kind = "grant" /\ e.delta = Credits}) <= Cardinality(Payments)

\* Deliveries, duplicates and runs side by side fire an event's hook once; each further time
\* has a crash, a lapse or an error of its own.
HookPerMishap == \A id \in EventIds : seen[id].hooks <= 1 + mishaps

Sent(p) == \E ev \in sent : ev.id = p

\* Every payment is credited and seen by the app in the end.
PaymentsRun == \A p \in Payments : Sent(p) ~> Ran(p)

Agree == \/ mirror = remote
         \/ remote = Absent /\ mirror \in Terminal
\* Once the provider is quiet the mirror agrees with it and stays so: deliveries out of
\* order, lost events and drifts whose event already ran are all repaired.
MirrorSettles == <>[]Agree
=============================================================================
