# Covara: a verification project

Covara is a TypeScript server framework (REST resources over a SQL database, live
subscriptions, background tasks, authentication, billing, files) with a client
library. This directory holds TLA+ models of the parts whose correctness depends
on the order of things, or on two pieces of code saying the same: the background
task system with its dead letters and recurring schedules, the live feed from a
write request to the client's copy of the rows, the client's live store and offline
queue, billing, the filter language and the key-value stores. TLC checks the models
on small instances, TLAPS proves theorems about them for all instances.

`PROJECT.json` lists components, runs, mutants, the map from definitions to source
lines, findings, hazards and theorems. All paths below are relative to the
repository; the implementation is under `src/src`.

To run one check: `tlc -config <run>.cfg <module>`, with the module that
`PROJECT.json` names for the run (`MC_Services` for `feed`); to check the proofs: `tlapm <module>.tla` for each of the eight
modules `*Proofs`. Section 11 lists what they prove.

## 1. Inventory

Everything that is shared lives in a SQL database or in a key-value store
(`kv/`: memory, Redis or a Durable Object). The code is asynchronous: each `await`
of a store operation is a point where any other routine of the process, and any
other process, may run. That is the unit of interleaving of all the models.

| component | state it keeps | operations | what is hard about it |
|---|---|---|---|
| task queue, lock, worker (`tasks/worker, queue, lock, concurrency, retry, idempotency, storage`) | task hashes, status indexes, one sorted set per priority bucket, lock keys, a counter per limited type, dead letters; per worker the active tasks | poll, claim, run, time out, heartbeat, retry, bury, stop | claims by several workers, crash between any two operations, lock expiry, a counter shared by the fleet |
| scheduler (`tasks/scheduler`) | as above, idempotency keys | enqueue, schedule, cancel | read-then-write without the task's lock |
| dead letters (`tasks/dlq`) | dead-letter hashes and index | add, retry, retryAll, purge | retry is several operations; repeated retries |
| recurring tasks (`tasks/recurring`) | definitions, next run times | tick, pause, resume, delete | two schedulers fire one slot; tick against pause |
| Cloudflare consumer (`tasks/cloudflare-queues`) | none of its own | consume, ack, retry | redelivery |
| changelog (`resource/changelog`) | a sequence key and a sorted set of entries | append, entries since, gap check | appends overlap, each trims by what it read before |
| subscriptions (`resource/subscription`) | subscriptions by resource, known ids and an event counter per subscription; handlers in the process | create, remove, push insert/update/delete, snapshot, catch-up, invalidate, deliver to other processes | set-up against live pushes, backpressure, teardown during a push |
| resource handlers (`resource/hook, mutate, batch, query`) | none but the database | CRUD, batch, subscribe | the order of commit, changelog record and push |
| ETags (`resource/etag`) | none | If-Match checks | the row changes between check and write |
| transactions, tracking, search outbox (`resource/transaction, track-mutations, search-outbox`) | pending pushes, outbox rows | tracked writes, flush, retry | rollback after something was pushed |
| client subscription manager (`client/subscription-manager`) | rows, `lastSeq`, connection | connect, events, invalidate, reconnect | lost frames, resuming from the right number |
| client live store (`client/live-store`) | rows, optimistic rows, pending updates and deletes | optimistic CRUD, confirm, roll back, events | answers and events in any order |
| client offline queue (`client/offline, indexeddb-storage`) | queued mutations, id map | queue, merge, sync, conflict | page closed at any step, merge into a mutation being sent |
| tabs (`client/tab-sync, shared-sse`) | leader, followers | elect, relay | two leaders, a leader that dies |
| rate limit and idempotency middleware | counters, cached responses | look up, execute, store, replay | concurrent duplicates |
| billing (`billing/`) | credit ledger, claims of events, mirror of subscriptions | grant, consume, set, webhook, reconcile | conditional updates under contention, redelivered and reordered webhooks |
| filters (`resource/filter`) | none | parse, convert to SQL, execute in memory | every operator is written twice |
| key-value adapters (`kv/`) | entries with an expiry | strings, hashes, sets, lists, sorted sets | two stores that must answer alike; one keeps a row per member |
| files (`storage/`) | upload sessions, parts, file rows | part upload, complete, clean up | lost parts, cleanup against use |
| sessions, OIDC (`auth/`, `oidc/`) | sessions, codes, tokens | rotate, exchange, revoke | one-time use under concurrent requests |
| server streams and multiplexing (`server/`) | streams, attached subscriptions | write, attach, detach | detach during a push |
| abuse protection, proof of work, email, search adapters, migrations, admin UI, CLI, OpenAPI, HTMX, env, health | little or none | | pure I/O, rendering or generation for the most part |

Interactions: write handlers call the changelog and push to subscriptions (calls);
subscriptions write frames that the client manager reads (messages); the scheduler
and the workers meet only in the store (shared state); tasks run user handlers
(callbacks) whose promises race a timer.

What makes each component correct:

* Tasks: a task is executed by one worker at a time; it is retried no more than
  its attempts allow and never after it is over; it is not lost; a lock or a slot
  that was taken is given back on every path; the record can be found by its
  status; the task is completed or buried in the end.
* Live feed: the client ends up with the rows that match its filter; the server's
  idea of what the client holds is right; a resume replays everything or says that
  it cannot; nobody is sent round for ever.
* Client stores: an optimistic write is confirmed or undone, never both or twice,
  and survives the page.
* Middleware, billing, uploads, tokens: an effect happens once however often it is
  asked for, and a code or token is used once.

## 2. Plan

1. `TaskQueue`, with the abstract `TaskLifecycle`: *done*, with proofs.
2. `LiveFeed`: changelog, subscriptions, write handlers and the client manager in
   one module, because the properties relate the client's rows to the database:
   *done*, with proofs.
3. `CreditLedger` with the abstract `CreditsContract`, and `Billing` around it:
   *done*, both with proofs, the refinement among them.
4. `OfflineQueue` (with the idempotency middleware as its server): *done*, with proofs;
   `LiveStore`: *done*, with proofs.
5. `DeadLetters` and `Recurring`: *done*, with proofs.
6. `Filter`, `Paging` and `KeyValue`, where one description is implemented twice:
   *done*, `Paging` with proofs. The parser is recursive, so nothing can be proved about it.
7. `Files`: *done*, with proofs.
8. Open: one-time use of codes and refresh-token rotation (`oidc/`), tracked
   transactions and the search outbox (`resource/`), the multiplexed stream
   (`server/`), the rate limiter.
9. Proofs, open: `LifecycleKept` with crashes; the layout of the Durable Object's
   storage (`DurableLayout`); `CreatedOnce` of `OfflineQueue`.

Bounds: two actors per kind, two items, one disturbance per behaviour unless a
property needs more. A run is a question, or, for `feed` and `backlogs`, one asked of
several parts in turn (section 10).

## 3. The task system

### Modules

* `TaskQueue`: the specification. A step is the local code of one routine up to and
  including its next store operation.
* `TaskLifecycle`: what a submitted task goes through, seen from outside.
  `TaskQueue` implements it by the mapping `Lifecycle` (a claimable status is
  "waiting"; a hash without a task is "absent").
* `MC_TaskQueue`: tables and symmetry for TLC.
* `TaskQueueProofs`: theorems about every fleet; `TaskRunProofs`: about one worker, and
  about tasks with one attempt.

### Correspondence

| model | code |
|---|---|
| `data`, `statusIdx`, `queue`, `lock`, `slots`, `dead`, `idem`, `marked` | the task hash, `tasks:status:*`, the bucket's sorted set, the lock key, the concurrency counter, dead letters, idempotency keys and completed markers |
| `sub`, `cancel` | how far a client's `enqueue()`/`schedule()` and `cancel()` have come |
| `EnqueueCheck`, `EnqueueStore`, `EnqueueIndex`, `EnqueueKey`, `EnqueueAdd` | the look-up of the key, the three operations of `storage.store` (hash, index, key), `queue.add` |
| `Batches` | `zrangebyscore` with its limit, `BatchSize` |
| `poll[w]` | the poll loop: `Scan, NextBucket, Acquire, Load, Unlock, Dequeue` are `claimNext`; `DispatchUnknown, BuryUnknown, Dispatch, DispatchFull, Uncount, PutBack` the rest of `poll()` |
| `exec[w][l]` | one `processTask` call: `Start, Short, Begin, HandlerReturns, Settle, HandlerThrows, Requeue, Bury, Finally, FinallyUnlock`, and the timer `Heartbeat` |
| `active`, `forced`, `halt[w]` | `activeTasks`, `forceStopped`, `stop()` after its grace period (`StopBegin` ... `StopEnd`) |
| `mode`, `Crash` | the process |
| `Tick`, `Lapse`, `ExpireResult`, `OverrunEnds` | a delay runs out, a lock's time to live runs out, a result's does, a handler that was given up ends |

A hash may be `partial`: `updateStatus` and the heartbeat write fields without
asking whether the hash exists, so after a `cancel()` they create one that cannot
be read as a task. `storage.get` then throws, which ends the loop (`pc = "died"`).

Between the hash and its index a new task is not to be found by its status, and
`StatusFindable` says so: it excepts a submission that has come as far as its hash. Merged
into one step although the code uses several operations: `storage.delete` (the record and
its status index go in one `multi`; the read before it and the removal of the key after it
are separate), `dlq.add` (two operations) and `lock.release` (a get and a del). Left out: errors of the store, `pause()`/`resume()` and a second `start()`,
progress writes, exact times (a delay is "later" until `Tick`).

### Runs

| run | instance | states | shows |
|---|---|---|---|
| `tasks_one_worker` | 1 worker, 2 lanes, 2 tasks of one key, 2 attempts, limit 1 | 61,224 | `NothingStranded`, `FollowsLifecycle`, `Finishes` |
| `tasks_fleet` | 2 workers, 2 tasks, limit 1, one id per listing, crash and stop at any step | 146,462 | `TypeOK`, `NoLockLeak`, `ConcurrencyCap`, `StatusFindable` |
| `tasks_once` | 2 workers, 2 lanes, 2 buckets, an unregistered type, cancel, crash, handlers that outlive their timeout, 1 attempt | 860,997 | `ExclusiveExecution`, `NeverRunAgain` |
| `tasks_crash` | 2 workers, 1 task, crash | violation | the documented reclaim after a crash does not happen |
| `tasks_poison` | 1 worker, 2 tasks, cancel | violation | a cancelled task stops the loop, others wait for ever |

Two tasks and two workers are enough for every pair of routines to meet on a lock,
a slot or a queue; a limit of one makes the second worker meet a full counter; two
attempts give one retry and one burial. `BatchSize` is 10 as in the code, which two tasks
do not reach; in `tasks_fleet` it is 1, so that a listing leaves a due task out. What a third worker or task would add is
covered by the proofs for the four invariants of the fleet.

Deployments matter, and the properties that hold only in some say so in the module:

* `ExclusiveExecution` is checked for tasks with a single attempt. With retries it
  fails in the model: a worker's stale list of due ids leads it to a task that was
  requeued and is held by another of its own runs, and `acquire` succeeds for the
  same worker; when a lock lapses under a running handler (`lapse`) two workers may
  run one task even with a single attempt.
* `NothingStranded` is checked for one worker. With two, `claimNext` may release
  the lock of a task it found not claimable and remove it from the queue although
  its owner has put it back in between (`queue.ts:53-63`).
* `Finishes` assumes that runs are not aborted for ever. On one worker with two
  lanes the loop may take the lock of a task whose earlier run is just ending; that
  run's `finally` releases the lock under the new run, whose heartbeat then aborts
  it, and an aborted run costs no attempt.

### Fairness

`FairSpec` assumes that an awaited operation returns, that a handler returns,
throws or times out, and that a delay or a time to live runs out: promises settle
and timers fire in the event loop. A store that never answers is outside the model.
Weak fairness is per task, per loop and per lane; nobody has to submit, cancel,
stop or crash.

### Proofs

Assumed are only the named assumptions of `TaskQueue` on its constants: worker and
lane sets are finite, the bounds are naturals, the tables have the right types.
Every combination of faults is allowed.

* `TypeCorrect` (`Spec => []TypeOK`). `TypeOK` is not inductive: a routine writes
  to the store under the id it carries, so one must know at which points it carries
  one. `Typed` adds this for the loop (`PollOK`), the runs (`ExecOK`: also that no
  run has its slot at the end) and `stop()` (`HaltOK`: also that a worker that is up
  is not stopping). One lemma per group of actions, one step per action.
* `StatusIndexed` (`Spec => []StatusFindable`). Every action writes records by one
  of a few operations (`RecordStep`); each of these keeps the property, whatever
  status the caller believes to be the old one.
* `LocksReleased` (`Spec => []NoLockLeak`). The strengthening `Kept` adds that the
  loop holds no lock on an id which it drops or puts back. A step of a worker can
  only disturb its own part (`OneKept`).
* `SlotsCapped` (`Spec => []ConcurrencyCap`). Given `Typed` the property is
  inductive: slots owned plus reservations about to be undone never exceed the
  counter. The proof is about cardinalities of two sets, and needs that the
  increment is counted at once, as either an owned slot or one to be undone.

Four more hold in some deployments only, and their theorems say in which. Tasks, lanes,
buckets and tables are arbitrary in all of them.

* `NothingForgotten` (`NothingStranded`) and `LifecycleKept` (`FollowsLifecycle`) assume
  `OneWorker`: no second worker, no disturbance. Attempts and the concurrency limit are
  arbitrary. The first invariant fails for two workers (above). The contract
  has no step for a client that cancels or a `stop()` that gives a handler up; whether more
  workers or a crash would break the refinement is open. The invariant `Alone` has four
  parts. `OnePlace`: a task is in its queue, or with the loop, or with one lane. This is what has to be proved, since
  `acquire` answers yes to whoever holds the lock already, so that the lock does not keep
  two lanes of one worker apart. `RecordTrue`: the status and the attempts in the store are
  those of that place, so that a write-back changes nothing it should not. `Somewhere`:
  who is not finished is in one of the places, which is the property. `Undisturbed`: the
  loop does not die, since no record is partial. TLC checked `Alone` over the 61,224 states
  of `tasks_one_worker` before it was proved.
* `ExecutedAlone` (`ExclusiveExecution`) and `StartedOnce` (`NeverRunAgain`) assume
  `SingleShot`: one attempt, no concurrency limit, no lapse of a lock under its holder, no
  `stop()`. Workers are arbitrary; crashes, cancels and handlers that outlive their timeout
  are allowed. Each part is needed. A retry meets the stale lists of due ids. So does a
  task that the limiter put back: the loop that still lists it acquires the lock for the
  same worker, finds the record not claimable, and releases a lock under which a lane
  works; the lane's heartbeat then aborts it, and an aborted run is begun again. A lapse
  gives the lock to another worker, and a `stop()` puts running tasks back. The invariant
  `Singly`: `Held` (who is at a task holds its lock, is at it once and lists it no more),
  `BegunOnce` (a task whose handler outlived its run is not claimable, and nobody is about
  to begin it) and `Unknown` (nobody is at a task before its client has queued it). TLC
  checked it over the 860,997 states of `tasks_once`.

Only model-checked: the liveness properties `Finishes` and those of the violation runs,
which are out of the prover's reach.

## 4. The live feed

### Module

`LiveFeed` models one resource, one client with one subscription, and a server that
writes the stream itself (`GET /subscribe` without multiplexing). `MC_LiveFeed`
instantiates it.

| model | code |
|---|---|
| `db` | the table: for each row the write that made it and whether it fits the filter |
| `seq`, `log`, `append[w]` | the changelog's sequence key, its sorted set, and `append()` step by step: `AppendIncr, AppendInsert, AppendCount, AppendOldest, AppendTrim` |
| `Write` | a create, update or delete handler up to its commit; from there the changelog record, which it does not await, and the push run side by side |
| `push[w]` | `pushInsertsToSubscriptions`, `pushUpdates...`, `pushDeletes...`: `PushLoad, PushCheck, PushMark, PushSend` |
| `sub` | the stored subscription, its known ids and its event counter |
| `conn` | `startResourceSubscription` step by step (`ReadSequence` ... `SendExisting`) and the state of its stream |
| `wire` | frames written and not read |
| `client` | the subscription manager: `items` and `lastSeq`; `Connect`, `Receive`, `Drop` |

The store answers one caller's operations in the order it issued them, so a push
loads the subscriptions only after the append's increment, which is issued earlier.
Taking the next event number and writing the frame are one step, as are the two
reads of `needsInvalidation`. Stream capacity is counted in frames rather than
bytes. A push that is under way for a subscription which is removed changes nothing
more (`Forgotten`). The slow-consumer policy is the default, "invalidate".

Left out: delivery to other processes, the periodic recheck of scopes, `skipExisting`
and `knownIds`, batches, relations and aggregates, expiry of the session, the "drop"
and "disconnect" policies, the shared stream, and the reconnect that some
EventSource implementations do by themselves.

### Disturbances

`Hazards` selects what the environment does beyond breaking a connection that is
open and quiet:

* `race`: requests are pushed side by side, and while a connection is set up;
* `lose`: a connection breaks with frames unread or before it is set up.

The code orders nothing between two requests' commits, records and pushes, nor
between a snapshot and the pushes beside it, and `connected` moves the client's
position before the replay arrives; with these disturbances the client's rows can
end up stale. The hazards list says where. The passing runs therefore separate
what does hold from what does not: `feed` uses neither (one push at a time, the
changelog appends still overlap later writes), `feed_settles` uses `lose`,
`feed_race` uses `race`.

### Runs

| run | instance | states | shows |
|---|---|---|---|
| `feed` | 2 rows, 2 requests, 3 writes, window 2, stream of 3 frames, 1 break | 169,648 | `ServiceTypeOK`, `ClientMirrors`, `KnownIsHeld`, `WindowContiguous` |
| `feed_settles` | 1 row, 3 writes, window 2, stream of 2 frames, `lose` | 122,056 | `ReplayComplete`, `Settles` |
| `feed_resume` | 2 rows older than the changelog | violation | the client's position mixes two numberings; a resume skips an entry |
| `feed_snapshot` | 2 rows, stream of 2 frames, no write | violation | a snapshot larger than the stream's capacity sends the client round for ever |
| `feed_race` | 1 row, 2 writes, `race` | violation | a change recorded between reading the sequence and storing the subscription reaches the client by no way |

Bounds: three writes with a window of two entries make the changelog trim,
so that a resume is refused in some behaviours and replayed in others; a stream of
two or three frames fills up when a client does not read, so slow-consumer closes
happen; one break gives a fresh start and a resume in one behaviour, and a
refused resume gives another fresh start.

`WindowContiguous` and `ReplayComplete` are claims about at most two overlapping
appends. With three (tried apart, window 2, four writes) two appends may trim an
entry too many while the third still has to insert a lower one. The changelog then
has a hole, and a resume from below it passes the gap check. It takes an append
that stalls while a whole window of others passes it, so with the default of 10,000
entries it is remote.

### Fairness

Appends, pushes, set-up steps, reading a waiting frame and reconnecting are weakly
fair: awaited operations return, and the manager reconnects by a timer. Nobody has
to write, and the connection need not break.

### Proofs

`LiveFeedProofs` proves all four safety properties, for any rows, filters, requests, sizes
of the changelog and of the stream, numbers of writes and breaks.

* `FeedTyped` (`TypeOK`) needs nothing but the assumptions on the constants. `Typed` says
  of each stage of a set-up and of a push what it works on: entries, ids or rows.
* `FeedWindow` (`WindowContiguous`) assumes `Pairs`, at most two requests in flight; three
  can leave a hole (above). The invariant `Window`: `Numbered` (a number belongs to one
  entry, in the changelog, held by an append that has still to insert it, or read by one
  that is about to trim it), `Bounded` (the changelog is within its bound, or
  somebody has still to count it, or is about to trim at least what is too much), and
  `Contiguous`, about what will be left when each trim that has read its entries is done.
  An entry that is inserted below a hole is the lowest and one too many, so that its own
  append removes it: this is where a third append would come between.
* `FeedReplayComplete` (`ReplayComplete`) adds `NoRace`: no request runs beside a set-up,
  and one pushes at a time. `Still` and `Current` say that what a set-up has read is still
  what the store holds, so that a position that passed the gap check has every later entry
  above it.
* `FeedMirrors` (`ClientMirrors`) and `FeedKnownIsHeld` (`KnownIsHeld`) assume `Calm`: in
  addition no connection breaks with frames unread, and no row is older than the changelog.
  Where one of these fails the property fails too: the violation runs `feed_race` and
  `feed_resume` show two of them, the hazards list the third. The invariant `Mirror` follows a row to the
  client: `Told` (the newest entry of a row tells what the client should hold, except for a
  change that is not numbered or not pushed yet), `Away` (a client that is down starts from
  nothing, or a later entry owes it what it lacks), `Wired` (how the frames on the wire
  begin and end), `Resuming` and `Starting` (what each stage of a set-up has brought), and
  `Live` (on an open connection all that keeps a row from its place is the push of its
  change). The frames on the wire are folded over the client's rows, one row at a time.

TLC checked the invariant over 664,926 and 2,660,142 states of two instances before it was
proved. Only model-checked: `Settles`, which is liveness.

## 5. Billing

### Modules

* `CreditsContract`: what the ledger of one account promises, seen from outside: a
  balance, and operations that are applied once, answered as a duplicate, or refused.
* `CreditLedger`: `billing/credits.ts` over the database. An action is one statement
  or transaction of `mutate` (`Find, Read, Commit, Rollback, Lost, TryAgain, After`).
* `Billing`: the webhook and reconciliation pipeline around the ledger. `MC_Billing`
  instantiates it.
* `BillingProofs`: theorems about both.

| model | code |
|---|---|
| `row`, `entries` | the account's row (balance and version), the ledger's entries with their idempotency keys |
| `call[c]` | one call of `grant`, `consume` or `set`: what it has read, its attempt, its answer |
| `claims` | the keys `covara:billing:evt:*`: a runner's token or "done" |
| `run[x]` | `runClaimed` of a delivery or of a reconciliation run: `ClaimSet, ClaimGet, Grant*, Hook, Put, Complete, ReleaseGet, ReleaseDel` |
| `recon[r]` | `reconcileCustomer` and `applyDrift`: `List, ReadLocal, Fetch, CheckUnchanged, PersistAgain` |
| `mirror` | the subscription store's record |
| `remote`, `sent` | external: the provider's subscription, and the events it has yet to deliver |
| `Crash`, `Lapse`, `Expire`, `Throw`, `ProviderError` | a process dies; a lease runs out under a live or after a dead holder; the hook or a write throws; a call to the provider fails |

A behaviour exercises the ledger alone, a payment's deliveries, or the subscription
(`BillingInit`): the three share the code and the tables, not an interleaving that
matters, and together they would be out of TLC's reach. Conditional updates, unique
keys and transactions are the database's; a transaction's outcome may be lost
(`Lost`), which is what the keyed retry is for. A claim that is gone again on the third attempt
is answered "in flight" (`ClaimGet`). Left out: the provider adapters,
checkout and portal, plan look-up, several customers.

### Run `billing`

Three ledger calls by two callers, one retry of a conflict, one lost answer; two
deliveries of one payment; a subscription that changes twice, one delivery at a time
and one reconciliation run; one mishap. 222,051 states. Two concurrent callers make
every pair of statements meet; one retry is used up by two conflicts, so that giving
up occurs, too.

`Conserved`: the balance is the sum of the applied entries. `NoOverdraw`: it is
negative only by a consume that allows it. `SeenAfterSuccess`, `AnsweredAfterSuccess`:
an event answered with 200 did run, and what ran stays marked. `PaidOnce`: a payment
is granted once however often it is delivered and however processes die.
`HookPerMishap`: the application's hook runs once, and once more per mishap.
`KeepsContract`: the ledger implements `CreditsContract`. `PaymentsRun`: a payment
takes effect in the end. `MirrorSettles`: the mirror comes to hold what the provider
says, whatever was lost or reordered before.

Fairness: an awaited operation returns (weak fairness of `RunClaimed`), the recurring
reconciliation runs, leases run out; and the provider delivers an event again until it
is answered with 200 (strong fairness, since a delivery needs a free handler).
`PaymentsRun` needs the provider's retries, `MirrorSettles` only the reconciliation.

### Proofs

From the ledger's own assumption on its constants (`LedgerAssumption`), for any
number of callers, calls and amounts: `LedgerTyped`, `LedgerConserved`,
`LedgerNoOverdraw` and `LedgerKeepsContract`. The first three are conjuncts of one
inductive invariant `IInv`, which adds what a call carries between its statements: a
version it has read is no newer than the row's, and equal versions mean equal
balances, so that a conditional update that succeeds has computed from the current
balance. The refinement has one lemma per action: it maps to a step of the contract
or to a stutter.

`BillingProofs` is about the whole pipeline, for any number of deliveries, runs, payments,
changes of the subscription, and mishaps. `BillingAssumption` adds that the sets are
finite, that a runner's name is none of the marks a claim may hold instead, and that what
a payment grants is an operation of the ledger.

* `BillingInv` is the invariant behind `PipelineTyped`, `DoneHasRun` and `AnsweredHasRun`:
  the ledger's `IInv` and the types; `Claimed` (a claim names a runner that is at its
  event); `Honest` (an answer "applied" or "duplicate" means that the key is booked, which
  is what lets a delivery go on after a grant whose first attempt died); and for each place
  in `runClaimed` what is done by then (`Done`). It does *not* say that a claim's holder is
  alone at its event: a lease that runs out under a live holder lets a second runner in, and
  both may finish. That is why each step has to be right whoever holds the claim, and why
  the credits rest on the unique key (`KeysOnce`) instead.
* `CreditedOnce` counts: grants of a payment's size have payments' keys, and no two the
  same. Its hypothesis `PaymentsAlone` says that whoever else grants as much does it under
  a payment's key, as the two callers of the run may; the property could not tell another
  grant of that size from a payment's.
* `HooksPaidFor` needs a budget. For each event, the hooks that ran, plus the runners that
  may still run it or are about to free its claim (`Pending`), plus one if the claim can be
  taken (`Vacant`), never exceed one more than the mishaps (`HooksLeft`). Each action moves
  a unit from one of these to another, drops one, or is a mishap. A release that deletes
  the claim in a second operation counts until it is done, since by then the claim may be
  someone else's.
* `PipelineConserves` and `PipelineKeepsContract` carry the ledger's theorems over to the
  pipeline, where a runner may die between two statements of a grant (`Leave` of the
  contract).

TLC checked `BillingInv` and `HooksLeft` over the 222,051 states of the run, and over
1,577,786 with two mishaps. Only model-checked: `PaymentsRun` and `MirrorSettles`, which
are liveness.

## 6. The offline queue and the live store

### `OfflineQueue`

A write is sent as it is, queued when that fails, and sent again by the tab that
holds the leadership. The default storage is localStorage (`client/index.ts:167-172`),
which answers at once, so everything a tab does between two answers from the network
is one step. The server is the resource's handlers behind the idempotency middleware.

| model | code |
|---|---|
| `queue` | the stored mutations with status, retry count and key |
| `tab[t]` | `isOnline`, `idMappings`, and the list that `syncPendingMutations` read when it began |
| `direct`, `Make`, `FirstAnswer` | the first request of a repository call, before anything is queued |
| `Enqueue` | `queueMutation` with its merge; which mutations are recent enough to merge is left open |
| `SyncAnswer`, `Drop`, `Resolve` | the loop's answer, error and conflict branches (discard, retry, resolve) |
| `leader`, `Expire`, `Lapse` | the leader lock in localStorage and its time to live |
| `posts`, `Hear` | `id-remapped` messages between tabs |
| `Arrive`, `Create`, `Change`, `Refuse`, `Save` | the middleware's look-up, the handler (reading the row and the conditional update are one step), and the answer that is stored later |
| `Reload` | a page is closed: memory, locks and requests are left behind |

`keyed` says whether the middleware looks at the header that the client sends: its
default header differs from the client's, so both deployments occur.

`Accounted`: no write vanishes: it is on its first way, stored, or done, unless the page was
closed before it was stored, a conflict discarded it, or it was merged into a mutation
whose old copy the running sync holds (`offline.ts:592`; those are `excused`).
`CreatedOnce`: an object is created once, and once more per create given up that the
server cannot tell from a new one. `SentInTurn`: two tabs never
send at once, and all of them together send a mutation no more than `maxRetries` times.
`StrandedBounded`: at most one mutation per closed page stays "processing", which no
sync takes up (`offline.ts:557`). `TakenUp`: everything else is sent in the end,
given that the server serves, answers arrive, stale locks expire and the browser
reports again and again that it is online.

What the properties leave open, because the code does: a frozen leader loses its lock
and two tabs send (`lapses`); a create whose direct answer was lost is queued under
another key and may duplicate; there is no delay between retries. IndexedDB, whose
get and put of one update are two operations, is not modelled.

`OfflineQueueProofs` proves `OfflineTyped`, `WritesAccounted`, `OneSender` and
`StrandedByReload` for any tabs, objects, plans, retries and faults. The invariant `Base`
says where a write is. `Phased`: a write on its first way is not stored yet, and what is
stored or in a tab's list was made. `Awaits`: a request is the first one of its write, or
that of the first mutation in the list of a tab that syncs, one for each. `Copied`: a
mutation in a tab's list, in another tab's and in the queue have the same edits but for
`excused` ones. `Truthful`: an answer of success is about edits that took effect. `Held`: a
write is on its first way, excused, applied or stored, which is the property. For
`SentInTurn`, while no living tab lost the lock (`lapses = 0`): the tab that syncs has the
lock, the mutations in its list are the stored ones with their retry count, and what was
sent never exceeds what was counted (`Leading`, `Backed`, `Spent`). For `StrandedBounded` the mutations marked and held by nobody (`Lost`) are counted:
only closing a page adds one. TLC checked `Base` over 193,597 states of one instance, and
over 3.7 million of another without finishing it. `CreatedOnce` is not proved: two tabs that
meet in a slow `Save` need an argument about each key's whole history.
The model selects from a queue by a set of positions (`Filtered`, `Nth`) where the code
calls `filter`, since what a recursive `SelectSeq` returns cannot be proved.

### `LiveStore`

One live query with its cache, list requests, events and the application's own
optimistic mutations. `LiveFeed` shows what a subscription delivers; here it is taken
as a stream of every event in order, or an invalidate. The server is the resource's
handlers, each one step: also the list (`ListRead`), whose page and total are two queries
(`hook.ts:1754-1762`).

`StoreSettled` says that once nothing is under way the store shows the rows of the server,
each once, with the right total; except for rows that `astray`, `drifted` and
`failed` name. These ghosts list what the code gets wrong:

* a refresh or loadMore read before an event and answered after it hides the newer
  event; rows written between the first list and the subscription are missed;
* an overlaid update is never cleared (`live-store.ts:769`): after another client's
  newer change a refresh shows the old value;
* the answer of a create that arrives after a later change or removal re-installs the
  old row; a row deleted before its create's answer leaves its optimistic twin;
* a failed mutation is not rolled back; a stale `changed` brings back a row just
  deleted; in strict mode a change kept for a later page outlives newer versions;
* the `added` event of an own create that arrives before its answer counts twice.

`ListProofs` proves `StoreSettled` (`StoreSettles`) for any number of rows, creates,
writes by others and lost connections, any page size and both modes. At rest it says
what it says only because of what holds before, so `StoreInv` describes every state:

* `Streamed`: the last event on its way for a row carries the row's present value;
* `Fresh`, `Called`, `Standing`: a name not yet given out is nowhere; a mutation's answer
  and its optimistic entry belong together; a stand-in is shown only while its create is
  under way or has failed;
* `Begun`: until the first list is answered it is under way and no total is known;
* `Cached`, `Paged`: a row with no event on its way, and not `astray`, is shown as the
  server has it, is hidden for a reason that outlasts the step, or waits for the answer
  of an update; a page that was read and not yet applied agrees with the server in
  the same way;
* `Counted`: where nothing has put the total out, it is the number of rows shown, and a
  row deleted here is gone or will be.

The order of handlers and answers is free, so each of the steps must keep all nine parts;
most of the work is `Deliver`, `Answer` and `ListAnswer`, each handled by a lemma on
what it leaves in the cache (`HandledParts`, `AnsweredParts`, `RefreshedParts`,
`LoadedParts`). TLC checked `StoreInv` as an invariant first.

## 7. Dead letters and recurring schedules

`DeadLetters` has the operators' calls (`retry, retryAll, purge`) as sequences of
separate store operations that meet each other, workers that bury, and crashes.
`LettersKept` (`LettersHold`): a dead task has its letter, was given back to the queue, or was ended
by a purge, a crash or a partial record; a replay is made once unless two callers met;
what is listed has its entry. A partial record (see the task system) makes
`storage.delete` throw: a retry then loses the task, and a purge never gets past it.

`Recurring` has overlapping ticks, `pause`, `resume` and `delete`. `SchedulesKept` (`SchedulesHold`):
a schedule fires no more often than its interval has passed, an enabled one stays
listed, and a deleted one leaves nothing that stops later ticks. It holds for
schedules that no two routines handle at the same time (`crossed` holds the others):
overlapping ticks fire twice, a tick's save after a delete leaves a partial hash that
ends every later tick, and a pause after a delete one that breaks `list()`. With the
catch-up "all" the code drops the first missed occurrence.

`BacklogProofs` proves both properties, each part by itself (`LettersKeep`,
`SchedulesKeep`) and as the run asks them (`DeadLettersKept`, `RecurringKept`).

* Dead letters, for any tasks, operators, replays, stops and crashes. `NoneLost` needs
  `Somewhere`: a task that nobody purged, whose caller did not crash and whose record was
  readable, has an id that waits, is filed or is being buried, or a caller that works at
  it. `NoneDoubled` is a count: the ids of a task that no caller has read (`Unread`) and
  the callers that work at one (`Working`) are together at most one more than the callers
  that read its entry beside another (`Counted`). Each operation turns one of these into
  the other or drops it: a caller that goes to work takes an unread id with it, a replay
  gives one back. A replay is stored before it is given to the queue, as two operations;
  `Fresh` says that meanwhile nobody else knows its id. `Apart`: an id waits, is filed or is being buried, never two of these, and
  one that a caller reads is neither waiting nor being buried. `Filed` and `NoneHidden`: an
  entry is listed unless its place in the list was lost on a named occasion (`strayed`), or
  a caller is between taking its place and deleting it. TLC ran the invariant over 9.8 million
  states with three callers and found no violation before it was stopped.
* Schedules, for any schedules, intervals, policies, overlapping ticks and callers. `Sound`
  is asked of a schedule that nobody crossed. `Alone`: one tick carries it, or one call is
  about it. `Spaced`: an interval lies between the last run that was counted (`Since`) and
  the next time the schedule is due, a tick carries it for or a `resume` has computed; a
  tick that is firing has left no more runs than intervals up to its own time. From this
  follows that the runs never exceed the intervals (`fired[s] * Interval <= time`).
  `Broken`: a schedule whose hash is gone or partial is not due, and nobody is about to
  list it. TLC checked the invariant over 1,287,854 states with two ticks and two managers.

## 8. Filters, pages and key-value stores

`Filter` is the parser and the two evaluations of its result, SQL and in memory, as
recursive operators. A behaviour writes a filter token by token; the state is the
text. `FiltersSound` compares the parser with the grammar read from the outside in, and
the two evaluations with each other. They differ by design of the code where
`Ambiguous` or `Complete` say so: wildcards in the literal of
`=contains=` and its like are active in SQL only, SQLite's LIKE ignores case, a
missing value is accepted by negated and order operators in memory. Not modelled:
texts that look like numbers, locale order, escapes, regular expressions, dates,
relation paths, the cache. (The repository's `operator-equivalence.ts` does not run
SQL: it compares the matcher with itself.)

`Paging` is a client that walks a list while others write. The order is the
database's (`Precedes`, which knows where SQLite and PostgreSQL put NULL); the
condition behind a cursor (`CursorCondition`) is the code's, and `PagesWhole` says that
the two mean the same: rows that nobody writes come once each, in order, and all of
them. ORDER BY has no NULLS clause, and the condition supposes NULL last in both
directions (with `nullsPosition: "first"`, first ascending and last descending), so
where the database orders NULL otherwise (SQLite ascending, PostgreSQL descending; every
descending order with "first") pages skip or repeat rows of a table that nobody writes,
although `contracts/pagination.md:15-16` promises each item exactly once; the property
does not ask there (`Suits`). Left out: backward pages (no endpoint uses them), Date
values in cursors, signatures and the age of cursors.

`ListProofs` proves `PagesWhole` (`WalkWhole`), and that no row comes twice
(`NoRowTwice`, its corollary) for any finite set of keys, any orderings and contents of
rows, page sizes and number of writes. The invariant has the types, `CursorIsLast` (the
cursor is that of the last row returned), `Sorted` and `Covered` (a row nobody wrote has
been returned or is still behind the cursor). Under them lies a lemma that the cursor's
condition, a disjunction over the prefixes of the order, is the strict order itself where
NULL is placed as the condition supposes, and that this order is transitive and total on
rows with different keys. `Sorted` and `Covered` ask only about rows that fit, so
that they are inductive without `Suits`. TLC checked them over 131,565 states.
`PagingAssumption` gives the types of the constants; that a query's answer exists and is
unique is not assumed: a step takes any answer that `InOrder` allows.

`KeyValue` runs every call on both stores, the in-memory adapter and the Durable
Object engine, for one key. `StoresAgree`: both answer alike, whatever was called
before, and the object's rows are whole after every call. Excluded by name
(`Strays`, `Tied`): writes of the memory store that do not look at the expiry, an
`ltrim` that ends more than a length before the list, the order of equal scores, and
`del` of an expired key, which the object counts.

## 9. Files

`Files` is one stored file on one of three routes: sent whole, put by the client to a
signed URL and confirmed, or sent in parts that the server assembles (the fallback
mode, in which a part is an object). Its row, its object, the tombstone that remembers
to delete the object, and the upload session lie in three stores without a transaction
over them; the requests and the maintenance jobs are routines that take one store
operation per step, crash between any two, and see the object store fail.

| model | code |
|---|---|
| `row`, `blob` | the file's row with its status; the object under its key |
| `InsertWhole`, `Persist` | the row is written, and what runs after that (the after-create hook, the push) may still fail: the caller sees an error and the row stays |
| `puts`, `ClientPuts` | uploads that the signed URL still allows, whether or not its row is still there |
| `tomb`, `Entomb`, `ListTomb`, `Recall`, `Drain`, `FetchTomb`, `RecordFailure` | the tombstone (`cleanup.ts`): prepared before the row goes, settled after it, retried by the drain, dead after `maxAttempts` |
| `session`, `expiry`, `lock`, `pieces` | the session's hash, its entry in the index by expiry, the completion lock's counter, the parts |
| `ProbePart`, `ForgetPart` | `verifyParts`: look for each part, then forget those that were found missing, also one sent again since |
| `PurgeParts`, `DiscardParts`, `UndoParts`, `ClearParts`, `ScanParts` | the deletions of parts; each may fail on some of them |
| `hand[h]` | a request or a job: what it does, where it is, what it read |
| `age`, `SessionsExpire`, `DayPasses` | whether the session's `expiresAt` is past, and the graces of a day |
| `TombDue`, `LockLapses` | the prepared grace, the lock's time to live |

`FilesWhole`: a completed row has its object. It fails in the code, and is not asked
(`doomed`), when a deletion was decided on before the row was completed (a confirm that
a sweep or a delete overtakes) or when the lock no longer kept two completions apart:
the slower one fails on the parts that the other consumed, and deletes the object under
the completed row (`resumable.ts:156`); `releaseCompletionLock` deletes whoever's lock
there is. `FilesSwept`: when everything is old, a sweep that runs alone (`swept`) leaves
nothing that nobody needs. A confirm takes an error of the object store for bad content
and rejects a good file (`resource.ts:496`). A session may expire under a completion or a part
request, and the hourly sweep may run beside them; only between writing the session and its
entry in the index does it not expire. Requests are taken to end within a day, the grace of
the sweep, and within the five minutes of a prepared tombstone. Left out: native multipart uploads, parts put directly,
checksums, the batch delete, several resources on one adapter, errors of the store of
sessions and tombstones; a session's hash that a late write makes anew has no time to
live.

`FilesProofs` proves both properties (`ReferencedStays`, `SweepsAll`) for any number of
requests, jobs, parts' writes and mishaps. The inductive invariant:

* `OnRoute`, `OneOpening`: each place in the code belongs to one route, and a session is
  opened by the first request only, so that a late `open` cannot bring back a session
  that is over.
* `Apart`: unless `doomed`, a session that is whole admits one completion between lock and
  release, and only one is ever past the claim of the session. The lock alone is
  not enough, since `releaseCompletionLock` frees it for whoever waits: then it is the
  session's absence that turns the next one away.
* `Certain`: a completion that found no row still finds none, no deletion is under way
  beside a completed row, and what a routine is about to vouch for is there (unless it was
  overtaken, `outrun`). With this `FilesWhole` follows step by step.
* `SweepsClean`: what an undisturbed sweep has cleared at each of its places, also within the
  parts that it deletes one by one, which gives `FilesSwept` at its end.

TLC checked the invariant over the 142,134 states of the part. `FilesAssumption` only types
the bounds.

## 10. The composites: runs `feed` and `backlogs`

The parts of a service store their own records and reach each other's through
operations that their own modules model. `Services` joins the feed of section 4 with
the live store that applies one, the filters that say which rows a reader gets, the
pages of a list, and the files. `Backlogs` joins what waits until somebody takes it up:
the offline writes, the dead letters and the schedules, and the key-value store under
them. A behaviour is a behaviour of one part while the others wait, so that what holds
there holds of the part alone; `Running = {"store"}` checks one part.

| run | part | bounds | why enough |
|---|---|---|---|
| `feed` | feed | section 4 | |
| | store | live and strict, limit 1, 2 rows, 1 own create, 1 own and 1 other mutation, 1 incident | an event, an answer and a list about one row in every order; a second page |
| | filter | 6 tokens of 6, each of the 37 operators alone, 3 of 10; 4 nodes, depth 1 | all bracketings of two terms, and both limits reached |
| | pages | 3 rows, orders by up to 2 fields in each direction, pages of 1 and 2, 1 write | ties, NULL before, at and behind the cursor |
| | files | 2 routines, 4 or 5 requests and jobs, 2 puts, 1 or 2 crashes, failures or lapses | two routines meet at every pair of steps; a deletion dies after 2 attempts |
| `backlogs` | offline | 2 tabs, three plans of two writes, 2 retries, 2 faults | two writes merge, map an id or contend; two faults lose an answer and reload, or reload twice |
| | letters | 2 tasks, 2 callers, 2 calls, 1 replay, 1 crash | each pair of calls meets, a replay fails again |
| | recurring | 1 schedule, 2 ticks, 1 manager, time 4 | two ticks overlap; a tick meets each order |
| | keyvalue | time 3, scores and list positions up to 3 | entries expire twice; lists of three |

518,095 and 372,236 states. Larger instances were tried apart: dead
letters with 13 million states, recurring with two schedules or two managers
(28 million), the live store with 13 million.

`ServiceTypeOK` is the types of feed and store; `LettersHold` and `SchedulesHold` include
those of their parts, and that a tick never catches up on more occurrences than there
were.

## 11. What is proved

| module | theorems | of |
|---|---|---|
| `TaskQueueProofs` | `TypeCorrect`, `StatusIndexed`, `LocksReleased`, `SlotsCapped` | every fleet |
| `TaskRunProofs` | `NothingForgotten`, `LifecycleKept` | one undisturbed worker |
| | `ExecutedAlone`, `StartedOnce` | fleets, one attempt, no limit, no lapse, no stop |
| `LiveFeedProofs` | `FeedTyped`, `FeedWindow`, `FeedReplayComplete`, `FeedMirrors`, `FeedKnownIsHeld` | every feed; at most two requests in flight, no race, or calm, as section 4 says |
| `BillingProofs` | `LedgerTyped`, `LedgerConserved`, `LedgerNoOverdraw`, `LedgerKeepsContract` | every ledger |
| | `PipelineTyped`, `DoneHasRun`, `AnsweredHasRun`, `CreditedOnce`, `HooksPaidFor`, `PipelineConserves`, `PipelineKeepsContract` | every pipeline; `CreditedOnce` under `PaymentsAlone` |
| `OfflineQueueProofs` | `OfflineTyped`, `WritesAccounted`, `OneSender`, `StrandedByReload` | every client and plan |
| `BacklogProofs` | `LettersKeep`, `DeadLettersKept`, `SchedulesKeep`, `RecurringKept` | every backlog |
| `FilesProofs` | `ReferencedStays`, `SweepsAll` | every route and bound |
| `ListProofs` | `WalkWhole`, `NoRowTwice` | every table and order |
| | `StoreSettles` | every live query |

Only model-checked, and why: `Finishes`, `PaymentsRun`, `MirrorSettles` and the other
temporal properties with fairness (liveness and ENABLED are beyond the provers).
`FiltersSound`: the parser is recursive. `StoresAgree`: its operators
select and sort sequences by recursion over data, which the library's induction theorems
cannot be used for. `CreatedOnce`: open. `ServiceTypeOK`: the feed's half
is `FeedTyped`, the store's a part of `StoreInv` (section 6); a module that reaches the recursive parser cannot state a theorem.

## 12. Findings

Five places where the code does something else than a document or a comment says,
each shown by a violation run and described in `PROJECT.json`: `tasks_crash`
(`contracts/tasks.md:26`), `tasks_poison` (`contracts/tasks.md:82`), `feed_resume`
and `feed_snapshot` (`contracts/subscriptions.md:23-24`), `feed_race`
(the comment at `subscription.ts:1407-1408`).

## 13. Not modelled

Still open: step 8 of the plan (codes and tokens, tracked transactions, the multiplexed
stream, the rate limiter), the Cloudflare consumer, IndexedDB, procedures.
For good: lexing and SQL generation (data, not control), provider adapters, email and
search adapters (translation code), migrations, the admin UI, CLI, code and OpenAPI
generation. Errors of the database are modelled in `Billing`, of the object store in
`Files`; the key-value store does not fail.
