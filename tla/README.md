# Hookfan in TLA+

Hookfan is a webhook gateway: it receives webhooks, stores each once, works out which
services subscribe to it and delivers it to them with retries and a circuit breaker.
Everything durable is in one PostgreSQL database, which is also the queue; several
replicas of the one binary may share it. This directory holds TLA+ modules of the
gateway's core, TLC configurations that check small instances, and proofs for TLAPS.

    tlc -workers 2 -config Gateway.cfg MCGateway.tla   # any run of the table below
    tlapm GatewayProofs.tla                            # any proof module

## 1. The system

| Component | State | Operations | Interacts with |
|---|---|---|---|
| Webhook ingest (`internal/ingest`, `store/events.go`) | `events`: one row per listener and body hash | verify the signature, `InsertEvent` (`ON CONFLICT DO NOTHING`), answer | wakes the planner, publishes to the stream |
| Planner (`internal/planner`) | `events.planned_at`, inserted deliveries, a wake channel of capacity one | claim unplanned events `FOR UPDATE SKIP LOCKED`, load subscriptions, match, insert deliveries and mark, commit | reads services and subscriptions, wakes the dispatcher |
| Router (`internal/router`) | none | `Match`, `MatchAll`, conditions, routing keys | called by planner and ingest |
| Dispatcher (`internal/dispatch/worker.go`, `store/deliveries.go`) | `deliveries`: status, attempt_count, claimed_at, next_attempt_at; workers and their batches; a token bucket per service in each process | claim a batch, hydrate it, pace, send, classify, record with the breaker, reap, requeue | services (URL, token, breaker), stream |
| Retry policy (`dispatch/retry.go`) | none | `Classify`, backoff with jitter, `Retry-After` | called by the dispatcher |
| Services, verification, breaker (`store/services.go`, `api/services.go`, `dispatch/verify.go`) | `services`: status, consecutive_failures, verified_at, disabled_at, url, link_token, enabled | create, edit, rotate, verify (a handshake over the network), delete; the breaker | planner reads it, dispatcher reads and writes it |
| Subscriptions API (`api/subscriptions.go`, `store/subscriptions.go`) | `subscriptions` | create, update (SELECT, validate, UPDATE), delete | planner |
| Listeners API (`api/listeners.go`, `store/listeners.go`) | `listeners`: slug, verification_mode, secret, enabled | create, patch (not validated as a whole), delete with its events | ingest reads it |
| Replay, events API (`store/events_query.go`, `store/events.go`) | `events`, `deliveries` | delete deliveries and clear `planned_at`; pages of events by cursor | planner, dispatcher |
| Retention (`retention`, `store/retention_queries.go`) | a ticker in each replica | purge expired events, a batch after the other, with their deliveries | planner, replay |
| Event stream (`api/sse.go`) | map of subscriber channels under a RWMutex, bounded buffers | subscribe, unsubscribe, publish, stream, close | ingest and workers publish |
| Process (`cmd/hookfan/main.go`) | context, HTTP server, goroutines | start, signal, `Shutdown` with timeout, exit | cancels planner and workers |
| Migrations (`store/migrate.go`, `main.go`) | the schema's version, an advisory lock on a connection of its own | up at every start, `hookfan migrate up` and `down` | a replica serves after them |
| Configuration, health, middleware, crypto, SSRF guard, UI | none of the gateway's own | | |

What is hard here, and the property each part is judged by:

- **Leases without heartbeats.** A worker claims several rows and delivers them one after
  the other; a reaper takes back what looks abandoned. A claim must be exclusive
  (`Exclusive`), an attempt sent once (`OncePerAttempt`), a row never stuck (`NeverStuck`),
  a delivery decided in the end (`EveryDeliveryEnds`), a row move along legal edges only
  (`LifecycleSpec`).
- **State read early and used late.** The handshake of a verification, the address of a
  queued delivery, the row a subscription update was validated on (`VerifiedIsProven`,
  `OnlyProvenTargets`, `StoredIsValid`).
- **A breaker spread over seven statements** (`BreakerArmed`, `VerifiedByHandshake`, `CutOff`), fed by requests
  the gateway cut off itself (`TripEarned`) and by outcomes of deliveries that are gone,
  reclaimed or half recorded (`CountedOnce`).
- **Transactions at READ COMMITTED** with row locks, SKIP LOCKED, aborts and deadlocks
  between planner and replay (`WholeSet`, `ReplayRebuilds`, `PromiseSpec`, `EventIsPlanned`).
- **A coalescing wake-up** (`WakeNotLost`).
- **Choosing recipients**: filters, defaults, duplicates (`Recipients`, `OperatorsAgree`).
- **Channels closed under their senders, slow readers, and a process that stops**
  (`NoPanic`, `NoLeak`, `PublishEnds`, `StopEnds`).
- **Pages by cursor over a table that moves** (`ListedOnce`, `NoneSkipped`) and **a purge
  that replicas race for and errors interrupt** (`ExpiredLeave`).
- **Replicas of different age migrating at once**, under a lock on another connection than
  the one that migrates (`UpToDate`, `LockComes`).
- **A webhook verified by a row read before its body arrived** (`Authentic`), and a row
  whose columns are validated one by one (`DeafByPatch`).
- **Arithmetic with headers of strangers and counters** (`DelayBounded`, `PaceHonoured`,
  `KeepsPromise`) and **a token bucket that gives up** (`Paced`).

`PROJECT.json` lists every component with what is modelled of it, and every hazard with
its line and properties.

## 2. The modules

    ServiceRow ──┬── Dispatch ────────── MCDispatch          DispatchProofs
                 │      └ INSTANCE DeliveryLifecycle (what  └─ DispatchCountProofs
                 │        the queue promises)
                 └── ServiceLifecycle ── MCServiceLifecycle  ServiceLifecycleProofs
    Planner ──────────────────────────── MCPlanner           PlannerProofs
       └ INSTANCE FanOut (what planner, replay and retention promise)
    Routing ──────────────────────────── MCRouting           RoutingProofs
    Broker ────────┬── Gateway ───────── MCGateway           BrokerProofs (of Broker)
       EventLog, Startup, Intake,                            GatewayProofs (of the others)
       Sender, RetryPolicy (INSTANCE)                         └─ PaceProofs (of Sender)
         └ RetryPolicy: INSTANCE DeliveryLifecycle

Operators marked "(Faulty variant: ...)" are not used by any specification. They are bugs
the code could plausibly have, kept beside the definition they would replace; replacing it
breaks the property `PROJECT.json` names under "mutants".

### ServiceRow

The columns of a `services` row that decide about fan-out, and one operator for each
UPDATE of the store: `AfterSuccess` and `AfterFailure` (the breaker half of
`CompleteDelivery`), `UrlChanged` and `BreakerReset` (`UpdateService`), `TokenRotated`,
`Verified`, `VerifyFailed`. `Dispatch` and `ServiceLifecycle` own rows and apply these
operators to them.

### Dispatch and DeliveryLifecycle

State: the `deliveries` table (`status`, `attempts`; `wait` and `age` are the time to
`next_attempt_at` and since `claimed_at`), `svc` (service rows), `phase` of each replica,
and for each worker where it is in `claimAndDeliver`, its batch, the claim at hand and how
long it has worked. `sent` and `answered` are history: pairs of delivery and attempt handed
to the HTTP client, and failed requests of each service that were not the gateway's doing.

| Action | Code |
|---|---|
| `Plan`, `Remove`, `Requeue` | `InsertDeliveries`; `ReplayEvent` and the purge; `RetryDelivery` |
| `Claim`, `Hydrate`, `ClaimError` | the UPDATE of `ClaimDeliveries`, its second query, either of them failing |
| `Deliver`, `Refuse`, `Send`, `Answer`, `Cancelled`, `Abandon` | the batch loop and `deliver`: decrypting, the rate limiter, `client.Do`, the context ending |
| `Record`, `RecordError` | `CompleteDelivery` with the breaker, or its failure |
| `Reap`, `Shutdown`, `Crash`, `Exit`, `Restart`, `Tick` | the reaper, a replica's life, time |

A database statement is one action, and so is each wait for the network. `Tick` waits for
a worker that has used up `DeliveryTime`, the longest one delivery may take.
`DeliveryLifecycle` is the promise: legal edges of the status column, which of them move
`attempt_count`, `dead` after `max_attempts` attempts only. `Dispatch` implements it under
the identity mapping. `CountedOnce` relates the breaker's column to the attempts the
service's deliveries were opened for: each counts as one failure at most, with the count
and the outcome in one transaction. Left out: deletion of a service row, cached HTTP
clients, the attempt log, the bodies; the limiter is in `Sender`. The rows a claim locks are taken in one atomic step;
concurrent claims under SKIP LOCKED get disjoint rows, which is what two steps in either
order give. The three results of `Classify` are chosen freely, and so is the delay
within `MaxDelay`. `Refusals` says whether some request cannot be built (`Refuse`).

### ServiceLifecycle

One service from creation to deletion: `Create`, `Update` (URL, breaker reset, enabled),
`RotateToken`, `Delete`; the Verify request in steps (`Begin` reads the row; `Echoed` or
`Failed` ends the handshake; `Conclude` writes the verdict by id; `Drop` is a request that
ends without one); deliveries (`Planned` while the service is in fan-out, `Claimed` takes
the row, `Hydrated` reads
address and token or finds the service gone, `Success` and `Failure` report). Claim and
hydration are the two statements of `ClaimDeliveries`, and anything may come between them.
A worker that dies and the reaper belong to `Dispatch`: here a delivery stays with its worker. `proven` is history: the pairs of
address and token some handshake succeeded with. The constant `Overlap` says whether the
operator edits a service during a handshake. `VerifiedByHandshake` is about single steps
and does not depend on it.

### Planner and FanOut

Bodies are sent, stored and acknowledged (`Send`, `Insert`, `Acknowledge`; `Lose` is a
request that dies, between insert and wake-up at worst). A planner wakes, claims a batch,
loads what is wanted, drafts deliveries and commits (`WakeUp`, `Claim`, `Load`, `Draft`,
`Commit`) or aborts. A replay is `Begin`, `DeleteRows`, `CommitReplay`, `Answer`, with
`AbortReplay`. `Deadlocked` and `BreakDeadlock` are PostgreSQL's: planner and replay
lock event row and deliveries in opposite orders. `Purge` is the retention statement, one
atomic step with its cascade that waits for locked rows. The subscriptions in force are one
set `wanted`, changed by `Edit`. A second replay whose DELETE has to wait sees the table
as of its end. `FanOut` is the promise: an event gets and loses its delivery set as a whole.
`existing` is the `services` table: `DeleteService` takes the deliveries along and waits for
planners that have inserted some; a planner that loaded the service before and drafts after
runs into the foreign key and loses its batch (`BrokenReference`). The mapping: an event
is "stored" or "planned" by `planned_at`, its fan the committed deliveries. `Overlap` says whether events are replayed while they are unplanned or
already being replayed.

### Routing

`subs` is the `subscriptions` table of one listener. `Create` validates and inserts;
an update is `Validate` (SELECT and validation of the merged row) and later `Write` (UPDATE
with COALESCE) or `Abandon`; `Delete`; `Switch` moves a service in or out of those that
are enabled and verified. The planner's `Load` takes the deliverable rows; `MatchOne` and
`MatchEnd`, `FallbackOne` and `FallbackEnd` are the two loops of `MatchAll`, a subscription
at a time in the order of ids; `Inserted` ends the event. `Holds`, `Accepts`,
`WellFormed`, `Valid` are `evalCondition`, `Match`, `ParseConditions` and `validateFilter`.
A payload is what each path finds in it: scalars with their canonical text (`stringify`),
null, arrays. The syntax of paths and number formatting are left out. `Extracted` uses
the key path the listener has when the event is loaded; the code extracts keys at ingest.
The list a service's subscriptions are collected in is a set, `by`.

### Broker

`handler` is where each `Stream` is ("opening" and "leaving" wait for the lock), `buffer`
and `closed` the channels, `pub` and `todo` each publisher's loop, `server` the process.
The RWMutex has Go's rule that a waiting writer holds new readers back (`Wanted` in
`Begin`). Write sections do not block, so they are one step, enabled while nobody reads. `Take`
covers the keep-alive ticker; `HangUp` covers a client that leaves, a failed write and
`srv.Close`. `Signal`, `ShutdownDone`, `ShutdownTimeout`, `ServeFailed`, `CloseAll` are
the end of `run` with its deferred `broker.Close`. The lock taken for the count in a log
line is left out: it is taken with no other lock held.

### EventLog

The `events` table as `ListEvents` reads it: `Allocate` hands an id out, `Arrive` commits it
in any order or loses it, `Expire` lets it grow old, `Cascade` deletes a listener's. Each
replica's retention job is `Wake`, `Choose` (the subquery), `Delete` (which counts only what
is still there) and `PurgeError`; `AfterBatch` ends a pass with a batch that is not full.
The reader asks for `FirstPage` and `NextPage` with any limit, and a page is the set of
its ids; `listed`, `repeated`, `opening` are the history of the walk. Rows a filter
does not match do not exist for that reader, so the filter is left out.

### Startup

`version` is what goose's table says, `lock` the process whose connection holds the advisory
lock, `stage` where each process is in `main`. `Start` is the server or a `migrate`
subcommand, then `Acquire`, `Inspect` (goose reads the version), `Apply` or `RollBack` a
transaction each, `Clash` (goose finds the schema changed meanwhile and errs), `Migrated`,
`Open`. `Fail` ends a process anywhere, `LoseLock` takes the connection of the lock away
while goose's own goes on. goose is a library: that each migration and its entry in the
version table are one transaction is taken from its use here.
`migrate down` under running replicas is prevented by nothing: `under` marks who was there,
and `UpToDate` excludes them.

### Intake

The listener under one slug: `Create` (validated), `Patch` (`COALESCE`, not validated as a
whole), `Delete` with its events. A request is `LookUp` (the row), then `Accept` (body
read, verified as that row said, inserted) or `Refuse`. A signature is the key that made
it. `during` is history: the ways to verify that were in force while the request was
served. Insert and foreign key are one step: `seen[r].lid = lid`.

### Sender

The token bucket of one service in one process, with a worker's way past it: `Take` (the claim
carries the rate its hydrating query read), `PassUnlimited`, `Reserve`, `Release`,
`SendAnyway`, `Answer`. `limiter` builds a bucket anew, and full, when a claim carries another
rate than the bucket has; `lim.Wait` refuses at once when the token is further off than its
deadline, and the code then sends without one.

`rate.Limiter` fills steadily and can be asked at any moment, when it holds a fraction of a
token. So a second has `TicksPerSecond` ticks and a token as many parts: a tick adds `rps`
parts, a request takes a whole token, a full bucket holds `Burst`, the tokens of a second. The
constant is free: the theorems hold for ticks as fine as one likes. Timers fire on time, and a
request counts when `lim.Wait` lets it go, not when it reaches the wire. `sends[n]` is history:
the requests let go in the last `n` ticks, for every `n` up to `Window`.

`Paced` is what the limiter gives and its comment intends ("Burst equal to the rate lets a quiet
service absorb a small spike"): the burst and what accrues, `rps * (k + 1)` requests in `k`
seconds, so up to about `2 * rps` within one. TLC finds runs that reach the bound. It
is stated where the workers are fewer than `rps * MaxWait` (`WaitsSuffice`) and nobody edits the
rate: with the defaults, 16 workers and 30 s, that is every rate, but `WORKER_CONCURRENCY`
may be 1024, and each replica has buckets of its own.

### RetryPolicy

One delivery from its first attempt to its end: `Send`, `Answered` with any status and
header, `Unanswered`, `Tick`. `RetryAfter` computes with integers that wrap: a product
that becomes negative is no hint and leaves the delay to the backoff; one that becomes
positive again is a short delay. Neither exceeds the cap. `pace` and `rest` are
history: what the service asked for, before wrapping, and how long it has been left alone.
`KeepsPromise`: each step is one of `DeliveryLifecycle` for a single row, the abstraction
`Dispatch` implements for the whole table. (Steps only: this module begins where the
planner has inserted the row.)

### Gateway

The last six modules share no variable. `Gateway` puts them side by side: the rigid variable
`part` says which of them moves in a behaviour, the others stand still. As no step of one
reads what another writes, an interleaving of steps of several would show each of them
nothing it does not see alone; what the parts do have to do with each other in the code (the
same `events` table in `EventLog`, `Intake` and `Planner`) is part of each of them as the steps of
its environment: `Arrive`, `Cascade`, `Purge`. `Gateway` restates the fairness of each part,
and names its properties for the run and for the theorems.

## 3. The runs

All bounds are CONSTANTS. A run is "violation" where the code contradicts a comment or
document of the repository, quoted under "findings".

| Run | Instance | What it shows |
|---|---|---|
| `dispatch_lease` | 2 replicas with a worker each, 2 rows, batches of 2 that just fit the lease, 2 attempts, 1 fault, 1 requeue; 587,536 states | `IInv`, `Exclusive`, `OncePerAttempt`, `CountedOnce`, refinement `LifecycleSpec` |
| `dispatch_live` | 1 worker, batches of 2 that outlast the lease, 1 fault | `NeverStuck`, `EveryDeliveryEnds` even then |
| `dispatch_slow_batch` | 2 workers, one request fits the lease, two do not | **violated**: `Exclusive` |
| `dispatch_cancelled` | 1 worker, 1 fault, every request can be built (`Refusals = FALSE`) | **violated**: `TripEarned` |
| `service_serial` | 2 URLs, 2 tokens, 2 handshakes, 1 delivery, no edit during a handshake; 93,457 states | `BreakerArmed`, `VerifiedIsProven`, `VerifiedByHandshake`, `CutOff`, types |
| `service_unproven` | the same with overlap | **violated**: `VerifiedIsProven` |
| `service_queued` | the same without overlap | **violated**: `OnlyProvenTargets` |
| `planner_serial` | 2 planners, 2 bodies, 2 services, batches of 2, a replay of planned events, an edit or deletion of a service, a fault; 546,802 states | `WholeSet`, `WakeNotLost`, `ReplayRebuilds`, refinement `PromiseSpec`, types |
| `planner_live` | 2 planners, 1 body, 2 stored events, replays at any time, a fault | `EventIsPlanned` |
| `planner_replay` | 1 planner, a replay that overlaps planning | **violated**: `ReplayRebuilds` |
| `routing` | 2 subscriptions of 2 services, 7 filters (4 of them valid), 3 patches, 4 payloads, one update at a time | `Recipients`, `StoredIsValid`, `OperatorsAgree`, types |
| `gateway` | the six parts, 110,659 states together: | types of all |
| – feed | 2 streams, 2 publishers, buffers of 2 | `NoPanic`, `NoLeak`, `PublishEnds`, `StopEnds` |
| – log | 3 events, 2 jobs, batches of 1, pages of 1 (default) or 2 (cap), 1 failed DELETE | `ListedOnce`, `NoneSkipped`, `ExpiredLeave` |
| – start | an old binary with 1 migration, a new one with 2, 1 fault | `UpToDate`, `LockComes` |
| – hook | 2 secrets, 1 body, 1 request, 2 listeners one after the other, 2 patches | `Authentic`, `DeafByPatch` |
| – pace | 2 workers, rates 0, 1 and 3, 2 ticks a second, a deadline of 1 s, 3 ticks of history, 3 requests a tick, 1 edit | `Paced` |
| – retry | 3 attempts, 6 statuses, headers on both sides of cap (6) and word (16) | `DelayBounded`, `PaceHonoured`, steps of `DeliveryLifecycle` (`KeepsPromise`) |

Why the bounds are enough to be interesting. Two workers and two rows give every race of
a row with its reaper and a second claim, and a batch with a row behind the slow one; two
attempts reach `dead`; one fault is any of crash, shutdown, failed statement or refused request
at any moment. Breaker threshold 2 has a state between armed and tripped. Two tokens
and two URLs tell old from new. Two events in a batch let one abort undo the other;
`MaxEvents` 2 with one body has an event purged and stored anew. Two subscriptions
collide on a service or not and come in both orders. Buffer size 2 has an empty, partial
and full buffer. Three events give a page, a rest, and a row that arrives late between
them; batches of one are full or emptied by the other job. Two binaries give a schema
that is older, equal and newer than what a process wants, with both in `migrate`. Two
listeners under one slug tell a request of the first from one of the second; two patches
change mode and secret apart. Two workers at a rate of 3
empty the bucket, wait with a fraction of a token in it and reach the bound of `Paced`; at a rate
of 1, with a deadline of a second, one of them can be refused. `Retry-After` of 9 and 17 units wraps to a negative and to a
short product. The theorems below remove the bounds for most safety properties.

`CHECK_DEADLOCK FALSE` is set where the system stops for good: a deleted service
whose deliveries have ended (`service_*`), a process that exited and a delivery that is
decided (`gateway`).

### Fairness

- `Dispatch`: workers run (`WorkerStep`: poll ticker, HTTP and record timeouts), the
  reaper has a ticker, a stopping process exits (main does not wait for workers), a
  supervisor restarts it, time passes. Errors and cancellations get none.
- `ServiceLifecycle`: planner and workers go on. Nobody has to edit or verify.
- `Planner`: the provider repeats an unanswered webhook, requests are served, planners have
  a one-second ticker besides the wake channel, the database ends deadlocks. The UPDATE of
  a replay has strong fairness: PostgreSQL queues whoever waits for a row lock.
- `Broker`: publishers run their loop on, the deadline of `Shutdown` expires, `Close` gets
  the lock when it is free. No client ever has to read, and no stream has to end.
- `EventLog`: retention jobs have an hourly ticker. No reader has to go on, and `DELETE` may
  fail.
- `Startup`: a process that has begun goes on. The lock has strong fairness:
  PostgreSQL queues those who wait for an advisory lock. Nobody has to start anything.
- `Intake`, `Sender`, `RetryPolicy`: none; they have no liveness property.

## 4. Findings

1. **A slow batch loses its lease** (`dispatch_slow_batch`). `worker.go` says a slow but live
   delivery is never reclaimed. It stamps up to 8 rows with one `claimed_at` and delivers
   them in sequence; 8 deliveries of up to 160 s do not fit 5 minutes. The run ends where the
   reaper returns a row to pending that a live worker holds and will send; any worker may claim it
   then. With `ClaimBatchSize * DeliveryTime <= ReapAfter` (`BatchFits`) the promise is proved.
2. **Shutting down counts as a failure of the service** (`dispatch_cancelled`): plan, claim,
   hydrate, deliver, shutdown, the request cancelled, recorded, and the breaker trips with no
   failed request. A request that cannot be decrypted or built counts in the same way; the run
   leaves those out. Unless the gateway cancels a request or refuses to build one, a trip is
   earned: proved.
3. **A verdict about an old address or token verifies the new one** (`service_unproven`). In
   TLC's trace the token is rotated during the handshake; a new URL does the same. Without
   edits during a handshake the promise is proved.
4. **Queued deliveries go out with an unproven token** (`service_queued`). The token is rotated
   between planning and hydration. If the hydrating query asked whether the service is verified,
   no unproven token would be sent (without overlap): proved. The UPDATE before it is not the
   place to ask: the token may be rotated between the two statements.
5. **A replay that overlaps planning does nothing** (`planner_replay`), although it is
   answered with success; replays of planned events rebuild the set (`planner_serial`).

Seen on the way and not made a run: with `Overlap = TRUE`, two requests and three patches, `Routing`
violates `StoredIsValid` (one update empties `routing_keys`, the other sets the type to
`routing_key_in`; each is valid on the row it read), and such a subscription matches
nothing. A handshake begun before the breaker trips verifies the service again. With
an open stream `srv.Shutdown` always runs into its timeout, since the `broker.Close`
that would end the stream is deferred until after it. A patch of a listener's mode
alone can leave it without the secret it needs, which creating one refuses; it then answers
every webhook with 500 (`DeafByPatch` says that this is the only way). A `Retry-After` so large that its product wraps round to a small positive number (18446744075 s
becomes 1.3 s) is a short delay, where the comment says that absurd values yield 0; no property
excludes it, as `DelayBounded` is an upper bound and `PaceHonoured` is about what fits the word. Delays are computed
from the worker's clock and compared with the database's. More workers than
`rps * 30 s` and the limiter lets some requests through unpaced (`Sender`).

## 5. The proofs

| Theorem | Says | Under |
|---|---|---|
| `TypeCorrect` | types of `Dispatch` | `DispatchAssumption`, `ThresholdAssumption` |
| `InvHolds`, `ExclusiveHolds`, `OncePerAttemptHolds` | `IInv`, `Exclusive`, `OncePerAttempt` | and `BatchFits` |
| `LifecycleHolds` | `Dispatch` implements `DeliveryLifecycle` | and `BatchFits` |
| `CountedOnceHolds`, `DeadIsSpentHolds` | `CountedOnce`; `dead` only after `max_attempts` attempts | as for `TypeCorrect`: batches may outlast the lease |
| `TripEarnedUnlessCancelled` | `TripEarned` | and no `Cancelled`, no `Refuse` (`Blameless`) |
| `ServiceTypeCorrect`, `BreakerArmedHolds` | types, `BreakerArmed`, overlap or not | `LifecycleAssumption`, `ThresholdAssumption` |
| `VerifiedByHandshakeHolds` | `VerifiedByHandshake`, overlap or not | the same |
| `VerifiedIsProvenHolds` | `VerifiedIsProven` | and `~Overlap` |
| `OnlyProvenWhenHydrationAsks` | `OnlyProvenTargets` | and `~Overlap`, `HydrationAsks` |
| `RoutingTypeCorrect`, `RecipientsHolds` | types, `Recipients` | `RoutingAssumption`, `PlaceholderAssumption` |
| `StoredIsValidHolds` | `StoredIsValid` | and `~Overlap` |
| `OperatorsAgreeHolds` | `OperatorsAgree` | `RoutingAssumption`, `TextAssumption` |
| `BrokerTypeCorrect`, `NoPanicHolds`, `NoLeakHolds` | types, `NoPanic`, `NoLeak` | `BrokerAssumption` |
| `TypesHold` | types of `Planner`, overlap or not | `PlannerAssumption` |
| `DeliverySetsAreWhole`, `ReplaysTakeEffect`, `NoWakeUpIsLost` | `WholeSet`, `ReplayRebuilds`, `WakeNotLost` | and `~Overlap` |
| `TablesImplementFanOut` | `Planner` implements `FanOut` | and `~Overlap` |
| `WalksListOnce`, `WalksSkipNone` | `ListedOnce`, `NoneSkipped` | `GatewayAssumption` |
| `SchemaIsUpToDate` | `UpToDate` | `GatewayAssumption` |
| `EventsAreAuthentic`, `DeafnessIsPatched` | `Authentic`, `DeafByPatch` | `GatewayAssumption` |
| `DelaysAreBounded`, `PacesAreHonoured`, `PolicyKeepsPromise` | `DelayBounded`, `PaceHonoured`, `KeepsPromise` | `GatewayAssumption` |
| `RequestsArePaced`, `TokensComeInTime` | `Paced`, for any `TicksPerSecond`; `SendAnyway` never happens | `GatewayAssumption`; the condition of `Paced` is in it |
| `PartsTypesHold` | types of the five parts beside the feed | `GatewayAssumption` |

**Dispatch.** `Exclusive` is not inductive: nothing in it keeps the reaper away from a
held row. `IInv` adds a clock argument: a held row is in flight on its worker's attempt
and no older than `done * DeliveryTime + spent`, what the worker has behind it (`Lease`);
what is behind and ahead of a worker is one batch (`Budget`); so a held row is never older
than `ClaimBatchSize * DeliveryTime`, and `BatchFits` keeps it from being `Stuck`.
`OneHolder` and `SentPast` (requests were made for opened attempts only, never for a
claim still waiting) give `OncePerAttempt`. `DispatchProofs` proves frame lemmas for
actions that leave claims alone, then one lemma per kind of worker step. The refinement
uses `Lease` to show that `Record` closes or returns the very attempt that is open.

**Dispatch without the lease.** What does not need `BatchFits` is in `DispatchCountProofs`,
and that line is not arbitrary: with a batch that outlasts its lease `OncePerAttempt` fails
too (a late outcome returns a row another worker has claimed and not yet hydrated; the
hydrating query then reads the attempt of whoever claims it next, and two requests carry
the same pair). `CountInv` holds all the same: every claim a worker has is of an attempt opened before
(`HeldOpen`), nothing is left over with a worker at rest (`Tidy`), and for each service the
failures counted and the attempts its workers have still to report are together no more
than the attempts opened (`Count`). The counting is in `Within`: a number and the size of a set
together fit the size of another, and each step moves one element at most from one side to the
other. For `TripEarned` the same argument runs with workers about to report a failure
(`Blaming`) against requests that failed (`EvidenceInv`); only `Cancelled` and `Refuse`
make a worker blame the service without a failed request.

**ServiceLifecycle.** `BreakerArmed` is proved per statement of `ServiceRow`, and every
action applies one. `VerifiedIsProven` needs `Verdicts`: what a handshake has seen is the
row as it is, and its success is in `proven`, as long as nobody edits meanwhile.
`VerifiedByHandshake` rests on `Answered` alone, the part of `Verdicts` that overlap leaves
true. `OnlyProvenWhenHydrationAsks` adds to `VerifiedIsProven` that `proven` only grows; its
hypothesis (`HydrationAsks`) is about the step `Hydrated` and names what the query that reads the
token would have to ask. Of `Claimed` it asks nothing.

**Routing.** `LoopInv` says what the result is in the middle of a loop: the picked
subscriptions with an id below `next`. `TurnStep` covers a turn of either loop for any
set of picks. `MatchEnd` uses that an empty list means that nothing matched. `PatchInv`
says that a validated patch still fits its row: ids are not reused and no other update runs.
`OperatorsAgree` is proved from the definitions of the operators, by the kinds of values
found in the document; all it assumes is that a text contains itself (`TextAssumption`).

**Broker.** `Walks`: what is left of a publisher's loop is in the map, since whoever
changes the map needs the lock the publisher holds.

**Planner.** `WholeSet` is not inductive: it needs to know what a transaction in flight may
still do. `IInv` adds that a row is locked by the planner that claimed it (`Locks`); that
what is claimed is stored and unplanned, and what was drafted refers to services that
cannot be deleted until commit (`Claims`); that ids are not reused (`Numbers`); that an
unplanned event has no committed delivery (`Bare`); and that a replay is alone with its
event, which stays planned until the replay commits, with nothing left that it has not deleted
(`Alone`). `Alone` is where `~Overlap` is used, and `planner_replay` shows that it is needed.
Without overlap a deadlock with a replay is impossible (`NoDeadlock`), so the database
never aborts one. For `WakeNotLost` a planner counts as `Awake` only if it will look again by
itself: while it drains, with its channel full, or with a full batch in hand. The refinement
takes one lemma per action that commits something, and a stutter for the rest.

**Gateway.** `Parts`: a step of the gateway is a step or a stutter of each part. Then each
part has its invariant. `Caught`: what a process has seen to be applied is still there unless it was
rolled back underneath it, even when the lock is lost and two processes migrate, since
goose checks the version with each migration. `Witnessed`: the row a request read is among
the ways in force while it is served. `Walk`: the pages so far are from the cursor upwards
and what is still to be committed was not there at the beginning; that the page is the
newest rows and the cursor its last makes `NoneSkipped` go through. `RetryInv` adds
that a delivery in flight has waited in full.

**Sender.** `Paced` speaks of the past and says nothing of tokens promised but not yet due.
`Books` balances them. What was let go in the last `n` ticks, what is promised to workers that
still wait and what the bucket holds (less than nothing, when it is in debt) are together at most
the burst and what `n - 1` ticks bring. And for every `j`, the workers that wait for more than `j`
ticks are just enough tokens to cover what `j` ticks leave of the debt (`Covers`, which rounds up).
A tick adds `rps` parts on both sides of the first; for a history of one tick the second is what
closes it, since a worker that waits means the bucket misses part of a token. The second also
gives `Paced` from the first, as what is promised outweighs the debt, and `InTime`:
fewer workers than `rps * MaxWait` are never refused. Rounding and products of variables are
lemmas about numbers (`Turn`, `CoversMore`, `CoversTick`, `TickBurst`), apart from the steps.

Only model-checked: liveness (`NeverStuck`, `EveryDeliveryEnds`, `CutOff`, `EventIsPlanned`,
`PublishEnds`, `StopEnds`, `ExpiredLeave`, `LockComes`), which is out of the prover's reach.
Every invariant and action property the runs check is a theorem.

## 6. Not modelled

- **SSRF guard, cryptography, signatures**: pure functions of the standard library and of
  resolved addresses, without state. What they decide is a choice in the models: a refused
  request (`Dispatch.Refuse`), a dropped handshake (`ServiceLifecycle.Drop`), the key that
  signed a body (`Intake.Accept`). The Meta challenge of the ingest handler only reads.
- **Configuration, health probes, middleware**: environment parsing, probes that read and
  comparisons of tokens.
- **Detail view, statistics, listing of services and subscriptions, `MigrationStatus`**: one
  SELECT each, with nothing carried from one to the next; the list of events, which is
  carried, is `EventLog`.
- **Cached HTTP clients**: an edit of `timeout_ms` does not reach a running process. Nothing
  in the repository says that it does, so there is no property to state.
- **Syntax of single fields** (slugs, URLs, JSONPath) and the HTTP details of the
  handshake: validation without a second reader.
- **Dashboard, demo receiver, build**: clients of the API and scripts.

One thing composed modules could show and these do not is a liveness property from the webhook to
the outcome across planner and queue in one state space. `EventIsPlanned` ends with
committed deliveries, where `EveryDeliveryEnds` begins (`Dispatch.Plan`); the product of
the two modules is beyond exhaustive checking at bounds where either is interesting.
