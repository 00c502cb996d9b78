# A TLA+ model of the payment gateway API

The service is a NestJS application that serves several tenants (a business
unit in a country) from PostgreSQL. Every tenant has an entry under
`databases.connections` of `resources/application.yml`, a pool of connections
of its own and a schema of its own. This directory holds TLA+ modules of the
parts in which the order of steps matters, TLC configurations that check them
on small instances, and proofs, checked by TLAPS, of what is true of every
instance. Paths below are relative to the repository.

## Inventory

| component | state | operations | what is hard | what must hold |
|---|---|---|---|---|
| Tenant data sources: `src/shared/database/datasource.manager.ts`, `providers/` | the Map of cached `DataSource`s, their pools | `getDataSource`, `getDataSources` | the method awaits between `has` and `set`; `initialize()` fails | a caller gets an open pool of its own tenant or an error; pools do not pile up; every call is answered |
| Declarative transactions: `src/shared/transaction/` | the store of `TransactionContext`, query runners, sessions of the database | a decorated call, `setupQueryRunner`, `executeInTransaction` | nesting, pools at their limit, failing statements, COMMITs, connections | one transaction per connection; isolation of tenants; atomicity; what a caller is told is what happened; connections come back, and clean |
| Tenant migrations: `src/shared/database/migrations/` | advisory locks, the table of executed migrations, `isInitialized` | `runMigrationsOnAllTenantDatabases` and what it calls | several replicas boot at once, crash, restart; sessions end or linger | one migrator per schema; each migration once; no lock left behind; every schema migrated in the end |
| Bootstrap: `src/main.ts` | the life of the process | `bootstrap`, signal and error handlers | a failure anywhere exits the process | a replica listens only over schemas it knows to be migrated |
| Customs queries: `src/customs/query/` | none of its own | `findAll`, `findOne` | transaction first, event afterwards | an event tells of a finished transaction |
| Tenant context: `src/shared/kernel/tenant/` | the AsyncLocalStorage store, `request.tenantContext` | middleware `use`, `getTenantContext` | contexts of requests that run interleaved | a request never sees the tenant of another one |
| Event publishing: `src/shared/enrichers/`, `src/shared/sns/` | a lazily made client | `publish`, `enrich` | the publisher fails after the commit | an event carries the tenant of its request |
| Queue listener: `src/examples/sqs-listener.sample.ts` | a query runner per message | `onMessage`, `getQueryRunner` | messages repeated and reordered; set-up fails half way | the connection of every message comes back |
| Circuit breaker client: `src/shared/http/`, `src/clients/` | opossum's circuit, its statistics and timers | `get`, `post` | time-outs against late answers, calls that overlap the half-open circuit | one probe at a time decides; what happened before does not; callers do not wait for ever; the circuit closes again |
| Actuator: `src/actuator/` | none kept; the sessions of its `DataSource`s | `healthCheck`, `readiness` | opens a `DataSource` per tenant and call and destroys none; one of several databases fails | the answer is true of the time of its request and names the reason; every request is answered; the sessions end |
| Configuration, logging, filters, tracing, demo controllers | read once, or none | | | |

How they interact: a request passes the middleware, which puts the tenant into
the request; a handler calls decorated methods of a service; `@Transactional`
asks `DatasourceManager` for the tenant's pool, takes a connection, opens a
transaction and runs the method with the entity manager in `TransactionContext`;
the service then publishes an event. Before any of this, `bootstrap` lets
`MigrationService` migrate every tenant's schema. The listener and the actuator
use `DatasourceManager` beside the decorator. The circuit breaker client stands
alone: handlers of `DemoController` call `SampleClient`, which calls `get` and
`post` of the client.

## The modules

| module | models |
|---|---|
| `DatasourceManager` | the pool cache, call by call |
| `TenantRouting` | what the cache promises, without the cache |
| `ConnectionPool` | connections of those pools and their sessions; extends `DatasourceManager` |
| `Transactional` | the decorator; extends `ConnectionPool` |
| `AtomicTransactions` | what the decorator promises, without frames, connections and their failures |
| `MessageFlow` | tenant context, events, queue listener; extends `ConnectionPool` |
| `MigrationService` | replicas, their migrations and their locks |
| `CircuitBreaker` | the HTTP client of a downstream service and its circuit |
| `ProbingCircuit` | what the circuit promises, without time and statistics |
| `Actuator` | health and readiness of all databases |
| `DatasourceManagerProofs` | theorems about `DatasourceManager` |
| `TransactionSessionProofs` | theorems about the stacks of calls, connections and sessions of `Transactional` |
| `TransactionIsolationProofs` | theorems about tenants, leaks and suspended transactions, on top of those |
| `TransactionAtomicityProofs` | theorems about what is committed and what is reported, and that `AtomicTransactions` is implemented |
| `MigrationServiceProofs` | theorems about `MigrationService` |
| `CircuitBreakerProofs` | theorems about `CircuitBreaker` |
| `MessageFlowProofs` | theorems about `MessageFlow` |
| `ActuatorProofs` | theorems about `Actuator` |
| `MCDatasourceManager`, `MCTransactional`, `MCMessageFlow`, `MCMigrationService`, `MCCircuitBreaker`, `MCActuator` | values of the constants for TLC |

### DatasourceManager

`dataSources` is the Map, `pool` and `entry` are the life of each `DataSource`
object and the connection entry it was built from, `lookup` is the pending
`getDataSource` of each caller. JavaScript runs between two awaits without
interruption, so each stretch between awaits is one action:

* `Hit`, `RejectUnknown`, `Miss` are the first stretch: `has(key)` answers at
  once, or the configuration has no entry, or a `DataSource` is built and
  `initialize()` is awaited;
* `InitializeOk` and `InitializeFail` are the driver's answer; a failed object
  is garbage, so its place may be used again;
* `StoreDataSource` is the stretch after the await: `set(key, …)`, `get(key)`;
* `Receive` returns the result to the caller.

A key is a string made of the lower-cased parts, as in the code, and it is made
in two places (`keyFrom` and `buildKey`); that the two agree is part of what
`CachedPoolIsOpenAndOwn` checks. The configuration's promise chain
(`getConfigFor`) has no I/O and is part of the first stretch: nothing that
another caller does in between changes what follows.

`TenantRouting` is the abstract specification: a call is served from its own
tenant's pool or refused, and once a tenant has been served every later call is
served at once. `ImplementsRouting` maps `served` to the cached keys and a
caller's request to its lookup, fairness included.

### Transactional

Each request has a stack of frames, one per pending decorated call; `home` says
in whose transaction a call runs (its own, or that of the call it joined). A
frame goes through the awaits of the code: `lookup`, `connect`, `setPath`,
`begin` (`setupQueryRunner`), `body` (the method inside
`TransactionContext.run`), `commit` or `rollback`, `release`
(`executeInTransaction`). `failing` is a joined call on its way out with an
error. A body may write (once per call, named by the call: enough to see where a
write ends up), fail at a statement, throw, call further decorated methods,
catch what they reject with (`Catch` says which), and return.

The external parts are the pool (`Connect` takes a free slot, and waits when
there is none), the session of each connection (`tx`, `path`, `pending`) and the
network (`Drop`, `CommitReplyLost`). What the model takes from PostgreSQL: a
failed statement aborts the transaction; COMMIT of an aborted transaction is a
rollback that reports no error; a session that ends rolls back; SET outside a
transaction lasts as long as the session; an unquoted name is folded to lower
case. What it takes from TypeORM and pg-pool: a client whose connection ends is
removed from the pool, which has a free place again.

`AtomicTransactions` is the abstract specification: a transaction is fresh, open
or ended, takes writes while it is open, and ends by adding all of them to the store
or none. `ImplementsAtomic` has one transaction for each call number of a request. It is
`fresh` until its own BEGIN, `open` as long as its frame runs on a session whose
transaction is active, `ended` from then on; `written` are the writes of the call
and of those that joined it, `store` is what is committed. A call that joins
opens nothing and its transaction stays fresh. A failed statement ends the
transaction there and then, as PostgreSQL accepts nothing more in it, although
the method may go on; so does the loss of the connection.

### MessageFlow

Requests and handlers (concurrent `onMessage` calls) are the callers of one
`DatasourceManager` and share its pools. A request goes through
`TenantContextMiddleware.use` (`Middleware`), `QueryService.findAll`
(`FindAll`, then the decorated call, then `Publish`). The tenant is read
twice, by different code: `store` is the AsyncLocalStorage from which
`TenantEnricher` takes it, `requestTenant` the property of the request object
from which `getTenantContext` does. The middleware sets the latter on the raw
request; whether the object injected into the service shows it depends on the
HTTP adapter, so both are allowed, and without it `getTenantContext` reads the
headers again. `Headers` has the four names that the code accepts; `Coalesce`
is `??`, for which an empty header is a value, unlike for the test of truth
after it.

A message is in `queue` until it is acknowledged, so it may be delivered any
number of times, also to two handlers together and after a crash. `Foreign`
messages come from elsewhere and need not name a tenant. `onMessage` is `OnMessage`
(after its delay), the lookup, `Connect`, `SetSearchPath`, `QueryOk` or
`QueryFail`, `Release`; then the container acknowledges, unless an error was
rethrown.

Both set-ups of a query runner leak it when they fail after `connect()` (`Leak`). In
`getQueryRunner` of the listener that is `SET search_path` (`SetSearchPathFail`,
`sqs-listener.sample.ts:62`): it rejects with the query runner connected, the
variable in `onMessage` is still undefined, and the finally block releases nothing.
In `setupQueryRunner` of the decorator it is `SET search_path` or BEGIN (`SetupFail`,
`transactional-method.decorator.ts:128-131`), before the try of
`executeInTransaction`. Either way the connection is out of its pool for the rest of
the process. The history variable `leaked` has these connections, so that
`ConnectionsReturn` can say that nothing else loses one. `Crash` takes all memory
and all sessions, leaked ones too, and leaves the queue.

Apart from that the decorated call is one step between taking and giving back its
connection: its set-up fails (`SetupFail`), it commits (`TransactionOk`) or it rolls
back (`TransactionFail`); `Transactional` has the detail. `ran` records in which pool
and search_path it committed. A request whose own tenant's pool has a leaked
connection may wait for ever (`Short`), and `EveryRequestAnswered` exempts it; one
of another tenant is answered all the same.

The repository configures the sample container with `autoStartup(false)` and
does not start it; the model is of a process in which it was started.

### MigrationService

`stage` is where a replica stands in `runMigrationsOnDatabase`, `at` the entry it
works on, `raised` whether the finally block is about to rethrow. `lock` says
which session holds each advisory lock; a replica's session goes with its pool
(`Destroy`) or its process (`Crash`), and if the host or the network dies it
lingers as `Ghost` until the server notices (`Reap`, constant `Lingers`).
`DropSession` is the idle session of a running replica that ends: the pool opens
another one and the code does not learn of it. Reading the table of executed
migrations and applying what is missing are two steps, as in TypeORM;
the second one is a transaction. `LockKey` is a constant, so that two schemas
may have one key: `generateLockKey` is a 32-bit hash.

### CircuitBreaker

`createCircuitBreakerClient` hands `protectedRequest` to one opossum circuit,
with the options that `SampleClientModule` takes from the configuration
(`Options`: what `application.yml` sets, or else the `@DefaultValue`s). `Send` is
an admitted `fire`, `Reject` the other kind; `Succeed`, `Fail` and `GiveUp` are the
ends of a call: an answer, an error of axios (a status, no connection, or its
own time-out, which the module sets to the same value), the time limit of the
circuit. After `GiveUp` the request goes on in `abandoned` until `EndLate`. `Open`,
`Close`, `HalfOpen`, `OnFailure`, `Trips` and the statistics (`buckets`, `Older`)
are opossum's: a call is counted in the bucket of its `fire`, also when it is
rejected, and its failure in the bucket of its end; a failure opens a closed
circuit when the window has enough calls and too many failures, and a half-open
one always; the first `fire` in the half-open state withdraws the admission
(`pendingClose`).

The unit of time is the span of one bucket. `Tick` lets a unit pass and is
enabled when no timer is due, so timers are punctual; within a unit everything
may happen in any order. `call[c].fate` is fixed when a request is sent: a healthy
service answers in time, another one may answer, fail, or be silent.

`tried` is a history variable: who has sent a call since the circuit half opened. With
it `ProbeDecides` says that a step which leaves the half-open state ends a call of
that kind. A call from before the opening, were it still under way, would be
in `call` as well, and opossum does not tell the two apart.

`ProbingCircuit` is the abstract specification: after tripping, callers try the
service one at a time, and the one that tries decides. `ImplementsCircuit` maps
its `probe` to the one call under way in a half-open circuit.

`OptionsAssumption`, `timeout` + window <= `resetTimeout`, is true of the
defaults (10 s + 10 s <= 30 s) and of `application.yml` (5 s). Nothing in the
code enforces it. Without it a call that was sent before the circuit opened may
end in the half-open circuit, where opossum takes it for the probe.

### Actuator

`Ask` is `getDataSources` with its new `DataSource`s and the first stretch of the
handler; `InitializeOk`/`InitializeFail` and `QueryOk`/`QueryFail` are the ends of
`initialize()` and of the statement; `Conclude` is what `readiness` does with a
result, which is going on to the next database (`healthCheck` asks all at once).
`HealthCheck` is terminus' `check`: it waits for all, and answers 503 if a ping
failed, but an error that is none of terminus' own, which is what `initialize()`
rejects with, is rethrown and becomes 500 in `CustomExceptionFilter`. `sessions`
are those that requests of the actuator have opened and nobody has destroyed;
`IdleTimeout` ends them. `wasUp` and `wasAway` are history variables for
`AnswersAreHonest`.

"not ready" is answered with status 200: an orchestrator that looks at the status
alone takes it for readiness (`README.md:96` calls the endpoint a readiness
probe). The model keeps `allReady` and the status apart.

## What the runs check

Passing runs:

| run | instance | shows |
|---|---|---|
| `DatasourceManager` | 3 callers; tenants `us` (also spelled `US`), `de`, `fr` without entry; 6 `DataSource` objects | types; cached pools are open and their tenant's own; answers too; pools per tenant are bounded by the callers that miss together; the manager implements `TenantRouting`, in which every call is answered |
| `TransactionContention` | 2 requests of one tenant, one of which nests a second call, a request without a tenant, pool of 2 | types; no connection serves two transactions; every call settles as long as the pool covers the nesting |
| `TransactionFaults` | 2 requests of 2 tenants, one of which nests a second call; statements, COMMITs, replies, connections fail; rejections are caught, of joined calls too | isolation; connections come back, and clean; the decorator implements `AtomicTransactions` |
| `TransactionNesting` | 1 request, up to 4 calls nested 3 deep, pool of 3, rejections caught, COMMIT refused | the context is live and the right one; returned means committed, rejected means rolled back; a suspended transaction is left alone |
| `MessageFlow` | 2 requests with headers of either tenant or none, a handler, a foreign message without a tenant, pools of 1, a crash, set-ups of the decorator and of the listener that leak | an event names the schema that its request used, and is handled there; what left the queue was handled; connections return unless a set-up leaked them; requests are answered unless one of their own tenant's pool is leaked; events are handled in the end unless one stays leaked |
| `MigrationSafety` | 2 replicas of different builds, 2 schemas with one lock key, crashes with lingering sessions | types; one migrator per schema; each migration once; no lock leak; only the holder's unlock frees a lock |
| `MigrationRecovery` | 2 replicas, 2 schemas with a lock key each, one lost session, crashed sessions end at once | what a listening replica did not skip is migrated; everything is migrated once failures cease |
| `CircuitBreaker` | 3 callers; time limit 2, window 2, reset 4 units; 50 %, volume 2 | types, timers included; one probe in a half-open circuit; no failure from before is left in its window; only a call sent after it half opened closes or re-opens it; the client implements `ProbingCircuit`; calls end; a circuit whose service has recovered closes for good |
| `Actuator` | 2 requests, 2 servers that grant 1 and 2 sessions | types, sessions within the limit, nothing awaited after an answer but a ping that was given up; answers and their details are true of their time; requests are answered; sessions end |

Runs that show where the code does something else than its documentation says:

| run | the documentation | what happens |
|---|---|---|
| `SetupLeak` | `docs/practices.md:1087` | a failing `SET search_path` or BEGIN keeps the connection out of the pool for ever |
| `PoolExhausted` | `docs/transaction.md:53`, `resources/application.yml:21` | REQUIRES_NEW calls of several requests wait for each other's connections, with no time-out |
| `MigrationGhostLock` | `README.md:83` | replicas skip a locked schema and listen; after a crash with a lingering session nobody migrates it |

Two more differences that the modules show when asked. `docs/multi-tenancy.md:508-509`
promises one pool per tenant; two first calls that overlap open two, one of
which nobody will ever find or close (`PoolsPerTenantBounded` is what holds
instead). `docs/multi-tenancy.md:211` says that a transaction commits if the method
succeeds; when a method catches the error of a statement and returns, COMMIT
of the aborted transaction is a rollback without an error, and the call reports
success. `OutcomeIsTrue` fails for such methods (`"REQUIRED" \in Catch` with
statement faults), and when the reply to a COMMIT is lost, so that the caller is
told of an error although the writes stay (`"reply" \in Faults`, which nobody
promises to be otherwise); `TransactionNesting` has methods that catch only what a
REQUIRES_NEW call rejects with, and there it holds. Methods that also catch what a
joined call rejects with, and go on in the transaction that it left half done, are
in `TransactionFaults`: `ImplementsAtomic` holds of them, whatever the caller is told.

When the lock keys of two schemas collide, a replica skips a schema on which nobody
works, because another replica holds the shared lock for the other schema.
`OneMigratorPerTarget` and `AppliedAtMostOnce` hold then too (`MigrationSafety`), but not
`EventuallyMigrated`: with `LockKey <- Colliding` TLC finds, without any lost session,
two replicas that are restarted by turns, each of which skips the second schema while the
other one holds the lock for the first, so that it is never migrated.
`MigratedUnlessSkipped` exempts what was skipped.

### Bounds, and why they are enough

* Three callers are the fewest in which one finishes while two others still
  race; three tenants cover the two spellings of one, and the one without an
  entry. Six `DataSource` objects are the most that three callers can have open
  for two configured tenants, so `Miss` is never disabled for lack of one.
* In `Transactional`, `MaxDepth`, `MaxCalls` and `Budget` bound the calls of a
  request: two requests that each hold a connection and want another are the
  smallest deadlock, depth 3 the smallest in which a call joins a call that
  was itself nested. `Slots` are the places in a pool; runs without
  liveness use their symmetry.
* A call writes once. Two writes of one call cannot be told apart by any of the
  properties, which compare the writes of different calls.
* `MaxDrops` bounds lost sessions. `records` is never bounded: it grows only
  when a migration is applied again.
* `TransactionFaults` leaves the fault `"setup"` out, since `SetupLeak` shows that
  `NoConnectionLeak` fails with it. `MessageFlow` keeps that failure, of the
  decorator and of the listener, and names what it leaks.
* `MessageFlow` does not check for deadlock: with its pool's one connection
  leaked and no crash left, a request that waits for it and a handler that does
  may be all there is. `EveryRequestAnswered` and `EveryEventHandled` say when that
  does not happen.
* `MigrationRecovery` has distinct lock keys, without which `EventuallyMigrated` is
  false (above); `MigrationSafety` has colliding ones.
* `MigrationSafety` has `MaxDrops = 0`. The session that has the advisory lock is an
  idle one of a pool; if it is lost, the pool opens another, the code does
  not learn of it, and with `MaxDrops = 1` TLC finds two replicas that apply one
  migration, although `README.md:11` promises "safe, parallel migration
  execution". `MigrationRecovery` has such a loss.
* In `MessageFlow` one handler is enough for repeated delivery (a failure, a
  lost acknowledgement, a crash), and pools of one connection make it compete with
  the requests; two handlers were checked for the invariants alone. Three
  `DataSource` objects are what three callers can open at the same time.
* In `CircuitBreaker` three callers are the fewest with a probe, a late request and
  a rejected call together. `MaxFires` bounds the calls of one unit of time:
  two are the volume threshold, so one unit can trip the circuit and a window
  has room for successes beside failures. The options keep the
  proportions of the configuration (a reset is no shorter than time limit and
  window together), at the boundary: one unit less and `FreshStart` fails.
* In `Actuator` one server grants a single session, so that two requests compete
  for it, the other one enough for both. Two databases are a first and a
  last for the loop of `readiness`.

### Fairness

Weak fairness of each caller's next step: the event loop resumes what is
settled, and the driver settles what it was asked (`initialize`, statements).
No fairness is assumed of a method's statements and calls, only that it
returns or throws in the end. The pool is not assumed to be fair beyond weak
fairness of each waiter, except in `MessageFlow`, where a waiter is not passed
over for ever (`SF` of `Connect`: pg-pool keeps its waiters in a queue)
because a handler comes back for messages without end. There the queue
delivers every message it keeps again and again (`SF` of `Deliver`). Replicas
that are down are started again (an orchestrator does that), and `Reap` is
fair because the server's keep-alive ends dead sessions. In `CircuitBreaker` time
passes and calls end; `Recovers` supposes that the service stays healthy and
that somebody calls it again and again. In `Actuator` connections and
statements end, if only by time-outs of the network, pools end idle sessions,
and servers need not ever come up. Failing and crashing
are never fair; `EventuallyMigrated` and `EveryEventHandled` suppose that they
cease, the latter also that no connection stays leaked (a restart of the process
takes leaked ones back).

## What is proved

`DatasourceManagerProofs`, for any finite set of callers, any tenants, spellings
and configuration (`TenantAssumption`, `DataSourceAssumption`,
`ConnectionsAssumption`):

* `ManagerTypeCorrect`: `ManagerSpec => []TypeOK`.
* `CachedPoolsAreOwn` and `AnswersAreOwn`. The inductive invariant is `PoolInv`: a
  cached object is open and of its key's entry; a call that waits for
  `initialize()` has an object of its own, which nobody else waits for and
  nobody has cached; `initialized` and `resolved` calls have an open one of
  their own tenant. It needs `OneKey`, that the cache and the configuration
  spell a tenant alike.
* `PoolsStayBounded`: a tenant never has more pools than there are callers.
  `BoundInv` counts the objects built before the first one is stored, each of
  which is still in the hands of a caller.
* `RoutingIsKept`: the safety part of `ImplementsRouting`, step by step.

`TransactionSessionProofs`, `TransactionIsolationProofs` and `TransactionAtomicityProofs`,
for any requests, tenants, pools, depths, budgets, and whatever fails and is caught
(`TransactionalAssumption`, `NullAssumption`, `PoolAssumption` and those above):

* every step of `Transactional` is a step or a stutter of the manager
  (`ManagerStep`), so `PoolInv` holds of it too;
* `TransactionalTypeCorrect`: `Spec => []TransactionalTypeOK`;
* `ConnectionsAreExclusive`, `PooledSessionsAreClean`, `ContextStaysLive`. None
  is inductive; they follow together from three invariants. `StackInv` is
  about the stack alone: below the top every call is in its body, a call in
  a phase of `setupQueryRunner` or `executeInTransaction` has its own transaction,
  a transaction is never younger than a call that runs in it. `JoinedInv`:
  whoever runs on a connection has, at or below it in the stack, the
  call that opened the transaction, on the same connection. `SessionInv`: that call
  is the holder of the connection; the session is clean before BEGIN and after
  the end, and in a transaction from BEGIN to the end. A connection taken from
  the pool is in nobody's hands, so nobody's invariant breaks; a release gives
  away what no other call has;
* `StatementsStayInTenant`: `Spec => []TenantIsolation`, from `RouteInv`. A frame that waits for
  its pool is given one of its tenant's key, since the manager answers so
  (`PoolInv`), and from there on the pool of its connection stays that of the key;
  after `SetSearchPath` the session keeps the path, because nobody but its holder sets
  it (`SessionInv` says who that is) and calls that join run on the holder's
  connection;
* `HeldUntilReleased`: `NoConnectionLeak`, assuming `"setup" \notin Faults`, without
  which `SetupLeak` refutes it. Its invariant turns the holder around: who holds a
  connection has a pending frame that runs on it, so only that frame's `Release`,
  or the loss of the connection, gives it back;
* `SuspendedStayUntouched`: `Spec => SuspendedOuterUntouched`. A session changes only
  by a step of the call on top of some stack that runs on it (`OnlyTopTouches`), and
  all calls that run on one connection are of one request (`OneRequest`);
* `TransactionsAreAtomic`: `Spec => []AllOrNothing`. The invariant follows each open
  transaction (`WritesOK`): before BEGIN it has no writes, until COMMIT all of them
  wait in its session and none is in the database, so COMMIT makes exactly its
  writes permanent. `CallsGrow` (calls are numbered from the bottom of a stack to its
  top) keeps two transactions of one stack apart;
* `OutcomesAreTrue`: `OutcomeIsTrue`, assuming that no reply to a COMMIT is lost and
  that bodies catch at most what REQUIRES_NEW calls reject with; the methods and the lost replies
  for which it is false are named above. The invariant `OutcomeInv` says
  what release is going to report (`EndOK`), and that a transaction which PostgreSQL
  has aborted never comes to its COMMIT: while its owner is still in its body,
  the call at the top of the stack joined it and is on its way out with an
  error (`Doomed`), which takes every call down to the owner with it;
* `RejectionsAreTrue`: `RejectedLeavesNothing`, the half of it that is about rejections,
  for every `Catch`, a caught failure of a statement included, as long as no reply to
  a COMMIT is lost. Only `rollback` records a failure, and its transaction has
  nothing in the database (`RejectInv`): COMMIT either refused or had not been tried.
  Of the two promises of the documentation, `docs/transaction.md:208` (a failure rolls back) is
  therefore kept where `docs/multi-tenancy.md:211` (success commits) is not;
* `TransactionsImplementAtomic`: `Spec => ImplementsAtomic`, without any assumption on
  failures. A call number belongs to one frame at most (`OneFrameEach`, from
  `CallsGrow`), and one that has not been used yet is nobody's transaction
  (`FreshHome`), so each step moves the status of at most one transaction:
  `OneMoves` and `NoneMoves` turn that into a step of `AtomicTransactions` or a
  stutter, `StatementMoves` does so for a write, which needs `JoinedInv` to find the transaction
  it is made in, and `EndMoves` for COMMIT, which needs `WritesOK`, that the
  session holds the transaction's writes, all of them and no others.

`MigrationServiceProofs`, for any number of replicas, entries and migrations,
any builds, any lock keys (assumption: `MigrationAssumption`):

* `TypeCorrect`: `Spec => []MigrationTypeOK`.
* `MutualExclusion`, `AppliedAtMostOnce`, `UnlockIsHarmless`, all for
  `MaxDrops = 0`: one migrator per target, each migration once, no lock freed
  by another replica. None of these is inductive. The
  inductive invariant `LockInv` adds that a replica in `read` or `apply` holds
  the lock of its target, that a lock is held by a replica only between taking
  and destroying and only the lock of its current target, that only an
  initialized `DataSource` holds locks, and that what a replica has read as
  applied is still all that is applied while it is the migrator: the last
  part is what makes a second application impossible.
* `LocksAreLetGo`: `Spec => []NoLockLeak`, for any `MaxDrops`: when a session is lost its
  locks go with it, so even then a replica holds no lock but that of the
  target it works on. The invariant is the part of `LockInv` that survives the
  loss: who may hold what, but not that a migrator holds anything.
* `ListeningIsMigrated`: a replica that listens found every target it has not
  skipped at its version. Its invariant follows the loop: all targets before
  `at` are skipped or done, and what was applied stays applied
  (`AppliedGrows`). It needs no assumption about sessions.

`CircuitBreakerProofs`, for any callers and any options with
`OptionsAssumption`:

* `CircuitTypeCorrect`: `Spec => []CircuitTypeOK`;
* `ProbeIsAccounted`, `StartsAfresh`, `ProbeAloneDecides`, from the invariant
  `CoolingInv`. None of the three is inductive, as they are about the half-open
  circuit and are decided while it is open: then every call under way ends, and its
  failure leaves the window, before the reset timer is due. `CoolingInv` says so of
  each call (the time it has left plus the window is at most what is left on the
  reset timer) and of each bucket with a failure (so is the time until it
  leaves the window). `ProbeAloneDecides` needs `TriedInv` besides: when the circuit
  half opens no call is left from before, so that whoever waits in the half-open
  state has sent its call in it;
* `CircuitIsKept`: the safety part of `ImplementsCircuit`, step by step.

`MessageFlowProofs`, for any requests, handlers, foreign messages, headers,
tenants and pools, however often messages are delivered and whatever fails and
crashes (`FlowAssumption`, `PoolAssumption` and those of the manager):

* every step but a crash is a step or a stutter of the manager (`ManagerStep`),
  and a crash empties it, so `PoolInv` holds here too;
* `MessageFlowTypeCorrect`, `EventsAreOwn`, `HandledInOwnSchema`,
  `NoEventIsLost`, `ConnectionsComeBack` (a connection is free, in the hands of one
  caller, or leaked by one of the two set-ups), all from one invariant, `FlowInv`. A
  caller waits for the pool of the tenant it works for (`LookupInv`) and runs
  on a connection of that pool that it alone has (`RunInv`); the store, the
  request object and the event's attributes name the tenant of the request's headers
  wherever they name one (`RequestInv`); a handler's statement runs
  under its tenant's search_path, and a message that is about to be
  acknowledged has been handled (`HandlerInv`). `EventOfItsTenant` rests on the
  first three: the tenant of the transaction comes from the request object, that of
  the event from the storage, and only the headers connect them
  (`EnrichedTenant`: what the enricher writes, the listener reads back).
  `AloneStep` says what a step of one caller leaves to the others, so that each
  action is shown only for the caller that takes it.

`ActuatorProofs`, for any finite sets of databases and requests, and any limits
(`ConfigurationAssumption`, `ProbesAssumption`; finite because sessions are counted):

* `ActuatorTypeCorrect`: `Spec => []ActuatorTypeOK`, which says that sessions stay
  within the limit of their server and are no fewer than are in use. The
  invariant `ActuatorInv` adds where a request stands (`Asked`): `readiness` has
  settled the databases before its place and not asked those after it,
  `healthCheck` has asked all;
* `AnswersAreTrue`: `Spec => AnswersAreHonest`, assuming `DistinctNames`, that no two
  databases have the same database and schema name; without it one overwrites the
  other in the details (`actuator.controller.ts:75`), and `AnswersAreHonest` is false.
  `HonestInv` adds that every result a check has, an awaited statement and a broken
  connection included, was so at some time of the request (`ResultsTrue`), and that
  the details are the results so far (`DetailsTrue`).

Only model-checked: liveness (`EveryCallSettles`,
`EveryRequestEnds`, `Recovers`, `EveryProbeAnswered`, `SessionsGoBack`,
`EventuallyMigrated`, `EveryRequestAnswered`, `EveryEventHandled`, the
fairness of `TenantRouting` and `ProbingCircuit`), which is out of reach of the prover.
Every invariant and every safety property of the passing runs is a theorem.
Two theorems are about properties that no run checks: `AllOrNothing`, of which
`ImplementsAtomic` says more, and `RejectedLeavesNothing`, which `OutcomeIsTrue`
includes where it holds.

## What is not modelled

Concurrent children of one request (`Promise.all` inside a decorated method);
isolation levels; idle time-outs of pools, but for the actuator's; `isActive`,
which the code never reads; app.close(). The endpoints `liveness` and `info`
answer constants; the listeners of the circuit only log. Of the queue's container only what its options promise is modelled, and
messages it acknowledges because validation fails never reach `onMessage`.
That `docs/multi-tenancy.md:257-264` names the attributes `businessUnit` and
`countryCode`, where the code publishes and reads `x-business-unit` and
`x-country-code`, is a difference of wording that no run shows. Configuration
loading, logging, filters, tracing and the demo controllers keep no state.

## Plan

1. Done: `DatasourceManager` with `TenantRouting`, `Transactional`,
   `MigrationService`, `CircuitBreaker` with `ProbingCircuit`, `MessageFlow`,
   `Actuator`, with proofs of the safety of each.
2. Done: `AtomicTransactions`, which `Transactional` is proved to implement.
3. Left: children of one request that run in parallel.
