# Verification of juit-pgproxy

TLA+ models, TLC configurations and TLAPS proofs about the PostgreSQL proxy in
this repository: a server that lends PostgreSQL connections of a pool to HTTP
and WebSocket clients, and the client libraries that talk to it.

Paths in this document are below `src/workspaces/`.  Everything in the program
is single-threaded JavaScript: a piece of code runs to completion up to its next
`await`, callback or end, so an action of a module is one such piece, and what
interleaves are the functions suspended at an `await`, the timers, and the
events of sockets and of libpq.

## 1. The system

| Component | Source | State | Operations | Interacts with |
|---|---|---|---|---|
| Connection pool | `pool/src/pool.ts` | `_connections`, `_available`, `_borrowed` and their timers, `_evicted`, `_pending`, `_started`, `_starting` | `start`, `stop`, `acquire`, `release`, `_runCreateLoop`, `_runBorrowLoop`, `_evict` | creates, validates, recycles and destroys connections; called by the server and by `client-psql` |
| Connection | `pool/src/connection.ts` | `_pq`, `_destroyed`, the life of one libpq handle | `connect`, `query`, `cancel`, `destroy` | serialises queries with the queue; tells the pool with "destroyed", "error" |
| Work queue | `pool/src/queue.ts` | `_queue`, `_running` | `enqueue` | one per connection |
| Server | `server/src/server.ts` | the pool, the HTTP server, one borrowed connection per WebSocket | `start`, `stop`, health check, one-shot HTTP query, WebSocket session | acquires and releases connections, answers clients |
| Authentication token | `server/src/token.ts`, and a copy in `client-whatwg` | the tokens a server has seen | `createToken`, `verifyToken` | server and clients |
| WebSocket client | `client/src/websocket.ts` | pending requests by id, socket state | `query`, `close`, socket events | the server's WebSocket session |
| Client and transactions | `client/src/client.ts`, `client/src/provider.ts` | connection in use, transaction flag | `query`, `connect`, `begin`, `commit`, `rollback`, `close` | a provider: HTTP, WebSocket or the pool |
| Providers | `client-node`, `client-whatwg`, `client-psql` | sockets, or a pool | `acquire`, `release`, `query` | the server, or the pool directly |
| Persister and queries | `persister/src/*.ts` | none beyond a client | builds SQL for CRUD and search | the client |
| Type codecs | `types/src/**` | registry of parsers | parse and serialise PostgreSQL text | the client |
| SQL templates, results | `client/src/sql.ts`, `client/src/result.ts` | none | concatenate templates, map rows | the client |
| Migrations | `utils/src/migrate.ts` | the `$migrations` table | apply migrations under a lock | a client in a transaction |
| Database tools | `utils/src/{database,extract,serialize}.ts` | none | create and drop databases, describe a schema | a client |
| Models | `model/src/*.ts` | none | type-level and text-level description of columns | the persister |
| Command line | `cli/src/cli.mts` | the running server | start, SIGHUP restart, SIGINT stop | the server |

What is hard in it, and the properties that make each component correct:

* **Pool.** Any number of create loops, borrow loops and release handlers are
  suspended at once, each with values it read before; `stop()` and `start()`
  happen under them; requests and loans time out.  A connection must be in one
  place at a time, never lost, never lent twice, never back once evicted; the
  pool must stay within its size; a request must be settled once, and wait only
  while something is under way that will serve it.
* **Connection and queue.** A query arrives while another is in flight, while
  connecting, or after `destroy()`; a failing query must free the queue, and no
  result may answer another query.
* **Server.** A WebSocket closes or fails before, during or after the
  acquisition of its connection, with queries in flight.  Every acquired
  connection must be released once, and results must answer the request whose id
  they carry.
* **WebSocket client.** Answers arrive by id, sockets fail with requests in
  flight: every request must be settled once.
* **Client and transactions.** The provider's connection must be released
  whatever happens, and never with a transaction open.
* **Migrations.** Two migrators race; a failing migration must leave nothing.
* **Codecs.** A value must come back as it was written, nested, quoted, null or
  at its extremes.

## 2. The plan

| Order | Module | Content |
|---|---|---|
| 1 | `ConnectionPool`, `ConnectionLending`, `ConnectionPoolProofs` | the pool, what it promises, theorems |
| 2 | `Connection`, `SerialQueries`, `ConnectionProofs` | the life of a connection with its work queue, what it promises to those who query it, theorems |
| 3 | `Server`, `ServerProofs` | WebSocket sessions, HTTP queries and health checks over the promise of the pool, theorems |
| 4 | `Transactions`, `TransactionsProofs` | clients, the transaction flag, the provider and what the pool recycles, theorems |
| 5 | `WebSocketClient`, `WebSocketClientProofs` | sockets and their events, queries and answers by id, theorems |
| 6 | `ServerProcess`, `ServerProofs` | the command line's process, signals and restarts, the reuse of tokens, theorems |
| 7 | `Migrations`, `MigrationsProofs` | concurrent migrators, the lock, failures and lost commits, theorems |
| 8 | `Persister`, `Search`, `PersisterProofs` | statements and placeholders against what the calls promise, pages and their totals, theorems |
| 9 | `Codecs`, `CodecsProofs` | serializers, cache and parsers against what a value is, theorems |

All rows are written and described below.  Each module is checked over what the one
below it promises: `Server` and `Transactions` take the pool as `ConnectionLending` and
its release handler describe it, `Connection` stands behind the work queues of both,
`WebSocketClient` takes from `Server` that messages are answered as long as the socket
is open, unless their connection was evicted (`MessagesAnswered`), and `ServerProcess` that `stop()` waits for the clients.

Theorems: every safety property of the pool, and that it implements `ConnectionLending`;
the invariants of `Connection` and that
it implements `SerialQueries`; that sessions and requests of `Server` release once and do
not reach into each other, and that the server implements `ConnectionLending`; the
correlation of answers in `WebSocketClient`; the uniqueness of servers and of accepted
tokens in `ServerProcess`; the agreement of table and database in `Migrations`; the
fate of writes and the handover of connections in `Transactions`; that every operation
of `Persister` does what it promises, and every answer of `Search` is right; and that the
`Codecs` give back every value they are given.

## 3. The connection pool

### State and actions

`ConnectionPool.tla` models `pool.ts`.  Its variables are the fields of the class
(`connections`, `available`, `borrowed`, `evicted`, `pending`; `phase` stands for
`_started` and `_starting`), the state of each `ConnectionRequest` (`request`),
the life of each `Connection` as the pool sees it (`link`), and, because they are
what makes the pool hard, the *suspended handlers*: `createJobs` and `borrowJobs`
(loops scheduled with `Promise.resolve().then`), `queued` (handlers scheduled by
`release()`), `creating` (create loops awaiting `connect()`), `sleeping` (create
loops awaiting the retry timer), `validating` (borrow loops awaiting
`_validate()`), `recycling` (release handlers awaiting `_recycle()`).  `running`
is the loop that keeps the thread between two iterations without an `await`.
`loan` and `calls` are the clients.

Microtasks run before timers and I/O (`Idle`); code that is not the pool's runs
only when no handler has the thread (`Free`).  Each action is one run of a
handler:

| Code | Actions |
|---|---|
| `start()` | `Start`, `StartConnects`, `StartConnectFails`, `StartValidationFails`, `StartSucceeds` |
| `stop()` and the "stopped" listeners | `Stop` |
| `_runCreateLoop()` | `CreateLoopEnds`, `CreateConnection`, `CreateFails`, `ConnectSucceeds`, `ConnectFails`, `RetryTimer` |
| `_runBorrowLoop()` | `BorrowLoopEnds`, `NoneAvailable`, `SkipExpired`, `Validate`, `ValidatedStopped`, `ValidationFailed`, `ValidatedTooLate`, `Lend` |
| borrow timer, acquire timer | `BorrowTimeout`, `AcquireTimeout` |
| `acquire()`, `release()` | `Acquire`, `Release`, `ReleaseHandler`, `Recycled`, `RecycleFails` |
| "destroyed" listener | `Destroy` |
| a client's query that closes the connection | `ClientQueryFails` |

`_evict()` is the operator `Evict`, with the array truncation of its
`splice(index)` (`Before`): the model does what the code does.  Connections and
requests are objects: a name of `Conn` or `Req` is used again only when nothing
refers to the object it named (`Unreachable`, `RequestUnreachable`), as the garbage
collector would do.

`Events` selects what the environment may do, so that a run can ask what holds
without, say, idle connections destroyed from outside.

`ConnectionLending.tla` is what the pool promises: a request is settled once, a
connection is lent to one request at a time, at most `maximumPoolSize` at once.
`KeepsPromise` says that the pool implements it, the loans in force being those of
connections the pool still owns.

### Runs

| Run | Instance | Shows |
|---|---|---|
| `pool_safety` | 3 connections, 3 requests, min 1, max 2, idle 1, every event but `destroyIdle` | all the safety properties and the refinement; deadlock freedom |
| `pool_liveness` | 2 connections, 2 requests, max 1, connection and query failures, clients destroying what they borrow | no lost wake-up; every request is settled without its timer |

What `pool_safety` leaves out is what the code does not keep, and changing the
configuration shows it:

* `Events = {"destroyIdle"}` with `MinSize = 1`, `MaxIdle = 2`: an idle connection that
  is destroyed from outside violates `NoOrphans`.  `_evict()` calls `splice(index)`
  without a count (`pool.ts:390`), which drops the idle connections behind it: they stay
  open, count against the size of the pool and are never lent again.
* `Events = {"borrowTimeout"}` added to `pool_liveness`: `NoLostWakeUp` is violated.
  The borrow timer (`pool.ts:542`) evicts the connection and runs no loop, so a request
  that waits for room waits for its own timer.
* The array of idle connections may exceed `maximumIdleConnections` without any
  failure: the create loop pushes what it has made unchecked, and `release()` compares
  before its `await` (`pool.ts:594`).
* After a query has broken its handle no "destroyed" event comes (section 4): the pool
  learns it when the connection is released, and until then it counts against its size.

Bounds.  One connection more than `maximumPoolSize` lets a closed connection stay
referenced by a suspended handler or a client while the pool is full again; three
requests let one be served, one be validated and one wait.  Queue lengths,
counters of handlers and timers are not bounded: they are finite because requests
and connections are.  The same invariants hold with four connections, a pool of
three and two idle (996 000 states).  With clients calling `release()` twice the
state space is too large for a run that ends quickly; `NoZombies`, `PoolSizeBounded`
and `RequestsAccounted` are proved for that case.

Fairness.  Node runs every microtask and every timer; libpq answers a handler that
waits on an open connection; a server that is asked for ever accepts and answers
in the end; clients give back what they borrow.  Fairness is strong because an
answer that has arrived waits for the microtasks, which come again and again.  No
answer is assumed for a query on a connection destroyed meanwhile.

### Proofs

`ConnectionPoolProofs.tla` proves, for all sizes and any number of connections,
requests and handlers.  For all events, and clients that call `release()` any number
of times:

* `TypeCorrect`: `TypeOK`, inductive as it stands (`NextTypes`, a step per action).
* `SizeBounded`: `PoolSizeBounded`.  Inductive with the finiteness of
  `connections`; only `CreateConnection` and `StartSucceeds` adopt, one in the
  step that has just checked the size, the other in a pool known empty.
* `NeverZombies`: `NoZombies`.  It is not inductive: a handler about to resume
  could hold an open connection that the pool does not own.  `Ownership` adds that
  whatever is open and *referenced* (by a handler or a client) is owned, and that
  the connection `start()` is trying is referenced by nobody.  `EvictKeeps` and
  `PassingOn` are the two ways handlers keep it.
* `RequestsKept`: `RequestsAccounted`.  `Waiting` says it without counting, and of
  settled requests too: one that has timed out stays in `_pending` until a loop drops it.

For clients that release a loan once.  With `Releases = 2` on two connections, TLC finds
`OnePlaceAtMost`, `TimersFollowLoans` and `KeepsPromise` violated: the second call queues a
connection that is already idle or lent.  With room for two idle connections (`MaxSize` and
`MaxIdle` 2) it finds `NoOrphans` violated as well: the second call for a connection that is
idle again finds enough idle ones, `_evict()` takes the connections behind it from the
array, and they stay open and owned and are never lent; `NoLostWakeUp` fails from there.

* `OnePlace`: `OnePlaceAtMost`, and `TimersWatchLoans`: `TimersFollowLoans`.  They are
  proved together, as `Placement`.  A borrow timer evicts whatever it was armed for, so a
  connection stays in one place only if the timer of an ended loan is disarmed; and
  `Lend` loses no armed timer only if the connection it lends is nowhere else.
  `Placement` speaks of all connections, since a handler or a client may hold one the pool
  has evicted.  `Placed` says what a step may do to a connection: leave it where
  it is, take it from places while the pool gives it up, or put it in one place.
* `NeverOrphans`: `NoOrphans`, if no connection is destroyed while idle, from `Owned`
  (an owned connection is somewhere) and `Placed`.
* `WakesUp`: `NoLostWakeUp`, if moreover no borrow timer fires.  It is not inductive: a
  create loop ends when some connection is idle, which loses no request only because a
  borrow loop is about to take it.  `Attended` says which handler that is.
* `ImplementsLending`: `KeepsPromise`, the refinement.  `Lend` grants, from `Ownership`
  (what it lends is owned) and `Placement` (nobody else has it); `RoomToLend` counts, with
  the injection of the loans in force into the other owned connections.  All other steps
  refuse requests and end loans, or make a request.

They use besides the assumptions on the constants, which are the assertions of the
constructor (`SizesAssumption`) and that `NoConn` is not a connection.  Only the liveness
property `RequestsSettle` is model-checked alone.

### Not modelled in the pool

The `.catch` of the two loops (lines 471-475 and 552-556): nothing in them throws
outside their own `try` blocks.  The `else` of line 463: `connect()` throws when
the pool was stopped meanwhile, as its comment says.  `validateOnBorrow: false`: a
validation that does not fail.  Listeners that throw, event payloads, `stats`,
logging, the parsing of options.

## 4. The connection and its work queue

### State and actions

`Connection.tla` models one object of `connection.ts` together with its queue,
`queue.ts`.  `connected` is `_pq.connected`, `destroyed` is `_destroyed`,
`announced` counts the "destroyed" events, `attempt` is the call to `connect()`.
`queue` is `_queue`; `ticking` says that a `_run()` is scheduled with
`process.nextTick()`: several scheduled runs count as one, as all but the first
find the queue running or empty.  `stage` and `current` are the task `_run()` is in,
and `_running` is `stage # "idle"`.  `wire` is what libpq has in flight, `outcome`
what each caller has been told.  `returning` are the calls of `query()` that have been
settled and whose `finally` block, a microtask, has not run: between the two the queue
may start its next task.

| Code | Actions |
|---|---|
| `connect()` | `Connect`, `ConnectEnds` |
| `destroy()` | `Destroy`, and `Close` in `AfterQuery` |
| `query()`, `enqueue()` | `Ask`, `AfterQuery` (the `finally` block) |
| `Queue._run()` | `Tick`, `Done` |
| the task: assertion, `_send()`, `_flush()`, `_read()` | `NotConnected`; `SendFails`, `Send`; `FlushFails`, `Flushed`; `Read`, `ReadFails` |
| `_fail()`, the "error" listener | `Fail` |

`SerialQueries.tla` is the promise: queries are settled in the order they were made,
each once; an answer comes from an open connection only; a closed connection does
not open again.  `Serial` is its instance with the queries not settled, the current
one first, and `connected` and `destroyed` read as a life.

### Runs

| Run | Instance | Shows |
|---|---|---|
| `connection` | 3 queries, asked any number of times | the invariants, the refinement, and that every query is settled |

`_fail()` sets `_destroyed` (line 223) before the `finally` block of `query()` calls
`destroy()`, which then returns early: the "destroyed" event that the comment at
lines 329-330 of `connection.ts` expects is never emitted after a broken query.  The
model does the same (`AfterQuery`).

Three queries let one be in flight, one be next and one be asked in between.  A
query that has been settled may be asked again, so a run is not three queries long.

Fairness.  Microtasks run.  While the handle is connected its socket becomes writable
and the server answers; these are strongly fair, as libpq's events wait for
microtasks, which come again with every query.  Nothing is assumed of a handle that
`destroy()` has finished: libpq emits nothing any more, the query in flight is never
settled (`Abandoned`), nor are those behind it.  `QueriesSettle` excepts exactly that
case, and deadlock is not checked because a system with nothing but abandoned
queries does stop.

Assumptions: `connect()` is called once on a connection, as the pool does.

### Proofs

`ConnectionProofs.tla` proves, for every set of queries:

* `ConnectionTypes`, `AtMostOneInFlight`, `StaysClosed`, `QueueRuns`: the four
  invariants.  The inductive invariant `Inv` adds what they need of each other: a
  query is in flight only in the stages that wait for libpq, and a queue that is not
  running has a `_run()` scheduled if anything is in it.
* `KeepsOrder`: `Spec => SettlesInOrder`, that the connection implements
  `SerialQueries`.  `NextServes` maps every action to an action of the promise or to
  a stutter, using `Inv` in the current state only; the settled query is the head
  of `Outstanding` because the task in progress is taken off the queue's head.

`QueriesSettle` is a liveness property and is model-checked only.

### Not modelled in the connection

`cancel()`, which asks the server to cancel and changes no state here: its effect is
a query that is rejected.  The finalizer that closes a handle nobody refers to, the
option string, the conversion of result tables.  The listener of line 422 may be
called once more after the flush: it then has no effect.

## 5. The server

### State and actions

`Server.tla` models `server.ts`.  A *session* is what the callback of
`handleUpgrade()` makes: its `socket`, the `promise` of its acquisition with the
connection it carries (`lent`), and the callbacks chained on that promise (`thens`),
which is how both its queries and its release wait for the connection.  `waiting` are
its messages without an answer.  A *request* is an HTTP query (`Post`) or a health
check (`Check`), `stage` says where its handler is suspended.  `returned` counts
how often a client has called `pool.release()` for the loan it has.

The pool is reduced to what its clients see: how often a connection is in `_available`,
whether its `link` is up, broken or evicted, and the `work` queue in which its queries,
and the recycling after them, stand in line.  `available` is a count because
`release()` pushes without looking whether the connection is there already.  What
happens inside the pool (validation, the loops, connections lost by `splice`) is in
section 3 and not repeated.

| Code | Actions |
|---|---|
| `_upgradeHandler()` | `Upgrade`, `SessionAcquires`, `SessionRefused` |
| its "message" listener, `send()` | `Receive`, `RunThen`, `SessionQueryEnds` |
| its "error" and "close" listeners, `release()` | `SocketError`, `SocketClosed`, `RunThen` |
| `_requestHandler()`, `_readRequest()` | `Arrive`, `BodyRead`, `BodyFails`, `RequestAcquires`, `RequestRefused`, `RequestQueryEnds` |
| `_healthCheckHandler()` | the same, from `acquiring`; nobody handles its failures |
| `stop()`, "close" of the HTTP server | `Stop`, `PoolStops` |
| the pool | `Lend`, `Refuse`, `Return`, `RecycleEnds`, `BorrowTimeout`, `Create` |

A promise that is rejected with nobody handling it ends the process, as Node does by
default (`Unhandled`): a health check that gets no connection, or whose query fails, and
a request whose body breaks off.  That is what the code does, and neither a comment
nor a document says otherwise; the liveness properties except it.

### Runs

| Run | Instance | Shows |
|---|---|---|
| `server` | 1 connection, 2 sessions, 1 query, 1 health check, 1 message outstanding per session | every client releases once, no two have queries on a connection, the server uses the pool as `ConnectionLending` promises, everything is given back and every message answered while its socket is open |
| `server_socket_error` | 2 sessions | `Exclusive` violated: "error" and "close" both release |

One connection is the interesting case, as everybody fights for it and it is recycled
from each to the next; an evicted connection is replaced, so the run is not one
connection long.  Two sessions let one use the connection while the other waits, or
closes, or has just closed with a query still in line.  The safety properties also hold
with two connections (5.3 million states), which is too long for a run to repeat.

`server` leaves `socketError` out: with it `ReleasedOnce` and `Exclusive` do not hold,
which is what the second run shows.  All else that goes wrong is in `server`.

Fairness.  Callbacks of a settled promise are microtasks and run.  An acquisition is
settled, because it has a timer.  The database answers on a handle that is not
finished.  Nothing is assumed of clients: a socket need not close, nor another message
come.  Deadlock is not checked, as the process may stop or end.

### Proofs

`ServerProofs.tla` proves, for any numbers of sessions, requests, connections and
messages, `TypeOK` (`ServerTypes`) and, as long as no socket emits "error",
`ReleasedOnce`, `Exclusive` and `Isolated` (`ReleasesOnce`, `OneUser`,
`QueriesIsolated`).  The assumption `"socketError" \notin Events` is needed: with it the
second run is a counterexample.  The inductive invariant `Inv` says why they hold.
`SessionInv`: a release is the last callback in a session's list and only a closed
socket has one, so nothing is chained behind it and none runs twice.  `RequestInv` is its
counterpart for requests.  `Queue`: a connection is either in the hands of one client,
whose queries are alone in the work queue (the query of a request being the only one), or on
its way back, the recycling being last in line, or available with nothing in line.  None of
these is inductive alone: that a request is alone in line is needed for its release to leave
nothing of its own in front of the recycling.

`ServerProofs.tla` also proves `LentToOne`, that `Server` implements `ConnectionLending`
(`ImplementsLending`), for any finite set of connections.  To `Inv` it adds `Life`: a name
is used for a new session or request only when the loan of the one before has ended,
because a closed session has a release in its list until it has released, and a request
that is over has released.  That a loan is granted only below the capacity is a matter of
counting: loans are of different connections (`Room`).

### Not modelled in the server

Requests refused before they acquire anything (their status is the whole of
their handling); answers to payloads that are not valid.  `start()`, the map of tokens
seen and a second call of `stop()` are in `ServerProcess`.

## 6. Clients and their transactions

### State and actions

`Transactions.tla` models `client.ts` over the provider of `client-psql`, which is a
pool in the client's own process; over a WebSocket the pool is the server's and the
session in between adds `Drop`, the release of a connection by a socket that closes.
A *user* is a piece of code that calls `client.query()`, or `client.connect()` and then
the methods of its connection.  `mode` says what it is doing, `conn` is its connection,
`flag` is `_transaction`.  A session of PostgreSQL is its `tx`: no transaction, one that
has begun but has no transaction id because it has written nothing, one that has, or one
that has failed.  `work` is the queue of statements in front of it, with the recycling of
the pool (`<<"pool", "recycle">>`) in line behind those of the user it comes from.

Two variables follow the last write of each user: `told`, what its code may conclude from
the promises it has seen settled, and `stored`, what PostgreSQL has done with it.  They
say what transactions are for.

| Code | Actions |
|---|---|
| `PGClientImpl.query()`, the provider's `query()` | `Query`, then `Resume` |
| `connect()` | `Connect` |
| `query()`, `begin()`, `commit()`, `rollback()` | `Call`, then `Resume` |
| `close()` and `await using` | `Close`, then `Resume` |
| `_recycle()` and the release handler | `Release`, `Recycle` |
| borrow timer, create loop | `BorrowTimeout`, `Create` |
| PostgreSQL and libpq | `Resolves`, `Rejects`, `Breaks`, `NotConnected` |

A statement ends and its caller resumes in one action: the microtasks in between touch
nothing that others read.  `_recycle()` asks PostgreSQL whether there is a transaction
id and rolls back if so, in two queries; it is one action, for nobody else has the
connection in between.

What PostgreSQL does is external: a statement in a failed transaction is refused, and so
is the question of `_recycle()`; `COMMIT` of a failed transaction rolls it back and
succeeds; `COMMIT` may be rejected and ends the transaction; a broken connection rolls
back, unless the statement had been executed before it broke.

### Runs

| Run | Instance | Shows |
|---|---|---|
| `transactions` | 2 users, 1 connection, 2 queries outstanding per user | a connection is handed on without a transaction; a write its user was told is committed stays; one that was rolled back, or never committed, is not there; the flag is right; the connection comes back |
| `transactions_unnoticed` | transactions left before they have written | `CleanHandover` violated: `pg_current_xact_id_if_assigned()` does not see them |

One connection makes every user the successor of another, or of itself, on a session of
PostgreSQL; two users are the one before and the one after.  With two outstanding queries
one runs while one is in line, and `close()` may come with both.  A user starts again when
it has ended, as often as it likes.

`Events` has two members that the passing run leaves out: `unnoticed`, the subject of the
second run, lets a transaction that has written nothing be left to the
recycling, by `client.query('BEGIN')` or by a socket that closes then; `commitFails` lets
`COMMIT` be rejected, which violates `BelievedTransaction`: `commit()` resets
`_transaction` after its `await` (`client.ts:320`), so a deferred constraint that fails at
`COMMIT` ends the transaction while the client goes on believing in it.  So `transactions` shows what holds but for these two.

Fairness.  PostgreSQL answers on a handle that is not finished, the recycling ends, and
the borrow timer fires.  Users need not do anything: `GivenBack` is about those that have
closed or that only query.  `close()` does not release when its `ROLLBACK` is rejected
(`leaked`): then it is the timer of the pool that gives the connection back, which is why
fairness of the timer is needed.

Users are assumed to await `begin()`, `commit()` and `rollback()`, as the documentation's
do, and to close once; they need not await their queries.  They do not send `BEGIN` or
`COMMIT` as text over `connect()`.

### Proofs

`TransactionsProofs.tla` proves every invariant of the passing run for any users,
connections and numbers of outstanding queries: `TypeOK`, `CleanHandover` and
`NoLostWrite` (`TransactionTypes`, `HandsOverClean`, `KeepsWrites`) assuming only
`"unnoticed" \notin Events`, for which the second run is a counterexample, and
`NothingUnasked` and `BelievedTransaction` (`CommitsWhenAsked`, `BelievesRightly`) assuming
`"commitFails" \notin Events` too.

None of the five is inductive, for all of them depend on whose statement is next.  The
inductive invariant `Inv` has three parts besides the types.  `Line`: the jobs in line for a
connection are of one user, the one that has it if somebody has, and nothing comes behind its
recycling; what is awaited is alone in line, nothing comes after `close()`, and the queries
a user has left behind are in no transaction.  `Known`: a session in a transaction belongs to a user whose flag is
set, or has written and waits for its recycling with nothing else in line.  `Written`: what is
pending is pending in the session of the user that wrote it.  From these, a statement that
executes in a transaction is of the user that began it, and a recycling never meets a
transaction it does not see.  `Belief` adds the converse of `Known`, that the flag
implies the transaction, and is preserved only as long as no `COMMIT` fails.

`GivenBack`, a liveness property, is model-checked only.

## 7. The WebSocket client

### State and actions

`WebSocketClient.tla` models `client/src/websocket.ts` with the two providers that extend
it.  `socket` is the state of the WebSocket of each connection (`"token"` while
`_getWebSocket()` awaits its token), `connections` the provider's set, `error` says that a
connection has its `_error`, `requests` is its map of pending requests.  `wire` and
`answers` are the messages under way, neither of them ordered: the server answers a
request it refuses before those in its queue.  `via` and `outcome` belong to a query,
`result` is what the server did with it.

| Code | Actions |
|---|---|
| `acquire()`, `_connectWebSocket()` | `Acquire`, `CreateSocket`, `Opened`, `OpenFails` |
| `release()`, `destroy()`, `close()` | `Release`, `Destroy`, `Closing` |
| `query()` | `Ask` |
| the listeners of the socket | `Message` (`Placed`, `Misplaced`), `ErrorEvent`, `CloseEvent` |
| `makeQuery()` over HTTP | `Post`, `PostAnswered`, `PostBreaks` |
| the server | `Serve`, `ServePost` (`Served`) |

A process loads one provider, as both register the protocols `http` and `https`:
`platform` is the one it has.  They differ in what matters here:

* *WebSockets* of the WHATWG API deliver no message once `close()` was called, and refuse
  the code 1003; those of the package `ws` do neither.  `client-node` uses the sockets of
  undici, which are of the WHATWG API.  `client-whatwg` takes the implementation it is
  given, so that its sockets may be of either kind (`Whatwg`, `Standard`).
* *Queries over HTTP* are `fetch()` in `client-whatwg`, whose promise rejects when an
  exchange breaks.  `client-node` uses `node:http`, and listens to "error" on the response
  only (`client-node/src/index.ts:57`).  A connection that is refused, or reset before the
  response, makes the *request* emit "error" with no listener: an uncaught exception, which
  ends the process (`PostBreaks`, `process`), and the promise of the query never settles.
  A program with a handler of its own for uncaught exceptions would go on; the
  query stays pending there too.

A query is `"stuck"` when the pool of the server evicts its connection under it (section 5):
it is never answered.

### Run

`websocket`: either provider; with `client-whatwg` one socket of each kind; two queries that
may each be asked on either, or over HTTP, with every event.  Two queries on one connection let an answer overtake
another, or find the map cleared by an error; two connections let one be destroyed
while the other opens.  A query is asked once, as its id is random.

Fairness.  The server deals with what reaches it while the socket lives, by an answer or by
letting the query be stuck; messages are delivered; a socket that is closing closes: all
implementations time it out.  Nothing makes users ask, release or destroy, nor a socket
fail, nor an exchange break.  `QueriesSettle` has three exceptions, in which the code leaves
a promise pending:

* the process has ended, by the uncaught error of a request of `client-node`;
* the query is stuck in the server, on a connection that it evicted;
* the answer is of neither status 200 nor 400 and comes on a WHATWG socket: `close(1003)`
  throws inside the listener, the query stays pending and the socket open.  No server in
  this repository sends one.

What it shows is that nothing else leaves one pending: no order of errors, closes, answers and
queries asked in between.  Deadlock is not checked, as users may be done.

### Proofs

`WebSocketClientProofs.tla` proves `TypeOK` (`SocketTypes`) and `Correlated`
(`OwnAnswer`) for both providers and any connections, queries and events.  The inductive invariant `Inv`
adds `Travels` (what is on its way belongs to the connection it is on, and an answer
says what the server did), `Waits` (a registered request is pending, or was never sent)
and `Fresh`.  They need only that a connection is not called "http" or "nowhere".

### Not modelled in the WebSocket client

Messages that are not JSON or have no id are `Misplaced`.  URLs, the signing of tokens,
and the `toString()` of errors.

## 8. The process: tokens, signals, restarts

### State and actions

`ServerProcess.tla` models `cli/src/cli.mts` from where its signal handlers are installed,
with what a `Server` is to it (starting, listening, closing, closed), and the admission of
clients (`server/src/token.ts`, `ServerImpl._validateAuth`).  A token is its timestamp:
signatures match, and random bytes make it unique.  `tokens` is the map of tokens seen with the moment
each expires, `accepted` counts, `sessions` are clients that have not left.

| Code | Actions |
|---|---|
| `createToken()`, `verifyToken()` | `CreateToken`, `VerifyToken` |
| `_validateAuth()`, the interval of `start()` | `Present`, `Wipe` |
| SIGHUP, SIGINT and SIGTERM handlers | `Hangup`, `Interrupt` |
| `Server.stop()` and what awaits it | `StopServer`, `Closed`, `Leave` |
| `Server.start()` | `Started`, `StartFails` |
| `readConfigs()` | `ReadConfigs`, with `Edit` by the administrator |

What a reader may not expect, and the model does as the code does: a SIGHUP with a
configuration that cannot be read logs "Not restarting running server" and restarts it
with the old options; a signal while the server stops or starts fails an assertion and
ends the process with code 1; nothing closes WebSockets, so `stop()` waits as long as a
client stays.

### Run

`process`: two tokens, clocks two ticks off in either direction, a window of 3 ticks and
a retention of 6, eight moments, two servers, three versions of the configuration of which
one is invalid.  The window and the retention keep the ratio that matters
(`2 * Window <= Retain + 2`; 10 and 60 seconds in the code), tightened until a token
is forgotten just when its timestamp leaves the window.  Eight moments let a token from a
fast clock be accepted early, expire and be presented again.  Two servers let the second
be told to restart while the first is stopping.  At the bounds the process just lives on.

Fairness.  The HTTP server closes once its last client has left, and `start()` ends in one
way or the other.  Clients need not leave: `Restarts` excepts a session that stays for
ever.

### Proofs

`ServerProofs.tla` proves `ProcessTypeOK`, with one server at a time (`ProcessTypes`), and
`AcceptedOnce` (`TokensAcceptedOnce`) for any number of tokens and servers, any skews,
and any window and retention with `TimeAssumption`.  `Remembered` is the argument: an
accepted token is remembered until its timestamp has left the window, because a
token is accepted less than one window before its timestamp and leaves the window less
than two windows after, which the retention covers; it needs the server's clock to go
forward, which the model assumes.  `Generations` says that servers before the current one are
closed and those after it not made.  `Restarts` is liveness and model-checked only.

### Not modelled in the process

What the options say; the signature of tokens; a server's clock that is set back, which
would let a token be accepted twice; the exit code of a process ended by a failing health
check (section 5).

## 9. Migrations

### State and actions

`Migrations.tla` models `migrate()` (`utils/src/migrate.ts`), for several migrators, each
started with the files of a checkout (`Release`) in its group.  PostgreSQL is modelled as
`migrate()` uses it: READ COMMITTED transactions, `CREATE TABLE IF NOT EXISTS` that waits
for another transaction creating the same table and then fails on a unique index of the
catalogue, `LOCK TABLE`, a primary key.  A migration's effect is an entry of `history`.

| Code | Actions |
|---|---|
| finding and sorting files, `client.connect()` | `Run` |
| `begin()` and the table | `CreateTable`, `CreateAfterWait` |
| the lock and the rows applied | `LockTable`, `Select` |
| the loop | `Skip`, `RunContents`, `Record` |
| `commit()`, the end of `await using` | `Commit`, `Abandon` (`Leave`) |
| a connection that the server or the network closes, or a migrator that is killed | `Disconnect`; after `COMMIT` was executed, a branch of `Commit` |
| a connection that the pool destroys | `BorrowTimeout`; after `COMMIT` was executed, a branch of `Commit` |

The last two differ.  A closed connection makes libpq fail the query under way, and
`migrate()` throws.  The borrow timer of a pool (`pool.ts:542`), the migrator's own or that
of the server, destroys the connection: `finish()` under a query in flight never settles it
(`Abandoned`, section 4), so that `migrate()`, which always awaits a query once its
transaction has begun, neither returns nor throws (`"hung"`).  For PostgreSQL both are the
end of the session: the transaction and its lock are gone.

### Run

`migrations`: three migrators, one of another group, three calls, each with one of
four releases: one file; the same and one of a lower number; the first one edited; two
files of the same number.  Three calls are a first one, a concurrent one and a retry, in
any combination.  `Recorded` says that the table and the database agree, `Migrated` that
a success means that everything was applied, `Ends` that no two migrators wait for each
other.  `Ends` excepts a call whose connection the pool has destroyed, which hangs in the code,
and says that nobody waits for it.

Fairness.  PostgreSQL answers, and a lock that stays free is granted.  Deadlock is not checked
because calls are bounded; that migrators do not block each other is `Ends`.

### Proofs

`MigrationsProofs.tla` proves `Recorded` (`RecordedAlways`) and `Migrated`
(`SuccessIsComplete`) for any migrators, groups and finite releases, any number of calls
and all events; `ReleaseAssumption` says that a checkout has finitely many files.  The
inductive invariant `Inv` adds `Lock` (who reads or writes rows is alone with the
lock), `Transaction` (so what it selected is still what is recorded, and its rows agree
with its effects but for the one it is about to record) and `Progress` (the files its
loop is past are recorded, or will be when it commits).  `Ends` is model-checked only.

### Not modelled in the migrations

A `COMMIT` inside the text of a migration, which ends the transaction and the lock with
it.  Files that cannot be read or have names that are not migrations: they fail before any
query.

## 10. The persister

### State and actions

`Persister.tla` models the operations of `persister/src/model.ts`: each builds a statement,
here a record with the numbers of its placeholders, and its parameters.  `Execute` is
PostgreSQL running it on a table of any columns (`Column`), all nullable, one of them unique
(`Key`).  `Kept`, the elements of a sequence at some positions, stands for `filter()` and for
`WHERE`.  `Promised` is the reference: what the documentation of `Model` says (the comments of
the interface in `model.ts` and `persister/README.md`), on plain rows and objects.
`Faithful` compares the two for every operation on every table.

They disagree in one case.  `update({}, {})`, with neither a condition nor a value
(undefined entries do not count), is documented to fail: "This method _will fail_ when
query is the empty object" (`model.ts:96-97`, and `persister/README.md:192-193`).  The code
makes a `SELECT` of an update without values before it looks at the condition
(`model.ts:301`), so the call returns every row; a test wants that
(`persister/test/02-model.test.ts:280`, "should select all rows when updating with no
parameters").  `Changed` promises the failure, and `Faithful` excepts what this call returns
(`SelectsAll`); without the exception TLC finds `ModelsFaithful` violated.  What the
documentation gives as its reason, that no call modifies all rows, is kept: the table is
what it promises in this case too.

`Search.tla` models `persister/src/search.ts` and the templates of `client/src/sql.ts`: one
statement with extra conditions, full text, a join, filters on columns and on fields of JSON
documents, order and page, and the second statement that counts when the page is empty.
`Wanted` is the reference.  `search` is a search that awaits its second query while
others write.

### Run

`persister`: tables of two columns and at most two rows over the values 1 and 2 and null,
every object of at most two entries in either order with nulls and undefined entries;
searches that use none, one or all of the features that take placeholders, as it is
their combination that shifts numbers; two writes that may come between the two queries.
Two rows are enough for two to match, for one to conflict and for a page beyond the last.

The run shows that the statements do and return what the calls promise, but for the rows of
`update({}, {})`.  `PageOfOneMoment`
says which moment an answer belongs to: for an empty page the total is that of the second
query, in which the page may have rows again.

Left out, as the model does what the code does and the reference says nothing: an extra
condition with `OR` at its top, which is not parenthesised (`search.ts:233`); an upsert
whose data repeats a key that is undefined among the keys, which loses the column
(`model.ts:205`; the types of `Model` forbid it, `Overlaid`).

### Proofs

`PersisterProofs.tla` proves, for any columns, objects, searches, sizes of tables and calls
that come between two queries:

* `OperationsAreFaithful`: `ModelsFaithful`.  A lemma for each operation
  (`CreateFaithful` ... `DeleteFaithful`) shows that its statement does on a table what
  the call promises, given `TableOK`: rows whose keys are unique.  `UpdateFaithful` has the
  exception of `update({}, {})`, of which `PatchedByNothing` shows that it changes no row.  `KeysUnique` is that
  `TableOK` is invariant, from what the calls promise (`PromisedTable`).  The lemmas rest on
  how `Kept` numbers what it keeps (`Positions`, `KeptElements`) and on `WherePlaceholders`: a
  `WHERE` finds its values from whatever number its placeholders start.
* `AnswersOfOneMoment`: `PageOfOneMoment`, whose part about answers is `RightAnswer`.  Its
  inductive invariant is `TableOK`, `RightAnswer` and `Pending`: a search that counts has an
  offset, which is why no rows are a right page whatever others wrote.  `BuildFinds`
  follows the parameters clause by clause: a clause that is added leaves those before it
  where they are (`Begins`), and finds its own at the number it was given
  (`TemplateStands`, `FilterCarries`); so a row is selected exactly if it is wanted
  (`SelectedWanted`).

Templates and filters are added in a loop of any length, and joins are flattened from any
number of rows.  The induction over that number is done with the set of the numbers at which
the statement fails, which would have a least element (`Least`, `Inductive`), and so is the
existence of the recursive functions (`Recursion`).

What is assumed is in `PersisterAssumption` and `SearchAssumption`: the key and the full text
are columns, objects have one entry for a column, offsets are natural numbers, and options
have the shape TypeScript's types give them.

### Not modelled in the persister

The operators that are spelled like those modelled (`>=`, `<`, `<=`), those on JSON and
arrays (`@>`, `<@`), `LIKE`, ranks and prefixes of full text searches, quoting; the schema
lookup of `persister.ts`.  Ties keep the order of the rows.  `delete` returns rows here and their number in the
code.

## 11. The codecs

### State and actions

`Codecs.tla` models `serialize()` with its cache (`types/src/serializers.ts`), the parsers of
`types/src/parsers` and the rows of `client/src/result.ts`.  Texts are sequences of character
codes here, because quoting is what the property is about.  `heap` are the objects of a
program: arrays of primitives and of other objects, ranges, dates, byte strings, circles,
JSON.

| Code | Definitions |
|---|---|
| `serialize()`, with `serializationCache` | `Send` (`Serialize`, and what it leaves in `cache`) |
| `serializeValue()`, `serializeArray()`, which call each other | `SerializeValue`, `SerializeArray`; a call takes its stack and the cache, and returns a text or what it had cached when it threw |
| the kinds of members and objects | `SerializeMember` with `SerializeNested` and `SerializeOther`, `SerializeContent`, `SerializeRange` |
| `parseInternal()`, a character at a time, with the calls it returns to | `ParseArray` (`ParseCharacter`, `NewEntry`, `Return`) |
| `parseEscaped()`, `parseEncoded()` | `Unescape`, `ParseEncoded` |
| the registry and its parsers | `OidParsers`, `OidRanges`, `Parse` |
| `_createResult()`, `PGResult` | `CreateResult`, `PGResult` |
| a program changes an object it has sent | `Change` |
| PostgreSQL | `PgText`: quoted only where it must be, byte strings in hexadecimal or escaped |

The calls of the serializer are functions of the call below them (`Serializers`, level by
level), and loops are functions of the round before: no operator of the module is
`RECURSIVE`.  A call nests no deeper than there are objects, since the stack has each at
most once.  What an object means, apart from any text, is `Denotes`.

### Run

`codecs`: three objects, two of them arrays or ranges that may contain each other, the third
a leaf of every kind, all combinations of their contents, one change.  Every state is one
state of the cache, so every order of sending is covered.  Each value is read back
through every column type that takes it.

`RoundTrip` is about objects none of whose parts changed after they were first
serialized: a test (`types/test/02-serializers.test.ts:77`) wants the cache to be kept.
So a changed object is sent with its old text, intentionally.

In the escaped format of byte strings, which PostgreSQL writes when `bytea_output` is
`escape`, `parseEscaped()` misreads a backslash right before a byte written in octal
(`bytea.ts:44`): it takes the second backslash of the pair for the start of the octal
number.  `Escapable` excepts those byte strings; without it `RoundTrip` is violated.

### Proofs

`CodecsProofs.tla` proves `RoundTrip` (`RoundTrips`) for any finite set of objects and any
contents of them that `ContentsAssumption` admits: numbers, texts, byte strings, years and
arrays of any size, however objects nest, repeat or contain each other, any number of
changes and any order of sending.  The assumption is only that there are finitely many
objects and what kinds of contents they have (`Content`): years have the four digits that
`pad()` gives them, and an empty range has no bounds.

The inductive invariant, `CodecsInvariant` (`KeptTexts`), is that the heap is well formed and
the cache is right (`Right`): the text it has for an object, unless something the object
consists of changed after the object was serialized, is the text of an object without
cycles and reads back as that object, in every column it may be stored in
(`Represents`).  `RoundTrip` alone is not inductive, as it says nothing of the texts a call
finds in the cache.  The argument:

* **A text and its parser.**  Each parser undoes its serializer: numbers and their digits,
  hexadecimal and octal bytes, dates with and without a zone, circles, JSON, ranges.  The
  runs of backslashes in the escaped format are read right where `Escapable` holds
  (`ReadEscaped`).
* **Arrays.**  `Element(type, text, e)` says that the parser, wherever in a source and in
  whatever call it meets the text, reads it as the entry `e` and no more than it.  It holds for
  texts without special characters (`ElementPlain`), quoted ones (`ElementQuoted`) and, if
  it holds for the elements, for an array in braces (`ElementList`), where the nested call
  returns to the place behind its brace.  So does an array at the top (`TopList`).
* **The serializer.**  `SerializeGood`: with a cache that is right, a call returns a text that
  may be kept, leaves a cache that is right, and throws only for an object that contains
  itself.  By induction over the depth of calls (`LevelGood`): every object on the stack
  contains the one being serialized (`Below`, `Within`), so that finding an object on the stack
  means a cycle, and the stack only grows.  The cache need not be right for objects with
  a part that changed, and a call for one that did not change never reads those.
* **PostgreSQL.**  `PgReads`: what it writes reads back, by induction over the number of parts
  of an object (`Rank`), which is less for each member where there are no cycles.
* **Changes.**  What an object consists of, means, and goes into depends on its parts only
  (`SameReach`, `SameDenotes`, `SameTypes`), so that a change leaves the texts of all other
  objects right, and the history variable `touched` takes those that contain what changed
  (`ChangeRight`).

### Not modelled in the codecs

One kind of leaf per column; that PostgreSQL refuses arrays whose rows have
different lengths; array bounds
(`[2:3]={...}`), of which only the skipping is modelled; intervals, which an external library reads;
`void`; parsers registered by users; the fractions of numbers and of dates.

## 12. What is proved, what is checked, what is left out

Proved by TLAPS, for every value of the constants: sections 3 to 11 list the theorems, which
cover every safety property the runs check.  Model-checked only: the liveness properties
(under the fairness stated), which are out of the prover's reach.

Not modelled: `utils/src/database.ts`, `extract.ts` and `serialize.ts`, one-shot
tools without shared state that create a database or turn its catalogue into TypeScript
text; `model/src`, which declares types; the parsing of options and URLs; logging.
