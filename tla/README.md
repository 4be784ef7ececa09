# A TLA+ verification project for sqlx

sqlx is an asynchronous SQL toolkit for Rust: a connection pool generic over the
database (`sqlx-core`), drivers for PostgreSQL, MySQL and SQLite, a migrator, a
test harness, macros and a command-line tool.  Its hard part is *cancellation*:
every operation is a future that may be dropped at any `.await`, and what it had
started must be undone by destructors that cannot await.  This project models the
parts where that matters, and the conversions and caches around them, checks them
with TLC, and proves with TLAPS the central invariants of the pool, SQLite's
transactions, the PostgreSQL and MySQL protocols, the listener, the advisory lock, the
migrator and the buffered socket.

## Inventory

| component | state | operations | what is hard | what makes it correct |
|---|---|---|---|---|
| connection pool (`sqlx-core/src/pool`) | `size`, `num_idle`, `is_closed` atomics, idle queue, fair semaphore, close event | acquire, try_acquire, return, detach, leak, close, reaping, min_connections | lock-free counters updated in several steps; cancellation at each await; close() racing everything | no connection or permit is lost or counted twice; never above `max_connections`; waiters are served, close() and the reaper end |
| parent/child pools | two semaphores between which permits move | `PoolOptions::parent`, `PoolInner::drop` | children steal, retry, close and are dropped | the parent's permits, and those that `close()` forges, bound all connections |
| transaction managers | `transaction_depth` on the client, savepoints on the server | begin, commit, rollback, start_rollback on drop | the depth changes after the await; the rollback is only queued | client and server have the same transactions open; a dropped one never commits, a committed one stays |
| SQLite worker | command channel, mutex over the connection, `ignore_next_start_rollback` | Begin/Commit/Rollback/Execute/UnlockDb/Shutdown | acknowledgement lost by cancellation; hand-off of the mutex | a completed transaction is not rolled back again; an abandoned one does not stay open; every call is answered |
| SQLite statements | a virtual statement's handles and index, bindings, cache | prepare, bind, step, reset, unlock_notify | an iteration dropped or failed half-way on a cached statement | each raw statement runs once, in order, with its own arguments |
| SQLite explain | registers, cursors, branches | one step per opcode, cut of branches | a cut that loses a path | a column said to be NOT NULL never is NULL |
| PostgreSQL protocol | `pending_ready_for_query_count`, statement cache, socket | run, prepare, wait_until_ready, queue_simple_query | a dropped query leaves a partial response | every response is read by the call it belongs to |
| MySQL protocol | `waiting` queue, statement cache | run, prepare, wait_until_ready, ping | as above, with result sets of unknown length | as above |
| logins | TLS upgrade, authentication exchange | the messages of each method and plugin | who speaks next; which nonce counts | both sides agree on the outcome and nothing is left unread |
| COPY | CopyData in flight, ReadyForQuery not counted | send, read_from, abort, finish, copy_out, drop | an abandoned COPY in front of the next call | the next call gets its own answer |
| PgListener | channels, connection, notification buffer | listen, unlisten, recv, try_recv, drop | reconnection; pool close | nothing lost, repeated or reordered; after reconnection every channel is listened to |
| advisory lock | lock guard, queued unlock | acquire, release_now, drop | unlock queued on a connection that goes back to the pool | a guard means the lock, and no lock outlives its guard |
| type resolution, describe | three maps of types | by OID, by name, of an array | nested lookups dropped half-way; types change | the caches say what the catalog says |
| migrator | `_sqlx_migrations`, database lock | run, undo, CLI run and revert | concurrent migrators, crash, early return | each migration applied once, in order; dirty state is detected |
| test harness | master pool, database names and rows | create, cleanup | concurrent and killed test processes | a test sees only its own data, and databases can be found again |
| stream helper, socket | shared cell, buffers with cursors | yield, poll; write, flush, read | a wakeup or a byte lost between two polls | everything arrives once and in order |
| values, options, queries, Any driver | buffers, URLs, tokens | encode, decode, parse, write | edges of widths and signs, quoting, order of setters | what was written is read back, or refused |
| macros and offline data, CLI | query files, caches of the compiler process | expand, prepare, check, database commands | several compilers, stale files | offline data is what the database would answer |

Components call each other directly: a driver's connection lives inside a
`PoolConnection`; `Transaction`, `PgListener`, the migrator and the advisory lock
each own or borrow one; the pool pings and closes connections through the driver.
`PROJECT.json` lists every component with what is left out of it, and every
hazard with the line where it bites.

## Modules

| module | models |
|---|---|
| `Pool`, `ConnectionBudget`, `MCPoolLive`, `PoolProofs` | `PoolInner`, `PoolConnection`, `Floating`, `DecrementSizeGuard`, the maintenance task, `close()`, `CloseEvent`, over the semaphore of `sync.rs`; what they promise; the instances for liveness; the theorems |
| `ChildPool` | a parent pool and its children |
| `SqlSession` | the statements `sqlx-core/src/transaction.rs` derives from a depth, and the server's stack of savepoints they act on, for the three dialects (the server is external) |
| `SqliteWorker`, `SqliteWorkerProofs` | a `SqliteConnection`: its owner, the command channel, the worker thread, the mutex over the handle; composes `SqlSession`; the theorems about its transactions |
| `PgConnection`, `PgConnectionProofs` | a `PgConnection`: client, write buffer, socket, server, statement cache, `PgTransactionManager`; composes `SqlSession`; the theorems about the protocol |
| `MySqlConnection`, `MySqlConnectionProofs` | the same for MySQL; composes `SqlSession`; the theorems about the protocol |
| `PgEstablish`, `MySqlEstablish` | the logins: TLS, authentication methods and plugins |
| `PgListener`, `PgListenerProofs`, `PgCopy`, `PgAdvisoryLock`, `PgAdvisoryLockProofs` | what is built on a PostgreSQL connection and leaves something on it; the theorems about the listener and the lock |
| `PgDescribe`, `PgTypeInfo` | type resolution with its caches; the tables of built-in types and their comparison |
| `SqliteStatements` | one SQL string executed by the worker: virtual statement, `ExecuteIter`, unlock notification |
| `SqliteExplain` | the interpreter of EXPLAIN programs (`MCServices` has programs as SQLite compiles them) |
| `Migrator`, `MigratorProofs`, `CliMigrate` | concurrent migrators on three databases; the theorems about them; the commands around them |
| `TestHarness` | `#[sqlx::test]` processes and `cleanup_test_dbs()` on one server |
| `AsyncStream`, `BufferedSocket`, `BufferedSocketProofs` | `TryAsyncStream`; the buffered socket; the theorem about it |
| `PgNumeric`, `PgArguments`, `PgTextFormat` | NUMERIC and MONEY; the argument buffer with holes and patches; arrays, records and ranges as text |
| `MySqlRows`, `MySqlTimes` | arguments, rows and integers of MySQL; times and dates |
| `SqliteTypes`, `AnyDriver` | values through SQLite's dynamic types; through the Any driver |
| `UrlText`, `PgOptions`, `MySqlOptions`, `SqliteOptions` | connection options from URLs, environment and setters, and back |
| `QueryBuilder` | `QueryBuilder`, `Separated` and the `Query` they build |
| `OfflineCache` | query macros, `.sqlx` files, `cargo sqlx prepare` |
| `MCServices`, `MCCodecs`, `MCLive` | the compositions that TLC runs, see below |

### Pool

The variables `is_closed`, `permits`, `waiters`, `idle`, `num_idle`, `size` are the
fields of `PoolInner` (the idle queue by its length, since the connections in it
are interchangeable); `armed` is the set of close-event listeners not yet notified;
`leaked` counts `PoolConnection::leak()`.  `pc[p]` is the place process `p` has
reached: one label per shared access (an atomic, the queue, the semaphore) or per
`.await`.  `role[p]` says for which operation it is there, because `acquire`,
`try_acquire`, the maintenance task and the return of a connection share
`pop_idle`, `try_increment_size`, `connect`, `release` and the guard's drop.  The
permit and the guard are not variables: the labels in `PermitOnly` and `Guarded`
are the places in the code where the process owns them.

Each action is one access with the control flow up to the next: `pop_idle` is
`PopIdle` then `DecNumIdle`, `release` is `PushIdle`, `ReleasePermit`,
`IncNumIdle`, the guard's drop is `DecSize`, `DecRelease`, `close_event` is
`CloseEventCheck`, `CloseEventListen`, and `mark_closed` is `MarkClosed`,
`NotifyClosed`.  `CancelGuarded`, `CancelWait`, `CancelRetry`, `CancelClose` and
`ReaperCancelled` drop a future at an await; time is abstracted, so a timeout is
a cancellation.  The futures the pool spawns when a connection is dropped continue
under the identifier of the task that dropped it.  `do_until` is modelled as it is
written: the wrapped future is polled before the close event.  `num_idle` is kept
as an integer; a negative value stands for a wrapped `AtomicUsize`, and the reaper
then loops `WrapCount` times instead of 2^64.

### ConnectionBudget

A connection is in stock, with one owner, or lost; opening needs room below
`Max`.  `Pool` refines it with `stock <- idle`, `busy <- SizeHolders`,
`lost <- leaked`, `shut <- is_closed` (`ImplementsBudget`).

### SqlSession

A session is the data it sees, the durable data, a stack of frames (`BEGIN` is frame
0, `_sqlx_savepoint_n` frame n, each with the data at that moment) and PostgreSQL's
"failed" state.  A write is represented by the transaction that made it (`Outside`
for none), which is all the durability properties distinguish.  `ROLLBACK TO` keeps its
savepoint and names may repeat, the most recent one counting: both matter below.

### SqliteWorker

`chan` is the flume channel, `job` what the thread is blocked in (the answer to a
`BEGIN`, `COMMIT` or `ROLLBACK` waiting to be acknowledged, or the mutex after
`UnlockDb`), `depth` is `transaction_depth`, `ignore` is
`ignore_next_start_rollback`, `mutex` the holder of the lock on `ConnectionState`.
Every method takes `&mut self`, so there is one `call` at a time, with a stage:
sending (the channel may be full) or waiting.  `Cancel` drops its future: the command
stays in the channel with `live` false, and a `Transaction` consumed by `commit(self)`
or `rollback(self)` is dropped with it.  `Do...` are the arms of the worker's `match`;
`UnacknowledgedBegin` and `UnacknowledgedEnd` are what the arms do when
`blocking_send` fails.  `Prepare`, `Describe`, `Ping`, `Serialize`, `Deserialize` and
`ClearCache` change nothing a property reads and share `DoPing`.  `handles`, `fate`,
`parent` and `acked` are what the application knows; no action of the code reads
them except to tell which `Transaction` is innermost.

### PgConnection

`wbuf`, `pending`, `status`, `depth`, `cache`, `next_id` are fields of
`PgConnectionInner`; `net` and `replies` the two directions of the socket; `session`
and `prepared` the backend.  What the client writes between two awaits always ends in
`Query` or `Sync`, so it is one unit (`query`, `parse`, `bind`, `close`, `sync`) that
the server answers with several messages, the last of them `ReadyForQuery`; the client
reads one message per step and may be cancelled before each.  `call.at` is the await a
call has reached: `drain` is `wait_until_ready`, `flush` a flush, `parse` ... `parsed`
the expectations of `prepare`, `closing` and `closed` those of `Close`, `stream` the
loop of `run`.  A message is `own` while the call that asked for it runs.
`StartRollback` only writes into the buffer, as `start_rollback()` does from a
destructor.  `Discards` names the calls after whose failure or cancellation the
application drops the connection: it is the assumption under which the transaction
properties hold, see the findings.

### MySqlConnection

MySQL puts no marker between responses: `waiting`, one entry per response that is
outstanding, is all the client knows.  `net` and `replies` are the two directions of the
socket, a reply being one packet; a response may hold several results.  `call.at` is
the await a call has reached, and `Serve` is the server's answer to one command.
`run()` yields the end of a result before it touches `waiting` (executor.rs:178, 215): the
calls in `Streamed`, made with `fetch_many()` or `execute_many()`, stop there (`EndResult`)
until they are polled again (`Resume`), and may be dropped instead; the others poll on at once.
`Careful` names the cancellations after which the application drops the connection:
those that `waiting` does not account for (`prepare`, `ping`, the drop of a stream at such a
`yield`) and a `begin()`, which has no guard.  Packets arrive whole, so a future is dropped between packets.

### What is built on a PostgreSQL connection

`PgListener` has the channels, the connection (`up`, its registrations, whether it
carries the sender of the buffer), the buffer, and the notifications by number;
`missed`, `owed`, `unsure` and `cut` are history: what went down with a connection,
what must still arrive, channels of calls that failed, and whether a reconnect was
interrupted after it had taken the sender.  `ear` is the close event of a `try_recv()`:
`close_event()` reads the flag in one step and registers in another (`CloseEventListen`), and
is `deaf` if the pool was closed between them.  `PgCopy` numbers queries, and every
message carries the number of the one it answers.  The application may drop everything
half-way, on a connection of its own or on one that goes back to the pool by itself, as that of
`copy_out_raw()` of a `Pool` does; `lapses` is history and counts the places where `copy.rs` lets
a ReadyForQuery go uncounted, and `tattered` says that one `read_from()` followed another,
which sends a part of the buffer again.  `PgAdvisoryLock` has sessions of a pool, a server with counted locks,
and on every connection the unlocks and the rollback written by destructors, with the
unlocks before and after the rollback told apart.
`PgDescribe` resolves one level of a type per query, with other sessions changing the
catalog; what is said of the caches is said until they do, because nothing
invalidates them.

### Logins

Client and server alternate; a hash is a free term over password, user and nonce, so
two terms are equal when the same things were hashed in the same order.  The server's options, the TLS
modes, methods, announced and actual plugins are all in the initial states.

### SQLite: statements and explain

`SqliteStatements` follows one `ExecuteIter` after another over cached virtual
statements, on a connection of a shared cache whose other user holds and releases
locks.  `SqliteExplain` runs the abstract interpreter as the code does (one branch at
a time, forks, cuts at a loop count or a memory seen before) on the programs in
`MCServices`; when it has its answer, `Walk` executes the program along any path
without the limits, and the answer must cover what the walk returns.

### Migrations and tests

In `Migrator` each process has its own directory of scripts and one operation at a
time; a step is one statement on the database, and a crash, a lost connection or an
error may come before each.  `schema` counts statements of a script in force, `rows`
is `_sqlx_migrations`; the processes in `IgnoreMissing` have called `set_ignore_missing(true)`.
`torn` and `overlap` are history: scripts cut off from their
row, and commands without the lock that ran at the same time.  `TestHarness` has the
databases, the bookkeeping table, test processes that may be killed and one cleaner.
`ChildPool` counts permits and connections of the pools the harness makes.

### Values, options, queries, offline data

These modules have one or two variables: an input is chosen, written the way one part
of the code writes it, read the way another part reads it, and both are compared.
Widths are scaled down where the code's arithmetic is the same (a byte of 3 bits, a
money of 6, a second of 3 ticks) and named as constants.  `QueryBuilder`, `AnyDriver`
and `OfflineCache` also have histories: pushes through a `Separated` and `reset()`, a
call site executed again, compilers that run at once while the schema changes.

### Compositions

`PgConnection`, `MySqlConnection` and `SqliteWorker` each compose `SqlSession`.
`MCServices`, `MCCodecs` and `MCLive` extend the smaller components and choose one per
behaviour, the `scene`; the others rest in an initial state.  The states of the
components add up instead of multiplying, and one run checks them all.  A property of
such a run (`NotificationsExact`, `PgValuesReadBack`, ...) is the conjunction of the
named properties of the components it is about, stated and commented in their modules;
the ones that are proved (`AdvisoryLocksExact`, `TransportFaithful`, `MigrationsExact`)
are defined in the component's own module.  `StatementsOnce` covers the stream helper.
`MCPoolLive` does the same for a pool without and with its maintenance task.

## Runs

| run | bounds | shows |
|---|---|---|
| `pool_reap` | 2 tasks, reaper, max 2, min 2, 1 leak | accounting of size, permits and num_idle, and the bounds, while the reaper, returns and acquires race on an open pool |
| `pool_close` | 2 tasks, reaper, 1 closer, max 2, min 0 | refinement of `ConnectionBudget` under a racing `close()`, and that without `min_connections` the retry branch is not reached while the pool is open |
| `pool_live` | 2 tasks, 1 closer, max 1; 1 task, reaper, 1 closer | a waiter leaves its wait; `close()` returns; the maintenance task ends after it |
| `sqlite_tx` | channel of 1, 3 transactions, nesting 3, 3 savepoints, every method, any call cancelled except `begin_with()` in its check, all but rollbacks failing | once the channel is drained, depth, `Transaction` values and database agree; what was committed is durable, what was aborted is not, and a late rollback never undoes an open transaction |
| `pg_tx` | 3 transactions, nesting 2, 3 savepoints, any call cancelled, COMMIT and writes failing, `Discards` = begin, commit | the same agreement and durability for PostgreSQL |
| `pg_protocol` | 3 statements, cache of 2, 3 statement ids, 1 transaction, any call cancelled or failing, `Discards` empty | `pending_ready_for_query_count` is exact; an answer is only read by the call it belongs to; a cached statement is prepared; no call waits for ever |
| `mysql` | 2 statements, cache of 1, 2 ids, 2 transactions, queries of both protocols as streams, `Careful` = begin, prepare, ping, yield | `waiting` is exact, every packet is read by its call, no call waits for a packet that will not come, transactions as above |
| `services` | 14 scenes: 1 channel with 2 notifications, 1 break and 1 dropped future; 3 queries around a COPY with up to 2 `read_from()`; 2 sessions with 2 guards; all methods and plugins; 3 resolutions and 1 DDL; 4 bytes; 5 steps of a stream; the programs; 2 executions of 3 SQL strings; 2 migrators, one of them with `ignore_missing`, 2 versions, 1 crash; 3 additions within 2 seconds and 2 commands; 2 test processes, 3 runs, 1 cleanup; 2 children | the promises of those components under their faults and cancellations |
| `codecs` | 13 scenes over the inputs that `MCCodecs` defines | values, options, queries and offline data read back, or are refused |
| `live` | channel of 1 and 1 transaction with a savepoint; 1 notification and 1 break; 2 sessions; 5 steps of a stream | every call of the SQLite worker returns and a locked handle is left alone; a notification arrives and `Pool::close()` ends a wait that registered in time; `acquire()` of a lock returns; a stream ends |
| `pg_nested_commit` | 3 transactions, nothing fails | violated: `commit()` returns Ok and an acknowledged write is gone |
| `any_null_type` | one call site of the Any driver | violated: NULL first and then a value is refused |

*Bounds.*  Pool: two tasks and two connections are enough for the races at stake:
each involves one process between two accesses and one that runs in the window; a
third process (the reaper or a closer) is added because it uses the shared operations
in another order.  `MaxLeaks` bounds `leak()`, `WrapCount` the wrapped loop.
Connections: three transactions allow a nested one, a second nested one that
reuses its savepoint's name, and the enclosing one; `MaxFrames` bounds the savepoints
that rollbacks leave behind; a channel of one, behind the command the worker is at, holds an abandoned
command in front of a live one; `MaxPending` and `MaxWaiting` bound how many answers may be outstanding when
a call starts; a cache smaller than the set of statements evicts.
Services: one break of the listener with a notification before and after it
(`eager_reconnect` and `ignore_pool_close_event` are not both away from their defaults, and a
channel is listed once; the theorems have no such bound); two
sessions for a lock that one holds and one waits for, and two guards for its
re-entrance; two migrators with different directories, of which one may be edited, and
a crash at any statement; a test path run again after a killed or failed run; two
children that compete for two permits.  Codecs: inputs at the edges where the code
changes its behaviour (first value of a wider encoding, empty, negative, quoted,
reserved, at and beyond the maximum).

*Fairness.*  Pool (`Fairness`): every future inside the pool is polled again while it
can proceed, which is what the runtimes guarantee for a woken task; `connect()` ends by
its deadline (strong fairness of `DialFail`, since a failing `after_connect` hook may
send the loop round for ever); and the application eventually drops the connections it
holds, without which no pool can serve a waiter.  `SqliteWorker`: the call in progress
is polled and the operating system runs the thread.  `PgConnection`: the call is polled
and the server reads its socket.  Listener: the server and the runtime make progress and
the application keeps receiving (strong, since a break disables it for a while).
Advisory locks: guards are dropped and connections returned, and the server's queue of
waiters is fair.  Stream: the consumer polls when it is woken, and what the future
waits for happens.  Calls, cancellations, breaks, leaks and `close()` are never forced.

*Deadlock* is checked for the pool.  A closed connection, a login that has ended and a
component whose bounds are used up stop: it is not checked for the others.  Where
everybody waiting on everybody would be an error it is a property of its own
(`NobodyStuck`, `LoginNotStuck`, `NeverStarves`, `CallReturns`, `WorkerAnswers`).

## Findings

Two runs end in a violation; each is a place where the code does not do what its
documentation says (`PROJECT.json` quotes it).

* PostgreSQL's `commit()` of a savepoint, cancelled after `RELEASE`, queues a
  `ROLLBACK TO` for a name that may now denote an older savepoint.
* `AnyArguments::convert_to()` gives a NULL of `f32` the type of a `f64` and the other
  way round, and the statement is cached with it.

The models contain further behaviour of this kind, at which a property is stated with
an exception or an assumption, so that it is visible where:

* Pool: `close()` floats idle connections, which hold no permit, and dropping each
  releases one, so it may return while a connection is still checked out (inner.rs:104);
  `release()` makes a connection available before it counts it, so `num_idle` may be
  negative (`NumIdleAccounting` says by how much); a connection may be pushed to the
  idle queue after `close()` drained it; `connect()` reads `is_closed` once; a
  close-event listener registered between the check and `mark_closed()` is never notified,
  and a `PgListener` with such a one is not woken by `Pool::close()` (inner.rs:117-121;
  `CloseEndsWait` excepts it).
* Child pools: each idle connection that `close()` drains releases a permit it never had, and
  the child's permits go to the parent when it is dropped.  `#[sqlx::test]` closes its pool at
  the end (testing/mod.rs:202), so the "single global semaphore" of testing/mod.rs:23 admits
  more connections with every such test; `LimitShared` says by how many.
* SQLite: `begin_with()` cancelled in `lock_handle()` leaves a transaction open, one
  given a statement that begins nothing leaves the depth raised, and `lock_handle()` may
  wait for room in the channel with the mutex in hand.
* PostgreSQL: `begin()` counts the transaction after its await, but the guard for a
  cancelled or failed `begin()` rolls back at the current depth: the enclosing
  transaction, or none (transaction.rs:34; hence `Discards`).  `copy_out` streams that
  are dropped leave their rest to the next call, whoever gets the connection from the pool,
  and ReadyForQuery is not counted (copy.rs:333, against copy.rs:52); the same goes for a
  call of `copy.rs` dropped while it waits, a refused `copy_out_raw()`, `abort()` of a COPY the
  server had ended and a `PgCopyIn` dropped on a connection that is used again
  (`UnreadCounted`: one answer each; the other promises end there).  A second `read_from()`
  on a `PgCopyIn` is not loaded as given (`tattered`).  A listener whose
  reconnect is interrupted in LISTEN loses its buffer (listener.rs:176; `cut`).
  `release_now()` that fails keeps the lock (advisory_lock.rs:341; `MaxStuck`).
* MySQL: cancelled `begin()`, `prepare` and `ping`, and a `fetch_many()` stream dropped when it
  has yielded the end of a result: its entry in `waiting` is stale, and the next call waits for
  a response that was read already (`Careful`; without `yield` in it TLC finds
  `ProtocolInSync` and `AnswersArrive` violated).  The two logins that refuse the right
  password (`RightPasswordAccepted`).  `do_handshake()` stops at `AUTH_OK` and would leave the OK
  packet behind it unread; but `scramble_sha256()` hashes the nonce before the password's hash
  and the server after it, so the server never answers `AUTH_OK` and always asks for the
  password itself (`LoginInSync` holds for that reason).
* Migrator: an early return keeps the lock on the connection, and the next `run()`
  takes it a second time (migrator.rs:157; `LockKeptByFailure`); the CLI takes none.
  `migrate add` of a reversible pair that fails between its two files leaves half of it
  (`AllOrNoneReversible` excepts that).
* Values: a text array element `"NULL"` (`ArrayReadsBack`), a text range whose start is
  quoted (`PlainRangeReadsBack`), a text record with characters beyond ASCII, whose bytes are
  read as one character each (record.rs:151; `RecordReadsBack`), a type name that is another one
  and one character more, as `json` and `jsonb`, which `name_eq()` takes for the same
  (type_info.rs:1305-1315; `DifferentTypesDiffer` and `SpellingsAgree` except them), a Julian day before 1970 (`JulianDayExact`), MySQL's collation
  written as a second charset (`MyUrlReadsBack`), `persistent()` of a `Map`
  (`PersistentKept`), the first row of several statements through Any
  (`FirstRowFetched`), files remembered by the macro server (`OfflineIsLive`), and a query file that cannot be removed
  or written, which stays old or empty.
* Negative TIMEs of MySQL: in text, one of less than an hour is read as positive
  (mysql_time.rs:576; `SignLost`); as `chrono::TimeDelta` or `time::Duration`, the fraction counts
  the other way (chrono.rs:129; `FractionTurned`); as `NaiveTime`, the sign is dropped
  (chrono.rs:114; `TimeOfDayRead`).  sqlx-mysql/src/types/mod.rs:23, 66, 70 and 94 promise the full
  range, or an error.  Each is excepted by name and nothing wrong is asserted.
* `to_url_lossy()`, of which sqlx-core/src/connection.rs:226-236 guarantees that parsing its URL
  gives the same address, user, password and database: PostgreSQL's panics when the host is a
  directory, SQLite's for a database in memory and for a file name with a colon; user names with
  `:`, `/` or `?`, names with `%` and databases that begin with `/` come back as something else; the path of
  a certificate comes back with `file: ` in front of it (net/tls/mod.rs:54) and an inline key as
  a path; a read-only SQLite database that may be created is no longer read-only.  The actions
  (`ThroughUrl`, `MyThroughUrl`, `LiteThroughUrl`) are enabled for all options, and
  `PgUrlReadsBack`, `MyUrlReadsBack` and `LiteUrlReadsBack` name these cases.  A `.pgpass` entry is
  looked up with the host even when a socket is set and the host is not used
  (options/mod.rs:175; `PasswordOfEndpoint`).

## Proofs

Every theorem holds for all values of the constants allowed by the named assumption of
its module; the bounds of the runs are constants like the others and are arbitrary here.

### The pool

`PoolProofs`, for any finite sets of tasks and closers, any `max_connections > 0` and
any `min_connections` (`ProcsAssumption`, `OptionsAssumption`), proves `TypeOK`,
`PoolAccounting` and `PoolBounds` (what `pool_reap` checks) with each of their parts,
`NoSpuriousRetry` and the refinement `ImplementsBudget` (what `pool_close` checks).

The argument is double-entry bookkeeping.  `Ledger(p)` says of one step of process
`p` that only `p` moves and that what the shared counters lose, `p`'s label gains:
`Gain(p, L)` is +1 when `p` enters the labels `L` and -1 when it leaves them.  One
lemma per action establishes `CoreType'` and `Ledger(p)`; `CountStep` says that the
number of processes at `L` changes by `Gain(p, L)`; together they carry the three
accounting equations (`LedgerIndInv`).  The invariant `IndInv` adds `ClosersReady`
(no closer has started while the pool is open): a closer floats connections it has
no permit for, so the equations for permits and `num_idle` hold only before
`close()`.  That `size` does not underflow is a consequence of `SizeAccounting`,
which is why the action lemmas assume only `size \in Int`.

`NoSpuriousRetry` needs more than the sums: `NoMinimum` (without `min_connections`
the reaper never dials on its own) and `IdleBacked` (every idle connection is backed by
a free permit or one about to be used).  `Entry(p)` lists the ways in
which a step may change the idle queue, the leaks and the process's own connection, and
is what makes each step a move of `ConnectionBudget` (`LedgerMove`, `BudgetImplemented`).

### The transactions of SQLite

`SqliteWorkerProofs` proves `TransactionsExact` and `OpenKeepsWrites` for any channel size,
any number and nesting of transactions, any subset of the calls, and any of them cancelled
at any await (`WorkerAssumption`), under `Settled`, which is what `sqlite_tx` runs under:
the dialect is SQLite's; `ROLLBACK` and `ROLLBACK TO` do not fail (`BEGIN`, `SAVEPOINT`,
`COMMIT` and `RELEASE` may); `begin_with()` is given a statement that begins a transaction;
and its second await, in `lock_handle()`, is not cancelled.  Each of these is needed
(without any one of them TLC finds `TransactionsExact` violated): a refused rollback leaves the
database in a transaction that the client has given up, a `begin_with()` that begins
nothing leaves `transaction_depth` at 1, and the cancelled await leaves an open transaction
with no `Transaction` value.

The difficulty is that client and thread are at different moments: a dropped or cancelled
`Transaction` is over for the client while its `StartRollback` is still behind other
commands.  `WorkerInv` says that there is a stack `W` of transactions as the thread sees
them, with the client's `handles` at the bottom and the ones given up above (`Tower`), and
heights `lev` along the channel: each `StartRollback` takes one off, every other command
belongs to the transaction on top at its place, and after the last one `handles` is left
(`Pipe`).  `DepthFits` relates `transaction_depth` to the height, with the one it may be off
by while an answer is held or `ignore_next_start_rollback` is set; `JobFits` says that the
flag is set only when the next command is the rollback it is for.  `Books` relates the data:
the frames of the session have every level (`FramesFit`), and for the data, the durable data
and the snapshot of each level, `OnlyFrom` says that only transactions which are open at
that level, or over, have writes there, and `Keeps` that no acknowledged write is missing.
An action of the client moves `handles` and the last height, one of the thread takes a
command off `chan` and the first height; each is a lemma per action, and `BooksBegin`,
`BooksWrite`, `BooksEnded` and their likes are what a statement does to the books.  When the
thread has ended `Ceased` takes the place of the stack.  The levels
are functions, so the only induction is that a set of numbers has a least element
(`LeastNumber`).

### The PostgreSQL protocol

`PgConnectionProofs` proves `ProtocolInSync`, `AnswerIsOwn` and `NoProtocolError` for any
statements, cache capacity, subset of calls, refusals and cancellations (`PgAssumption`).
`PgInv` says of a connection that is in use: `PendingExact` (one `ReadyForQuery` for every
unit sent or buffered, and for every one among the replies); `LastIsReady` (the replies
end in one, with the session's status); `CacheExact` (cached statements are prepared, and
no unit in flight prepares or closes one of them); `Alone` (a call that is past
`wait_until_ready` has its own unit as the only one in flight, or what is left of the
answer, in the shape its stage expects); `CallExact` (what a call knows of itself).
`Alone` is the heart: the properties speak of the head of the replies, but what keeps
them true is the shape of all of them.  What a server answers is a concatenation of
sequences, so counting `ReadyForQuery` in `\o`, `Append` and `Tail` takes lemmas of its own.

### The MySQL protocol

`MySqlConnectionProofs` proves `ProtocolInSync` and `AnswersArrive` for any statements, cache
capacity, subset of calls, refusals and cancellations (`MySqlAssumption`), under `Aware`, which
is what `mysql` runs under: the server has `DEPRECATE_EOF`, and the application drops a
connection on which it has cancelled a `COM_STMT_PREPARE` or a `COM_PING`, or dropped a stream
that had yielded the end of a result.  Each of these is
needed (without any one of them TLC finds `AnswersArrive` violated): an older server closes the
column definitions with an EOF, and when a call is cancelled just before it, the next
`wait_until_ready()` takes it for the end of the rows; the answers to a prepare and a ping are
not in `waiting`, so nobody drains those that a cancelled call leaves; and at that yield
`waiting` still has an entry for the response that was read.  A stream that is polled again
is covered: `Yielded`, a part of `Side`, says of a call at the yield what follows in the replies,
another result of its own response or nothing.

Nothing in the packets says where a response begins, so the invariant has to say it of all
that is unread.  `MyInv` has four parts.  `Stream`: `waiting` has one entry for every packet that
ends a response and for every command that will get one, `Parses` says which packet may come
after which (a local rule, so that reading a packet and receiving a response keep it), and
`FrontFits` that the first entry tells where in its response the next packet is.  `Own`: a
call that reads a result has the only response in flight, all of it its own, and is at the packet
its stage expects.  `Side`: during a prepare, a ping, or the `COM_STMT_CLOSE` of an evicted
statement, which `waiting` does not count, that command or its answer is alone in flight.
`CacheExact`: the statements of the cache are prepared under their ids, and no
`COM_STMT_CLOSE` in flight closes one of them, or one that is prepared later.  `StreamOf` and
`CacheOf` take the queues as parameters: a lemma says what sending, serving, reading and
abandoning do to them, and a step of the specification is a few of those.  That a result,
`Others` or `Tail` changes a count by so much is again a matter of cardinalities
(`ShiftedCardinality`, `ConcatPositions`).

### The listener

`PgListenerProofs` proves `NotificationsExact` and the action property `LossReported` for any
set of channels and any bounds, with no assumption: `cut`, which both mention, is part of the
history, and says that a reconnect failed or was dropped.

A notification may be in three places, and the application must not see which.  `Ordered`
says that what was returned, what is buffered and what is on the wire are one increasing
sequence, answers of abandoned queries apart (`Chain`); `BufferFirst`, that `try_recv()` waits on
the connection only with an empty buffer, is why reading from the wire keeps it.  `SenderKept`
says where the sender of the buffer is: in the connection, in the one being prepared, or in
`buffer_tx`; without it a query on a new connection would fail on a notification.  `Places`
relates the stage of a call to the connections there are, `Quiet` says that a connection from the pool
listens to nothing until a reconnect is cut off, and `Asked` that the channels of the call in
progress are `unsure` or known to the connection already, which is what lets the call settle
them when it returns.  One lemma per action proves `ListenerInv'`; `ChainTake`, `ChainRead`, `ChainBuffer`,
`ChainSend` and `ChainCut` say what the actions do to the sequence.  `Real`, the notifications on a
wire, is a recursive function; that it drops exactly the answers and keeps the order
(`RealFacts`) is proved by a least counterexample (`LeastNumber`, `SiftsPick`).

For `LossReported` the invariant `LossKept` adds that with a working connection nothing missed
is unreported, that an unreported loss is later than everything that may be returned before
the report, and `Reconnects`: an eager listener is without a connection only inside the
`try_recv()` that lost it, or for good when the pool is closed.

### The advisory lock

`PgAdvisoryLockProofs` proves `AdvisoryLocksExact` for any set of sessions.  `LockInv` is
`LocksAccounted` (what a session holds is its guards, leaks, refused and queued unlocks),
`OneHolder` also for locks that no guard is left of, and `PooledAtRest`.

### The migrator

`MigratorProofs` proves `MigrationsExact` and its parts (`TypeOK`, `NeverTwice`,
`Bookkeeping`, `InOrder`, `RunComplete`, `LockKeptByFailure`, `DirtyBlocks`) for any number
of processes, versions, directories, crashes and operations (`MigratorAssumption`).
`MigInv` has two layers.  `RowLocked`, `RowBounds` and `Shape` need no migration lock: the row
that a transaction has written is locked, and script and row are committed together.
`OneAtATime` holds as long as no command without the lock ran beside another: then at
most one process is inside (`LockHeld`, `Together`, `LockCount`), rows are true
(`RowsTrue`), versions are in order, and `Knows(p)` says what the process has read and
done, from its place in the loop.

### The buffered socket

`BufferedSocketProofs` proves `TransportFaithful` for any sizes of values, initial
capacity and sequence of frames (`SizesAssumption`, `FramesAssumption`).  `WriteInv` says
which bytes lie between the cursors; `NeverEmptied`, that `shrink()` keeps capacity, is what
stops a later write from finding an empty vector.  `ReadInv` says that what was read and what
is to come are the bytes of the frames not split off yet, `LastBytes`, a recursive
function; its unfolding is proved by induction over a set of numbers (`SetInduction`).

### Only model-checked

Liveness (`NeverStarves`, `CallReturns`, ...) and every property that mentions `ENABLED`,
which the prover does not handle.  What recursive definitions compute for every input (type
expansion in `PgDescribe`, digits, characters, packets): the library's induction takes an
operator as a parameter; where a least counterexample does instead (`Real`, `LastBytes`,
the levels of `SqliteWorker`) it is proved.  `PermitsAccounted` of `ChildPool`, a sum over
a set.  The transactions of the PostgreSQL and MySQL connections, COPY, the logins, the
harness and the statements of SQLite: within reach, not proved yet.

## Plan

1. Done: the pool with its refinement; the transactions of SQLite; the protocols of
   PostgreSQL and MySQL; the listener; the advisory lock; the migrator; the buffered
   socket.
2. `CopyInSync` along the lines of `PgInv`; `DatabasesReady`.
3. An abstract specification of a transactional session, refined by the three
   connections, so that the durability properties are stated once.

## Not modelled

* The pool's options and the `Executor`/`Acquire` implementations for `Pool`: builder
  setters and delegation to `acquire()`.
* PostgreSQL's guess of nullability from a query plan (`get_nullable_for_columns`,
  `nullables_from_explain`, `visit_plan`), which reads what the server prints.
* TLS, hashes and RSA; sockets and runtimes; the FFI to libsqlite3; types whose encoding
  copies their bytes; JSON, logging and errors' texts.
* The code the macros generate and the type checks in it; argument parsing of the CLI.
* In the modelled parts: `connect()`'s backoff and all durations (a timeout is a
  cancellation), transactions SQLite rolls back on its own (the driver does not count
  them), a command channel of size 0, PostgreSQL's notices, MySQL packets of 16 MB and
  more and cancellation inside a packet, the MySQL test harness, file names with dot
  segments in SQLite's URLs, the parsing of
  migration file names.
