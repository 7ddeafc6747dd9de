# A TLA+ verification project for DBX

DBX is a database client.  A Rust core (`crates/dbx-core`) holds the logic; a
desktop shell (`src-tauri`) and a web backend (`crates/dbx-web`) expose it as
commands and routes; a Vue front end (`apps/desktop`) calls them; JDBC and
native agents (`agents/`) are separate processes for databases without a Rust
driver.  This directory models the part of the core that is hard to test: what
its tokio tasks do to shared state between two awaits.

Paths below are relative to the repository root.

## Inventory

### How the parts interact

Every command receives a shared `AppState` (`connection.rs`).  It holds a dozen
maps, each behind a lock of its own: configurations, pools, keepalive tasks,
cancel contexts, connection attempts, transaction sessions, running queries,
agent runtimes, tunnels.  A command takes one lock, looks or updates, lets go,
does database I/O, and takes the next lock.  Nothing spans two maps, so every
pair of steps is a place where another task can come in between.  Background
tasks (keepalive loops, idle watchers, kill tasks, process readers, grace
timers) touch the same maps without being asked.

### Components

| Component | State | Operations | What is hard | What makes it correct | Module |
|---|---|---|---|---|---|
| Manual transaction sessions (`query.rs`) | map of sessions; a connection mutex, a busy flag and a last-activity time each | begin, execute, commit, roll back, expire | calls race on one session and with idle watchers; failures in the middle of a script; a lost connection | one task ends a session; one execute at a time; a connection goes back outside a transaction; a session reported as rolled back leaves nothing behind; no session is forgotten | `ManualTransaction` |
| DuckDB worker (`db/duckdb_worker_process.rs`, `_runtime.rs`, `_protocol.rs`) | current child, generation, connected flag, pending map, two locks, process permits; the child's session and running query | execute, metadata requests, shutdown, kill, cancel | crash and restart, late responses, dropped futures, detached kills | nobody waits for an answer that cannot come; permits cover live processes; one query per worker; poisoned connections are not reused | `DuckDbWorker` |
| Connection pools and attempts (`connection.rs`, the connect and disconnect commands) | attempt numbers, pool map, keepalive handles, cancel contexts | connect, disconnect, get or create, reconnect, health check, refresh, drain, keepalive | check-then-act over several locks; stale verdicts; lost handles | a pool has one owner; a drain drains; an attempt is stopped for a cause; keepalive tasks end | `ConnectionPools` |
| Running query registry (`query_cancel.rs`) and query execution (`query.rs`) | execution id to token and interrupt; the position in a script, the attempt, the connection in hand | register, cancel, drop; execute a script statement by statement, as a batch or in a transaction; reconnect and retry, discard a pool | a lost answer says nothing about what the server did; a cancellation between a failure and its retry; other tabs on the same key | a write runs once; results are those of their statements; a transaction is all or nothing; a cancelled query gives up instead of replaying | `QueryExecution` |
| Agent drivers (`db/agent_driver.rs`, `agent_runtime.rs`) | registry of shared runtimes; pending map, failed flag, session count, reader thread of each | look up or start a runtime, open and close a session, call, cancel, drop, stop | reader failing against a new call; late answers; grace timer against a new session | a call gets the answer to its own request or an error; sessions are counted exactly; an idle runtime ends | `AgentRuntime`, abstract `RequestChannel` |
| Data transfer (`transfer.rs` and its commands and routes) | order of the tables, progress per table, cancel set | sort, create, clear, copy pages, PostgreSQL schema phases, cancel | a refused or lost statement in the middle of a page; a cancelled copy; foreign keys in a circle | parents first; what is reported as done is complete; no row twice; one table's failure stays its own | `TableOrder`, `Transfer` |
| Transport layers (`db/transport_layer_tunnel.rs`, `ssh_tunnel.rs`, `proxy_tunnel.rs`, `http_tunnel.rs`) | local port per layer | build the chain, reuse, stop | a reset under a newer attempt | a chain is stopped once, from the outside in | not modelled; its effect on pools is in `ConnectionPools` |
| Import (`table_import.rs`, `sql_file_import.rs`), export (`*_export.rs`) | progress, cancel set | run, cancel | replays after a lost connection | a statement runs once | not modelled, see Observations |
| Cloud sync | two versions of the settings | push, pull, merge | conflicting edits | merge loses nothing | not modelled |
| Storage and secrets, AI assistant, SQL generation and classification, plugins, message queue and Nacos adapters, MCP bridge, web login, native drivers, the user interface, the agents | | | | | not modelled, see below |

`PROJECT.json` lists every component with its sources and every hazard with its
line and the property that watches it.

## Plan

Done: `ManualTransaction`, `DuckDbWorker`, `ConnectionPools`, `RequestChannel` and
`AgentRuntime`, which implements it, `TableOrder` and `Transfer`, which composes
it, and `QueryExecution`, which composes the registry of running queries with the
execution paths and their retries; and for each the proofs of the safety
properties its runs check (see Proofs).

Left, in this order:

1. `DuckDbWorker` as a second implementation of `RequestChannel`: its calls are
   answered out of `outbox` as those of `AgentRuntime` are out of `out`, and `IdInv`
   already keeps the answers of two requests apart.
2. What the fault "stdout" leaves true: `CountIsSessions` and the refinement of
   `AgentRuntime` are proved with it; for `DuckDbWorker` only `TypeOK` is.
3. Properties for the hazards that `PROJECT.json` lists without one, the superseded
   attempt that resets the transport of a newer one first.

The number of runs is kept small: one per question, and where one instance can
answer two questions it does.

## ManualTransaction

Models `crates/dbx-core/src/query.rs` from `begin_manual_transaction` to
`rollback_manual_transaction`, and `spawn_txn_idle_watcher`.

| Model | Code |
|---|---|
| `live`, `busy`, `idle` | `AppState.transaction_sessions` and its `busy` and `last_activity` (as time since) |
| `holder` | the `tokio::sync::Mutex` around a session's connection |
| `txn`, `pend`, `durable`, `auto` | the server's side: transaction state, statements not yet committed, committed, and run outside a transaction |
| `pc`, `step`, `timer`, `reply` | where a call or watcher stands, the next statement, a watcher's sleep, the answer |
| `ExecLookup`, `ExecMark`, `ExecClone`, `ExecLock`, `ExecStatementOk`, `ExecStatementErr`, `ExecFail`, `ExecRelease`, `ExecFinish` | `execute_in_manual_transaction`, one action per stretch between two awaits |
| `CommitTake`, `CommitLock`, `CommitFinish`, `RollbackTake`, `LockForRollback`, `FinishRollback` | commit, roll back, and the rollback every other path shares |
| `WatcherWake`, `Tick` | the idle watcher and time |
| `postgres` | the sessions on PostgreSQL; the others are on MySQL |
| `ConnectionLost`, `DisconnectDb` | the network, and the command that empties the pool map under a session |

The server is external: PostgreSQL aborts a transaction at the first error,
MySQL undoes the statement or, on a deadlock, the transaction; a lost connection
answers everything with an error.

Abstractions: a statement is a pair of a call and a position; `BEGIN` or
`COMMIT` inside a user's script is left out; each session has a connection of
its own, as it has in the code; the fair queue of the tokio mutex is
over-approximated by any waiter getting it.

Properties.  `SingleOwner`: a session in the map has no task ending it, a
removed one at most one.  `OneExecutor`: the busy flag admits one execute call,
also after the session was removed under it.  `IdleIsWatched`: every idle session
has a sleeping watcher that will find it expired.  `ReturnedClean`: a connection
nobody holds any more has no transaction.  `CommitKeepsStatements`: a commit that
answered ok kept what execute calls answered ok for, if none failed.
`RolledBackIsGone`: once the program has said that a session was rolled back (a
rollback call answered success, an execute call answered that the session had
expired), nothing the session ran inside its transaction is durable or becomes so,
whatever commit, execute or watcher raced it.  A failed execute says so too
("Transaction was auto-rolled back"); there the property excepts sessions that a
commit call had taken before (`CommitTook`), since that commit keeps the
statements before the failed one (see Observations).  `EventuallyEnded`: an opened
session is ended, whatever the user does.

Run (module `MCManualTransaction`): `manual_txn`, one session on either server;
execute calls of two statements and of one; one commit, one rollback; timeout of
one tick.  All properties (173,082 states).  Sessions share only the map, so one
session with every kind of task on it shows the interleavings; two non-empty
scripts are what `busy` is for, and the first needs two statements so that a
failure has something before it.  An execute call with an empty script is in the
proofs, which are for scripts of any length, but not in the run.

Fairness: each task that has started is polled, its statements return, time
passes.  No user call and no lost connection is assumed.

## DuckDbWorker

Models `DuckDbWorkerClient` (`crates/dbx-core/src/db/duckdb_worker_process.rs`)
and the child's loop (`duckdb_worker_runtime.rs`), for one client.

| Model | Code |
|---|---|
| `child`, `connected`, `generation` | `WorkerProcessState`, behind one mutex |
| `connectLock`, `queryLock` | `connect_lock`, `query_lock` |
| `pend` | the pending map, as the generation of a call's entry |
| `reader`, `others` | one reader task per generation, with the permit it holds; permits other clients hold of the same limiter |
| `later`, `NewLimiter`, `LaterStart`, `LaterEnd` | `duckdb_worker_process_limiter`: the limiters made since, after the configured limit changed, and the workers of the clients that were given them |
| `alive`, `session`, `active`, `inbox`, `outbox` | the child processes, their stdin and stdout |
| `EnsureLock` to `EnsureSet` | `ensure_connected` with its file-lock retries |
| `SendRequest`, `WriteFails`, `CallReply`, `RequestTimeout` | `send_request_structured` |
| `GiveUp` | the future dropped by a timeout or by the `select!` on the cancel token |
| `UserCancel`, `Killer` | `register_interrupt`: the detached kill task |
| `KillTake`, `KillFinish` | `kill` |
| `ReaderDeliver`, `ReaderEnd` | `spawn_stdout_reader` |
| `WorkerSession`, `WorkerExecute`, `WorkerFinish`, `WorkerShutdown`, `WorkerDies` | the child |

Abstractions: a request id is the call and a count; SQL, rows and messages are
left out, a reply is one of ok, error, lock conflict, poisoned, not connected,
busy, gone; the state lock is held across the wait for a permit, so the wait and
the spawn are one step with a failure outcome; the protocol's `Cancel` method,
which the client never sends, is left out.  A client keeps the limiter it was made
with; a client made under another limit gets a new one if no permit of the
current one is held at that moment (lines 527-529), and what its workers do
appears as the permits they take and give back.

Properties.  `NoOrphanRequest`: a call that waits has a pending entry and a
reader that will resolve it.  `WorkersWithinLimit`: the live workers of the
clients of one limiter, dying ones included, never exceed its permits, also after
it was replaced; and if all clients are made under one limit there is only one
limiter, so that it holds of all workers.  `OneQueryPerWorker`: the current worker never
has two queries.  `PoisonedIsKilled`: a poisoned worker is current only while
`query_lock` is held.  `CallsReturn`: every call returns.

Runs (module `MCDuckDbWorker`):

- `duckdb_calls`: two queries with cancellation and crashes, and a query beside a
  metadata request, which does not take `query_lock`, with crashes and either
  timeouts or one file-lock retry; two generations, one permit.  One permit makes
  dying and new workers compete; two generations are the least with a late
  response and a restarted worker.  A further scenario has clients of two different
  limits, and so a replaced limiter, beside a metadata request.  The queries are alike,
  which the run uses as a symmetry (1,124,595 states).  The safety properties.
- `duckdb_shutdown`: a query and a shutdown with crashes and timeouts, a metadata
  request and a shutdown with file-lock retries too, under fair scheduling: `CallsReturn`
  (95,117 states).

A scenario (`Scenarios`) says which calls are made, which faults happen and which
limits other clients are made under.

`MaxGen` bounds the children (a 64-bit counter in the code); when it is reached,
a start fails, which the code can do for other reasons.  `MaxLimiters` bounds the
limiters made after the first: two are the least in which a replaced limiter that
is not the first is still in use.

Fairness: tasks are polled, the reader reads, a child answers what it reads (a
query that never ends is the database's, and the user's to cancel) and a killed
process ends.  Crashes, timeouts, users and other clients are not assumed.

## ConnectionPools

Models the pool side of `AppState` (`crates/dbx-core/src/connection.rs`) and
`connect_db` and `disconnect_db` (`src-tauri/src/commands/connection.rs`,
`crates/dbx-web/src/routes/connection.rs`), for one connection with one or more
pool keys.

| Model | Code |
|---|---|
| `setup` | the calls made, whether the connection goes through a tunnel, whether it asks for keepalive |
| `attempt`, `client`, `num` | `ConnectionAttemptState` and the number an attempt got |
| `conns`, `keepers`, `contexts`, `configured` | `connections`, `keepalive_tasks`, `postgres_cancel_contexts`, `configs` |
| `pool`, `broken` | what became of a pool; pools whose tunnels were stopped |
| `hand` | pools taken out of the map and not closed yet, or opened and not inserted yet |
| `ConnectBegin`, `DisconnectBegin`, `Check` | begin, supersede and check an attempt |
| `List`, `Stop`, `DropContext`, `Remove`, `Close`, `BackgroundClose`, `ResetTransport` | `drain_connection_pools`, `remove_pool_by_key`, `close_removed_pools_in_background`, `reset_connection_transport` |
| `Lookup`, `Examine`, `Ping`, `PingSkipped` | `get_or_create_pool_for_session`, `remove_stale_connection_pool`, `check_connection_health`, `refresh_connections` |
| `Endpoint`, `DesktopOpen`, `Open`, `InsertContext`, `InsertStop`, `InsertStart`, `InsertPut`, `InsertClose` | opening a pool and `insert_connection_pool` |
| `KeeperPing` to `KeeperEnd` | `start_keepalive_task` |

Abstractions: how each database type opens its pool is one step that succeeds or
fails; a pool is named after the call that opens it; a ping of a closed pool
fails for the kinds that refuse work once closed (`Refusing`: MySQL, PostgreSQL,
agents); tunnels appear only as the pools that break with them; `is_pool_active`
is a choice to skip the check; an aborted task ends at its next suspended await;
`pool_activity` is written, but only tests read it.

Properties.  `OneOwner`: an open pool is under one key of the map or in the hands
of one task, and a closed one is nowhere, so no pool is leaked, closed twice or
used after it was closed.  `DrainedStayOut`: what a drain found is out of the map
once it has removed its keys.  `SupersededHasCause`: a cancellation of an older
attempt does not stop a newer one.  `KeepaliveEnds`: from some point
on no closed pool has a keepalive task at work, also when its handle was lost.

Runs (module `MCConnectionPools`):

- `pools_calls`: all properties from two starts (645,554 states).  One has a web
  connect, a desktop connect and a disconnect that names the first, with keepalive
  tasks: two attempts and one cancellation are the least in which an old
  cancellation meets a new attempt.  The other has a web connect, a reconnect of a
  database's pool, a health check, a removal and a refresh, through tunnels and
  without keepalive.  Both have two keys, which is what tells draining a
  connection from removing one key, and a server that drops connections.
- `pools_stale_insert` (violation): the attempt is checked under one lock and
  inserted under others; an attempt superseded in between closes and replaces
  the pool of the newer one.

Fairness: background closes run, keepalive timers fire and a ping of a pool that
is gone fails.  Connects, health checks and pings of healthy pools are not
assumed to go on.

## AgentRuntime and RequestChannel

`AgentRuntime` models the agent process that connections of one driver share:
`AgentRuntimeClient` and the shared half of `AgentDriverClient`
(`crates/dbx-core/src/db/agent_driver.rs`), and `spawn_shared_connection_client`
and `stop_daemons` (`agent_runtime.rs`).

| Model | Code |
|---|---|
| `registry`, `cell` | `connection_runtimes` and the `OnceCell` of each entry |
| `failed`, `count`, `pending`, `reader` | the fields of `AgentRuntimeClient` and its reader thread |
| `grace`, `doomed` | grace tasks asleep, and those that saw no session and are about to kill |
| `alive`, `killed`, `sent`, `out` | the process, its requests not answered yet and its answers not read yet |
| `pc`, `method`, `outer`, `got`, `session` | a client: where its call stands, the call a `CancelSession` interrupts, the answer, its session id |
| `Lookup`, `BeginInit`, `SpawnReady`, `SpawnFails`, `OpenSession` | `spawn_shared_connection_client` and `spawn` |
| `CallCheck`, `CallWrite`, `WriteFails`, `CallReply`, `CallTimeout`, `Cancel` | `call`, `cancel_session_request` |
| `ReaderDeliver`, `ReaderEnd` | `start_response_reader` |
| `DecrementSessionCount`, `GraceCheck`, `GraceKill` | `decrement_session_count` and its task |
| `Drop`, `StopDaemons` | `Drop`, `stop_daemons` |
| `AgentAnswers`, `AgentEnds` | the process, external |

Abstractions: a request id is the client and a count; methods are open, query,
validate, close and cancel, and their parameters are left out; the number of a
runtime that is gone and in nobody's hands is used again.  `CallWrite` puts the
entry into `pending` and writes the line in one step: a kill in between finds the
entry, and one before is seen by the reader, which drains `pending` when its
stream ends.  `carried` and `last` are history variables for the refinement.

`RequestChannel` is the promise: a caller is answered only after the very
request it asked has been carried out; otherwise it gets an error, which says
nothing about what was carried out.  `Channel` instantiates it with a client that
waits as a request that is asked or, once in `carried`, carried out, and
`ImplementsChannel` says that every behaviour of `AgentRuntime` is one of
`RequestChannel`.

Properties.  `NoOrphanCall`: a call that waits has an entry and a reader that
will resolve it, though the failed flag is checked before the entry is made.
`CountIsSessions`: the session count is the number of clients with a session.
`AbandonedEntriesLeave`: the entry of a call that gave up stays only while an
answer or the end of the stream is still to come.  `CallsReturn`: every call
returns.  `IdleRuntimeEnds`: a runtime that lost its last session ends, unless a
new one comes.  `ImplementsChannel`.

Runs (module `MCAgentRuntime`): two clients; the first makes up to three calls
(open, then a query, a validation or a close, cancelled or not), the second
opens a session: the least in which the end of one client's session meets the
opening of another's, and a late answer meets a newer call.  One runtime at a
time; a failed one is replaced by a new one.

- `agent_calls`: all properties, with crashes, timeouts and cancellations (58,672
  states).
- `agent_keepalive` (violation): "dropping one tab must not kill other tabs"
  (`agent_driver.rs:1813`), but a failed keepalive of one connection kills the
  process with the sessions of all others, and the grace task of a dropped
  client kills it under a client whose OpenSession is under way.

Fairness: tasks are polled, sleeping ones wake up, the reader reads, an agent
answers what it was sent, and ends when it is killed or its stdin is closed.  Nothing
is assumed of users, timeouts, crashes and cancellations.

## TableOrder and Transfer

`TableOrder` models `sort_tables_by_fk_dependency`
(`crates/dbx-core/src/transfer.rs`): in-degrees by foreign key, a queue that starts
in any order (that of a hash map), tables left on cycles appended in the order
given.  `Transfer` extends it with `start_transfer` of the desktop and web back
ends, `transfer_table`, `transfer_mongodb_table` and the PostgreSQL schema
phases.

| Model | Code |
|---|---|
| `stage`, `index`, `steps` | where `start_transfer` stands |
| `page`, `rowCount`, `offset`, `prepared`, `preexisting`, `effective` | the locals of `transfer_table` |
| `pools` | which of the two pools the task names by key are in the map |
| `exists`, `old`, `copies` | the target: its tables, the rows from before, the rows copied |
| `cancelled`, `failed`, `reported`, `status` | `CANCELLED`, `failed_tables`, the events |
| `SortTables`, `StartTables`, `DependencyStep`, `NextIndex`, `ObjectStep`, `SchemaDone` | `start_transfer` |
| `Resolve`, `ReadColumns`, `CountRows`, `CreateTable`, `ClearTable`, `ChooseMode`, `ReadPage`, `WriteRows`, `FinishTable` | `transfer_table` and `transfer_mongodb_table`, one action per statement |
| `Accepted`, `Refused`, `LostConnection`, `NoReplay` | `execute_on_pool_with_options`: what a statement can come to |
| `Cancel` | `cancel_transfer` |

Abstractions: a row is its key; a write statement inserts `Chunk` rows of a page; a
statement whose connection is lost was done or not done; the text of DDL, type
mapping and value conversion are left out; the source does not change.  A page is
read without a row limit of its own, so the SQL drivers cut it at `MAX_ROWS`
(10,000 in the code, `RowCap` here: `PageLimit`), while the loop takes any page
shorter than `Batch` for the last; a MongoDB cursor has no such cap.

Properties.  `AcyclicParentsFirst`: every table is placed once, and one with no
cycle above it after its parents.  `DoneIsComplete`: a table reported as done
holds every source row once and of the old rows those the mode keeps, and a
transfer is done only with all its tables.  This is so as long as a batch is no
larger than the drivers' cap, as the dialog's field asks but the core does not
enforce.  `NeverTwice`: no row is ever in the
target twice, also in a table that failed.  `CancelStopsInBatch`: after a
cancellation at most the page in hand is written.  `FailureIsLocal`: a table
fails through a statement of its own, or because the source is gone.  That is the
rule of the code, whose loop goes on after a failed table; the user guide says
the opposite, which `FailureStopsTransfer` states and the code violates.
`TransferEnds`.

Runs (module `MCTransfer`): three tables of 0, 3 and 2 rows with statements of 1
row.

- `transfer_copy`: all properties, with pages of 2 rows: tables that are empty, odd
  and a multiple of the page, and a page of several statements.  It sorts under every graph of foreign keys on
  three tables, both ways round and with doubled keys, and copies along one of
  them in every mode, between SQL, PostgreSQL and MongoDB, into empty and filled
  targets, with and without keys, with refused and lost statements and a
  cancellation at any step (365,297 states).
- `transfer_stops` (violation): "If a table fails, the current transfer stops and
  shows the error." (`docs/content/docs/data-transfer.mdx:61`).  `start_transfer` notes
  the failure and goes on with the next table
  (`src-tauri/src/commands/transfer.rs:187`), and so does the web route.
- `transfer_row_cap` (violation): `DoneIsComplete` with a batch larger than the cap.
  The first page of a table is cut, is shorter than the batch and so ends the
  loop (`transfer.rs:4323`): the table is reported as done with rows missing.  The
  dialog limits its field to 10,000; `transfer_table` takes any number
  (`transfer.rs:4244`).

Fairness: the task goes on; statements return.

## QueryExecution

Models `execute_multi`, `execute_sql_statement`, `do_execute` and
`execute_statements_in_transaction` (`crates/dbx-core/src/query.rs`) for MySQL,
PostgreSQL and SQL Server, with the registry of running queries
(`query_cancel.rs`).

| Model | Code |
|---|---|
| `pool`, `opened` | the pool under the one key all queries use |
| `registered`, `token` | `RunningQueries` and the cancelled tokens |
| `pc`, `path`, `stmt`, `attempt`, `held`, `conn` | a query: its path (statement by statement, MySQL batch, transaction), position, retry, pool and connection |
| `results`, `about` | what it reports, and the statement each result is about (0 for an error in place of the answer) |
| `executed`, `churn`, `used` | history: how often a write ran, what a cancelled query did to the pool, which connections a transaction used |
| `depth`, `pending`, `committed`, `dead` | the server and the sockets, external |
| `Register`, `Cancel`, `Finish` | `register_task`, `cancel`, removal on drop |
| `GetOrCreatePool`, `OpenFails`, `Route`, `NextStatement`, `Attach`, `Checkout`, `CheckoutFails`, `CheckoutCanceled`, `Send` | the way of a statement to a connection |
| `Answered`, `After`, `Discards`, `Retries`, `RemovesPool` | what follows an outcome: `pool_error_action`, `query_pool_error_action`, the retry loop |
| `Disconnect` | the server notices a lost connection and rolls back |

The pool of MySQL and PostgreSQL is a set of connections, one of which is checked
out for a statement, a batch or a transaction; that of SQL Server is one
connection under a mutex that is taken per statement.

Abstractions: a statement is a read or a write; an outcome is ok, refused, lost,
timed out or cancelled, the last three with the effect done or not done; SQL
Server's transactions nest; splitting of scripts and truncation of results are
left out.  A GO batch of a SQL Server script may bring several result sets, at most
`MaxSets` here, all about that batch; what of a failed batch its server had done
before the error is one choice, all or nothing.  `RESET search_path`, which the
PostgreSQL driver sends before it gives a connection back, is left out: it
concerns neither results nor transactions.

Properties.  `WriteOnce`: a write is executed at most once.  `ResultsTrue`: the
results are about the statements from the first on, in their order and with none
left out, one each, except that a SQL Server batch may have several; and a write
reported as done is durable.
`TxAtomic`: a transaction on a connection of its own is all or nothing.
`CancelGivesUp`: a cancelled query may still get the pool it was looking up and
remove the one its statement failed on, but it does not reconnect after that or
take another pool away, which is what replaying after a cancellation would do
(`!is_canceled` at `query.rs:1644`).  `EveryQueryEnds`.

Runs (module `MCQueryExecution`): two queries of two statements on one key, in
five combinations of paths and databases, two pools one after the other, one
connection per pool, so that the two compete for it.

- `query_execution`: all properties, with all faults and cancellation (465,111
  states).
- `query_shared_transaction` (violation): the comment at `query.rs:2420` says each
  transaction runs on a single, dedicated connection; on SQL Server statements of
  another tab run inside it.

`MaxPools` bounds the pools opened under the key; when it is reached an open
fails, which it can for other reasons.  `MaxSets` is 2: one set and several.

Fairness: every query's task is polled and its statement answered or given up.

Deadlock is checked for `ManualTransaction`, where time always passes, and for
`QueryExecution`, whose only final state is the one in which all queries have
ended; not for the other modules: when all calls of an instance have returned
there is nothing left to do.

## Proofs

`ManualTransactionProofs` proves, for every set of sessions, calls and scripts
and every timeout, from `SessionAssumption`, `TaskAssumption` and
`TargetAssumption` (calls of different kinds are different, a watcher watches
the session it was spawned for, the timeout is positive):

- `TypeCorrect`: `TypeOK` always holds.
- `Invariance`: the inductive invariant `IInv` always holds.
- `OwnershipIsUnique`, `ExecutorIsUnique`, `NoIdleSessionForgotten`,
  `ConnectionsReturnClean`, `RolledBackStaysGone`, `CommitsKeepStatements`:
  `SingleOwner`, `OneExecutor`, `IdleIsWatched`, `ReturnedClean`, `RolledBackIsGone`
  and `CommitKeepsStatements`.

None of these invariants is inductive alone.  `IInv` is the conjunction of
`TypeOK`, `IdleIsWatched` and

- `LabelInv`: which labels each kind of task can be at;
- `MutexInv`: a task holds a session's connection exactly while it runs
  statements or ends the transaction, so a rollback is never followed by a
  statement of another task inside the transaction;
- `OpenedInv`: no task is about a session before begin returned its id, and a
  watcher is spawned once;
- `OwnerInv` and `ExecInv`: `SingleOwner` and `OneExecutor` in a pointwise form,
  with the busy flag tied to the calls at work;
- `CleanInv`: uncommitted statements exist only in an open transaction, and a
  session out of the map has an owner or is out of its transaction.

`RolledBackIsGone` needs three more parts on top of `IInv`: `ReplyInv` (what a call
at a label can have answered), `PendInv` (what is pending on a connection belongs to
its session, and what ran inside a transaction is durable only after a commit call
that reached the server) and `TakenInv` (a session taken to be committed or rolled
back never returns to the map, so a commit and a rollback never both take it).
`NextCases` splits a step into the actions,
and each proof that a step preserves a part has one step per action.

`CommitKeepsStatements` needs a second layer, about the scripts.  `KeptInv`: a
statement that an execute call has passed, in a session that can still be
committed, is pending or durable, unless an execute call of the session failed or
is about to say so, or the connection is lost.  `CommittedInv`: once a commit
answered ok it is durable, or a failure was reported.  Both are shown from two
formulas that summarise all actions, `ReplyStep` (what a step does to answers)
and `DataStep` (what it does to statements), so that the actions are taken apart
twice and not once per invariant.

### ConnectionPoolsProofs

For any keys, pools, attempts, disconnects and other calls, from
`ConstantAssumption` (the kinds of calls are pairwise apart: the proof asked for
it, the code has it by construction).  `TypeCorrect`, `PoolsHaveOneOwner`
(`OneOwner`), `SupersededForACause` (`SupersededHasCause`), `DrainsAreFinal`
(`DrainedStayOut`).  The inductive invariant has three parts on top of the types:

- `PoolInv`, for `OneOwner`: who can have what in hand at which label (`HandInv`);
  a pool, its keepalive task and its entry do not exist before the call that makes
  them (`FreshInv`); and `OneOwner` pointwise (`OwnInv`: open pools are owned, owned
  pools are open, one key, one hand, not both);
- `AttemptInv`: numbers are given once, the one on record is the newest, and
  whoever is not the newest has a cause;
- `DrainInv`: from listing the keys to the last removal, what the drain saw is out
  of the map or under a key it still has to remove, and under no other.

### AgentRuntimeProofs

For any clients, calls and runtimes, from `AgentAssumption` (finitely many
clients, each with at least one call, since the count is a cardinality and the first
call opens the session).

- `TypeCorrect`, `SessionsCounted` (`CountIsSessions`) and `RefinesChannel`
  (`ImplementsChannel`): with every fault.  `BaseInv` ties a client's label to its
  method, session and runtime (`ClientInv`), says who initialises a cell (`CellInv`),
  that no id is in flight before its call wrote it (`NumberInv`), and that the
  agent has carried out what it answered (`CarriedInv`).  The refinement maps
  `CallWrite` to `Ask`, the answer of the agent to `CarryOut`, the reply to `Answer`
  or `Fail`, and everything else to no step: the late answer of an abandoned call
  meets a newer one only through an id, which `NumberInv` keeps apart.
- `CallsAreNotOrphaned` (`NoOrphanCall`) and `AbandonedLeave`
  (`AbandonedEntriesLeave`): under the hypothesis that "stdout" is not among the
  faults, without which both are false (see Observations).  `StreamInv`: a live
  agent has a reader, an entry is in the runtime of its client, a waiting client
  has its entry and the agent owes the answer, or has its answer and no entry.

### DuckDbWorkerProofs

For any calls, scenarios, generations, limits, limiters and retries.  `TypeCorrect` with every
fault; `RequestsAreNotOrphaned` (`NoOrphanRequest`), `WorkersAreLimited`
(`WorkersWithinLimit`), `QueriesDoNotMeet` (`OneQueryPerWorker`) and
`PoisonedWorkersAreKilled` (`PoisonedIsKilled`) under `ReadsToTheEnd`: in no scenario
does the reader give up on a live child.  Without it they are false: such a
reader lets go of its permit, and leaves a child that nobody listens to.  The
invariant: a child that ended holds nothing, and a live one has its reader
(`GenInv`), which has the permit of its client's limiter (`PermitInv`; `LimiterInv` is the
same of the limiters made later); a kill never fails the requests of
a newer child (`KillInv`); request ids in the pipes are distinct (`IdInv`); a query
under way holds `query_lock` (`LockInv`); and the queries at the current child, and
its poisoned session, belong to the call that holds it and that still waits or is
about to kill (`OwnInv`, `PoisonInv`).

### QueryExecutionProofs

For any queries, statements, pools and connections, from `QueryAssumption` (a
request has at least one statement: `execute_multi` answers an empty one before
it does anything).  `TypeCorrect`, `WritesExecuteOnce` (`WriteOnce`),
`ResultsTellTheTruth` (`ResultsTrue`), `TransactionsAreAtomic` (`TxAtomic`),
`CancelledQueriesGiveUp` (`CancelGivesUp`, by `ChurnInv`: what a cancelled query can
still have ahead of it at each of its labels).  The invariant: where a query is in its
script, what its results are about and whether it has a connection (`QueryInv`); no
connection is shared, and an open transaction belongs to a query that has it
(`ConnInv`, `DepthInv`, `PendingInv`); a transaction on its own connection has all its
earlier writes pending there (`TxInv`); a statement still to come has not been
executed (`ExecInv`), which is why a retry may only be a read's.

### TableOrderProofs and TransferProofs

For any tables, foreign keys, sizes of tables, pages and statements, requests and
faults, from `TablesAssumption`, `TransferAssumption` and `SetupAssumption` (the
request and the databases are well formed).

`TableOrderProofs` is about Kahn's algorithm on any graph.  `SortInv`: `degree` is the
number of keys whose source is not placed, a table is placed or queued exactly
when it waits for nothing, and what is placed comes after its sources.  When the
queue is empty every table left has a source among those left (`LeftInv`).
`NoDescent` then shows that such a table has a cycle above it: where nothing is on a
cycle a source has strictly fewer tables above it, which cannot go on for ever.
`Above` is the least set closed under sources, so no path has to be counted.

`TransferProofs` has `TablesInOrder` (`AcyclicParentsFirst`), `NeverCopiedTwice`
(`NeverTwice`), `CancelIsPrompt` (`CancelStopsInBatch`), `FailuresAreLocal`
(`FailureIsLocal`), `DoneTablesHoldWhatArrives` and `DoneTablesAreComplete`
(`DoneIsComplete`).  The invariant follows the table at hand: `Filled`, which is
`offset` and, within a page, what was written of it, is exactly how far the target
has the rows of an ordered table, once each (`FillInv`), and what is left of the
page are the rows that follow (`PageInv`, `HandInv`).  A row is not written twice
because no statement is sent twice, and because a table comes once: tables
not reached are as they were (`FreshInv`), and tables left are not touched again
(`DoneInv`).  `CancelInv`: rows written since the cancellation and rows in hand
make at most a page.  `PoolInv`: the target's pool was lost, if at all, with the
table at hand, since the next lookup re-opens it.  A step of a table stays, leaves
or stops (`StayKeeps`, `LeaveKeeps`, `StopKeeps`), so that each action has to be
compared with these three only.

`DoneTablesHoldWhatArrives` has no hypothesis: a table that is read in order and
reported as done holds, once each, the rows that arrive: all of them or, when a
batch is larger than the drivers' cap, the first `RowCap` of a larger table.
`DoneTablesAreComplete` is for requests in which every table has a primary key at
the source or in the target (`EveryTableHasKey`) and no page is cut (`NoPageIsCut`:
the batch or the table is within the cap, or the source is MongoDB).

## Only model-checked

- Liveness: `EventuallyEnded`, `CallsReturn` of both modules, `KeepaliveEnds`,
  `IdleRuntimeEnds`, `TransferEnds`, `EveryQueryEnds`.  Fairness and `ENABLED` are out
  of the prover's reach.
- The number of rows of a table without any key (`Total` in `DoneIsComplete`): a
  sum over a function, which is an induction over data.
- The five violations.

## Observations

What was met while modelling and is not one of the runs.

Manual transactions:

- `disconnect_db` and every other path that closes pools leave
  `transaction_sessions` alone (`DisconnectDb` of `ManualTransaction`); the comment at
  `query.rs:2827` speaks of a disconnect cleanup that removes sessions.  The
  session lives until its idle timeout, which `EventuallyEnded` covers.
- A failing execute whose session a commit has already taken answers
  "Transaction was auto-rolled back" (`query.rs:2906`) and does not roll back; the
  commit then keeps the statements before the failed one.  This is the exception
  of `RolledBackIsGone`.
- A rollback that gets the connection between an execute call's lookup
  (`query.rs:2877`) and its lock (`query.rs:2886`) ends the transaction; the
  statements then run in autocommit and the call answers ok.

DuckDB worker:

- The kill task that cancelling a DuckDB query spawns (`query.rs:1176`) is not
  awaited.  It can run after the next query has started a new worker and kill
  that one; the next query then fails.  The model has this step.
- A stdout line of the worker that is not UTF-8 ends the reader
  (`duckdb_worker_process.rs:609`) while the worker stays current and connected; the
  next query waits on it without a timeout.  It is the fault "stdout" of
  `DuckDbWorker`; with it `NoOrphanRequest` is violated, so no passing run has it.
- `ensure_connected` marks as connected a worker that another call restarted
  meanwhile (`duckdb_worker_process.rs:368`, against the comment at line 256); it has no
  session, and every later query is refused until something kills it.
- When the limit of worker processes changes while no worker runs, clients made
  from then on get a new limiter (`duckdb_worker_process.rs:527`) and the older ones
  keep theirs: together they may run more workers than either limit.  The model
  has it (`later`); the program does not reach it, since it sets the limit once, at
  startup (`src-tauri/src/lib.rs:808`), and the interface asks for a restart.

Connection pools:

- `check_connection_health` answers Ok when its ping failed but somebody else
  removed the pool first (`connection.rs:2408`).
- The keepalive task of a pool whose closing does not make pings fail (HTTP and
  MongoDB clients are only dropped, and the task has a clone) goes on for ever
  once another task dropped its handle (`connection.rs:918`): `KeepaliveEnds` is
  stated for `Refusing` pools only.
- The desktop `connect_db` (`src-tauri/src/commands/connection.rs:931`) makes a
  PostgreSQL pool without the cancel context that `get_or_create_pool` makes and
  `connection.rs:186` describes.
- A superseded or failed attempt leaves its cancel context behind, and
  `refresh_connections` removes pools without their contexts (`connection.rs:1091`).

Agents:

- A stdout line that is not JSON ends the reader of a shared runtime while the
  agent lives on.  It is the fault "stdout" of `AgentRuntime`.  The calls in pending
  get an error, but one that has passed the check of the failed flag and writes
  after that waits for a reader that is gone, and the process stays until its
  stdin is closed; so no passing run has it, and `NoOrphanCall` is proved without.
- A runtime whose first OpenSession fails gets no grace task, since only a
  decrement spawns one: it stays until `stop_daemons` or the exit of the program.
  `IdleRuntimeEnds` is about runtimes that had a session.
- An OpenSession that times out may still open a session in the agent that no
  client knows and nobody closes.
- `call_daemon` (`agent_runtime.rs:102`) sends a method once more after a failure,
  whether or not the first one was carried out.
- The dedicated client takes the next line for its answer without looking at the id
  (`agent_driver.rs:739`); after a line of the agent that is no answer, every later
  call gets the answer of the one before.

Data transfer:

- A table that refers to itself, or a parent on a cycle, leaves that table and all
  that depend on it in the listed order (`transfer.rs:3622`), also those whose own
  order is clear; hence the condition of `AcyclicParentsFirst`.
- An empty MongoDB collection is done before its target table is cleared
  (`transfer.rs:3842`), in overwrite mode too, where
  `docs/content/docs/data-transfer.mdx:69` says the table is cleared first:
  `SkippedClear` in `DoneIsComplete`.
- An error or a cancellation after TRUNCATE leaves the target table empty or
  partly filled: there is no transaction around a table.
- Pages are read by OFFSET: without a primary key, or when the source changes
  meanwhile, rows can be missed or read twice.  `DoneIsComplete` and `NeverTwice`
  are about tables with a key and a source at rest.
- A lost source pool is not opened again: all remaining tables fail.
- A cancellation after the end leaves its id in `CANCELLED`.
- Upsert becomes append without a word when the target's columns cannot be read.

Queries:

- A transaction does not look at the cancel token, though `cancel_query` answers
  that it cancelled.
- When a retry fails too, the dead pool stays in the map until somebody else
  discards it.
- A discard removes whatever pool the key has by then, possibly a newer one; the
  ROLLBACK of a failed explicit transaction may then go to a new connection.
- A "Connection not found" in the middle of a SQL Server batch replaces the
  results of the statements before it.
- `RESET search_path` is sent to PostgreSQL after a cancellation as well
  (`db/postgres.rs:2563`): a cancelled query is not silent.
- `execute_multi` on SQL Server does not use `use_transaction`.
- Databases other than MySQL always go on after a failed statement
  (`query.rs:308`), which the text of the option in the user interface does not say.

Import of SQL files (`sql_file_import.rs`, not modelled):

- The MySQL executor asks `pool_error_action` directly (line 184), so a write whose
  connection was lost is sent again on a new connection, where the function it
  says it mirrors (line 143) replays reads only (`query.rs:892`).
- A merged INSERT that failed, also by a lost connection or a timeout, is replayed
  statement by statement (line 989).

## Not modelled

- Schema, data grid and diff SQL, SQL risk and production safety (`schema*.rs`,
  `data_grid_sql.rs`, `sql.rs`, `sql_risk.rs`, `production_safety.rs`), the text of DDL
  and type mapping in `transfer.rs`, and the parsers of imports: text in, text
  out, without state.  Together with the native drivers they are most of the
  lines of the core; what the models map is the part that has state over time.
- Native drivers (`db/mysql.rs`, `db/postgres.rs` and others): third-party
  protocol clients and row conversion; their outcomes are choices of the models.
  The arms of `do_execute` for the other drivers run a statement in the same way
  as those modelled, without a transaction.
- Transport layers: port forwarding by third-party SSH and proxy libraries;
  `ConnectionPools` has the effect of a reset on the pools.
- Import and export: a loop over statements or pages with a cancel set like that
  of `Transfer`; see Observations for the replays.
- Cloud sync: encryption, and a remote file read and replaced as a whole; how
  remote storage orders two writers is not in the repository.
- Dedicated and daemon agent clients: they own their process and have one call at
  a time.  Installation of agents and Java runtimes: files and downloads.
- Storage and secrets: statements on one SQLite file.
- The AI assistant: its behaviour is a language model's.
- Plugins, message queue and Nacos adapters, MCP bridge, web login: files, HTTP
  and remote interfaces with little state of their own.
- The user interface and the agent programs: outside the Rust core; the client
  attempt numbers of the interface are inputs of `ConnectionPools`.
- In `ConnectionPools`: DuckDB isolation switching and external driver drains.
