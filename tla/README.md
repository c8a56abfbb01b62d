# Formal models of gaussdb-python

TLA+ models of the stateful parts of this repository (the `gaussdb` driver, a
port of psycopg 3, and the `gaussdb_pool` connection pool), TLC configurations
that check them on small instances, and TLAPS proofs of the properties that can
be proved for every instance.

`PROJECT.json` is the index: the components, the runs, the lines of source that
each definition translates (`map`), the mutants that break each property, the
hazards of the code and the theorems.

Contents: [how to run](#how-to-run) · [inventory](#inventory) ·
[modules](#modules-and-how-they-correspond-to-the-code) · [runs](#runs) ·
[fairness](#fairness) · [proofs](#proofs) · [findings](#findings) ·
[observations](#observations) · [not modelled](#what-is-not-modelled) ·
[plan](#plan)

## How to run

    tlc -workers 2 -config pool_requests.cfg MCConnectionPool
    tlapm ConnectionPoolProofs.tla

The module of each configuration is in the table of [runs](#runs). A run of
kind *violation* is supposed to end with a counterexample: it shows a place
where the code does not do what a comment, a doc or a test of the repository
says.

## Inventory

Paths are relative to `src/`. The driver exists twice: the asynchronous source
(`*_async.py`) is the original and `tools/async_to_sync.py` generates the
synchronous one from it. `ConnectionPool`, `Scheduler`, `Session`, `Pipeline`
translate the synchronous, threaded code, whose interleavings are finer: a thread
can be preempted anywhere, a task only at an `await`. What only exists in the
asynchronous code is cancellation: `AsyncConnectionPool` is about that.

### Connection pool — `gaussdb_pool/gaussdb_pool/pool.py`, `base.py`

* State: `_pool` (deque of idle connections), `_waiting` (deque of queue
  positions), `_nconns`, `_nconns_min`, `_growing`, `_min_size`, `_max_size`,
  `_closed`, `_opened`, `_pool_full_event`, all under `_lock`; `_tasks`, the
  queue of the workers; the condition, connection and error of each
  `WaitingClient`.
* Operations: `getconn`, `putconn`, `open`, `close`, `check`, `resize`, `wait`;
  the tasks `AddConnection`, `ReturnConnection`, `ShrinkPool`, `Schedule`,
  `StopWorker`.
* Interactions: clients call it from their threads; worker threads run the
  tasks; the scheduler thread puts delayed tasks back on the queue; the pool
  calls the callbacks `check`, `reset`, `configure`, `reconnect_failed`.
* Hard: every operation is a sequence of short critical sections with callbacks,
  network calls and unlocked reads of `_closed` in between; a connection moves
  through local variables, tasks and queue positions between two of them; the
  timeout of a request races the connection it is given.
* Correct when: a connection has one user at a time; `_nconns` counts what there
  is; nobody waits while a connection is idle; a connection that a request
  accepted reaches its client; requests are served in order and eventually;
  the size stays within its bounds; a closed pool keeps nothing open and its
  threads end.

### Scheduler — `gaussdb_pool/gaussdb_pool/sched.py`

* State: a heap of tasks, a lock, an event. Operations: `enter`, `enterabs`,
  `run`.
* Hard: the event is set after the lock is released and cleared before the
  runner blocks.
* Correct when: no wake-up is lost; every task whose time comes is run.

### Transaction blocks — `gaussdb/gaussdb/transaction.py`

* State: `_entered`, `_exited`, `_outer_transaction`, `_savepoint_name`,
  `_stack_index` of each block, `_num_transactions` of the connection.
* Operations: `__enter__`, `__exit__`, the `Rollback` exception,
  `force_rollback`.
* Interactions: each sends `BEGIN`, `SAVEPOINT`, `RELEASE`, `ROLLBACK TO`,
  `COMMIT`, `ROLLBACK` under the connection's lock; threads may share the
  connection.
* Hard: nesting, with any command failing at any point; exits out of order;
  names of savepoints; statements that open a transaction before the first
  block.
* Correct when: what a block wrote is committed or undone with it and the blocks
  around it, whatever fails inside; the end of a block ends the transaction only
  if no other block is in it.

### Connection — `gaussdb/gaussdb/_connection_base.py`, `connection.py`, `_tpc.py`

* State: `_autocommit`, `_tpc`, `_num_transactions`, transaction
  characteristics, `_pipeline`, `_prepared`, handlers and backlog of
  notifications, the status of the libpq connection.
* Operations: `commit`, `rollback`, `set_autocommit`, `close`, `tpc_begin`,
  `tpc_prepare`, `tpc_commit`, `tpc_rollback`, `execute`, `cancel`, `notifies`.
* Hard: calls refused inside a block or a two-phase transaction, and the state
  left when a command fails half-way.
* Correct when: no call ends a transaction that another construct is using.

### Prepared statements — `gaussdb/gaussdb/_preparing.py`

* State: `_counts` (how often a query was seen), `_names` (the name of its
  statement), both ordered by last use, `_prepared_idx`, `_to_flush`.
* Operations: `get` and `maybe_add_to_cache` before a query is answered,
  `validate` with its result, `clear` at a rollback, `maintain_gen`, which sends
  the deallocations.
* Interactions: `_maybe_prepare_gen` of the cursor calls them; in pipeline mode
  the result, and so `validate`, comes any number of queries later.
* Hard: the cache full, resized or cleared while statements are being prepared;
  failures between two of these calls; promotions, which evict nothing.
* Correct when: a name in the cache is a statement of the server; a deallocated
  one is not in use; a query is in one of the two dictionaries.

### Pipeline mode — `gaussdb/gaussdb/_pipeline.py`, `generators.py`, `_cursor_base.py`

* State: `command_queue`, `result_queue`, `level`; at the server, whether the
  pipeline is aborted; in libpq, the results not read and the transaction status
  as of the last Sync.
* Operations: `__enter__`, `__exit__`, `sync`, and under it `execute`,
  `executemany`, the fetch methods, `commit`, `rollback`.
* Interactions: each call queues commands and, for each, what to do with its
  result; `pipeline_communicate` sends and receives as the socket allows.
* Hard: an error skips everything up to the next Sync; an exception while others
  are still to be read; nesting; the transaction status is old.
* Correct when: each result reaches its cursor; nothing is left at the exit;
  queries run in a transaction unless in autocommit.

### Asyncio pool and null pool — `pool_async.py`, `null_pool_async.py`, `null_pool.py`

* State: as the threaded pool; a null pool keeps no idle connection.
* Operations: the same. A null pool's `getconn()` connects in the client's own
  task while it holds the lock, `putconn()` gives the connection to the first who
  waits or closes it.
* Hard: a task can be cancelled wherever it is suspended: in the queue, at the
  lock, in a connection attempt, in the backoff after a failed check. `close()`
  itself yields between failing the clients, stopping the workers and closing the
  connections.
* Correct when: whatever is cancelled, `_nconns` counts what there is, no client
  is forgotten in the queue and no connection survives `close()`.

### Cursors — `_cursor_base.py`, `cursor.py`, `_server_cursor_base.py`, `server_cursor.py`

* State: the result sets and the current one, the position, `rowcount`, the
  results still in libpq; of a server cursor `_described`, its position and the
  portal that the server keeps under its name.
* Operations: `execute`, `executemany`, `stream`, the fetches, `scroll`,
  `nextset`, `close`; `DECLARE`, `FETCH`, `MOVE`, `CLOSE` for server cursors.
* Interactions: they exclude each other by `Connection.lock`; an interrupt of a
  wait cancels the query and waits again (`Connection.wait`); the portal of a
  server cursor dies with its transaction unless it is WITH HOLD.
* Hard: interrupts, streams and loops left at any row, errors in the second of two
  statements, portals opened or moved by somebody else; the position of a server
  cursor counts the rows that were yielded, its portal moves by batches.
* Correct when: no call leaves a result behind in libpq; each row is given once
  and the position follows; a closed server cursor leaves no portal.

### COPY — `_copy_base.py`, `_copy.py`, `_copy_async.py`, `generators.py`

* State: the formatter's buffer, whether the binary signature was sent, the
  bounded queue and the error of the worker of a `QueuedLibpqWriter`.
* Operations: `write`, `write_row`, `read`, `read_row`, the end of the block.
* Hard: four buffers in a row, another thread at the third of them, a server
  that fails or a connection that breaks anywhere, an exception in the block.
* Correct when: the server gets what was written, in order and to the end when
  the block says so; the connection is out of the COPY after an error; the
  producer and the worker do not wait for each other forever.

### Notifications — `_connection_base.py`, `connection.py`

* State: the handlers, the backlog, the packet that `notifies()` is giving.
* Operations: libpq's notify handler during any call, `notifies()` with its
  `timeout` and `stop_after`.
* Correct when: each notification is given once and in order, to a handler or to
  the generator.

### Adapters — `_adapters_map.py`, `_typeinfo.py`, `_py_transformer.py`

* State: per map, three kinds of tables that are shared with the map it was made
  from until one of the two writes; the registry's dictionaries; a transformer's
  caches by class, key and oid.
* Hard: copy-on-write across chains of maps; the key under which a dumper is
  remembered must say all that the choice depends on.
* Correct when: a registration is seen by its map and the ones made from it later
  and by no other; a cache never changes what is dumped.

### Conversions — `types/*`, `_queries.py`, `sql.py`, `conninfo.py`, `_conninfo_*.py`

* State: none. Each has a partner that it must agree with: a loader, the server's
  parser, Python's `%`, libpq's connection strings.
* Hard: the ends of ranges and widths, signs, quotes and escapes inside
  containers, several notations for one thing.
* Correct when: what is read back is what was written, or the value is refused.

The rest has no protocol of its own: the libpq wrapper (`pq/`), the error
classes, the CockroachDB variant (configuration), the C extension (an optimised
copy of the generators, transformer and adapters), the selectors of
`waiting.py`, the tools.

## Modules and how they correspond to the code

| module | models | role |
|---|---|---|
| `ConnectionPool` | `pool.py`, `base.py` | the threaded pool |
| `PoolService` | (specification) | what a pool promises to its clients |
| `ConnectionPoolService` | | refinement mapping from the pool to the service |
| `MCConnectionPool` | | constants for TLC |
| `ConnectionPoolProofs`, `PoolSoundProofs` | | theorems about the pool: its types and queue; its connections, counts and service |
| `Scheduler`, `MCScheduler`, `SchedulerProofs` | `sched.py` | the scheduler, its constants, its theorems |
| `Server` | external | the session at the server: answers to SQL commands |
| `Session` | `transaction.py`, `_connection_base.py`, `_cursor_base.py` | the transactions of one connection |
| `MCSession`, `SessionProofs` | | constants, theorems |
| `PrepareManager` | `_preparing.py` | the cache of prepared statements, as operators |
| `Pipeline` | `_pipeline.py`, `generators.py`, `_cursor_base.py`, `cursor.py`, `connection.py` | execution of statements, in and out of pipeline mode |
| `MCPipeline`, `PipelineProofs` | | constants, theorems |
| `AsyncConnectionPool`, `MCAsyncConnectionPool` | `pool_async.py`, `null_pool_async.py` | both asyncio pools, their instances for TLC |
| `AsyncPoolProofs` | | theorems about both asyncio pools |
| `Copy` | `_copy_base.py`, `_copy.py`, `generators.py` | a COPY block and the worker of its writer |
| `Cursors` | `_cursor_base.py`, `cursor.py`, `server_cursor.py`, `connection.py` | the cursors of a connection, interrupts, notifications |
| `MCStatements` | | `Copy` and `Cursors` on one connection, constants |
| `CursorsProofs`, `StatementsProofs` | | theorems about cursors and notifications; about COPY and the two together |
| `Values` | | what the modules of the conversions share |
| `NumericFormat`, `TemporalFormat`, `ScalarFormat` | `types/numeric.py`, `datetime.py`, `net.py`, `string.py`, `json.py`, `enum.py`, `bool.py`, `_encodings.py` | dumpers and loaders of simple types |
| `RangeTypes`, `ContainerFormat` | `types/range.py`, `multirange.py`, `array.py`, `composite.py`, `hstore.py` | of types made of others |
| `QueryTemplate` | `_queries.py`, `raw_cursor.py`, `sql.py`, `adapt.py` | placeholders, composition, literals |
| `ConnInfo` | `conninfo.py`, `_conninfo_*.py`, `_dns.py`, `_capabilities.py` | connection strings, attempts, versions |
| `AdaptersMap`, `Transformer` | `_adapters_map.py`, `_typeinfo.py`, `_py_transformer.py`, `rows.py` | maps of adapters, choice of dumpers, rows |
| `MCValues` | | the cases of all these, for TLC |

### ConnectionPool

**Grain.** What the code does while holding `pool._lock` is one action; so is
each use of a `WaitingClient` under its condition. The code between two such
sections is split where another thread can matter: an unlocked read of
`_closed`, a callback, a connection attempt. `getconn()` is thus `getconn` (test
of `_closed`), then `_get_ready_connection`, `getconn_refused`, `getconn_enqueue`
or `getconn_timeout`, then `wait_returns`, then `check_passes`, `check_fails` or
`check_interrupted`, then perhaps `backoff` and the loop. `pc` says where each
thread is, `cur` is its local variable `conn`.

**State.** Variables are named for the attributes. `slot[p]` is the `conn` and
`error` of a `WaitingClient`; `batch`, `doomed` and `togrow` are the local
variables of `check()`, `close()` and `resize()`; `job` is what an
`AddConnection` in progress carries. `sched` counts delayed tasks: the module
`Scheduler` checks separately that they are run.

**Abstractions.**

* *Time.* A timeout, an expiry or a give-up time may happen whenever the code
  would test for it. Consequently a backoff may give up at any retry.
* *Identities.* Connections and positions are objects: an identity nothing
  refers to may be reused, the least one first. `Conns` and `Positions` bound
  how many exist at a time, not how many are ever created. There is always a
  connection for an attempt in the runs (checked with TLC). `Positions` also
  bounds the deque: the position of a client that gave up stays there, and a
  request that finds none left is not made until one is dropped.
* *Status.* `INTRANS` also stands for `INERROR`: `_return_connection` treats
  them alike. A connection dropped by the server is found out at its next use.
* *Callers.* A client returns what it took, once: `putconn()` of a foreign
  connection raises and changes nothing. A second return of the same connection
  is a misuse that the pool documents as an error and does not defend against.
* The `__del__` methods of the interpreter and the statistics counters are left
  out.

**Abstract specification.** `PoolService` knows which clients wait (`queue`), who
came before each of them (`ahead`) and who holds what: a free connection goes to
the client that nobody is ahead of, a newcomer takes one only if nobody waits. In
the mapping the queue is `_waiting` without the positions whose client has gone
(the code leaves those in the deque until `_add_to_pool` passes over them), one
client is ahead of another if its place in the deque is, and a client holds a
connection from the moment its position accepts it, which is before its thread
wakes up. The order is a relation and not a sequence because the clients that
have gone are left out in the middle of the deque: `SelectSeq` says the same, and
no prover here can reason about it.

### Scheduler

One action for each critical section (`enterabs`, `look`) and one for what
follows it (`set_event`, `act`, `unblock`). The heap is a set: `heapq` compares
times only and may return any of the tasks with the least. The clock is a counter
that stops at `MaxTime`.

### Server and Session

`Server` is external: PostgreSQL's answers to the commands that `transaction.py`
and `_connection_base.py` send. A command is an operator from a session to its
possible outcomes, so a call that sends several commands is written as the code
does, one after the other until one fails (`Then`). A session has a stack of
savepoints with the rows written under each. With `Losses`, the connection may
be lost at every command, before the server executes it or after.

`Session` has an action for each call. Every call holds `conn.lock` from its
first command to its last, so it is one atomic action, and threads that share
the connection can only interleave whole calls. This is also why the passing
run has one thread: `exit(t, i)` may leave the blocks in any order, which is what
other threads' calls amount to; the proofs are for any set of threads.

* `state[b]` says how a block ended: `committed`, `kept` (its savepoint was
  released), `undone`, `failed` (its command failed) or `lost` (the server
  answered `COMMIT` with a rollback).
* `within[r]` is a history variable: the blocks that were live when row `r` was
  written. The properties compare it with the rows the server has.
* `orderly` records whether the program has nested its blocks, has not entered a
  block in a failed transaction and has not called a `tpc_` method inside one;
  the properties about rows assume it, `EndsAlone` does not.
* A savepoint name is an integer: `k > 0` is `_pg3_k`, negative names are the
  program's.
* Left out: pipeline mode (the same commands are queued instead of executed; see
  `Pipeline`), the isolation level and its sisters, and what `_rollback_gen` does
  after a block's `ROLLBACK`: `_prepared.clear()` and `maintain_gen`
  (`transaction.py:145-147`), which may send a `DEALLOCATE ALL` (`Pipeline` has
  both at `rollback()`).

### PrepareManager and Pipeline

`PrepareManager` has no state of its own: each method is an operator from a
cache to the cache after it. `Pipeline` extends it and owns the variable `cache`.

**Grain.** A call of the program is an action that puts its phases in `todo`:
the generators of the code, in their order (`start`, `send`, `communicate`,
`fetch`, `maintain`, ...). Each phase is one or more actions. Outside of a
pipeline a phase that sends one command waits for its answer and is one action.
In a pipeline `communicate` is a loop of `transmit` (a command is sent and
answered) and `receive` (a result is read), in whatever order the socket allows,
until `batch_ends`. An exception (`Raise`) skips the phases that are not in a
`finally`: `exit`, `exit_fetch` and `leave`. All phases hold `conn.lock` except
`enter`, `ride`, `exit` and `leave`, which begin outside of it.

**State.** `commands` and `results` are the two queues; an element of `results`
is `NoSlot` for `None`, or the query and whether its entry in the cache is new.
`wire` holds the results on their way, with the query each is for: the code does
not see it, and `InStep` compares it with `results`. `server` has the
statements, the transaction status and whether the pipeline is aborted; `seen`
is the transaction status that libpq knows. `past` is a history variable: was
pipeline mode ever used (`piped`), and did an exception leave results unread in
this pipeline (`skipped`).

**Abstractions.**

* *Queries* are keys; `Kind` says which of them are a `DROP` or a `ROLLBACK`. A
  query is one statement.
* *One pipeline object.* `pipeline()` and `__enter__`, and `_exit()` with the
  reset of `_pipeline`, are one action each (`enters`, `leave`). For one thread
  this is exact; other threads could come in between, so what is claimed of
  pipelines is claimed for one thread (`OneThread`).
* *executemany()* executes two rows: the first may be prepared, the second finds
  it so.
* *Bounds.* `MaxNames`, `MaxCount`, `MaxQueue` and `MaxLevel` are guards of the
  calls only (`Fits`, `NamesLeft` and their neighbours): a call that starts may
  always finish, so `results` grows past `MaxQueue` within one.
* Left out: a connection that breaks, COPY in a pipeline, `prepare_threshold =
  None`, libpq without pipelines, blocks in a pipeline; `stream()` is with the
  cursors.

### AsyncConnectionPool

**Grain.** Tasks of one event loop are not preempted: an action is everything a
task runs from one suspension to the next, critical sections and calls included.
So the module is not a copy of `ConnectionPool`: `getconn()` runs from its test
of `_closed` to the wait in the queue in one action. The lock is held over a
suspension in one place only, the null pool's connection attempt, and only there
do others queue for it (the actions `..._locked`).

**State.** As the threaded pool. A client waits on one position at a time, so
`waiting` holds clients; that of a client that gave up or was cancelled is
`Gone`. `setup` says which pool it is (`kind`), its sizes, callbacks, whether
attempts fail and which calls are made; it never changes, so that one run goes
through several pools. The methods that `AsyncNullConnectionPool` overrides are
disjuncts on `kind`.

**Cancellation.** `cancel(t)` ends a task in any of the places in `Cancels` and
does what the `except` and `finally` clauses do. The run leaves out the check
callback, where a connection is lost (see observations), and the workers.

### Copy

One block, from its entry to its end. What is copied is numbered. `write_row`
and `write` go to the buffer of the formatter, from it in chunks to libpq, or to
the queue of the worker; `wire` is what the server got. The end of the block is a
sequence of actions (`finishing`, `joining`, `ending`, `canceling`), between
which the server may fail, the connection break or the worker die. COPY TO reads
from `wire` what the server sends. Bounds: `MaxData`, `MaxChunks`. `BinaryRows`
is whether `read_row()` is used on a binary copy: it never gives a row (see
observations), so the run says FALSE, as the repository's tests skip it.

### Cursors

**Grain.** Calls exclude each other by the connection's lock. `execute()` takes a
step for each exchange with the server, and `interrupt` may come in each;
`stream()` and `notifies()` are generators that hold the lock while the user has
an item; what is local is atomic. `flight` is what libpq has still to give. A
call is interrupted once: see the observations for a second time.

**State.** `cursor[c]` has the result sets (`results`, `iresult`), `pgresult`,
`pos`, `rowcount`; `given` is a history variable, the rows given of the current
result. `scursor[s]` has `_described`, `_pos` and what the program does with it;
`portal[s]` is the server's. Iterating over a server cursor is a `fetch_forward`
of a batch, which moves the portal, then a `yield_row` for each row, which moves
`_pos`, and perhaps `leave_loop`; `batch` is how many rows were fetched and not
yielded, and other calls may come in between. A cursor of `AsyncCursors` scrolls
without moving `_pos`, as the code does. `strayed` is whether the cursor has done
what makes the code lose the place of its portal: a move out of the rows, a portal
described after its first row, a loop left within a batch, a declaration or an
absolute move within a loop, an asyncio scroll. In
`notifier`, notifications are numbered; `handled` is how many were read and
`given`, `batch`, `backlog` where they are.

**Left out.** Two iterations at a time over one server cursor, and threads that
share one (its position moves after the lock is released). Positions are within
`MaxDrift` of the rows: only a cursor that strayed meets that bound.

**Composition.** A COPY and a cursor's statement are both holders of one
connection, and exclude each other on it; `MCStatements` has them as two parts
of one run.

### The conversions

Pure code is operators from inputs to outputs, in one module per group, each with
the operators of its partner: the loader, or what the server, Python or libpq
does with the output, which are external. A text is a sequence of the characters
that the format gives a meaning to and a letter. Units and widths are constants
(`DEC_DIGITS`, `WordBits`, `MinuteSecs`, `MinDay`, ...), as the true ones do not
fit TLC's integers. The properties (`DecimalSurvives`, `ArrayTextSurvives`,
`BindingsAgree`, `AttemptsMatch`, `MapsIndependent`, ...) compare with a
reference definition, never with the definition itself; `MCValues` applies them
to all cases within bounds.

* *Intervals.* `TimedeltaDumper` writes days, seconds and microseconds in one of two
  ways, by the style of the connection; the text is a sequence of counts with
  their signs, and `ServerReadsInterval` has the server's rule that in the style
  `sql_standard` a leading minus is that of all fields if no other has a sign. A
  connection without a style, or no connection, takes the branch `_dump_any`. The
  text loader goes through floats: `Float` is rounding to a significand of
  `FloatBits` bits, half to even, in `load_interval` where the code has
  `float(se)` and the sum. `timedelta()` overflows beyond `MaxDeltaDays`, which
  both loaders make a `DataError`. In the run a float has 8 bits, so that
  intervals meet the place where it loses microseconds.
* *Lists.* `Element` is `_find_list_element`: classes whose dumpers have different
  oids are a `DataError`, else the last item of the last class stands for the list,
  or for `int` the one that needs the largest type.
* *JSON.* `set_json_dumps` is about scopes (global, connection, cursor), the
  function of a wrapper comes first; the binary loader of `jsonb` reads texts with
  the version byte, and without it if they are documents.

## Runs

States are distinct states found; all passing runs are exhaustive.

| run | module | states | instance |
|---|---|---|---|
| `pool_requests` | `MCConnectionPool` | 941 077 | 2 clients, 1 worker, sizes (1, 2), check callback, failing attempts, interrupted waits |
| `pool_serves` | `MCConnectionPool` | 51 049 | 2 clients, sizes (0, 1), `check()` repeated, reset callback, fair |
| `pool_stops` | `MCConnectionPool` | 284 799 | 1 client, 2 workers, sizes (1, 1), `close()` and a `wait()` that closes when it times out, or `resize()` to (2, 2), `max_waiting` 1, failing and interrupted checks, fair |
| `scheduler` | `MCScheduler` | 127 734 | 2 callers, 3 tasks of which one stops the runner, delays 0 and 2, clock to 2, fair |
| `session` | `MCSession` | 696 649 | 3 blocks of which one named and forced, 1 row, 1 two-phase transaction, losses |
| `pipeline` | `MCPipeline` | 1 461 982 | 1 thread, 3 queries of which one `DROP`, threshold 1, `prepared_max` 1, 2 levels, failures, autocommit or not |
| `async_pool` | `MCAsyncConnectionPool` | 55 470 | five pools (`AllSetups`) of both classes, 2 clients, 1 worker, cancellation in four places, fair |
| `values` | `MCValues` | 109 694 | a state per case |
| `statements` | `MCStatements` | 205 097 | a COPY of at most 4 pieces, or 1 client cursor with a server cursor or with `notifies()`, or a server cursor alone, threaded or asyncio; fair |
| `pool_late_return`, `pipeline_names`, `cache_limit` | | | violations, see [findings](#findings) |

What each passing run shows:

* **`pool_requests`** — `PoolSound`: `Accounting` (`_nconns` is the number of
  connections in the pool, out and being prepared), `SizeBounded`, `OneGrower`
  (`_growing` is set exactly while one growing task is queued, delayed or
  running) and `PoolIsIdle` (a connection in the pool is open and in no
  transaction); `NoIdleWhileWaiting`; `AcceptedIsDelivered` (a position that
  accepted a connection belongs to a client about to return it). Against the
  timeouts and interrupts of the wait, failed checks and their retries, and
  attempts that fail and are delayed.
* **`pool_serves`** — `NoSharing` (a connection is in one place: deque, thread,
  slot, task or list), `EveryWaiterServed` (a waiting client leaves the queue
  without its timeout) and `ServesInOrder`, the refinement of `PoolService`,
  while `check()` empties and refills the deque.
* **`pool_stops`** — `ClosedPoolEmpty` (nothing enters a closed pool),
  `FullIsNotified` (the event of `wait()` is set once the pool is full); after
  `close()` every connection is closed (`CloseReleases`) and every worker ends
  (`WorkersStop`), also if two threads close at once, one of them a `wait()` that
  timed out, and checks fail or are interrupted. It has no reset callback: with
  one, `CloseReleases` fails (see findings). `resize()` is in programs of its own
  (`CloseOrResize`): all three in one program, with two workers, are more states
  than liveness can be checked of in time. `ClosedPoolEmpty` and
  `FullIsNotified` are proved for programs that make all the calls.
* **`scheduler`** — `NoLostWakeup`, `EveryTaskRuns`.
* **`session`** — `WorkFollowsBlocks`: `UndoneIsGone` (rows of a block that was
  undone are neither in the database nor about to be), `KeptIsCommitted` (rows of
  blocks that all exited well are in it) and `SavepointsMatch` (the server's
  savepoints are those of the live blocks); `EndsAlone` (the transaction does not
  end at the exit of a block while another is live), `RollbackReachesTarget`
  (`Rollback(b)` crosses the inner blocks and stops at `b`), `TpcIsOpen`.
* **`pipeline`** — `InStep` (`result_queue` is, one by one, for the results on
  the wire and then for the commands not sent); `PipelineSound`: `LeavesNothing`
  (at the exit of the last pipeline nothing is left to send or read and the
  server is out of the aborted state, also after exceptions) and `InTransaction`
  (outside of autocommit every query is executed in a transaction, although the
  status is old, unless the program goes on after an exception that left results
  unread); `KeysApart`, `FreedIsForgotten`; `CacheSound`, for programs
  without pipelines: `CachedIsPrepared` and `CacheBounded`.
* **`async_pool`** — `AsyncAccounting` at every suspension of every task, whoever
  is cancelled there; `AsyncWaiterServed` (a queued request is answered, also when
  the pool is closed); `AsyncCloseReleases`.
* **`values`** — `ValuesSurvive`, `ContainersSurvive`, `QueriesAgree`,
  `AdaptersAgree`: each applies the properties of its modules to their cases.
* **`statements`** — `CopyKeepsData` (the server gets what was written, in order,
  all of it if the block says so; a COPY TO that ends was read to the end),
  `LeavesNothingBehind` (neither a COPY, a worker in libpq, an unread result nor
  the portal of a closed cursor is left, whatever stopped the call),
  `PositionsAgree` (rows are given one after the other; the position of a server
  cursor and the rows it has still to yield make up the row of its portal, whatever
  calls come within an iteration, unless it strayed), `NotifiedInOrder`, and `CopyReturns` (a call in a
  COPY block, and its end, return, unless a dead worker left a full queue).

**Why the bounds are enough.** A pool hazard needs a connection, somebody who
holds it and somebody who wants it: two clients and one worker contend for every
critical section, and a pool of (1, 2) has all its cases (empty, idle, growing,
full, shrinking). More workers only matter for stopping, where there are two. A request that is
refused and one that leaves its position behind need one client only.
The runs divide the operations between them because all at once is out of TLC's
reach; each pair of operations that touch the same state meets in one of them.
Three blocks are the least with an outermost, a middle and an innermost, of
which one is named by the program; blocks exit in any order. A row is written at
any point, so one row ranges over all of them. Three tasks are the least that
can be pushed in front of, behind and between others. In `pipeline` a threshold
and a cache of one make a query counted, promoted, prepared and evicted within
three executions; two ordinary queries displace each other and the third one
clears the cache; a pipeline in a pipeline is the deepest nesting that the code
tells apart; `execute()` and `executemany()` start with at most one result still
to come, and the other calls with two or three, and each may add four or more of
its own, so that errors of two calls are on the wire together. With `MaxQueue = 3`
the behaviour that `InTransaction` excludes (see observations) would not be met;
with 4 it is. Queries of kind `rollback` take the same path as `drop` in
the cache; what else they do is under the observations.

In `async_pool` a pool of one connection and two clients has a holder and one who
waits, and each setup adds the calls that meet there; two checks and two
reconnections in flight are within its five identities. In `statements` four
pieces overflow a buffer of two rows and a queue of two chunks, with one more
chunk in the worker's hands; a result of two rows has a first, a last and both
ends to be moved out of; two notifications come in one packet or in two. A server cursor
next to a client cursor is not WITH HOLD and not in autocommit (`Pair`); alone it
is all of these. In
`values` the bounds of each case are next to it in `MCValues`: all integers
around the three widths, all decimals of up to four digits around the group
boundaries, all instants around the ends of the range, all texts of two special
characters and selected longer ones, intervals on both sides of what a float and a
timedelta hold, in four styles, lists to depth three and of mixed classes, queries of three
tokens, all combinations of the parameters of a connection, four operations on
chains of three maps.

**Symmetry.** Clients are interchangeable, and so are the blocks `b` and `c`
(same name, not forced). So are the two ordinary queries of
`pipeline`. Symmetry is used in `pool_requests`, `session` and `pipeline` only,
which check no liveness; connections and positions are ordered (the least free
one is taken) and not permuted.

**Deadlock** is checked wherever the system goes on forever. `pool_stops`, `pool_late_return`, `async_pool`, `scheduler` and `statements` say
`CHECK_DEADLOCK FALSE` because a closed pool, a stopped scheduler, a COPY block
that was left and a closed cursor do come to rest.

## Fairness

Safety runs use `Spec`, the others `FairSpec`.

* Pool: weak fairness of what a thread does by itself once it has started a call
  (`Request`, `Administer`), of the workers (`Work`) and of each delayed task
  (`tick`). A thread that is not blocked runs eventually, under any scheduler of
  the operating system. `Request` includes `putconn`: a client returns what it
  took, as `with pool.connection()` does. Nothing makes a client call
  `getconn()`, a timeout expire, an interrupt come or an attempt fail.
  `worker(w)` takes the head of a FIFO queue, so weak fairness suffices. The lock
  is not modelled as contended: no critical section blocks inside it.
* Scheduler: weak fairness of the runner, of a caller inside `enter()` and of the
  clock.
* Asyncio pool: the same for tasks, which the event loop runs in turn. A client
  whose checks go on failing reaches its deadline (strong fairness of
  `backoff_gives_up`, as each failed check brings it back to the test of the
  clock). No cancellation and no timeout of the queue has to come.
* COPY: a call of the library returns when it can (`Leaving`), and the worker
  runs (`CopyWorker`). Nothing makes the user leave the block, the server fail or
  the connection break.
* `Session`, `Pipeline` and `Cursors` have no liveness property: they wait only for the
  server.

## Proofs

Each theorem holds for every value of the constants allowed by the assumptions
that their modules name: `ConstantsAssumption`, `ThreadsAssumption`,
`AsyncConstantsAssumption` and `AsyncTasksAssumption` (identities are positive
integers, sizes are what `_check_size` accepts, the sets of threads are disjoint,
finitely many workers), `SchedulerAssumption`, `SessionAssumption`,
`CacheAssumption`, `PipelineAssumption`, `CursorsAssumption` and `CopyAssumption`.
TLC evaluates each of them. Some theorems have a hypothesis besides, see below.

| module | theorem | states |
|---|---|---|
| `ConnectionPoolProofs` | `TypeCorrect` | `Spec => []TypeOK` |
| | `QueueCorrect` | `Spec => [](NoIdleWhileWaiting /\ ClosedPoolEmpty)` |
| | `ClosedPoolStaysEmpty` | `Spec => []ClosedPoolEmpty` |
| | `HandOverCorrect` | `Spec => []AcceptedIsDelivered` |
| `PoolSoundProofs` | `NoSharingCorrect` | `Spec => []NoSharing` |
| | `PoolIsIdleCorrect` | `Spec => []PoolIsIdle` |
| | `PoolSoundCorrect` | `"check" \notin Interrupts` implies `Spec => []PoolSound` |
| | `FullIsNotifiedCorrect` | `EqualResizes` implies `Spec => []FullIsNotified` |
| | `ServesInOrderCorrect` | `Spec => ServesInOrder`, the refinement of `PoolService` |
| `AsyncPoolProofs` | `AsyncTypeOKCorrect` | `Spec => []AsyncTypeOK` |
| | `AsyncAccountingCorrect` | `NoneLost` implies `Spec => []AsyncAccounting` |
| `SchedulerProofs` | `NeverSleepsPast` | `Spec => [](TypeOK /\ NoLostWakeup)` |
| | `SchedulerTypes` | `Spec => []TypeOK` |
| `SessionProofs` | `SessionTypes` | `Spec => []TypeOK` |
| | `EndsAloneCorrect` | `Spec => EndsAlone` |
| | `TpcIsOpenCorrect` | `Spec => []TpcIsOpen` |
| | `WorkFollowsBlocksCorrect` | `DistinctNames` implies `Spec => []WorkFollowsBlocks` |
| | `RollbackReachesTargetCorrect` | `DistinctNames` implies `Spec => RollbackReachesTarget` |
| `PipelineProofs` | `KeysApartCorrect` | `Spec => []KeysApart` |
| | `FreedIsForgottenCorrect` | `Spec => []FreedIsForgotten` |
| | `InStepCorrect` | `OneThread` implies `Spec => []InStep` |
| | `CacheSoundCorrect` | `Spec => []CacheSound` |
| | `TypeOKCorrect` | `OneThread` implies `Spec => []TypeOK` |
| | `LeavesNothingCorrect` | `OneThread` implies `Spec => []LeavesNothing` |
| | `PipelineSoundCorrect` | `OneThread` implies `Spec => []PipelineSound` |
| `CursorsProofs` | `NotifiedOnce` | `CursorsSpec => []NotifiedInOrder` |
| | `CursorsCorrect` | `CursorsSpec => []PositionsAgree` |
| | `NothingLeftInFlight` | `CursorsSpec => []NothingInFlight` |
| | `PortalsAreClosed` | `CursorsSpec => []ClosedLeavesNothing` |
| `StatementsProofs` | `CopyFromCorrect` | `CopySpec => []WrittenInOrder` |
| | `CopyCorrect` | `~BinaryRows` implies `CopySpec => []CopyKeepsData` |
| | `CopyLeavesCorrect` | `~BinaryRows` implies `CopySpec => []CopyLeavesConnection` |
| | `StatementsTyped` | `~BinaryRows` implies `Spec => []StatementsTypeOK` |
| | `StatementsLeaveNothing` | `~BinaryRows` implies `Spec => []LeavesNothingBehind` |

**The hypotheses.** Each excludes a behaviour of the code that does break the
property; each is described under [observations](#observations), and the run that
checks the property satisfies it.

* `"check" \notin Interrupts`: a `KeyboardInterrupt` in the check callback of
  `getconn()` loses the connection and `_nconns` goes on counting it
  (`pool.py:214`).
* `NoneLost`: the same for the asyncio pools. No task is cancelled where it holds
  a connection, nor `check()` while it has a list of them. Cancelled anywhere
  else, in the queue, asleep, waiting for the lock or for an attempt, it takes
  nothing with it. `AsyncTypeOKCorrect` does not need this.
* `EqualResizes`: every `resize()` asks for the same minimum, not below the first
  one. A `resize()` that lowers it does not look at the event that a `wait()` in
  progress waits for.
* `DistinctNames`: no two blocks are given the same savepoint name
  (`transaction.py:181`). Blocks without a name are given one by the code and are
  not restricted.
* `OneThread`: the exit of a pipeline does not take the lock for all of its steps
  and does not look at who entered it, and the model has its entry and its exit as
  one action each. What is not about pipelines (`KeysApart`, `FreedIsForgotten`,
  and `CacheSound`, of programs without them) is proved for any threads.
* `~BinaryRows`: `read_row()` of a binary COPY never finds its signature.

**Pool: types and queue.** `TypeOK` is not inductive: that a returned connection is
one depends on where threads are. `TypeInv` adds that a thread in a state that
uses its connection has one (`ThreadsHeld`), that a waiting client has a position
(`WaitersHeld`), that a queued return carries a connection (`TasksHeld`) and that
only resizers resize. There is one lemma per action. On it rests `QueueInv`:
each critical section that could leave both an idle connection and a request
decides between them. `AcceptedIsDelivered` needs that positions are not shared
and that a position with an error and no connection cannot accept any more:
`HandOver`, preserved by the five actions that touch a slot and framed past the
others by `HandOverFrame`.

**Pool: connections and counts.** `NoSharing` says that the places where a
connection may be add up to at most one. `Sharing` says it without a sum: no
connection is twice in one kind of place (`PoolOnce`, `CurOnce`, `SlotOnce`,
`TasksOnce`, `BatchOnce`) nor in two kinds (`Apart`). A step moves one connection
from one place to another. `IdleInv` follows the status of a connection from its
return to the deque. The counts are `SoundInv`: `ControlInv` says which thread may
hold a connection where, which tasks may be queued and that nothing happens
before `open()`; `CountInv` is `_nconns` as what is at hand for anybody (`OnHand`:
the deque, the slots, the tasks that will connect or return, the delayed ones)
and what the threads have in hand (`InHands`), in cardinalities of finite sets;
`GrowInv` counts the tasks that grow the pool and compares them with `_growing`;
`SizeInv` bounds the count by `max_size` for a pool that nobody resizes. The
cardinalities are finite although the sets of clients need not be: only finitely
many have a connection.

**Pool: the service.** `ServiceInv == TypeInv /\ QueueInv /\ HandOver /\ Sharing /\
PosOnce`. With it every step is one of the service's or stutters:
`getconn_enqueue` is `Join`; `_get_ready_connection` is `Take`, which is allowed
only when nobody waits, and that is `NoIdleWhileWaiting`; `_add_to_pool`, whoever
calls it, is `Grant` to the first position that accepts, or a stutter; a wait that
times out or is interrupted, and an error given to a position, is `Leave`;
`putconn` and a failed check are `Release`, where the latter loses the connection;
`close` is `Shutdown`. That the connection given is `Free` is `Sharing`.

**Asyncio pools.** One invariant for both classes. `Steady` is the types and what
they rest on: which task may be where, and has a connection there (`Hands`); when
`check()` and `close()` have a list (`Batches`); which tasks may be queued
(`Jobs`); that nothing happens before `open()` (`Unopened`); and that who is in the
queue of an open pool has nothing yet (`Queue`), which is what makes a cancelled
wait free of loss. `CountInv` splits the count as above. As a step moves one
task, it changes `InHands` by the difference of that task's `Part`, and each of the
five terms of `OnHand` by a number that the step tells; what is left of each action
is the sum of these (`Counts`). A cancellation is such a step whose task had the
part 0 before, by `NoneLost`.

**Scheduler.** `Inv` adds to the two properties that queued and pushed tasks
have a time (`TimesSet`); a caller at `set_event` is what makes up for the
interval between its push and the event.

**Session.** The lemmas `...Outcomes` say what each server command preserves;
the client's calls are proved from these and from `BlockCommands`, never by
expanding the server again. `EndsAlone` needs `IInv`: there are at least as many
entered blocks as live ones (`Len(live) <= num_transactions`, an inequality
because of failed entries, see observations) and an outermost block was entered when
there were none. `_pop_savepoint` compares the two: the exit that ends the
transaction has `num_transactions = 1`. `TpcInv` adds to `TpcIsOpen` that a live
outermost block has its transaction open (`OuterIsOpen`).

`WorkFollowsBlocks` rests on `BlocksInv`, which compares the live blocks with the
server's savepoints while the program is `orderly` and the connection there:
each block has the name and number that `_push_savepoint` gives (`Lined`); the
savepoint at its place is its own, and there are no others, except in a failed
transaction those of blocks that were left since (`Stack`); rows under a savepoint
were written in exactly the live blocks up to it (`Placed`); rows in the database
come from blocks that all exited well (`Stored`), and those of blocks that did are
in it or about to be (`Waiting`, `Settled`); a transaction block is left after
those in it (`Parted`). `DistinctNames` is what makes `ROLLBACK TO` and `RELEASE`,
which find a savepoint by name, find that of the block. From the same invariant,
in an orderly program a `ROLLBACK` or a `ROLLBACK TO` fails only if the
connection is lost, and this is why a `Rollback(b)` is not replaced by another exception
before it reaches `b` (`RollbackReachesTarget`).

**Pipeline: the cache.** The theorems about the cache rest on `CacheInv`: the cache is
`Sound`, that is, of its type, `Apart` (the ordered dictionaries have no key twice
and none in common) and `Fresh` (each name is used once, is below `_prepared_idx`
and is not among those to deallocate). There is one lemma per method
(`MaybeAddSound`, `ClearSound`, `EvictSound`, ...), each about any sound cache, so
that no action of the pipeline is expanded more than once. A name that `get`
gives is below the new `_prepared_idx` and above all others: this is what
`FreedIsForgotten` needs and does not say. `InStep` is inductive together with the
types of the queues (`QueuesInv`): `EnqueueInStep`, `SentInStep` and `ReadInStep`
are the three ways the queues and the wire change, and
each call is one of them (`ExecuteCommands`, `InternalCommands`).
`CacheSound` holds for any number of threads: `PlainInv` says that without pipelines
one thread at a time is between the lock and its release (`OneWorks`), that
nothing is on the wire between its commands, and that only `_maintain` of that
thread has names to deallocate.

**Pipeline: leaving and transactions.** `LeaveInv`: the steps that a thread has
still to do are in the order of the code and match the nesting (`InOrder`);
outside of pipelines nothing is queued, sent or unread (`Clean`); and on the way
out (`Leaving`) the last command is a Sync, first among those to send, then on the
wire with the status that the server has (`Synced`). `TypeOK` needs that every
name on its way to the server was given (`NamesInv`). `InTransaction` says that no
query is executed while the server is idle, although the client only knows what
it has read. `TransInv` (where `InTransaction` applies, `Hyp`) has two modes:
`Steady`, nothing queued or unread begins or ends a transaction, so the server is
in one if libpq says so or results are due; and `Draining`, everything up to
a Sync is to be sent and read, and no query among it. A query whose `BEGIN` is on
its way is in the second, and `Begun` says that it succeeds or an exception stops
the query.

**Cursors.** `NotifiedOnce` is about any cursors, whatever they do. `NotifierInv`
adds to the property the types, that everything given is at most `handled`, and
that the backlog is empty while `notifies()` runs and its batch is empty
otherwise, so that what the two add is never out of order. `MoreInOrder` says what
appending the next notifications to a rising sequence does; the calls that do not
touch the notifier are framed by `NotifierFrame` and those that only read a packet
by `NotifiedInv`. The other theorems rest on `CursorsInv`: what is in flight
belongs to the call in progress (`FlightHolds`); a client cursor has results that
follow each other and a position within the current one (`ClientsHold`,
`StreamHolds`); a server cursor, with the rows it has still to yield, is on its
portal's row or has strayed, and a closed one has no portal (`ServersHold`); a portal without HOLD lives in a
transaction (`PortalsHold`).

**COPY.** `CopyInv` places what was written: on the wire, in the worker's hands, in the
queue, with the user and in the buffer, one after the other, it is a prefix of the
stream, and all of it unless something was lost (`Ordered`); which of the user and the
worker may be where (`UserHolds`, `WorkerHolds`); how the block ends (`EndsWell`).
For COPY TO, what was given and what is still to come are the table (`OutHolds`).
The part about COPY FROM is inductive alone (`FromInv`), so that `CopyFromCorrect`
needs no hypothesis. `StatementsProofs` puts both modules together on one
connection: a step of the one leaves the variables of the other.

**Only model-checked.** `ValuesSurvive`, `ContainersSurvive`, `QueriesAgree` and
`AdaptersAgree`, the properties of the conversions: what a recursive definition
computes for every input is an induction over data.

**Out of the prover's reach.** Liveness under fairness and `ENABLED`
(`EveryWaiterServed`, `CloseReleases`, `WorkersStop`, `EveryTaskRuns`,
`AsyncWaiterServed`, `AsyncCloseReleases`, `CopyReturns`); inductions over data;
recursive operators, of which the proved modules have none. Folds and `SelectSeq`
count among these: what they return is stated with sets and quantifiers where a
proof needs it (`SavepointsMatch`, `PoolService`), and `rowcount`, a sum made by a
fold, has no type in `CursorsTypeOK`.


## Findings

Places where the code does something else than the repository says; each is a
run that ends with the shortest behaviour that shows it.

1. **A return that comes too late** (`pool_late_return`, `pool.py:332`).
   `putconn()` tests `_closed` without the lock. With a reset callback it then
   queues a `ReturnConnection`; if `close()` has come in between, its
   `StopWorker`s are ahead in the queue, no worker is left, and the connection
   stays open, although `close()` says that "putconn will just close the returned
   connection".
2. **A cleared cache that keeps a name** (`pipeline_names`, `_preparing.py:188`).
   The result of a `DROP` that is read by `sync()`, by a fetch or at the exit of a
   pipeline clears the cache and queues `DEALLOCATE ALL`; only an execution sends
   it, after it has prepared its own statement. The name of that one stays in
   `_names`, "the name of the statement if  prepared", and every later execution
   of the query fails.
3. **A cache above its limit** (`cache_limit`, `_preparing.py:141`). A query that
   was counted and reaches `prepare_threshold` moves to `_names`, and
   `maybe_add_to_cache()` returns `None`: nothing validates its result and
   `_rotate()` is not called. Up to `prepared_max` counted queries become prepared
   on top of `prepared_max` others, where `docs/advanced/prepare.rst:17-19` says
   that no more than `prepared_max` statements are planned. `CacheBounded` states
   what does hold, twice as many, and is proved.

## Observations

Other behaviour met while modelling, of which no run is made.

### Pools

* `resize()` adds the growth of `min_size` to `_nconns` whatever that is
  (`pool.py:489`): a pool of (1, 2) with two connections, resized to (2, 2), has
  three. `SizeBounded` is about pools that nobody resizes.
* `resize()` to a lower minimum does not set the event of a `wait()` in progress
  (`pool.py:486`): the pool is full by then, and `wait()` is told with the next
  connection that is returned, or times out.
* `wait()` of a null pool makes a connection that `_nconns` does not count
  (`AsyncAccounting` and `AsyncWaiterServed` exclude it with `Counted`); the
  instance `NullWait` of `MCAsyncConnectionPool` shows it.
* Only an `Exception` of the check callback returns the connection to the pool
  (`pool.py:214`). A `KeyboardInterrupt`, or in the asyncio pool a cancellation,
  loses it while `_nconns` goes on counting it: the model with a check callback and
  `Interrupts = {"check"}` violates `Accounting`.

### Transactions

* A savepoint may outlive its block (`transaction.py:181`). An inner block catches
  a database error and exits cleanly: its `RELEASE` fails. If the enclosing block
  has the same name, its `ROLLBACK TO` finds the inner savepoint and the enclosing
  block's own rows stay, to be committed later. The instance of
  `session` gives a name to one block only.
* A block is counted before its `BEGIN` or `SAVEPOINT` (`transaction.py:212`); if
  that fails nothing takes it back, and `commit()` and `rollback()` are refused
  from then on.
* A request that passes the test of `_closed` in `getconn()` and joins the queue
  after `close()` has emptied it waits for its whole timeout and fails with
  `PoolTimeout`; the docstring (`pool.py:411-412`) promises `PoolClosed`.
* `tpc_prepare()` records the transaction as prepared before it sends `PREPARE
  TRANSACTION`. If that fails, or the transaction had failed and the server
  rolls it back instead, `tpc_rollback()` asks for a prepared transaction that
  does not exist, each time, and `_tpc` is never cleared
  (`_connection_base.py:660`).
* `COMMIT` of a failed transaction is a rollback that the server reports as a
  success. A block whose error was caught inside exits without an exception and
  its work is gone (state `lost`); the code does not look at the command tag.
* The position of a client that has timed out stays in `_waiting` until a
  connection comes, and counts for `max_waiting` and `requests_waiting`.
* With three blocks that exit out of order, the rows of a block whose exit raised
  `OutOfOrderTransactionNesting` can be committed by the others. The docs call
  such a program an error; the properties about rows assume `orderly`.

### Pipelines and prepared statements

* Between the last fetch of a pipeline (`_exit_gen()`, under the lock) and
  `_exit()`, which does not take it, another thread may execute a query. Its
  results are unread and libpq refuses to leave pipeline mode. `pipeline` with
  `Threads = {t1, t2}` violates `LeavesNothing`, although
  `docs/advanced/async.rst:14` says of connections that they are thread-safe.
  `executemany()` has similar gaps between its look at `_pipeline`, the entry of
  its own and the lock.
* As the promotion of a counted query is not validated (finding 3), a `DROP` that
  was executed before does not discard the cache.
* In a pipeline that is aborted, a promoted query keeps a name whose `PREPARE`
  was skipped. A statement whose `PREPARE` succeeded and whose execution failed
  is forgotten and never deallocated. Both are why `CachedIsPrepared` is an
  inclusion and about programs without pipelines.
* A `ROLLBACK` or `COMMIT` that the program executes as a query in a pipeline
  leaves the old transaction status until the next Sync: a query that follows is
  not given a `BEGIN`. `InTransaction` excludes such programs.
* A query may be executed outside of a transaction after an exception. With two
  results in error still to read, `sync()` raises the first and skips
  `_fetch_gen()`, and the results of its Sync stay on the wire. If the program
  catches the exception and goes on in the same pipeline, a `commit()` ends the
  transaction on the server and raises the second error; libpq still has results
  to read, so that its status is `ACTIVE`, and `_start_query()`
  (`_connection_base.py:570`) sends no `BEGIN` for the next query.
  `InTransaction` is about programs that do not go on in the pipeline after an
  exception that left results unread (`past.skipped`).
* A cursor of a pipeline that is executed again before its result was read may be
  given the late result of its first query; `executemany()` adds up the row counts
  of both.

### Cursors, interrupts and notifications

* `Connection.wait()` cancels the query when it is interrupted and waits again. A
  second interrupt during that wait leaves the connection active, with results
  nobody reads; the model interrupts a call once. An interrupt during the implicit
  `BEGIN` is swallowed by the generator's own error handling and the query is
  executed after it.
* The `rownumber` of a server cursor is not always the "Index of the next row to
  fetch in the current result" (`server_cursor.py:87`). A loop left within a batch
  leaves `_pos` at the row that was yielded and the portal after the batch
  (`server_cursor.py:331-339`): the next fetch skips rows. A fetch within a loop
  skips the rest of the batch too. `AsyncServerCursor.scroll` never updates `_pos`
  (`server_cursor.py:473-475`). `scroll()` out of the rows leaves it where the
  portal is not. These are `batch` and `strayed` in the model, which
  `PositionsAgree` takes into account.
* After `COMMIT`, `_described` of a server cursor stays true: executing or closing
  it in another transaction sends `CLOSE` for a portal that is gone, which fails
  and aborts that transaction. `execute()` on a closed cursor that was described
  sends `CLOSE` before it says "the cursor is closed". After a failure in a WITH
  HOLD cursor the portal is forgotten and the next `DECLARE` finds it there.
* `notifies()` closed in the middle of a packet loses the rest of it (`lost`).
  An exception in a notify handler goes through the fetch and leaves results
  unread; the model's handlers do not raise. `notifies()` and `stream()` hold the
  lock while the program has an item.
* A query object executed again after a change of `client_encoding` uses the
  transformer of the old one.

### COPY

* `read_row()` of a binary COPY never gives a row: `_read_row_gen` compares with
  a signature that no function returns; `tests/test_copy.py:29,97` skip it. The
  constant `BinaryRows` excludes it.
* When the worker of a queued writer dies with a full queue, the producer, or the
  end of the block, waits forever at the queue (`_copy.py:233`), although the
  class says that `write()` "returns immediately". `CopyReturns` excludes exactly
  this.
* `finish()` of a writer whose worker failed raises before it ends the COPY.
* `write()` between calls of `write_row()` overtakes the rows in the buffer; the
  block in the model uses one of the two.
* A COPY TO block that is left early without an exception leaves the connection
  in the COPY. A block does not hold the connection's lock.

### Conversions

Each is excluded from a property by a named condition of its module or case.

* `dsn`: an empty value, or one with a backslash, is not read back as it was
  (`docs/api/objects.rst:59`). The error about the number of ports counts the
  hosts only, also if they are given by `hostaddr` (`_conninfo_utils.py:42`).
* A composite with one null field is "()" and is given to its factory without
  arguments. With the delimiter ";" an array element that starts with a comma is
  read as two (`NoComma`).
* `quote()` puts a space before a number below zero. A negative zero is not below
  zero: `-%s` makes `--0` of it, a comment (`QuoteStart`).
* A list whose classes have dumpers of different oids is a `DataError`
  (`array.py:62-72`, `tests/types/test_array.py:257`), but only the last item of
  each class is looked at: `[100000, 1, Int2(3)]` becomes an `int2[]`, and a list
  of times that ends with one without a zone drops the zones (`ListHoldsItems`).
* The text loader of intervals adds up seconds as a float (`datetime.py:666`):
  beyond about 71 years of hours it is off by up to the last bit, where the
  binary loader is exact (`IntervalAgrees`). A dumper made without a connection
  does not know its style.
* `JsonbBinaryLoader` reads a text whose first byte is not the version as a
  document, and hides the error of one that is not behind a `DataError`.
* A lone "%" is an error of Python's, "ValueError", with client-side binding. One
  name with two formats is refused by the server-side conversion only; positional
  placeholders with an empty mapping are sent without parameters
  (`BindingsAgree`).
* `Dumper.quote` without a connection depends on what libpq remembers of the last
  connection; another thread may change it in between (`LiteralRead` is about one
  thread).
* `AdaptersMap.get_dumper` replaces a name by its class in a dictionary that it
  may share. `TypesRegistry.add` keeps the old information under `regtype` when a
  type is registered again. `int_classes` is cached before numpy may be imported.
* The precision 65535 of an interval's modifier means none and is shown as is
  (`_typemod.py:86`). An error message of `_get_timestamp_load_error` lacks its
  `f` (`datetime.py:737`).

## What is not modelled

`PROJECT.json` says for each component what is left out. In short:

* *Not modelled*: the error classes (data), the selectors of `waiting.py` and the
  socket loops of the generators (I/O without state of their own), the tools.
* *Of the libpq wrapper and CockroachDB*: all but versions, the order of dumpers
  and defaults: declarations and one-line calls.
* *Pools*: the interpreter's finalisers, the statistics, the cancellation of
  workers and of `close()`, the threaded null pool (generated from the asyncio one).
* *Session*: transaction characteristics, blocks in pipeline mode, the clearing of
  the prepared statements at a block's rollback.
* *Pipeline*: a broken connection, COPY, `prepare_threshold = None`.
* *Cursors*: several client cursors at once (the calls exclude each other), two
  iterations at once over a server cursor, the classes that row factories make.
* *Conversions*: numpy and shapely, the caches of converted queries.

## Plan

Done: the pool, its abstract service, the asyncio and null pools with
cancellation, the scheduler, transaction blocks with commit, rollback and
two-phase transactions, prepared statements, pipeline mode, cursors with
interrupts, server cursors, COPY with both writers, notifications, the
conversions; and a theorem for each safety property of these that a run checks,
except the conversions.

Left:

1. Transaction blocks in a pipeline (`connection.py:308`): `Session` over
   `Pipeline` in place of `Server`, and with it what a Sync in a block commits.
2. The pipeline with several threads, once its exit takes the lock
   (`LeavesNothing` without `OneThread`).
3. The threaded null pool, whose critical sections are not those of the asyncio
   one.
