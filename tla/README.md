# Airport in TLA+

Airport (`src/`) is a DuckDB extension that attaches Apache Arrow Flight servers as
databases: tables are scanned with `GetFlightInfo` / `DoGet`, rows are written and functions
are called through `DoExchange`, and everything else (listing schemas, creating and dropping
objects, statistics, transactions) is a `DoAction` call. This directory models the parts of
it that have control worth checking, checks them with TLC and proves the central invariants
with TLAPS.

Paths below are relative to `src/src/`.

## 1. The system

### 1.1 Components

| Component | Source | State | Operations | Model |
|---|---|---|---|---|
| Parallel flight scan | `airport_take_flight.cpp`, `include/airport_take_flight.hpp`, `airport_flight_stream.cpp` | atomic endpoint cursor (global); per thread: reader, chunk, offset, `done`, monitor | init global/local, process endpoint, parallel state next, take flight, cancel | `AirportScan`, `FlightDelivery` |
| Columns of an endpoint | `airport_flight_stream.cpp`, `airport_take_flight.cpp`, `airport_schema_utils.cpp` | bound schema, column ids, mapping of the data's columns | examine the schema, open a stream, a file or a function, map, fill the output | `AirportEndpointColumns` |
| Bind of a flight | `airport_take_flight.cpp`, `airport_flight_statistics.cpp`, `storage/airport_table_entry.cpp` | bind data | bind by table, function or descriptor, time travel, statistics, filters, `AirportGetFlightEndpoints` | `AirportBind` |
| Interrupt monitor | `include/airport_interrupt.hpp` | `done_`, stop source, thread | construct, poll and cancel, destroy; the unary wrapper | in every module with something to cancel |
| Scan progress | `include/airport_flight_stream.hpp`, `airport_flight_stream.cpp`, `include/airport_progress.hpp` | one atomic slot per endpoint; a global registry | set count, get counter, store a report, mean | `AirportProgress` |
| Action calls | `airport_rpc.cpp` | attempt counters, result stream | `DoAction` and `Next` with retries, drain | `AirportRpc` |
| `airport_action` | `airport_action.cpp` | result stream, monitor thread | call, results, requests to cancel, destroy | `AirportAction` |
| Listing of flights | `airport_list_flights.cpp` | listing, current flight, child vectors | open, next page | `AirportListFlights` |
| Table in/out functions | `storage/airport_table_function_set.cpp` | shared exchange stream, `continuing_current_chunk`, chunk and offset | init, call, finalize | `AirportInOut` |
| Table function parameters | the same | signature, record of parameters | load, bind, serialize | `AirportFunctionParameters` |
| Scalar functions | `airport_scalar_function.cpp` | one exchange and monitor per thread | bind, init local, process chunk | `AirportScalarFunction` |
| DML exchange | `storage/airport_exchange.cpp`, `include/storage/airport_exchange.hpp`, `storage/airport_{insert,update,delete}.cpp` | writer, reader, lock, returned rows, changed count | open, sink, finalize, source | `AirportExchange` |
| DML rows, append constraints | the same, `airport_constraints.cpp` | column orders, `send_names`, returned chunk | plan, defaults, constraints, columns sent and returned | `AirportDml` |
| Tables of a schema | `storage/airport_catalog_set.cpp`, `airport_table_set.cpp`, `airport_schema_entry.cpp`, `airport_table_entry.cpp` | entries, `is_loaded`, lock, point-in-time entries of transactions | look up, scan, create, drop, alter, rename, load | `AirportTableSet` |
| Columns of a table | `storage/airport_table_set.cpp` | none | `CREATE TABLE` to the server, table entry from an Arrow schema | `AirportTableColumns` |
| Schemas of a catalog | `storage/airport_schema_set.cpp`, `airport_catalog_set.cpp`, `airport_catalog.cpp`, `airport_clear_cache.cpp` | entries, `is_loaded`, `called_load_entries`, two locks, default schema | look up, scan, create, drop, clear, load | `AirportSchemaSet` |
| Contents of a schema | `storage/airport_catalog_api.cpp`, `airport_table_function_set.cpp`, `airport_scalar_function_set.cpp` | three sets, hash of the contents | list, sort by kind, group overloads | `AirportSchemaContents` |
| Disk cache | `storage/airport_catalog_api.cpp` | a directory: files named by their hash, temporary files, a sentinel | populate, cached read, fetch, write and rename | `AirportSchemaCache` |
| Transactions | `storage/airport_transaction.cpp`, `airport_transaction_manager.cpp`, `airport_catalog.cpp` | identifier, loaded catalog version, plans | start, end, ask the version, bind, prepare, execute | `AirportTransaction` |
| Parameterized update/delete, optimizer | `storage/airport_{update,delete}_parameterized.cpp`, `airport_optimizer.cpp` | a flag of the bind data | | no (section 5) |
| Secrets, headers, JSON, errors, logging, telemetry, entry | `airport_secrets.cpp`, `airport_request_headers.cpp`, `airport_json_*.cpp`, `airport_flight_exception.cpp`, ... | none | text, registration | no (section 5) |

### 1.2 How they interact

* DuckDB runs a query as tasks. It calls `InitGlobal` once, `InitLocal` once per task and then
  the scan function of each task until it returns an empty vector; an operator with an
  input is called with one input chunk at a time until it says `NEED_MORE_INPUT`, and is
  finalized once per task. Tasks run in any interleaving, and any of them may be
  abandoned between two calls.
* The tasks of a scan share only the cursor over the endpoints and the progress slots. The
  tasks of an in/out function share a whole exchange stream under one mutex; those of a scalar
  function have an exchange each. A write has an exchange and is sunk by one task at a time: the
  sinks of INSERT, UPDATE and DELETE say so (`ParallelSink()` is false), and the mutex they take is
  never contended.
* The user interrupts a query by setting `ClientContext::interrupted`. Code that is about
  to block looks at it first; a thread that is blocked in a Flight read is woken by an
  `AirportInterruptMonitor`, a thread that polls the flag and cancels the stream.
* All `DoAction` calls of the catalog go through `AirportCallAction`, most with the query's
  context, some (creating a transaction, listing schemas) without one.
* Connections share an attached catalog: its schemas, the sets of each schema, the version last
  loaded. Each set has a lock of its own, is loaded at its first use and is then kept up to date by
  the statements of this process only. `CreateEntry`, which CREATE TABLE and CREATE SCHEMA end with, inserts
  into the set's map without the lock.
* Contents of schemas come from the disk cache when the server gives a hash. The directory is shared by
  all threads and processes of a user and has no lock.
* A plan outlives its query: DuckDB keeps the bind data of a prepared statement, with the
  transaction identifier in it, while the catalog version stays the same.

### 1.3 What is hard, and what makes each component correct

`PROJECT.json` lists every hazard at its line, with the properties that guard against it. In
short:

* **Scan.** Claims, batches, empty batches, ends, errors and interrupts interleave. Correct
  means: an endpoint is read by one task, no row is handed over twice, none is out of stream
  order, none is missing when the query succeeds, and an interrupt ends a scan whose server has
  gone silent.
* **Action calls.** The server may have executed a request whose answer was lost. Correct
  means: bounded repetition, no new request after an interrupt, a normal return only when the
  action was executed, and an end.
* **`airport_action`.** The request to cancel races with the execution it is for. Correct means: an
  interrupted execution ends although the first requests come too early or are lost, and a statement
  that reports no error has returned every result.
* **In/out functions.** A reply may take several vectors and several batches; the code tells
  "more output" from "next input" by a flag, an offset and the server's tag. Correct means:
  no call waits for a reply nobody owes, inputs are sent once, output is complete and belongs to
  its input.
* **DML and scalar exchanges.** The returned rows must be all the server's rows, in its order; the changed
  count must be the server's, not an answer that was left over; threads must not get each other's
  results; the two directions of the stream are bounded, so both sides may wait for each other.
* **Columns.** A row passes through the orders of the statement, the table, the batch, the answer
  and the output; a row id may stand anywhere. Correct means: each value is in the column of its name.
* **Bind.** The table changes between listing, binding, planning and running. Correct means:
  what is read at a version is that version throughout.
* **Catalog.** Loads, failed loads, look-ups, changes and clears of several connections
  interleave, most of them talk to the server without a lock, and creates use the map without one. Correct means: entries are not used
  after they are freed, and at rest the cache says what the server has.
* **Disk cache.** Writers die between temporary file, rename and sentinel, and draw each
  other's temporary names. Correct means: what is loaded has its hash, files under final names are complete,
  and the sentinel stands for files that are there.
* **Transactions.** An identifier must not outlive its transaction, and a version must not be older
  than the question.

## 2. The modules

| Module | What it is | Proofs |
|---|---|---|
| `FlightDelivery` | abstract: what a scan promises to the query | |
| `AirportScan` | the parallel scan; `DeliverySpec` instantiates `FlightDelivery` | `AirportScan_proofs` |
| `AirportRpc` | one action call with its server | `AirportRpc_proofs` |
| `AirportAction`, `AirportListFlights`, `AirportProgress` | other work of one thread with a server | `AirportRpc_proofs` |
| `AirportInOut` | the in/out function with its server | `AirportInOut_proofs` |
| `AirportExchange` | INSERT, UPDATE, DELETE, CREATE TABLE AS over one exchange | `AirportExchange_proofs` |
| `AirportScalarFunction` | a scalar function, one exchange per thread | `AirportExchange_proofs` |
| `AirportBind` | bind, plan and start of a flight | `AirportBind_proofs` |
| `AirportDml`, `AirportEndpointColumns`, `AirportTableColumns`, `AirportFunctionParameters` | columns, rows and parameters in their places | `AirportBind_proofs` |
| `Selection` | the elements of a sequence at given places, in order | `AirportBind_proofs` |
| `AirportTransaction` | transactions, catalog versions, prepared plans | `AirportTransaction_proofs` |
| `AirportTableSet` | the tables of a schema | `AirportTableSet_proofs` |
| `AirportSchemaSet`, `AirportSchemaContents` | the schemas of a catalog; what a schema has | `AirportTransaction_proofs` |
| `AirportSchemaCache` | the disk cache | `AirportSchemaCache_proofs` |
| `RequestParts`, `ExchangeParts`, `CatalogParts`, `ColumnParts` | several modules side by side, still for any constants | |
| `MC...` | instances for TLC | |

Components that share state are one module each, with every actor that touches the state: scan tasks,
monitors and server; a statement and both directions of its stream; connections, loads
and server tables. Components that do not share state are not composed. `RequestParts` (`AirportRpc`,
`AirportAction`, `AirportListFlights`, `AirportProgress`), `ExchangeParts` (`AirportExchange`,
`AirportScalarFunction`), `CatalogParts` (`AirportTransaction`, `AirportSchemaSet`,
`AirportSchemaContents`) and `ColumnParts` (`AirportBind`, `AirportDml`, `AirportEndpointColumns`,
`AirportTableColumns`, `AirportFunctionParameters`) hold several of them side by side, a behaviour being one
of the part it starts with, so that one run checks them all. The `...Parts` modules leave the constants open, with the assumptions of their parts, and are extended twice: by
an `MC...` module, which gives the constants values, and by a `..._proofs` module, which does not. A theorem
therefore states the very property that a run checks.

Most modules hold, next to an operator, a few *faulty variants* of it (their comments begin with
"Faulty:"). No specification uses them. Each is the operator with a plausible mistake; put in
its place, TLC refutes the property that guards against that mistake. They document what
a property is sensitive to.

Some modules have *ghost* variables that no code has: `out` (how often a row was handed over), `committed`
(requests counted when the interrupt came), `unsure`, `partial`, `exposed`, `raced`, `clashed`
(what has happened to a name, a load or a statement that excuses it from a property). No action's guard reads
them. `torn`, that two threads have used a map at once while one of them inserted, is not one of these: from then on the
map may lose entries (`LoseEntry`).

### 2.1 AirportScan and FlightDelivery

State: `current_endpoint` is `AirportArrowScanGlobalState::current_endpoint_`; `endpoint`, `batch`,
`chunk_length`, `chunk_offset`, `done` and `monitor` are the fields of the local state;
`pc` and `caller` stand for the thread's place in the code. `ProcessEndpoint` and
`ParallelStateNext` call each other recursively; `caller` records the function at the
bottom of that stack (`InitLocal`, or `TakeFlight`), which is all that matters when the
recursion returns.

| Action | Code |
|---|---|
| `InitLocal` | `AirportArrowScanInitLocalInternal`; no endpoint left means no local state |
| `ProcessEndpoint`, `DoGetReturns`, `OpenFails` | `AirportLocalStateProcessEndpoint`, cut at the blocking `DoGet` |
| `EnterRead`, `ReadRows`, `ReadEmptyBatch`, `ReadEnd`, `ReadFails` | the loop in `AirportArrowScanParallelStateNext` and the three readers, cut where the read blocks |
| `NextEndpoint` | the rest of it, once the reader is exhausted |
| `TakeFlightInterrupted`, `StreamVector`, `StreamNext`, `LocalVector`, `LocalEnd`, `LocalFails` | one iteration of `AirportTakeFlight` |
| `MonitorFires`, `ReadCancelled` | the monitor's thread, and the read it wakes |
| `Interrupt`, `Drop` | the user and DuckDB |

A row is its endpoint, batch and position. An IPC file, unlike the other readers, is not
checked for interrupts before a read; the model keeps that difference. Recursion depth is not
modelled. `FlightDelivery` has two variables, `out` and `outcome`: rows are delivered in any mix
of endpoints but in order within one, never twice; `outcome` becomes `success` only when no row is
missing. `AirportScan` implements it with `outcome <- Outcome`, what DuckDB concludes from its tasks.

### 2.2 One thread and a server: AirportRpc, AirportAction, AirportListFlights, AirportProgress

`AirportRpc`: the two attempt loops (`loop`, `attempt`), the place `pc`, whether the caller passed a
context and wants a result, and the server's side: `requests` sent and the set `executed` of
those the server has carried out, at any time after they were sent. A request is sent in
two steps, `Attempt` (the checks) and `Send`, because an interrupt can come in between. The length of
the backoff is left out; that nothing shortens it is not. That a result stream ends normally only
after the server has executed the action is an assumption on the server, and so is what a second
`Next` on a failed stream may return (nothing).

`AirportAction`: `Start`, `CallReturns`, `Check`, `ReadResult`, `ReadEnd`, `Fails` are `do_action`,
cut where it waits; `Wake`, `Ask`, `CancelServer`, `CancelAnswered`, `CancelUnanswered` are the monitor of
`ActionGlobalState` with the requests it repeats; `Destroy` is the destructor that joins it. The
server registers an execution at some time after the call, so that a request to cancel may come
before it.

`AirportListFlights`: `list_flights` cut at its reads of the listing and at each endpoint of a flight. `chunk` holds
the child vectors of the lists and each row's offsets and lengths into them, `base` the length of the list of endpoints
before the row in hand; the properties read rows back through them.

`AirportProgress`: the slots, which slot each stream was given, what each stream last
reported. A report is an integer between 0 and `Full`, or one step outside of the range; the mean is
kept as its numerator, `Sum`, which adds the slots in a recursive function as the loop of `total_progress` does.

### 2.3 Exchanges: AirportInOut, AirportExchange, AirportScalarFunction

`AirportInOut`: `tasks` (how many of the threads run the operator is up to DuckDB), `lock` (the mutex, held from `Call` to `Return`), `continuing`
(`continuing_current_chunk`), the exchange (`sent`, `done_writing`), the current reply
(`taken`, `chunk_length`, `chunk_offset`, `metadata`), and the server's side. `Call` is the head of
`AirportTakeFlightInOut` or of its finalize, `Read` is `GetNextChunk`, `Return` is the tail of
either: the two functions differ only in what they send and in how they end, and the
model says where (`Finalizing`). The server is modelled from what the code expects of it:
it answers inputs in order, tags every batch, and closes the stream after the
writes are done.

`AirportExchange`: what the statement is (`creates`, `returning`) and whether the server answers only when asked
(`answering`) are chosen in `Init` and stay; `CreateTable`, `Open`, `GetSchema` are the global sink state; `TakeChunk`, `RefuseChunk`,
`Write`, `Read` the three sinks; `DoneWriting`, `ReadChangedCount` the finalizers. There is one place in the sink (`pc`) and one
`chunk` in it, as DuckDB sinks with one task; which worker runs it makes no difference, and the lock, which
nobody else is after, is left out. `sent` and `answers`
are the two directions of the stream, each of at most `Capacity` messages, so that a
server that answers unasked and a client that does not read can block each other; the
deadline of the call then ends the statement.

`AirportScalarFunction`: `Open` and `GetSchema` are the constructor of the local state, `Evaluate`,
`WriteRecordBatch`, `ReadAnswer`, `ReadEnd` are `process_chunk`. The server may answer with another number of rows; the
client does not look.

### 2.4 Columns: AirportBind, AirportDml, AirportEndpointColumns, AirportTableColumns, AirportFunctionParameters

`AirportBind` is a state machine of a table that changes and a query that is bound, planned and run,
possibly more than once; a version stands for the columns and rows the table had.

The other four follow one row, one schema or one call through the functions that reorder it. Their
actions are those functions in the order the code calls them, and their operators the loops over
columns; a value is stood for by the column (field, parameter) it belongs to, so that "in its place" is
equality. Inputs are enumerated by `Init`: all statements, schemas, answers or functions of the
instance.

### 2.5 The catalog: AirportTransaction, AirportTableSet, AirportSchemaSet, AirportSchemaContents

`AirportTransaction`: identifiers are numbers given out by the server; `plan` is the prepared statement of a
connection, `request` the last request that carried an identifier, with the identifier of its own transaction
beside it; `loaded` is `loaded_catalog_version`, `since` and `seen` the version when a
question was asked and the answer.

`AirportTableSet`: entries are addresses of a heap, so that a pointer to a freed entry can be seen. A
statement goes `Begin`, `Lock`, (`List`, `InsertListed`, `Loaded`), `Find`, `Serve`, and one of
`EnterMap` and `CreateEntry`, `DropEntry`, `ReplaceEntry`, `KeepTemporary`, cut wherever the lock is taken or released
or the server is asked. CREATE TABLE inserts without the lock: it is in the map from `EnterMap` to `CreateEntry`, and
whoever uses the map meanwhile, whatever the name (another create, a load, a look-up, a drop, a replacement: `Use`), makes
it `torn`. That is undefined behaviour in the code; the model lets a torn map lose any entries at any time (`LoseEntry`), and the
properties promise nothing of it (`unsure` becomes all names). Loads insert under the lock of those that look up, drop and alter.

`AirportSchemaSet`: the same set, but with the second `entry_lock` of `AirportSchemaSet`, the second flag
`called_load_entries`, the clearing of the cache, and the redirection of the default
schema; a load runs under the first lock, the second, or neither. CREATE SCHEMA inserts under neither, as above, and so may
a load: any two threads in the map at once, one of which inserts or erases, make it `torn`.

`AirportSchemaContents`: the three sets of a schema (tables, table functions, scalar functions) load
separately; `source` is where each load gets the whole list from, `groups` the overloads it makes.

### 2.6 AirportSchemaCache

State: `files`, what is in the directory under final and temporary names; `sentinel`; each loader's place (`pc`),
what it was asked to load (`want`), what it has still to write (`todo`), what it writes or returns (`got`), its
temporary name (`temp`) and the file it has open (`handle`). A file is written in parts. `Populate`, `NextItem`,
`WriteSentinel` are `PopulateCatalogSchemaCacheFromURLorContent`; `Load`, `ReadCache`, `Fetch` are
`getCachedRequestData` and `GetRequest`; `Draw`, `Open`, `WritePart`, `WriteRest`, `Look`, `Move` are the
writing of a file. A loader may fail or die at each of these steps, may draw the name of a
temporary file another one is writing (a clash), and files may be damaged from outside.

## 3. The runs

| Run | Question | Instance |
|---|---|---|
| `scan` | the inductive invariant, completeness, order, blocked reads, refinement of `FlightDelivery` | 3 threads, 5 endpoints |
| `scan_live` | does every scan end with a server that answers, and an interrupted one with a server that need not | 2 threads, 3 endpoints |
| `in_out` | invariant, flag, inputs sent, output returned, end | 1 and 2 threads with 3 inputs each |
| `requests` | calls of one thread: retries, `airport_action`, listing, progress | 5 retries; 2 results; 5 flights; 3 endpoints |
| `columns` | columns, rows and parameters in their places | 3 versions; up to 3 columns, 3 fields, 3 parameters |
| `exchanges` | DML, CREATE TABLE AS, a server that answers unasked, a scalar function | 5 chunks; 2 threads |
| `catalog` | transactions and versions, schemas, contents of a schema | 2 connections, 2 schemas, 2 changes, 2 versions |
| `tables` | life of entries, and entries against the server | 2 connections, 2 tables, 3 addresses |
| `cache` | what is loaded, what is complete, what stays | 2 loaders, 2 contents, 2 temporary names |
| `in_out_whole_vectors` | finding 1 | replies that end with whole vectors |
| `endpoint_columns_missing` | finding 2 | as `columns` |
| `transaction_prepared` | finding 3 | 2 connections |

**Bounds.**

* *Scan, in/out, listing.* A vector has two rows instead of 2048, so that a batch of three rows is longer
  than a vector, one of two is exactly a vector and one of one is shorter. The scan instance has a
  batch that needs two vectors, an empty batch between two others, an endpoint without
  batches, one whose only batch is empty, two Flight endpoints (so that a thread can replace
  its monitor), and more endpoints than threads, so that a thread claims again and two threads find
  the list exhausted. Three threads are the least with which one can fail, one finish and one still
  read. The passing in/out instances have replies of several batches and vectors, none of
  which fills its last vector: that case is finding 1, and with it the remaining properties would only
  repeat the finding. Five flights are two vectors and a half.
* *Exchanges.* Five chunks are more than the four messages that fit in the stream, two in each direction, so that CREATE TABLE AS
  runs ahead of a server that answers unasked until neither side can write. Two threads of a scalar function have an exchange
  each and share nothing else.
* *Columns.* Three columns are enough for a row id to be first, in the middle and last, and for a missing column with columns
  on both sides. Types and names are as many as make a wrong one visible.
* *Catalog.* Two connections make every pair of operations overlap. `MaxVersion`, `MaxChanges`, `MaxDamage`,
  `MaxRuns` and the number of identifiers cut off counters that grow without bound in the code. In `tables` the server gives
  one new version; drops do not count, so that a table can be dropped and created by the other
  connection. Two changes of the schemas let two CREATE SCHEMA, or one and a drop, meet in the map, and let a schema be created, dropped
  and looked up;
  once the map of schemas is torn `LookupSeesServer` says nothing, and the run follows only the losses (`MCTornLoses`, an
  action constraint; the theorem knows no such bound). Three addresses are one more than tables, so that an entry at a point in time has room.
* *Requests.* The code's five retries. Nothing else is cut off.

**Symmetry** is used in `scan`, `catalog`, `tables`, `cache` and `transaction_prepared`, which check no liveness.

**Deadlock** is checked except in `requests`, `columns`, `exchanges`, `catalog` and the violation runs of the same
instances, whose parts stop when a call, a statement or the bounded changes are over; in the other runs the
states in which everything is over have a step of their own (`QueryOver`, `Over`).

### 3.1 Fairness

* *DuckDB keeps running its tasks*: weak fairness of the steps a thread takes by itself. The
  scheduler gives every task of a running query time.
* *Monitors poll*: the loop of `AirportInterruptMonitor` sleeps 10 ms and looks again, and a
  cancelled gRPC read returns (`ReadCancelled`).
* *Local reads return*: IPC files and streams are bounded file reads.
* *DoGet returns*: an assumption on the server. The call has no deadline, and the monitor
  exists only after it has returned (`airport_take_flight.cpp:1094`); without this assumption
  an interrupted scan may hang. The same gap is in the exchanges: until the server has sent its
  schema no monitor runs, and `WaitsEnd` promises the end of an interrupted statement only after that.
* *The server answers reads*: only where the property says so, for `ScanTerminates`, the listing
  and `ExchangeEnds`.
* *Deadlines expire*: an action call with a context has a deadline of 300 s, so each attempt
  ends, with an IOError if nothing else. A call without a context has none, and `CallEnds`
  promises nothing for it. An exchange has one for the whole statement.
* *Requests to cancel*: each is answered or fails, and of infinitely many one is answered (strong
  fairness of `CancelAnswered`), as the monitor of `airport_action` repeats them.

### 3.2 Findings

1. `in_out_whole_vectors`. `AirportTakeFlightInOut` resets `chunk_offset` before it compares it
   with the length of the chunk. A reply batch of a multiple of 2048 rows, tagged
   `chunk_finished`, is therefore taken for unfinished: `continuing_current_chunk` stays set, the
   next call sends no input and waits, holding the lock, for a batch the server does not owe. The
   deadline of the exchange ends the wait with an error. Finalize has the same test.
2. `endpoint_columns_missing`. When an endpoint's table function lacks columns that are asked for, the ones it
   has are moved together and the NULLs of the others are put where their index in the flight
   says, over values. With the missing columns last, which `MissingLastColumnsAreNull` checks, it comes out right.
3. `transaction_prepared`. The identifier of a transaction is part of the bind data, so that a prepared scan
   executed in a later transaction sends the identifier of the one it was prepared in.

### 3.3 Other places where code and intention part

These came up while the modules were written. The models do what the code does, and the properties
leave the case out, by a condition that the comment of the property names.

* `AirportInOut`: `continuing_current_chunk` belongs to the shared stream but describes one
  thread's call. Two threads can violate the function's own assertion on the last metadata; in a build without
  assertions an input chunk is not sent. `EachInputSentOnce` and `OutputBelongsToInput` speak of a thread alone.
* `AirportProgress`: all streams write to slot 0 while the mean divides by the number of endpoints, so that the
  bar never fills with more than one endpoint; nothing registers a scan, so that the exported progress function answers -1.
* `AirportListFlights`: the flight that has been read when a vector is full is lost
  (`ShortListingComplete` is about lists shorter than a vector); the locations of a second endpoint are written to the place of the first
  (`RowsReadBack` is about the locations of flights with one endpoint).
* `AirportAction`: a read that fails because the server has cancelled the execution is reported as an error, not as an
  interrupt.
* `AirportDml`: the values of an UPDATE ... RETURNING come back by position; `EchoedUpdateReturned` is about servers that answer in
  the order they were sent.
* `AirportBind`: a flight that is named by descriptor and read at a version is bound with the latest columns
  (`TimeTravelKept` leaves it out); behind a row id, statistics are asked for under the name of the field before
  (`StatisticsOwnColumn` is about row ids that come last).
* `AirportFunctionParameters`: with a table input, named parameters before positional ones shift the values; a named
  parameter of type ANY gets the type of another one. `ParametersAsGiven` leaves both out.
* `AirportSchemaContents`: functions whose names differ only in case are grouped apart and one group is lost.
* `AirportSchemaSet`: after a clear, `called_load_entries` keeps the set empty, and a failed load leaves it incomplete:
  `LookupSeesServer` then only says that what is found is the server's. A scan and a look-up may load
  at the same time under different locks, and `LookupSeesServer` leaves that out. The default schema is asked for before it is known.
* `AirportTableSet`, `AirportSchemaSet`: `CreateEntry` inserts into a map that other threads use, without the lock
  (`airport_catalog_set.cpp:128`). `EntriesSafe`, `EntriesMatchServer` and `LookupSeesServer` leave out what follows when
  another thread is in the map at that moment.
* `AirportTableSet`, `AirportSchemaSet`: a drop asks the server without a lock and then asserts that the entry is there. Another
  connection may have dropped it, and CREATE OR REPLACE SCHEMA drops a schema that may not exist. The model goes on, as a build
  without assertions does.

## 4. The proofs

TLAPS proves every invariant and every action property that a passing run checks, for every value of the constants that
the named assumptions allow. What it does not prove is listed at the end of this section.

| Module | Theorem | States |
|---|---|---|
| `AirportScan_proofs` | `ScanInvariant` | `Spec => []ScanInv` |
| | `TypeCorrect`, `EndpointExclusion`, `AtMostOnce`, `CompleteOnSuccess` | `TypeOK`, `OneReaderPerEndpoint`, `NoRowTwice`, `NothingLostOnSuccess` |
| | `InStreamOrder` | `Spec => RowsInStreamOrder` |
| | `ImplementsDelivery` | `Spec => DeliverySpec`, the refinement of `FlightDelivery` |
| | `ReadsAreCancellable` | `BlockedReadIsCancellable` |
| `AirportInOut_proofs` | `InOutInvariant` | `Spec => []InOutInv` |
| | `ContinuingIsRight`, `InputsSentOnce`, `OutputIsForInput` | `ContinuingMeansMoreOutput`, `EachInputSentOnce`, `OutputBelongsToInput` |
| `AirportRpc_proofs` | `RpcInvariant` | `Spec => []RpcInv` |
| | `AtMostMaxRetries`, `ReturnedMeansExecuted`, `InterruptStopsRequests` | `RequestsBounded`, `ReturnMeansExecuted`, `NoRequestAfterInterrupt` |
| | `CompleteOrReported`, `ListingIsReadBack`, `BarBehindReports` | `CompleteIsComplete`, `ListingReadsBack`, `BarNotAhead` |
| `AirportExchange_proofs` | `ExchangeInvariant` | `Spec => []ExchangeInv` |
| | `SentAtMostOnce`, `CompleteWhenFinished` | `ChunkOnce`, `SuccessIsComplete` |
| | `ResultsOfOwnRows` | `ResultsMatchRows` |
| `AirportBind_proofs` | `BindInvariant`, `ReadsTheVersionAsked` | `BindInv`, `TimeTravelKept` |
| | `RowsAreInPlace`, `FlightColumnsAreInPlace`, `TableColumnsAreInPlace`, `ParametersAreAsGiven` | `RowsInPlace`, `FlightColumnsInPlace`, `TableColumnsInPlace`, `ParametersAsGiven` |
| `AirportTransaction_proofs` | `TransactionInvariant` | `Spec => []TransactionInv` |
| | `OwnTransaction`, `VersionCurrent` | `NoBorrowedTransaction`, `VersionNotOld` |
| | `LooksUpWhatServerHas`, `SchemaAsListed` | `LookupSeesServer`, `ContentsAsListed` |
| `AirportTableSet_proofs` | `TableSetInvariant` | `Spec => []TableSetInv` |
| | `EntriesAreSafe`, `EntriesAsServer` | `EntriesSafe`, `EntriesMatchServer` |
| `AirportSchemaCache_proofs` | `CacheInvariant` | `Spec => []CacheInv` |
| | `LoadsHaveTheirHash`, `FilesComplete`, `FilesOfTheCacheStay` | `LoadedHasHash`, `CachedFilesComplete`, `FilesStay` |

*Assumptions* are the named `ASSUME`s of the modules; of a module that is a part of another, the `...Parts` module
assumes them for the constants it gives the part. They say that constants have their types, that there is
a thread, that a vector has at least one row, that a local table function returns no empty vector
before its end and no more than a vector at a time (which DuckDB's protocol for table functions says), that null values
are not values, and what DuckDB grants of a statement: no two columns of one name, one primary key at most. TLC
evaluates them in the runs. Nothing is assumed of a server beyond what its actions say. `ContinuingIsRight` alone has a
hypothesis, that no answer ends in a full vector; finding 1 is what happens otherwise.

*Properties of several parts* (`RowsInPlace`, `LookupSeesServer` and so on) speak of one part each. Their invariant is
that of the part, under the condition that a behaviour is one of it; steps of other parts leave it alone, so that a
proof is that of the part, with its specification instantiated.

**Scan.** That no row is handed over twice is not inductive: a state in which two
threads hold the same endpoint satisfies it and the next step breaks it. `ScanInv` adds that the
cursor separates claimed from unclaimed endpoints (`endpoint[t] < current_endpoint`), that at most
one thread is scanning an endpoint, that the chunk is the batch the reader stands at
(`ChunkIsCurrentBatch`), that of the endpoint a thread is scanning exactly the rows before its
position were handed over (`PositionInv`), and that of every other endpoint none were (unclaimed) or
all (exhausted), unless some thread has given it up (`EndpointInv`). Completeness then needs
only that a finished thread has seen the cursor beyond the list. Each action is proved in a lemma of its
own; the claim of an endpoint and the hand-over of rows are the two that carry the argument.

**Refinement.** Only `StreamVector` and `LocalVector` change `out` (`HandsOut`): what they hand out is a set of rows of
one endpoint, none of them handed out before, and with each row all before it. That is a `Deliver` of
`FlightDelivery`, and stream order as well. All other steps leave `out` alone; the outcome becomes
success only with the last thread, when `ScanInv` says that nothing is missing, and no step leaves
success. For the cancellable reads, `MonitorInv` says that a thread between opening a stream and its
end has a monitor of that stream.

**In/out functions.** `StreamInv` follows the rows through the lock: `ServerInv` says that the replies are the
answers to the inputs sent, in order, `ChunkInv` that the chunk is the reply taken last, `HandedInv` that the rows
before the offset, and all of earlier replies, have been handed out. What a thread may conclude from `continuing` (`LockstepInv`)
holds while only one runs the operator, or for the thread that has the lock; `AloneInv` counts the inputs of a
single thread, and `CompletionInv` says which tasks have ended and therefore what the server still owes. `InOutInv`,
which the run checks, follows. `OutputBelongsToInput` is an action property: it is read off `StreamInv` at `Return`.

**Action calls.** The bound on the requests follows from the attempt counter only
together with where the counter and the requests differ by one; the absence of late requests needs that
a thread past the checks is one the interrupt has counted.

**`airport_action`, listing, progress.** `ActionInv` adds that nothing happens at the server before the call and that the
last result has been returned when the monitor is awaited. `ListingInv` (`TypeOK`, `RowsReadBack`, `RowsInOrder`, `ChunkInv`, `OrderInv`) says of the
vector in hand that its rows read back already and that the row being written lies behind them in the child vectors, so
that appending to a child never moves what a row above points to; `OrderInv` counts rows to the flight they are. `ProgressInv`
(`SlotShared`) says that all streams write the first slot, which is one of the last reports; that all other slots are
zero and that one report is at most the sum of all are proved by induction over the endpoints.

**Transactions.** `TransactionInv` says that identifiers are issued once and lie within what was
issued, and that a version that was answered lies between the question and the catalog.

**Schemas, contents.** As long as no two threads have used the map at once, `EntriesInv` says that one at a time does, and that,
for a name no statement is between the server and the map with, entries and what a load has still to insert are schemas of the server: that needs
nothing of loads that fail or of clears. While none of these has happened either (`Clean`), `LoadInv` says that at most one load does anything and
that a look-up is past it, and `CompleteInv` that entries and what a load has still to insert are all the server has. `ContentsInv` says of each of the three sets that its list is one version the server had, and of its groups that
names have gone into them together.

**Exchanges.** `ExchangeInv` says that a chunk is in one place, and, while rows are returned, that nothing is under way
except what the sink waits for, its chunk not yet served or the answer, and that the rows returned are the answers to all other
chunks in the order the server applied them (`SinkInv`). `Completion` adds that a chunk
that was taken is in hand or sent (`ChunksKept`), and that the final message, and so the count, comes after all
chunks (`CountLast`); it holds for every server until the answers are counted. Of a scalar function, `FunctionInv` says
for each thread what its exchange has under way; threads share nothing but the interrupt.

**Bind.** `BindInv` adds that something is bound, and statistics of it are known, only between the beginning and the end of a query.

**Columns.** The places are proved from what the loops over columns collect. `SelectedPlaces` is the lemma they share: the
`k`-th number that `InOrder(P, n)` collects is the one with `k - 1` members of `P` before it, all members are collected, each
once and in order. `DmlInv` then carries the order of the batch (`PhaseInv`) from the plan to the answer; that an UPDATE finds
every column in the answer it echoes needs a pigeonhole argument over the places. `EndpointInv` has what an endpoint is read
with (`ReadingInv`): columns known to the data are mapped to their names' places, the others are NULL, and if they are last the two
do not mix. `TableInv` has where request, schema and entry come from (`MadeInv`); the row id shifts all columns behind it by one
(`KeptFacts`, `ServedShape`), a name that was there `b` times before gets `b`, and two names that fold to one have different `b`
(`DeduplicatedDistinct`). `FunctionInv` has what the call has given (`CallInv`); the position of a positional parameter is its number less
the named ones before it, which is what the code counts.

**Disk cache.** `CacheInv` says that two loaders with the same temporary name are both about to create
it, unless they have clashed; that the temporary file of a loader then has what the loader has written; and
that a catalog's loader leaves nothing of its list behind that is not in the directory or being written, which the
sentinel rests on. Crashes and failures of a loader only drop what is its own. That a load has its hash needs none
of this: it is checked when it is read.

**Tables.** `EntriesMatchServer` speaks of names at rest; a step between the server's answer and the change of the
entry breaks it if nothing is known of the way there. `TableSetInv` says, for a name no two changes of which overlapped or failed
(`unsure`), what the entry says while no change of it is answered (`EntryInv`), and while one is, what the server has done and what the
entry still says (`PendingInv`). Until the map is torn, what a statement finds there is what the last user left (`OnlyCreatesUnlocked`: two are in the map
together only if one is a CREATE TABLE at its insert, and that tears it). That only one change is under way comes from `OverlapInv`; that a rename finds
its entry from `AlterInv`; that a load inserts present versions from `LoadInv`: while the set is
loaded, under the lock, only CREATE TABLE, which does not look up its table, gets past the look-up. Live pointers come from
`HeldInv`: a statement that no change overlaps with holds entries of its own names or of its own transaction.

**Loops.** No module declares a RECURSIVE operator; loops over data are recursive functions on an interval. What
they compute is proved by induction over a *set* (`NumbersUpTo`: a set of numbers that has 0 and with each number the next has
all of them), as the induction theorems of the library take an operator, which the provers cannot instantiate. `Selection`
is there for this reason: `SelectSeq` tests elements with an operator.

**What proving changed.** Some conditions came to light only here and are now in the modules. A scalar function
with no parameters is bound once too (`Bind`); a CREATE OR REPLACE SCHEMA goes on as a CREATE SCHEMA, so that an instance with the one has the other (`KindsAssumption`); a listed flight's locations are read back only where one endpoint has them; the number that stands for the row id must not be the
number of a column (in the code it is 2^64 - 1), nor a number behind the last one; DuckDB refuses a call with two tables; the last
argument of a call is followed by a number that no parameter has.

*Only model-checked.* Liveness (`ScanTerminates`, `InterruptStops`, `ExchangeEnds`, `WaitsEnd`, `PartsEnd`):
the prover does not reach reasoning about ENABLED. The properties of the three violation runs are false.

## 5. Not modelled

* *Parameterized update and delete, optimizer.* DuckDB chooses the parameterized operators only for scans the optimizer
  has marked, and refuses UPDATE and DELETE of a table without row ids before it gets there; the operators
  themselves send nothing and count nothing.
* *Value conversion, headers, secrets, logging, telemetry, JSON.* No control that a property would be about. Filters are text; whether they
  are sent is in `AirportBind`.
* *CHECK constraints*: evaluated by DuckDB. *Memory and CPU counters of the progress*: shown, never read.
* *The backoff, poll intervals and deadlines*: only that they end.
* *Recursion depth of the scan, the cache of Flight clients*: no property of the modules depends on them.
* Arrow, gRPC, DuckDB and the server are external: what the code relies on is modelled as their actions,
  marked external in `PROJECT.json`, and assumed as section 3.1 says.

## 6. Plan

1. Proofs: the abstract catalog below, once it is stated.
2. Models: an abstract catalog (a map that at rest equals the server's) that `AirportTableSet` and
   `AirportSchemaSet` both implement; a larger `tables` instance, with three connections.
3. Composition of transactions with the table set, so that point-in-time entries and identifiers end together.
