---------------------------- MODULE AirportScan ----------------------------
(***************************************************************************)
(* The parallel scan of a flight (airport_take_flight.cpp).                *)
(*                                                                         *)
(* A flight is a list of endpoints.  The threads of one query share an     *)
(* atomic cursor over that list: a thread claims an endpoint, opens it,    *)
(* pulls its record batches, hands them to DuckDB in vectors of at most    *)
(* VectorSize rows, and claims another endpoint when the stream ends.      *)
(* An endpoint is read over Flight (DoGet, with a monitor thread that      *)
(* cancels the stream when the query is interrupted), from an Arrow IPC    *)
(* stream or file, or by a local DuckDB table function.                    *)
(*                                                                         *)
(* A row is the triple <<endpoint, batch, position>>; out counts how often *)
(* each row has been given to DuckDB.                                      *)
(***************************************************************************)
EXTENDS Integers, Sequences, FiniteSets

CONSTANTS
  Threads,       \* the DuckDB tasks that run the scan
  NumEndpoints,  \* number of endpoints the server returned for the flight
  Kind,          \* [Endpoints -> Kinds], how an endpoint is read
  Batches,       \* [Endpoints -> Seq(Nat)], rows of each record batch
  VectorSize     \* STANDARD_VECTOR_SIZE

Endpoints  == 0 .. NumEndpoints - 1
NoEndpoint == -1
Kinds      == {"flight", "ipc_stream", "ipc_file", "local"}

ASSUME ThreadsAssumption == Threads # {}
ASSUME EndpointsAssumption == NumEndpoints \in Nat
ASSUME VectorSizeAssumption == VectorSize \in Nat \ {0}
ASSUME KindAssumption == Kind \in [Endpoints -> Kinds]
ASSUME BatchesAssumption == Batches \in [Endpoints -> Seq(Nat)]

\* A DuckDB table function returns an empty vector only at its end, and never
\* more than one vector at a time.
ASSUME LocalScanAssumption ==
  \A e \in Endpoints : Kind[e] = "local" =>
    \A b \in 1 .. Len(Batches[e]) : Batches[e][b] \in 1 .. VectorSize

RowsOfBatch(e, b) == {<<e, b, i>> : i \in 1 .. Batches[e][b]}
RowsOfEndpoint(e) == UNION {RowsOfBatch(e, b) : b \in 1 .. Len(Batches[e])}
Rows == UNION {RowsOfEndpoint(e) : e \in Endpoints}

VARIABLES
  current_endpoint,  \* the shared atomic cursor
  interrupted,       \* ClientContext::interrupted
  pc,                \* where each thread is
  caller,            \* which function of the scan DuckDB has called
  endpoint,          \* the endpoint the thread's reader belongs to
  batch,             \* batches taken from that reader
  chunk_length,      \* rows of the current chunk
  chunk_offset,      \* rows of it already handed out
  done,              \* the local state's done flag
  monitor,           \* the thread's interrupt monitor
  out                \* how often each row was handed to DuckDB

vars == <<current_endpoint, interrupted, pc, caller, endpoint, batch,
          chunk_length, chunk_offset, done, monitor, out>>

chunkVars == <<batch, chunk_length, chunk_offset>>

Ended    == {"finished", "interrupted", "failed", "dropped"}
Places   == {"init", "open", "doget", "fetch", "reading", "ready"} \cup Ended
Monitors == [stream : Endpoints \cup {NoEndpoint}, fired : BOOLEAN]

Smaller(a, b) == IF a < b THEN a ELSE b

Init ==
  /\ current_endpoint = 0
  /\ interrupted = FALSE
  /\ pc = [t \in Threads |-> "init"]
  /\ caller = [t \in Threads |-> "InitLocal"]
  /\ endpoint = [t \in Threads |-> NoEndpoint]
  /\ batch = [t \in Threads |-> 0]
  /\ chunk_length = [t \in Threads |-> 0]
  /\ chunk_offset = [t \in Threads |-> 0]
  /\ done = [t \in Threads |-> FALSE]
  /\ monitor = [t \in Threads |-> [stream |-> NoEndpoint, fired |-> FALSE]]
  /\ out = [r \in Rows |-> 0]

-----------------------------------------------------------------------------
(* The scan's own steps.                                                   *)

Goto(t, place) == pc' = [pc EXCEPT ![t] = place]

\* Faulty variants of an operator stand before it and say what is wrong in them;
\* no specification uses one.

\* GetNextEndpoint: one atomic fetch_add on the shared cursor.
GetNextEndpoint(t) ==
  /\ current_endpoint' = current_endpoint + 1
  /\ endpoint' = [endpoint EXCEPT ![t] =
                    IF current_endpoint < NumEndpoints THEN current_endpoint ELSE @]

\* A thread starts.  With no endpoint left it gets no local state, and its
\* first call returns an empty vector.
InitLocal(t) ==
  /\ pc[t] = "init"
  /\ GetNextEndpoint(t)
  /\ Goto(t, IF current_endpoint < NumEndpoints THEN "open" ELSE "finished")
  /\ UNCHANGED <<interrupted, caller, chunkVars, done, monitor, out>>

\* ProcessEndpoint up to the point where the reader is in place: chunk and
\* offset are reset, IPC files and local functions are opened at once, a
\* Flight endpoint checks for an interrupt and then calls DoGet.
ProcessEndpoint(t) ==
  /\ pc[t] = "open"
  /\ batch' = [batch EXCEPT ![t] = 0]
  /\ chunk_length' = [chunk_length EXCEPT ![t] = 0]
  /\ chunk_offset' = [chunk_offset EXCEPT ![t] = 0]
  /\ \/ /\ Kind[endpoint[t]] = "flight"
        /\ Goto(t, IF interrupted THEN "interrupted" ELSE "doget")
        /\ UNCHANGED caller
     \/ /\ Kind[endpoint[t]] \in {"ipc_stream", "ipc_file"}
        /\ Goto(t, "fetch")
        /\ UNCHANGED caller
     \/ /\ Kind[endpoint[t]] = "local"
        /\ Goto(t, "ready")
        /\ caller' = [caller EXCEPT ![t] = IF @ = "InitLocal" THEN "none" ELSE @]
  /\ UNCHANGED <<current_endpoint, interrupted, endpoint, done, monitor, out>>

\* Faulty: the monitor of the thread's first stream is kept.
DoGetReturnsOldMonitor(t) ==
  /\ pc[t] = "doget"
  /\ monitor' = [monitor EXCEPT ![t] =
                   IF @.stream = NoEndpoint THEN [stream |-> endpoint[t], fired |-> FALSE] ELSE @]
  /\ Goto(t, "fetch")
  /\ UNCHANGED <<current_endpoint, interrupted, caller, endpoint, chunkVars, done, out>>

\* DoGet returned a stream: it becomes the reader and a new monitor, bound to
\* it, replaces the previous one.
DoGetReturns(t) ==
  /\ pc[t] = "doget"
  /\ monitor' = [monitor EXCEPT ![t] = [stream |-> endpoint[t], fired |-> FALSE]]
  /\ Goto(t, "fetch")
  /\ UNCHANGED <<current_endpoint, interrupted, caller, endpoint, chunkVars, done, out>>

\* An endpoint without locations, a data URI that cannot be opened, or a DoGet
\* the server refuses.  A failed DoGet becomes an interrupt if one is pending.
OpenFails(t) ==
  /\ pc[t] \in {"open", "doget"}
  /\ Goto(t, IF pc[t] = "doget" /\ interrupted THEN "interrupted" ELSE "failed")
  /\ UNCHANGED <<current_endpoint, interrupted, caller, endpoint, chunkVars, done, monitor, out>>

\* GetNextChunk enters the reader.  The file reader has no interrupt check.
EnterRead(t) ==
  /\ pc[t] = "fetch"
  /\ Goto(t, IF interrupted /\ Kind[endpoint[t]] # "ipc_file" THEN "interrupted" ELSE "reading")
  /\ UNCHANGED <<current_endpoint, interrupted, caller, endpoint, chunkVars, done, monitor, out>>

NextBatchSize(t) == Batches[endpoint[t]][batch[t] + 1]

\* A batch is there to be taken from the reader.
TakeBatch(t) ==
  /\ pc[t] = "reading"
  /\ batch[t] < Len(Batches[endpoint[t]])
  /\ batch' = [batch EXCEPT ![t] = @ + 1]

\* A batch with rows becomes the current chunk, and the function that asked returns.
ReadRows(t) ==
  /\ TakeBatch(t)
  /\ NextBatchSize(t) > 0
  /\ Goto(t, "ready")
  /\ chunk_length' = [chunk_length EXCEPT ![t] = NextBatchSize(t)]
  /\ caller' = [caller EXCEPT ![t] = IF @ = "InitLocal" THEN "none" ELSE @]
  /\ UNCHANGED <<current_endpoint, interrupted, endpoint, chunk_offset, done, monitor, out>>

\* ParallelStateNext found its reader exhausted: claim another endpoint, or set
\* done and report the end.  InitLocal ignores that report, so a thread whose
\* endpoints were all empty is still called once.
NextEndpoint(t) ==
  /\ GetNextEndpoint(t)
  /\ \/ /\ current_endpoint < NumEndpoints
        /\ Goto(t, "open")
        /\ caller' = [caller EXCEPT ![t] = IF @ = "InitLocal" THEN @ ELSE "TakeFlight"]
        /\ UNCHANGED done
     \/ /\ current_endpoint >= NumEndpoints
        /\ done' = [done EXCEPT ![t] = TRUE]
        /\ Goto(t, IF caller[t] = "InitLocal" THEN "ready" ELSE "finished")
        /\ caller' = [caller EXCEPT ![t] = "none"]

\* Faulty: an empty batch is taken for the end of the stream.
ReadEmptyBatchAsEnd(t) ==
  /\ TakeBatch(t)
  /\ NextBatchSize(t) = 0
  /\ NextEndpoint(t)
  /\ UNCHANGED <<interrupted, chunk_length, chunk_offset, monitor, out>>

\* Faulty: the reader does not move past an empty batch.
ReadEmptyBatchAgain(t) ==
  /\ pc[t] = "reading"
  /\ batch[t] < Len(Batches[endpoint[t]])
  /\ NextBatchSize(t) = 0
  /\ Goto(t, IF interrupted THEN "interrupted" ELSE "fetch")
  /\ UNCHANGED <<current_endpoint, interrupted, caller, endpoint, chunkVars, done, monitor, out>>

\* An empty batch is skipped, after another interrupt check.
ReadEmptyBatch(t) ==
  /\ TakeBatch(t)
  /\ NextBatchSize(t) = 0
  /\ Goto(t, IF interrupted THEN "interrupted" ELSE "fetch")
  /\ UNCHANGED <<current_endpoint, interrupted, caller, endpoint, chunk_length, chunk_offset,
                 done, monitor, out>>

\* The stream ends: GetNextChunk returns a released, empty chunk.
ReadEnd(t) ==
  /\ pc[t] = "reading"
  /\ batch[t] = Len(Batches[endpoint[t]])
  /\ chunk_length' = [chunk_length EXCEPT ![t] = 0]
  /\ NextEndpoint(t)
  /\ UNCHANGED <<interrupted, batch, chunk_offset, monitor, out>>

\* Faulty: the status of the read is ignored, and no batch means the end.
ReadFailsAsEnd(t) ==
  /\ pc[t] = "reading"
  /\ Goto(t, IF interrupted THEN "interrupted" ELSE "finished")
  /\ UNCHANGED <<current_endpoint, interrupted, caller, endpoint, chunkVars, done, monitor, out>>

\* The read fails: a server error, or progress metadata that does not parse.
\* It is reported as an interrupt when one is pending.
ReadFails(t) ==
  /\ pc[t] = "reading"
  /\ Goto(t, IF interrupted THEN "interrupted" ELSE "failed")
  /\ UNCHANGED <<current_endpoint, interrupted, caller, endpoint, chunkVars, done, monitor, out>>

\* A Flight read that the monitor cancelled returns an error.
ReadCancelled(t) ==
  /\ ReadFails(t)
  /\ Kind[endpoint[t]] = "flight"
  /\ monitor[t] = [stream |-> endpoint[t], fired |-> TRUE]

Emit(rows) == out' = [r \in Rows |-> IF r \in rows THEN out[r] + 1 ELSE out[r]]

\* The size of the next vector: what is left of the chunk, at most one vector.
OutputSize(t) == Smaller(VectorSize, chunk_length[t] - chunk_offset[t])

\* Faulty: the slice starts one row late.
NextSliceShifted(t) ==
  {<<endpoint[t], batch[t], i>> : i \in chunk_offset[t] + 2 .. chunk_offset[t] + 1 + OutputSize(t)}

NextSlice(t) ==
  {<<endpoint[t], batch[t], i>> : i \in chunk_offset[t] + 1 .. chunk_offset[t] + OutputSize(t)}

\* The interrupt check at the head of AirportTakeFlight's loop.
TakeFlightInterrupted(t) ==
  /\ pc[t] = "ready"
  /\ interrupted
  /\ Goto(t, "interrupted")
  /\ UNCHANGED <<current_endpoint, interrupted, caller, endpoint, chunkVars, done, monitor, out>>

\* Faulty: what does not fit the vector is dropped.
StreamVectorRestLost(t) ==
  /\ pc[t] = "ready"
  /\ ~interrupted
  /\ Kind[endpoint[t]] # "local"
  /\ OutputSize(t) > 0
  /\ Emit(NextSlice(t))
  /\ chunk_offset' = [chunk_offset EXCEPT ![t] = chunk_length[t]]
  /\ caller' = [caller EXCEPT ![t] = "none"]
  /\ UNCHANGED <<current_endpoint, interrupted, pc, endpoint, batch, chunk_length, done, monitor>>

\* AirportTakeFlight on a stream hands out the next slice of the chunk.
StreamVector(t) ==
  /\ pc[t] = "ready"
  /\ ~interrupted
  /\ Kind[endpoint[t]] # "local"
  /\ OutputSize(t) > 0
  /\ Emit(NextSlice(t))
  /\ chunk_offset' = [chunk_offset EXCEPT ![t] = @ + OutputSize(t)]
  /\ caller' = [caller EXCEPT ![t] = "none"]
  /\ UNCHANGED <<current_endpoint, interrupted, pc, endpoint, batch, chunk_length, done, monitor>>

\* A used-up chunk makes it go on to ParallelStateNext.
StreamNext(t) ==
  /\ pc[t] = "ready"
  /\ ~interrupted
  /\ Kind[endpoint[t]] # "local"
  /\ OutputSize(t) = 0
  /\ \/ /\ done[t]
        /\ Goto(t, "finished")
        /\ UNCHANGED <<chunk_offset, caller>>
     \/ /\ ~done[t]
        /\ Goto(t, "fetch")
        /\ chunk_offset' = [chunk_offset EXCEPT ![t] = 0]
        /\ caller' = [caller EXCEPT ![t] = "TakeFlight"]
  /\ UNCHANGED <<current_endpoint, interrupted, endpoint, batch, chunk_length, done, monitor, out>>

\* AirportTakeFlight on a local scan function: one call of the function.
LocalVector(t) ==
  /\ pc[t] = "ready"
  /\ ~interrupted
  /\ Kind[endpoint[t]] = "local"
  /\ batch[t] < Len(Batches[endpoint[t]])
  /\ batch' = [batch EXCEPT ![t] = @ + 1]
  /\ Emit(RowsOfBatch(endpoint[t], batch[t] + 1))
  /\ caller' = [caller EXCEPT ![t] = "none"]
  /\ UNCHANGED <<current_endpoint, interrupted, pc, endpoint, chunk_length, chunk_offset, done, monitor>>

\* Its empty vector ends the endpoint.
LocalEnd(t) ==
  /\ pc[t] = "ready"
  /\ ~interrupted
  /\ Kind[endpoint[t]] = "local"
  /\ batch[t] = Len(Batches[endpoint[t]])
  /\ NextEndpoint(t)
  /\ UNCHANGED <<interrupted, chunkVars, monitor, out>>

\* An error of the function is passed on as it is.
LocalFails(t) ==
  /\ pc[t] = "ready"
  /\ ~interrupted
  /\ Kind[endpoint[t]] = "local"
  /\ Goto(t, "failed")
  /\ UNCHANGED <<current_endpoint, interrupted, caller, endpoint, chunkVars, done, monitor, out>>

-----------------------------------------------------------------------------
(* The monitor threads and DuckDB.                                         *)

\* A monitor polls the interrupted flag and cancels its own stream, once.
MonitorFires(t) ==
  /\ interrupted
  /\ monitor[t].stream # NoEndpoint
  /\ ~monitor[t].fired
  /\ monitor' = [monitor EXCEPT ![t].fired = TRUE]
  /\ UNCHANGED <<current_endpoint, interrupted, pc, caller, endpoint, chunkVars, done, out>>

\* The user interrupts the query.
Interrupt ==
  /\ ~interrupted
  /\ interrupted' = TRUE
  /\ UNCHANGED <<current_endpoint, pc, caller, endpoint, chunkVars, done, monitor, out>>

\* Between two calls DuckDB may give up a task: a LIMIT is satisfied, or
\* another task of the query failed.
Drop(t) ==
  /\ pc[t] = "ready"
  /\ caller[t] = "none"
  /\ Goto(t, "dropped")
  /\ UNCHANGED <<current_endpoint, interrupted, caller, endpoint, chunkVars, done, monitor, out>>

AllEnded == \A t \in Threads : pc[t] \in Ended

\* The query is over: nothing more happens.
QueryOver == AllEnded /\ UNCHANGED vars

\* One iteration of the loop of AirportTakeFlight.
TakeFlight(t) ==
  \/ TakeFlightInterrupted(t) \/ StreamVector(t) \/ StreamNext(t)
  \/ LocalVector(t) \/ LocalEnd(t) \/ LocalFails(t)

\* The reader returns a batch or the end of the stream.
ReadAnswered(t) == ReadEmptyBatch(t) \/ ReadRows(t) \/ ReadEnd(t)

Next ==
  \/ \E t \in Threads :
       \/ InitLocal(t) \/ ProcessEndpoint(t) \/ DoGetReturns(t) \/ OpenFails(t)
       \/ EnterRead(t) \/ ReadAnswered(t) \/ ReadFails(t) \/ ReadCancelled(t)
       \/ TakeFlight(t) \/ MonitorFires(t) \/ Drop(t)
  \/ Interrupt
  \/ QueryOver

\* DuckDB keeps running its tasks, monitors keep polling, a cancelled gRPC read
\* returns, and a read of an IPC file or stream is a bounded file read.  DoGet
\* itself has neither deadline nor monitor: that it returns is an assumption on
\* the server.
ClientFairness ==
  \A t \in Threads :
    /\ WF_vars(InitLocal(t) \/ ProcessEndpoint(t) \/ EnterRead(t) \/ TakeFlight(t))
    /\ WF_vars(MonitorFires(t))
    /\ WF_vars(ReadCancelled(t))
    /\ WF_vars(ReadAnswered(t) /\ Kind[endpoint[t]] # "flight")
    /\ WF_vars(DoGetReturns(t))

\* The server answers every read.
ServerFairness == \A t \in Threads : WF_vars(ReadAnswered(t))

Spec == Init /\ [][Next]_vars /\ ClientFairness

-----------------------------------------------------------------------------
(* What the scan promises.                                                 *)

TypeOK ==
  /\ current_endpoint \in Nat
  /\ interrupted \in BOOLEAN
  /\ pc \in [Threads -> Places]
  /\ caller \in [Threads -> {"InitLocal", "TakeFlight", "none"}]
  /\ endpoint \in [Threads -> Endpoints \cup {NoEndpoint}]
  /\ batch \in [Threads -> Nat]
  /\ chunk_length \in [Threads -> Nat]
  /\ chunk_offset \in [Threads -> Nat]
  /\ done \in [Threads -> BOOLEAN]
  /\ monitor \in [Threads -> Monitors]
  /\ out \in [Rows -> Nat]

\* A thread that still has an endpoint to read.
Scanning(t) == pc[t] \in {"open", "doget", "fetch", "reading", "ready"} /\ ~done[t]

\* Whatever the order in which the threads reach GetNextEndpoint, no endpoint is
\* ever being read by two of them.
OneReaderPerEndpoint ==
  \A s, t \in Threads :
    Scanning(s) /\ Scanning(t) /\ endpoint[s] = endpoint[t] => s = t

\* No row is handed to DuckDB twice, in any interleaving, with any batch sizes.
NoRowTwice == \A r \in Rows : out[r] <= 1

\* If every task ended normally, every row of every endpoint was handed over:
\* empty batches, empty endpoints, several vectors per batch, threads that found
\* no endpoint, and interrupts seen by nobody lose nothing.
NothingLostOnSuccess ==
  (\A t \in Threads : pc[t] = "finished") => \A r \in Rows : out[r] >= 1

\* A thread blocked in a Flight read is watched by a monitor bound to that very
\* stream, not to the stream of an endpoint it read before.
BlockedReadIsCancellable ==
  \A t \in Threads :
    pc[t] = "reading" /\ Kind[endpoint[t]] = "flight" => monitor[t].stream = endpoint[t]

Before(r, s) == r[1] = s[1] /\ (r[2] < s[2] \/ (r[2] = s[2] /\ r[3] < s[3]))

\* Rows of one endpoint leave the scan in the order of the stream: a step never
\* hands out a row while an earlier row of that endpoint is still missing.
RowsInStreamOrder ==
  [][\A r, s \in Rows : out'[s] > out[s] /\ Before(r, s) => out'[r] >= 1]_vars

\* An interrupted scan stops, even when the server never answers another read.
InterruptStops == interrupted ~> AllEnded

\* A scan whose server keeps answering ends, with every thread accounted for.
ScanTerminates == ServerFairness => <>AllEnded

\* What DuckDB learns: an error of any task is an error of the query, an
\* abandoned task makes the result partial, and otherwise the query succeeds when
\* all its tasks have finished.
Outcome ==
  CASE \E t \in Threads : pc[t] \in {"failed", "interrupted"} -> "error"
    [] \A t \in Threads : pc[t] = "finished" -> "success"
    [] \E t \in Threads : pc[t] = "dropped" /\ \A s \in Threads : pc[s] \notin {"failed", "interrupted"} -> "stopped"
    [] OTHER -> "running"

Delivery == INSTANCE FlightDelivery WITH outcome <- Outcome

\* The scan, with its threads, chunks and cursor, implements the delivery of a
\* flight: nothing twice, nothing out of order, success only when complete.
DeliverySpec == Delivery!Spec

-----------------------------------------------------------------------------
(* Why it holds: the inductive invariant the proofs use.                   *)

\* The endpoint of t is not yet exhausted, even if t has given up on it.
Holding(t) == pc[t] \notin {"init", "finished"} /\ ~done[t]

\* Thread t has taken row i of batch b from its reader and handed it out.
Consumed(t, b, i) ==
  /\ pc[t] # "open"
  /\ \/ b < batch[t]
     \/ /\ b = batch[t]
        /\ pc[t] # "ready" \/ Kind[endpoint[t]] = "local" \/ i <= chunk_offset[t]

\* The chunk a thread works on is the batch its reader stands at.
ChunkIsCurrentBatch(t) ==
  /\ pc[t] \in {"doget", "fetch", "reading"} => chunk_offset[t] = 0 /\ ~done[t]
  /\ pc[t] \in {"doget", "fetch", "reading"} => Kind[endpoint[t]] # "local"
  /\ pc[t] = "doget" => batch[t] = 0
  /\ pc[t] = "ready" /\ ~done[t] /\ Kind[endpoint[t]] # "local" =>
       /\ batch[t] >= 1
       /\ chunk_length[t] = Batches[endpoint[t]][batch[t]]
       /\ chunk_offset[t] <= chunk_length[t]
  /\ pc[t] = "ready" /\ done[t] =>
       Kind[endpoint[t]] # "local" /\ chunk_length[t] = 0 /\ chunk_offset[t] = 0

ThreadInv(t) ==
  /\ endpoint[t] < current_endpoint
  /\ pc[t] \in {"open", "doget", "fetch", "reading", "ready"} => endpoint[t] \in Endpoints
  /\ Scanning(t) /\ pc[t] # "open" => batch[t] <= Len(Batches[endpoint[t]])
  /\ pc[t] = "init" \/ pc[t] = "open" => ~done[t]
  /\ pc[t] = "ready" => caller[t] # "InitLocal"
  /\ pc[t] = "finished" \/ done[t] => NumEndpoints <= current_endpoint
  /\ ChunkIsCurrentBatch(t)

\* The rows of an endpoint being scanned: handed out exactly up to its position.
PositionInv(t) ==
  Scanning(t) =>
    \A b \in 1 .. Len(Batches[endpoint[t]]) : \A i \in 1 .. Batches[endpoint[t]][b] :
      out[<<endpoint[t], b, i>>] = IF Consumed(t, b, i) THEN 1 ELSE 0

\* The rows of the other endpoints: none before it is claimed, all of them once
\* its reader is exhausted.
EndpointInv(e) ==
  /\ e >= current_endpoint => \A r \in RowsOfEndpoint(e) : out[r] = 0
  /\ \/ e >= current_endpoint
     \/ \E t \in Threads : Holding(t) /\ endpoint[t] = e
     \/ \A r \in RowsOfEndpoint(e) : out[r] = 1

\* The cursor hands each endpoint to one thread, and the rows handed out are
\* exactly those before each thread's position in the endpoint it holds.
ScanInv ==
  /\ TypeOK
  /\ OneReaderPerEndpoint
  /\ NoRowTwice
  /\ \A t \in Threads : ThreadInv(t) /\ PositionInv(t)
  /\ \A e \in Endpoints : EndpointInv(e)

=============================================================================
