-------------------------- MODULE AirportExchange --------------------------
(***************************************************************************)
(* INSERT, UPDATE, DELETE and CREATE TABLE AS on an attached table         *)
(* (storage/airport_exchange.cpp and .hpp, airport_insert.cpp,             *)
(* airport_update.cpp, airport_delete.cpp).                                *)
(*                                                                         *)
(* The statement opens one exchange with the server and sinks its chunks,  *)
(* one at a time: ParallelSink() is false, so DuckDB sinks with one task,  *)
(* and nobody else is after the lock taken for each chunk.  A chunk is     *)
(* written and, if the statement returns rows, the server's answer is      *)
(* read.  When all are sunk the statement is finalized: the end of the     *)
(* writing is announced and the number of changed rows is read.  The two   *)
(* directions of the stream hold a bounded number of messages; a monitor   *)
(* cancels the stream when the query is interrupted, and the call has a    *)
(* deadline.                                                               *)
(***************************************************************************)
EXTENDS Integers, Sequences, FiniteSets, Functions

CONSTANTS
  Chunks,      \* the chunks of rows the statement writes
  NoChunk,     \* nothing in hand
  Final,       \* the message with the number of changed rows
  Capacity     \* bounds the messages under way in each direction

ASSUME NoChunkAssumption == NoChunk \notin Chunks /\ Final \notin Chunks /\ Final # NoChunk
ASSUME CapacityAssumption == Capacity \in Nat \ {0}

VARIABLES
  creates,      \* CREATE TABLE AS
  returning,    \* return_chunk
  answering,    \* the server answers each chunk, asked or not
  query,        \* what the statement is doing, or how it ended
  table,        \* the table of CREATE TABLE AS exists on the server
  todo,         \* chunks that have not been taken
  chunk,        \* the chunk that is sunk
  pc,           \* where the sink is
  sent,         \* written messages the server has not read
  answers,      \* the server's messages that have not been read
  closed,       \* DoneWriting has been called
  served,       \* the server has ended its side
  alive,        \* the call is neither cancelled, expired nor failed
  interrupted,  \* context.interrupted
  monitor,      \* the interrupt monitor runs
  applied,      \* the chunks the server has applied, in its order
  collection,   \* return_collection: the answers that were read
  count         \* changed_count

client == <<query, todo, chunk, pc, collection, count>>
stream == <<sent, answers, closed, served, alive>>
kind   == <<creates, returning, answering>>
vars   == <<kind, client, table, stream, interrupted, monitor, applied>>

Over == query \in {"finished", "failed"}

\* CREATE TABLE AS returns no rows.  A server that is asked for rows answers; one that is
\* not may all the same.
Init ==
  /\ creates \in BOOLEAN /\ returning \in BOOLEAN /\ answering \in BOOLEAN
  /\ creates => ~returning
  /\ returning => answering
  /\ query = IF creates THEN "creating" ELSE "opening"
  /\ table = ~creates
  /\ todo = Chunks /\ chunk = NoChunk /\ pc = "idle"
  /\ sent = <<>> /\ answers = <<>> /\ closed = FALSE /\ served = FALSE /\ alive = TRUE
  /\ interrupted = FALSE /\ monitor = FALSE
  /\ applied = <<>> /\ collection = <<>> /\ count = 0

-----------------------------------------------------------------------------
(* GetGlobalSinkState *)

\* CREATE TABLE AS creates the table first.
CreateTable ==
  /\ query = "creating"
  /\ table' = TRUE /\ query' = "opening"
  /\ UNCHANGED <<todo, chunk, pc, collection, count, stream, interrupted, monitor,
       applied>>

\* DoExchange and Begin succeed; the interrupt is looked at before each call.
Open ==
  /\ query = "opening" /\ ~interrupted /\ alive
  /\ query' = "schema"
  /\ UNCHANGED <<table, todo, chunk, pc, collection, count, stream, interrupted,
       monitor, applied>>

\* GetSchema has waited for the server without a monitor.
GetSchema ==
  /\ query = "schema" /\ alive
  /\ monitor' = TRUE /\ query' = "sinking"
  /\ UNCHANGED <<table, todo, chunk, pc, collection, count, stream, interrupted,
       applied>>

\* An exception ends the statement; locks are released as the stack unwinds, and the
\* stream goes away with the global state.
Fail == query' = "failed" /\ alive' = FALSE /\ monitor' = FALSE

\* The server refuses to create the table, or the action fails.
CreateFails ==
  /\ query = "creating"
  /\ Fail
  /\ UNCHANGED <<table, todo, chunk, pc, collection, count, sent, answers, closed,
       served, interrupted, applied>>

\* A call fails, or the interrupt is seen before it.
OpenFails ==
  /\ query \in {"opening", "schema"}
  /\ ~alive \/ (query = "opening" /\ interrupted)
  /\ Fail
  /\ UNCHANGED <<table, todo, chunk, pc, collection, count, sent, answers, closed,
       served, interrupted, applied>>

-----------------------------------------------------------------------------
(* Sink *)

\* DuckDB hands a chunk to the sink, which makes a record batch of it.
TakeChunk ==
  /\ query = "sinking" /\ pc = "idle"
  /\ \E c \in todo : todo' = todo \ {c} /\ chunk' = c
  /\ pc' = "write"
  /\ UNCHANGED <<query, table, collection, count, stream, interrupted, monitor, applied>>

\* The append constraints of INSERT do not hold, or the batch cannot be made.
RefuseChunk ==
  /\ query = "sinking" /\ pc = "write"
  /\ Fail
  /\ UNCHANGED <<table, todo, chunk, pc, collection, count, sent, answers, closed, served,
       interrupted, applied>>

\* The chunk has been sunk.
Release == chunk' = NoChunk /\ pc' = "idle"

\* Faulty: the sink keeps its chunk, and writes it again.
WriteKeepsChunk ==
  /\ query = "sinking" /\ pc = "write" /\ alive /\ Len(sent) < Capacity
  /\ sent' = Append(sent, chunk)
  /\ \/ IF returning THEN pc' = "read" /\ UNCHANGED chunk ELSE Release
     \/ UNCHANGED <<chunk, pc>>
  /\ UNCHANGED <<query, table, todo, collection, count, answers, closed, served, alive,
       interrupted, monitor, applied>>

\* WriteRecordBatch; it blocks while the stream is full.
Write ==
  /\ query = "sinking" /\ pc = "write" /\ alive /\ Len(sent) < Capacity
  /\ sent' = Append(sent, chunk)
  /\ IF returning THEN pc' = "read" /\ UNCHANGED chunk ELSE Release
  /\ UNCHANGED <<query, table, todo, collection, count, answers, closed, served, alive,
       interrupted, monitor, applied>>

\* Faulty: the rows of the last chunk replace those before.
ReadReplaces ==
  /\ query = "sinking" /\ pc = "read" /\ alive /\ answers # <<>>
  /\ collection' = <<Head(answers)>>
  /\ answers' = Tail(answers)
  /\ Release
  /\ UNCHANGED <<query, table, todo, count, sent, closed, served, alive, interrupted,
       monitor, applied>>

\* ReadDataIntoChunk, and the rows are appended to the collection.
Read ==
  /\ query = "sinking" /\ pc = "read" /\ alive /\ answers # <<>>
  /\ collection' = Append(collection, Head(answers))
  /\ answers' = Tail(answers)
  /\ Release
  /\ UNCHANGED <<query, table, todo, count, sent, closed, served, alive, interrupted,
       monitor, applied>>

\* The interrupt is seen before the write or after the read, or the stream is dead.
SinkFails ==
  /\ query = "sinking" /\ pc \in {"write", "read"}
  /\ ~alive \/ (interrupted /\ (pc = "write" \/ answers # <<>>))
  /\ Fail
  /\ UNCHANGED <<table, todo, chunk, pc, collection, count, sent, answers, closed, served,
       interrupted, applied>>

-----------------------------------------------------------------------------
(* Finalize and GetData *)

\* DuckDB finalizes the sink when it has sunk every chunk.
Sunk == todo = {} /\ pc = "idle"

DoneWriting ==
  /\ query = "sinking" /\ Sunk /\ ~interrupted /\ alive
  /\ closed' = TRUE /\ query' = "counting"
  /\ UNCHANGED <<table, todo, chunk, pc, collection, count, sent, answers, served,
       alive, interrupted, monitor, applied>>

\* ReadChangedCount: the next message, or the end of the stream.  Its metadata is the
\* count; rows the server was not asked for have none, and leave the count alone.
ReadChangedCount ==
  /\ query = "counting" /\ ~interrupted /\ alive
  /\ answers # <<>> \/ served
  /\ IF answers # <<>> THEN answers' = Tail(answers) ELSE UNCHANGED answers
  /\ count' = IF answers # <<>> /\ Head(answers) = Final THEN Len(applied) ELSE count
  /\ query' = "finished" /\ monitor' = FALSE
  /\ UNCHANGED <<table, todo, chunk, pc, collection, sent, closed, served, alive,
       interrupted, applied>>

\* The interrupt is seen first, or the end of the writing cannot be sent.
DoneWritingFails ==
  /\ query = "sinking" /\ Sunk
  /\ ~alive \/ interrupted
  /\ Fail
  /\ UNCHANGED <<table, todo, chunk, pc, collection, count, sent, answers, closed,
       served, interrupted, applied>>

\* The stream breaks, or the interrupt is seen when Next() has returned; the writer is
\* closed and the exception goes on.
CountFails ==
  /\ query = "counting"
  /\ ~alive \/ (interrupted /\ (answers # <<>> \/ served))
  /\ Fail
  /\ UNCHANGED <<table, todo, chunk, pc, collection, count, sent, answers, closed,
       served, interrupted, applied>>

-----------------------------------------------------------------------------
(* The server, the monitor and the deadline *)

\* The server applies the next chunk, and answers it once there is room.
Serve ==
  /\ alive /\ sent # <<>>
  /\ answering => Len(answers) < Capacity
  /\ sent' = Tail(sent)
  /\ applied' = Append(applied, Head(sent))
  /\ answers' = IF answering THEN Append(answers, Head(sent)) ELSE answers
  /\ UNCHANGED <<client, table, closed, served, alive, interrupted, monitor>>

\* It ends its side, with or without telling how many rows have changed.
EndService ==
  /\ alive /\ closed /\ sent = <<>> /\ ~served
  /\ served' = TRUE
  /\ \/ UNCHANGED answers
     \/ Len(answers) < Capacity /\ answers' = Append(answers, Final)
  /\ UNCHANGED <<client, table, sent, closed, alive, interrupted, monitor, applied>>

\* The server or the network fails.
Break ==
  /\ alive /\ ~Over
  /\ alive' = FALSE
  /\ UNCHANGED <<client, table, sent, answers, closed, served, interrupted, monitor, applied>>

\* The call's deadline of 300 seconds.
DeadlineExpires ==
  /\ alive /\ query \in {"schema", "sinking", "counting"}
  /\ alive' = FALSE
  /\ UNCHANGED <<client, table, sent, answers, closed, served, interrupted, monitor, applied>>

Interrupt ==
  /\ ~interrupted /\ ~Over
  /\ interrupted' = TRUE
  /\ UNCHANGED <<client, table, stream, monitor, applied>>

\* Faulty: the monitor sets a stop token, which a stream does not look at.
MonitorSetsToken ==
  /\ monitor /\ interrupted /\ alive /\ query = "schema"
  /\ alive' = FALSE
  /\ UNCHANGED <<client, table, sent, answers, closed, served, interrupted, monitor, applied>>

\* reader->Cancel().
MonitorFires ==
  /\ monitor /\ interrupted /\ alive
  /\ alive' = FALSE
  /\ UNCHANGED <<client, table, sent, answers, closed, served, interrupted, monitor, applied>>

Client ==
  \/ Open \/ OpenFails
  \/ TakeChunk \/ Write \/ Read \/ SinkFails
  \/ DoneWriting \/ DoneWritingFails \/ ReadChangedCount \/ CountFails

Environment == Serve \/ EndService \/ Break \/ DeadlineExpires \/ Interrupt \/ MonitorFires

Next ==
  /\ UNCHANGED kind
  /\ \/ CreateTable \/ CreateFails \/ GetSchema
     \/ Client
     \/ RefuseChunk
     \/ Environment

Spec == Init /\ [][Next]_vars

\* The client and the monitor run; the server need not answer (CreateTable and
\* GetSchema wait for it, and so do reads and writes), nor the deadline expire.
FairSpec == Spec /\ WF_vars(Client /\ UNCHANGED kind) /\ WF_vars(MonitorFires /\ UNCHANGED kind)

\* The deadline does expire.
DeadlineSpec == FairSpec /\ WF_vars(DeadlineExpires /\ UNCHANGED kind)

-----------------------------------------------------------------------------

TypeOK ==
  /\ creates \in BOOLEAN /\ returning \in BOOLEAN /\ answering \in BOOLEAN
  /\ query \in {"creating", "opening", "schema", "sinking", "counting", "finished", "failed"}
  /\ table \in BOOLEAN /\ closed \in BOOLEAN /\ served \in BOOLEAN /\ alive \in BOOLEAN
  /\ interrupted \in BOOLEAN /\ monitor \in BOOLEAN
  /\ todo \subseteq Chunks /\ chunk \in Chunks \cup {NoChunk} /\ pc \in {"idle", "write", "read"}
  /\ sent \in Seq(Chunks) /\ answers \in Seq(Chunks \cup {Final}) /\ applied \in Seq(Chunks)
  /\ collection \in Seq(Chunks \cup {Final}) /\ count \in Nat

Distinct(s) == \A i, j \in 1 .. Len(s) : i # j => s[i] # s[j]

\* No chunk is sent twice, be it still under way or applied, and none that is yet to be
\* taken has been sent.
ChunkOnce ==
  /\ Distinct(applied) /\ Distinct(sent)
  /\ Range(applied) \cap Range(sent) = {} /\ (Range(applied) \cup Range(sent)) \cap todo = {}

AnswersWhenAsked == answering => returning

\* A statement that finishes has had every chunk applied by the server, and returns the
\* rows of each of them, in the order in which they were applied; the count it reports is
\* that of the server, or zero if the server gave none.  This is said of servers that
\* answer only when they are asked to: one that answers unasked has its first answer taken
\* for the last.
SuccessIsComplete ==
  query = "finished" /\ AnswersWhenAsked =>
    /\ table /\ closed /\ sent = <<>>
    /\ Range(applied) = Chunks
    /\ returning => collection = applied
    /\ count \in {0, Cardinality(Chunks)}

\* A statement that is interrupted while its monitor runs ends, although the server may
\* never read or answer again.
InterruptEnds == (interrupted /\ monitor) ~> Over

\* Every statement ends, although server and client may wait for each other: the deadline
\* ends the exchange.  (The creation of a table comes before, and is another call.)
StatementEnds == (query # "creating") ~> Over

\* A chunk in hand is nowhere else until it is written.  If rows are returned, nothing is
\* under way but the chunk whose answer is waited for, or that answer, and the answers to
\* all the others have been read.
SinkInv ==
  /\ chunk = NoChunk <=> pc = "idle"
  /\ pc # "idle" => chunk \notin todo
  /\ pc = "write" => chunk \notin Range(applied) \cup Range(sent)
  /\ pc = "read" =>
       /\ returning
       /\ \/ sent = <<chunk>> /\ answers = <<>> /\ collection = applied
          \/ sent = <<>> /\ answers = <<chunk>> /\ applied = Append(collection, chunk)
  /\ returning /\ pc # "read" => sent = <<>> /\ answers = <<>> /\ collection = applied

\* Before the sink nothing has happened.
StreamInv ==
  /\ TypeOK
  /\ returning => answering
  /\ ChunkOnce
  /\ query \in {"creating", "opening", "schema"} =>
       /\ todo = Chunks /\ sent = <<>> /\ answers = <<>> /\ applied = <<>> /\ collection = <<>>
       /\ chunk = NoChunk /\ pc = "idle"
  /\ query \in {"creating", "opening", "schema", "sinking"} => ~closed
  /\ query = "sinking" => SinkInv

\* Every chunk is somewhere: it has not been taken, it is in hand, or it was sent.
ChunksKept ==
  query \in {"sinking", "counting", "finished"} =>
    \A c \in Chunks :
      c \in todo \/ c \in Range(applied) \cup Range(sent) \/ (pc = "write" /\ chunk = c)

\* The number of changed rows is the last message of a server that has applied all it was
\* sent, and the first that is left when the writing is done.
CountLast ==
  /\ query \notin {"creating", "failed"} => table
  /\ query \in {"counting", "finished"} => closed /\ Sunk
  /\ closed => query \in {"counting", "finished", "failed"}
  /\ served => closed /\ sent = <<>>
  /\ Final \in Range(answers) => served
  /\ ~answering \/ (returning /\ query = "counting") => Range(answers) \subseteq {Final}
  /\ returning /\ query \in {"counting", "finished"} => sent = <<>> /\ collection = applied
  /\ query # "finished" => count = 0
  /\ query = "finished" /\ AnswersWhenAsked => served /\ count \in {0, Len(applied)}

\* The inductive invariant.
ExchangeInv == StreamInv /\ ChunksKept /\ CountLast

=============================================================================
