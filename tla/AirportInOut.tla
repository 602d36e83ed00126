---------------------------- MODULE AirportInOut ----------------------------
(***************************************************************************)
(* A table in/out function (storage/airport_table_function_set.cpp).       *)
(*                                                                         *)
(* The threads of a query share one DoExchange stream.  A call of the      *)
(* function sends the thread's input chunk, unless the previous call left  *)
(* output behind, takes a reply batch from the stream when the current     *)
(* one is used up, and returns one vector of it.  The server tags each     *)
(* reply batch with chunk_continues or chunk_finished.  When its input is  *)
(* exhausted, a thread finalizes: it ends the writes and fetches the       *)
(* server's last rows in the same way.                                     *)
(*                                                                         *)
(* The input chunks of a thread are <<t, 1>>, ... <<t, NumInputs>>; the    *)
(* pseudo input Final stands for the end of the writes.                    *)
(***************************************************************************)
EXTENDS Integers, Sequences, FiniteSets

CONSTANTS
  Threads,      \* DuckDB's threads
  NumInputs,    \* input chunks of each thread
  Reply,        \* rows of each batch the server answers an input chunk with
  FinalReply,   \* rows of each batch it sends after the writes are done
  VectorSize    \* STANDARD_VECTOR_SIZE

Final == <<>>

ASSUME InOutThreadsAssumption == Threads # {} /\ IsFiniteSet(Threads)
ASSUME NumInputsAssumption == NumInputs \in Nat
ASSUME ReplyAssumption == Reply \in Seq(Nat) /\ Reply # <<>> /\ FinalReply \in Seq(Nat)
ASSUME InOutVectorAssumption == VectorSize \in Nat \ {0}

VARIABLES
  tasks,         \* the threads that run the operator
  lock,          \* the holder of the global state's mutex, if any
  continuing,    \* continuing_current_chunk
  stage,         \* where each thread is
  input,         \* the number of its current input; NumInputs + 1 to finalize
  sent,          \* the input chunks written to the stream
  done_writing,  \* DoneWriting was called
  answered,      \* how many of them the server has answered
  replies,       \* every batch the server has written
  closed,        \* the server has closed the stream
  taken,         \* how many of its batches were read
  chunk_length, chunk_offset,   \* the current reply batch
  metadata,      \* last_app_metadata
  handed         \* rows handed to DuckDB of every batch read

server == <<answered, replies, closed>>
exchange == <<sent, done_writing>>
chunk == <<taken, chunk_length, chunk_offset, metadata>>
vars == <<tasks, lock, continuing, stage, input, server, exchange, chunk, handed>>

Ended    == {"finished", "failed", "stopped"}
Stages   == {"call", "read", "return"} \cup Ended
Metadata == {"null", "chunk_continues", "chunk_finished"}
Inputs   == Threads \X (1 .. NumInputs)

Smaller(a, b) == IF a < b THEN a ELSE b

\* Faulty variants of an operator stand before it and say what is wrong in them;
\* no specification uses one.

Finalizing(t) == input[t] > NumInputs

\* GlobalInit: the exchange is open and both schemas are known.  How many threads run the
\* operator is up to DuckDB.
Init ==
  /\ tasks \in (SUBSET Threads) \ {{}}
  /\ lock = {} /\ continuing = FALSE
  /\ stage = [t \in Threads |-> "call"]
  /\ input = [t \in Threads |-> 1]
  /\ sent = <<>> /\ done_writing = FALSE
  /\ answered = 0 /\ replies = <<>> /\ closed = FALSE
  /\ taken = 0 /\ chunk_length = 0 /\ chunk_offset = 0 /\ metadata = "null"
  /\ handed = <<>>

-----------------------------------------------------------------------------
(* A call of AirportTakeFlightInOut or AirportTakeFlightInOutFinalize.     *)

\* Faulty: the input is sent again with every call.
SendAlways(t) ==
  IF Finalizing(t) THEN done_writing' = TRUE /\ UNCHANGED sent
  ELSE ~done_writing /\ sent' = Append(sent, <<t, input[t]>>) /\ UNCHANGED done_writing

\* What is written when no output is left over: the input chunk, or its end.
\* Nothing can be written after the end.
Send(t) ==
  IF continuing THEN UNCHANGED exchange
  ELSE IF Finalizing(t) THEN done_writing' = TRUE /\ UNCHANGED sent
  ELSE ~done_writing /\ sent' = Append(sent, <<t, input[t]>>) /\ UNCHANGED done_writing

\* Faulty: every call takes a batch from the stream.
CallReadsAlways(t) ==
  /\ stage[t] = "call"
  /\ lock = {}
  /\ lock' = {t}
  /\ Send(t)
  /\ stage' = [stage EXCEPT ![t] = "read"]
  /\ UNCHANGED <<tasks, continuing, input, server, chunk, handed>>

\* The thread takes the lock and writes; it needs another batch only when the
\* current one is used up.
Call(t) ==
  /\ stage[t] = "call"
  /\ lock = {}
  /\ lock' = {t}
  /\ Send(t)
  /\ stage' = [stage EXCEPT ![t] = IF chunk_offset = 0 THEN "read" ELSE "return"]
  /\ UNCHANGED <<tasks, continuing, input, server, chunk, handed>>

\* GetNextChunk returns the next batch, or the end of the stream as an empty
\* chunk without metadata.
Read(t) ==
  /\ stage[t] = "read"
  /\ \/ /\ taken < Len(replies)
        /\ taken' = taken + 1
        /\ chunk_length' = replies[taken + 1].rows
        /\ metadata' = replies[taken + 1].tag
        /\ handed' = Append(handed, 0)
     \/ /\ taken = Len(replies)
        /\ closed
        /\ chunk_length' = 0
        /\ metadata' = "null"
        /\ UNCHANGED <<taken, handed>>
  /\ stage' = [stage EXCEPT ![t] = "return"]
  /\ UNCHANGED <<tasks, lock, continuing, input, server, exchange, chunk_offset>>

OutputSize == Smaller(VectorSize, chunk_length - chunk_offset)

\* The offset after this vector; a used-up chunk starts over at 0.
NextOffset ==
  IF chunk_offset + OutputSize = chunk_length THEN 0 ELSE chunk_offset + OutputSize

\* Faulty: the metadata of the batch is not looked at.
HaveMoreInChunk == OutputSize = VectorSize /\ NextOffset # chunk_length

\* Faulty: only chunk_finished ends the output, not the end of the stream.
HaveMoreUnlessFinished ==
  \/ OutputSize = VectorSize /\ NextOffset # chunk_length
  \/ metadata # "chunk_finished"

\* The decision whether there is more output, taken after the offset was reset.
HaveMoreOutput ==
  \/ OutputSize = VectorSize /\ NextOffset # chunk_length
  \/ metadata = "chunk_continues"

\* The call returns: with more output to come the same input is offered again.
Return(t) ==
  /\ stage[t] = "return"
  /\ lock' = {}
  /\ chunk_offset' = NextOffset
  /\ handed' = IF OutputSize = 0 THEN handed
               ELSE [handed EXCEPT ![taken] = @ + OutputSize]
  /\ continuing' = HaveMoreOutput
  /\ input' = IF HaveMoreOutput \/ Finalizing(t) THEN input
              ELSE [input EXCEPT ![t] = @ + 1]
  /\ stage' = [stage EXCEPT ![t] =
                 IF Finalizing(t) /\ ~HaveMoreOutput THEN "finished" ELSE "call"]
  /\ UNCHANGED <<tasks, server, exchange, taken, chunk_length, metadata>>

\* A call fails: the write comes after the end of the writes, or the read ends
\* with a server error, a cancellation or the deadline of 300 seconds.  The lock
\* is released, the rest of the state stays as it is.
CallFails(t) ==
  /\ \/ /\ stage[t] = "call"
        /\ lock = {}
        /\ ~continuing
        /\ ~Finalizing(t)
        /\ done_writing
        /\ UNCHANGED lock
     \/ /\ stage[t] = "read"
        /\ lock' = {}
  /\ stage' = [stage EXCEPT ![t] = "failed"]
  /\ UNCHANGED <<tasks, continuing, input, server, exchange, chunk, handed>>

\* DuckDB gives up a task between two calls: a LIMIT, or another task's error.
Stop(t) ==
  /\ stage[t] = "call"
  /\ stage' = [stage EXCEPT ![t] = "stopped"]
  /\ UNCHANGED <<tasks, lock, continuing, input, server, exchange, chunk, handed>>

-----------------------------------------------------------------------------
(* The server, as the code expects it: it answers the input chunks in the  *)
(* order they come, with one or more batches of which the last is tagged   *)
(* chunk_finished.  When the writes are done it sends its last rows and    *)
(* closes the stream, with or without having tagged the last of them.      *)

ReplyTo(i) == [b \in 1 .. Len(Reply) |->
                 [input |-> i, rows |-> Reply[b],
                  tag |-> IF b = Len(Reply) THEN "chunk_finished" ELSE "chunk_continues"]]

Answer ==
  /\ answered < Len(sent)
  /\ answered' = answered + 1
  /\ replies' = replies \o ReplyTo(sent[answered + 1])
  /\ UNCHANGED closed

FinalBatches(last) ==
  [b \in 1 .. Len(FinalReply) |->
     [input |-> Final, rows |-> FinalReply[b],
      tag |-> IF b = Len(FinalReply) THEN last ELSE "chunk_continues"]]

Close ==
  /\ done_writing
  /\ answered = Len(sent)
  /\ ~closed
  /\ closed' = TRUE
  /\ \E last \in {"chunk_continues", "chunk_finished"} :
       replies' = replies \o FinalBatches(last)
  /\ UNCHANGED answered

Server ==
  /\ Answer \/ Close
  /\ UNCHANGED <<tasks, lock, continuing, stage, input, exchange, chunk, handed>>

AllEnded == \A t \in tasks : stage[t] \in Ended
QueryOver == AllEnded /\ UNCHANGED vars

Next ==
  \/ \E t \in tasks : Call(t) \/ Read(t) \/ Return(t) \/ CallFails(t) \/ Stop(t)
  \/ Server
  \/ QueryOver

\* DuckDB keeps calling its tasks, and the server keeps answering.  A write
\* after the end of the writes does fail.
Fairness ==
  /\ \A t \in Threads :
       /\ WF_vars(t \in tasks /\ Call(t)) /\ WF_vars(Read(t)) /\ WF_vars(Return(t))
       /\ WF_vars(t \in tasks /\ CallFails(t) /\ stage[t] = "call")
  /\ WF_vars(Server)

Spec     == Init /\ [][Next]_vars
LiveSpec == Spec /\ Fairness

-----------------------------------------------------------------------------

TypeOK ==
  /\ tasks \subseteq Threads
  /\ lock \in SUBSET tasks
  /\ continuing \in BOOLEAN
  /\ stage \in [Threads -> Stages]
  /\ input \in [Threads -> 1 .. NumInputs + 1]
  /\ sent \in Seq(Inputs)
  /\ done_writing \in BOOLEAN
  /\ answered \in Nat
  /\ replies \in Seq([input : Inputs \cup {Final}, rows : Nat, tag : Metadata])
  /\ closed \in BOOLEAN
  /\ taken \in Nat /\ chunk_length \in Nat /\ chunk_offset \in Nat
  /\ metadata \in Metadata
  /\ handed \in Seq(Nat)

\* A part of an answer is still to be handed out, or a thread is about to take one.
Active == lock # {} \/ continuing

Reading    == \E t \in tasks : stage[t] = "read"
Handing    == \E t \in tasks : stage[t] = "return"
NoneFailed == \A t \in tasks : stage[t] # "failed"

\* No thread waits, holding the lock, for a batch the server will never send:
\* a batch is there, or the server still owes the answer to an input or to the
\* end of the writes.
NoReadWithoutAnswer ==
  Reading =>
    taken < Len(replies) \/ closed \/ answered < Len(sent) \/ done_writing

\* continuing_current_chunk says that a part of the last answer is still to be
\* handed out, in the current batch or in a batch that follows it.
ContinuingMeansMoreOutput ==
  continuing /\ ~Handing =>
    chunk_offset > 0 \/ metadata = "chunk_continues"

\* An answer whose last batch fills whole vectors is taken for unfinished.
LastVectorPartial(rows) ==
  rows # <<>> => \A k \in 1 .. rows[Len(rows)] : rows[Len(rows)] # k * VectorSize

AnswersEndInPartialVectors == LastVectorPartial(Reply) /\ LastVectorPartial(FinalReply)

\* Every input chunk of a thread that has the exchange alone reaches the server
\* exactly once, before the thread goes on to the next one.
EachInputSentOnce ==
  \A t \in Threads : tasks = {t} => \A n \in 1 .. NumInputs :
    LET times == Cardinality({i \in 1 .. Len(sent) : sent[i] = <<t, n>>})
    IN  /\ times <= 1
        /\ n < input[t] => times = 1

\* The rows of the batches reach DuckDB once and in order: all of every batch
\* but the current one, and of that one up to the offset.
RowsHandedOutOnce ==
  /\ Len(handed) = taken
  /\ \A b \in 1 .. taken - 1 : handed[b] = replies[b].rows
  /\ taken > 0 =>
       \/ handed[taken] = replies[taken].rows /\ chunk_offset = 0
       \/ handed[taken] = chunk_offset

\* When every task has finished, all output of the server was handed out.
FinishedMeansComplete ==
  (\A t \in tasks : stage[t] = "finished") =>
    /\ taken = Len(replies)
    /\ \A b \in 1 .. taken : handed[b] = replies[b].rows

\* Rows are returned by a call for the very input they answer, and a call asks for the
\* next input only after a batch that the server tagged as the last one of its answer (an
\* assertion of the function), if one thread has the exchange: DuckDB never sees the
\* output of one input chunk as that of another.
OutputBelongsToInput ==
  [][\A t \in Threads : tasks = {t} =>
       /\ stage[t] = "return" /\ handed' # handed =>
            replies[taken].input = IF Finalizing(t) THEN Final ELSE <<t, input[t]>>
       /\ input'[t] # input[t] => metadata = "chunk_finished"]_vars

\* With a server that answers, the operator ends.
ExchangeEnds == <>AllEnded

-----------------------------------------------------------------------------
(* The inductive invariant.                                                *)

\* The lock is held from the call to its return; a thread that has finished was
\* finalized.
LockInv ==
  /\ \A t \in Threads : stage[t] \in {"read", "return"} <=> lock = {t}
  /\ lock = {} \/ \E t \in tasks : lock = {t}
  /\ \A t \in Threads : stage[t] = "finished" => Finalizing(t)

\* The server answers whole inputs, and its batches say where an answer ends.
ServerInv ==
  /\ answered <= Len(sent)
  /\ closed => done_writing /\ answered = Len(sent)
  /\ \A b \in 1 .. Len(replies) :
       LET r == replies[b]
           reply == IF r.input = Final THEN FinalReply ELSE Reply
       IN  \/ r.tag = "chunk_continues" /\ (b < Len(replies) \/ closed)
           \/ r.tag = "chunk_finished" /\ reply # <<>> /\ r.rows = reply[Len(reply)]

\* The chunk is the batch that was taken last, or the end of the stream.
ChunkInv ==
  /\ taken <= Len(replies)
  /\ chunk_offset <= chunk_length
  /\ \E k \in 0 .. chunk_offset : chunk_offset = k * VectorSize
  /\ chunk_offset > 0 => continuing
  /\ IF metadata = "null"
     THEN chunk_length = 0 /\ (taken > 0 \/ Handing => closed /\ taken = Len(replies))
     ELSE /\ taken > 0
          /\ metadata = replies[taken].tag /\ chunk_length = replies[taken].rows

\* What was handed out of the current batch: a batch is taken only when the one before
\* is used up.
HandedInv ==
  /\ RowsHandedOutOnce
  /\ Reading => chunk_offset = 0
  /\ taken > 0 =>
       IF metadata # "null" /\ (chunk_offset > 0 \/ Handing)
       THEN handed[taken] = chunk_offset
       ELSE handed[taken] = replies[taken].rows

\* The server owes nothing but the rest of the answer that is being handed out, and one who
\* reads the answer to an input.
InLockstep ==
  /\ ~Active => taken = Len(replies) /\ answered = Len(sent)
  /\ \A b \in taken + 1 .. Len(replies) : replies[b].tag = "chunk_finished" => b = Len(replies)
  /\ IF done_writing
     THEN answered = Len(sent) /\ (closed \/ taken = Len(replies)) /\ (closed \/ Reading)
     ELSE \/ answered = Len(sent)
          \/ answered = Len(sent) - 1 /\ taken = Len(replies) /\ Reading
  /\ metadata = "chunk_finished" /\ (chunk_offset > 0 \/ Handing) =>
       taken = Len(replies) /\ answered = Len(sent)

\* That is so as long as no task has failed: a call that fails leaves the answer to its
\* input in the stream.
LockstepInv == NoneFailed => InLockstep

\* Until the writes are ended, some task is still to finalize, and while an answer is being
\* handed out, one that has yet to go on to its next input.
CompletionInv ==
  /\ ~done_writing =>
       /\ \E t \in tasks : stage[t] # "finished"
       /\ Active => \E t \in tasks : ~Finalizing(t)
  /\ (\A t \in tasks : stage[t] = "finished") => ~continuing

\* The inputs of t have been sent in turn, the one in hand when the call for it was made.
SentInTurn(t) ==
  /\ \A i \in 1 .. Len(sent) : sent[i] = <<t, i>>
  /\ IF stage[t] = "failed" THEN Len(sent) \in {input[t] - 1, input[t]}
     ELSE IF Active /\ ~Finalizing(t) THEN Len(sent) = input[t] ELSE Len(sent) = input[t] - 1

\* A thread that has the exchange alone takes no batch that is not for the input in hand.
Alone(t) ==
  /\ SentInTurn(t)
  /\ ~Finalizing(t) => ~done_writing
  /\ stage[t] # "failed" /\ Active =>
       /\ Finalizing(t) => done_writing
       /\ \A b \in 1 .. Len(replies) :
            b > taken \/ (b = taken /\ (chunk_offset > 0 \/ stage[t] = "return") /\ metadata # "null") =>
              replies[b].input = IF Finalizing(t) THEN Final ELSE <<t, input[t]>>

AloneInv == \A t \in Threads : tasks = {t} => Alone(t)

\* The invariants of the exchange, however many threads share it.
InOutInv ==
  /\ TypeOK /\ LockInv /\ ServerInv /\ ChunkInv /\ HandedInv
  /\ AnswersEndInPartialVectors => ContinuingMeansMoreOutput /\ NoReadWithoutAnswer
  /\ LockstepInv /\ CompletionInv /\ FinishedMeansComplete /\ AloneInv

=============================================================================
