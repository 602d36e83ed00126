----------------------- MODULE AirportScalarFunction -----------------------
(***************************************************************************)
(* A scalar function the server provides (airport_scalar_function.cpp).    *)
(*                                                                         *)
(* Each thread that evaluates the function has a local state with an       *)
(* exchange of its own: the function is bound once, a thread opens its     *)
(* exchange and waits for the schema of the results, and from then on      *)
(* writes the arguments of a vector as one batch and reads one batch of    *)
(* results.  The monitor that cancels a waiting read is started after the  *)
(* schema has come.  The client takes the results as they are: it does not *)
(* look how many there are.                                                *)
(***************************************************************************)
EXTENDS Integers, Sequences, FiniteSets

CONSTANTS
  Threads,       \* threads that evaluate the function
  MaxRows,       \* rows of a vector of arguments, STANDARD_VECTOR_SIZE
  MaxVectors,    \* bounds the vectors a thread evaluates
  Parameters,    \* the types the function declares, a sequence; "any" takes every type
  ArgumentTypes, \* what the types of arguments may be
  AnyType,           \* is_any_type
  NoThread,      \* there is no exchange
  Garbage        \* what a vector holds beyond the rows put into it

NoThreadAssumption == NoThread \notin Threads
MaxRowsAssumption == MaxRows \in Nat \ {0} /\ MaxVectors \in Nat
ParametersAssumption == AnyType \notin ArgumentTypes

VARIABLES
  arguments,    \* the types of the arguments in the query
  input_schema, \* function_input_schema_, of the bind data
  pc,           \* where a thread is
  exchange,     \* whose exchange its local state holds
  args,         \* the rows of arguments in hand
  vectors,      \* how many vectors it has evaluated
  sent,         \* batches on their way to the server, in each exchange
  answers,      \* batches on their way back
  alive,        \* the exchange is not cancelled and has not failed
  monitor,      \* interrupt_monitor_ runs
  faithful,     \* the server has answered every batch with one result a row
  results,      \* what DuckDB has been given: [args, values]
  interrupted   \* context.interrupted

local == <<pc, exchange, args, vectors, monitor, results>>
wires == <<sent, answers, alive, faithful>>
vars  == <<arguments, input_schema, local, wires, interrupted>>

Nothing == <<>>

\* What a reader gets after the last batch.
EndOfStream == <<NoThread>>

Init ==
  /\ arguments \in [DOMAIN Parameters -> ArgumentTypes]
  /\ input_schema = Nothing
  /\ pc = [t \in Threads |-> "unbound"]
  /\ exchange = [t \in Threads |-> NoThread]
  /\ args = [t \in Threads |-> Nothing]
  /\ vectors = [t \in Threads |-> 0]
  /\ sent = [t \in Threads |-> <<>>]
  /\ answers = [t \in Threads |-> <<>>]
  /\ alive = [t \in Threads |-> FALSE]
  /\ monitor = [t \in Threads |-> FALSE]
  /\ faithful = [t \in Threads |-> TRUE]
  /\ results = [t \in Threads |-> <<>>]
  /\ interrupted = FALSE

Ended(t) == pc[t] \in {"done", "failed", "undefined"}

Goto(t, where) == pc' = [pc EXCEPT ![t] = where]

----------------------------------------------------------------------------
(* AirportScalarFunctionBind                                               *)

\* The type DuckDB casts an argument to before the function sees it.
Cast(i) == IF Parameters[i] = AnyType THEN arguments[i] ELSE Parameters[i]

\* The schema of the arguments: a field that takes any type has the argument's type.
BoundSchema == [i \in DOMAIN Parameters |->
                  IF Parameters[i] = AnyType THEN arguments[i] ELSE Parameters[i]]

Bind ==
  /\ \A t \in Threads : pc[t] = "unbound"
  /\ input_schema' = BoundSchema
  /\ pc' = [t \in Threads |-> "bound"]
  /\ UNCHANGED <<arguments, exchange, args, vectors, monitor, results, wires, interrupted>>

----------------------------------------------------------------------------
(* AirportScalarFunctionLocalState: the constructor.                       *)

\* Faulty: the exchange is kept with the bind data, for all threads.
OpenShared(t) ==
  /\ pc[t] = "bound" /\ ~interrupted
  /\ LET x == CHOOSE u \in Threads : TRUE
     IN exchange' = [exchange EXCEPT ![t] = x] /\ alive' = [alive EXCEPT ![x] = TRUE]
  /\ Goto(t, "schema")
  /\ UNCHANGED <<arguments, input_schema, args, vectors, monitor, results, sent, answers,
       faithful, interrupted>>

\* DoExchange, and Begin with the schema of the arguments.
Open(t) ==
  /\ pc[t] = "bound" /\ ~interrupted
  /\ exchange' = [exchange EXCEPT ![t] = t]
  /\ alive' = [alive EXCEPT ![t] = TRUE]
  /\ Goto(t, "schema")
  /\ UNCHANGED <<arguments, input_schema, args, vectors, monitor, results, sent, answers,
       faithful, interrupted>>

\* GetSchema has waited for the server, with no monitor and no deadline; the schema is the
\* one the function was listed with, and the monitor starts.
GetSchema(t) ==
  /\ pc[t] = "schema" /\ alive[exchange[t]]
  /\ monitor' = [monitor EXCEPT ![t] = TRUE]
  /\ Goto(t, "ready")
  /\ UNCHANGED <<arguments, input_schema, exchange, args, vectors, results, wires, interrupted>>

\* A call fails, the schemas differ, or the interrupt is seen before a call.
OpenFails(t) ==
  /\ \/ pc[t] = "bound"
     \/ pc[t] = "schema" /\ ~alive[exchange[t]]
  /\ Goto(t, "failed")
  /\ UNCHANGED <<arguments, input_schema, exchange, args, vectors, monitor, results, wires,
       interrupted>>

----------------------------------------------------------------------------
(* process_chunk                                                           *)

\* DuckDB evaluates a vector of n rows.  Rows are named after thread, vector and place.
Evaluate(t) ==
  /\ pc[t] = "ready" /\ vectors[t] < MaxVectors
  /\ \E n \in 1 .. MaxRows : args' = [args EXCEPT ![t] = [i \in 1 .. n |-> <<t, vectors[t], i>>]]
  /\ vectors' = [vectors EXCEPT ![t] = @ + 1]
  /\ Goto(t, "write")
  /\ UNCHANGED <<arguments, input_schema, exchange, monitor, results, wires, interrupted>>

\* The batch has the types of the arguments, and is imported with the schema of the bind.
ImportedRight == \A i \in DOMAIN Parameters : input_schema[i] = Cast(i)

WriteRecordBatch(t) ==
  /\ pc[t] = "write" /\ ~interrupted /\ alive[exchange[t]]
  /\ sent' = [sent EXCEPT ![exchange[t]] = Append(@, args[t])]
  /\ Goto(t, "written")
  /\ UNCHANGED <<arguments, input_schema, exchange, args, vectors, monitor, results, answers,
       alive, faithful, interrupted>>

\* The last look at the interrupt before the thread waits for the answer.
WaitForAnswer(t) ==
  /\ pc[t] = "written" /\ ~interrupted
  /\ Goto(t, "read")
  /\ UNCHANGED <<arguments, input_schema, exchange, args, vectors, monitor, results, wires,
       interrupted>>

\* What DuckDB finds in the result vector for n rows: a single result stands for all rows.
ResultVector(answer, n) ==
  IF Len(answer) = 1 THEN [i \in 1 .. n |-> answer[1]]
  ELSE [i \in 1 .. n |-> IF i <= Len(answer) THEN answer[i] ELSE Garbage]

\* GetNextChunk returns a batch of the server, at most a vector of which is taken.
ReadAnswer(t) ==
  /\ pc[t] = "read" /\ answers[exchange[t]] # <<>> /\ Head(answers[exchange[t]]) # EndOfStream
  /\ results' = [results EXCEPT ![t] =
       Append(@, [args   |-> args[t],
                  values |-> ResultVector(Head(answers[exchange[t]]), Len(args[t]))])]
  /\ answers' = [answers EXCEPT ![exchange[t]] = Tail(@)]
  /\ args' = [args EXCEPT ![t] = Nothing]
  /\ Goto(t, "ready")
  /\ UNCHANGED <<arguments, input_schema, exchange, vectors, monitor, sent, alive, faithful,
       interrupted>>

\* GetNextChunk returns an array without columns because the server has ended the stream:
\* the conversion reads a column that is not there.
ReadEnd(t) ==
  /\ pc[t] = "read" /\ answers[exchange[t]] # <<>> /\ Head(answers[exchange[t]]) = EndOfStream
  /\ args' = [args EXCEPT ![t] = Nothing]
  /\ Goto(t, "undefined")
  /\ UNCHANGED <<arguments, input_schema, exchange, vectors, monitor, results, wires,
       interrupted>>

\* A write or a read fails, or the interrupt is seen before it.
ProcessFails(t) ==
  /\ \/ pc[t] = "write" /\ (interrupted \/ ~alive[exchange[t]])
     \/ pc[t] = "written" /\ interrupted
     \/ pc[t] = "read" /\ ~alive[exchange[t]] /\ answers[exchange[t]] = <<>>
  /\ args' = [args EXCEPT ![t] = Nothing]
  /\ monitor' = [monitor EXCEPT ![t] = FALSE]
  /\ Goto(t, "failed")
  /\ UNCHANGED <<arguments, input_schema, exchange, vectors, results, wires, interrupted>>

\* The query has no more vectors for the thread, and the local state is destroyed.
Finish(t) ==
  /\ pc[t] = "ready"
  /\ monitor' = [monitor EXCEPT ![t] = FALSE]
  /\ alive' = [alive EXCEPT ![exchange[t]] = FALSE]
  /\ Goto(t, "done")
  /\ UNCHANGED <<arguments, input_schema, exchange, args, vectors, results, sent, answers,
       faithful, interrupted>>

----------------------------------------------------------------------------
(* The monitors, the user and the server.                                  *)

\* The monitor cancels the stream of its thread.
MonitorFires(t) ==
  /\ monitor[t] /\ interrupted
  /\ monitor' = [monitor EXCEPT ![t] = FALSE]
  /\ alive' = [alive EXCEPT ![exchange[t]] = FALSE]
  /\ UNCHANGED <<arguments, input_schema, pc, exchange, args, vectors, results, sent, answers,
       faithful, interrupted>>

Interrupt ==
  /\ ~interrupted
  /\ interrupted' = TRUE
  /\ UNCHANGED <<arguments, input_schema, local, wires>>

\* The server answers a batch with one result a row; the result of a row is named like it.
Answer(x) ==
  /\ alive[x] /\ sent[x] # <<>>
  /\ answers' = [answers EXCEPT ![x] = Append(@, Head(sent[x]))]
  /\ sent' = [sent EXCEPT ![x] = Tail(@)]
  /\ UNCHANGED <<arguments, input_schema, local, alive, faithful, interrupted>>

\* The server answers with another number of rows, or ends the stream.
AnswerOtherwise(x) ==
  /\ alive[x] /\ sent[x] # <<>>
  /\ \E answer \in {EndOfStream} \cup {[i \in 1 .. n |-> Garbage] :
                                      n \in (0 .. MaxRows) \ {Len(Head(sent[x]))}} :
       answers' = [answers EXCEPT ![x] = Append(@, answer)]
  /\ sent' = [sent EXCEPT ![x] = Tail(@)]
  /\ faithful' = [faithful EXCEPT ![x] = FALSE]
  /\ UNCHANGED <<arguments, input_schema, local, alive, interrupted>>

\* The call fails.
Break(x) ==
  /\ alive[x]
  /\ alive' = [alive EXCEPT ![x] = FALSE]
  /\ UNCHANGED <<arguments, input_schema, local, sent, answers, faithful, interrupted>>

ThreadStep(t) ==
  \/ Open(t) \/ GetSchema(t) \/ OpenFails(t) \/ Evaluate(t) \/ WriteRecordBatch(t)
  \/ WaitForAnswer(t) \/ ReadAnswer(t) \/ ReadEnd(t) \/ ProcessFails(t) \/ Finish(t)

Next ==
  \/ Bind
  \/ \E t \in Threads : ThreadStep(t) \/ MonitorFires(t)
  \/ Interrupt
  \/ \E x \in Threads : Answer(x) \/ AnswerOtherwise(x) \/ Break(x)

Spec == Init /\ [][Next]_vars

\* Threads and monitors go on.  The server answers the opening of an exchange, which is
\* part of GetSchema, and need not do anything after that.
FairSpec ==
  /\ Spec
  /\ \A t \in Threads : WF_vars(ThreadStep(t)) /\ WF_vars(MonitorFires(t))

----------------------------------------------------------------------------
(* Properties.                                                             *)

\* The rows of arguments, named after thread, vector and place, and what may be read as one.
Rows   == Threads \X (0 .. MaxVectors) \X (1 .. MaxRows)
Values == Rows \cup {Garbage, NoThread}

\* The state has its type, and a thread waits for one batch at most.
TypeOK ==
  /\ arguments \in [DOMAIN Parameters -> ArgumentTypes]
  /\ input_schema \in {Nothing, BoundSchema}
  /\ pc \in [Threads -> {"unbound", "bound", "schema", "ready", "write", "written", "read",
                         "done", "failed", "undefined"}]
  /\ exchange \in [Threads -> Threads \cup {NoThread}]
  /\ args \in [Threads -> Seq(Rows)] /\ sent \in [Threads -> Seq(Seq(Rows))]
  /\ answers \in [Threads -> Seq(Seq(Values))]
  /\ results \in [Threads -> Seq([args : Seq(Rows), values : Seq(Values)])]
  /\ \A t \in Threads : Len(args[t]) <= MaxRows /\ Len(sent[t]) + Len(answers[t]) <= 1
  /\ vectors \in [Threads -> 0 .. MaxVectors]
  /\ {alive, monitor, faithful} \subseteq [Threads -> BOOLEAN] /\ interrupted \in BOOLEAN

\* As long as the server gives one result for each row, a row's result is the one for its
\* arguments, whatever other threads evaluate at the same time (process_chunk).
ResultsMatchRows ==
  \A t \in Threads :
    exchange[t] \in Threads /\ faithful[exchange[t]] =>
      \A k \in DOMAIN results[t] : results[t][k].values = results[t][k].args

\* A batch is imported with the schema of the types it was built with
\* (AirportScalarFunctionBind and ImportRecordBatch in process_chunk).
BatchesImportedRight == (\E t \in Threads : pc[t] = "write") => ImportedRight

\* A thread uses no exchange but its own; nothing is under way in it but the batch the thread
\* waits for, and a faithful server answers that batch with its rows.
ThreadInv(t) ==
  /\ pc[t] # "unbound" => input_schema = BoundSchema
  /\ exchange[t] \in {t, NoThread}
  /\ pc[t] \in {"schema", "ready", "write", "written", "read", "done", "undefined"} =>
       exchange[t] = t
  /\ pc[t] \in {"unbound", "bound", "schema", "ready", "write", "done"} =>
       sent[t] = <<>> /\ answers[t] = <<>>
  /\ pc[t] \in {"written", "read"} =>
       \/ sent[t] = <<args[t]>> /\ answers[t] = <<>>
       \/ sent[t] = <<>> /\ Len(answers[t]) = 1 /\ (faithful[t] => answers[t][1] = args[t])
  /\ faithful[t] => \A k \in DOMAIN results[t] : results[t][k].values = results[t][k].args

\* The inductive invariant.
FunctionInv == TypeOK /\ \A t \in Threads : ThreadInv(t)

\* Once the query is interrupted every thread that got its schema ends, even if the server
\* never answers again.
InterruptEnds ==
  \A t \in Threads : (interrupted /\ pc[t] \in {"ready", "write", "written", "read"}) ~> Ended(t)

=============================================================================
