--------------------------- MODULE ExchangeParts ----------------------------
(***************************************************************************)
(* The exchanges in which a client and a server take turns: a statement of *)
(* any kind that writes rows, and a scalar function of the server, which   *)
(* several threads evaluate.  They share no state: a behaviour is one of   *)
(* the part it starts with, and the variables of the other part are at     *)
(* rest in it.                                                             *)
(***************************************************************************)
EXTENDS AirportExchange

CONSTANTS
  \* of ScalarFunction
  Threads, NoThread, MaxRows, MaxVectors, Parameters, ArgumentTypes, AnyType, Garbage,
  Unused  \* the value of variables that are at rest

VARIABLES
  part,
  \* of ScalarFunction
  arguments, input_schema, place, exchange, args, vectors, arguments_sent, results_sent,
  connected, monitors, faithful, results, stopped

functionVars == <<arguments, input_schema, place, exchange, args, vectors, arguments_sent,
                  results_sent, connected, monitors, faithful, results, stopped>>
allVars      == <<part, vars, functionVars>>

Function == INSTANCE AirportScalarFunction WITH
  pc <- place, sent <- arguments_sent, answers <- results_sent, alive <- connected,
  monitor <- monitors, interrupted <- stopped

ASSUME FunctionAssumption ==
  Function!NoThreadAssumption /\ Function!MaxRowsAssumption /\ Function!ParametersAssumption

-----------------------------------------------------------------------------

\* What AirportExchange has in behaviours of the scalar function: a statement that failed
\* as it opened.
ExchangeAtRest ==
  /\ creates = FALSE /\ returning = FALSE /\ answering = FALSE
  /\ query = "failed" /\ table = TRUE
  /\ todo = Chunks /\ chunk = NoChunk /\ pc = "idle"
  /\ sent = <<>> /\ answers = <<>> /\ closed = FALSE /\ served = FALSE /\ alive = FALSE
  /\ interrupted = FALSE /\ monitor = FALSE
  /\ applied = <<>> /\ collection = <<>> /\ count = 0

functionIdle ==
  /\ arguments = Unused /\ input_schema = Unused /\ place = Unused /\ exchange = Unused
  /\ args = Unused /\ vectors = Unused /\ arguments_sent = Unused /\ results_sent = Unused
  /\ connected = Unused /\ monitors = Unused /\ faithful = Unused /\ results = Unused
  /\ stopped = Unused

PartsInit ==
  \/ part = "statement" /\ Init /\ functionIdle
  \/ part = "function" /\ Function!Init /\ ExchangeAtRest

PartsNext ==
  /\ UNCHANGED part
  /\ \/ part = "statement" /\ Next /\ UNCHANGED functionVars
     \/ part = "function" /\ Function!Next /\ UNCHANGED vars

\* The fairness of each part, as its module states it; the deadline of statements whose
\* server answers unasked is fair.
PartsFairness ==
  /\ WF_vars(part = "statement" /\ Client /\ UNCHANGED kind)
  /\ WF_vars(part = "statement" /\ MonitorFires /\ UNCHANGED kind)
  /\ WF_vars(part = "statement" /\ ~AnswersWhenAsked /\ DeadlineExpires /\ UNCHANGED kind)
  /\ \A t \in Threads :
       /\ WF_functionVars(part = "function" /\ Function!ThreadStep(t))
       /\ WF_functionVars(part = "function" /\ Function!MonitorFires(t))

PartsSpec == PartsInit /\ [][PartsNext]_allVars /\ PartsFairness
-----------------------------------------------------------------------------

\* As long as the server gives one result for each row, a row's result is the one for its
\* arguments, whatever other threads evaluate at the same time, and every batch is
\* imported with the schema of the types it was built with (process_chunk).
ResultsMatchRows ==
  part = "function" =>
    Function!ResultsMatchRows /\ Function!BatchesImportedRight /\ Function!FunctionInv

\* What waits for the server ends.  A statement that is interrupted while its monitor runs
\* does, and so does every thread of an interrupted scalar function that got its schema,
\* although the server may never read or answer again; and without an interrupt the
\* deadline ends a statement, although server and client may wait for each other.
WaitsEnd ==
  /\ (part = "statement" /\ interrupted /\ monitor) ~> Over
  /\ (part = "statement" /\ ~AnswersWhenAsked /\ query # "creating") ~> Over
  /\ \A t \in Threads :
       (part = "function" /\ stopped /\ place[t] \in {"ready", "write", "written", "read"})
         ~> (part = "function" /\ Function!Ended(t))
=============================================================================
