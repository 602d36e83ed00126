---------------------------- MODULE ColumnParts ----------------------------
(***************************************************************************)
(* The parts of the program that put columns, rows and parameters in their *)
(* places: the bind of a flight, one statement that writes rows, the data  *)
(* of an endpoint, a table of the catalog, and a call of a table function. *)
(* They share no state: a behaviour is one of the part it starts with, and *)
(* the variables that only other parts have keep the value Unused.  Parts  *)
(* use the same name for variables that play the same role.                *)
(***************************************************************************)
EXTENDS AirportBind, FiniteSets

CONSTANTS
  \* of Dml
  RowColumns, Other, Defaults, NotNull, Answers,
  \* of Endpoint
  Types, FlightSchemas, EndpointData, Parameters, MaxArg,
  \* of Table
  ServerNames, Lower, Empty, CreateStatements, ServerSchemas,
  \* of Function
  Functions, AnyTypes,
  Unused  \* the value of variables that a part does not have

VARIABLES
  part,
  \* of several parts
  step, schema, data_columns,
  \* of Dml
  stmt, send_names, batch, answer, collection,
  \* of EndpointColumns
  names, rowid_index, reader, fields, call, data, mapped, not_mapped, output,
  \* of TableColumns
  statement, request, table_entry,
  \* of FunctionParameters
  function, signature, inputs, named, parameters

dmlVars       == <<stmt, send_names, batch, answer, collection>>
endpointVars  == <<names, rowid_index, reader, fields, call, data, mapped, not_mapped, output>>
tableVars     == <<statement, request, table_entry>>
parameterVars == <<function, signature, inputs, named, parameters>>
allVars       == <<part, vars, step, schema, data_columns, dmlVars, endpointVars, tableVars, parameterVars>>

Dml == INSTANCE AirportDml WITH TableColumns <- RowColumns, phase <- step, column_ids <- data_columns

ASSUME DmlAssumption == Dml!ColumnsAssumption /\ Dml!ConstraintsAssumption /\ Dml!AnswersAssumption

Endpoint == INSTANCE AirportEndpointColumns WITH
  Schemas <- FlightSchemas, Data <- EndpointData, phase <- step, column_ids <- data_columns

ASSUME EndpointAssumption == Endpoint!SchemasAssumption /\ Endpoint!ArgumentsAssumption

Table == INSTANCE AirportTableColumns WITH
  Names <- ServerNames, Statements <- CreateStatements, Schemas <- ServerSchemas,
  phase <- step, entry <- table_entry

ASSUME TableAssumption ==
  Table!NamesAssumption /\ Table!SchemasAssumption /\ Table!StatementsAssumption

Function == INSTANCE AirportFunctionParameters WITH Null <- Unused, phase <- step

ASSUME FunctionAssumption == Function!FunctionsAssumption

-----------------------------------------------------------------------------

\* What AirportBind starts with in behaviours of the other parts; it stays so.
BindAtRest == Init /\ table = CHOOSE t \in Tables : TRUE

dmlIdle ==
  /\ stmt = Unused /\ send_names = Unused /\ batch = Unused /\ answer = Unused
  /\ collection = Unused
endpointIdle ==
  /\ names = Unused /\ rowid_index = Unused /\ reader = Unused /\ fields = Unused
  /\ call = Unused /\ data = Unused /\ mapped = Unused /\ not_mapped = Unused
  /\ output = Unused
tableIdle ==
  /\ statement = Unused /\ request = Unused /\ table_entry = Unused
parameterIdle ==
  /\ function = Unused /\ signature = Unused /\ inputs = Unused /\ named = Unused
  /\ parameters = Unused

PartsInit ==
  \/ /\ part = "bind" /\ Init
     /\ step = Unused /\ schema = Unused /\ data_columns = Unused
     /\ dmlIdle /\ endpointIdle /\ tableIdle /\ parameterIdle
  \/ /\ part = "dml" /\ Dml!Init /\ BindAtRest
     /\ schema = Unused /\ endpointIdle /\ tableIdle /\ parameterIdle
  \/ /\ part = "endpoint" /\ Endpoint!Init /\ BindAtRest
     /\ dmlIdle /\ tableIdle /\ parameterIdle
  \/ /\ part = "table" /\ Table!Init /\ BindAtRest
     /\ data_columns = Unused /\ dmlIdle /\ endpointIdle /\ parameterIdle
  \/ /\ part = "function" /\ Function!Init /\ BindAtRest
     /\ schema = Unused /\ data_columns = Unused
     /\ dmlIdle /\ endpointIdle /\ tableIdle

PartsNext ==
  /\ UNCHANGED part
  /\ \/ /\ part = "bind" /\ Next
        /\ UNCHANGED <<step, schema, data_columns, dmlVars, endpointVars, tableVars, parameterVars>>
     \/ /\ part = "dml" /\ Dml!Next
        /\ UNCHANGED <<vars, schema, endpointVars, tableVars, parameterVars>>
     \/ /\ part = "endpoint" /\ Endpoint!Next
        /\ UNCHANGED <<vars, dmlVars, tableVars, parameterVars>>
     \/ /\ part = "table" /\ Table!Next
        /\ UNCHANGED <<vars, data_columns, dmlVars, endpointVars, parameterVars>>
     \/ /\ part = "function" /\ Function!Next
        /\ UNCHANGED <<vars, schema, data_columns, dmlVars, endpointVars, tableVars>>

PartsSpec == PartsInit /\ [][PartsNext]_allVars
-----------------------------------------------------------------------------
(* The inductive invariant of a part is its type invariant, what is known  *)
(* between its steps, and the properties that are said here of the part.   *)

\* Rows of a statement, in both directions.  What is sent under a column's name is what
\* the statement gives that column, its default if the statement leaves it out, and the
\* row id only under its own name; no row of an INSERT is sent with NULL in a column that
\* may not be NULL, be it given or for want of a default.  INSERT and DELETE return the
\* server's value of each column in the column's place, whatever others the server has
\* and in whatever order; UPDATE does if the server answers in the order that was sent.
RowsInPlace == part = "dml" => Dml!DmlInv

\* Columns of a flight and of the data of its endpoints.  Statistics are of the column for
\* which they are asked, where the row id is the last field or there is none.  A file gives
\* every column its own field, the row id too, wherever in the schema it is.  A table
\* function gives every column its own values, of the type the flight is bound with, in
\* whatever order it returns them; columns it lacks at the end are NULL.  Its arguments up
\* to the first number that is missing are passed at their places, and named ones under
\* their names.
FlightColumnsInPlace ==
  /\ part = "bind" => StatisticsOwnColumn
  /\ part = "endpoint" => Endpoint!EndpointInv

\* Columns of tables.  A request says what the constraints of the statement say, except
\* foreign keys: one over several columns is not taken apart.  With one row id at most, at
\* any place, every column has the type and default of its own field, and NOT NULL too if
\* no two fields have one name; a table that a server makes as it is told has the columns
\* of the statement, in their order and with their NOT NULL.
TableColumnsInPlace == part = "table" => Table!TableInv

\* Every parameter of a call is sent under its own name, with the value and the actual
\* type it is given, and those left out are NULL, however positional and named parameters
\* alternate in the input schema (airport_table_function_set.cpp:154-185).  This is so for
\* functions without a table, and for those with a table that comes last and without
\* named parameters; a named parameter must not be ANY.
ParametersAsGiven == part = "function" => Function!FunctionInv

\* What is said of table functions in endpoints (airport_take_flight.cpp:1003): that the
\* names are passed so that the output mapping is correct.  A column that the function
\* does not return is NULL, and the others have their own values.
OutputMappingCorrect == part = "endpoint" => Endpoint!OutputMappingCorrect
=============================================================================
