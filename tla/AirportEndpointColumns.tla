----------------------- MODULE AirportEndpointColumns -----------------------
(***************************************************************************)
(* How the columns of an endpoint's data reach the columns of a scan       *)
(* (airport_take_flight.cpp, airport_flight_stream.cpp and                 *)
(* airport_schema_utils.cpp).                                              *)
(*                                                                         *)
(* A flight is bound with the schema its server gave.  Its data comes from *)
(* endpoints: from a stream of the server, from an Arrow file or stream,   *)
(* or from a table function of DuckDB that the endpoint names, such as     *)
(* parquet_scan.  AirportScan has the threads and chunks of a scan; this   *)
(* module follows one row of one endpoint.  A value is stood for by the    *)
(* field it belongs to.                                                    *)
(***************************************************************************)
EXTENDS Integers, Sequences, FiniteSets, Selection

CONSTANTS
  RowId,      \* COLUMN_IDENTIFIER_ROW_ID, and the name of the field marked is_rowid
  Types,      \* the types of a column
  Schemas,    \* the schemas a flight may have, sequences of [name, type]
  Data,       \* the columns an endpoint's data may have, sequences of [name, type]
  Parameters, \* the names of a table function's named parameters
  MaxArg      \* arg_0 .. arg_MaxArg are the names of the positional ones

Range(s)    == {s[i] : i \in 1 .. Len(s)}
Distinct(s) == \A i, j \in 1 .. Len(s) : i # j => s[i] # s[j]
HasNames(s) == \A i, j \in 1 .. Len(s) : i # j => s[i].name # s[j].name

Names(s)    == {s[i].name : i \in 1 .. Len(s)}

SchemasAssumption ==
  /\ \A s \in Schemas \cup Data :
       s \in Seq([name : Names(s), type : Types]) /\ HasNames(s) /\ RowId \notin 1 .. Len(s) + 1
  /\ \A s \in Schemas : \E i \in 1 .. Len(s) : s[i].name # RowId
  /\ \A s \in Data : RowId \notin Names(s)
ArgumentsAssumption == MaxArg \in Nat /\ Parameters \cap (0 .. MaxArg + 1) = {}

VARIABLES
  phase,
  schema,        \* the Arrow schema of the flight
  names,         \* the columns it is bound with, [name, type] of each
  rowid_index,   \* where in the schema the row id is, 0 if it has none
  column_ids,    \* the columns the query asks for: an index of names, or RowId
  reader,        \* what the endpoint is read with
  fields,        \* the names of the arguments an endpoint has for a table function
  call,          \* the call that is made of them
  data,          \* the columns of the endpoint's data
  mapped,        \* mapped_column_ids: the columns asked of a table function
  not_mapped,    \* not_mapped_column_indexes
  output         \* the row read, one value for each of column_ids

vars == <<phase, schema, names, rowid_index, column_ids, reader, fields, call, data,
          mapped, not_mapped, output>>

NoCall    == [args |-> <<>>, named |-> [p \in {} |-> p]]
Null      == [name |-> "null", type |-> "null"]
Undefined == [name |-> "undefined", type |-> "undefined"]
FunctionRowId == [name |-> "row id", type |-> "function"]
FieldNames == (0 .. MaxArg) \cup Parameters
FieldLists == {s \in UNION {[1 .. n -> FieldNames] : n \in 0 .. Cardinality(FieldNames)} : Distinct(s)}
Position(s, x) == CHOOSE i \in 1 .. Len(s) : s[i] = x
NamePosition(s, n) == CHOOSE i \in 1 .. Len(s) : s[i].name = n

Init ==
  /\ phase = "unbound" /\ schema \in Schemas
  /\ names = <<>> /\ rowid_index = 0 /\ column_ids = <<>>
  /\ reader = "none" /\ fields = <<>> /\ call = NoCall /\ data = <<>>
  /\ mapped = <<>> /\ not_mapped = {} /\ output = <<>>

-----------------------------------------------------------------------------
(* Bind and InitGlobal.                                                    *)

\* The columns of the flight are the fields of its schema without the row id.
FlightColumns == Selected(schema, {i \in 1 .. Len(schema) : schema[i].name # RowId})
RowIdIndex    == IF RowId \in Names(schema) THEN NamePosition(schema, RowId) ELSE 0

AirportExamineSchema ==
  /\ phase = "unbound"
  /\ names' = FlightColumns /\ rowid_index' = RowIdIndex
  /\ phase' = "bound"
  /\ UNCHANGED <<schema, column_ids, reader, fields, call, data, mapped, not_mapped, output>>

Ids == (1 .. Len(names)) \cup {RowId}

\* The query asks for columns in any order, or for the row id, as count(*) does.
InitGlobal ==
  /\ phase = "bound"
  /\ \E n \in 1 .. Len(names) + 1 : column_ids' \in {s \in [1 .. n -> Ids] : Distinct(s)}
  /\ phase' = "ready"
  /\ UNCHANGED <<schema, names, rowid_index, reader, fields, call, data, mapped, not_mapped, output>>

-----------------------------------------------------------------------------
(* ProcessEndpoint.                                                        *)

\* A stream of the server is read as it comes.
OpenFlight ==
  /\ phase = "ready" /\ reader' = "flight"
  /\ data' \in Data \cup {schema}
  /\ phase' = "open"
  /\ UNCHANGED <<schema, names, rowid_index, column_ids, fields, call, mapped, not_mapped, output>>

\* A file must have the schema of the flight.
OpenIpc ==
  /\ phase = "ready" /\ reader' = "ipc"
  /\ data' \in Data \cup {schema}
  /\ phase' = IF data' = schema THEN "open" ELSE "refused"
  /\ UNCHANGED <<schema, names, rowid_index, column_ids, fields, call, mapped, not_mapped, output>>

\* The call of parquet_scan is that with the URI.
OpenParquet ==
  /\ phase = "ready" /\ reader' = "function"
  /\ phase' = "called"
  /\ UNCHANGED <<schema, names, rowid_index, column_ids, fields, call, data, mapped, not_mapped, output>>

\* arg_0, arg_1 and so on, each found by its name, until there is none of that number.
Arguments(fs) ==
  LET count == CHOOSE n \in 0 .. MaxArg + 1 :
                 /\ \A k \in 0 .. n - 1 : k \in Range(fs)
                 /\ n \notin Range(fs)
  IN  [k \in 1 .. count |-> fs[Position(fs, k - 1)]]

\* Fields that are not called arg_* are named parameters.
AirportParseFunctionCallDetails ==
  /\ phase = "ready" /\ reader' = "function"
  /\ fields' \in FieldLists
  /\ call' = [args  |-> Arguments(fields'),
              named |-> [p \in Range(fields') \cap Parameters |-> p]]
  /\ phase' \in {"called", "refused"}
  /\ UNCHANGED <<schema, names, rowid_index, column_ids, data, mapped, not_mapped, output>>

\* The columns asked for that are looked for, and found, in what the function returns; row
\* ids are left.
Known(d) ==
  Selected(column_ids, {i \in 1 .. Len(column_ids) :
                          column_ids[i] = RowId \/ names[column_ids[i]].name \in Names(d)})

\* Faulty: the columns are taken from where they stand in the flight.
MappedByPosition(d) == Known(d)

\* Each column is asked for by where its name is in what the function returns.
Mapped(d) ==
  LET known == Known(d)
  IN  [i \in 1 .. Len(known) |->
         IF known[i] = RowId THEN RowId ELSE NamePosition(d, names[known[i]].name)]

NotMapped(d) == {c \in Range(column_ids) \ {RowId} : names[c].name \notin Names(d)}

\* A column that is found with another type is refused.
TypesMatch(d) ==
  \A c \in Range(column_ids) \ {RowId} :
    names[c].name \in Names(d) => d[NamePosition(d, names[c].name)].type = names[c].type

AirportLocalScanData ==
  /\ phase = "called"
  /\ data' \in Data
  /\ IF TypesMatch(data')
     THEN /\ mapped' = Mapped(data')
          /\ not_mapped' = NotMapped(data')
          /\ phase' = "open"
     ELSE UNCHANGED <<mapped, not_mapped>> /\ phase' = "refused"
  /\ fields' = <<>> /\ call' = NoCall
  /\ UNCHANGED <<schema, names, rowid_index, column_ids, reader, output>>

-----------------------------------------------------------------------------
(* Reading.                                                                *)

\* The field at i of a batch; one the batch does not have is read past its end.
FieldAt(i) == IF i \in 1 .. Len(data) THEN data[i] ELSE Undefined

\* The columns of the flight do not count the row id, the fields of a batch do.
ArrowToDuckDB(c) ==
  IF rowid_index = 0 THEN IF c = RowId THEN Undefined ELSE FieldAt(c)
  ELSE IF c = RowId THEN FieldAt(rowid_index)
  ELSE IF c >= rowid_index THEN FieldAt(c + 1) ELSE FieldAt(c)

AirportDataFromStream ==
  /\ phase = "open" /\ reader \in {"flight", "ipc"}
  /\ output' = [i \in 1 .. Len(column_ids) |-> ArrowToDuckDB(column_ids[i])]
  /\ phase' = "read"
  /\ UNCHANGED <<schema, names, rowid_index, column_ids, reader, fields, call, data, mapped, not_mapped>>

\* What the function makes of the columns it is asked for: they fill the first columns
\* of the output; its row id is its own.
FunctionOutput(i) ==
  IF i > Len(mapped) THEN Undefined
  ELSE IF mapped[i] = RowId THEN FunctionRowId ELSE FieldAt(mapped[i])

\* The columns not found are made NULL, at their place in the flight.
Nulls(row) == [i \in 1 .. Len(row) |-> IF i \in not_mapped THEN Null ELSE row[i]]

\* A place that the output does not have is an internal error.
AirportDataFromLocalScanFunction ==
  /\ phase = "open" /\ reader = "function"
  /\ IF not_mapped \subseteq 1 .. Len(column_ids)
     THEN /\ output' = Nulls([i \in 1 .. Len(column_ids) |-> FunctionOutput(i)])
          /\ phase' = "read"
     ELSE phase' = "failed" /\ UNCHANGED output
  /\ UNCHANGED <<schema, names, rowid_index, column_ids, reader, fields, call, data, mapped, not_mapped>>

Next ==
  \/ AirportExamineSchema \/ InitGlobal
  \/ OpenFlight \/ OpenIpc \/ OpenParquet
  \/ AirportParseFunctionCallDetails \/ AirportLocalScanData
  \/ AirportDataFromStream \/ AirportDataFromLocalScanFunction

Spec == Init /\ [][Next]_vars

-----------------------------------------------------------------------------

\* The state is well formed; what is asked of a table function are columns it returns.
TypeOK ==
  /\ phase \in {"unbound", "bound", "ready", "called", "open", "read", "refused", "failed"}
  /\ schema \in Schemas /\ data \in Data \cup Schemas \cup {<<>>}
  /\ Range(names) \subseteq Range(schema) /\ rowid_index \in 0 .. Len(schema)
  /\ column_ids \in Seq(Ids)
  /\ reader \in {"none", "flight", "ipc", "function"}
  /\ Range(fields) \subseteq FieldNames /\ Distinct(fields)
  /\ Range(call.args) \cup DOMAIN call.named \subseteq Range(fields)
  /\ Range(mapped) \subseteq (1 .. Len(data)) \cup {RowId}
  /\ not_mapped \subseteq 1 .. Len(names)
  /\ Range(output) \subseteq Range(schema) \cup Range(data) \cup {Null, Undefined, FunctionRowId}

\* The field of the flight that a column of the query stands for.
Asked(c) == IF c = RowId THEN schema[rowid_index] ELSE names[c]

\* A file that is read gives every column its own field, the row id too, wherever in the
\* schema the row id is.
FileColumnsInPlace ==
  (phase = "read" /\ reader = "ipc") =>
    \A i \in 1 .. Len(column_ids) :
      (column_ids[i] = RowId => rowid_index # 0) => output[i] = Asked(column_ids[i])

\* A table function that returns every column asked for gives each its own values, of
\* the type the flight is bound with, in whatever order the function returns them and
\* whatever others it returns.
FunctionColumnsInPlace ==
  (phase = "read" /\ reader = "function" /\ not_mapped = {}) =>
    \A i \in 1 .. Len(column_ids) : column_ids[i] # RowId => output[i] = Asked(column_ids[i])

InTableOrder == \A i \in 1 .. Len(column_ids) : column_ids[i] = i

\* When the columns are asked for in the order of the table and the function lacks only
\* the last of them, those are NULL and the others have their values.
MissingLastColumnsAreNull ==
  (phase = "read" /\ reader = "function" /\ InTableOrder
     /\ \A c \in not_mapped : \A d \in c .. Len(column_ids) : d \in not_mapped) =>
    \A i \in 1 .. Len(column_ids) :
      output[i] = IF i \in not_mapped THEN Null ELSE Asked(i)

\* Every argument up to the first number that is missing is passed at its place, and
\* every named parameter under its name, in whatever order the server lists them.
ArgumentsInPlace ==
  (phase = "called" /\ fields # <<>>) =>
    /\ \A k \in 0 .. MaxArg :
         (\A j \in 0 .. k : j \in Range(fields)) => k < Len(call.args) /\ call.args[k + 1] = k
    /\ \A k \in 1 .. Len(call.args) : call.args[k] = k - 1
    /\ \A p \in Parameters \cap Range(fields) : call.named[p] = p

\* What is said of table functions in endpoints (airport_take_flight.cpp:1003): that the
\* names are passed so that the output mapping is correct.  A column that the function
\* does not return is NULL, and the others have their own values.
OutputMappingCorrect ==
  (phase = "read" /\ reader = "function") =>
    \A i \in 1 .. Len(column_ids) :
      column_ids[i] # RowId =>
        output[i] = IF column_ids[i] \in not_mapped THEN Null ELSE Asked(column_ids[i])

\* What an endpoint is read with, from the bind of the flight on.
ReadingInv ==
  /\ phase = "unbound" => names = <<>> /\ column_ids = <<>>
  /\ phase # "unbound" => names = FlightColumns /\ rowid_index = RowIdIndex
  /\ phase \in {"unbound", "bound", "ready"} =>
       fields = <<>> /\ mapped = <<>> /\ not_mapped = {} /\ output = <<>> /\ data = <<>>
  /\ phase \in {"called", "open"} => output = <<>>
  /\ phase = "called" => reader = "function" /\ mapped = <<>> /\ not_mapped = {}
  /\ phase = "open" => reader # "none"
  /\ (phase = "open" /\ reader # "function") => mapped = <<>> /\ not_mapped = {}
  /\ (phase = "open" /\ reader = "ipc") => data = schema
  /\ (phase = "open" /\ reader = "function") =>
       data \in Data /\ TypesMatch(data) /\ mapped = Mapped(data) /\ not_mapped = NotMapped(data)

\* The inductive invariant.
EndpointInv ==
  /\ TypeOK /\ ReadingInv
  /\ FileColumnsInPlace /\ FunctionColumnsInPlace
  /\ MissingLastColumnsAreNull /\ ArgumentsInPlace

=============================================================================
