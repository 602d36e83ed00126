----------------------------- MODULE AirportDml -----------------------------
(***************************************************************************)
(* The columns of one INSERT, UPDATE or DELETE (storage/airport_insert.cpp,*)
(* airport_update.cpp, airport_delete.cpp, airport_exchange.cpp and        *)
(* airport_constraints.cpp).                                               *)
(*                                                                         *)
(* The values of a row pass through several orders of the columns: that of *)
(* the statement, that of the table, that of the batch sent, that of the   *)
(* server's answer and that of the rows returned.  AirportExchange has the *)
(* chunks of a statement; this module follows one row of one chunk.  All   *)
(* columns have one type, so that any value fits any column.               *)
(***************************************************************************)
EXTENDS Integers, Sequences, FiniteSets

CONSTANTS
  TableColumns,  \* the names of the table's columns, in their order
  RowId,         \* the name "rowid"
  Other,         \* a column the table does not have
  Defaults,      \* the columns with a default value
  NotNull,       \* the columns with a NOT NULL constraint
  Answers        \* the orders of columns in which the server may answer

Range(s) == {s[i] : i \in 1 .. Len(s)}
Columns  == Range(TableColumns)

ColumnsAssumption ==
  /\ TableColumns \in Seq(Columns)
  /\ \A i, j \in 1 .. Len(TableColumns) : i # j => TableColumns[i] # TableColumns[j]
  /\ Len(TableColumns) > 0 /\ {RowId, Other} \cap Columns = {} /\ RowId # Other
ConstraintsAssumption == Defaults \subseteq Columns /\ NotNull \subseteq Columns
AnswersAssumption ==
  \A a \in Answers : a.names \in Seq(Columns \cup {RowId, Other}) /\ a.marked \in BOOLEAN

VARIABLES
  stmt,        \* the statement as it is bound
  phase,       \* how far it is
  send_names,  \* the names of the columns sent
  batch,       \* the values sent, in the order of send_names
  answer,      \* names: the server's columns; marked: "rowid" is marked as the row id
  column_ids,  \* where each column of the chunk read comes from in the answer
  collection   \* the row returned, in the order of the table

vars == <<stmt, phase, send_names, batch, answer, column_ids, collection>>

Distinct(s)   == \A i, j \in 1 .. Len(s) : i # j => s[i] # s[j]
Lists         == {s \in UNION {[1 .. n -> Columns] : n \in 0 .. Len(TableColumns)} : Distinct(s)}
Position(s, c) == CHOOSE i \in 1 .. Len(s) : s[i] = c
NoAnswer      == [names |-> <<>>, marked |-> FALSE]

\* columns: the columns an INSERT names, none if it names none; the columns an UPDATE
\* sets, all of them in some order if it returns rows, as DuckDB then adds the others.
\* nulls: the columns the statement gives NULL.  special: ON CONFLICT, SET DEFAULT.
Statements ==
  {s \in [kind : {"insert", "update", "delete"}, columns : Lists, nulls : SUBSET Columns,
          special : BOOLEAN, returning : BOOLEAN] :
     /\ s.kind = "update" => s.columns # <<>> /\ (s.returning => Range(s.columns) = Columns)
     /\ s.kind = "delete" => s.columns = <<>> /\ s.nulls = {} /\ ~s.special
     /\ s.columns # <<>> => s.nulls \subseteq Range(s.columns)}

\* What values there are of a column: the one the statement gives, NULL, the column's
\* default, the one the server's row has so far.
Given(c)        == <<IF c \in stmt.nulls THEN "null" ELSE "given", c>>
DefaultValue(c) == <<IF c \in Defaults THEN "default" ELSE "null", c>>
Stored(c)       == <<"stored", c>>
IsNull(v)       == v[1] = "null"
Values          == {"given", "null", "default", "stored"} \X (Columns \cup {RowId, Other})

Init ==
  /\ stmt \in Statements
  /\ phase = "bound"
  /\ send_names = <<>> /\ batch = <<>> /\ answer = NoAnswer
  /\ column_ids = <<>> /\ collection = <<>>

-----------------------------------------------------------------------------
(* Planning.                                                               *)

\* PlanInsert; all columns are sent, in the order of the table.
PlanInsert ==
  /\ phase = "bound" /\ stmt.kind = "insert"
  /\ phase' = IF stmt.special THEN "refused" ELSE "planned"
  /\ send_names' = IF stmt.special THEN <<>> ELSE TableColumns
  /\ UNCHANGED <<stmt, batch, answer, column_ids, collection>>

\* PlanUpdate, for a table with row ids; the row id is sent last.
PlanUpdate ==
  /\ phase = "bound" /\ stmt.kind = "update"
  /\ phase' = IF stmt.special THEN "refused" ELSE "planned"
  /\ send_names' = IF stmt.special THEN <<>> ELSE Append(stmt.columns, RowId)
  /\ UNCHANGED <<stmt, batch, answer, column_ids, collection>>

\* PlanDelete, for a table with row ids; nothing else is sent.
PlanDelete ==
  /\ phase = "bound" /\ stmt.kind = "delete"
  /\ phase' = "planned" /\ send_names' = <<RowId>>
  /\ UNCHANGED <<stmt, batch, answer, column_ids, collection>>

-----------------------------------------------------------------------------
(* AirportExchangeGetGlobalSinkState.                                      *)

\* The names looked for in the answer.
Destination == IF stmt.kind = "update" THEN Append(TableColumns, RowId) ELSE TableColumns

\* Each column is found by its name, for an update it is only looked for: it is taken
\* from where it stands.  A marked row id of that name is not read, which 0 stands for.
ColumnIds(a) ==
  [i \in 1 .. Len(Destination) |->
     CASE stmt.kind # "update"             -> Position(a.names, Destination[i])
       [] a.marked /\ Destination[i] = RowId -> 0
       [] OTHER                            -> i]

\* The server's schema is read; if rows are to be returned, a column that is missing
\* ends the statement.
Open ==
  /\ phase = "planned"
  /\ answer' \in Answers
  /\ IF ~stmt.returning THEN phase' = "sinking" /\ UNCHANGED column_ids
     ELSE IF Range(Destination) \subseteq Range(answer'.names)
     THEN phase' = "sinking" /\ column_ids' = ColumnIds(answer')
     ELSE phase' = "refused" /\ UNCHANGED column_ids
  /\ UNCHANGED <<stmt, send_names, batch, collection>>

-----------------------------------------------------------------------------
(* Sink.                                                                   *)

\* The chunk of an INSERT has the columns the statement names, or all.
InsertChunk ==
  LET names == IF stmt.columns = <<>> THEN TableColumns ELSE stmt.columns
  IN  [i \in 1 .. Len(names) |-> Given(names[i])]

\* column_index_map: where in the chunk a column is, 0 if it is not.
ColumnIndexMap ==
  [c \in Columns |-> IF c \in Range(stmt.columns) THEN Position(stmt.columns, c) ELSE 0]

ResolveDefaults ==
  [i \in 1 .. Len(TableColumns) |->
     IF stmt.columns = <<>> THEN InsertChunk[i]
     ELSE LET at == ColumnIndexMap[TableColumns[i]]
          IN  IF at = 0 THEN DefaultValue(TableColumns[i]) ELSE InsertChunk[at]]

\* Faulty: only the values the statement gives are verified.
VerifyAppendConstraintsOfChunk(row) ==
  \A i \in 1 .. Len(InsertChunk) : InsertChunk[i][2] \in NotNull => ~IsNull(InsertChunk[i])

\* Each constrained column is looked up by its name.
VerifyAppendConstraints(row) ==
  \A c \in NotNull : c \in Range(send_names) => ~IsNull(row[Position(send_names, c)])

SinkInsert ==
  /\ phase = "sinking" /\ stmt.kind = "insert"
  /\ IF VerifyAppendConstraints(ResolveDefaults)
     THEN batch' = ResolveDefaults /\ phase' = "written"
     ELSE UNCHANGED batch /\ phase' = "refused"
  /\ UNCHANGED <<stmt, send_names, answer, column_ids, collection>>

\* The value of each expression, and the last column of the chunk, which is the row id.
SinkUpdate ==
  /\ phase = "sinking" /\ stmt.kind = "update"
  /\ batch' = [i \in 1 .. Len(send_names) |->
                 IF i <= Len(stmt.columns) THEN Given(stmt.columns[i]) ELSE Stored(RowId)]
  /\ phase' = "written"
  /\ UNCHANGED <<stmt, send_names, answer, column_ids, collection>>

\* The chunk may have other columns, filters among them; rowid_index says which is sent.
SinkDelete ==
  /\ phase = "sinking" /\ stmt.kind = "delete"
  /\ batch' = <<Stored(RowId)>>
  /\ phase' = "written"
  /\ UNCHANGED <<stmt, send_names, answer, column_ids, collection>>

\* What the server makes of the row: the values sent, and those it has.
ServerRow(c) ==
  IF stmt.kind # "delete" /\ c \in Range(send_names) THEN batch[Position(send_names, c)]
  ELSE Stored(c)

\* ReadDataIntoChunk: the column at i of the chunk; one that is not read stays as it is.
ReadColumn(i) ==
  IF column_ids[i] = 0 THEN <<"null", RowId>> ELSE ServerRow(answer.names[column_ids[i]])

\* An update puts what it has read at the places of the columns it sets.
ReturnedUpdate ==
  [i \in 1 .. Len(TableColumns) |-> ReadColumn(Position(stmt.columns, TableColumns[i]))]

Read ==
  /\ phase = "written" /\ stmt.returning
  /\ collection' = IF stmt.kind = "update" THEN ReturnedUpdate
                   ELSE [i \in 1 .. Len(TableColumns) |-> ReadColumn(i)]
  /\ phase' = "finished"
  /\ UNCHANGED <<stmt, send_names, batch, answer, column_ids>>

\* Without RETURNING the only row of the result is the number of rows.
Count ==
  /\ phase = "written" /\ ~stmt.returning
  /\ phase' = "finished"
  /\ UNCHANGED <<stmt, send_names, batch, answer, column_ids, collection>>

Next ==
  \/ PlanInsert \/ PlanUpdate \/ PlanDelete
  \/ Open
  \/ SinkInsert \/ SinkUpdate \/ SinkDelete
  \/ Read \/ Count

Spec == Init /\ [][Next]_vars

-----------------------------------------------------------------------------

\* The state is well formed: a batch has a value for each name it is sent with.
TypeOK ==
  /\ stmt \in Statements
  /\ phase \in {"bound", "planned", "sinking", "written", "finished", "refused"}
  /\ Range(send_names) \subseteq Columns \cup {RowId} /\ Distinct(send_names)
  /\ batch = <<>> \/ (Len(batch) = Len(send_names) /\ Range(batch) \subseteq Values)
  /\ answer \in Answers \cup {NoAnswer}
  /\ \A i \in 1 .. Len(column_ids) : column_ids[i] \in 0 .. Len(answer.names)
  /\ collection = <<>> \/ (Len(collection) = Len(TableColumns) /\ Range(collection) \subseteq Values)

\* What is sent under a column's name is what the statement gives that column, its
\* default if the statement leaves it out, and the row id only under its own name,
\* whatever the order in which the statement names its columns.
SentUnderOwnName ==
  batch # <<>> =>
    \A i \in 1 .. Len(send_names) :
      LET c == send_names[i]
      IN  batch[i] = IF c = RowId THEN Stored(RowId)
                     ELSE IF stmt.columns = <<>> \/ c \in Range(stmt.columns) THEN Given(c)
                     ELSE DefaultValue(c)

\* No row of an INSERT is sent that has NULL in a column that may not be NULL, be it
\* given or for want of a default.
NotNullIsKept ==
  (batch # <<>> /\ stmt.kind = "insert") =>
    \A i \in 1 .. Len(send_names) : send_names[i] \in NotNull => ~IsNull(batch[i])

Returned(c) == collection[Position(TableColumns, c)]

\* INSERT and DELETE return the server's value of each column in the column's place, in
\* whatever order the server has its columns and whatever others it has.
RowsReturnedByName ==
  (collection # <<>> /\ stmt.kind # "update") => \A c \in Columns : Returned(c) = ServerRow(c)

\* UPDATE does so if the server answers in the order in which the columns were sent.
EchoedUpdateReturned ==
  (collection # <<>> /\ stmt.kind = "update"
     /\ Len(answer.names) >= Len(send_names)
     /\ \A i \in 1 .. Len(send_names) : answer.names[i] = send_names[i]) =>
    \A c \in Columns : Returned(c) = ServerRow(c)

SendNames ==
  CASE stmt.kind = "insert" -> TableColumns
    [] stmt.kind = "update" -> Append(stmt.columns, RowId)
    [] OTHER                -> <<RowId>>

\* What the phases have done: the columns sent are chosen once, a returned column has been
\* found in the answer, and only a row that was read is returned.
PhaseInv ==
  /\ phase \in {"planned", "sinking", "written", "finished"} => send_names = SendNames
  /\ batch = <<>> <=> phase \in {"bound", "planned", "sinking", "refused"}
  /\ phase \in {"bound", "planned"} => column_ids = <<>>
  /\ phase # "finished" => collection = <<>>
  /\ phase \in {"sinking", "written", "finished"} /\ stmt.returning =>
       /\ answer \in Answers /\ Range(Destination) \subseteq Range(answer.names)
       /\ column_ids = ColumnIds(answer)

\* The inductive invariant.
DmlInv ==
  /\ TypeOK /\ PhaseInv
  /\ SentUnderOwnName /\ NotNullIsKept
  /\ RowsReturnedByName /\ EchoedUpdateReturned

=============================================================================
