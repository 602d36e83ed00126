------------------------ MODULE AirportTableColumns -------------------------
(***************************************************************************)
(* The columns and constraints of a table, on their way to the server in   *)
(* a CREATE TABLE and on their way back as an Arrow schema                 *)
(* (storage/airport_table_set.cpp).                                        *)
(*                                                                         *)
(* The request has the names and types of the columns as an Arrow schema   *)
(* and the constraints in lists by kind.  The table entry is made from the *)
(* schema in the server's answer, as it is for every table the server      *)
(* lists.  Names are compared without regard to case.  The type of a       *)
(* column is stood for by its position.                                    *)
(***************************************************************************)
EXTENDS Integers, Sequences, FiniteSets, Selection

CONSTANTS
  Names,       \* names of columns
  Lower,       \* a function that gives names that differ in case only one value
  Empty,       \* the name of a field that has none
  Statements,  \* the tables created: [columns, not_null, defaults, constraints]
  Schemas      \* the schemas the server may have: sequences of fields

Range(s) == {s[i] : i \in 1 .. Len(s)}

Fields   == [name : Names \cup {Empty}, rowid : BOOLEAN, nullable : BOOLEAN, default : BOOLEAN]
Kinds    == {"primary", "unique", "check", "foreign"}

NamesAssumption ==
  /\ Names \subseteq DOMAIN Lower /\ Empty \notin Names
  /\ \A n \in Names : Lower[n] # Empty
SchemasAssumption == Schemas \subseteq Seq(Fields)

\* DuckDB has no two columns of one name, one primary key at most, and an index only for
\* constraints of one column.
StatementsAssumption ==
  \A s \in Statements :
    /\ s.columns \in Seq(Names) /\ s.not_null \cup s.defaults \subseteq 1 .. Len(s.columns)
    /\ \A i, j \in 1 .. Len(s.columns) : i # j => Lower[s.columns[i]] # Lower[s.columns[j]]
    /\ \A c \in s.constraints :
         /\ c.kind \in Kinds /\ c.columns \in Seq(Range(s.columns)) /\ c.columns # <<>>
         /\ c.indexed \in BOOLEAN /\ (c.indexed => Len(c.columns) = 1)
    /\ \A c, d \in s.constraints : c.kind = "primary" /\ d.kind = "primary" => c = d

VARIABLES
  phase,
  statement,  \* the CREATE TABLE, NoStatement if a table is listed
  request,    \* the parameters of create_table
  schema,     \* the Arrow schema of the table at the server
  entry       \* the table entry: columns, not_null and has_rowid

vars == <<phase, statement, request, schema, entry>>

NoStatement == [columns |-> <<>>, not_null |-> {}, defaults |-> {}, constraints |-> {}]
NoRequest   == [columns |-> <<>>, not_null |-> {}, primary_key |-> {}, unique |-> {},
                multi_key_primary |-> {}, extra |-> {}, check |-> {}]
NoEntry     == [columns |-> <<>>, not_null |-> {}, has_rowid |-> FALSE]

Init ==
  /\ phase = "start"
  /\ statement \in Statements \cup {NoStatement}
  /\ request = NoRequest /\ schema = <<>> /\ entry = NoEntry

-----------------------------------------------------------------------------
(* CreateTable.                                                            *)

OfKind(kind) == {c \in statement.constraints : c.kind = kind}

\* Constraints of a column have an index, those of a table have none.
UniqueColumns == UNION {Range(c.columns) : c \in {d \in OfKind("unique") : d.indexed}}

\* The lists are sets here.  Neither default values nor foreign keys are sent.
Request ==
  [columns           |-> statement.columns,
   not_null          |-> statement.not_null,
   primary_key       |-> {c.columns[1] : c \in {d \in OfKind("primary") : d.indexed}},
   unique            |-> UniqueColumns,
   multi_key_primary |-> UNION {Range(c.columns) : c \in {d \in OfKind("primary") : ~d.indexed}},
   extra             |-> {c.columns : c \in {d \in OfKind("unique") : ~d.indexed}},
   check             |-> {c.columns : c \in OfKind("check")}]

CreateTable ==
  /\ phase = "start" /\ statement # NoStatement
  /\ request' = Request
  /\ phase' = "sent"
  /\ UNCHANGED <<statement, schema, entry>>

\* A server that does as it is told, and may add a field for the row id anywhere.
Requested ==
  [i \in 1 .. Len(request.columns) |->
     [name |-> request.columns[i], rowid |-> FALSE,
      nullable |-> i \notin request.not_null, default |-> FALSE]]
RowIdField == [name |-> Empty, rowid |-> TRUE, nullable |-> TRUE, default |-> FALSE]

WithRowIdAt(k) ==
  [i \in 1 .. Len(Requested) + 1 |->
     IF i < k THEN Requested[i] ELSE IF i = k THEN RowIdField ELSE Requested[i - 1]]
Served == {Requested} \cup {WithRowIdAt(k) : k \in 1 .. Len(Requested) + 1}

Serve ==
  /\ phase = "sent"
  /\ schema' \in Served
  /\ phase' = "received"
  /\ UNCHANGED <<statement, request, entry>>

\* A table the server lists.
List ==
  /\ phase = "start" /\ statement = NoStatement
  /\ schema' \in Schemas
  /\ phase' = "received"
  /\ UNCHANGED <<statement, request, entry>>

-----------------------------------------------------------------------------
(* AirportArrowSchemaToCreateTableInfo.                                    *)

\* The fields that are not row ids, by their positions.
Kept(s) == InOrder({i \in 1 .. Len(s) : ~s[i].rowid}, Len(s))

\* AirportNameForField: v0, v1 and so on for a field without a name.
NameOf(s, i) == IF s[i].name = Empty THEN <<Empty, i>> ELSE <<s[i].name, 0>>
Fold(n)      == IF n[1] = Empty THEN n ELSE <<Lower[n[1]], n[2]>>

ColumnNames(s) ==
  LET kept == Kept(s) IN [k \in 1 .. Len(kept) |-> NameOf(s, kept[k])]

\* QueryResult::DeduplicateColumns: a name that was there gets the number of times it was.
Deduplicated(ns) ==
  [k \in 1 .. Len(ns) |->
     LET before == Cardinality({j \in 1 .. k - 1 : Fold(ns[j]) = Fold(ns[k])})
     IN  IF before = 0 THEN ns[k] ELSE <<ns[k][1], before>>]

\* How far the second loop looks back for the field at i; a second row id does not count.
Adjust(s, i) == IF \E j \in 1 .. i : s[j].rowid THEN 1 ELSE 0

At(f, k) == IF k \in 1 .. Len(f) THEN f[k] ELSE <<Empty, 0>>

\* The columns: the name, the position of the field whose type it has, its default.
TableColumns(s) ==
  LET kept  == Kept(s)
      names == Deduplicated(ColumnNames(s))
  IN  [k \in 1 .. Len(kept) |->
         LET i == kept[k]
             j == i - Adjust(s, i)
         IN  [name    |-> At(names, j),
              type    |-> IF j \in 1 .. Len(kept) THEN kept[j] ELSE 0,
              default |-> s[i].default]]

\* Faulty: the numbers of the fields are taken for those of the columns.
NotNullByField(s) == {i \in 1 .. Len(s) : ~s[i].nullable /\ ~s[i].rowid}

\* The first loop remembers names, which are then looked up among the columns.
NotNullColumns(s) ==
  LET kept     == Kept(s)
      names    == Deduplicated(ColumnNames(s))
      not_null == {Fold(NameOf(s, i)) : i \in {i \in Range(kept) : ~s[i].nullable}}
  IN  {k \in 1 .. Len(kept) : Fold(At(names, k)) \in not_null}

EntryOf(s) == [columns   |-> TableColumns(s),
               not_null  |-> NotNullColumns(s),
               has_rowid |-> \E i \in 1 .. Len(s) : s[i].rowid]

AirportArrowSchemaToCreateTableInfo ==
  /\ phase = "received"
  /\ entry' = EntryOf(schema)
  /\ phase' = "created"
  /\ UNCHANGED <<statement, request, schema>>

Next ==
  \/ CreateTable \/ Serve \/ List
  \/ AirportArrowSchemaToCreateTableInfo

Spec == Init /\ [][Next]_vars

-----------------------------------------------------------------------------

\* The state is well formed; the constraints of a request and of an entry are of columns
\* it has.
TypeOK ==
  /\ phase \in {"start", "sent", "received", "created"}
  /\ statement \in Statements \cup {NoStatement}
  /\ LET names == Range(request.columns)
     IN  /\ request.not_null \subseteq 1 .. Len(request.columns)
         /\ request.primary_key \cup request.unique \cup request.multi_key_primary \subseteq names
         /\ \A c \in request.extra : Range(c) \subseteq names
  /\ Len(entry.columns) <= Len(schema) /\ entry.not_null \subseteq 1 .. Len(entry.columns)

\* What the lists of a request say.
Meant ==
  {<<"primary", {n}>> : n \in request.primary_key}
    \cup (IF request.multi_key_primary = {} THEN {} ELSE {<<"primary", request.multi_key_primary>>})
    \cup {<<"unique", {n}>> : n \in request.unique}
    \cup {<<"unique", Range(c)>> : c \in request.extra}
    \cup {<<"check", Range(c)>> : c \in request.check}

\* The lists of a request say what the constraints of the statement say, except foreign
\* keys: a constraint over several columns is not taken apart, and a primary key is one.
ConstraintsSent ==
  phase = "sent" =>
    Meant = {<<c.kind, Range(c.columns)>> : c \in {d \in statement.constraints : d.kind # "foreign"}}

OneRowId(s)  == \A i, j \in 1 .. Len(s) : s[i].rowid /\ s[j].rowid => i = j
OwnNames(s)  ==
  \A i, j \in 1 .. Len(s) :
    ~s[i].rowid /\ ~s[j].rowid /\ i # j => Fold(NameOf(s, i)) # Fold(NameOf(s, j))

\* With one row id at most, at any place, every column has the type and the default of its
\* own field, and no two columns have one name, even if two fields have.
ColumnsOfOwnFields ==
  (phase = "created" /\ OneRowId(schema)) =>
    LET kept == Kept(schema)
    IN  /\ Len(entry.columns) = Len(kept)
        /\ \A k \in 1 .. Len(entry.columns) :
             entry.columns[k].type = kept[k] /\ entry.columns[k].default = schema[kept[k]].default
        /\ \A j, k \in 1 .. Len(entry.columns) :
             j # k => Fold(entry.columns[j].name) # Fold(entry.columns[k].name)

\* If also no two fields have the same name, the columns that may not be NULL are those
\* whose fields are not nullable.
NotNullOfOwnFields ==
  (phase = "created" /\ OneRowId(schema) /\ OwnNames(schema)) =>
    LET kept == Kept(schema)
    IN  \A k \in 1 .. Len(entry.columns) : k \in entry.not_null <=> ~schema[kept[k]].nullable

\* A table created at a server that does as it is told has the columns of the statement,
\* in their order and with their NOT NULL constraints, whether or not the server adds a
\* row id.
CreatedAsStated ==
  (phase = "created" /\ statement # NoStatement) =>
    /\ [k \in 1 .. Len(entry.columns) |-> entry.columns[k].name[1]] = statement.columns
    /\ entry.not_null = statement.not_null

\* What is known of the request, the schema and the entry as they are made.
MadeInv ==
  /\ phase = "start" => request = NoRequest
  /\ phase # "start" => IF statement = NoStatement THEN request = NoRequest ELSE request = Request
  /\ phase \in {"start", "sent"} => schema = <<>>
  /\ phase = "sent" => statement # NoStatement
  /\ phase \in {"received", "created"} =>
       schema \in (IF statement = NoStatement THEN Seq(Fields) ELSE Served)
  /\ entry = IF phase = "created" THEN EntryOf(schema) ELSE NoEntry

\* The inductive invariant.
TableInv ==
  /\ TypeOK /\ MadeInv
  /\ ConstraintsSent /\ ColumnsOfOwnFields /\ NotNullOfOwnFields /\ CreatedAsStated

=============================================================================
