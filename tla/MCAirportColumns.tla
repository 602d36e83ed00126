-------------------------- MODULE MCAirportColumns --------------------------
(***************************************************************************)
(* Small instances of the columns, rows and parameters.                    *)
(***************************************************************************)
EXTENDS ColumnParts

CONSTANTS col_a, col_b, col_c, col_d, upper_a, int, text, param

-----------------------------------------------------------------------------
(* A table that gains a column and loses one, with the row id first, last  *)
(* or nowhere.                                                             *)

History == <<<<col_a>>, <<col_a, col_b>>, <<col_b>>>>
MCTables ==
  {History,
   [v \in 1 .. 3 |-> <<RowId>> \o History[v]],
   [v \in 1 .. 3 |-> History[v] \o <<RowId>>]}

-----------------------------------------------------------------------------
(* A table of three columns, one with a default and two that may not be    *)
(* NULL; answers with the columns in any order, with and without the row   *)
(* id and a column more.                                                   *)

MCTableColumns == <<col_a, col_b, col_c>>
MCDefaults     == {col_a}
MCNotNull      == {col_a, col_b}

NoneTwice(s) == \A i, j \in 1 .. Len(s) : i # j => s[i] # s[j]
AnswerNames ==
  {s \in UNION {[1 .. n -> {col_a, col_b, col_c, RowId, Other}] : n \in 2 .. 5} : NoneTwice(s)}
MCAnswers == [names : AnswerNames, marked : BOOLEAN]

-----------------------------------------------------------------------------
(* Flights of up to three columns, with the row id at any place or         *)
(* nowhere; data with these columns in any order, of another type,         *)
(* missing, and one more.                                                  *)

MCTypes      == {int, text}
MCParameters == {param}

Field(n, t) == [name |-> n, type |-> t]
Wide        == <<Field(col_a, int), Field(col_b, text), Field(col_c, int)>>
WithRowId(s, k) == SubSeq(s, 1, k) \o <<Field(RowId, int)>> \o SubSeq(s, k + 1, Len(s))

MCFlightSchemas ==
  UNION {{SubSeq(Wide, 1, n)} \cup {WithRowId(SubSeq(Wide, 1, n), k) : k \in 0 .. n} : n \in 1 .. 3}
MCEndpointData ==
  {s \in UNION {[1 .. n -> [name : {col_a, col_b, col_c, col_d}, type : MCTypes]] : n \in 1 .. 3} :
     NoneTwice([i \in 1 .. Len(s) |-> s[i].name])}

-----------------------------------------------------------------------------
(* Schemas of up to three fields, some without a name and some that differ *)
(* in case; tables of two columns with every set of constraints.           *)

MCNames == {col_a, upper_a, col_b}
MCLower == [n \in MCNames |-> IF n = upper_a THEN col_a ELSE n]

MCServerSchemas ==
  UNION {[1 .. n -> [name : MCNames \cup {Empty}, rowid : BOOLEAN, nullable : BOOLEAN, default : BOOLEAN]]
           : n \in 0 .. 3}

Constraint(kind, columns, indexed) == [kind |-> kind, columns |-> columns, indexed |-> indexed]
Primary == {Constraint("primary", <<col_a>>, TRUE), Constraint("primary", <<col_b>>, FALSE),
            Constraint("primary", <<col_b, col_a>>, FALSE)}
Others  == {Constraint("unique", <<col_a>>, TRUE), Constraint("unique", <<col_b>>, TRUE),
            Constraint("unique", <<col_a, col_b>>, FALSE), Constraint("check", <<col_a, col_b>>, FALSE),
            Constraint("foreign", <<col_b>>, FALSE)}
MCCreateStatements ==
  [columns : {<<col_a, col_b>>, <<col_b, col_a>>}, not_null : SUBSET {1, 2}, defaults : SUBSET {1, 2},
   constraints : {q \cup o : q \in {{}} \cup {{k} : k \in Primary}, o \in SUBSET Others}]

-----------------------------------------------------------------------------
(* Functions of up to three fields; a table is not of type ANY.            *)

Named(f, i) == [name |-> <<col_a, col_b, col_c>>[i], kind |-> f.kind, any |-> f.any]

MCFunctions ==
  {[i \in 1 .. Len(f) |-> Named(f[i], i)] :
     f \in {g \in UNION {[1 .. n -> [kind : {"positional", "named", "table"}, any : BOOLEAN]] : n \in 1 .. 3} :
              \A i \in 1 .. Len(g) : g[i].kind = "table" => ~g[i].any}}
=============================================================================
