---------------------------- MODULE AirportBind -----------------------------
(***************************************************************************)
(* How a flight is bound, planned and started: the bind functions of       *)
(* airport_take_flight.cpp, AirportTakeFlightStatistics, the pushdown of   *)
(* filters and AirportArrowScanInitGlobal.                                 *)
(*                                                                         *)
(* The table behind a flight goes through versions, each with columns of   *)
(* its own, and changes while a query is bound, planned and run.  A query  *)
(* reads a table of a catalog, calls a table function, or names a flight   *)
(* by its descriptor, now or at an earlier version (AT).  Each request     *)
(* goes to the server and back in one step.                                *)
(***************************************************************************)
EXTENDS Integers, Sequences, Selection

CONSTANTS
  MaxVersion,  \* bounds the versions of the table
  Tables,      \* the histories it may have: the columns of each version
  RowId,       \* the name of the field that is marked as the row id
  MaxRuns,     \* bounds how often a plan is run
  None         \* no number, no column

FieldsOf(s) == {s[i] : i \in 1 .. Len(s)}
Versions == 1 .. MaxVersion

ASSUME BoundsAssumption == MaxVersion \in Nat \ {0} /\ MaxRuns \in Nat \ {0}
ASSUME TablesAssumption ==
  \A t \in Tables : \A v \in Versions :
    /\ t[v] \in Seq(FieldsOf(t[v])) /\ Len(t[v]) > 0
    /\ \A i, j \in 1 .. Len(t[v]) : i # j => t[v][i] # t[v][j]
ASSUME NoneAssumption == None \notin Versions /\ \A t \in Tables : \A v \in Versions : None \notin FieldsOf(t[v])

VARIABLES
  table,      \* the history of the table
  version,    \* its version now
  entry,      \* the version of the schema in the catalog's entry, None if not loaded
  query,      \* the kind of flight and the version asked for with AT, None without
  phase,
  since,      \* the version when the query was bound
  bound,      \* the version of the schema in the bind data
  estimate,   \* the version whose number of rows estimated_records is, None if -1
  statistics, \* what the last statistics are of: the column asked for and the one sent
  filters,    \* json_filters are set
  endpoints,  \* the version whose rows the endpoints have, and whether filters were sent
  runs        \* how often the plan has been run

vars == <<table, version, entry, query, phase, since, bound, estimate, statistics, filters,
          endpoints, runs>>

NoQuery      == [kind |-> "none", at |-> None]
NoStatistics == [asked |-> None, of |-> None]
NoEndpoints  == [version |-> None, filtered |-> FALSE]

Init ==
  /\ table \in Tables
  /\ version = 1 /\ entry = None
  /\ query = NoQuery /\ phase = "idle" /\ since = None
  /\ bound = None /\ estimate = None /\ statistics = NoStatistics /\ filters = FALSE
  /\ endpoints = NoEndpoints /\ runs = 0

\* Another client changes the table.
Change ==
  /\ version < MaxVersion /\ version' = version + 1
  /\ UNCHANGED <<table, entry, query, phase, since, bound, estimate, statistics, filters, endpoints, runs>>

\* The catalog lists the tables of a schema; it does so once, AirportTableSet has when.
LoadEntry ==
  /\ phase = "idle" /\ entry = None
  /\ entry' = version
  /\ UNCHANGED <<table, version, query, phase, since, bound, estimate, statistics, filters, endpoints, runs>>

\* GetScanFunction, the bind of a table function, or take_flight with a descriptor.
Begin ==
  /\ phase = "idle"
  /\ \E kind \in {"table", "function", "descriptor"}, at \in (1 .. version) \cup {None} :
       /\ kind = "table" => entry # None
       /\ query' = [kind |-> kind, at |-> at]
  /\ phase' = "binding" /\ since' = version
  /\ UNCHANGED <<table, version, entry, bound, estimate, statistics, filters, endpoints, runs>>

-----------------------------------------------------------------------------
(* AirportTakeFlightBindWithFlightDescriptor.                              *)

\* Faulty: the schema of the catalog's entry is used whoever reads the flight.
CachedSchemaOfAny == entry # None /\ query.at = None

\* The schema of the entry is used unless the query asks for an earlier version.
CachedSchema == query.kind = "table" /\ query.at = None

\* The actions table_function_flight_info and flight_info are told the version,
\* GetFlightInfo of Arrow Flight has no place for it.
InfoVersion == IF query.at # None /\ query.kind # "descriptor" THEN query.at ELSE version

UseCachedSchema ==
  /\ phase = "binding" /\ CachedSchema
  /\ bound' = entry /\ estimate' = None
  /\ phase' = "bound"
  /\ UNCHANGED <<table, version, entry, query, since, statistics, filters, endpoints, runs>>

GetFlightInfo ==
  /\ phase = "binding" /\ ~CachedSchema
  /\ bound' = InfoVersion /\ estimate' = InfoVersion
  /\ phase' = "bound"
  /\ UNCHANGED <<table, version, entry, query, since, statistics, filters, endpoints, runs>>

\* The query is interrupted, the request fails, or the answer is for another descriptor.
BindFails ==
  /\ phase \in {"binding", "bound"} /\ phase' = "failed"
  /\ UNCHANGED <<table, version, entry, query, since, bound, estimate, statistics, filters, endpoints, runs>>

-----------------------------------------------------------------------------
(* Planning.                                                               *)

Fields  == table[bound]
Columns == Selected(Fields, {i \in 1 .. Len(Fields) : Fields[i] # RowId})

\* The field of the schema that stands where the column stands among the columns.
StatisticsField(i) == Fields[i]

\* AirportTakeFlightStatistics, if the flight can produce them.
Statistics ==
  /\ phase = "bound" /\ query.kind \in {"table", "function"}
  /\ \E i \in 1 .. Len(Columns) :
       statistics' = [asked |-> Columns[i], of |-> StatisticsField(i)]
  /\ UNCHANGED <<table, version, entry, query, phase, since, bound, estimate, filters, endpoints, runs>>

\* AirportTakeFlightComplexFilterPushdown; it is called for a query with filters.
FilterPushdown ==
  /\ phase = "bound" /\ ~filters
  /\ filters' = TRUE
  /\ UNCHANGED <<table, version, entry, query, phase, since, bound, estimate, statistics, endpoints, runs>>

-----------------------------------------------------------------------------
(* AirportArrowScanInitGlobal; a prepared statement comes here every time it is run. *)

\* Faulty: the version is not put into the request.
EndpointsVersionNow == version

\* The action "endpoints" is told the version for every kind of flight.
EndpointsVersion == IF query.at # None THEN query.at ELSE version

AirportGetFlightEndpoints ==
  /\ phase \in {"bound", "running"} /\ runs < MaxRuns
  /\ endpoints' = [version |-> EndpointsVersion, filtered |-> filters]
  /\ phase' = "running" /\ runs' = runs + 1
  /\ UNCHANGED <<table, version, entry, query, since, bound, estimate, statistics, filters>>

\* The query is over, or its plan is given up.
End ==
  /\ phase \in {"running", "failed"}
  /\ phase' = "idle" /\ query' = NoQuery /\ since' = None
  /\ bound' = None /\ estimate' = None /\ statistics' = NoStatistics /\ filters' = FALSE
  /\ endpoints' = NoEndpoints /\ runs' = 0
  /\ UNCHANGED <<table, version, entry>>

Next ==
  \/ Change \/ LoadEntry \/ Begin
  \/ UseCachedSchema \/ GetFlightInfo \/ BindFails
  \/ Statistics \/ FilterPushdown
  \/ AirportGetFlightEndpoints \/ End

Spec == Init /\ [][Next]_vars

-----------------------------------------------------------------------------

\* The state is well formed; what is bound, estimated or read is a version the table has had.
TypeOK ==
  /\ table \in Tables /\ version \in Versions
  /\ entry \in (1 .. version) \cup {None}
  /\ query.kind \in {"none", "table", "function", "descriptor"} /\ query.at \in (1 .. version) \cup {None}
  /\ phase \in {"idle", "binding", "bound", "failed", "running"}
  /\ {since, bound, estimate, endpoints.version} \subseteq (1 .. version) \cup {None}
  /\ phase \in {"bound", "running"} => bound # None
  /\ filters \in BOOLEAN /\ endpoints.filtered \in BOOLEAN /\ runs \in 0 .. MaxRuns

\* A table or table function that is read at a version is bound with the columns of that
\* version and estimated by its rows, and every run of the plan reads its rows, however
\* the table has changed since it was listed, bound or last read.
TimeTravelKept ==
  (query.at # None /\ query.kind # "descriptor" /\ phase \in {"bound", "running"}) =>
    /\ bound = query.at /\ estimate \in {query.at, None}
    /\ phase = "running" => endpoints.version = query.at

\* A function or descriptor read without AT is bound with columns no older than those
\* the table had when the query began; only tables are bound with the catalog's columns.
BoundAfterBegin ==
  (bound # None /\ query.at = None) =>
    IF query.kind = "table" THEN bound = entry ELSE bound >= since

\* Where the row id is the last field or there is none, statistics are of the column for
\* which they are asked.
StatisticsOwnColumn ==
  (statistics # NoStatistics /\ (\A i \in 1 .. Len(Fields) - 1 : Fields[i] # RowId)) =>
    statistics.of = statistics.asked

\* The inductive invariant: a query has a kind and a moment from its beginning to its
\* end, and something is bound, and statistics of it known, only then; a table that is
\* read has been listed.
BindInv ==
  /\ TypeOK
  /\ TimeTravelKept /\ BoundAfterBegin /\ StatisticsOwnColumn
  /\ phase = "idle" => query = NoQuery /\ bound = None
  /\ phase # "idle" => query.kind # "none" /\ since # None
  /\ phase = "binding" => bound = None
  /\ phase \in {"idle", "binding"} => statistics = NoStatistics
  /\ query.kind = "table" => entry # None

=============================================================================
