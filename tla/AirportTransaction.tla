------------------------- MODULE AirportTransaction ------------------------
(***************************************************************************)
(* Transactions and the version of the catalog (airport_transaction.cpp,   *)
(* airport_transaction_manager.cpp, airport_catalog.cpp).                  *)
(*                                                                         *)
(* Starting a transaction asks the server for an identifier, which goes    *)
(* with the requests of the transaction.  Ending one tells the server      *)
(* nothing.  DuckDB keeps the plan of a prepared statement, and with it    *)
(* the bind data of its scans, as long as the catalog reports the version  *)
(* the plan was made with; the version is asked of the server unless the   *)
(* server has said that it is fixed.                                       *)
(*                                                                         *)
(* Each connection has one prepared scan.  loaded_catalog_version is       *)
(* shared by all connections and no lock protects it; its assignment       *)
(* happens at once here.                                                   *)
(***************************************************************************)
EXTENDS Integers

CONSTANTS
  Connections,  \* connections of one DuckDB instance
  MaxId,        \* bounds the identifiers the server gives: 1 .. MaxId
  MaxVersion,   \* bounds the versions of the server's catalog
  Fixed,        \* the server says that its catalog never changes
  NoId,         \* a transaction without an identifier
  None          \* there is none

ASSUME BoundsAssumption == MaxId \in Nat /\ MaxVersion \in Nat \ {0}
ASSUME FixedAssumption == Fixed \in BOOLEAN
ASSUME NoneAssumption == NoId \notin Nat /\ None \notin Nat /\ NoId # None

VARIABLES
  issued,       \* how many identifiers the server has given
  version,      \* of the server's catalog
  loaded,       \* loaded_catalog_version
  pc,           \* what a connection is doing
  identifier,   \* the identifier of its transaction, None without a transaction
  seen,         \* the version GetCatalogVersion has for it
  since,        \* the server's version when that was asked
  plan,         \* its prepared scan: the identifier in the bind data, and the version
  request       \* its last request to the server

vars == <<issued, version, loaded, pc, identifier, seen, since, plan, request>>

Ids        == 1 .. MaxId
Versions   == 1 .. MaxVersion
NoPlan     == [id |-> None, version |-> None]
NoRequest  == [kind |-> "none", id |-> None, own |-> None]

Places     == {"idle", "preparing", "checking", "prepare call", "execute call", "prepare", "execute"}
Plans      == [id : Ids \cup {NoId, None}, version : Versions \cup {None}]
Requests   == [kind : {"none", "scan", "prepared", "exchange"},
               id : Ids \cup {NoId, None}, own : Ids \cup {NoId, None}]

Init ==
  /\ issued = 0 /\ version = 1 /\ loaded = None
  /\ pc = [c \in Connections |-> "idle"]
  /\ identifier = [c \in Connections |-> None]
  /\ seen = [c \in Connections |-> None] /\ since = [c \in Connections |-> None]
  /\ plan = [c \in Connections |-> NoPlan]
  /\ request = [c \in Connections |-> NoRequest]

Open(c) == identifier[c] # None

Goto(c, where) == pc' = [pc EXCEPT ![c] = where]

----------------------------------------------------------------------------
(* Start, Commit and Rollback.                                             *)

\* create_transaction may be sent more than once, and each time that the server handles it
\* costs an identifier; the last answer counts.  A server without transactions gives none.
GetTransactionIdentifier(id) ==
  \/ \E n \in 1 .. 2 : issued + n \in Ids /\ issued' = issued + n /\ id = issued + n
  \/ id = NoId /\ UNCHANGED issued

\* Faulty: the identifier is kept with the catalog, for transactions that run together.
StartTransactionShared(c) ==
  /\ pc[c] = "idle" /\ ~Open(c)
  /\ \E id \in Ids \cup {NoId} :
       /\ GetTransactionIdentifier(id)
       /\ identifier' = [identifier EXCEPT ![c] =
            IF \E d \in Connections : Open(d)
            THEN identifier[CHOOSE d \in Connections : Open(d)] ELSE id]
  /\ UNCHANGED <<version, loaded, pc, seen, since, plan, request>>

\* AirportTransactionManager::StartTransaction.
StartTransaction(c) ==
  /\ pc[c] = "idle" /\ ~Open(c)
  /\ \E id \in Ids \cup {NoId} :
       GetTransactionIdentifier(id) /\ identifier' = [identifier EXCEPT ![c] = id]
  /\ UNCHANGED <<version, loaded, pc, seen, since, plan, request>>

\* The call fails, though the server may have handled it: there is no transaction.
StartFails(c) ==
  /\ pc[c] = "idle" /\ ~Open(c)
  /\ issued + 1 \in Ids
  /\ issued' = issued + 1
  /\ UNCHANGED <<version, loaded, pc, identifier, seen, since, plan, request>>

\* Faulty: the transaction may be erased while a statement runs in it.
EndTransactionAnytime(c) ==
  /\ Open(c)
  /\ identifier' = [identifier EXCEPT ![c] = None]
  /\ request' = [request EXCEPT ![c] = NoRequest]
  /\ UNCHANGED <<issued, version, loaded, pc, seen, since, plan>>

\* CommitTransaction and RollbackTransaction: the state of a transaction was never STARTED,
\* so Commit and Rollback do nothing, and the transaction is erased.
EndTransaction(c) ==
  /\ pc[c] = "idle" /\ Open(c)
  /\ identifier' = [identifier EXCEPT ![c] = None]
  /\ request' = [request EXCEPT ![c] = NoRequest]
  /\ UNCHANGED <<issued, version, loaded, pc, seen, since, plan>>

----------------------------------------------------------------------------
(* GetCatalogVersion and SetLoadedCatalogVersion.                          *)

\* Faulty: a version that was loaded is used whether or not it is fixed.
CachedVersionUnchecked == loaded

\* The version that may be used without asking the server.
CachedVersion == IF Fixed THEN loaded ELSE None

\* DuckDB asks for the version to prepare a scan, or to see whether its plan still holds.
AskVersion(c) ==
  /\ pc[c] = "idle" /\ Open(c)
  /\ Goto(c, IF plan[c] = NoPlan THEN "preparing" ELSE "checking")
  /\ since' = [since EXCEPT ![c] = version]
  /\ UNCHANGED <<issued, version, loaded, identifier, seen, plan, request>>

\* The version is returned: the plan is made, or compared with it.
ReturnVersion(c, v) ==
  /\ seen' = [seen EXCEPT ![c] = v]
  /\ Goto(c, IF pc[c] \in {"preparing", "prepare call"} THEN "prepare" ELSE "execute")

UseCachedVersion(c) ==
  /\ pc[c] \in {"preparing", "checking"} /\ CachedVersion # None
  /\ ReturnVersion(c, CachedVersion)
  /\ UNCHANGED <<issued, version, loaded, identifier, since, plan, request>>

\* catalog_version: the server answers, and the answer is on its way.
ServeVersion(c) ==
  /\ pc[c] \in {"preparing", "checking"} /\ CachedVersion = None
  /\ seen' = [seen EXCEPT ![c] = version]
  /\ Goto(c, IF pc[c] = "preparing" THEN "prepare call" ELSE "execute call")
  /\ UNCHANGED <<issued, version, loaded, identifier, since, plan, request>>

\* The answer is stored for all connections, and returned to this one.
SetLoadedVersion(c) ==
  /\ pc[c] \in {"prepare call", "execute call"}
  /\ loaded' = seen[c]
  /\ ReturnVersion(c, seen[c])
  /\ UNCHANGED <<issued, version, identifier, since, plan, request>>

\* The call fails, or the query is interrupted.
VersionFails(c) ==
  /\ pc[c] \in {"preparing", "checking", "prepare call", "execute call"}
  /\ Goto(c, "idle")
  /\ seen' = [seen EXCEPT ![c] = None] /\ since' = [since EXCEPT ![c] = None]
  /\ UNCHANGED <<issued, version, loaded, identifier, plan, request>>

\* Schemas are loaded: the collection came with a version, of some time ago.
LoadEntries ==
  /\ \E v \in 1 .. version : loaded' = v
  /\ UNCHANGED <<issued, version, pc, identifier, seen, since, plan, request>>

----------------------------------------------------------------------------
(* Statements.                                                             *)

\* GetScanFunction and take_flight_bind_with_pointer: the bind data of a scan holds the
\* identifier as a header.
BindScan(c) == [id |-> identifier[c], version |-> seen[c]]

Idle(c) ==
  /\ Goto(c, "idle")
  /\ seen' = [seen EXCEPT ![c] = None] /\ since' = [since EXCEPT ![c] = None]

Prepare(c) ==
  /\ pc[c] = "prepare"
  /\ plan' = [plan EXCEPT ![c] = BindScan(c)]
  /\ Idle(c)
  /\ UNCHANGED <<issued, version, loaded, identifier, request>>

\* The plan is used again if the version is the same, and made anew if it is not.
Execute(c) ==
  /\ pc[c] = "execute"
  /\ plan' = [plan EXCEPT ![c] = IF @.version = seen[c] THEN @ ELSE BindScan(c)]
  /\ request' = [request EXCEPT ![c] =
       [kind |-> IF plan[c].version = seen[c] THEN "prepared" ELSE "scan",
        id |-> plan'[c].id, own |-> identifier[c]]]
  /\ Idle(c)
  /\ UNCHANGED <<issued, version, loaded, identifier>>

\* INSERT, UPDATE, DELETE and scalar functions read the identifier when they start.
StartExchange(c) ==
  /\ pc[c] = "idle" /\ Open(c)
  /\ request' = [request EXCEPT ![c] =
       [kind |-> "exchange", id |-> identifier[c], own |-> identifier[c]]]
  /\ UNCHANGED <<issued, version, loaded, pc, identifier, seen, since, plan>>

\* The server's catalog changes, which one that is fixed never does.
ServerChanges ==
  /\ ~Fixed /\ version + 1 \in Versions
  /\ version' = version + 1
  /\ UNCHANGED <<issued, loaded, pc, identifier, seen, since, plan, request>>

Next ==
  \/ \E c \in Connections :
       \/ StartTransaction(c) \/ StartFails(c) \/ EndTransaction(c) \/ AskVersion(c)
       \/ UseCachedVersion(c) \/ ServeVersion(c) \/ SetLoadedVersion(c) \/ VersionFails(c)
       \/ Prepare(c) \/ Execute(c) \/ StartExchange(c)
  \/ LoadEntries \/ ServerChanges

Spec == Init /\ [][Next]_vars

----------------------------------------------------------------------------
(* Properties.                                                             *)

\* The state has its type, and statements run in transactions.
TypeOK ==
  /\ issued \in 0 .. MaxId /\ version \in Versions /\ loaded \in Versions \cup {None}
  /\ pc \in [Connections -> Places]
  /\ identifier \in [Connections -> Ids \cup {NoId, None}]
  /\ \A c \in Connections : pc[c] # "idle" => Open(c)
  /\ seen \in [Connections -> Versions \cup {None}]
  /\ since \in [Connections -> Versions \cup {None}]
  /\ plan \in [Connections -> Plans]
  /\ request \in [Connections -> Requests]

\* No request carries the identifier of a transaction another connection has open, and no
\* plan holds one: what a connection does is never done in another one's transaction
\* (Start, GetScanFunction and the exchanges), however calls are retried.
NoBorrowedTransaction ==
  \A c, d \in Connections :
    c # d /\ identifier[d] \in Ids =>
      identifier[d] \notin {identifier[c], plan[c].id, request[c].id}

\* The version a plan is made or checked with is one the server had after it was asked for:
\* a plan made before the catalog changed is not used after (GetCatalogVersion), whatever
\* versions other connections store meanwhile.
VersionNotOld ==
  \A c \in Connections : pc[c] \in {"prepare", "execute"} => seen[c] >= since[c]

\* "Get an identifier from the server that will be passed as airport-transaction-id in
\* requests": a request carries the identifier of the transaction it is made in.
RequestsCarryOwnIdentifier == \A c \in Connections : request[c].id = request[c].own

\* The inductive invariant: identifiers are given once, and whoever holds one got it from a
\* transaction of its own; a version that has been answered is not older than the question
\* and not newer than the catalog, which never changes if it is fixed.
TransactionInv ==
  /\ TypeOK
  /\ NoBorrowedTransaction /\ VersionNotOld
  /\ Fixed => version = 1
  /\ loaded # None => loaded <= version
  /\ \A c \in Connections :
       /\ {identifier[c], plan[c].id, request[c].id} \subseteq (1 .. issued) \cup {NoId, None}
       /\ since[c] # None => since[c] <= version
       /\ seen[c] # None => seen[c] <= version
       /\ pc[c] # "idle" => since[c] # None
       /\ pc[c] \in {"prepare call", "execute call", "prepare", "execute"} =>
            seen[c] # None /\ seen[c] >= since[c]

=============================================================================
