-------------------------- MODULE AirportSchemaSet --------------------------
(***************************************************************************)
(* The schemas of an attached catalog (airport_schema_set.cpp,             *)
(* airport_catalog_set.cpp, airport_catalog.cpp, airport_clear_cache.cpp). *)
(*                                                                         *)
(* The set is a cache of the server's schemas with two locks: entry_lock   *)
(* of AirportCatalogSet and a second one of the same name in               *)
(* AirportSchemaSet.  A load may run under the first (a look-up, a scan),  *)
(* under the second (ScanSchemas) and under neither (a drop); each has its *)
(* own test of whether it is needed.  CREATE SCHEMA inserts under neither. *)
(***************************************************************************)
EXTENDS Integers, FiniteSets

CONSTANTS
  Threads,     \* connections
  Names,       \* names of schemas
  Main,        \* DEFAULT_SCHEMA
  NoThread,    \* nobody holds a lock
  None,        \* no schema, no statement
  Kinds,       \* the kinds of statements the connections run
  Marked,      \* the schemas a server may mark as its default
  MaxChanges   \* bounds the changes made to the server's catalog

MainAssumption == Main \in Names
NoThreadAssumption == NoThread \notin Threads
NoneAssumption == None \notin Names
\* CREATE OR REPLACE SCHEMA goes on as CREATE SCHEMA.
KindsAssumption ==
  /\ Kinds \subseteq {"lookup", "scan", "clear", "create", "replace", "drop"}
  /\ "replace" \in Kinds => "create" \in Kinds
MarkedAssumption == Marked \subseteq Names
MaxChangesAssumption == MaxChanges \in Nat

VARIABLES
  entries,              \* the names in entries
  torn,                 \* entries has been used by two threads at once
  is_loaded,            \* AirportCatalogSet::is_loaded
  called_load_entries,  \* AirportSchemaSet::called_load_entries
  base_lock,            \* AirportCatalogSet::entry_lock
  set_lock,             \* AirportSchemaSet::entry_lock
  collection,           \* the thread whose listing collection holds
  set_default,          \* AirportSchemaSet::default_schema_
  catalog_default,      \* AirportCatalog::default_schema_
  server,               \* the server's schemas
  server_default,       \* the one it has marked as default, or None
  changes,              \* how often they have changed
  stmt,                 \* the statement of a connection
  pc,                   \* where it is
  loading,              \* for whom it runs LoadEntries
  listing,              \* the schemas the load still has to insert
  unsure,               \* names two changes of which overlapped, or one failed
  raced,                \* a load has run together with another, or a look-up with a drop's
  partial               \* a load has failed, or ClearEntries has been called

set    == <<entries, torn, is_loaded, called_load_entries, collection, set_default, catalog_default>>
locks  == <<base_lock, set_lock>>
remote == <<server, server_default, changes>>
local  == <<stmt, pc, loading, listing>>
ghost  == <<unsure, raced, partial>>
vars   == <<set, locks, remote, local, ghost>>

Changes    == {"create", "replace", "drop"}
Statements == [kind : Kinds, name : Names]
\* What is looked up makes no difference to the steps.
Possible(s) == s.kind \in {"lookup", "scan", "clear"} => s.name = Main
Places == {"idle", "set lock", "base lock", "drop", "load", "list", "insert", "find",
           "request", "answered", "entering", "clear"}

Changing(t) == pc[t] # "idle" /\ stmt[t].kind \in Changes
InLoad(t)   == pc[t] \in {"load", "list", "insert"}
InEntries(t) == pc[t] \in {"insert", "find", "entering"}

\* The constructor asks the set for its default schema before anything is loaded.
CatalogDefault(d) == IF d = None THEN Main ELSE d

Init ==
  /\ entries = {} /\ torn = FALSE /\ is_loaded = FALSE /\ called_load_entries = FALSE
  /\ base_lock = NoThread /\ set_lock = NoThread /\ collection = NoThread
  /\ set_default = None /\ catalog_default = CatalogDefault(set_default)
  /\ server \in SUBSET Names /\ server_default \in (server \cap Marked) \cup {None}
  /\ changes = 0
  /\ stmt = [t \in Threads |-> None] /\ pc = [t \in Threads |-> "idle"]
  /\ loading = [t \in Threads |-> "nobody"] /\ listing = [t \in Threads |-> {}]
  /\ unsure = {} /\ raced = FALSE /\ partial = FALSE

Goto(t, p) == pc' = [pc EXCEPT ![t] = p]

\* A thread that uses entries while another one does tears the map: only a look-up that
\* meets a look-up would not, and base_lock keeps those apart.
Use(t) == torn' = (torn \/ \E u \in Threads \ {t} : InEntries(u))

\* The statement is over.
End(t) ==
  /\ Goto(t, "idle")
  /\ stmt' = [stmt EXCEPT ![t] = None]
  /\ loading' = [loading EXCEPT ![t] = "nobody"]
  /\ listing' = [listing EXCEPT ![t] = {}]

\* LookupSchema, ScanSchemas, CreateSchema, DropSchema, ClearCache.
Entry(s) ==
  CASE s.kind = "lookup" -> "base lock"
    [] s.kind = "scan" -> "set lock"
    [] s.kind = "create" -> "request"
    [] s.kind \in {"replace", "drop"} -> "drop"
    [] OTHER -> s.kind

Begin(t, s) ==
  /\ pc[t] = "idle" /\ Possible(s)
  /\ stmt' = [stmt EXCEPT ![t] = s]
  /\ Goto(t, Entry(s))
  /\ unsure' = IF s.kind \in Changes /\ \E u \in Threads : Changing(u) /\ stmt[u].name = s.name
               THEN unsure \cup {s.name} ELSE unsure
  /\ UNCHANGED <<set, locks, remote, loading, listing, raced, partial>>

\* LoadEntries begins.
StartLoad(t, caller) ==
  /\ Goto(t, "load")
  /\ loading' = [loading EXCEPT ![t] = caller]
  /\ raced' = (raced \/ (~called_load_entries /\ \E u \in Threads : InLoad(u)))

\* Faulty: the set counts as loaded as soon as LoadEntireSet begins.
LoadEntireSetEarly(t) ==
  /\ pc[t] = "set lock" /\ set_lock = NoThread
  /\ IF called_load_entries
     THEN Goto(t, "base lock") /\ UNCHANGED <<set_lock, is_loaded, loading, raced>>
     ELSE set_lock' = t /\ is_loaded' = TRUE /\ StartLoad(t, "LoadEntireSet")
  /\ UNCHANGED <<entries, torn, called_load_entries, collection, set_default, catalog_default,
       base_lock, remote, stmt, listing, unsure, partial>>

\* LoadEntireSet, under the set's own lock.
LoadEntireSet(t) ==
  /\ pc[t] = "set lock" /\ set_lock = NoThread
  /\ IF called_load_entries THEN Goto(t, "base lock") /\ UNCHANGED <<set_lock, loading, raced>>
     ELSE set_lock' = t /\ StartLoad(t, "LoadEntireSet")
  /\ UNCHANGED <<set, base_lock, remote, stmt, listing, unsure, partial>>

\* GetEntry and Scan, under the base class's lock.
Lock(t) ==
  /\ pc[t] = "base lock" /\ base_lock = NoThread
  /\ base_lock' = t
  /\ is_loaded' = TRUE
  /\ IF ~is_loaded THEN StartLoad(t, "GetEntry") /\ UNCHANGED torn
     ELSE /\ Goto(t, "find") /\ Use(t) /\ UNCHANGED loading
          /\ raced' = (raced \/ \E u \in Threads : InLoad(u) /\ loading[u] = "DropEntry")
  /\ UNCHANGED <<entries, called_load_entries, collection, set_default, catalog_default,
       set_lock, remote, stmt, listing, unsure, partial>>

\* DropEntry, under no lock.
EnterDrop(t) ==
  /\ pc[t] = "drop"
  /\ is_loaded' = TRUE
  /\ IF is_loaded THEN Goto(t, "request") /\ UNCHANGED <<loading, raced>>
     ELSE StartLoad(t, "DropEntry")
  /\ UNCHANGED <<entries, torn, called_load_entries, collection, set_default, catalog_default,
       locks, remote, stmt, listing, unsure, partial>>

\* LoadEntries returns to its caller, of which GetEntry and Scan go on to use entries.
AfterLoad(t) ==
  /\ IF loading[t] = "GetEntry" THEN Use(t) ELSE UNCHANGED torn
  /\ Goto(t, CASE loading[t] = "LoadEntireSet" -> "base lock"
               [] loading[t] = "GetEntry"      -> "find"
               [] loading[t] = "DropEntry"     -> "request")
  /\ set_lock' = IF set_lock = t THEN NoThread ELSE set_lock
  /\ loading' = [loading EXCEPT ![t] = "nobody"]
  /\ UNCHANGED base_lock

EnterLoad(t) ==
  /\ pc[t] = "load"
  /\ IF called_load_entries THEN AfterLoad(t)
     ELSE Goto(t, "list") /\ UNCHANGED <<torn, locks, loading>>
  /\ UNCHANGED <<entries, is_loaded, called_load_entries, collection, set_default, catalog_default,
       remote, stmt, listing, ghost>>

\* AirportAPI::GetSchemas answers: the collection is replaced.
ListSchemas(t) ==
  /\ pc[t] = "list"
  /\ collection' = t
  /\ listing' = [listing EXCEPT ![t] = server]
  /\ Goto(t, "insert") /\ Use(t)
  /\ UNCHANGED <<entries, is_loaded, called_load_entries, set_default, catalog_default,
       locks, remote, stmt, loading, ghost>>

\* One schema of the collection; the order is the server's.
InsertSchema(t) ==
  /\ pc[t] = "insert"
  /\ \E n \in listing[t] :
       /\ listing' = [listing EXCEPT ![t] = @ \ {n}]
       /\ entries' = entries \cup {n}
       /\ set_default' = IF n = server_default /\ set_default = None THEN n ELSE set_default
  /\ UNCHANGED <<torn, is_loaded, called_load_entries, collection, catalog_default, locks, remote,
       stmt, pc, loading, ghost>>

\* All are inserted; or the load walks a collection that another load has replaced
\* and destroyed meanwhile, and may come to an end anywhere.
FinishLoad(t) ==
  /\ pc[t] = "insert" /\ (listing[t] = {} \/ collection # t)
  /\ called_load_entries' = TRUE
  /\ listing' = [listing EXCEPT ![t] = {}]
  /\ AfterLoad(t)
  /\ UNCHANGED <<entries, is_loaded, collection, set_default, catalog_default, remote, stmt,
       ghost>>

\* The call, the disk cache or a bad schema throws.
LoadFails(t) ==
  /\ pc[t] \in {"list", "insert"}
  /\ base_lock' = IF base_lock = t THEN NoThread ELSE base_lock
  /\ set_lock' = IF set_lock = t THEN NoThread ELSE set_lock
  /\ partial' = TRUE
  /\ End(t)
  /\ UNCHANGED <<set, remote, unsure, raced>>

\* LookupSchema looks for the default schema first when the schema "main" is wanted
\* and the default has another name; ScanSchemas reports all entries.
Lookup(n) ==
  IF n = Main /\ catalog_default # Main /\ catalog_default \in entries THEN catalog_default
  ELSE IF n \in entries THEN n ELSE None

Find(t) ==
  /\ pc[t] = "find"
  /\ base_lock' = NoThread
  /\ End(t)
  /\ UNCHANGED <<set, set_lock, remote, ghost>>

\* Whether the request is create_schema: that of CREATE SCHEMA, and the second of
\* CREATE OR REPLACE SCHEMA.
Creates(s) == s.kind = "create"

\* The server refuses to create what it has (CallFails); what it does not have may be
\* dropped with IF EXISTS.
Serve(t) ==
  LET s == stmt[t]
  IN
  /\ pc[t] = "request"
  /\ Creates(s) => s.name \notin server
  /\ server' = IF Creates(s) THEN server \cup {s.name} ELSE server \ {s.name}
  /\ changes' = IF server' = server THEN changes ELSE changes + 1
  /\ changes' <= MaxChanges
  /\ server_default' = IF server_default \in server' THEN server_default ELSE None
  /\ Goto(t, "answered")
  /\ UNCHANGED <<set, locks, stmt, loading, listing, ghost>>

\* The call fails, whether or not the server has executed the request.
CallFails(t) ==
  /\ pc[t] \in {"request", "answered"}
  /\ unsure' = IF pc[t] = "answered" THEN unsure \cup {stmt[t].name} ELSE unsure
  /\ End(t)
  /\ UNCHANGED <<set, locks, remote, raced, partial>>

\* CreateSchema has made the entry, and goes into the map without a lock.
EnterMap(t) ==
  /\ pc[t] = "answered" /\ Creates(stmt[t])
  /\ Goto(t, "entering") /\ Use(t)
  /\ UNCHANGED <<entries, is_loaded, called_load_entries, collection, set_default, catalog_default,
       locks, remote, stmt, loading, listing, ghost>>

\* CreateEntry inserts it.
CreateSchema(t) ==
  /\ pc[t] = "entering"
  /\ entries' = entries \cup {stmt[t].name}
  /\ End(t)
  /\ UNCHANGED <<torn, is_loaded, called_load_entries, collection, set_default, catalog_default,
       locks, remote, ghost>>

\* The build may do anything with a map that two threads have changed at once, or one while
\* the other read it; here it loses entries, then and later.
LoseEntry ==
  /\ torn
  /\ \E n \in entries : entries' = entries \ {n}
  /\ UNCHANGED <<torn, is_loaded, called_load_entries, collection, set_default, catalog_default,
       locks, remote, local, ghost>>

\* EraseEntryInternal; CREATE OR REPLACE goes on to create the schema.
DropEntry(t) ==
  /\ pc[t] = "answered" /\ ~Creates(stmt[t]) /\ base_lock = NoThread
  /\ entries' = entries \ {stmt[t].name} /\ Use(t)
  /\ IF stmt[t].kind = "drop" THEN End(t)
     ELSE /\ Goto(t, "request") /\ stmt' = [stmt EXCEPT ![t].kind = "create"]
          /\ UNCHANGED <<loading, listing>>
  /\ UNCHANGED <<is_loaded, called_load_entries, collection, set_default, catalog_default,
       locks, remote, ghost>>

\* airport_clear_cache and the setting that calls it; called_load_entries stays.
ClearEntries(t) ==
  /\ pc[t] = "clear" /\ base_lock = NoThread
  /\ entries' = {} /\ Use(t) /\ is_loaded' = FALSE /\ partial' = TRUE
  /\ End(t)
  /\ UNCHANGED <<called_load_entries, collection, set_default, catalog_default, locks,
       remote, unsure, raced>>

Step(t) ==
  \/ \E s \in Statements : Begin(t, s)
  \/ LoadEntireSet(t) \/ Lock(t) \/ EnterDrop(t)
  \/ EnterLoad(t) \/ ListSchemas(t) \/ InsertSchema(t) \/ FinishLoad(t) \/ LoadFails(t)
  \/ Find(t)
  \/ Serve(t) \/ CallFails(t) \/ EnterMap(t) \/ CreateSchema(t) \/ DropEntry(t)
  \/ ClearEntries(t)

Next == (\E t \in Threads : Step(t)) \/ LoseEntry

Spec == Init /\ [][Next]_vars

-----------------------------------------------------------------------------

TypeOK ==
  /\ entries \subseteq Names /\ torn \in BOOLEAN /\ is_loaded \in BOOLEAN /\ called_load_entries \in BOOLEAN
  /\ {base_lock, set_lock, collection} \subseteq Threads \cup {NoThread}
  /\ set_default \in Names \cup {None} /\ catalog_default \in Names
  /\ server \subseteq Names /\ server_default \in server \cup {None}
  /\ changes \in 0 .. MaxChanges
  /\ stmt \in [Threads -> Statements \cup {None}]
  /\ pc \in [Threads -> Places]
  /\ loading \in [Threads -> {"nobody", "LoadEntireSet", "GetEntry", "DropEntry"}]
  /\ listing \in [Threads -> SUBSET Names]
  /\ unsure \subseteq Names /\ {raced, partial} \subseteq BOOLEAN

\* Nobody is changing the schema, and no change of it has overlapped another one or failed.
AtRest(n) == n \notin unsure /\ \A t \in Threads : Changing(t) => stmt[t].name # n

\* The set is used as if by one thread: no two loads have run together, no look-up beside the
\* load of a drop, and no thread has used the map while another inserted, erased or looked
\* up, as one that inserts what CREATE SCHEMA or a load under no lock has made may.
Undisturbed == ~torn /\ ~raced

\* A look-up or scan that holds the lock sees only schemas the server has, also after loads
\* that failed and after the set has been cleared; and all of them otherwise, although
\* LoadEntireSet loads under another lock and leaves is_loaded alone.  Nothing is said once
\* loads have raced, or the map has been used by two threads at once.
LookupSeesServer ==
  \A t \in Threads : pc[t] = "find" /\ Undisturbed =>
    \A n \in Names : AtRest(n) =>
      /\ Lookup(n) = n => n \in server
      /\ ~partial /\ n \in server => Lookup(n) = n

-----------------------------------------------------------------------------
(* The inductive invariant.                                                *)

\* A load runs for a caller, a look-up holds the lock, and a request the server has executed
\* is what it has, unless another change of the schema overlaps.
StatementInv(t) ==
  /\ pc[t] # "idle" => stmt[t] \in Statements
  /\ InLoad(t) => loading[t] # "nobody"
  /\ pc[t] \in {"drop", "request", "answered", "entering"} \/ (InLoad(t) /\ loading[t] = "DropEntry") =>
       stmt[t].kind \in Changes
  /\ pc[t] = "find" \/ (InLoad(t) /\ loading[t] = "GetEntry") => base_lock = t
  /\ pc[t] = "entering" => Creates(stmt[t])
  /\ pc[t] \in {"answered", "entering"} /\ stmt[t].name \notin unsure =>
       (Creates(stmt[t]) <=> stmt[t].name \in server)
  /\ \A u \in Threads \ {t} :
       Changing(t) /\ Changing(u) /\ stmt[u].name = stmt[t].name => stmt[t].name \in unsure

Clean == Undisturbed /\ ~partial

\* At most one load does something, and nobody looks anything up before it has ended:
\* is_loaded is set early, but only by a load that holds the lock or is noticed.
LoadInv ==
  /\ called_load_entries => \A t \in Threads : pc[t] \notin {"list", "insert"}
  /\ ~called_load_entries => \A t, u \in Threads : InLoad(t) /\ InLoad(u) => t = u
  /\ ~called_load_entries /\ is_loaded =>
       \E t \in Threads : InLoad(t) /\ loading[t] \in {"GetEntry", "DropEntry"}
  /\ \A t \in Threads : /\ pc[t] = "find" => called_load_entries
                        /\ pc[t] = "insert" => collection = t

\* Names no statement is between the server's answer and its entry of.
Settled(n) ==
  n \notin unsure /\ \A t \in Threads : pc[t] \in {"answered", "entering"} => stmt[t].name # n

\* One thread at a time uses the map, and what is entered, or about to be by a load, is what
\* the server has.
EntriesInv ==
  /\ \A t, u \in Threads : InEntries(t) /\ InEntries(u) => t = u
  /\ \A n \in Names : Settled(n) =>
       /\ n \in entries => n \in server
       /\ \A t \in Threads : pc[t] = "insert" /\ n \in listing[t] => n \in server

\* All the server has is entered once a load has ended, and together with what the load still
\* has to insert before that.
CompleteInv ==
  \A n \in Names : Settled(n) /\ n \in server =>
    /\ called_load_entries => n \in entries
    /\ \A t \in Threads : pc[t] = "insert" => n \in entries \cup listing[t]

SchemaSetInv ==
  /\ TypeOK
  /\ catalog_default = Main
  /\ \A t \in Threads : StatementInv(t)
  /\ ~torn => EntriesInv
  /\ Clean => LoadInv /\ CompleteInv

=============================================================================
