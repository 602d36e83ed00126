-------------------------- MODULE AirportTableSet --------------------------
(***************************************************************************)
(* The tables of one schema (airport_catalog_set.cpp,                      *)
(* airport_table_set.cpp, airport_schema_entry.cpp): a cache of the        *)
(* server's tables, filled by the first look-up and kept up to date by the *)
(* statements of this process, several of which run at a time.             *)
(*                                                                         *)
(* An entry is an object of the heap.  The set owns its entries and a      *)
(* transaction those it looked up at a point in time; an object that       *)
(* nobody owns has been freed.  Statements hold pointers to entries.       *)
(***************************************************************************)
EXTENDS Integers, FiniteSets

CONSTANTS
  Threads,     \* connections
  Names,       \* names of tables
  Objects,     \* the heap
  NoThread,    \* nobody holds the lock
  NoObject,    \* the null pointer
  MaxVersion   \* bounds the changes made to the server's tables

ASSUME NoThreadAssumption == NoThread \notin Threads
ASSUME NoObjectAssumption == NoObject \notin Objects
ASSUME MaxVersionAssumption == MaxVersion \in Nat \ {0}

VARIABLES
  entries,    \* entries: the object a name maps to
  is_loaded,  \* is_loaded
  lock,       \* entry_lock
  version,    \* the version of the table the entry of a name describes
  torn,       \* entries has been used by two threads at once, one of them inserting
  server,     \* the server's tables: their versions, 0 if there is none
  clock,      \* versions given out by the server
  stmt,       \* the statement of a connection
  pc,         \* where it is
  listing,    \* the tables a load still has to insert
  answer,     \* the version the server has answered a change with
  held,       \* the entries a statement has pointers to
  temporary,  \* point_in_time_entries_ of its transaction
  unsure,     \* names two changes of which overlapped, or one failed; all names of a torn set
  partial,    \* a load has failed
  exposed     \* statements that another one's change overlapped with

set    == <<entries, is_loaded, lock, version, torn>>
remote == <<server, clock>>
ghost  == <<unsure, partial, exposed>>
vars   == <<set, remote, stmt, pc, listing, answer, held, temporary, ghost>>

Reads   == {"lookup", "lookup_at", "scan"}
Changes == {"create", "ctas", "drop", "alter", "rename"}

\* to is the new name of a rename.  IF NOT EXISTS and IF EXISTS are for the server, and
\* CREATE OR REPLACE is refused before anything happens.
Statements ==
  {s \in [kind : Reads \cup Changes, name : Names, to : Names] :
     (s.kind = "rename") <=> (s.name # s.to)}

NoStatement == [kind |-> "none"]

Places == {"idle", "locking", "listing", "inserting", "finding", "request", "answered", "entering", "using"}

NamesOf(s)     == IF s.kind = "scan" THEN Names ELSE {s.name, s.to}
Changing(t)    == pc[t] # "idle" /\ stmt[t].kind \in Changes
Overlap(s, t)  == pc[t] # "idle" /\ NamesOf(s) \cap NamesOf(stmt[t]) # {}
Together(s, t) == IF Overlap(s, t) THEN NamesOf(s) \cup NamesOf(stmt[t]) ELSE {}
Loading(t)     == pc[t] \in {"listing", "inserting"}

\* Who uses entries, and who does so without the lock: CreateTable, at its insert.
InEntries(t) == pc[t] \in {"inserting", "finding", "entering"}
Unlocked(t)  == pc[t] = "entering"

Entries == {entries[n] : n \in Names} \ {NoObject}
Owned   == Entries \cup UNION {temporary[t] : t \in Threads}

\* An address somebody still has a pointer to is not used again, so that the model
\* can tell a dangling pointer from a good one.
Free    == Objects \ (Owned \cup UNION {held[t] : t \in Threads})

Init ==
  /\ entries = [n \in Names |-> NoObject]
  /\ is_loaded = FALSE /\ lock = NoThread
  /\ version = [n \in Names |-> 0] /\ torn = FALSE
  /\ server \in [Names -> {0, 1}] /\ clock = 1
  /\ stmt = [t \in Threads |-> NoStatement]
  /\ pc = [t \in Threads |-> "idle"]
  /\ listing = [t \in Threads |-> [n \in Names |-> 0]]
  /\ answer = [t \in Threads |-> 0]
  /\ held = [t \in Threads |-> {}] /\ temporary = [t \in Threads |-> {}]
  /\ unsure = {} /\ partial = FALSE /\ exposed = {}

\* A step that uses entries while another thread inserts, when bad says so, tears the map,
\* and no entry can be relied on from then on.
Use(bad) ==
  /\ torn' = (torn \/ bad)
  /\ unsure' = IF torn' THEN Names ELSE unsure

SomeUnlocked == \E u \in Threads : Unlocked(u)

\* The statement is over; all that is its own is forgotten.
End(t) ==
  /\ pc' = [pc EXCEPT ![t] = "idle"]
  /\ held' = [held EXCEPT ![t] = {}]
  /\ stmt' = [stmt EXCEPT ![t] = NoStatement]
  /\ answer' = [answer EXCEPT ![t] = 0]
  /\ exposed' = exposed \ {t}

\* A statement is bound.  All but CREATE TABLE look the table up first: CREATE
\* TABLE AS in the planner, DROP in Catalog::DropEntry, ALTER in AlterTable.
Begin(t, s) ==
  /\ pc[t] = "idle"
  /\ stmt' = [stmt EXCEPT ![t] = s]
  /\ pc' = [pc EXCEPT ![t] = IF s.kind = "create" THEN "request" ELSE "locking"]
  /\ unsure' = unsure \cup
       (IF s.kind \in Changes THEN UNION {Together(s, u) : u \in {v \in Threads : Changing(v)}} ELSE {})
  /\ exposed' = {u \in Threads :
       IF u = t THEN \E v \in Threads : Changing(v) /\ Overlap(s, v)
       ELSE u \in exposed \/ (s.kind \in Changes /\ Overlap(s, u))}
  /\ UNCHANGED <<set, remote, listing, answer, held, temporary, partial>>

\* GetEntry and Scan lock the set; the first one marks it loaded and then loads it.
Lock(t) ==
  /\ pc[t] = "locking" /\ lock = NoThread
  /\ lock' = t /\ is_loaded' = TRUE
  /\ pc' = [pc EXCEPT ![t] = IF is_loaded THEN "finding" ELSE "listing"]
  /\ Use(is_loaded /\ SomeUnlocked)
  /\ UNCHANGED <<entries, version, remote, stmt, listing, answer, held, temporary, partial, exposed>>

\* LoadEntries, AirportAPI::GetSchemaItems: the server's tables at one moment.
List(t) ==
  /\ pc[t] = "listing"
  /\ listing' = [listing EXCEPT ![t] = server]
  /\ pc' = [pc EXCEPT ![t] = "inserting"]
  /\ Use(SomeUnlocked)
  /\ UNCHANGED <<entries, is_loaded, lock, version, remote, stmt, answer, held, temporary, partial,
       exposed>>

\* CreateEntry for each of them: insert keeps an entry that is there already.
InsertListed(t, new) ==
  /\ pc[t] = "inserting"
  /\ \E n \in Names :
       /\ listing[t][n] > 0
       /\ listing' = [listing EXCEPT ![t][n] = 0]
       /\ IF entries[n] # NoObject THEN UNCHANGED <<entries, version>>
          ELSE /\ entries' = [entries EXCEPT ![n] = new]
               /\ version' = [version EXCEPT ![n] = listing[t][n]]
  /\ UNCHANGED <<is_loaded, lock, torn, remote, stmt, pc, answer, held, temporary, ghost>>

Loaded(t) ==
  /\ pc[t] = "inserting" /\ \A n \in Names : listing[t][n] = 0
  /\ pc' = [pc EXCEPT ![t] = "finding"]
  /\ UNCHANGED <<set, remote, stmt, listing, answer, held, temporary, ghost>>

\* The listing or the schema of a table is bad: the exception leaves the set marked as
\* loaded, with the entries inserted so far.
LoadFails(t) ==
  /\ Loading(t)
  /\ lock' = NoThread
  /\ listing' = [listing EXCEPT ![t] = [n \in Names |-> 0]]
  /\ partial' = TRUE
  /\ End(t)
  /\ UNCHANGED <<entries, is_loaded, version, torn, remote, temporary, unsure>>

\* GetEntry finds the entry, or Scan hands out all, and the lock is released.  What
\* the statement does with them depends on its kind; a CREATE TABLE AS of a table that
\* exists is planned as a plain CREATE TABLE.
Find(t) ==
  LET s == stmt[t]
      o == entries[s.name]
      found == o # NoObject
  IN
  /\ pc[t] = "finding"
  /\ lock' = NoThread
  /\ IF ~found /\ s.kind \notin {"scan", "ctas"} THEN End(t)
     ELSE /\ pc' = [pc EXCEPT ![t] = IF s.kind \in {"scan", "lookup"} THEN "using" ELSE "request"]
          /\ held' = [held EXCEPT ![t] = IF s.kind = "scan" THEN Entries
                                         ELSE IF found /\ s.kind \notin {"ctas", "drop"} THEN {o} ELSE {}]
          /\ stmt' = IF found /\ s.kind = "ctas" THEN [stmt EXCEPT ![t].kind = "create"] ELSE stmt
          /\ UNCHANGED <<answer, exposed>>
  /\ UNCHANGED <<entries, is_loaded, version, torn, remote, listing, temporary, unsure, partial>>

\* What the server executes: with IF NOT EXISTS also the create of a table that it has, with
\* IF EXISTS also the drop of one that it does not have.
Accepts(s) ==
  /\ s.kind \in {"alter", "rename"} => server[s.name] > 0
  /\ s.kind = "rename" => server[s.to] = 0

\* Whether the request gives a table a new version.
Renews(s) == s.kind \in {"alter", "rename"} \/ (s.kind \in {"create", "ctas"} /\ server[s.name] = 0)

\* The server executes the request and sends its answer.
Serve(t) ==
  LET s == stmt[t]
  IN
  /\ pc[t] = "request" /\ Accepts(s)
  /\ Renews(s) => clock < MaxVersion
  /\ clock' = IF Renews(s) THEN clock + 1 ELSE clock
  /\ server' = [n \in Names |->
       IF n = s.to /\ Renews(s) THEN clock + 1
       ELSE IF n = s.name /\ s.kind \in {"drop", "rename"} THEN 0 ELSE server[n]]
  /\ answer' = [answer EXCEPT ![t] = IF Changing(t) THEN server'[s.to] ELSE 0]
  /\ pc' = [pc EXCEPT ![t] = "answered"]
  /\ UNCHANGED <<set, stmt, listing, held, temporary, ghost>>

\* AirportCallAction throws, or the answer cannot be used.  The server may have
\* executed the request all the same.
CallFails(t) ==
  /\ pc[t] \in {"request", "answered"}
  /\ unsure' = IF pc[t] = "answered" /\ Changing(t) THEN unsure \cup NamesOf(stmt[t]) ELSE unsure
  /\ End(t)
  /\ UNCHANGED <<set, remote, listing, temporary, partial>>

Answered(t, kinds) == pc[t] = "answered" /\ stmt[t].kind \in kinds

\* CreateTable has made the entry from the answer, and goes into the map without the lock.
EnterMap(t) ==
  /\ Answered(t, {"create", "ctas"})
  /\ pc' = [pc EXCEPT ![t] = "entering"]
  /\ Use(\E u \in Threads \ {t} : InEntries(u))
  /\ UNCHANGED <<entries, is_loaded, lock, version, remote, stmt, listing, answer, held, temporary,
       partial, exposed>>

\* CreateEntry inserts it.  An entry that is there stays, and the pointer CreateEntry returns
\* is then to one that has been freed; only CREATE TABLE AS uses the pointer.
CreateEntry(t, new) ==
  LET n == stmt[t].name
  IN
  /\ pc[t] = "entering"
  /\ IF entries[n] # NoObject THEN UNCHANGED <<entries, version>>
     ELSE entries' = [entries EXCEPT ![n] = new] /\ version' = [version EXCEPT ![n] = answer[t]]
  /\ IF stmt[t].kind = "create" THEN End(t)
     ELSE /\ pc' = [pc EXCEPT ![t] = "using"]
          /\ held' = [held EXCEPT ![t] = {new}]
          /\ UNCHANGED <<stmt, answer, exposed>>
  /\ UNCHANGED <<is_loaded, lock, torn, remote, listing, temporary, unsure, partial>>

\* The build may do anything with a map that two threads have changed at once, or one while
\* the other read it; here it loses entries, then and later.
LoseEntry ==
  /\ torn
  /\ \E n \in Names :
       /\ entries[n] # NoObject
       /\ entries' = [entries EXCEPT ![n] = NoObject]
       /\ version' = [version EXCEPT ![n] = 0]
  /\ UNCHANGED <<is_loaded, lock, torn, remote, stmt, pc, listing, answer, held, temporary, ghost>>

\* EraseEntryInternal, after the server has dropped the table.
DropEntry(t) ==
  /\ Answered(t, {"drop"}) /\ lock = NoThread
  /\ entries' = [entries EXCEPT ![stmt[t].name] = NoObject]
  /\ version' = [version EXCEPT ![stmt[t].name] = 0]
  /\ Use(SomeUnlocked)
  /\ End(t)
  /\ UNCHANGED <<is_loaded, lock, remote, listing, temporary, partial>>

\* Faulty: a renamed table takes the place of the old entry, under the old name.
ReplaceEntryOldName(t, new) ==
  LET n == stmt[t].name
  IN
  /\ Answered(t, {"alter", "rename"}) /\ lock = NoThread
  /\ IF entries[n] = NoObject THEN UNCHANGED <<entries, version>>
     ELSE entries' = [entries EXCEPT ![n] = new] /\ version' = [version EXCEPT ![n] = answer[t]]
  /\ Use(SomeUnlocked)
  /\ End(t)
  /\ UNCHANGED <<is_loaded, lock, remote, listing, temporary, partial>>

\* ReplaceEntry: the altered table takes the place of the old entry; a renamed one is
\* inserted under its new name, if that is free.  Without the old entry it throws.
ReplaceEntry(t, new) ==
  LET s == stmt[t]
      Put(f, here, none) ==
        [n \in Names |-> IF n = s.to /\ (n = s.name \/ entries[n] = NoObject) THEN here
                         ELSE IF n = s.name THEN none ELSE f[n]]
  IN
  /\ Answered(t, {"alter", "rename"}) /\ lock = NoThread
  /\ IF entries[s.name] = NoObject THEN UNCHANGED <<entries, version>>
     ELSE entries' = Put(entries, new, NoObject) /\ version' = Put(version, answer[t], 0)
  /\ Use(SomeUnlocked)
  /\ End(t)
  /\ UNCHANGED <<is_loaded, lock, remote, listing, temporary, partial>>

\* Faulty: the entry at a point in time goes into the set.
KeepInSet(t, new) ==
  /\ Answered(t, {"lookup_at"})
  /\ entries' = [entries EXCEPT ![stmt[t].name] = new]
  /\ temporary' = [temporary EXCEPT ![t] = @ \cup {new}]
  /\ held' = [held EXCEPT ![t] = {new}]
  /\ pc' = [pc EXCEPT ![t] = "using"]
  /\ UNCHANGED <<is_loaded, lock, version, torn, remote, stmt, listing, answer, ghost>>

\* GetEntry at a point in time: the transaction keeps the entry.
KeepTemporary(t, new) ==
  /\ Answered(t, {"lookup_at"})
  /\ temporary' = [temporary EXCEPT ![t] = @ \cup {new}]
  /\ held' = [held EXCEPT ![t] = {new}]
  /\ pc' = [pc EXCEPT ![t] = "using"]
  /\ UNCHANGED <<set, remote, stmt, listing, answer, ghost>>

\* The statement is over.
EndStatement(t) ==
  /\ pc[t] = "using"
  /\ End(t)
  /\ UNCHANGED <<set, remote, listing, temporary, unsure, partial>>

\* Commit and rollback destroy the transaction and the entries it has kept.
EndTransaction(t) ==
  /\ pc[t] = "idle" /\ temporary[t] # {}
  /\ temporary' = [temporary EXCEPT ![t] = {}]
  /\ UNCHANGED <<set, remote, stmt, pc, listing, answer, held, ghost>>

Step(t) ==
  \/ \E s \in Statements : Begin(t, s)
  \/ Lock(t) \/ List(t) \/ Loaded(t) \/ LoadFails(t) \/ Find(t)
  \/ Serve(t) \/ CallFails(t)
  \/ \E new \in Free :
       InsertListed(t, new) \/ CreateEntry(t, new) \/ ReplaceEntry(t, new) \/ KeepTemporary(t, new)
  \/ EnterMap(t) \/ DropEntry(t)
  \/ EndStatement(t) \/ EndTransaction(t)

Next == (\E t \in Threads : Step(t)) \/ LoseEntry

Spec == Init /\ [][Next]_vars

-----------------------------------------------------------------------------

TypeOK ==
  /\ entries \in [Names -> Objects \cup {NoObject}]
  /\ is_loaded \in BOOLEAN
  /\ lock \in Threads \cup {NoThread}
  /\ version \in [Names -> 0 .. MaxVersion] /\ torn \in BOOLEAN
  /\ server \in [Names -> 0 .. MaxVersion]
  /\ clock \in 1 .. MaxVersion
  /\ stmt \in [Threads -> Statements \cup {NoStatement}]
  /\ pc \in [Threads -> Places]
  /\ listing \in [Threads -> [Names -> 0 .. MaxVersion]]
  /\ answer \in [Threads -> 0 .. MaxVersion]
  /\ held \in [Threads -> SUBSET Objects]
  /\ temporary \in [Threads -> SUBSET Objects]
  /\ unsure \subseteq Names /\ partial \in BOOLEAN /\ exposed \subseteq Threads

\* The lock keeps all users of entries apart, except for a CREATE TABLE that inserts.
OnlyCreatesUnlocked ==
  \A t, u \in Threads : t # u /\ InEntries(t) /\ InEntries(u) => Unlocked(t) \/ Unlocked(u)

\* No statement uses an entry that has been freed, unless another statement that
\* changes the same table overlaps with it: neither a load, nor the end of another
\* transaction, nor a change of another table takes an entry away.
HeldEntriesAlive == \A t \in Threads \ exposed : held[t] \subseteq Owned

\* The set is at rest as to a name: no load and no change of it is under way.
AtRest(n) == \A t \in Threads : ~Loading(t) /\ (Changing(t) => n \notin NamesOf(stmt[t]) \/ pc[t] = "using")

\* Whatever changes, loads, failed loads and look-ups came before, an entry describes the
\* table the server has, in its present version, as long as the changes of that name
\* came one after the other and did not fail, and the map is whole.
EntriesUpToDate ==
  \A n \in Names \ unsure : AtRest(n) /\ entries[n] # NoObject =>
    server[n] > 0 /\ version[n] = server[n]

\* And once the set is loaded there is an entry for each of the server's tables,
\* unless a load has failed.
LoadedSetComplete ==
  is_loaded /\ ~partial =>
    \A n \in Names \ unsure : AtRest(n) /\ server[n] > 0 => entries[n] # NoObject

\* An entry looked up at a point in time is only in its own transaction
\* (airport_table_set.cpp:556).
TemporaryEntriesPrivate ==
  \A t \in Threads :
    /\ temporary[t] \cap Entries = {}
    /\ \A u \in Threads \ {t} : temporary[t] \cap temporary[u] = {}

\* Entries are used while they live, and only by those who may: as long as no CREATE TABLE,
\* which alone goes into the map without the lock, has met another user of it there.
EntriesSafe ==
  TypeOK /\ OnlyCreatesUnlocked /\ TemporaryEntriesPrivate /\ (~torn => HeldEntriesAlive)

\* A set at rest says of every table what the server has, and of every one it has; a load
\* that failed may leave out tables.  A CREATE TABLE that inserts while another thread
\* creates, drops, alters, loads or looks up a table, of whatever name, makes every name
\* unsure: the code takes no lock there, and the map may lose entries.
EntriesMatchServer == EntriesUpToDate /\ LoadedSetComplete

=============================================================================
