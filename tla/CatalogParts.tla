---------------------------- MODULE CatalogParts ----------------------------
(***************************************************************************)
(* What connections share of an attached catalog: transactions and the     *)
(* version of the catalog, of a server that changes it and of one that has *)
(* said that it does not; the schemas; and what a schema has.  The parts   *)
(* share no state: a behaviour is one of the part it starts with.  In      *)
(* behaviours of the schemas no transaction is started; the variables that *)
(* only other parts have keep the value Unused.  The last two use the same *)
(* name for variables that play the same role.                             *)
(***************************************************************************)
EXTENDS AirportTransaction

CONSTANTS
  \* of SchemaSet
  Names, Main, NoThread, Kinds, Marked, MaxChanges,
  \* of SchemaContents
  Histories, Lower,
  Unused  \* the value of variables that a part does not have

VARIABLES
  part,
  \* of SchemaSet and SchemaContents
  entries, place,
  \* of SchemaSet
  torn, is_loaded, called_load_entries, base_lock, set_lock, collection, set_default,
  catalog_default, server, server_default, changes, stmt, loading, listing, unsure, raced,
  partial,
  \* of SchemaContents
  history, contents_version, source, listed_at, listed, groups

setVars      == <<entries, place>>
schemaVars   == <<torn, is_loaded, called_load_entries, base_lock, set_lock, collection,
                  set_default, catalog_default, server, server_default, changes, stmt,
                  loading, listing, unsure, raced, partial>>
contentsVars == <<history, contents_version, source, listed_at, listed, groups>>
allVars      == <<part, vars, setVars, schemaVars, contentsVars>>

\* A catalog the server says is fixed.
FixedCatalog == INSTANCE AirportTransaction WITH Fixed <- TRUE, MaxVersion <- 1

Schemas == INSTANCE AirportSchemaSet WITH Threads <- Connections, pc <- place

ASSUME SchemasAssumption ==
  /\ Schemas!MainAssumption /\ Schemas!NoThreadAssumption /\ Schemas!NoneAssumption
  /\ Schemas!KindsAssumption /\ Schemas!MarkedAssumption /\ Schemas!MaxChangesAssumption

Contents == INSTANCE AirportSchemaContents WITH
  version <- contents_version, since <- listed_at, pc <- place

ASSUME ContentsAssumption == Contents!MaxVersionAssumption /\ Contents!LowerAssumption

-----------------------------------------------------------------------------

setIdle == entries = Unused /\ place = Unused
schemaIdle ==
  /\ torn = Unused /\ is_loaded = Unused /\ called_load_entries = Unused /\ base_lock = Unused
  /\ set_lock = Unused /\ collection = Unused /\ set_default = Unused
  /\ catalog_default = Unused /\ server = Unused /\ server_default = Unused
  /\ changes = Unused /\ stmt = Unused /\ loading = Unused /\ listing = Unused
  /\ unsure = Unused /\ raced = Unused /\ partial = Unused
contentsIdle ==
  /\ history = Unused /\ contents_version = Unused /\ source = Unused
  /\ listed_at = Unused /\ listed = Unused /\ groups = Unused

PartsInit ==
  \/ part = "transactions" /\ Init /\ setIdle /\ schemaIdle /\ contentsIdle
  \/ part = "fixed" /\ FixedCatalog!Init /\ setIdle /\ schemaIdle /\ contentsIdle
  \/ part = "schemas" /\ Schemas!Init /\ Init /\ contentsIdle
  \/ part = "contents" /\ Contents!Init /\ Init /\ schemaIdle

PartsNext ==
  /\ UNCHANGED part
  /\ \/ part = "transactions" /\ Next /\ UNCHANGED <<setVars, schemaVars, contentsVars>>
     \/ part = "fixed" /\ FixedCatalog!Next /\ UNCHANGED <<setVars, schemaVars, contentsVars>>
     \/ part = "schemas" /\ Schemas!Next /\ UNCHANGED <<vars, contentsVars>>
     \/ part = "contents" /\ Contents!Next /\ UNCHANGED <<vars, schemaVars>>

PartsSpec == PartsInit /\ [][PartsNext]_allVars
-----------------------------------------------------------------------------

\* A look-up or scan that holds the lock sees only schemas the server has, also after loads
\* that failed and after the set has been cleared; and all of them otherwise, although
\* LoadEntireSet loads under another lock and leaves is_loaded alone.  Nothing is said once
\* loads have raced, or the map has been used by two threads at once, as CREATE SCHEMA, which
\* inserts without a lock, may.
LookupSeesServer == part = "schemas" => Schemas!LookupSeesServer /\ Schemas!SchemaSetInv

\* With a hash, all sets of a schema that have been loaded show the version of the list
\* of schemas it came with, whenever each of them is first used (getCachedRequestData).
\* No entry of any set is of another schema, and a list with an object of another schema,
\* or of an unknown kind, gives no entries at all.  A set of functions that has been
\* loaded has every function of its kind together with the others of its name, unless
\* names differ only in case (functions_by_name).
ContentsAsListed == part = "contents" => Contents!ContentsAsListed /\ Contents!ContentsInv

=============================================================================
