------------------------ MODULE AirportSchemaContents ------------------------
(***************************************************************************)
(* What a schema has: its tables, table functions and scalar functions     *)
(* (airport_catalog_api.cpp, airport_table_function_set.cpp,               *)
(* airport_scalar_function_set.cpp, airport_table_set.cpp).                *)
(*                                                                         *)
(* The server lists all objects of a schema in one list.  A schema entry   *)
(* keeps them in three sets, each with a lock of its own, and each asks    *)
(* for the whole list when it is first used and takes from it the objects  *)
(* of its kind.  AirportTableSet has what becomes of a set afterwards,     *)
(* AirportSchemaCache how contents with a hash are fetched.                *)
(***************************************************************************)
EXTENDS Integers, FiniteSets

CONSTANTS
  MaxVersion,  \* bounds the versions of the schema's contents
  Histories,   \* the contents it may have: for each version a set of objects,
               \* [kind, name, overload, here]; here: it is of this catalog and schema
  Lower,       \* a name in lower case
  None         \* no version

Sets     == {"table", "table_function", "scalar_function"}
Versions == 1 .. MaxVersion
Objects  == UNION {h[v] : h \in Histories, v \in Versions}

MaxVersionAssumption == MaxVersion \in Nat \ {0} /\ None \notin Versions
LowerAssumption == \A o \in Objects : o.name \in DOMAIN Lower

VARIABLES
  history,   \* the contents of each version
  version,   \* the server's version now
  source,    \* "hashed", "url" or "flights": how serialized_source says they are got
  since,     \* the version the catalog's list of schemas was of
  pc,        \* where the load of a set is
  listed,    \* the version a set was loaded from
  groups,    \* what it has yet to make entries of
  entries    \* entries: [name, objects]

vars == <<history, version, source, since, pc, listed, groups, entries>>

Init ==
  /\ history \in Histories
  /\ version \in Versions /\ since = version
  /\ source \in {"hashed", "url", "flights"}
  /\ pc = [s \in Sets |-> "unloaded"]
  /\ listed = [s \in Sets |-> None]
  /\ groups = [s \in Sets |-> {}] /\ entries = [s \in Sets |-> {}]

\* Another client changes the schema.
Change ==
  /\ version < MaxVersion /\ version' = version + 1
  /\ UNCHANGED <<history, source, since, pc, listed, groups, entries>>

\* The first look-up or scan of a set; it is marked as loaded before it is.
Lock(s) ==
  /\ pc[s] = "unloaded"
  /\ pc' = [pc EXCEPT ![s] = "listing"]
  /\ UNCHANGED <<history, version, source, since, listed, groups, entries>>

\* Faulty: the hash is not looked at.
SourceVersionNow == version

\* Contents with a hash are those the hash was made of.
SourceVersion == IF source = "hashed" THEN since ELSE version

\* handle_flight_app_metadata: every object must be of the schema and of a kind that is
\* known, whichever set it is for.
Handled(objects) == \A o \in objects : o.here /\ o.kind \in Sets

\* Tables come one by one, functions by their names.
Groups(s, objects) ==
  LET own == {o \in objects : o.kind = s}
  IN  IF s = "table" THEN {{o} : o \in own}
      ELSE {{o \in own : o.name = p.name} : p \in own}

\* GetSchemaItems.
List(s) ==
  /\ pc[s] = "listing"
  /\ IF Handled(history[SourceVersion])
     THEN /\ groups' = [groups EXCEPT ![s] = Groups(s, history[SourceVersion])]
          /\ listed' = [listed EXCEPT ![s] = SourceVersion]
          /\ pc' = [pc EXCEPT ![s] = "creating"]
     ELSE /\ pc' = [pc EXCEPT ![s] = "failed"]
          /\ UNCHANGED <<groups, listed>>
  /\ UNCHANGED <<history, version, source, since, entries>>

\* The server does not answer, or its answer cannot be read.
ListFails(s) ==
  /\ pc[s] = "listing"
  /\ pc' = [pc EXCEPT ![s] = "failed"]
  /\ UNCHANGED <<history, version, source, since, listed, groups, entries>>

\* The entries are a case_insensitive_map_t.
SameName(n, m) == Lower[n] = Lower[m]

NameOf(g) == (CHOOSE o \in g : TRUE).name
Entry(g)  == [name |-> NameOf(g), objects |-> g]

\* CreateEntry, in any order; a name that is there, in whatever case, keeps its entry.
CreateEntry(s) ==
  /\ pc[s] = "creating"
  /\ \E g \in groups[s] :
       /\ groups' = [groups EXCEPT ![s] = @ \ {g}]
       /\ IF \E e \in entries[s] : SameName(e.name, NameOf(g)) THEN UNCHANGED entries
          ELSE entries' = [entries EXCEPT ![s] = @ \cup {Entry(g)}]
  /\ UNCHANGED <<history, version, source, since, pc, listed>>

\* The schema of an object cannot be converted; the entries made so far stay.
CreateFails(s) ==
  /\ pc[s] = "creating" /\ groups[s] # {}
  /\ groups' = [groups EXCEPT ![s] = {}]
  /\ pc' = [pc EXCEPT ![s] = "failed"]
  /\ UNCHANGED <<history, version, source, since, listed, entries>>

Loaded(s) ==
  /\ pc[s] = "creating" /\ groups[s] = {}
  /\ pc' = [pc EXCEPT ![s] = "loaded"]
  /\ UNCHANGED <<history, version, source, since, listed, groups, entries>>

Next ==
  \/ Change
  \/ \E s \in Sets : Lock(s) \/ List(s) \/ ListFails(s) \/ CreateEntry(s) \/ CreateFails(s) \/ Loaded(s)

Spec == Init /\ [][Next]_vars

-----------------------------------------------------------------------------

\* The state is well formed; no set has two entries that differ only in case.
TypeOK ==
  /\ history \in Histories /\ version \in Versions /\ since \in Versions
  /\ source \in {"hashed", "url", "flights"}
  /\ pc \in [Sets -> {"unloaded", "listing", "creating", "loaded", "failed"}]
  /\ listed \in [Sets -> Versions \cup {None}]
  /\ groups \in [Sets -> SUBSET SUBSET Objects]
  /\ entries \in [Sets -> SUBSET [name : DOMAIN Lower, objects : SUBSET Objects]]
  /\ \A s \in Sets : \A d, e \in entries[s] : SameName(d.name, e.name) => d = e

\* With a hash, all sets of a schema that have been loaded show the version of the list
\* of schemas it came with, whenever each of them is first used (getCachedRequestData).
OneVersion == source = "hashed" => \A s \in Sets : listed[s] \in {None, since}

\* No entry of any set is of another schema, and a list with an object of another schema,
\* or of an unknown kind, gives no entries at all, neither of its kind nor of others.
OnlyOwnObjects ==
  \A s \in Sets : entries[s] # {} =>
    \A o \in history[listed[s]] : o.here /\ o.kind \in Sets

\* A set of functions that has been loaded has every function of its kind together with
\* the others of its name, unless names differ only in case (functions_by_name).
OverloadsTogether ==
  \A s \in Sets \ {"table"} :
    LET own == {o \in history[listed[s]] : o.kind = s}
    IN  (pc[s] = "loaded" /\ \A o, p \in own : Lower[o.name] = Lower[p.name] => o.name = p.name) =>
          entries[s] = {[name |-> o.name, objects |-> {p \in own : p.name = o.name}] : o \in own}

\* What the sets show is what the server has listed.
ContentsAsListed == OneVersion /\ OnlyOwnObjects /\ OverloadsTogether

\* What has been listed is of one version, can be handled, and is either to be made an entry
\* of or has an entry of its name, unless the load failed; every entry is of it.
SetInv(s) ==
  /\ pc[s] \in {"unloaded", "listing"} => listed[s] = None
  /\ pc[s] \in {"creating", "loaded"} => listed[s] # None
  /\ pc[s] = "loaded" => groups[s] = {}
  /\ listed[s] = None => groups[s] = {} /\ entries[s] = {}
  /\ listed[s] # None =>
       LET made == Groups(s, history[listed[s]])
       IN  /\ Handled(history[listed[s]])
           /\ source = "hashed" => listed[s] = since
           /\ groups[s] \subseteq made
           /\ entries[s] \subseteq {Entry(g) : g \in made}
           /\ pc[s] # "failed" =>
                \A g \in made \ groups[s] : \E e \in entries[s] : SameName(e.name, NameOf(g))

\* The inductive invariant.
ContentsInv == TypeOK /\ \A s \in Sets : SetInv(s)

=============================================================================
