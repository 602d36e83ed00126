------------------------- MODULE AirportSchemaCache -------------------------
(***************************************************************************)
(* The disk cache of schema contents (storage/airport_catalog_api.cpp).    *)
(*                                                                         *)
(* Files are named after the SHA256 of what they hold.  Loaders, threads   *)
(* of one or of several DuckDB processes that share a home directory, fill *)
(* it without any lock: a temporary file is written and renamed, and after *)
(* all contents of a catalog a sentinel file says that nothing is left to  *)
(* do.  A loader may die between any two steps, the name of a temporary    *)
(* file is drawn before the file exists, and something else may damage     *)
(* files of the cache.                                                     *)
(*                                                                         *)
(* A content is named by its hash.  All names are in one sub-directory.    *)
(***************************************************************************)
EXTENDS Integers, FiniteSets

CONSTANTS
  Loaders,     \* threads that load schemas
  Shas,        \* contents, named by their SHA256
  Items,       \* the contents a catalog lists for its schemas
  Temps,       \* names of temporary files; bounds the files left behind
  NoFile,      \* nothing has this name
  Blank,       \* an empty file
  Damaged,     \* any other content
  MaxDamage    \* bounds the damage done from outside

ASSUME ItemsAssumption == Items \subseteq Shas
ASSUME PathsAssumption == Shas \cap Temps = {} /\ NoFile \notin Shas \cup Temps
ASSUME ContentsAssumption == {Blank, Damaged} \cap Shas = {} /\ Blank # Damaged
                             /\ NoFile \notin {Blank, Damaged}
ASSUME MaxDamageAssumption == MaxDamage \in Nat

VARIABLES
  files,     \* what is in the directory
  sentinel,  \* the sentinel of the catalog exists
  pc,        \* where a loader is
  want,      \* the hash of the schema it loads, or NoFile
  todo,      \* items of the catalog it still has to write
  got,       \* the content it writes, or returns
  temp,      \* its temporary file
  handle,    \* the file it has open for writing
  damage,    \* how often files have been damaged
  clashed    \* two loaders have drawn the same name

loader == <<pc, want, todo, got, temp, handle>>
vars   == <<files, sentinel, loader, damage, clashed>>

Paths    == Shas \cup Temps
Part(s)  == [part |-> s]   \* the first part of a content
Contents == Shas \cup {Part(s) : s \in Shas} \cup {Blank, Damaged}

ASSUME PartAssumption == \A s \in Shas : Part(s) # NoFile

\* AirportSerializedContentsWithSHA256Hash: the hash of a schema's contents if the server
\* gives one, contents it gives inline, and whether it gives a url.
Sources == [sha : Shas \cup {NoFile}, inline : Shas \cup {Damaged, NoFile}, url : BOOLEAN]

Init ==
  /\ files = [n \in Paths |-> NoFile] /\ sentinel = FALSE
  /\ pc = [p \in Loaders |-> "idle"] /\ want = [p \in Loaders |-> NoFile]
  /\ todo = [p \in Loaders |-> {}] /\ got = [p \in Loaders |-> Blank]
  /\ temp = [p \in Loaders |-> NoFile] /\ handle = [p \in Loaders |-> NoFile]
  /\ damage = 0 /\ clashed = FALSE

Goto(p, l) == pc' = [pc EXCEPT ![p] = l]

Reset(p) ==
  /\ want' = [want EXCEPT ![p] = NoFile] /\ todo' = [todo EXCEPT ![p] = {}]
  /\ got' = [got EXCEPT ![p] = Blank]
  /\ temp' = [temp EXCEPT ![p] = NoFile] /\ handle' = [handle EXCEPT ![p] = NoFile]

-----------------------------------------------------------------------------
(* PopulateCatalogSchemaCacheFromURLorContent *)

\* The sentinel is missing, and the contents, inline or from the url, have the hash of
\* the catalog.
Populate(p) ==
  /\ pc[p] = "idle" /\ ~sentinel
  /\ Goto(p, "item")
  /\ todo' = [todo EXCEPT ![p] = Items]
  /\ UNCHANGED <<files, sentinel, want, got, temp, handle, damage, clashed>>

\* The next item has the hash it is listed under.
NextItem(p) ==
  /\ pc[p] = "item"
  /\ \E s \in todo[p] : got' = [got EXCEPT ![p] = s] /\ todo' = [todo EXCEPT ![p] = @ \ {s}]
  /\ Goto(p, "draw")
  /\ UNCHANGED <<files, sentinel, want, temp, handle, damage, clashed>>

\* Faulty: the sentinel is written before the last item is.
WriteSentinelEarly(p) ==
  /\ pc[p] = "item" /\ Cardinality(todo[p]) < 2
  /\ sentinel' = TRUE
  /\ IF todo[p] = {} THEN Goto(p, "idle") /\ Reset(p)
     ELSE UNCHANGED loader
  /\ UNCHANGED <<files, damage, clashed>>

WriteSentinel(p) ==
  /\ pc[p] = "item" /\ todo[p] = {}
  /\ sentinel' = TRUE
  /\ Goto(p, "idle") /\ Reset(p)
  /\ UNCHANGED <<files, damage, clashed>>

-----------------------------------------------------------------------------
(* getCachedRequestData *)

\* Inline content is used when it matches, or when there is no hash to match.
UsesInline(src) == src.inline # NoFile /\ (src.sha = NoFile \/ src.inline = src.sha)

\* Without a hash there is no cache: inline content is returned as it is, and what a url
\* has is asked for and thrown away (GetRequest).  Inline content that does not match is
\* ignored if there is a url, else the load fails.
Load(p) ==
  /\ pc[p] = "idle"
  /\ \E src \in Sources :
       /\ src.sha # NoFile \/ src.inline # NoFile \/ src.url   \* else the flights are listed
       /\ want' = [want EXCEPT ![p] = src.sha]
       /\ \/ /\ UsesInline(src)
             /\ Goto(p, "returned") /\ got' = [got EXCEPT ![p] = src.inline]
          \/ /\ ~UsesInline(src) /\ src.sha = NoFile
             /\ Goto(p, "returned") /\ UNCHANGED got
          \/ /\ ~UsesInline(src) /\ src.sha # NoFile /\ (src.inline # NoFile => src.url)
             /\ Goto(p, "load") /\ UNCHANGED got
  /\ UNCHANGED <<files, sentinel, todo, temp, handle, damage, clashed>>

\* Faulty: the cached file is trusted.
ReadCacheUnchecked(p) ==
  /\ pc[p] = "load"
  /\ LET f == files[want[p]]
     IN  IF f \in {NoFile, Blank} THEN Goto(p, "fetch") /\ UNCHANGED got
         ELSE Goto(p, "returned") /\ got' = [got EXCEPT ![p] = f]
  /\ UNCHANGED <<files, sentinel, want, todo, temp, handle, damage, clashed>>

\* A missing or empty file is a miss; a file that does not match fails (Fail).
ReadCache(p) ==
  /\ pc[p] = "load"
  /\ LET f == files[want[p]]
     IN  \/ f \in {NoFile, Blank} /\ Goto(p, "fetch") /\ UNCHANGED got
         \/ f = want[p] /\ Goto(p, "returned") /\ got' = [got EXCEPT ![p] = f]
  /\ UNCHANGED <<files, sentinel, want, todo, temp, handle, damage, clashed>>

\* GetRequest: what the server sends has the hash.
Fetch(p) ==
  /\ pc[p] = "fetch"
  /\ got' = [got EXCEPT ![p] = want[p]]
  /\ Goto(p, "draw")
  /\ UNCHANGED <<files, sentinel, want, todo, temp, handle, damage, clashed>>

-----------------------------------------------------------------------------
(* generateTempFilename, writeToTempFile, MoveFile *)

Draw(p) ==
  /\ pc[p] = "draw"
  /\ \E n \in Temps : files[n] = NoFile /\ temp' = [temp EXCEPT ![p] = n]
  /\ Goto(p, "open")
  /\ UNCHANGED <<files, sentinel, want, todo, got, handle, damage, clashed>>

\* Faulty: the file is written under its final name.
OpenInPlace(p) ==
  /\ pc[p] = "open"
  /\ files' = [files EXCEPT ![got[p]] = Blank]
  /\ handle' = [handle EXCEPT ![p] = got[p]]
  /\ Goto(p, "write")
  /\ UNCHANGED <<sentinel, want, todo, got, temp, damage, clashed>>

\* FILE_CREATE_NEW truncates a file that has come into being since.
Open(p) ==
  /\ pc[p] = "open"
  /\ files' = [files EXCEPT ![temp[p]] = Blank]
  /\ handle' = [handle EXCEPT ![p] = temp[p]]
  /\ clashed' = (clashed \/ \E q \in Loaders \ {p} : temp[q] = temp[p])
  /\ Goto(p, "write")
  /\ UNCHANGED <<sentinel, want, todo, got, temp, damage>>

\* The first part of the content; a handle outlives the name its file had.
WritePart(p) ==
  /\ pc[p] = "write"
  /\ files' = IF handle[p] = NoFile THEN files
              ELSE [files EXCEPT ![handle[p]] = IF @ = Blank THEN Part(got[p]) ELSE Damaged]
  /\ Goto(p, "written")
  /\ UNCHANGED <<sentinel, want, todo, got, temp, handle, damage, clashed>>

\* The rest, Sync and Close.  Two writers may leave anything.
WriteRest(p) ==
  /\ pc[p] = "written"
  /\ \E c \in {got[p], Damaged} :
       /\ (handle[p] # NoFile /\ files[handle[p]] = Part(got[p])) => c = got[p]
       /\ files' = IF handle[p] = NoFile THEN files ELSE [files EXCEPT ![handle[p]] = c]
  /\ handle' = [handle EXCEPT ![p] = NoFile]
  /\ Goto(p, "look")
  /\ UNCHANGED <<sentinel, want, todo, got, temp, damage, clashed>>

\* The content is in place: the next item, or back to the caller.
AfterWrite(p) ==
  /\ Goto(p, IF want[p] = NoFile THEN "item" ELSE "returned")
  /\ got' = IF want[p] = NoFile THEN [got EXCEPT ![p] = Blank] ELSE got
  /\ temp' = [temp EXCEPT ![p] = NoFile]

\* The temporary file stays behind when the final one exists.
Look(p) ==
  /\ pc[p] = "look"
  /\ IF files[got[p]] = NoFile THEN Goto(p, "move") /\ UNCHANGED <<got, temp>> ELSE AfterWrite(p)
  /\ UNCHANGED <<files, sentinel, want, todo, handle, damage, clashed>>

\* Renames over what has come into being since; who has the file open keeps it.
Move(p) ==
  LET final == got[p]
      Renamed(h) == CASE h = temp[p] -> final [] h = final -> NoFile [] OTHER -> h
  IN
  /\ pc[p] = "move" /\ files[temp[p]] # NoFile
  /\ files' = [files EXCEPT ![final] = files[temp[p]], ![temp[p]] = NoFile]
  /\ handle' = [q \in Loaders |-> Renamed(handle[q])]
  /\ AfterWrite(p)
  /\ UNCHANGED <<sentinel, want, todo, damage, clashed>>

-----------------------------------------------------------------------------

\* GetSchemaItems unpacks what it was given.
Return(p) ==
  /\ pc[p] = "returned"
  /\ Goto(p, "idle") /\ Reset(p)
  /\ UNCHANGED <<files, sentinel, damage, clashed>>

\* A request, a hash that does not match, a url that is missing, an item that is not a
\* pair, a file that cannot be written or moved: an exception; or the process dies.
Fail(p) ==
  /\ pc[p] # "idle"
  /\ Goto(p, "idle") /\ Reset(p)
  /\ UNCHANGED <<files, sentinel, damage, clashed>>

\* Something else truncates or overwrites a file of the cache.
Damage ==
  /\ damage < MaxDamage /\ damage' = damage + 1
  /\ \E s \in Shas, c \in {Blank, Damaged} : files[s] # NoFile /\ files' = [files EXCEPT ![s] = c]
  /\ UNCHANGED <<sentinel, loader, clashed>>

Step(p) ==
  \/ Populate(p) \/ NextItem(p) \/ WriteSentinel(p)
  \/ Load(p) \/ ReadCache(p) \/ Fetch(p)
  \/ Draw(p) \/ Open(p) \/ WritePart(p) \/ WriteRest(p) \/ Look(p) \/ Move(p)
  \/ Return(p) \/ Fail(p)

Next == (\E p \in Loaders : Step(p)) \/ Damage

Spec == Init /\ [][Next]_vars

-----------------------------------------------------------------------------

Places == {"idle", "item", "load", "fetch", "draw", "open", "write",
           "written", "look", "move", "returned"}

TypeOK ==
  /\ files \in [Paths -> Contents \cup {NoFile}] /\ sentinel \in BOOLEAN
  /\ pc \in [Loaders -> Places]
  /\ want \in [Loaders -> Shas \cup {NoFile}]
  /\ todo \in [Loaders -> SUBSET Items]
  /\ got \in [Loaders -> Shas \cup {Blank, Damaged}]
  /\ temp \in [Loaders -> Temps \cup {NoFile}]
  /\ handle \in [Loaders -> Paths \cup {NoFile}]
  /\ damage \in 0 .. MaxDamage /\ clashed \in BOOLEAN

\* What a load with a hash returns has that hash, whatever other loaders, crashes,
\* clashes of names and damage have left in the directory.
LoadedHasHash ==
  \A p \in Loaders : pc[p] = "returned" /\ want[p] # NoFile => got[p] = want[p]

\* A file under its final name is complete at any time, so that no load fails because
\* another one was under way or died: unless two loaders drew the same temporary name,
\* or the file was damaged.
FinalFilesComplete ==
  ~clashed /\ damage = 0 => \A s \in Shas : files[s] \in {NoFile, s}

\* When the sentinel lets a catalog skip writing its schemas, a file for each is there,
\* wherever a loader has died.
SentinelMeansCached == sentinel => \A s \in Items : files[s] # NoFile

\* A file of the cache never disappears, and without damage and clashes never changes.
FilesStay ==
  [][\A s \in Shas : files[s] # NoFile =>
       files'[s] # NoFile /\ (clashed' \/ damage' > 0 \/ files'[s] = files[s])]_vars

\* The files in the directory are complete, and those that the sentinel stands for are there.
CachedFilesComplete == TypeOK /\ FinalFilesComplete /\ SentinelMeansCached

=============================================================================
