---------------------- MODULE AirportSchemaCache_proofs ----------------------
(***************************************************************************)
(* Proofs about the disk cache, for any loaders, contents, temporary names *)
(* and damage.                                                             *)
(***************************************************************************)
EXTENDS AirportSchemaCache, TLAPS

-----------------------------------------------------------------------------
(* The inductive invariant.                                                *)

Writing == {"draw", "open", "write", "written", "look", "move"}
Opened  == {"write", "written", "look", "move"}

\* What a loader holds at each place: it writes what it wants, under a temporary name
\* that it keeps from Draw to AfterWrite, and has the file open only while it writes.
LoaderInv(p) ==
  /\ pc[p] \in {"load", "fetch"} => want[p] # NoFile
  /\ pc[p] \in {"idle", "item"} => want[p] = NoFile
  /\ pc[p] \in Writing => got[p] \in Shas
  /\ pc[p] \in Writing \cup {"returned"} /\ want[p] # NoFile => got[p] = want[p]
  /\ IF pc[p] \in Writing \ {"draw"} THEN temp[p] \in Temps ELSE temp[p] = NoFile
  /\ pc[p] \notin {"write", "written"} => handle[p] = NoFile

\* As long as no two loaders have drawn the same name, the temporary file of a loader
\* has what the loader has written so far.
TempInv(p) ==
  ~clashed =>
    /\ pc[p] = "write"   => handle[p] = temp[p] /\ files[temp[p]] = Blank
    /\ pc[p] = "written" => handle[p] = temp[p] /\ files[temp[p]] = Part(got[p])
    /\ pc[p] \in {"look", "move"} => files[temp[p]] = got[p]

\* Two loaders have drawn the same name only while neither has created the file.
TempsDiffer ==
  ~clashed =>
    \A p, q \in Loaders : p # q /\ temp[p] = temp[q] /\ temp[p] # NoFile =>
      pc[p] = "open" /\ pc[q] = "open"

\* What a catalog's loader has left behind in its list is there, or being written.
TodoInv(p) ==
  (want[p] = NoFile /\ pc[p] \in Writing \cup {"item"}) =>
    \A s \in Items \ todo[p] : files[s] # NoFile \/ (pc[p] \in Writing /\ got[p] = s)

CacheInv ==
  /\ TypeOK /\ FinalFilesComplete /\ SentinelMeansCached
  /\ TempsDiffer
  /\ \A p \in Loaders : LoaderInv(p) /\ TempInv(p) /\ TodoInv(p)

-----------------------------------------------------------------------------

LEMMA InitCacheInv == Init => CacheInv
<1> SUFFICES ASSUME Init PROVE CacheInv
  OBVIOUS
<1>1. TypeOK
  <2>1. files \in [Paths -> Contents \cup {NoFile}] /\ handle \in [Loaders -> Paths \cup {NoFile}]
    BY DEF Init
  <2>2. pc \in [Loaders -> Places] /\ want \in [Loaders -> Shas \cup {NoFile}]
    BY DEF Init, Places
  <2>3. todo \in [Loaders -> SUBSET Items] /\ got \in [Loaders -> Shas \cup {Blank, Damaged}]
        /\ temp \in [Loaders -> Temps \cup {NoFile}]
    BY DEF Init
  <2>4. damage \in 0 .. MaxDamage
    BY MaxDamageAssumption DEF Init
  <2>5. sentinel \in BOOLEAN /\ clashed \in BOOLEAN
    BY DEF Init
  <2> QED BY <2>1, <2>2, <2>3, <2>4, <2>5 DEF TypeOK
<1>2. FinalFilesComplete /\ SentinelMeansCached
  BY ItemsAssumption DEF Init, FinalFilesComplete, SentinelMeansCached, Paths
<1>3. TempsDiffer
  BY DEF Init, TempsDiffer
<1>4. ASSUME NEW p \in Loaders PROVE LoaderInv(p) /\ TempInv(p) /\ TodoInv(p)
  BY DEF Init, LoaderInv, TempInv, TodoInv, Writing
<1> QED BY <1>1, <1>2, <1>3, <1>4 DEF CacheInv

\* What is known of the names and contents.
LEMMA Kinds ==
  /\ Items \subseteq Shas /\ Shas \cap Temps = {}
  /\ NoFile \notin Shas /\ NoFile \notin Temps /\ NoFile \notin Paths
  /\ Blank # NoFile /\ Damaged # NoFile /\ \A s \in Shas : Part(s) # NoFile
  /\ Blank \notin Shas /\ Damaged \notin Shas
BY ItemsAssumption, PathsAssumption, ContentsAssumption, PartAssumption DEF Paths

LEMMA NextTypeOK == CacheInv /\ [Next]_vars => TypeOK'
<1> SUFFICES ASSUME CacheInv, [Next]_vars PROVE TypeOK'
  OBVIOUS
<1>0. TypeOK /\ \A p \in Loaders : LoaderInv(p)
  BY DEF CacheInv
<1> USE <1>0 DEF TypeOK, Goto, Reset, Places, loader
<1>1. ASSUME NEW p \in Loaders, Populate(p) PROVE TypeOK'
  BY <1>1 DEF Populate
<1>2. ASSUME NEW p \in Loaders, NextItem(p) PROVE TypeOK'
  BY <1>2, Kinds DEF NextItem
<1>3. ASSUME NEW p \in Loaders, WriteSentinel(p) PROVE TypeOK'
  BY <1>3 DEF WriteSentinel
<1>4. ASSUME NEW p \in Loaders, Load(p) PROVE TypeOK'
  <2>1. PICK src \in Sources :
          /\ want' = [want EXCEPT ![p] = src.sha]
          /\ \/ UsesInline(src) /\ Goto(p, "returned") /\ got' = [got EXCEPT ![p] = src.inline]
             \/ Goto(p, "returned") /\ UNCHANGED got
             \/ Goto(p, "load") /\ UNCHANGED got
    BY <1>4 DEF Load
  <2>2. src.sha \in Shas \cup {NoFile} /\ (UsesInline(src) => src.inline \in Shas \cup {Damaged})
    BY DEF Sources, UsesInline
  <2> QED BY <1>4, <2>1, <2>2 DEF Load
<1>5. ASSUME NEW p \in Loaders, ReadCache(p) PROVE TypeOK'
  BY <1>5, Kinds DEF ReadCache, LoaderInv
<1>6. ASSUME NEW p \in Loaders, Fetch(p) PROVE TypeOK'
  BY <1>6 DEF Fetch, LoaderInv
<1>7. ASSUME NEW p \in Loaders, Draw(p) PROVE TypeOK'
  BY <1>7 DEF Draw
<1>8. ASSUME NEW p \in Loaders, Open(p) PROVE TypeOK'
  <2>1. temp[p] \in Paths /\ Blank \in Contents
    BY <1>8 DEF Open, LoaderInv, Writing, Paths, Contents
  <2> QED BY <1>8, <2>1 DEF Open
<1>9. ASSUME NEW p \in Loaders, WritePart(p) PROVE TypeOK'
  <2>1. Part(got[p]) \in Contents /\ Damaged \in Contents
    BY <1>9 DEF WritePart, LoaderInv, Writing, Contents
  <2> QED BY <1>9, <2>1 DEF WritePart
<1>10. ASSUME NEW p \in Loaders, WriteRest(p) PROVE TypeOK'
  <2>1. got[p] \in Contents /\ Damaged \in Contents
    BY <1>10 DEF WriteRest, LoaderInv, Writing, Contents
  <2> QED BY <1>10, <2>1 DEF WriteRest
<1>11. ASSUME NEW p \in Loaders, Look(p) PROVE TypeOK'
  BY <1>11 DEF Look, AfterWrite
<1>12. ASSUME NEW p \in Loaders, Move(p) PROVE TypeOK'
  <2>1. got[p] \in Paths /\ temp[p] \in Paths
    BY <1>12 DEF Move, LoaderInv, Writing, Paths
  <2>2. files' \in [Paths -> Contents \cup {NoFile}]
    BY <1>12, <2>1 DEF Move
  <2>3. handle' \in [Loaders -> Paths \cup {NoFile}]
    BY <1>12, <2>1 DEF Move
  <2> QED BY <1>12, <2>2, <2>3 DEF Move, AfterWrite
<1>13. ASSUME NEW p \in Loaders, Return(p) PROVE TypeOK'
  BY <1>13 DEF Return
<1>14. ASSUME NEW p \in Loaders, Fail(p) PROVE TypeOK'
  BY <1>14 DEF Fail
<1>15. CASE Damage
  <2>1. PICK s \in Shas, c \in {Blank, Damaged} : files' = [files EXCEPT ![s] = c]
    BY <1>15 DEF Damage
  <2>2. c \in Contents
    BY DEF Contents
  <2>3. files' \in [Paths -> Contents \cup {NoFile}]
    BY <2>1, <2>2
  <2>4. damage' \in 0 .. MaxDamage
    BY <1>15, MaxDamageAssumption DEF Damage
  <2>5. UNCHANGED <<sentinel, pc, want, todo, got, temp, handle, clashed>>
    BY <1>15 DEF Damage
  <2> QED BY <2>3, <2>4, <2>5
<1>16. CASE UNCHANGED vars
  BY <1>16 DEF vars
<1> QED
  BY <1>1, <1>2, <1>3, <1>4, <1>5, <1>6, <1>7, <1>8, <1>9, <1>10, <1>11, <1>12, <1>13, <1>14,
     <1>15, <1>16 DEF Next, Step

\* What a loader holds changes only by its own steps, except for the file it has open.
LEMMA LoaderStep ==
  ASSUME CacheInv, [Next]_vars, NEW q \in Loaders
  PROVE  LoaderInv(q)'
<1>0. TypeOK /\ LoaderInv(q)
  BY DEF CacheInv
<1> USE <1>0, Kinds DEF TypeOK, LoaderInv, Writing, Goto, Reset, loader
<1>1. ASSUME NEW p \in Loaders, Populate(p) PROVE LoaderInv(q)'
  BY <1>1 DEF Populate
<1>2. ASSUME NEW p \in Loaders, NextItem(p) PROVE LoaderInv(q)'
  BY <1>2 DEF NextItem
<1>3. ASSUME NEW p \in Loaders, WriteSentinel(p) PROVE LoaderInv(q)'
  BY <1>3 DEF WriteSentinel
<1>4. ASSUME NEW p \in Loaders, Load(p) PROVE LoaderInv(q)'
  BY <1>4 DEF Load, UsesInline
<1>5. ASSUME NEW p \in Loaders, ReadCache(p) PROVE LoaderInv(q)'
  BY <1>5 DEF ReadCache
<1>6. ASSUME NEW p \in Loaders, Fetch(p) PROVE LoaderInv(q)'
  BY <1>6 DEF Fetch
<1>7. ASSUME NEW p \in Loaders, Draw(p) PROVE LoaderInv(q)'
  BY <1>7 DEF Draw
<1>8. ASSUME NEW p \in Loaders, Open(p) PROVE LoaderInv(q)'
  BY <1>8 DEF Open
<1>9. ASSUME NEW p \in Loaders, WritePart(p) PROVE LoaderInv(q)'
  BY <1>9 DEF WritePart
<1>10. ASSUME NEW p \in Loaders, WriteRest(p) PROVE LoaderInv(q)'
  BY <1>10 DEF WriteRest
<1>11. ASSUME NEW p \in Loaders, Look(p) PROVE LoaderInv(q)'
  BY <1>11 DEF Look, AfterWrite
<1>12. ASSUME NEW p \in Loaders, Move(p) PROVE LoaderInv(q)'
  <2>1. got[p] \in Shas /\ temp[p] \in Temps
    BY <1>12 DEF Move, CacheInv
  <2>2. handle[q] = NoFile => handle'[q] = NoFile
    BY <1>12, <2>1 DEF Move
  <2>3. q # p => pc'[q] = pc[q] /\ got'[q] = got[q] /\ temp'[q] = temp[q]
    BY <1>12 DEF Move, AfterWrite
  <2>4. pc[p] = "move" /\ pc'[p] \in {"item", "returned"} /\ temp'[p] = NoFile
        /\ (want[p] = NoFile <=> pc'[p] = "item") /\ (want[p] # NoFile => got'[p] = got[p])
    BY <1>12 DEF Move, AfterWrite
  <2>5. want' = want
    BY <1>12 DEF Move
  <2>6. CASE q = p
    BY <2>2, <2>4, <2>5, <2>6
  <2>7. CASE q # p
    BY <2>2, <2>3, <2>5, <2>7
  <2> QED BY <2>6, <2>7
<1>13. ASSUME NEW p \in Loaders, Return(p) PROVE LoaderInv(q)'
  BY <1>13 DEF Return
<1>14. ASSUME NEW p \in Loaders, Fail(p) PROVE LoaderInv(q)'
  BY <1>14 DEF Fail
<1>15. CASE Damage
  BY <1>15 DEF Damage
<1>16. CASE UNCHANGED vars
  BY <1>16 DEF vars
<1> QED
  BY <1>1, <1>2, <1>3, <1>4, <1>5, <1>6, <1>7, <1>8, <1>9, <1>10, <1>11, <1>12, <1>13, <1>14,
     <1>15, <1>16 DEF Next, Step

\* A file under its final name never disappears.
LEMMA FinalsStay ==
  ASSUME CacheInv, [Next]_vars, NEW s \in Shas, files[s] # NoFile
  PROVE  files'[s] # NoFile
<1>0. TypeOK /\ \A p \in Loaders : LoaderInv(p)
  BY DEF CacheInv
<1> USE <1>0, Kinds DEF TypeOK, Paths, loader
<1>1. ASSUME NEW p \in Loaders, Populate(p) PROVE files'[s] # NoFile
  BY <1>1 DEF Populate
<1>2. ASSUME NEW p \in Loaders, NextItem(p) PROVE files'[s] # NoFile
  BY <1>2 DEF NextItem
<1>3. ASSUME NEW p \in Loaders, WriteSentinel(p) PROVE files'[s] # NoFile
  BY <1>3 DEF WriteSentinel
<1>4. ASSUME NEW p \in Loaders, Load(p) PROVE files'[s] # NoFile
  BY <1>4 DEF Load
<1>5. ASSUME NEW p \in Loaders, ReadCache(p) PROVE files'[s] # NoFile
  BY <1>5 DEF ReadCache
<1>6. ASSUME NEW p \in Loaders, Fetch(p) PROVE files'[s] # NoFile
  BY <1>6 DEF Fetch
<1>7. ASSUME NEW p \in Loaders, Draw(p) PROVE files'[s] # NoFile
  BY <1>7 DEF Draw
<1>8. ASSUME NEW p \in Loaders, Open(p) PROVE files'[s] # NoFile
  BY <1>8 DEF Open, LoaderInv, Writing
<1>9. ASSUME NEW p \in Loaders, WritePart(p) PROVE files'[s] # NoFile
  <2>1. got[p] \in Shas
    BY <1>9 DEF WritePart, LoaderInv, Writing
  <2> QED BY <1>9, <2>1 DEF WritePart
<1>10. ASSUME NEW p \in Loaders, WriteRest(p) PROVE files'[s] # NoFile
  <2>1. got[p] \in Shas
    BY <1>10 DEF WriteRest, LoaderInv, Writing
  <2> QED BY <1>10, <2>1 DEF WriteRest
<1>11. ASSUME NEW p \in Loaders, Look(p) PROVE files'[s] # NoFile
  BY <1>11 DEF Look, AfterWrite
<1>12. ASSUME NEW p \in Loaders, Move(p) PROVE files'[s] # NoFile
  <2>1. got[p] \in Shas /\ temp[p] \in Temps
    BY <1>12 DEF Move, LoaderInv, Writing
  <2>2. files[temp[p]] # NoFile /\ files' = [files EXCEPT ![got[p]] = files[temp[p]], ![temp[p]] = NoFile]
    BY <1>12 DEF Move
  <2> QED BY <2>1, <2>2
<1>13. ASSUME NEW p \in Loaders, Return(p) PROVE files'[s] # NoFile
  BY <1>13 DEF Return
<1>14. ASSUME NEW p \in Loaders, Fail(p) PROVE files'[s] # NoFile
  BY <1>14 DEF Fail
<1>15. CASE Damage
  BY <1>15 DEF Damage
<1>16. CASE UNCHANGED vars
  BY <1>16 DEF vars
<1> QED
  BY <1>1, <1>2, <1>3, <1>4, <1>5, <1>6, <1>7, <1>8, <1>9, <1>10, <1>11, <1>12, <1>13, <1>14,
     <1>15, <1>16 DEF Next, Step

LEMMA ClashedStays == ASSUME [Next]_vars, ~clashed' PROVE ~clashed
BY DEF Next, Step, Populate, NextItem, WriteSentinel, Load, ReadCache, Fetch, Draw, Open,
   WritePart, WriteRest, Look, Move, Return, Fail, Damage, vars

\* Loaders that have created their temporary files have different ones.
LEMMA OpenedDiffer ==
  ASSUME CacheInv, ~clashed, NEW p \in Loaders, NEW q \in Loaders, p # q,
         pc[p] \in Opened, pc[q] \in Writing \ {"draw"}
  PROVE  temp[p] # temp[q]
<1>1. LoaderInv(p) /\ LoaderInv(q) /\ TempsDiffer
  BY DEF CacheInv
<1> QED BY <1>1, Kinds DEF LoaderInv, TempsDiffer, Writing, Opened

\* The file of a loader that has created it is there.
LEMMA OpenedExists ==
  ASSUME CacheInv, ~clashed, NEW p \in Loaders, pc[p] \in Opened
  PROVE  files[temp[p]] # NoFile
<1>1. LoaderInv(p) /\ TempInv(p)
  BY DEF CacheInv
<1> QED BY <1>1, Kinds DEF LoaderInv, TempInv, Writing, Opened

LEMMA TempsStep ==
  ASSUME CacheInv, [Next]_vars
  PROVE  TempsDiffer'
<1> SUFFICES ASSUME ~clashed', NEW r \in Loaders, NEW q \in Loaders,
                    r # q, temp'[r] = temp'[q], temp'[r] # NoFile
             PROVE  pc'[r] = "open" /\ pc'[q] = "open"
  BY DEF TempsDiffer
<1> DEFINE Goal == pc'[r] = "open" /\ pc'[q] = "open"
<1>0. TypeOK /\ TempsDiffer /\ \A p \in Loaders : LoaderInv(p)
  BY DEF CacheInv
<1>a. TypeOK' /\ ~clashed
  BY NextTypeOK, ClashedStays
<1> USE <1>0, <1>a DEF TypeOK, TempsDiffer, LoaderInv, Writing, Goto, Reset, loader
<1>1. ASSUME NEW p \in Loaders, Populate(p) PROVE Goal
  BY <1>1 DEF Populate
<1>2. ASSUME NEW p \in Loaders, NextItem(p) PROVE Goal
  BY <1>2 DEF NextItem
<1>3. ASSUME NEW p \in Loaders, WriteSentinel(p) PROVE Goal
  BY <1>3 DEF WriteSentinel
<1>4. ASSUME NEW p \in Loaders, Load(p) PROVE Goal
  BY <1>4 DEF Load
<1>5. ASSUME NEW p \in Loaders, ReadCache(p) PROVE Goal
  BY <1>5 DEF ReadCache
<1>6. ASSUME NEW p \in Loaders, Fetch(p) PROVE Goal
  BY <1>6 DEF Fetch
<1>7. ASSUME NEW p \in Loaders, Draw(p) PROVE Goal
  <2>1. PICK n \in Temps : files[n] = NoFile /\ temp' = [temp EXCEPT ![p] = n]
    BY <1>7 DEF Draw
  <2>2. pc' = [pc EXCEPT ![p] = "open"] /\ clashed' = clashed
    BY <1>7 DEF Draw
  <2>3. ASSUME NEW o \in Loaders, o # p, temp[o] = n PROVE pc[o] = "open"
    BY <2>1, <2>2, <2>3, OpenedExists, Kinds DEF Opened
  <2>4. ASSUME NEW o \in Loaders, o # p, temp'[o] = temp'[p] PROVE pc'[o] = "open" /\ pc'[p] = "open"
    BY <2>1, <2>2, <2>3, <2>4
  <2>5. CASE r # p /\ q # p
    BY <2>1, <2>2, <2>5
  <2> QED BY <2>4, <2>5
<1>8. ASSUME NEW p \in Loaders, Open(p) PROVE Goal
  BY <1>8 DEF Open
<1>9. ASSUME NEW p \in Loaders, WritePart(p) PROVE Goal
  BY <1>9 DEF WritePart
<1>10. ASSUME NEW p \in Loaders, WriteRest(p) PROVE Goal
  BY <1>10 DEF WriteRest
<1>11. ASSUME NEW p \in Loaders, Look(p) PROVE Goal
  BY <1>11 DEF Look, AfterWrite
<1>12. ASSUME NEW p \in Loaders, Move(p) PROVE Goal
  BY <1>12 DEF Move, AfterWrite
<1>13. ASSUME NEW p \in Loaders, Return(p) PROVE Goal
  BY <1>13 DEF Return
<1>14. ASSUME NEW p \in Loaders, Fail(p) PROVE Goal
  BY <1>14 DEF Fail
<1>15. CASE Damage
  BY <1>15 DEF Damage
<1>16. CASE UNCHANGED vars
  BY <1>16 DEF vars
<1> QED
  BY <1>1, <1>2, <1>3, <1>4, <1>5, <1>6, <1>7, <1>8, <1>9, <1>10, <1>11, <1>12, <1>13, <1>14,
     <1>15, <1>16 DEF Next, Step

LEMMA TempStep ==
  ASSUME CacheInv, [Next]_vars, NEW q \in Loaders
  PROVE  TempInv(q)'
<1>0. /\ TypeOK /\ LoaderInv(q) /\ TempInv(q)
      /\ \A p \in Loaders : LoaderInv(p) /\ TempInv(p)
  BY DEF CacheInv
<1>a. CASE clashed'
  BY <1>a DEF TempInv
<1> SUFFICES ASSUME ~clashed' PROVE TempInv(q)'
  BY <1>a
<1>b. ~clashed
  BY ClashedStays
<1> USE <1>0, <1>b, Kinds DEF TypeOK, TempInv, Goto, Reset, loader
<1>1. ASSUME NEW p \in Loaders, Populate(p) PROVE TempInv(q)'
  BY <1>1 DEF Populate
<1>2. ASSUME NEW p \in Loaders, NextItem(p) PROVE TempInv(q)'
  BY <1>2 DEF NextItem
<1>3. ASSUME NEW p \in Loaders, WriteSentinel(p) PROVE TempInv(q)'
  BY <1>3 DEF WriteSentinel
<1>4. ASSUME NEW p \in Loaders, Load(p) PROVE TempInv(q)'
  BY <1>4 DEF Load
<1>5. ASSUME NEW p \in Loaders, ReadCache(p) PROVE TempInv(q)'
  BY <1>5 DEF ReadCache
<1>6. ASSUME NEW p \in Loaders, Fetch(p) PROVE TempInv(q)'
  BY <1>6 DEF Fetch
<1>7. ASSUME NEW p \in Loaders, Draw(p) PROVE TempInv(q)'
  BY <1>7 DEF Draw
<1>8. ASSUME NEW p \in Loaders, Open(p) PROVE TempInv(q)'
  <2>1. temp[p] \in Temps /\ pc[p] = "open" /\ files' = [files EXCEPT ![temp[p]] = Blank]
    BY <1>8 DEF Open, LoaderInv, Writing
  <2>2. CASE q = p
    BY <1>8, <2>1, <2>2 DEF Open, Paths
  <2>3. CASE q # p
    <3>1. temp[q] # temp[p]
      BY <1>8, <2>3 DEF Open
    <3>2. pc'[q] = pc[q] /\ handle'[q] = handle[q] /\ temp' = temp /\ got' = got
      BY <1>8, <2>3 DEF Open
    <3>3. files'[temp[q]] = files[temp[q]]
      BY <2>1, <3>1
    <3> QED BY <3>2, <3>3
  <2> QED BY <2>2, <2>3
<1>9. ASSUME NEW p \in Loaders, WritePart(p) PROVE TempInv(q)'
  <2>1. /\ pc[p] = "write" /\ handle[p] = temp[p] /\ temp[p] \in Temps /\ files[temp[p]] = Blank
    BY <1>9 DEF WritePart, LoaderInv, Writing
  <2>2. files' = [files EXCEPT ![temp[p]] = Part(got[p])]
    BY <1>9, <2>1 DEF WritePart, Paths
  <2>3. CASE q = p
    BY <1>9, <2>1, <2>2, <2>3 DEF WritePart, Paths
  <2>4. CASE q # p
    <3>1. pc[q] \in {"write", "written", "look", "move"} => temp[p] # temp[q]
      BY <2>1, <2>4, OpenedDiffer DEF Opened, Writing
    <3> QED BY <1>9, <2>2, <2>4, <3>1 DEF WritePart
  <2> QED BY <2>3, <2>4
<1>10. ASSUME NEW p \in Loaders, WriteRest(p) PROVE TempInv(q)'
  <2>1. /\ pc[p] = "written" /\ handle[p] = temp[p] /\ temp[p] \in Temps
        /\ files[temp[p]] = Part(got[p])
    BY <1>10 DEF WriteRest, LoaderInv, Writing
  <2>2. files' = [files EXCEPT ![temp[p]] = got[p]]
    <3>1. PICK c \in {got[p], Damaged} :
            /\ (handle[p] # NoFile /\ files[handle[p]] = Part(got[p])) => c = got[p]
            /\ files' = IF handle[p] = NoFile THEN files ELSE [files EXCEPT ![handle[p]] = c]
      BY <1>10 DEF WriteRest
    <3>2. handle[p] # NoFile /\ files[handle[p]] = Part(got[p])
      BY <2>1
    <3> QED BY <2>1, <3>1, <3>2
  <2>3. CASE q = p
    BY <1>10, <2>1, <2>2, <2>3 DEF WriteRest, Paths
  <2>4. CASE q # p
    <3>1. pc[q] \in {"write", "written", "look", "move"} => temp[p] # temp[q]
      BY <2>1, <2>4, OpenedDiffer DEF Opened, Writing
    <3> QED BY <1>10, <2>2, <2>4, <3>1 DEF WriteRest
  <2> QED BY <2>3, <2>4
<1>11. ASSUME NEW p \in Loaders, Look(p) PROVE TempInv(q)'
  BY <1>11 DEF Look, AfterWrite
<1>12. ASSUME NEW p \in Loaders, Move(p) PROVE TempInv(q)'
  <2>1. /\ pc[p] = "move" /\ got[p] \in Shas /\ temp[p] \in Temps
        /\ files' = [files EXCEPT ![got[p]] = files[temp[p]], ![temp[p]] = NoFile]
        /\ pc'[p] \in {"item", "returned"}
    BY <1>12 DEF Move, AfterWrite, LoaderInv, Writing
  <2>2. CASE q = p
    BY <2>1, <2>2
  <2>3. CASE q # p
    <3>1. pc'[q] = pc[q] /\ temp'[q] = temp[q] /\ got'[q] = got[q]
      BY <1>12, <2>3 DEF Move, AfterWrite
    <3>2. SUFFICES ASSUME pc[q] \in {"write", "written", "look", "move"} PROVE TempInv(q)'
      BY <3>1
    <3>3. temp[q] \in Temps /\ temp[q] # temp[p]
      BY <2>1, <2>3, <3>2, OpenedDiffer DEF Opened, Writing, LoaderInv
    <3>4. files'[temp[q]] = files[temp[q]]
      BY <2>1, <3>3 DEF Paths
    <3>5. handle[q] = temp[q] => handle'[q] = temp[q]
      BY <1>12, <2>1, <3>3 DEF Move
    <3> QED BY <3>1, <3>4, <3>5
  <2> QED BY <2>2, <2>3
<1>13. ASSUME NEW p \in Loaders, Return(p) PROVE TempInv(q)'
  BY <1>13 DEF Return
<1>14. ASSUME NEW p \in Loaders, Fail(p) PROVE TempInv(q)'
  BY <1>14 DEF Fail
<1>15. CASE Damage
  <2>1. pc[q] \in {"write", "written", "look", "move"} => temp[q] \in Temps
    BY DEF LoaderInv, Writing
  <2> QED BY <1>15, <2>1 DEF Damage
<1>16. CASE UNCHANGED vars
  BY <1>16 DEF vars
<1> QED
  BY <1>1, <1>2, <1>3, <1>4, <1>5, <1>6, <1>7, <1>8, <1>9, <1>10, <1>11, <1>12, <1>13, <1>14,
     <1>15, <1>16 DEF Next, Step

\* Without damage and clashes a file under its final name changes only by coming into
\* being, complete: loaders write to their temporary files alone.
LEMMA FinalsFixed ==
  ASSUME CacheInv, [Next]_vars, ~clashed', damage' = 0, NEW s \in Shas
  PROVE  files'[s] = files[s] \/ files'[s] = s
<1> DEFINE Goal == files'[s] = files[s] \/ files'[s] = s
<1>0. TypeOK /\ \A p \in Loaders : LoaderInv(p) /\ TempInv(p)
  BY DEF CacheInv
<1>a. ~clashed
  BY ClashedStays
<1> USE <1>0, <1>a, Kinds DEF TypeOK, Paths, loader
<1>1. ASSUME NEW p \in Loaders, Populate(p) PROVE Goal
  BY <1>1 DEF Populate
<1>2. ASSUME NEW p \in Loaders, NextItem(p) PROVE Goal
  BY <1>2 DEF NextItem
<1>3. ASSUME NEW p \in Loaders, WriteSentinel(p) PROVE Goal
  BY <1>3 DEF WriteSentinel
<1>4. ASSUME NEW p \in Loaders, Load(p) PROVE Goal
  BY <1>4 DEF Load
<1>5. ASSUME NEW p \in Loaders, ReadCache(p) PROVE Goal
  BY <1>5 DEF ReadCache
<1>6. ASSUME NEW p \in Loaders, Fetch(p) PROVE Goal
  BY <1>6 DEF Fetch
<1>7. ASSUME NEW p \in Loaders, Draw(p) PROVE Goal
  BY <1>7 DEF Draw
<1>8. ASSUME NEW p \in Loaders, Open(p) PROVE Goal
  <2>1. temp[p] \in Temps
    BY <1>8 DEF Open, LoaderInv, Writing
  <2> QED BY <1>8, <2>1 DEF Open
<1>9. ASSUME NEW p \in Loaders, WritePart(p) PROVE Goal
  <2>1. handle[p] \in Temps
    BY <1>9 DEF WritePart, LoaderInv, TempInv, Writing
  <2> QED BY <1>9, <2>1 DEF WritePart
<1>10. ASSUME NEW p \in Loaders, WriteRest(p) PROVE Goal
  <2>1. handle[p] \in Temps
    BY <1>10 DEF WriteRest, LoaderInv, TempInv, Writing
  <2> QED BY <1>10, <2>1 DEF WriteRest
<1>11. ASSUME NEW p \in Loaders, Look(p) PROVE Goal
  BY <1>11 DEF Look, AfterWrite
<1>12. ASSUME NEW p \in Loaders, Move(p) PROVE Goal
  <2>1. got[p] \in Shas /\ temp[p] \in Temps /\ files[temp[p]] = got[p]
    BY <1>12 DEF Move, LoaderInv, TempInv, Writing
  <2>2. files' = [files EXCEPT ![got[p]] = files[temp[p]], ![temp[p]] = NoFile]
    BY <1>12 DEF Move
  <2>3. files'[got[p]] = got[p] /\ (s # got[p] => files'[s] = files[s])
    BY <2>1, <2>2
  <2> QED BY <2>3
<1>13. ASSUME NEW p \in Loaders, Return(p) PROVE Goal
  BY <1>13 DEF Return
<1>14. ASSUME NEW p \in Loaders, Fail(p) PROVE Goal
  BY <1>14 DEF Fail
<1>15. CASE Damage
  <2>1. damage' = damage + 1 /\ damage \in 0 .. MaxDamage
    BY <1>15 DEF Damage
  <2> QED BY <2>1, MaxDamageAssumption
<1>16. CASE UNCHANGED vars
  BY <1>16 DEF vars
<1> QED
  BY <1>1, <1>2, <1>3, <1>4, <1>5, <1>6, <1>7, <1>8, <1>9, <1>10, <1>11, <1>12, <1>13, <1>14,
     <1>15, <1>16 DEF Next, Step

LEMMA DamageStays == ASSUME TypeOK, [Next]_vars, damage' = 0 PROVE damage = 0
<1>1. CASE Damage
  BY <1>1, MaxDamageAssumption DEF Damage, TypeOK
<1>2. CASE ~Damage
  BY <1>2 DEF Next, Step, Populate, NextItem, WriteSentinel, Load, ReadCache, Fetch, Draw, Open,
     WritePart, WriteRest, Look, Move, Return, Fail, vars
<1> QED BY <1>1, <1>2

LEMMA FinalStep ==
  ASSUME CacheInv, [Next]_vars
  PROVE  FinalFilesComplete'
<1> SUFFICES ASSUME ~clashed', damage' = 0, NEW s \in Shas PROVE files'[s] \in {NoFile, s}
  BY DEF FinalFilesComplete
<1>1. ~clashed /\ damage = 0
  BY ClashedStays, DamageStays DEF CacheInv
<1>2. files[s] \in {NoFile, s}
  BY <1>1 DEF CacheInv, FinalFilesComplete
<1> QED BY <1>2, FinalsFixed

\* The sentinel is written by a loader that has nothing left to do.
LEMMA SentinelStep ==
  ASSUME CacheInv, [Next]_vars
  PROVE  SentinelMeansCached'
<1> SUFFICES ASSUME sentinel', NEW s \in Items PROVE files'[s] # NoFile
  BY DEF SentinelMeansCached
<1>1. CASE sentinel
  BY <1>1, FinalsStay, Kinds DEF CacheInv, SentinelMeansCached
<1>2. CASE ~sentinel
  <2>1. PICK p \in Loaders : WriteSentinel(p)
    BY <1>2 DEF Next, Step, Populate, NextItem, Load, ReadCache, Fetch, Draw, Open,
       WritePart, WriteRest, Look, Move, Return, Fail, Damage, vars
  <2>2. LoaderInv(p) /\ TodoInv(p) /\ pc[p] = "item" /\ todo[p] = {}
    BY <2>1 DEF CacheInv, WriteSentinel
  <2>3. files[s] # NoFile
    BY <2>2 DEF LoaderInv, TodoInv, Writing
  <2> QED BY <2>3, FinalsStay, Kinds
<1> QED BY <1>1, <1>2

LEMMA TodoStep ==
  ASSUME CacheInv, [Next]_vars, NEW q \in Loaders
  PROVE  TodoInv(q)'
<1>0. TypeOK /\ LoaderInv(q) /\ TodoInv(q)
  BY DEF CacheInv
<1>a. \A s \in Items : files[s] # NoFile => files'[s] # NoFile
  BY FinalsStay, Kinds
<1> USE <1>0, <1>a, Kinds DEF TypeOK, TodoInv, Writing, Goto, Reset, loader
<1>1. ASSUME NEW p \in Loaders, Populate(p) PROVE TodoInv(q)'
  BY <1>1 DEF Populate
<1>2. ASSUME NEW p \in Loaders, NextItem(p) PROVE TodoInv(q)'
  BY <1>2 DEF NextItem
<1>3. ASSUME NEW p \in Loaders, WriteSentinel(p) PROVE TodoInv(q)'
  BY <1>3 DEF WriteSentinel
<1>4. ASSUME NEW p \in Loaders, Load(p) PROVE TodoInv(q)'
  BY <1>4 DEF Load
<1>5. ASSUME NEW p \in Loaders, ReadCache(p) PROVE TodoInv(q)'
  BY <1>5 DEF ReadCache
<1>6. ASSUME NEW p \in Loaders, Fetch(p) PROVE TodoInv(q)'
  BY <1>6 DEF Fetch, LoaderInv
<1>7. ASSUME NEW p \in Loaders, Draw(p) PROVE TodoInv(q)'
  BY <1>7 DEF Draw
<1>8. ASSUME NEW p \in Loaders, Open(p) PROVE TodoInv(q)'
  BY <1>8 DEF Open
<1>9. ASSUME NEW p \in Loaders, WritePart(p) PROVE TodoInv(q)'
  BY <1>9 DEF WritePart
<1>10. ASSUME NEW p \in Loaders, WriteRest(p) PROVE TodoInv(q)'
  BY <1>10 DEF WriteRest
<1>11. ASSUME NEW p \in Loaders, Look(p) PROVE TodoInv(q)'
  <2>1. pc[p] = "look" /\ UNCHANGED <<files, want, todo>>
    BY <1>11 DEF Look
  <2>2. CASE q = p
    <3>1. CASE files[got[p]] = NoFile
      BY <1>11, <2>1, <2>2, <3>1 DEF Look
    <3>2. CASE files[got[p]] # NoFile
      BY <1>11, <2>1, <2>2, <3>2 DEF Look, AfterWrite
    <3> QED BY <3>1, <3>2
  <2>3. CASE q # p
    BY <1>11, <2>1, <2>3 DEF Look, AfterWrite
  <2> QED BY <2>2, <2>3
<1>12. ASSUME NEW p \in Loaders, Move(p) PROVE TodoInv(q)'
  <2>1. /\ pc[p] = "move" /\ files[temp[p]] # NoFile /\ UNCHANGED <<want, todo>>
        /\ files' = [files EXCEPT ![got[p]] = files[temp[p]], ![temp[p]] = NoFile]
    BY <1>12 DEF Move
  <2>2. CASE q = p
    <3>1. got[p] \in Shas /\ temp[p] \in Temps
      BY <2>1 DEF CacheInv, LoaderInv
    <3>2. files'[got[p]] # NoFile
      BY <2>1, <3>1 DEF Paths
    <3>3. want[p] = NoFile => pc'[p] = "item"
      BY <1>12 DEF Move, AfterWrite
    <3>4. want[p] # NoFile => pc'[p] = "returned"
      BY <1>12 DEF Move, AfterWrite
    <3> QED BY <2>1, <2>2, <3>2, <3>3, <3>4
  <2>3. CASE q # p
    <3>1. pc'[q] = pc[q] /\ got'[q] = got[q]
      BY <1>12, <2>3 DEF Move, AfterWrite
    <3> QED BY <2>1, <2>3, <3>1
  <2> QED BY <2>2, <2>3
<1>13. ASSUME NEW p \in Loaders, Return(p) PROVE TodoInv(q)'
  BY <1>13 DEF Return
<1>14. ASSUME NEW p \in Loaders, Fail(p) PROVE TodoInv(q)'
  BY <1>14 DEF Fail
<1>15. CASE Damage
  BY <1>15 DEF Damage
<1>16. CASE UNCHANGED vars
  BY <1>16 DEF vars
<1> QED
  BY <1>1, <1>2, <1>3, <1>4, <1>5, <1>6, <1>7, <1>8, <1>9, <1>10, <1>11, <1>12, <1>13, <1>14,
     <1>15, <1>16 DEF Next, Step

LEMMA NextCacheInv == CacheInv /\ [Next]_vars => CacheInv'
BY NextTypeOK, FinalStep, SentinelStep, TempsStep, LoaderStep, TempStep, TodoStep DEF CacheInv

-----------------------------------------------------------------------------
(* The theorems.                                                           *)

\* The inductive invariant holds in every reachable state.
THEOREM CacheInvariant == Spec => []CacheInv
<1> QED BY InitCacheInv, NextCacheInv, PTL DEF Spec

\* What a load with a hash returns has that hash, whatever other loaders, crashes, clashes
\* of names and damage have left in the directory (getCachedRequestData).
THEOREM LoadsHaveTheirHash == Spec => []LoadedHasHash
<1>1. CacheInv => LoadedHasHash
  BY DEF CacheInv, LoaderInv, LoadedHasHash
<1> QED BY <1>1, CacheInvariant, PTL

\* Without damage and clashes the files of the cache are complete at any time, and the
\* files that the sentinel stands for are there (writeToTempFile, MoveFile,
\* PopulateCatalogSchemaCacheFromURLorContent).
THEOREM FilesComplete == Spec => []CachedFilesComplete
<1>1. CacheInv => CachedFilesComplete
  BY DEF CacheInv, CachedFilesComplete
<1> QED BY <1>1, CacheInvariant, PTL

\* A file of the cache never disappears, and without damage and clashes never changes.
THEOREM FilesOfTheCacheStay == Spec => FilesStay
<1> DEFINE Stay ==
      \A s \in Shas : files[s] # NoFile =>
        files'[s] # NoFile /\ (clashed' \/ damage' > 0 \/ files'[s] = files[s])
<1>1. CacheInv /\ [Next]_vars => Stay
  <2> SUFFICES ASSUME CacheInv, [Next]_vars, NEW s \in Shas, files[s] # NoFile
               PROVE  files'[s] # NoFile /\ (clashed' \/ damage' > 0 \/ files'[s] = files[s])
    OBVIOUS
  <2>1. files'[s] # NoFile
    BY FinalsStay
  <2>2. CASE ~clashed' /\ damage' = 0
    <3>1. files'[s] = files[s] \/ files'[s] = s
      BY <2>2, FinalsFixed
    <3>2. ~clashed /\ damage = 0
      BY <2>2, ClashedStays, DamageStays DEF CacheInv
    <3>3. files[s] = s
      BY <3>2 DEF CacheInv, FinalFilesComplete
    <3> QED BY <2>1, <3>1, <3>3
  <2>3. CASE clashed'
    BY <2>1, <2>3
  <2>4. CASE damage' # 0
    <3>1. damage' \in 0 .. MaxDamage
      BY NextTypeOK DEF TypeOK
    <3> QED BY <2>1, <2>4, <3>1, MaxDamageAssumption
  <2> QED BY <2>2, <2>3, <2>4
<1>2. CacheInv /\ [Next]_vars => [Stay]_vars
  BY <1>1
<1> QED BY <1>2, CacheInvariant, PTL DEF Spec, FilesStay

=============================================================================
