----------------------- MODULE AirportTableSet_proofs ------------------------
(***************************************************************************)
(* Proofs about the tables of a schema, for any connections, names, heap   *)
(* and number of changes.                                                  *)
(***************************************************************************)
EXTENDS AirportTableSet, TLAPS

-----------------------------------------------------------------------------
(* The inductive invariant, in parts.                                      *)

\* A connection that is not idle has a statement; one that is has no pointers.
StmtInv(t) ==
  IF pc[t] = "idle" THEN held[t] = {}
  ELSE stmt[t] \in Statements /\ (pc[t] = "entering" => stmt[t].kind \in {"create", "ctas"})

\* Nothing is sure of a map that is torn.
TornInv == torn => Names \subseteq unsure

\* The lock is held from Lock to Find.
LockInv(t) == pc[t] \in {"listing", "inserting", "finding"} => lock = t

\* The set is loaded once, under the lock: until that is over only CREATE TABLE, which
\* does not look up its table, gets past the look-up.
LoadInv ==
  /\ ~is_loaded => \A t \in Threads : pc[t] \notin {"listing", "inserting", "finding"}
  /\ (~is_loaded \/ \E u \in Threads : Loading(u)) =>
       \A t \in Threads : pc[t] \in {"request", "answered", "entering", "using"} => stmt[t].kind = "create"

Overlapping(t, u) ==
  pc[t] # "idle" /\ Changing(u) /\ NamesOf(stmt[t]) \cap NamesOf(stmt[u]) # {}

\* A statement that a change overlaps with is exposed; the names of two changes that
\* overlap are unsure.
OverlapInv ==
  \A t, u \in Threads : t # u /\ Overlapping(t, u) =>
    /\ t \in exposed
    /\ Changing(t) => NamesOf(stmt[t]) \cup NamesOf(stmt[u]) \subseteq unsure

\* A statement holds entries of its own names and of its own transaction; the table of a
\* CREATE TABLE AS has no entry.
HeldInv(t) ==
  (~torn /\ t \notin exposed /\ pc[t] # "idle") =>
    /\ held[t] \subseteq temporary[t] \cup {entries[n] : n \in NamesOf(stmt[t])}
    /\ (pc[t] \in {"request", "answered", "entering"} /\ stmt[t].kind = "ctas") => entries[stmt[t].name] = NoObject

\* t changes the table n, and the server has done so.
Pending(t, n) == pc[t] \in {"answered", "entering"} /\ stmt[t].kind \in Changes /\ n \in NamesOf(stmt[t])

\* An entry describes the server's table, unless a change of it is pending; what a load
\* still has to insert is as the server has it, and there is an entry for every other
\* table of the server.
EntryInv(n) ==
  /\ (\A t \in Threads : ~Pending(t, n)) =>
       /\ entries[n] # NoObject => server[n] > 0 /\ version[n] = server[n]
       /\ is_loaded /\ ~partial /\ server[n] > 0 /\ entries[n] = NoObject =>
            \E u \in Threads : pc[u] = "listing" \/ (pc[u] = "inserting" /\ listing[u][n] > 0)
  /\ \A u \in Threads : pc[u] = "inserting" /\ listing[u][n] > 0 => listing[u][n] = server[n]

\* What the server has done, and what the entry still says.
PendingInv(t, n) ==
  Pending(t, n) =>
    /\ stmt[t].kind \in {"create", "ctas"} =>
         /\ answer[t] = server[n] /\ server[n] > 0
         /\ entries[n] # NoObject => version[n] = server[n]
    /\ stmt[t].kind = "drop" => server[n] = 0
    /\ stmt[t].kind \in {"alter", "rename"} =>
         IF n = stmt[t].to
         THEN /\ answer[t] = server[n] /\ server[n] > 0
              /\ n # stmt[t].name => entries[n] = NoObject
         ELSE server[n] = 0

\* The entry of a table that is being altered stays.
AlterInv(t) ==
  (pc[t] \in {"request", "answered"} /\ stmt[t].kind \in {"alter", "rename"}) =>
    entries[stmt[t].name] # NoObject \/ NamesOf(stmt[t]) \subseteq unsure

TableSetInv ==
  /\ TypeOK /\ TemporaryEntriesPrivate /\ LoadInv /\ OverlapInv /\ TornInv
  /\ \A t \in Threads : StmtInv(t) /\ LockInv(t) /\ HeldInv(t) /\ AlterInv(t)
  /\ \A n \in Names \ unsure : EntryInv(n) /\ \A t \in Threads : PendingInv(t, n)

-----------------------------------------------------------------------------
(* Statements and types.                                                   *)

LEMMA StatementFacts ==
  ASSUME NEW s \in Statements
  PROVE  /\ s.kind \in Reads \cup Changes /\ s.name \in Names /\ s.to \in Names
         /\ NamesOf(s) \subseteq Names /\ s.name \in NamesOf(s) /\ s.to \in NamesOf(s)
         /\ s.kind \in Changes => NamesOf(s) = {s.name, s.to}
         /\ s.kind = "rename" <=> s.name # s.to
         /\ s.kind # "none"
BY DEF Statements, NamesOf, Reads, Changes

\* A CREATE TABLE AS of a table that exists becomes a CREATE TABLE of the same table.
LEMMA BecomesCreate ==
  ASSUME TypeOK, NEW t \in Threads, stmt[t] \in Statements, stmt[t].kind = "ctas",
         stmt' = [stmt EXCEPT ![t].kind = "create"]
  PROVE  /\ stmt'[t] \in Statements /\ stmt'[t].kind = "create"
         /\ stmt'[t].name = stmt[t].name /\ stmt'[t].to = stmt[t].to
         /\ NamesOf(stmt'[t]) = NamesOf(stmt[t])
         /\ \A u \in Threads : u # t => stmt'[u] = stmt[u]
         /\ stmt' \in [Threads -> Statements \cup {NoStatement}]
<1>1. stmt' = [stmt EXCEPT ![t] = [stmt[t] EXCEPT !.kind = "create"]]
  OBVIOUS
<1>2. /\ stmt[t] \in [kind : Reads \cup Changes, name : Names, to : Names]
      /\ stmt[t].name = stmt[t].to
  BY DEF Statements
<1>3. [stmt[t] EXCEPT !.kind = "create"] \in Statements
  BY <1>2 DEF Statements, Changes
<1>4. stmt'[t] = [stmt[t] EXCEPT !.kind = "create"] /\ \A u \in Threads : u # t => stmt'[u] = stmt[u]
  BY <1>1 DEF TypeOK
<1>5. stmt'[t].kind = "create" /\ stmt'[t].name = stmt[t].name /\ stmt'[t].to = stmt[t].to
  BY <1>2, <1>4
<1>6. NamesOf(stmt'[t]) = NamesOf(stmt[t])
  BY <1>5 DEF NamesOf
<1>7. stmt' \in [Threads -> Statements \cup {NoStatement}]
  BY <1>1, <1>3 DEF TypeOK
<1> QED BY <1>3, <1>4, <1>5, <1>6, <1>7

\* The heap: what is free is an address nobody owns or points to.
LEMMA FreeFacts ==
  ASSUME NEW new \in Free
  PROVE  /\ new \in Objects /\ new # NoObject /\ new \notin Entries
         /\ \A t \in Threads : new \notin temporary[t] /\ new \notin held[t]
         /\ \A n \in Names : entries[n] # new
BY NoObjectAssumption DEF Free, Owned, Entries

LEMMA EntriesAreObjects ==
  ASSUME TypeOK
  PROVE  /\ Entries \subseteq Objects
         /\ \A n \in Names : entries[n] # NoObject => entries[n] \in Entries
BY DEF TypeOK, Entries

LEMMA InitTableSetInv == Init => TableSetInv
<1> SUFFICES ASSUME Init PROVE TableSetInv
  OBVIOUS
<1>1. TypeOK
  <2>1. /\ 0 \in 0 .. MaxVersion /\ 1 \in 0 .. MaxVersion /\ 1 \in 1 .. MaxVersion
    BY MaxVersionAssumption
  <2>2. /\ server \in [Names -> 0 .. MaxVersion] /\ version \in [Names -> 0 .. MaxVersion]
        /\ clock \in 1 .. MaxVersion
        /\ listing \in [Threads -> [Names -> 0 .. MaxVersion]]
        /\ answer \in [Threads -> 0 .. MaxVersion]
    BY <2>1 DEF Init
  <2>3. /\ entries \in [Names -> Objects \cup {NoObject}] /\ lock \in Threads \cup {NoThread}
        /\ stmt \in [Threads -> Statements \cup {NoStatement}] /\ pc \in [Threads -> Places]
        /\ held \in [Threads -> SUBSET Objects] /\ temporary \in [Threads -> SUBSET Objects]
        /\ unsure \subseteq Names /\ exposed \subseteq Threads
    BY DEF Init, Places
  <2>4. is_loaded \in BOOLEAN /\ partial \in BOOLEAN /\ torn \in BOOLEAN
    BY DEF Init
  <2> QED BY <2>2, <2>3, <2>4 DEF TypeOK
<1>2. TemporaryEntriesPrivate /\ LoadInv /\ OverlapInv /\ TornInv
  BY DEF Init, TemporaryEntriesPrivate, LoadInv, OverlapInv, Overlapping, Loading, TornInv
<1>3. ASSUME NEW t \in Threads PROVE StmtInv(t) /\ LockInv(t) /\ HeldInv(t) /\ AlterInv(t)
  BY DEF Init, StmtInv, LockInv, HeldInv, AlterInv
<1>4. ASSUME NEW n \in Names PROVE EntryInv(n) /\ \A t \in Threads : PendingInv(t, n)
  BY DEF Init, EntryInv, PendingInv, Pending
<1> QED BY <1>1, <1>2, <1>3, <1>4 DEF TableSetInv

\* Every variable keeps its type.
LEMMA NextTypeOK == TableSetInv /\ [Next]_vars => TypeOK'
<1> SUFFICES ASSUME TableSetInv, [Next]_vars PROVE TypeOK'
  OBVIOUS
<1>0. TypeOK /\ \A t \in Threads : StmtInv(t)
  BY DEF TableSetInv
<1>a. 0 \in 0 .. MaxVersion
  BY MaxVersionAssumption
<1> USE <1>0, <1>a DEF TypeOK, Places, set, remote, ghost
<1>1. ASSUME NEW t \in Threads, NEW s \in Statements, Begin(t, s) PROVE TypeOK'
  <2>1. unsure' \subseteq Names
    <3>1. \A u \in Threads : Together(s, u) \subseteq Names
      BY StatementFacts DEF Together, Overlap, StmtInv
    <3> QED BY <1>1, <3>1 DEF Begin
  <2> QED BY <1>1, <2>1 DEF Begin
<1>2. ASSUME NEW t \in Threads, Lock(t) PROVE TypeOK'
  BY <1>2 DEF Lock, Use
<1>3. ASSUME NEW t \in Threads, List(t) PROVE TypeOK'
  BY <1>3 DEF List, Use
<1>4. ASSUME NEW t \in Threads, Loaded(t) PROVE TypeOK'
  BY <1>4 DEF Loaded
<1>5. ASSUME NEW t \in Threads, LoadFails(t) PROVE TypeOK'
  <2>1. listing' \in [Threads -> [Names -> 0 .. MaxVersion]]
    BY <1>5 DEF LoadFails
  <2> QED BY <1>5, <2>1 DEF LoadFails, End
<1>6. ASSUME NEW t \in Threads, Find(t) PROVE TypeOK'
  <2>1. stmt[t] \in Statements
    BY <1>6 DEF Find, StmtInv
  <2>2. stmt' \in [Threads -> Statements \cup {NoStatement}]
    BY SMTT(30), <1>6, <2>1, BecomesCreate DEF Find, End
  <2>3. held' \in [Threads -> SUBSET Objects]
    <3>1. /\ stmt[t].name \in Names /\ Entries \subseteq Objects
          /\ entries[stmt[t].name] # NoObject => entries[stmt[t].name] \in Objects
      BY <2>1, StatementFacts, EntriesAreObjects
    <3>2. \E h \in SUBSET Objects : held' = [held EXCEPT ![t] = h]
      BY <1>6, <3>1 DEF Find, End
    <3> QED BY <3>2
  <2>4. pc' \in [Threads -> Places] /\ answer' \in [Threads -> 0 .. MaxVersion] /\ exposed' \subseteq Threads
    BY <1>6 DEF Find, End
  <2>5. UNCHANGED <<entries, is_loaded, version, torn, server, clock, listing, temporary, unsure, partial>>
        /\ lock' = NoThread
    BY <1>6 DEF Find
  <2> QED BY <2>2, <2>3, <2>4, <2>5
<1>7. ASSUME NEW t \in Threads, Serve(t) PROVE TypeOK'
  <2>1. stmt[t] \in Statements /\ stmt[t].to \in Names
    BY <1>7, StatementFacts DEF Serve, StmtInv
  <2>2. clock' \in 1 .. MaxVersion
    BY <1>7, MaxVersionAssumption DEF Serve
  <2>3. Renews(stmt[t]) => clock + 1 \in 0 .. MaxVersion
    BY <1>7, MaxVersionAssumption DEF Serve
  <2>4. server' \in [Names -> 0 .. MaxVersion]
    BY <1>7, <2>3 DEF Serve
  <2>5. answer' \in [Threads -> 0 .. MaxVersion]
    BY <1>7, <2>1, <2>4 DEF Serve
  <2> QED BY <1>7, <2>2, <2>4, <2>5 DEF Serve
<1>8. ASSUME NEW t \in Threads, CallFails(t) PROVE TypeOK'
  <2>1. unsure' \subseteq Names
    BY <1>8, StatementFacts DEF CallFails, StmtInv
  <2> QED BY <1>8, <2>1 DEF CallFails, End
<1>9. ASSUME NEW t \in Threads, NEW new \in Free, InsertListed(t, new) PROVE TypeOK'
  <2>1. new \in Objects
    BY FreeFacts
  <2>2. PICK n \in Names :
          /\ listing' = [listing EXCEPT ![t][n] = 0]
          /\ IF entries[n] # NoObject THEN UNCHANGED <<entries, version>>
             ELSE /\ entries' = [entries EXCEPT ![n] = new]
                  /\ version' = [version EXCEPT ![n] = listing[t][n]]
    BY <1>9 DEF InsertListed
  <2> QED BY SMTT(30), <1>9, <2>1, <2>2 DEF InsertListed
<1>10. ASSUME NEW t \in Threads, NEW new \in Free, CreateEntry(t, new) PROVE TypeOK'
  <2>1. new \in Objects
    BY FreeFacts
  <2>2. entries' \in [Names -> Objects \cup {NoObject}] /\ version' \in [Names -> 0 .. MaxVersion]
    <3>1. \/ /\ entries' = [entries EXCEPT ![stmt[t].name] = new]
             /\ version' = [version EXCEPT ![stmt[t].name] = answer[t]]
          \/ UNCHANGED <<entries, version>>
      BY <1>10 DEF CreateEntry
    <3> QED BY <2>1, <3>1
  <2>3. UNCHANGED <<is_loaded, lock, torn, server, clock, listing, temporary, unsure, partial>>
    BY <1>10 DEF CreateEntry
  <2>4. CASE stmt[t].kind = "create"
    <3>1. End(t)
      BY <1>10, <2>4 DEF CreateEntry
    <3> QED BY <2>2, <2>3, <3>1 DEF End
  <2>5. CASE stmt[t].kind # "create"
    <3>1. /\ pc' = [pc EXCEPT ![t] = "using"] /\ held' = [held EXCEPT ![t] = {new}]
          /\ UNCHANGED <<stmt, answer, exposed>>
      BY <1>10, <2>5 DEF CreateEntry
    <3> QED BY <2>1, <2>2, <2>3, <3>1
  <2> QED BY <2>4, <2>5
<1>11. ASSUME NEW t \in Threads, NEW new \in Free, ReplaceEntry(t, new) PROVE TypeOK'
  <2>1. new \in Objects
    BY FreeFacts
  <2>2. entries' \in [Names -> Objects \cup {NoObject}] /\ version' \in [Names -> 0 .. MaxVersion]
    <3> DEFINE Here(n) == n = stmt[t].to /\ (n = stmt[t].name \/ entries[n] = NoObject)
    <3>1. \/ UNCHANGED <<entries, version>>
          \/ /\ entries' = [n \in Names |-> IF Here(n) THEN new ELSE IF n = stmt[t].name THEN NoObject ELSE entries[n]]
             /\ version' = [n \in Names |-> IF Here(n) THEN answer[t] ELSE IF n = stmt[t].name THEN 0 ELSE version[n]]
      BY <1>11 DEF ReplaceEntry
    <3>2. CASE UNCHANGED <<entries, version>>
      BY <3>2
    <3>3. CASE ~UNCHANGED <<entries, version>>
      <4>1. entries' \in [Names -> Objects \cup {NoObject}]
        BY <2>1, <3>1, <3>3
      <4>2. version' \in [Names -> 0 .. MaxVersion]
        BY <3>1, <3>3
      <4> QED BY <4>1, <4>2
    <3> QED BY <3>2, <3>3
  <2>3. torn' \in BOOLEAN /\ unsure' \subseteq Names
    BY <1>11 DEF ReplaceEntry, Use
  <2>4. End(t) /\ UNCHANGED <<is_loaded, lock, remote, listing, temporary, partial>>
    BY <1>11 DEF ReplaceEntry
  <2>5. pc' \in [Threads -> Places] /\ held' \in [Threads -> SUBSET Objects] /\ answer' \in [Threads -> 0 .. MaxVersion]
    BY <2>4 DEF End
  <2>6. stmt' \in [Threads -> Statements \cup {NoStatement}] /\ exposed' \subseteq Threads
    BY <2>4 DEF End
  <2> QED BY <2>2, <2>3, <2>4, <2>5, <2>6
<1>12. ASSUME NEW t \in Threads, NEW new \in Free, KeepTemporary(t, new) PROVE TypeOK'
  <2>1. new \in Objects
    BY FreeFacts
  <2> QED BY <1>12, <2>1 DEF KeepTemporary
<1>13. ASSUME NEW t \in Threads, DropEntry(t) PROVE TypeOK'
  BY <1>13 DEF DropEntry, End, Answered, Use
<1>14. ASSUME NEW t \in Threads, EndStatement(t) PROVE TypeOK'
  BY <1>14 DEF EndStatement, End
<1>15. ASSUME NEW t \in Threads, EndTransaction(t) PROVE TypeOK'
  BY <1>15 DEF EndTransaction
<1>16. CASE UNCHANGED vars
  BY <1>16 DEF vars, set, remote, ghost
<1>17. ASSUME NEW t \in Threads, EnterMap(t) PROVE TypeOK'
  BY <1>17 DEF EnterMap, Use
<1>18. CASE LoseEntry
  BY <1>18 DEF LoseEntry
<1> QED
  BY <1>1, <1>2, <1>3, <1>4, <1>5, <1>6, <1>7, <1>8, <1>9, <1>10, <1>11, <1>12, <1>13, <1>14,
     <1>15, <1>16, <1>17, <1>18 DEF Next, Step

\* A connection has a statement while it is not idle.
LEMMA StmtStep ==
  ASSUME TableSetInv, [Next]_vars, NEW u \in Threads
  PROVE  StmtInv(u)'
<1>0. TypeOK /\ StmtInv(u)
  BY DEF TableSetInv
<1> USE <1>0 DEF TypeOK, StmtInv
<1>1. ASSUME NEW t \in Threads, NEW s \in Statements, Begin(t, s) PROVE StmtInv(u)'
  BY <1>1 DEF Begin
<1>2. ASSUME NEW t \in Threads, Lock(t) PROVE StmtInv(u)'
  BY <1>2 DEF Lock
<1>3. ASSUME NEW t \in Threads, List(t) PROVE StmtInv(u)'
  BY <1>3 DEF List
<1>4. ASSUME NEW t \in Threads, Loaded(t) PROVE StmtInv(u)'
  BY <1>4 DEF Loaded
<1>5. ASSUME NEW t \in Threads, LoadFails(t) PROVE StmtInv(u)'
  BY <1>5 DEF LoadFails, End, Loading
<1>6. ASSUME NEW t \in Threads, Find(t) PROVE StmtInv(u)'
  <2>1. stmt[t] \in Statements
    BY <1>6 DEF Find, TableSetInv
  <2> QED BY SMTT(30), <1>6, <2>1, BecomesCreate DEF Find, End
<1>7. ASSUME NEW t \in Threads, Serve(t) PROVE StmtInv(u)'
  BY <1>7 DEF Serve
<1>8. ASSUME NEW t \in Threads, CallFails(t) PROVE StmtInv(u)'
  BY <1>8 DEF CallFails, End
<1>9. ASSUME NEW t \in Threads, NEW new \in Free, InsertListed(t, new) PROVE StmtInv(u)'
  BY <1>9 DEF InsertListed
<1>10. ASSUME NEW t \in Threads, NEW new \in Free, CreateEntry(t, new) PROVE StmtInv(u)'
  BY <1>10 DEF CreateEntry, End, Answered
<1>11. ASSUME NEW t \in Threads, NEW new \in Free, ReplaceEntry(t, new) PROVE StmtInv(u)'
  BY <1>11 DEF ReplaceEntry, End, Answered
<1>12. ASSUME NEW t \in Threads, NEW new \in Free, KeepTemporary(t, new) PROVE StmtInv(u)'
  BY <1>12 DEF KeepTemporary, Answered
<1>13. ASSUME NEW t \in Threads, DropEntry(t) PROVE StmtInv(u)'
  BY <1>13 DEF DropEntry, End, Answered
<1>14. ASSUME NEW t \in Threads, EndStatement(t) PROVE StmtInv(u)'
  BY <1>14 DEF EndStatement, End
<1>15. ASSUME NEW t \in Threads, EndTransaction(t) PROVE StmtInv(u)'
  BY <1>15 DEF EndTransaction
<1>16. CASE UNCHANGED vars
  BY <1>16 DEF vars, set, remote, ghost
<1>17. ASSUME NEW t \in Threads, EnterMap(t) PROVE StmtInv(u)'
  BY <1>17 DEF EnterMap, Answered
<1>18. CASE LoseEntry
  BY <1>18 DEF LoseEntry
<1> QED
  BY <1>1, <1>2, <1>3, <1>4, <1>5, <1>6, <1>7, <1>8, <1>9, <1>10, <1>11, <1>12, <1>13, <1>14,
     <1>15, <1>16, <1>17, <1>18 DEF Next, Step

\* The lock, and what may run while the set is loaded.
LEMMA LockStep ==
  ASSUME TableSetInv, [Next]_vars
  PROVE  LoadInv' /\ \A u \in Threads : LockInv(u)'
<1>0. TypeOK /\ LoadInv /\ \A u \in Threads : LockInv(u) /\ StmtInv(u)
  BY DEF TableSetInv
<1> DEFINE Goal == LoadInv' /\ \A u \in Threads : LockInv(u)'
<1> USE <1>0, NoThreadAssumption DEF TypeOK, LoadInv, LockInv, Loading, set, remote, ghost
<1>1. ASSUME NEW t \in Threads, NEW s \in Statements, Begin(t, s) PROVE Goal
  BY <1>1 DEF Begin
<1>2. ASSUME NEW t \in Threads, Lock(t) PROVE Goal
  BY <1>2 DEF Lock
<1>3. ASSUME NEW t \in Threads, List(t) PROVE Goal
  BY <1>3 DEF List
<1>4. ASSUME NEW t \in Threads, Loaded(t) PROVE Goal
  BY <1>4 DEF Loaded
<1>5. ASSUME NEW t \in Threads, LoadFails(t) PROVE Goal
  BY <1>5 DEF LoadFails, End, Loading
<1>6. ASSUME NEW t \in Threads, Find(t) PROVE Goal
  <2>1. stmt[t] \in Statements /\ lock = t /\ is_loaded
    BY <1>6 DEF Find, StmtInv
  <2>2. \A u \in Threads : ~Loading(u)
    BY <1>6, <2>1 DEF Find
  <2>3. \A u \in Threads : u # t => pc'[u] = pc[u] /\ stmt'[u] = stmt[u]
    BY <1>6, <2>1, BecomesCreate DEF Find, End
  <2>4. pc'[t] \in {"idle", "using", "request"} /\ lock' = NoThread /\ is_loaded' = is_loaded
    BY <1>6 DEF Find, End
  <2> QED BY <2>1, <2>2, <2>3, <2>4
<1>7. ASSUME NEW t \in Threads, Serve(t) PROVE Goal
  BY <1>7 DEF Serve
<1>8. ASSUME NEW t \in Threads, CallFails(t) PROVE Goal
  BY <1>8 DEF CallFails, End
<1>9. ASSUME NEW t \in Threads, NEW new \in Free, InsertListed(t, new) PROVE Goal
  BY <1>9 DEF InsertListed
<1>10. ASSUME NEW t \in Threads, NEW new \in Free, CreateEntry(t, new) PROVE Goal
  <2>1. pc[t] = "entering" /\ UNCHANGED <<is_loaded, lock>>
    BY <1>10 DEF CreateEntry
  <2>2. CASE stmt[t].kind = "create"
    <3>1. End(t)
      BY <1>10, <2>2 DEF CreateEntry
    <3> QED BY <2>1, <3>1 DEF End
  <2>3. CASE stmt[t].kind # "create"
    <3>1. pc' = [pc EXCEPT ![t] = "using"] /\ stmt' = stmt
      BY <1>10, <2>3 DEF CreateEntry
    <3>2. is_loaded /\ \A u \in Threads : ~Loading(u)
      BY <2>1, <2>3
    <3> QED BY <2>1, <3>1, <3>2
  <2> QED BY <2>2, <2>3
<1>11. ASSUME NEW t \in Threads, NEW new \in Free, ReplaceEntry(t, new) PROVE Goal
  BY <1>11 DEF ReplaceEntry, End, Answered
<1>12. ASSUME NEW t \in Threads, NEW new \in Free, KeepTemporary(t, new) PROVE Goal
  BY <1>12 DEF KeepTemporary, Answered
<1>13. ASSUME NEW t \in Threads, DropEntry(t) PROVE Goal
  BY <1>13 DEF DropEntry, End, Answered
<1>14. ASSUME NEW t \in Threads, EndStatement(t) PROVE Goal
  BY <1>14 DEF EndStatement, End
<1>15. ASSUME NEW t \in Threads, EndTransaction(t) PROVE Goal
  BY <1>15 DEF EndTransaction
<1>16. CASE UNCHANGED vars
  BY <1>16 DEF vars, set, remote, ghost
<1>17. ASSUME NEW t \in Threads, EnterMap(t) PROVE Goal
  BY <1>17 DEF EnterMap, Answered
<1>18. CASE LoseEntry
  BY <1>18 DEF LoseEntry
<1> QED
  BY <1>1, <1>2, <1>3, <1>4, <1>5, <1>6, <1>7, <1>8, <1>9, <1>10, <1>11, <1>12, <1>13, <1>14,
     <1>15, <1>16, <1>17, <1>18 DEF Next, Step

-----------------------------------------------------------------------------
(* What a statement keeps: its names and whether it changes them.          *)

\* The statement of v is over, or it goes on with the same names.
Goes(v) ==
  \/ pc'[v] = "idle"
  \/ /\ pc[v] # "idle" /\ NamesOf(stmt'[v]) = NamesOf(stmt[v])
     /\ stmt'[v].kind \in Changes <=> stmt[v].kind \in Changes
     /\ v \in exposed => v \in exposed'

\* Only the beginning of a statement makes statements overlap.
LEMMA StatementsGoOn ==
  ASSUME TableSetInv, [Next]_vars
  PROVE  /\ unsure \subseteq unsure'
         /\ (\E t \in Threads, s \in Statements : Begin(t, s)) \/ (\A v \in Threads : Goes(v))
<1>0. TypeOK /\ \A v \in Threads : StmtInv(v)
  BY DEF TableSetInv
<1> DEFINE Goal == /\ unsure \subseteq unsure'
                   /\ (\E t \in Threads, s \in Statements : Begin(t, s)) \/ (\A v \in Threads : Goes(v))
<1> USE <1>0 DEF TypeOK, set, remote, ghost
<1>1. ASSUME NEW t \in Threads, NEW s \in Statements, Begin(t, s) PROVE Goal
  BY <1>1 DEF Begin
<1>2. ASSUME NEW t \in Threads, Lock(t) PROVE Goal
  <2>1. unsure \subseteq unsure' /\ \A v \in Threads : v # t => pc'[v] = pc[v] /\ stmt'[v] = stmt[v] /\ (v \in exposed => v \in exposed')
    BY <1>2 DEF Lock, Use
  <2>2. Goes(t)
    BY <1>2 DEF Goes, Lock
  <2>3. \A v \in Threads : v # t => Goes(v)
    BY <2>1 DEF Goes
  <2> QED BY <2>1, <2>2, <2>3
<1>3. ASSUME NEW t \in Threads, List(t) PROVE Goal
  <2>1. unsure \subseteq unsure' /\ \A v \in Threads : v # t => pc'[v] = pc[v] /\ stmt'[v] = stmt[v] /\ (v \in exposed => v \in exposed')
    BY <1>3 DEF List, Use
  <2>2. Goes(t)
    BY <1>3 DEF Goes, List
  <2>3. \A v \in Threads : v # t => Goes(v)
    BY <2>1 DEF Goes
  <2> QED BY <2>1, <2>2, <2>3
<1>4. ASSUME NEW t \in Threads, Loaded(t) PROVE Goal
  <2>1. unsure \subseteq unsure' /\ \A v \in Threads : v # t => pc'[v] = pc[v] /\ stmt'[v] = stmt[v] /\ (v \in exposed => v \in exposed')
    BY <1>4 DEF Loaded
  <2>2. Goes(t)
    BY <1>4 DEF Goes, Loaded
  <2>3. \A v \in Threads : v # t => Goes(v)
    BY <2>1 DEF Goes
  <2> QED BY <2>1, <2>2, <2>3
<1>5. ASSUME NEW t \in Threads, LoadFails(t) PROVE Goal
  <2>1. unsure \subseteq unsure' /\ \A v \in Threads : v # t => pc'[v] = pc[v] /\ stmt'[v] = stmt[v] /\ (v \in exposed => v \in exposed')
    BY <1>5 DEF LoadFails, End, Loading
  <2>2. Goes(t)
    BY <1>5 DEF Goes, LoadFails, End, Loading
  <2>3. \A v \in Threads : v # t => Goes(v)
    BY <2>1 DEF Goes
  <2> QED BY <2>1, <2>2, <2>3
<1>6. ASSUME NEW t \in Threads, Find(t) PROVE Goal
  <2>1. stmt[t] \in Statements
    BY <1>6 DEF Find, StmtInv
  <2>2. \A v \in Threads : v # t => pc'[v] = pc[v] /\ stmt'[v] = stmt[v] /\ (v \in exposed => v \in exposed')
    BY <1>6, <2>1, BecomesCreate DEF Find, End
  <2>3. Goes(t)
    BY <1>6, <2>1, BecomesCreate DEF Goes, Find, End, Changes
  <2>4. \A v \in Threads : v # t => Goes(v)
    BY <2>2 DEF Goes
  <2>5. unsure' = unsure
    BY <1>6 DEF Find
  <2> QED BY <2>3, <2>4, <2>5
<1>7. ASSUME NEW t \in Threads, Serve(t) PROVE Goal
  <2>1. unsure \subseteq unsure' /\ \A v \in Threads : v # t => pc'[v] = pc[v] /\ stmt'[v] = stmt[v] /\ (v \in exposed => v \in exposed')
    BY <1>7 DEF Serve
  <2>2. Goes(t)
    BY <1>7 DEF Goes, Serve
  <2>3. \A v \in Threads : v # t => Goes(v)
    BY <2>1 DEF Goes
  <2> QED BY <2>1, <2>2, <2>3
<1>8. ASSUME NEW t \in Threads, CallFails(t) PROVE Goal
  <2>1. unsure \subseteq unsure' /\ \A v \in Threads : v # t => pc'[v] = pc[v] /\ stmt'[v] = stmt[v] /\ (v \in exposed => v \in exposed')
    BY <1>8 DEF CallFails, End
  <2>2. Goes(t)
    BY <1>8 DEF Goes, CallFails, End
  <2>3. \A v \in Threads : v # t => Goes(v)
    BY <2>1 DEF Goes
  <2> QED BY <2>1, <2>2, <2>3
<1>9. ASSUME NEW t \in Threads, NEW new \in Free, InsertListed(t, new) PROVE Goal
  <2>1. unsure \subseteq unsure' /\ \A v \in Threads : v # t => pc'[v] = pc[v] /\ stmt'[v] = stmt[v] /\ (v \in exposed => v \in exposed')
    BY <1>9 DEF InsertListed
  <2>2. Goes(t)
    BY <1>9 DEF Goes, InsertListed
  <2>3. \A v \in Threads : v # t => Goes(v)
    BY <2>1 DEF Goes
  <2> QED BY <2>1, <2>2, <2>3
<1>10. ASSUME NEW t \in Threads, NEW new \in Free, CreateEntry(t, new) PROVE Goal
  <2>0. pc[t] = "entering" /\ unsure \subseteq unsure'
    BY <1>10 DEF CreateEntry
  <2>1. CASE stmt[t].kind = "create"
    <3>1. End(t)
      BY <1>10, <2>1 DEF CreateEntry
    <3> QED BY <2>0, <3>1 DEF End, Goes
  <2>2. CASE stmt[t].kind # "create"
    <3>1. pc' = [pc EXCEPT ![t] = "using"] /\ stmt' = stmt /\ exposed \subseteq exposed'
      BY <1>10, <2>2 DEF CreateEntry
    <3> QED BY <2>0, <3>1 DEF Goes
  <2> QED BY <2>1, <2>2
<1>11. ASSUME NEW t \in Threads, NEW new \in Free, ReplaceEntry(t, new) PROVE Goal
  <2>1. unsure \subseteq unsure' /\ \A v \in Threads : v # t => pc'[v] = pc[v] /\ stmt'[v] = stmt[v] /\ (v \in exposed => v \in exposed')
    BY <1>11 DEF ReplaceEntry, End, Answered, Use
  <2>2. Goes(t)
    BY <1>11 DEF Goes, ReplaceEntry, End, Answered
  <2>3. \A v \in Threads : v # t => Goes(v)
    BY <2>1 DEF Goes
  <2> QED BY <2>1, <2>2, <2>3
<1>12. ASSUME NEW t \in Threads, NEW new \in Free, KeepTemporary(t, new) PROVE Goal
  <2>1. unsure \subseteq unsure' /\ \A v \in Threads : v # t => pc'[v] = pc[v] /\ stmt'[v] = stmt[v] /\ (v \in exposed => v \in exposed')
    BY <1>12 DEF KeepTemporary, Answered
  <2>2. Goes(t)
    BY <1>12 DEF Goes, KeepTemporary, Answered
  <2>3. \A v \in Threads : v # t => Goes(v)
    BY <2>1 DEF Goes
  <2> QED BY <2>1, <2>2, <2>3
<1>13. ASSUME NEW t \in Threads, DropEntry(t) PROVE Goal
  <2>1. unsure \subseteq unsure' /\ \A v \in Threads : v # t => pc'[v] = pc[v] /\ stmt'[v] = stmt[v] /\ (v \in exposed => v \in exposed')
    BY <1>13 DEF DropEntry, End, Answered, Use
  <2>2. Goes(t)
    BY <1>13 DEF Goes, DropEntry, End, Answered
  <2>3. \A v \in Threads : v # t => Goes(v)
    BY <2>1 DEF Goes
  <2> QED BY <2>1, <2>2, <2>3
<1>14. ASSUME NEW t \in Threads, EndStatement(t) PROVE Goal
  <2>1. unsure \subseteq unsure' /\ \A v \in Threads : v # t => pc'[v] = pc[v] /\ stmt'[v] = stmt[v] /\ (v \in exposed => v \in exposed')
    BY <1>14 DEF EndStatement, End
  <2>2. Goes(t)
    BY <1>14 DEF Goes, EndStatement, End
  <2>3. \A v \in Threads : v # t => Goes(v)
    BY <2>1 DEF Goes
  <2> QED BY <2>1, <2>2, <2>3
<1>15. ASSUME NEW t \in Threads, EndTransaction(t) PROVE Goal
  <2>1. unsure \subseteq unsure' /\ \A v \in Threads : v # t => pc'[v] = pc[v] /\ stmt'[v] = stmt[v] /\ (v \in exposed => v \in exposed')
    BY <1>15 DEF EndTransaction
  <2>2. Goes(t)
    BY <1>15 DEF Goes, EndTransaction
  <2>3. \A v \in Threads : v # t => Goes(v)
    BY <2>1 DEF Goes
  <2> QED BY <2>1, <2>2, <2>3
<1>16. CASE UNCHANGED vars
  BY <1>16 DEF vars, Goes
<1>17. ASSUME NEW t \in Threads, EnterMap(t) PROVE Goal
  <2>1. unsure \subseteq unsure' /\ \A v \in Threads : v # t => pc'[v] = pc[v] /\ stmt'[v] = stmt[v] /\ (v \in exposed => v \in exposed')
    BY <1>17 DEF EnterMap, Use
  <2>2. Goes(t)
    BY <1>17 DEF Goes, EnterMap, Answered
  <2>3. \A v \in Threads : v # t => Goes(v)
    BY <2>1 DEF Goes
  <2> QED BY <2>1, <2>2, <2>3
<1>18. CASE LoseEntry
  BY <1>18 DEF LoseEntry, Goes
<1> QED
  BY <1>1, <1>2, <1>3, <1>4, <1>5, <1>6, <1>7, <1>8, <1>9, <1>10, <1>11, <1>12, <1>13, <1>14,
     <1>15, <1>16, <1>17, <1>18 DEF Next, Step

\* A torn map stays torn, and the step that tears it makes every name unsure.
LEMMA TornStep ==
  ASSUME TableSetInv, [Next]_vars
  PROVE  TornInv' /\ (torn => torn')
<1>1. TypeOK /\ TornInv /\ unsure \subseteq unsure'
  BY StatementsGoOn DEF TableSetInv
<1>2. torn' = torn \/ \E bad \in BOOLEAN : Use(bad)
  <2>1. ASSUME NEW t \in Threads, \E s \in Statements : Begin(t, s) PROVE torn' = torn
    BY <2>1 DEF Begin, set
  <2>2. ASSUME NEW t \in Threads, Lock(t) \/ List(t) \/ EnterMap(t) \/ DropEntry(t) \/ \E new \in Free : ReplaceEntry(t, new)
        PROVE  \E bad \in BOOLEAN : Use(bad)
    <3>1. \/ Use(is_loaded /\ SomeUnlocked) \/ Use(SomeUnlocked) \/ Use(\E u \in Threads \ {t} : InEntries(u))
      BY <2>2 DEF Lock, List, EnterMap, DropEntry, ReplaceEntry
    <3>2. /\ (is_loaded /\ SomeUnlocked) \in BOOLEAN /\ SomeUnlocked \in BOOLEAN
          /\ (\E u \in Threads \ {t} : InEntries(u)) \in BOOLEAN
      BY DEF SomeUnlocked
    <3> QED BY <3>1, <3>2
  <2>3. ASSUME NEW t \in Threads, Loaded(t) \/ LoadFails(t) \/ Find(t) \/ Serve(t) \/ CallFails(t)
        PROVE  torn' = torn
    BY <2>3 DEF Loaded, LoadFails, Find, Serve, CallFails, set
  <2>4. ASSUME NEW t \in Threads, NEW new \in Free, InsertListed(t, new) \/ CreateEntry(t, new) \/ KeepTemporary(t, new)
        PROVE  torn' = torn
    BY <2>4 DEF InsertListed, CreateEntry, KeepTemporary, set
  <2>5. ASSUME NEW t \in Threads, EndStatement(t) \/ EndTransaction(t) PROVE torn' = torn
    BY <2>5 DEF EndStatement, EndTransaction, set
  <2>6. CASE LoseEntry \/ UNCHANGED vars
    BY <2>6 DEF LoseEntry, vars, set
  <2> QED BY <2>1, <2>2, <2>3, <2>4, <2>5, <2>6 DEF Next, Step
<1> QED BY <1>1, <1>2 DEF TornInv, Use, TypeOK

\* Statements that a change overlaps with are exposed, and the names of two changes that
\* overlap are unsure.
LEMMA OverlapStep ==
  ASSUME TableSetInv, [Next]_vars
  PROVE  OverlapInv'
<1>0. TypeOK /\ OverlapInv /\ \A v \in Threads : StmtInv(v)
  BY DEF TableSetInv
<1>1. ASSUME NEW t \in Threads, NEW s \in Statements, Begin(t, s) PROVE OverlapInv'
  <2>1. /\ pc'[t] # "idle" /\ stmt'[t] = s /\ pc[t] = "idle"
        /\ \A v \in Threads : v # t => pc'[v] = pc[v] /\ stmt'[v] = stmt[v]
    BY <1>0, <1>1 DEF Begin, TypeOK
  <2>2. ASSUME NEW u \in Threads, NEW v \in Threads, u # v, Overlapping(u, v)'
        PROVE  u \in exposed' /\ (Changing(u)' => (NamesOf(stmt[u]) \cup NamesOf(stmt[v]))' \subseteq unsure')
    <3>1. CASE u # t /\ v # t
      <4>1. Overlapping(u, v) /\ Changing(u)' = Changing(u)
            /\ NamesOf(stmt[u])' = NamesOf(stmt[u]) /\ NamesOf(stmt[v])' = NamesOf(stmt[v])
        BY <2>1, <2>2, <3>1 DEF Overlapping, Changing, NamesOf
      <4>2. u \in exposed' <=> u \in exposed \/ (s.kind \in Changes /\ Overlap(s, u))
        BY <1>1, <3>1 DEF Begin
      <4>3. unsure \subseteq unsure'
        BY <1>1 DEF Begin
      <4> QED BY <1>0, <2>2, <4>1, <4>2, <4>3 DEF OverlapInv
    <3>2. CASE u = t
      <4>1. Changing(v) /\ Overlap(s, v) /\ NamesOf(stmt[u])' = NamesOf(s) /\ NamesOf(stmt[v])' = NamesOf(stmt[v])
        BY <2>1, <2>2, <3>2 DEF Overlapping, Changing, Overlap, NamesOf
      <4>2. u \in exposed'
        BY <1>1, <3>2, <4>1 DEF Begin
      <4>3. Changing(u)' => s.kind \in Changes
        BY <2>1, <3>2 DEF Changing
      <4>4. s.kind \in Changes => Together(s, v) \subseteq unsure'
        BY <1>1, <4>1 DEF Begin
      <4> QED BY <4>1, <4>2, <4>3, <4>4 DEF Together
    <3>3. CASE u # t /\ v = t
      <4>1. s.kind \in Changes /\ Overlap(s, u) /\ NamesOf(stmt[v])' = NamesOf(s)
            /\ NamesOf(stmt[u])' = NamesOf(stmt[u]) /\ Changing(u)' = Changing(u)
        BY <2>1, <2>2, <3>3 DEF Overlapping, Changing, Overlap, NamesOf
      <4>2. u \in exposed'
        BY <1>1, <3>3, <4>1 DEF Begin
      <4>3. Changing(u) => Together(s, u) \subseteq unsure'
        BY <1>1, <4>1 DEF Begin
      <4> QED BY <4>1, <4>2, <4>3 DEF Together
    <3> QED BY <3>1, <3>2, <3>3
  <2> QED BY <2>2 DEF OverlapInv
<1>2. CASE \A v \in Threads : Goes(v)
  <2>1. ASSUME NEW u \in Threads, NEW v \in Threads, u # v, Overlapping(u, v)'
        PROVE  u \in exposed' /\ (Changing(u)' => (NamesOf(stmt[u]) \cup NamesOf(stmt[v]))' \subseteq unsure')
    <3>1. pc'[u] # "idle" /\ pc'[v] # "idle" /\ stmt'[v].kind \in Changes
          /\ NamesOf(stmt'[u]) \cap NamesOf(stmt'[v]) # {}
      BY <2>1 DEF Overlapping, Changing, NamesOf
    <3>2. Overlapping(u, v) /\ (stmt'[u].kind \in Changes => Changing(u)) /\ (u \in exposed => u \in exposed')
          /\ NamesOf(stmt'[u]) = NamesOf(stmt[u]) /\ NamesOf(stmt'[v]) = NamesOf(stmt[v])
      BY <1>2, <3>1 DEF Goes, Overlapping, Changing
    <3>3. u \in exposed /\ (Changing(u) => NamesOf(stmt[u]) \cup NamesOf(stmt[v]) \subseteq unsure)
      BY <1>0, <2>1, <3>2 DEF OverlapInv
    <3>4. (NamesOf(stmt[u]) \cup NamesOf(stmt[v]))' = NamesOf(stmt'[u]) \cup NamesOf(stmt'[v])
      BY DEF NamesOf
    <3>5. Changing(u)' => stmt'[u].kind \in Changes
      BY DEF Changing
    <3> QED BY <3>2, <3>3, <3>4, <3>5, StatementsGoOn
  <2> QED BY <2>1 DEF OverlapInv
<1> QED BY <1>1, <1>2, StatementsGoOn

-----------------------------------------------------------------------------
(* Entries.                                                                *)

\* What a step makes of the entry of a name.
LEMMA InsertChanges ==
  ASSUME TypeOK, NEW t \in Threads, NEW new \in Free, InsertListed(t, new), NEW n \in Names
  PROVE  entries'[n] = entries[n] \/ (entries[n] = NoObject /\ entries'[n] = new)
<1>1. PICK m \in Names : IF entries[m] # NoObject THEN UNCHANGED <<entries, version>>
                          ELSE entries' = [entries EXCEPT ![m] = new]
  BY DEF InsertListed
<1> QED BY <1>1 DEF TypeOK

LEMMA CreateChanges ==
  ASSUME TypeOK, NEW t \in Threads, NEW new \in Free, CreateEntry(t, new), NEW n \in Names
  PROVE  entries'[n] = entries[n] \/ (entries[n] = NoObject /\ entries'[n] = new /\ n = stmt[t].name)
<1>1. \/ entries[stmt[t].name] = NoObject /\ entries' = [entries EXCEPT ![stmt[t].name] = new]
      \/ entries' = entries
  BY DEF CreateEntry
<1> QED BY <1>1 DEF TypeOK

LEMMA ReplaceChanges ==
  ASSUME TypeOK, NEW t \in Threads, StmtInv(t), NEW new \in Free, ReplaceEntry(t, new), NEW n \in Names
  PROVE  /\ entries'[n] \in {entries[n], new, NoObject}
         /\ n \notin NamesOf(stmt[t]) => entries'[n] = entries[n]
<1>1. stmt[t] \in Statements
  BY DEF ReplaceEntry, Answered, StmtInv
<1> QED BY <1>1, StatementFacts DEF ReplaceEntry, TypeOK

LEMMA DropChanges ==
  ASSUME TypeOK, NEW t \in Threads, StmtInv(t), DropEntry(t), NEW n \in Names
  PROVE  /\ entries'[n] \in {entries[n], NoObject}
         /\ n \notin NamesOf(stmt[t]) => entries'[n] = entries[n]
<1>1. stmt[t] \in Statements
  BY DEF DropEntry, Answered, StmtInv
<1>2. stmt[t].name \in NamesOf(stmt[t]) /\ entries' = [entries EXCEPT ![stmt[t].name] = NoObject]
  BY <1>1, StatementFacts DEF DropEntry
<1> QED BY <1>2 DEF TypeOK

\* The transactions' own entries stay their own: what enters the set was free.
LEMMA TempStep ==
  ASSUME TableSetInv, [Next]_vars
  PROVE  TemporaryEntriesPrivate'
<1>0. TypeOK /\ TemporaryEntriesPrivate /\ \A v \in Threads : StmtInv(v)
  BY DEF TableSetInv
<1>s. ASSUME temporary' = temporary, Entries' \subseteq Entries PROVE TemporaryEntriesPrivate'
  BY <1>0, <1>s DEF TemporaryEntriesPrivate
<1>n. ASSUME NEW new \in Free, temporary' = temporary, \A n \in Names : entries'[n] \in {entries[n], new, NoObject}
      PROVE  TemporaryEntriesPrivate'
  <2>1. Entries' \subseteq Entries \cup {new}
    BY <1>n DEF Entries
  <2> QED BY <1>0, <1>n, <2>1, FreeFacts DEF TemporaryEntriesPrivate
<1> DEFINE Goal == TemporaryEntriesPrivate'
<1> USE DEF set, remote, ghost
<1>1. ASSUME NEW t \in Threads, NEW s \in Statements, Begin(t, s) PROVE Goal
  BY <1>1, <1>s DEF Entries, Begin
<1>2. ASSUME NEW t \in Threads, Lock(t) PROVE Goal
  BY <1>2, <1>s DEF Entries, Lock
<1>3. ASSUME NEW t \in Threads, List(t) PROVE Goal
  BY <1>3, <1>s DEF Entries, List
<1>4. ASSUME NEW t \in Threads, Loaded(t) PROVE Goal
  BY <1>4, <1>s DEF Entries, Loaded
<1>5. ASSUME NEW t \in Threads, LoadFails(t) PROVE Goal
  BY <1>5, <1>s DEF Entries, LoadFails
<1>6. ASSUME NEW t \in Threads, Find(t) PROVE Goal
  BY <1>6, <1>s DEF Entries, Find
<1>7. ASSUME NEW t \in Threads, Serve(t) PROVE Goal
  BY <1>7, <1>s DEF Entries, Serve
<1>8. ASSUME NEW t \in Threads, CallFails(t) PROVE Goal
  BY <1>8, <1>s DEF Entries, CallFails
<1>9. ASSUME NEW t \in Threads, NEW new \in Free, InsertListed(t, new) PROVE Goal
  <2>1. temporary' = temporary
    BY <1>9 DEF InsertListed
  <2>2. \A n \in Names : entries'[n] \in {entries[n], new, NoObject}
    BY <1>9, <1>0, InsertChanges
  <2> QED BY <1>n, <2>1, <2>2
<1>10. ASSUME NEW t \in Threads, NEW new \in Free, CreateEntry(t, new) PROVE Goal
  BY <1>10, <1>0, <1>n, CreateChanges DEF CreateEntry
<1>11. ASSUME NEW t \in Threads, NEW new \in Free, ReplaceEntry(t, new) PROVE Goal
  BY <1>11, <1>0, <1>n, ReplaceChanges DEF ReplaceEntry
<1>12. ASSUME NEW t \in Threads, NEW new \in Free, KeepTemporary(t, new) PROVE Goal
  <2>1. Entries' = Entries /\ temporary' = [temporary EXCEPT ![t] = temporary[t] \cup {new}]
    BY <1>12 DEF KeepTemporary, Entries
  <2> QED BY <1>0, <2>1, FreeFacts DEF TemporaryEntriesPrivate, TypeOK
<1>13. ASSUME NEW t \in Threads, DropEntry(t) PROVE Goal
  <2>1. \A n \in Names : entries'[n] \in {entries[n], NoObject}
    BY <1>13, <1>0, DropChanges
  <2> QED BY <1>13, <2>1, <1>s DEF DropEntry, Entries
<1>14. ASSUME NEW t \in Threads, EndStatement(t) PROVE Goal
  BY <1>14, <1>s DEF Entries, EndStatement
<1>15. ASSUME NEW t \in Threads, EndTransaction(t) PROVE Goal
  <2>1. Entries' = Entries /\ temporary' = [temporary EXCEPT ![t] = {}]
    BY <1>15 DEF EndTransaction, Entries
  <2> QED BY <1>0, <2>1 DEF TemporaryEntriesPrivate, TypeOK
<1>16. CASE UNCHANGED vars
  BY <1>16, <1>s DEF Entries, vars
<1>17. ASSUME NEW t \in Threads, EnterMap(t) PROVE Goal
  BY <1>17, <1>s DEF Entries, EnterMap
<1>18. CASE LoseEntry
  <2>1. \A n \in Names : entries'[n] \in {entries[n], NoObject}
    BY <1>18, <1>0 DEF LoseEntry, TypeOK
  <2> QED BY <1>18, <2>1, <1>s DEF LoseEntry, Entries
<1> QED
  BY <1>1, <1>2, <1>3, <1>4, <1>5, <1>6, <1>7, <1>8, <1>9, <1>10, <1>11, <1>12, <1>13, <1>14,
     <1>15, <1>16, <1>17, <1>18 DEF Next, Step

\* Two changes of the same name make it unsure.
LEMMA OneChanger ==
  ASSUME TableSetInv, NEW t \in Threads, NEW u \in Threads, t # u, Changing(t), Changing(u), NEW n \in Names,
         n \in NamesOf(stmt[t]), n \in NamesOf(stmt[u])
  PROVE  NamesOf(stmt[t]) \subseteq unsure
BY DEF TableSetInv, OverlapInv, Overlapping, Changing

\* The entry of a table that is being altered stays, unless two changes overlap.
LEMMA AlterStep ==
  ASSUME TableSetInv, [Next]_vars, NEW u \in Threads
  PROVE  AlterInv(u)'
<1>0. TypeOK /\ AlterInv(u) /\ \A v \in Threads : StmtInv(v)
  BY DEF TableSetInv
<1> SUFFICES ASSUME pc'[u] \in {"request", "answered"}, stmt'[u].kind \in {"alter", "rename"}
             PROVE  entries'[stmt'[u].name] # NoObject \/ NamesOf(stmt'[u]) \subseteq unsure'
  BY DEF AlterInv, NamesOf
<1>a. ASSUME pc[u] \in {"request", "answered"}, stmt'[u] = stmt[u],
             entries[stmt[u].name] # NoObject => entries'[stmt[u].name] # NoObject \/ NamesOf(stmt[u]) \subseteq unsure
      PROVE  entries'[stmt'[u].name] # NoObject \/ NamesOf(stmt'[u]) \subseteq unsure'
  BY <1>0, <1>a, StatementsGoOn DEF AlterInv
<1>b. stmt[u].kind \in {"alter", "rename"} /\ pc[u] \in {"request", "answered"} =>
        /\ stmt[u].name \in Names /\ stmt[u].name \in NamesOf(stmt[u]) /\ Changing(u)
  BY <1>0, StatementFacts DEF StmtInv, Changing, Changes
<1> DEFINE Goal == entries'[stmt'[u].name] # NoObject \/ NamesOf(stmt'[u]) \subseteq unsure'
<1> USE DEF set, remote, ghost
<1>1. ASSUME NEW t \in Threads, NEW s \in Statements, Begin(t, s) PROVE Goal
  BY <1>1, <1>0, <1>a DEF TypeOK, Begin, Changes
<1>2. ASSUME NEW t \in Threads, Lock(t) PROVE Goal
  BY <1>2, <1>0, <1>a DEF TypeOK, Lock
<1>3. ASSUME NEW t \in Threads, List(t) PROVE Goal
  BY <1>3, <1>0, <1>a DEF TypeOK, List
<1>4. ASSUME NEW t \in Threads, Loaded(t) PROVE Goal
  BY <1>4, <1>0, <1>a DEF TypeOK, Loaded
<1>5. ASSUME NEW t \in Threads, LoadFails(t) PROVE Goal
  BY <1>5, <1>0, <1>a DEF TypeOK, LoadFails, End
<1>6. ASSUME NEW t \in Threads, Find(t) PROVE Goal
  <2>1. stmt[t] \in Statements
    BY <1>6, <1>0 DEF Find, StmtInv
  <2>2. CASE u = t
    <3>1. stmt'[u] = stmt[u] /\ entries[stmt[u].name] # NoObject /\ entries' = entries
      BY SMTT(30), <1>6, <1>0, <2>1, <2>2, BecomesCreate DEF TypeOK, Find, End
    <3> QED BY <3>1
  <2>3. CASE u # t
    <3>1. pc'[u] = pc[u] /\ stmt'[u] = stmt[u] /\ entries' = entries
      BY <1>6, <1>0, <2>1, <2>3, BecomesCreate DEF TypeOK, Find, End
    <3> QED BY <1>a, <3>1
  <2> QED BY <2>2, <2>3
<1>7. ASSUME NEW t \in Threads, Serve(t) PROVE Goal
  BY <1>7, <1>0, <1>a DEF TypeOK, Serve
<1>8. ASSUME NEW t \in Threads, CallFails(t) PROVE Goal
  BY <1>8, <1>0, <1>a DEF TypeOK, CallFails, End
<1>9. ASSUME NEW t \in Threads, NEW new \in Free, InsertListed(t, new) PROVE Goal
  <2>1. pc[u] \in {"request", "answered"} /\ stmt'[u] = stmt[u]
    BY <1>9 DEF InsertListed
  <2>2. new # NoObject
    BY FreeFacts
  <2>3. entries[stmt[u].name] # NoObject => entries'[stmt[u].name] # NoObject
    BY <1>9, <1>0, <1>b, <2>1, <2>2, InsertChanges
  <2> QED BY <1>a, <2>1, <2>3
<1>10. ASSUME NEW t \in Threads, NEW new \in Free, CreateEntry(t, new) PROVE Goal
  <2>1. pc[u] \in {"request", "answered"} /\ stmt'[u] = stmt[u]
    <3>1. CASE stmt[t].kind = "create"
      BY <1>10, <1>0, <3>1 DEF TypeOK, CreateEntry, End
    <3>2. CASE stmt[t].kind # "create"
      BY <1>10, <1>0, <3>2 DEF TypeOK, CreateEntry
    <3> QED BY <3>1, <3>2
  <2>2. new # NoObject
    BY FreeFacts
  <2>3. entries[stmt[u].name] # NoObject => entries'[stmt[u].name] # NoObject
    BY <1>10, <1>0, <1>b, <2>1, <2>2, CreateChanges
  <2> QED BY <1>a, <2>1, <2>3
<1>11. ASSUME NEW t \in Threads, NEW new \in Free, ReplaceEntry(t, new) PROVE Goal
  <2>1. pc[u] \in {"request", "answered"} /\ stmt'[u] = stmt[u] /\ u # t
    BY <1>11, <1>0 DEF TypeOK, ReplaceEntry, End
  <2>2. Changing(t)
    BY <1>11 DEF ReplaceEntry, Answered, Changing, Changes
  <2>3. CASE stmt[u].name \in NamesOf(stmt[t])
    BY <1>a, <1>b, <2>1, <2>2, <2>3, OneChanger
  <2>4. CASE stmt[u].name \notin NamesOf(stmt[t])
    <3>1. entries'[stmt[u].name] = entries[stmt[u].name]
      BY <1>11, <1>0, <1>b, <2>1, <2>4, ReplaceChanges
    <3> QED BY <1>a, <2>1, <3>1
  <2> QED BY <2>3, <2>4
<1>12. ASSUME NEW t \in Threads, NEW new \in Free, KeepTemporary(t, new) PROVE Goal
  BY <1>12, <1>0, <1>a DEF TypeOK, KeepTemporary
<1>13. ASSUME NEW t \in Threads, DropEntry(t) PROVE Goal
  <2>1. pc[u] \in {"request", "answered"} /\ stmt'[u] = stmt[u] /\ u # t
    BY <1>13, <1>0 DEF TypeOK, DropEntry, End
  <2>2. Changing(t)
    BY <1>13 DEF DropEntry, Answered, Changing, Changes
  <2>3. CASE stmt[u].name \in NamesOf(stmt[t])
    BY <1>a, <1>b, <2>1, <2>2, <2>3, OneChanger
  <2>4. CASE stmt[u].name \notin NamesOf(stmt[t])
    <3>1. entries'[stmt[u].name] = entries[stmt[u].name]
      BY <1>13, <1>0, <1>b, <2>1, <2>4, DropChanges
    <3> QED BY <1>a, <2>1, <3>1
  <2> QED BY <2>3, <2>4
<1>14. ASSUME NEW t \in Threads, EndStatement(t) PROVE Goal
  BY <1>14, <1>0, <1>a DEF TypeOK, EndStatement, End
<1>15. ASSUME NEW t \in Threads, EndTransaction(t) PROVE Goal
  BY <1>15, <1>0, <1>a DEF TypeOK, EndTransaction
<1>16. CASE UNCHANGED vars
  BY <1>16, <1>0, <1>a DEF TypeOK, vars
<1>17. ASSUME NEW t \in Threads, EnterMap(t) PROVE Goal
  BY <1>17, <1>0, <1>a DEF TypeOK, EnterMap
<1>18. CASE LoseEntry
  <2>1. torn /\ pc' = pc /\ stmt' = stmt /\ unsure' = unsure
    BY <1>18 DEF LoseEntry
  <2>2. NamesOf(stmt[u]) \subseteq Names
    BY <1>0, <2>1, StatementFacts DEF StmtInv
  <2> QED BY <2>1, <2>2 DEF TableSetInv, TornInv
<1> QED
  BY <1>1, <1>2, <1>3, <1>4, <1>5, <1>6, <1>7, <1>8, <1>9, <1>10, <1>11, <1>12, <1>13, <1>14,
     <1>15, <1>16, <1>17, <1>18 DEF Next, Step

\* A statement that no change overlaps with holds live entries of its own names.
LEMMA HeldStep ==
  ASSUME TableSetInv, [Next]_vars, NEW u \in Threads
  PROVE  HeldInv(u)'
<1> SUFFICES ASSUME ~torn', u \notin exposed', pc'[u] # "idle"
             PROVE  /\ held'[u] \subseteq temporary'[u] \cup {entries'[n] : n \in NamesOf(stmt'[u])}
                    /\ (pc'[u] \in {"request", "answered", "entering"} /\ stmt'[u].kind = "ctas") =>
                         entries'[stmt'[u].name] = NoObject
  BY DEF HeldInv, NamesOf
<1>0. TypeOK /\ ~torn /\ HeldInv(u) /\ LoadInv /\ OverlapInv /\ \A v \in Threads : StmtInv(v)
  BY TornStep DEF TableSetInv
<1> DEFINE Goal == /\ held'[u] \subseteq temporary'[u] \cup {entries'[n] : n \in NamesOf(stmt'[u])}
                   /\ (pc'[u] \in {"request", "answered", "entering"} /\ stmt'[u].kind = "ctas") =>
                        entries'[stmt'[u].name] = NoObject
\* The common case: the statement has kept its pointers, and its entries are still there.
<1>a. ASSUME pc[u] # "idle", u \notin exposed, stmt'[u] = stmt[u], held'[u] = held[u],
             temporary[u] \subseteq temporary'[u],
             \A n \in NamesOf(stmt[u]) : entries[n] # NoObject => entries'[n] = entries[n],
             (pc'[u] \in {"request", "answered", "entering"} /\ stmt[u].kind = "ctas") =>
               /\ pc[u] \in {"request", "answered", "entering"}
               /\ entries[stmt[u].name] = NoObject => entries'[stmt[u].name] = NoObject
      PROVE  Goal
  <2>1. held[u] \subseteq temporary[u] \cup {entries[n] : n \in NamesOf(stmt[u])} /\ NoObject \notin held[u]
    BY <1>0, <1>a, NoObjectAssumption DEF HeldInv, TypeOK
  <2>2. held'[u] \subseteq temporary'[u] \cup {entries'[n] : n \in NamesOf(stmt'[u])}
    BY <1>a, <2>1
  <2>3. (pc'[u] \in {"request", "answered", "entering"} /\ stmt'[u].kind = "ctas") => entries'[stmt'[u].name] = NoObject
    BY <1>0, <1>a DEF HeldInv
  <2> QED BY <2>2, <2>3
\* A change overlaps with the statements it shares a name with.
<1>b. ASSUME NEW t \in Threads, t # u, Changing(t), pc[u] # "idle", u \notin exposed
      PROVE  NamesOf(stmt[u]) \cap NamesOf(stmt[t]) = {}
  BY <1>0, <1>b DEF OverlapInv, Overlapping
<1>c. pc[u] # "idle" => stmt[u].name \in NamesOf(stmt[u]) /\ NamesOf(stmt[u]) \subseteq Names
  BY <1>0, StatementFacts DEF StmtInv
<1> USE DEF set, remote, ghost
<1>1. ASSUME NEW t \in Threads, NEW s \in Statements, Begin(t, s) PROVE Goal
  <2>1. CASE u = t
    <3>1. pc[t] = "idle" /\ held[u] = {} /\ held' = held
      BY <1>1, <1>0, <2>1 DEF Begin, StmtInv
    <3>2. ~(pc'[u] \in {"request", "answered", "entering"} /\ stmt'[u].kind = "ctas")
      BY <1>1, <1>0, <2>1 DEF Begin, TypeOK
    <3> QED BY <3>1, <3>2
  <2>2. CASE u # t
    <3>1. u \notin exposed
      BY <1>1, <2>2 DEF Begin
    <3>2. pc'[u] = pc[u] /\ stmt'[u] = stmt[u] /\ held' = held /\ temporary' = temporary /\ entries' = entries
      BY <1>1, <1>0, <2>2 DEF Begin, TypeOK
    <3> QED BY <1>a, <3>1, <3>2
  <2> QED BY <2>1, <2>2
<1>2. ASSUME NEW t \in Threads, Lock(t) PROVE Goal
  <2>1. pc[u] # "idle" /\ u \notin exposed /\ stmt'[u] = stmt[u] /\ held'[u] = held[u] /\ temporary'[u] = temporary[u]
    BY <1>2, <1>0 DEF TypeOK, Lock
  <2>2. (pc'[u] \in {"request", "answered", "entering"} => pc[u] \in {"request", "answered", "entering"}) /\ entries' = entries
    BY <1>2, <1>0 DEF TypeOK, Lock
  <2> QED BY <1>a, <2>1, <2>2
<1>3. ASSUME NEW t \in Threads, List(t) PROVE Goal
  <2>1. pc[u] # "idle" /\ u \notin exposed /\ stmt'[u] = stmt[u] /\ held'[u] = held[u] /\ temporary'[u] = temporary[u]
    BY <1>3, <1>0 DEF TypeOK, List
  <2>2. (pc'[u] \in {"request", "answered", "entering"} => pc[u] \in {"request", "answered", "entering"}) /\ entries' = entries
    BY <1>3, <1>0 DEF TypeOK, List
  <2> QED BY <1>a, <2>1, <2>2
<1>4. ASSUME NEW t \in Threads, Loaded(t) PROVE Goal
  <2>1. pc[u] # "idle" /\ u \notin exposed /\ stmt'[u] = stmt[u] /\ held'[u] = held[u] /\ temporary'[u] = temporary[u]
    BY <1>4, <1>0 DEF TypeOK, Loaded
  <2>2. (pc'[u] \in {"request", "answered", "entering"} => pc[u] \in {"request", "answered", "entering"}) /\ entries' = entries
    BY <1>4, <1>0 DEF TypeOK, Loaded
  <2> QED BY <1>a, <2>1, <2>2
<1>5. ASSUME NEW t \in Threads, LoadFails(t) PROVE Goal
  <2>1. pc[u] # "idle" /\ u \notin exposed /\ stmt'[u] = stmt[u] /\ held'[u] = held[u] /\ temporary'[u] = temporary[u]
    BY <1>5, <1>0 DEF TypeOK, LoadFails, End
  <2>2. (pc'[u] \in {"request", "answered", "entering"} => pc[u] \in {"request", "answered", "entering"}) /\ entries' = entries
    BY <1>5, <1>0 DEF TypeOK, LoadFails, End
  <2> QED BY <1>a, <2>1, <2>2
<1>6. ASSUME NEW t \in Threads, Find(t) PROVE Goal
  <2>1. stmt[t] \in Statements /\ entries' = entries /\ temporary' = temporary
    BY <1>6, <1>0 DEF Find, StmtInv
  <2>2. CASE u # t
    <3>1. pc'[u] = pc[u] /\ stmt'[u] = stmt[u] /\ held'[u] = held[u] /\ u \notin exposed
      BY <1>6, <1>0, <2>1, <2>2, BecomesCreate DEF Find, End, TypeOK
    <3> QED BY <1>a, <2>1, <3>1
  <2>3. CASE u = t
    <3>1. ~(entries[stmt[t].name] = NoObject /\ stmt[t].kind \notin {"scan", "ctas"})
      BY <1>6, <1>0, <2>3 DEF Find, End, TypeOK
    <3>2. held'[t] = IF stmt[t].kind = "scan" THEN Entries
                     ELSE IF entries[stmt[t].name] # NoObject /\ stmt[t].kind \notin {"ctas", "drop"}
                          THEN {entries[stmt[t].name]} ELSE {}
      BY <1>6, <1>0, <3>1 DEF Find, TypeOK
    <3>3. NamesOf(stmt'[t]) = NamesOf(stmt[t]) /\ stmt'[t].name = stmt[t].name
          /\ (stmt'[t].kind = "ctas" => stmt'[t] = stmt[t] /\ entries[stmt[t].name] = NoObject)
      BY <1>6, <1>0, <2>1, <3>1, BecomesCreate DEF Find
    <3>4. held'[t] \subseteq {entries[n] : n \in NamesOf(stmt[t])}
      <4>1. stmt[t].name \in NamesOf(stmt[t]) /\ (stmt[t].kind = "scan" => NamesOf(stmt[t]) = Names)
        BY <2>1, StatementFacts DEF NamesOf
      <4> QED BY <3>2, <4>1 DEF Entries
    <3> QED BY <2>1, <2>3, <3>3, <3>4
  <2> QED BY <2>2, <2>3
<1>7. ASSUME NEW t \in Threads, Serve(t) PROVE Goal
  <2>1. pc[u] # "idle" /\ u \notin exposed /\ stmt'[u] = stmt[u] /\ held'[u] = held[u] /\ temporary'[u] = temporary[u]
    BY <1>7, <1>0 DEF TypeOK, Serve
  <2>2. (pc'[u] \in {"request", "answered", "entering"} => pc[u] \in {"request", "answered", "entering"}) /\ entries' = entries
    BY <1>7, <1>0 DEF TypeOK, Serve
  <2> QED BY <1>a, <2>1, <2>2
<1>8. ASSUME NEW t \in Threads, CallFails(t) PROVE Goal
  <2>1. pc[u] # "idle" /\ u \notin exposed /\ stmt'[u] = stmt[u] /\ held'[u] = held[u] /\ temporary'[u] = temporary[u]
    BY <1>8, <1>0 DEF TypeOK, CallFails, End
  <2>2. (pc'[u] \in {"request", "answered", "entering"} => pc[u] \in {"request", "answered", "entering"}) /\ entries' = entries
    BY <1>8, <1>0 DEF TypeOK, CallFails, End
  <2> QED BY <1>a, <2>1, <2>2
<1>9. ASSUME NEW t \in Threads, NEW new \in Free, InsertListed(t, new) PROVE Goal
  <2>1. pc'[u] = pc[u] /\ u \notin exposed /\ stmt'[u] = stmt[u] /\ held' = held /\ temporary' = temporary
    BY <1>9 DEF InsertListed
  <2>2. \A n \in NamesOf(stmt[u]) : entries[n] # NoObject => entries'[n] = entries[n]
    BY <1>9, <1>0, <1>c, <2>1, InsertChanges
  <2>3. ~(pc[u] \in {"request", "answered", "entering"} /\ stmt[u].kind = "ctas")
    BY <1>9, <1>0 DEF InsertListed, LoadInv, Loading
  <2> QED BY <1>a, <2>1, <2>2, <2>3
<1>10. ASSUME NEW t \in Threads, NEW new \in Free, CreateEntry(t, new) PROVE Goal
  <2>0. pc[t] = "entering" /\ stmt[t].kind \in {"create", "ctas"} /\ Changing(t) /\ temporary' = temporary
    BY <1>10, <1>0 DEF CreateEntry, StmtInv, Changing, Changes
  <2>1. stmt[t].name \in NamesOf(stmt[t]) /\ stmt[t].name \in Names
    BY <1>0, <2>0, StatementFacts DEF StmtInv
  <2>2. CASE u # t
    <3>1. pc'[u] = pc[u] /\ u \notin exposed /\ stmt'[u] = stmt[u] /\ held'[u] = held[u]
      <4>1. CASE stmt[t].kind = "create"
        BY <1>10, <1>0, <2>2, <4>1 DEF CreateEntry, End, TypeOK
      <4>2. CASE stmt[t].kind # "create"
        BY <1>10, <1>0, <2>2, <4>2 DEF CreateEntry, TypeOK
      <4> QED BY <4>1, <4>2
    <3>2. NamesOf(stmt[u]) \cap NamesOf(stmt[t]) = {}
      BY <1>b, <2>0, <2>2, <3>1
    <3>3. \A n \in NamesOf(stmt[u]) : entries'[n] = entries[n]
      BY <1>10, <1>0, <1>c, <2>1, <3>1, <3>2, CreateChanges
    <3> QED BY <1>a, <1>c, <2>0, <3>1, <3>3
  <2>3. CASE u = t
    <3>1. stmt[t].kind = "ctas"
      BY <1>10, <1>0, <2>0, <2>3 DEF CreateEntry, End, TypeOK
    <3>2. /\ pc' = [pc EXCEPT ![t] = "using"] /\ held' = [held EXCEPT ![t] = {new}] /\ stmt' = stmt
          /\ exposed' = exposed
      BY <1>10, <3>1 DEF CreateEntry
    <3>3. pc'[t] = "using" /\ held'[t] = {new} /\ t \notin exposed
      BY <1>0, <2>3, <3>2 DEF TypeOK
    <3>4. entries[stmt[t].name] = NoObject
      BY <1>0, <2>0, <2>3, <3>1, <3>3 DEF HeldInv
    <3>5. entries' = [entries EXCEPT ![stmt[t].name] = new]
      BY <1>10, <3>4 DEF CreateEntry
    <3>6. entries'[stmt[t].name] = new
      BY <1>0, <2>1, <3>5 DEF TypeOK
    <3> QED BY <2>1, <2>3, <3>2, <3>3, <3>6
  <2> QED BY <2>2, <2>3
<1>11. ASSUME NEW t \in Threads, NEW new \in Free, ReplaceEntry(t, new) PROVE Goal
  <2>1. u # t /\ pc'[u] = pc[u] /\ u \notin exposed /\ stmt'[u] = stmt[u] /\ held'[u] = held[u] /\ temporary' = temporary
    BY <1>11, <1>0 DEF TypeOK, ReplaceEntry, End
  <2>2. Changing(t)
    BY <1>11 DEF ReplaceEntry, Answered, Changing, Changes
  <2>3. \A n \in NamesOf(stmt[u]) : entries'[n] = entries[n]
    BY <1>11, <1>0, <1>b, <1>c, <2>1, <2>2, ReplaceChanges
  <2> QED BY <1>a, <1>c, <2>1, <2>3
<1>12. ASSUME NEW t \in Threads, NEW new \in Free, KeepTemporary(t, new) PROVE Goal
  <2>1. pc[t] = "answered" /\ stmt[t].kind = "lookup_at" /\ entries' = entries /\ stmt' = stmt /\ exposed' = exposed
    BY <1>12 DEF KeepTemporary, Answered
  <2>2. /\ pc' = [pc EXCEPT ![t] = "using"] /\ held' = [held EXCEPT ![t] = {new}]
        /\ temporary' = [temporary EXCEPT ![t] = temporary[t] \cup {new}]
    BY <1>12 DEF KeepTemporary
  <2>3. CASE u = t
    <3>1. held'[u] = {new} /\ new \in temporary'[u] /\ pc'[u] = "using"
      BY <1>0, <2>2, <2>3 DEF TypeOK
    <3> QED BY <3>1
  <2>4. CASE u # t
    <3>1. pc'[u] = pc[u] /\ held'[u] = held[u] /\ temporary'[u] = temporary[u]
      BY <1>0, <2>2, <2>4 DEF TypeOK
    <3> QED BY <1>a, <2>1, <3>1
  <2> QED BY <2>3, <2>4
<1>13. ASSUME NEW t \in Threads, DropEntry(t) PROVE Goal
  <2>1. u # t /\ pc'[u] = pc[u] /\ u \notin exposed /\ stmt'[u] = stmt[u] /\ held'[u] = held[u] /\ temporary' = temporary
    BY <1>13, <1>0 DEF TypeOK, DropEntry, End
  <2>2. Changing(t)
    BY <1>13 DEF DropEntry, Answered, Changing, Changes
  <2>3. \A n \in NamesOf(stmt[u]) : entries'[n] = entries[n]
    BY <1>13, <1>0, <1>b, <1>c, <2>1, <2>2, DropChanges
  <2> QED BY <1>a, <1>c, <2>1, <2>3
<1>14. ASSUME NEW t \in Threads, EndStatement(t) PROVE Goal
  <2>1. pc[u] # "idle" /\ u \notin exposed /\ stmt'[u] = stmt[u] /\ held'[u] = held[u] /\ temporary'[u] = temporary[u]
    BY <1>14, <1>0 DEF TypeOK, EndStatement, End
  <2>2. (pc'[u] \in {"request", "answered", "entering"} => pc[u] \in {"request", "answered", "entering"}) /\ entries' = entries
    BY <1>14, <1>0 DEF TypeOK, EndStatement, End
  <2> QED BY <1>a, <2>1, <2>2
<1>15. ASSUME NEW t \in Threads, EndTransaction(t) PROVE Goal
  <2>1. u # t /\ pc' = pc /\ stmt' = stmt /\ held' = held /\ exposed' = exposed /\ entries' = entries
        /\ temporary' = [temporary EXCEPT ![t] = {}]
    BY <1>15 DEF EndTransaction
  <2>2. temporary'[u] = temporary[u]
    BY <1>0, <2>1 DEF TypeOK
  <2> QED BY <1>a, <2>1, <2>2
<1>16. CASE UNCHANGED vars
  <2>1. pc[u] # "idle" /\ u \notin exposed /\ stmt'[u] = stmt[u] /\ held'[u] = held[u] /\ temporary'[u] = temporary[u]
    BY <1>16, <1>0 DEF TypeOK, vars
  <2>2. (pc'[u] \in {"request", "answered", "entering"} => pc[u] \in {"request", "answered", "entering"}) /\ entries' = entries
    BY <1>16, <1>0 DEF TypeOK, vars
  <2> QED BY <1>a, <2>1, <2>2
<1>17. ASSUME NEW t \in Threads, EnterMap(t) PROVE Goal
  <2>1. pc[u] # "idle" /\ u \notin exposed /\ stmt'[u] = stmt[u] /\ held'[u] = held[u] /\ temporary'[u] = temporary[u]
    BY <1>17, <1>0 DEF TypeOK, EnterMap, Answered
  <2>2. (pc'[u] \in {"request", "answered", "entering"} => pc[u] \in {"request", "answered", "entering"})
        /\ entries' = entries
    BY <1>17, <1>0 DEF TypeOK, EnterMap, Answered
  <2> QED BY <1>a, <2>1, <2>2
<1>18. CASE LoseEntry
  BY <1>0, <1>18 DEF LoseEntry
<1> QED
  BY <1>1, <1>2, <1>3, <1>4, <1>5, <1>6, <1>7, <1>8, <1>9, <1>10, <1>11, <1>12, <1>13, <1>14,
     <1>15, <1>16, <1>17, <1>18 DEF Next, Step

-----------------------------------------------------------------------------
(* Entries and the server.                                                 *)

SamePending(n) ==
  \A v \in Threads :
    /\ Pending(v, n)' <=> Pending(v, n)
    /\ Pending(v, n) => stmt'[v] = stmt[v] /\ answer'[v] = answer[v]

SameLoads(n) ==
  \A v \in Threads :
    /\ pc[v] = "listing" => pc'[v] = "listing"
    /\ pc[v] = "inserting" /\ listing[v][n] > 0 => pc'[v] = "inserting"
    /\ pc'[v] = "inserting" => pc[v] = "inserting" /\ listing'[v][n] = listing[v][n]

SameTable(n) == entries'[n] = entries[n] /\ version'[n] = version[n] /\ server'[n] = server[n]

\* A step that does not concern a name keeps what is known of it.
LEMMA NameUntouched ==
  ASSUME NEW n \in Names, EntryInv(n), \A v \in Threads : PendingInv(v, n),
         SamePending(n), SameLoads(n), SameTable(n), is_loaded' /\ ~partial' => is_loaded /\ ~partial
  PROVE  EntryInv(n)' /\ \A v \in Threads : PendingInv(v, n)'
<1>1. ASSUME NEW v \in Threads PROVE PendingInv(v, n)'
  <2>1. Pending(v, n)' => PendingInv(v, n) /\ Pending(v, n) /\ stmt'[v] = stmt[v] /\ answer'[v] = answer[v]
    BY DEF SamePending
  <2> QED BY <2>1 DEF SameTable, PendingInv
<1>2. EntryInv(n)'
  <2>1. (\A v \in Threads : ~Pending(v, n)') => \A v \in Threads : ~Pending(v, n)
    BY DEF SamePending
  <2>2. ASSUME \A v \in Threads : ~Pending(v, n), entries'[n] # NoObject
        PROVE  server'[n] > 0 /\ version'[n] = server'[n]
    BY <2>2 DEF EntryInv, SameTable
  <2>3. ASSUME \A v \in Threads : ~Pending(v, n), is_loaded', ~partial', server'[n] > 0, entries'[n] = NoObject
        PROVE  \E u \in Threads : pc'[u] = "listing" \/ (pc'[u] = "inserting" /\ listing'[u][n] > 0)
    <3>1. PICK u \in Threads : pc[u] = "listing" \/ (pc[u] = "inserting" /\ listing[u][n] > 0)
      BY <2>3 DEF EntryInv, SameTable
    <3> QED BY <3>1 DEF SameLoads
  <2>4. ASSUME NEW u \in Threads, pc'[u] = "inserting", listing'[u][n] > 0 PROVE listing'[u][n] = server'[n]
    BY <2>4 DEF EntryInv, SameTable, SameLoads
  <2> QED BY <2>1, <2>2, <2>3, <2>4 DEF EntryInv
<1> QED BY <1>1, <1>2

\* What is known of a name survives every step that does not make it unsure.
LEMMA NameStep ==
  ASSUME TableSetInv, [Next]_vars, NEW n \in Names, n \notin unsure'
  PROVE  EntryInv(n)' /\ \A v \in Threads : PendingInv(v, n)'
<1>0. /\ TypeOK /\ LoadInv /\ TornInv /\ n \notin unsure /\ EntryInv(n)
      /\ \A v \in Threads : PendingInv(v, n) /\ StmtInv(v) /\ LockInv(v) /\ AlterInv(v)
  BY StatementsGoOn DEF TableSetInv
<1>u. ASSUME SamePending(n), SameLoads(n), SameTable(n), is_loaded' /\ ~partial' => is_loaded /\ ~partial
      PROVE  EntryInv(n)' /\ \A v \in Threads : PendingInv(v, n)'
  BY <1>0, <1>u, NameUntouched
\* No other thread changes the name.
<1>o. ASSUME NEW t \in Threads, Changing(t), n \in NamesOf(stmt[t])
      PROVE  \A v \in Threads : v # t => ~(Changing(v) /\ n \in NamesOf(stmt[v])) /\ ~Pending(v, n)
  BY <1>0, <1>o, OneChanger DEF Pending, Changing
\* The thread of a step that is not answered before or after has nothing pending.
<1>p. ASSUME NEW t \in Threads, \A v \in Threads : v # t => pc'[v] = pc[v] /\ stmt'[v] = stmt[v] /\ answer'[v] = answer[v],
             ~Pending(t, n), ~Pending(t, n)'
      PROVE  SamePending(n)
  BY <1>p DEF SamePending, Pending
<1> DEFINE Goal == EntryInv(n)' /\ \A v \in Threads : PendingInv(v, n)'
<1> USE DEF set, remote, ghost
<1>1. ASSUME NEW t \in Threads, NEW s \in Statements, Begin(t, s) PROVE Goal
  <2>1. \A v \in Threads : v # t => pc'[v] = pc[v] /\ stmt'[v] = stmt[v] /\ answer'[v] = answer[v]
    BY <1>1, <1>0 DEF TypeOK, Begin
  <2>2. ~Pending(t, n) /\ ~Pending(t, n)'
    BY <1>1, <1>0 DEF TypeOK, Pending, Begin
  <2>3. SameTable(n) /\ (is_loaded' /\ ~partial' => is_loaded /\ ~partial)
    BY <1>1 DEF SameTable, Begin
  <2>4. SameLoads(n)
    BY <1>1, <1>0 DEF TypeOK, SameLoads, Begin
  <2> QED BY <1>p, <1>u, <2>1, <2>2, <2>3, <2>4
<1>2. ASSUME NEW t \in Threads, Lock(t) PROVE Goal
  <2>1. /\ pc' = [pc EXCEPT ![t] = IF is_loaded THEN "finding" ELSE "listing"] /\ pc[t] = "locking"
        /\ UNCHANGED <<entries, version, server, stmt, listing, answer, partial>>
    BY <1>2 DEF Lock
  <2>2. SamePending(n) /\ SameTable(n)
    BY <1>0, <2>1 DEF TypeOK, SamePending, Pending, SameTable
  <2>3. SameLoads(n)
    BY <1>0, <2>1 DEF TypeOK, SameLoads
  <2>4. CASE is_loaded
    BY <1>u, <2>1, <2>2, <2>3, <2>4
  <2>5. CASE ~is_loaded
    <3>1. pc'[t] = "listing"
      BY <1>0, <2>1, <2>5 DEF TypeOK
    <3>2. \A v \in Threads : PendingInv(v, n)'
      BY <1>0, <2>1, <2>2 DEF SamePending, SameTable, PendingInv
    <3>3. ASSUME \A v \in Threads : ~Pending(v, n)', entries'[n] # NoObject
          PROVE  server'[n] > 0 /\ version'[n] = server'[n]
      BY <1>0, <2>2, <3>3 DEF EntryInv, SamePending, SameTable
    <3>4. ASSUME NEW v \in Threads, pc'[v] = "inserting", listing'[v][n] > 0 PROVE listing'[v][n] = server'[n]
      BY <1>0, <2>2, <2>3, <3>4 DEF EntryInv, SameLoads, SameTable
    <3> QED BY <3>1, <3>2, <3>3, <3>4 DEF EntryInv
  <2> QED BY <2>4, <2>5
<1>3. ASSUME NEW t \in Threads, List(t) PROVE Goal
  <2>1. /\ pc' = [pc EXCEPT ![t] = "inserting"] /\ pc[t] = "listing" /\ listing' = [listing EXCEPT ![t] = server]
        /\ UNCHANGED <<entries, version, server, stmt, answer, partial, is_loaded>>
    BY <1>3 DEF List
  <2>2. SamePending(n) /\ SameTable(n)
    BY <1>0, <2>1 DEF TypeOK, SamePending, Pending, SameTable
  <2>3. pc'[t] = "inserting" /\ listing'[t][n] = server[n]
    BY <1>0, <2>1 DEF TypeOK
  <2>4. \A v \in Threads : PendingInv(v, n)'
    BY <1>0, <2>1, <2>2 DEF SamePending, SameTable, PendingInv
  <2>5. ASSUME \A v \in Threads : ~Pending(v, n)', entries'[n] # NoObject
        PROVE  server'[n] > 0 /\ version'[n] = server'[n]
    BY <1>0, <2>2, <2>5 DEF EntryInv, SamePending, SameTable
  <2>6. ASSUME server'[n] > 0
        PROVE  \E v \in Threads : pc'[v] = "listing" \/ (pc'[v] = "inserting" /\ listing'[v][n] > 0)
    BY <2>1, <2>3, <2>6
  <2>7. ASSUME NEW v \in Threads, pc'[v] = "inserting", listing'[v][n] > 0 PROVE listing'[v][n] = server'[n]
    <3>1. CASE v = t
      BY <2>1, <2>3, <3>1
    <3>2. CASE v # t
      <4>1. pc[v] = "inserting" /\ listing'[v] = listing[v]
        BY <1>0, <2>1, <2>7, <3>2 DEF TypeOK
      <4> QED BY <1>0, <2>1, <2>7, <4>1 DEF EntryInv
    <3> QED BY <3>1, <3>2
  <2> QED BY <2>4, <2>5, <2>6, <2>7 DEF EntryInv
<1>4. ASSUME NEW t \in Threads, Loaded(t) PROVE Goal
  <2>1. \A v \in Threads : v # t => pc'[v] = pc[v] /\ stmt'[v] = stmt[v] /\ answer'[v] = answer[v]
    BY <1>4, <1>0 DEF TypeOK, Loaded
  <2>2. ~Pending(t, n) /\ ~Pending(t, n)'
    BY <1>4, <1>0 DEF TypeOK, Pending, Loaded
  <2>3. SameTable(n) /\ (is_loaded' /\ ~partial' => is_loaded /\ ~partial)
    BY <1>4 DEF SameTable, Loaded
  <2>4. SameLoads(n)
    BY <1>4, <1>0 DEF TypeOK, SameLoads, Loaded
  <2> QED BY <1>p, <1>u, <2>1, <2>2, <2>3, <2>4
<1>5. ASSUME NEW t \in Threads, LoadFails(t) PROVE Goal
  <2>1. pc[t] \in {"listing", "inserting"} /\ partial' = TRUE /\ UNCHANGED <<entries, version, server>>
    BY <1>5 DEF LoadFails, Loading
  <2>2. \A v \in Threads : v # t => pc'[v] = pc[v] /\ stmt'[v] = stmt[v] /\ answer'[v] = answer[v] /\ listing'[v] = listing[v]
    BY <1>5, <1>0 DEF TypeOK, LoadFails, End
  <2>3. pc'[t] = "idle"
    BY <1>5, <1>0 DEF TypeOK, LoadFails, End
  <2>4. SamePending(n) /\ SameTable(n)
    BY <1>p, <2>1, <2>2, <2>3 DEF Pending, SameTable
  <2>5. \A v \in Threads : PendingInv(v, n)'
    BY <1>0, <2>4 DEF SamePending, SameTable, PendingInv
  <2>6. ASSUME \A v \in Threads : ~Pending(v, n)', entries'[n] # NoObject
        PROVE  server'[n] > 0 /\ version'[n] = server'[n]
    BY <1>0, <2>4, <2>6 DEF EntryInv, SamePending, SameTable
  <2>7. ASSUME NEW v \in Threads, pc'[v] = "inserting", listing'[v][n] > 0 PROVE listing'[v][n] = server'[n]
    <3>1. v # t
      BY <2>3, <2>7
    <3>2. pc[v] = "inserting" /\ listing[v][n] > 0 /\ listing'[v][n] = listing[v][n]
      BY <2>2, <2>7, <3>1
    <3> QED BY <1>0, <2>1, <3>2 DEF EntryInv
  <2> QED BY <2>1, <2>5, <2>6, <2>7 DEF EntryInv
<1>6. ASSUME NEW t \in Threads, Find(t) PROVE Goal
  <2>1. stmt[t] \in Statements /\ pc[t] = "finding"
    BY <1>6, <1>0 DEF Find, StmtInv
  <2>2. \A v \in Threads : v # t => pc'[v] = pc[v] /\ stmt'[v] = stmt[v] /\ answer'[v] = answer[v]
    BY <1>6, <1>0, <2>1, BecomesCreate DEF TypeOK, Find, End
  <2>3. pc'[t] \in {"idle", "using", "request"}
    BY <1>6, <1>0 DEF TypeOK, Find, End
  <2>4. SamePending(n)
    BY <1>p, <2>1, <2>2, <2>3 DEF Pending
  <2>5. SameTable(n) /\ UNCHANGED <<is_loaded, partial, listing>>
    BY <1>6 DEF Find, SameTable
  <2>6. SameLoads(n)
    BY <2>1, <2>2, <2>3, <2>5 DEF SameLoads
  <2> QED BY <1>u, <2>4, <2>5, <2>6
<1>7. ASSUME NEW t \in Threads, Serve(t) PROVE Goal
  <2>1. pc[t] = "request" /\ Accepts(stmt[t]) /\ stmt[t] \in Statements
    BY <1>7, <1>0 DEF Serve, StmtInv
  <2>2. /\ server' = [m \in Names |->
             IF m = stmt[t].to /\ Renews(stmt[t]) THEN clock + 1
             ELSE IF m = stmt[t].name /\ stmt[t].kind \in {"drop", "rename"} THEN 0 ELSE server[m]]
        /\ answer' = [answer EXCEPT ![t] = IF Changing(t) THEN server'[stmt[t].to] ELSE 0] /\ pc' = [pc EXCEPT ![t] = "answered"]
        /\ UNCHANGED <<entries, version, is_loaded, partial, stmt, listing>>
    BY <1>7 DEF Serve
  <2>3. \A v \in Threads : v # t => pc'[v] = pc[v] /\ stmt'[v] = stmt[v] /\ answer'[v] = answer[v]
    BY <1>0, <2>2 DEF TypeOK
  <2>4. stmt[t].name \in Names /\ stmt[t].to \in Names /\ pc'[t] = "answered" /\ answer'[t] = IF Changing(t) THEN server'[stmt[t].to] ELSE 0
    BY <1>0, <2>1, <2>2, StatementFacts DEF TypeOK
  <2>5. CASE ~(stmt[t].kind \in Changes /\ n \in NamesOf(stmt[t]))
    <3>1. n # stmt[t].to \/ ~Renews(stmt[t])
      BY <2>1, <2>5, StatementFacts DEF Renews, Changes
    <3>2. n # stmt[t].name \/ stmt[t].kind \notin {"drop", "rename"}
      BY <2>1, <2>5, StatementFacts DEF Changes
    <3>3. SameTable(n)
      BY <2>2, <3>1, <3>2 DEF SameTable
    <3>4. SamePending(n)
      BY <1>p, <2>1, <2>2, <2>3, <2>5 DEF Pending
    <3>5. SameLoads(n)
      BY <2>1, <2>2, <2>3, <2>4 DEF SameLoads
    <3> QED BY <1>u, <2>2, <3>3, <3>4, <3>5
  <2>6. CASE stmt[t].kind \in Changes /\ n \in NamesOf(stmt[t])
    <3>1. Changing(t) /\ ~Pending(t, n) /\ n \in {stmt[t].name, stmt[t].to}
          /\ (stmt[t].kind # "rename" => n = stmt[t].name /\ n = stmt[t].to)
          /\ (stmt[t].kind = "rename" => stmt[t].name # stmt[t].to)
      BY <2>1, <2>6, StatementFacts DEF Changing, Pending
    <3>2. \A v \in Threads : ~Pending(v, n)
      BY <1>o, <2>6, <3>1
    <3>3. entries[n] # NoObject => server[n] > 0 /\ version[n] = server[n]
      BY <1>0, <3>2 DEF EntryInv
    <3>4. Pending(t, n)' /\ \A v \in Threads : v # t => ~Pending(v, n)'
      BY <2>2, <2>3, <2>4, <2>6, <3>2 DEF Pending
    <3>5. server[n] \in Nat /\ clock \in Nat /\ server[stmt[t].to] \in Nat
      BY <1>0, <2>4, MaxVersionAssumption DEF TypeOK
    <3>6. PendingInv(t, n)'
      <4>1. CASE stmt[t].kind \in {"create", "ctas"}
        <5>1. server'[n] = IF server[n] = 0 THEN clock + 1 ELSE server[n]
          BY <2>2, <3>1, <4>1 DEF Renews
        <5> QED BY <2>2, <2>4, <3>1, <3>3, <3>5, <4>1, <5>1 DEF PendingInv
      <4>2. CASE stmt[t].kind = "drop"
        <5>1. server'[n] = 0
          BY <2>2, <3>1, <4>2 DEF Renews
        <5> QED BY <2>2, <4>2, <5>1 DEF PendingInv
      <4>3. CASE stmt[t].kind \in {"alter", "rename"} /\ n = stmt[t].to
        <5>1. server'[n] = clock + 1 /\ server'[n] > 0
          BY <2>2, <3>5, <4>3 DEF Renews
        <5>2. n # stmt[t].name => entries[n] = NoObject
          BY <2>1, <3>1, <3>3, <4>3 DEF Accepts
        <5> QED BY <2>2, <2>4, <3>1, <4>3, <5>1, <5>2 DEF PendingInv
      <4>4. CASE stmt[t].kind = "rename" /\ n # stmt[t].to
        <5>1. server'[n] = 0
          BY <2>2, <3>1, <4>4
        <5> QED BY <2>2, <4>4, <5>1 DEF PendingInv
      <4> QED BY <2>6, <3>1, <4>1, <4>2, <4>3, <4>4 DEF Changes
    <3>7. ASSUME NEW v \in Threads, pc'[v] = "inserting", listing'[v][n] > 0 PROVE listing'[v][n] = server'[n]
      <4>1. v # t
        BY <2>4, <3>7
      <4>2. pc[v] = "inserting" /\ listing[v][n] = server[n] /\ server[n] > 0
        BY <1>0, <2>2, <2>3, <3>7, <4>1 DEF EntryInv
      <4>3. stmt[t].kind = "create"
        BY <1>0, <2>1, <4>2 DEF LoadInv, Loading
      <4>4. server'[n] = server[n]
        BY <2>2, <3>1, <4>2, <4>3 DEF Renews
      <4> QED BY <2>2, <4>2, <4>4
    <3>8. EntryInv(n)'
      BY <3>4, <3>7 DEF EntryInv
    <3>9. ASSUME NEW v \in Threads PROVE PendingInv(v, n)'
      BY <3>4, <3>6 DEF PendingInv
    <3> QED BY <3>8, <3>9
  <2> QED BY <2>5, <2>6
<1>8. ASSUME NEW t \in Threads, CallFails(t) PROVE Goal
  <2>1. \A v \in Threads : v # t => pc'[v] = pc[v] /\ stmt'[v] = stmt[v] /\ answer'[v] = answer[v]
    BY <1>8, <1>0 DEF TypeOK, CallFails, End
  <2>2. pc'[t] = "idle" /\ pc[t] \in {"request", "answered"}
    BY <1>8, <1>0 DEF TypeOK, CallFails, End
  <2>3. ~Pending(t, n)
    BY <1>8 DEF CallFails, Pending, Changing
  <2>4. SamePending(n)
    BY <1>p, <2>1, <2>2, <2>3 DEF Pending
  <2>5. SameTable(n) /\ UNCHANGED <<is_loaded, partial, listing>>
    BY <1>8 DEF CallFails, SameTable
  <2>6. SameLoads(n)
    BY <2>1, <2>2, <2>5 DEF SameLoads
  <2> QED BY <1>u, <2>4, <2>5, <2>6
<1>9. ASSUME NEW t \in Threads, NEW new \in Free, InsertListed(t, new) PROVE Goal
  <2>1. pc[t] = "inserting" /\ UNCHANGED <<is_loaded, partial, server, stmt, pc, answer>>
    BY <1>9 DEF InsertListed
  <2>2. PICK m \in Names :
          /\ listing[t][m] > 0 /\ listing' = [listing EXCEPT ![t][m] = 0]
          /\ IF entries[m] # NoObject THEN UNCHANGED <<entries, version>>
             ELSE /\ entries' = [entries EXCEPT ![m] = new]
                  /\ version' = [version EXCEPT ![m] = listing[t][m]]
    BY <1>9 DEF InsertListed
  <2>3. SamePending(n)
    BY <2>1 DEF SamePending, Pending
  <2>4. CASE n # m
    <3>1. SameTable(n)
      BY <1>0, <2>1, <2>2, <2>4 DEF TypeOK, SameTable
    <3>2. \A v \in Threads : listing'[v][n] = listing[v][n]
      BY <1>0, <2>2, <2>4 DEF TypeOK
    <3>3. SameLoads(n)
      BY <2>1, <3>2 DEF SameLoads
    <3> QED BY <1>u, <2>1, <2>3, <3>1, <3>3
  <2>5. CASE n = m
    <3>1. listing[t][n] = server[n] /\ server[n] > 0
      BY <1>0, <2>1, <2>2, <2>5 DEF EntryInv
    <3>2. entries'[n] # NoObject
      BY <1>0, <2>2, <2>5, FreeFacts DEF TypeOK
    <3>3. entries[n] # NoObject => version'[n] = version[n]
      BY <2>2, <2>5
    <3>4. entries[n] = NoObject => version'[n] = server[n]
      BY <1>0, <2>2, <2>5, <3>1 DEF TypeOK
    <3>5. \A v \in Threads : v # t => listing'[v] = listing[v]
      BY <1>0, <2>2 DEF TypeOK
    <3>6. listing'[t][n] = 0
      BY <1>0, <2>2, <2>5 DEF TypeOK
    <3>7. ASSUME NEW v \in Threads, pc'[v] = "inserting", listing'[v][n] > 0 PROVE listing'[v][n] = server'[n]
      <4>1. v # t
        BY <3>6, <3>7
      <4> QED BY <1>0, <2>1, <3>5, <3>7, <4>1 DEF EntryInv
    <3>8. (\A v \in Threads : ~Pending(v, n)') => server'[n] > 0 /\ version'[n] = server'[n]
      BY <1>0, <2>1, <2>3, <3>1, <3>3, <3>4 DEF EntryInv, SamePending
    <3>9. ASSUME NEW v \in Threads PROVE PendingInv(v, n)'
      <4>1. Pending(v, n)' => Pending(v, n)
        BY <2>3 DEF SamePending
      <4>2. pc[v] \in {"answered", "entering"} => stmt[v].kind = "create"
        BY <1>0, <2>1 DEF LoadInv, Loading
      <4>3. Pending(v, n) => pc[v] \in {"answered", "entering"}
        BY DEF Pending
      <4> QED BY <1>0, <2>1, <3>3, <3>4, <4>1, <4>2, <4>3 DEF PendingInv
    <3> QED BY <3>2, <3>7, <3>8, <3>9 DEF EntryInv
  <2> QED BY <2>4, <2>5
<1>10. ASSUME NEW t \in Threads, NEW new \in Free, CreateEntry(t, new) PROVE Goal
  <2>1. pc[t] = "entering" /\ stmt[t].kind \in {"create", "ctas"} /\ stmt[t] \in Statements
    BY <1>10, <1>0 DEF CreateEntry, StmtInv
  <2>3. /\ \A v \in Threads : v # t => pc'[v] = pc[v] /\ stmt'[v] = stmt[v] /\ answer'[v] = answer[v]
        /\ pc'[t] \in {"idle", "using"}
    <3>1. CASE stmt[t].kind = "create"
      BY <1>10, <1>0, <3>1 DEF TypeOK, CreateEntry, End
    <3>2. CASE stmt[t].kind # "create"
      BY <1>10, <1>0, <3>2 DEF TypeOK, CreateEntry
    <3> QED BY <3>1, <3>2
  <2>4. UNCHANGED <<server, is_loaded, partial, listing>>
    BY <1>10 DEF CreateEntry
  <2>5. NamesOf(stmt[t]) = {stmt[t].name} /\ stmt[t].name \in Names
    BY <2>1, StatementFacts DEF Changes
  <2>6. SameLoads(n)
    BY <2>1, <2>3, <2>4 DEF SameLoads
  <2>7. \/ /\ entries[stmt[t].name] = NoObject
           /\ entries' = [entries EXCEPT ![stmt[t].name] = new]
           /\ version' = [version EXCEPT ![stmt[t].name] = answer[t]]
        \/ entries[stmt[t].name] # NoObject /\ UNCHANGED <<entries, version>>
    BY <1>10 DEF CreateEntry
  <2>8. CASE n # stmt[t].name
    <3>1. SamePending(n)
      BY <1>p, <2>3, <2>5, <2>8 DEF Pending
    <3>2. SameTable(n)
      BY <1>0, <2>4, <2>7, <2>8 DEF TypeOK, SameTable
    <3> QED BY <1>u, <2>4, <2>6, <3>1, <3>2
  <2>9. CASE n = stmt[t].name
    <3>1. \A v \in Threads : ~Pending(v, n)'
      <4>1. Changing(t)
        BY <2>1 DEF Changing, Changes
      <4>2. \A v \in Threads : v # t => ~Pending(v, n)
        BY <1>o, <2>5, <2>9, <4>1
      <4> QED BY <2>3, <4>2 DEF Pending
    <3>2. ASSUME NEW v \in Threads, pc'[v] = "inserting", listing'[v][n] > 0 PROVE listing'[v][n] = server'[n]
      BY <1>0, <2>4, <2>6, <3>2 DEF EntryInv, SameLoads
    <3>3. Pending(t, n)
      BY <2>1, <2>5, <2>9 DEF Pending, Changes
    <3>4. answer[t] = server[n] /\ server[n] > 0 /\ (entries[n] # NoObject => version[n] = server[n])
      BY <1>0, <2>1, <3>3 DEF PendingInv
    <3>5. entries'[n] # NoObject /\ version'[n] = server[n]
      BY <1>0, <2>7, <2>9, <3>4, FreeFacts DEF TypeOK
    <3> QED BY <2>4, <3>1, <3>2, <3>4, <3>5 DEF EntryInv, PendingInv
  <2> QED BY <2>8, <2>9
<1>11. ASSUME NEW t \in Threads, NEW new \in Free, ReplaceEntry(t, new) PROVE Goal
  <2>1. pc[t] = "answered" /\ stmt[t].kind \in {"alter", "rename"} /\ lock = NoThread /\ stmt[t] \in Statements
    BY <1>11, <1>0 DEF ReplaceEntry, Answered, StmtInv
  <2>2. /\ \A v \in Threads : v # t => pc'[v] = pc[v] /\ stmt'[v] = stmt[v] /\ answer'[v] = answer[v]
        /\ pc'[t] = "idle"
    BY <1>11, <1>0 DEF TypeOK, ReplaceEntry, End
  <2>3. UNCHANGED <<server, is_loaded, partial, listing>>
    BY <1>11 DEF ReplaceEntry
  <2>4. NamesOf(stmt[t]) = {stmt[t].name, stmt[t].to} /\ stmt[t].name \in Names /\ stmt[t].to \in Names
    BY <2>1, StatementFacts DEF Changes
  <2>5. \A v \in Threads : pc[v] # "listing" /\ pc[v] # "inserting"
    BY <1>0, <2>1, NoThreadAssumption DEF LockInv
  <2>6. CASE n \notin NamesOf(stmt[t])
    <3>1. SamePending(n)
      BY <1>p, <2>2, <2>6 DEF Pending
    <3>2. entries'[n] = entries[n] /\ version'[n] = version[n]
      BY <1>11, <2>4, <2>6 DEF ReplaceEntry
    <3>3. SameLoads(n)
      BY <2>2, <2>5 DEF SameLoads
    <3> QED BY <1>u, <2>3, <3>1, <3>2, <3>3 DEF SameTable
  <2>7. CASE n \in NamesOf(stmt[t])
    <3>1. \A v \in Threads : ~Pending(v, n)'
      <4>1. Changing(t)
        BY <2>1 DEF Changing, Changes
      <4>2. \A v \in Threads : v # t => ~Pending(v, n)
        BY <1>o, <2>7, <4>1
      <4> QED BY <2>2, <4>2 DEF Pending
    <3>2. \A v \in Threads : pc'[v] # "inserting"
      BY <2>2, <2>5
    <3>3. Pending(t, n)
      BY <2>1, <2>7 DEF Pending, Changes
    <3>4. entries[stmt[t].name] # NoObject
      BY <1>0, <2>1, <2>7 DEF AlterInv
    <3>5. CASE n = stmt[t].to
      <4>1. answer[t] = server[n] /\ server[n] > 0 /\ (n # stmt[t].name => entries[n] = NoObject)
        BY <1>0, <2>1, <3>3, <3>5 DEF PendingInv
      <4>2. entries'[n] = new /\ version'[n] = answer[t]
        BY <1>11, <3>4, <3>5, <4>1 DEF ReplaceEntry
      <4>3. new # NoObject
        BY FreeFacts
      <4> QED BY <2>3, <3>1, <3>2, <4>1, <4>2, <4>3 DEF EntryInv, PendingInv
    <3>6. CASE n # stmt[t].to
      <4>1. n = stmt[t].name /\ server[n] = 0
        BY <1>0, <2>1, <2>4, <2>7, <3>3, <3>6 DEF PendingInv
      <4>2. entries'[n] = NoObject
        BY <1>11, <3>4, <3>6, <4>1 DEF ReplaceEntry
      <4> QED BY <2>3, <3>1, <3>2, <4>1, <4>2 DEF EntryInv, PendingInv
    <3> QED BY <3>5, <3>6
  <2> QED BY <2>6, <2>7
<1>12. ASSUME NEW t \in Threads, NEW new \in Free, KeepTemporary(t, new) PROVE Goal
  <2>1. \A v \in Threads : v # t => pc'[v] = pc[v] /\ stmt'[v] = stmt[v] /\ answer'[v] = answer[v]
    BY <1>12, <1>0 DEF TypeOK, KeepTemporary, Answered
  <2>2. ~Pending(t, n) /\ ~Pending(t, n)'
    BY <1>12, <1>0 DEF TypeOK, Pending, KeepTemporary, Answered, Changes
  <2>3. SameTable(n) /\ (is_loaded' /\ ~partial' => is_loaded /\ ~partial)
    BY <1>12 DEF SameTable, KeepTemporary, Answered
  <2>4. SameLoads(n)
    BY <1>12, <1>0 DEF TypeOK, SameLoads, KeepTemporary, Answered
  <2> QED BY <1>p, <1>u, <2>1, <2>2, <2>3, <2>4
<1>13. ASSUME NEW t \in Threads, DropEntry(t) PROVE Goal
  <2>1. pc[t] = "answered" /\ stmt[t].kind = "drop" /\ lock = NoThread /\ stmt[t] \in Statements
    BY <1>13, <1>0 DEF DropEntry, Answered, StmtInv
  <2>2. /\ \A v \in Threads : v # t => pc'[v] = pc[v] /\ stmt'[v] = stmt[v] /\ answer'[v] = answer[v]
        /\ pc'[t] = "idle"
    BY <1>13, <1>0 DEF TypeOK, DropEntry, End
  <2>3. entries' = [entries EXCEPT ![stmt[t].name] = NoObject] /\ version' = [version EXCEPT ![stmt[t].name] = 0]
        /\ UNCHANGED <<server, is_loaded, partial, listing>>
    BY <1>13 DEF DropEntry
  <2>4. NamesOf(stmt[t]) = {stmt[t].name} /\ stmt[t].name \in Names
    BY <2>1, StatementFacts DEF Changes
  <2>5. \A v \in Threads : pc[v] # "listing" /\ pc[v] # "inserting"
    BY <1>0, <2>1, NoThreadAssumption DEF LockInv
  <2>6. CASE n # stmt[t].name
    <3>1. SamePending(n)
      BY <1>p, <2>2, <2>4, <2>6 DEF Pending
    <3>2. SameTable(n)
      BY <1>0, <2>3, <2>6 DEF TypeOK, SameTable
    <3>3. SameLoads(n)
      BY <2>2, <2>5 DEF SameLoads
    <3> QED BY <1>u, <2>3, <3>1, <3>2, <3>3
  <2>7. CASE n = stmt[t].name
    <3>1. entries'[n] = NoObject /\ server'[n] = 0
      BY <1>0, <2>1, <2>3, <2>4, <2>7 DEF TypeOK, PendingInv, Pending, Changes
    <3>2. \A v \in Threads : ~Pending(v, n)'
      <4>1. Changing(t)
        BY <2>1 DEF Changing, Changes
      <4>2. \A v \in Threads : v # t => ~Pending(v, n)
        BY <1>o, <2>4, <2>7, <4>1
      <4> QED BY <2>2, <4>2 DEF Pending
    <3>3. \A v \in Threads : pc'[v] # "inserting"
      BY <2>2, <2>5
    <3> QED BY <3>1, <3>2, <3>3 DEF EntryInv, PendingInv
  <2> QED BY <2>6, <2>7
<1>14. ASSUME NEW t \in Threads, EndStatement(t) PROVE Goal
  <2>1. \A v \in Threads : v # t => pc'[v] = pc[v] /\ stmt'[v] = stmt[v] /\ answer'[v] = answer[v]
    BY <1>14, <1>0 DEF TypeOK, EndStatement, End
  <2>2. ~Pending(t, n) /\ ~Pending(t, n)'
    BY <1>14, <1>0 DEF TypeOK, Pending, EndStatement, End
  <2>3. SameTable(n) /\ (is_loaded' /\ ~partial' => is_loaded /\ ~partial)
    BY <1>14 DEF SameTable, EndStatement, End
  <2>4. SameLoads(n)
    BY <1>14, <1>0 DEF TypeOK, SameLoads, EndStatement, End
  <2> QED BY <1>p, <1>u, <2>1, <2>2, <2>3, <2>4
<1>15. ASSUME NEW t \in Threads, EndTransaction(t) PROVE Goal
  <2>1. \A v \in Threads : v # t => pc'[v] = pc[v] /\ stmt'[v] = stmt[v] /\ answer'[v] = answer[v]
    BY <1>15, <1>0 DEF TypeOK, EndTransaction
  <2>2. ~Pending(t, n) /\ ~Pending(t, n)'
    BY <1>15, <1>0 DEF TypeOK, Pending, EndTransaction
  <2>3. SameTable(n) /\ (is_loaded' /\ ~partial' => is_loaded /\ ~partial)
    BY <1>15 DEF SameTable, EndTransaction
  <2>4. SameLoads(n)
    BY <1>15, <1>0 DEF TypeOK, SameLoads, EndTransaction
  <2> QED BY <1>p, <1>u, <2>1, <2>2, <2>3, <2>4
<1>16. CASE UNCHANGED vars
  <2>1. SamePending(n) /\ SameTable(n)
    BY <1>16 DEF vars, SamePending, Pending, SameTable
  <2>2. SameLoads(n) /\ is_loaded' = is_loaded /\ partial' = partial
    BY <1>16 DEF vars, SameLoads
  <2> QED BY <1>u, <2>1, <2>2
<1>17. ASSUME NEW t \in Threads, EnterMap(t) PROVE Goal
  <2>1. pc[t] = "answered" /\ pc' = [pc EXCEPT ![t] = "entering"] /\ UNCHANGED <<stmt, answer, listing>>
    BY <1>17 DEF EnterMap, Answered
  <2>2. SamePending(n)
    BY <1>0, <2>1 DEF TypeOK, SamePending, Pending
  <2>3. SameTable(n) /\ (is_loaded' /\ ~partial' => is_loaded /\ ~partial)
    BY <1>17 DEF SameTable, EnterMap
  <2>4. SameLoads(n)
    BY <1>0, <2>1 DEF TypeOK, SameLoads
  <2> QED BY <1>u, <2>2, <2>3, <2>4
<1>18. CASE LoseEntry
  BY <1>0, <1>18 DEF LoseEntry, TornInv
<1> QED
  BY <1>1, <1>2, <1>3, <1>4, <1>5, <1>6, <1>7, <1>8, <1>9, <1>10, <1>11, <1>12, <1>13, <1>14,
     <1>15, <1>16, <1>17, <1>18 DEF Next, Step

-----------------------------------------------------------------------------
(* The theorems.                                                           *)

LEMMA NextTableSetInv == TableSetInv /\ [Next]_vars => TableSetInv'
<1> SUFFICES ASSUME TableSetInv, [Next]_vars PROVE TableSetInv'
  OBVIOUS
<1>1. TypeOK' /\ TemporaryEntriesPrivate' /\ LoadInv' /\ OverlapInv' /\ TornInv'
  BY NextTypeOK, TempStep, LockStep, OverlapStep, TornStep
<1>2. ASSUME NEW t \in Threads PROVE StmtInv(t)' /\ LockInv(t)' /\ HeldInv(t)' /\ AlterInv(t)'
  BY StmtStep, LockStep, HeldStep, AlterStep
<1>3. ASSUME NEW n \in Names \ unsure' PROVE EntryInv(n)' /\ \A t \in Threads : PendingInv(t, n)'
  BY NameStep
<1> QED BY <1>1, <1>2, <1>3 DEF TableSetInv

\* The inductive invariant holds in every reachable state.
THEOREM TableSetInvariant == Spec => []TableSetInv
<1> QED BY InitTableSetInv, NextTableSetInv, PTL DEF Spec

\* No statement uses an entry that has been freed, unless a change of the same table by
\* another statement overlaps with it or a CREATE TABLE, which takes no lock, has inserted
\* beside another user of the map; and an entry at a point in time is only in its own
\* transaction (AirportCatalogSet, AirportTableSet::GetEntry).
THEOREM EntriesAreSafe == Spec => []EntriesSafe
<1>1. TableSetInv => EntriesSafe
  <2> SUFFICES ASSUME TableSetInv PROVE EntriesSafe
    OBVIOUS
  <2>1. TypeOK /\ TemporaryEntriesPrivate /\ \A t \in Threads : StmtInv(t) /\ LockInv(t) /\ HeldInv(t)
    BY DEF TableSetInv
  <2>2. ASSUME ~torn, NEW t \in Threads \ exposed PROVE held[t] \subseteq Owned
    <3>1. CASE pc[t] = "idle"
      BY <2>1, <3>1 DEF StmtInv
    <3>2. CASE pc[t] # "idle"
      <4>1. held[t] \subseteq temporary[t] \cup {entries[n] : n \in NamesOf(stmt[t])}
        BY <2>1, <2>2, <3>2 DEF HeldInv
      <4>2. NamesOf(stmt[t]) \subseteq Names
        BY <2>1, <3>2, StatementFacts DEF StmtInv
      <4>3. NoObject \notin held[t]
        BY <2>1, NoObjectAssumption DEF TypeOK
      <4> QED BY <4>1, <4>2, <4>3 DEF Owned, Entries
    <3> QED BY <3>1, <3>2
  <2>3. OnlyCreatesUnlocked
    BY <2>1 DEF OnlyCreatesUnlocked, InEntries, Unlocked, LockInv
  <2> QED BY <2>1, <2>2, <2>3 DEF EntriesSafe, HeldEntriesAlive
<1> QED BY <1>1, TableSetInvariant, PTL

\* At rest an entry describes the server's table in its present version, and in a set loaded
\* without failure each of the server's tables has one, however loads, look-ups and changes
\* of this and of other tables have interleaved; until a CREATE TABLE, which takes no lock,
\* has inserted while another thread used the map, for any table (AirportTableSet,
\* AirportCatalogSet::CreateEntry, EraseEntryInternal, ReplaceEntry).
THEOREM EntriesAsServer == Spec => []EntriesMatchServer
<1>1. TableSetInv => EntriesMatchServer
  <2> SUFFICES ASSUME TableSetInv PROVE EntriesMatchServer
    OBVIOUS
  <2>1. ASSUME NEW n \in Names \ unsure, AtRest(n)
        PROVE  /\ entries[n] # NoObject => server[n] > 0 /\ version[n] = server[n]
               /\ is_loaded /\ ~partial /\ server[n] > 0 => entries[n] # NoObject
    <3>1. EntryInv(n)
      BY DEF TableSetInv
    <3>2. \A t \in Threads : ~Pending(t, n)
      BY <2>1 DEF AtRest, Changing, Pending
    <3>3. \A t \in Threads : pc[t] # "listing" /\ pc[t] # "inserting"
      BY <2>1 DEF AtRest, Loading
    <3> QED BY <3>1, <3>2, <3>3 DEF EntryInv
  <2> QED BY <2>1 DEF EntriesMatchServer, EntriesUpToDate, LoadedSetComplete
<1> QED BY <1>1, TableSetInvariant, PTL

=============================================================================
