--------------------- MODULE AirportTransaction_proofs ----------------------
(***************************************************************************)
(* For any connections, numbers of identifiers and versions, and whether   *)
(* or not the catalog is fixed: no connection uses the identifier of a     *)
(* transaction another one has open, and no plan is made or kept with a    *)
(* version from before it was asked for.  For any connections and schemas: *)
(* who looks a schema up finds what the server has.                        *)
(***************************************************************************)
EXTENDS CatalogParts, TLAPS

\* Initially nothing has been given and nothing is held.
LEMMA InitTransactionInv == Init => TransactionInv
<1> SUFFICES ASSUME Init PROVE TransactionInv
  OBVIOUS
<1>1. NoPlan \in Plans /\ NoRequest \in Requests
  BY DEF NoPlan, NoRequest, Plans, Requests
<1>2. TypeOK
  BY <1>1, BoundsAssumption DEF Init, TypeOK, Versions, Places
<1>3. NoBorrowedTransaction
  BY NoneAssumption DEF Init, NoBorrowedTransaction, Ids
<1>4. VersionNotOld
  BY DEF Init, VersionNotOld
<1>5. \A c \in Connections : {identifier[c], plan[c].id, request[c].id} \subseteq {None}
  BY DEF Init, NoPlan, NoRequest
<1> QED
  BY <1>2, <1>3, <1>4, <1>5 DEF Init, TransactionInv

-----------------------------------------------------------------------------
(* Identifiers.                                                            *)

\* None is no identifier and no version.
LEMMA NoneApart == None \notin Ids /\ NoId # None /\ None \notin Versions /\ NoId \notin Ids
BY BoundsAssumption, NoneAssumption DEF Ids, Versions

\* What a connection may hold.
LEMMA HeldIds ==
  ASSUME TransactionInv, NEW x \in Connections
  PROVE  {identifier[x], plan[x].id, request[x].id} \subseteq (1 .. issued) \cup {NoId, None}
BY DEF TransactionInv

\* An identifier is new, or there is none.
LEMMA NewId ==
  ASSUME TransactionInv, NEW id \in Ids \cup {NoId}, GetTransactionIdentifier(id)
  PROVE  /\ issued \in Nat /\ issued' \in 0 .. MaxId /\ issued' >= issued
         /\ id \in (issued + 1 .. issued') \cup {NoId}
<1>1. issued \in 0 .. MaxId /\ MaxId \in Nat
  BY BoundsAssumption DEF TransactionInv, TypeOK
<1>2. CASE id = NoId /\ issued' = issued
  BY <1>1, <1>2
<1>3. CASE \E n \in 1 .. 2 : issued + n \in Ids /\ issued' = issued + n /\ id = issued + n
  BY <1>1, <1>3 DEF Ids
<1> QED
  BY <1>2, <1>3 DEF GetTransactionIdentifier

\* The new identifier is nobody else's, so that it does not matter who held what.
LEMMA StartTransactionKeeps ==
  ASSUME TransactionInv, NEW c \in Connections, StartTransaction(c) PROVE TransactionInv'
<1>1. PICK id \in Ids \cup {NoId} :
        GetTransactionIdentifier(id) /\ identifier' = [identifier EXCEPT ![c] = id]
  BY DEF StartTransaction
<1>2. /\ issued \in Nat /\ issued' \in 0 .. MaxId /\ issued' >= issued
      /\ id \in (issued + 1 .. issued') \cup {NoId}
  BY <1>1, NewId
<1>3. UNCHANGED <<version, loaded, pc, seen, since, plan, request>>
  BY DEF StartTransaction
<1>4. identifier \in [Connections -> Ids \cup {NoId, None}]
  BY DEF TransactionInv, TypeOK
<1>5. \A x \in Connections : identifier'[x] = IF x = c THEN id ELSE identifier[x]
  BY <1>1, <1>4
<1>6. TypeOK'
  <2>1. identifier' \in [Connections -> Ids \cup {NoId, None}]
    BY <1>1, <1>4
  <2>2. \A x \in Connections : pc'[x] # "idle" => Open(x)'
    BY <1>3, <1>5, NoneApart DEF TransactionInv, TypeOK, Open
  <2> QED
    BY <1>2, <1>3, <2>1, <2>2 DEF TransactionInv, TypeOK
<1>7. NoBorrowedTransaction'
  <2> SUFFICES ASSUME NEW x \in Connections, NEW y \in Connections, x # y,
                      identifier'[y] \in Ids
               PROVE  identifier'[y] \notin {identifier'[x], plan[x].id, request[x].id}
    BY <1>3 DEF NoBorrowedTransaction
  <2>1. CASE y = c
    <3>1. id \in issued + 1 .. issued'
      BY <1>2, <1>5, <2>1, NoneAssumption DEF Ids
    <3>2. identifier'[x] = identifier[x]
      BY <1>5, <2>1
    <3> QED
      BY <1>2, <1>5, <2>1, <3>1, <3>2, HeldIds, NoneAssumption
  <2>2. CASE y # c
    <3>1. identifier'[y] = identifier[y]
      BY <1>5, <2>2
    <3>2. identifier[y] \notin {identifier[x], plan[x].id, request[x].id}
      BY <3>1 DEF TransactionInv, NoBorrowedTransaction
    <3>3. identifier[y] \in 1 .. issued
      BY <3>1, HeldIds, NoneAssumption DEF Ids
    <3> QED
      BY <1>2, <1>5, <3>1, <3>2, <3>3, NoneAssumption
  <2> QED
    BY <2>1, <2>2
<1>8. ASSUME NEW x \in Connections
      PROVE  {identifier'[x], plan'[x].id, request'[x].id} \subseteq (1 .. issued') \cup {NoId, None}
  BY <1>2, <1>3, <1>5, HeldIds
<1>9. VersionNotOld'
  BY <1>3 DEF TransactionInv, VersionNotOld
<1> QED
  BY <1>3, <1>6, <1>7, <1>8, <1>9 DEF TransactionInv

\* A call that failed may have cost an identifier.
LEMMA StartFailsKeeps ==
  ASSUME TransactionInv, NEW c \in Connections, StartFails(c) PROVE TransactionInv'
<1>1. UNCHANGED <<version, loaded, pc, identifier, seen, since, plan, request>>
  BY DEF StartFails
<1>2. issued \in Nat /\ issued' = issued + 1 /\ issued' \in 0 .. MaxId
  <2>1. issued \in 0 .. MaxId
    BY DEF TransactionInv, TypeOK
  <2>2. issued + 1 \in 1 .. MaxId /\ issued' = issued + 1
    BY DEF StartFails, Ids
  <2> QED
    BY <2>1, <2>2, BoundsAssumption
<1>3. TypeOK'
  <2>1. \A x \in Connections : pc'[x] # "idle" => Open(x)'
    BY <1>1 DEF TransactionInv, TypeOK, Open
  <2> QED
    BY <1>1, <1>2, <2>1 DEF TransactionInv, TypeOK
<1>4. NoBorrowedTransaction' /\ VersionNotOld'
  BY <1>1 DEF TransactionInv, NoBorrowedTransaction, VersionNotOld
<1>5. ASSUME NEW x \in Connections
      PROVE  {identifier'[x], plan'[x].id, request'[x].id} \subseteq (1 .. issued') \cup {NoId, None}
  BY <1>1, <1>2, HeldIds
<1> QED
  BY <1>1, <1>3, <1>4, <1>5 DEF TransactionInv

-----------------------------------------------------------------------------
(* Every other step of a connection takes it to another place with other   *)
(* versions, and moves identifiers only from its own transaction to its    *)
(* own plan and request, or gives them up.                                 *)

\* The step leaves other connections alone.
Elsewhere(c) ==
  \A x \in Connections \ {c} :
    /\ pc'[x] = pc[x] /\ seen'[x] = seen[x] /\ since'[x] = since[x]
    /\ identifier'[x] = identifier[x] /\ plan'[x] = plan[x] /\ request'[x] = request[x]

\* The types of what connections have.
Typed ==
  /\ pc \in [Connections -> Places]
  /\ identifier \in [Connections -> Ids \cup {NoId, None}]
  /\ seen \in [Connections -> Versions \cup {None}]
  /\ since \in [Connections -> Versions \cup {None}]
  /\ plan \in [Connections -> Plans] /\ request \in [Connections -> Requests]

LEMMA ConnectionStep ==
  ASSUME TransactionInv, NEW c \in Connections, Elsewhere(c), Typed',
         UNCHANGED <<issued, version>>,
         loaded' \in Versions \cup {None}, loaded' # None => loaded' <= version,
         identifier'[c] \in {identifier[c], None},
         plan'[c].id \in {identifier[c], plan[c].id},
         request'[c].id \in {identifier[c], plan[c].id, request[c].id, None},
         pc'[c] # "idle" => identifier'[c] # None /\ since'[c] # None,
         seen'[c] # None => seen'[c] <= version, since'[c] # None => since'[c] <= version,
         pc'[c] \in {"prepare call", "execute call", "prepare", "execute"} =>
           seen'[c] # None /\ seen'[c] >= since'[c]
  PROVE  TransactionInv'
<1>1. ASSUME NEW x \in Connections, x # c
      PROVE  /\ pc'[x] = pc[x] /\ seen'[x] = seen[x] /\ since'[x] = since[x]
             /\ identifier'[x] = identifier[x] /\ plan'[x] = plan[x] /\ request'[x] = request[x]
  BY <1>1 DEF Elsewhere
<1>2. TypeOK'
  <2>1. ASSUME NEW x \in Connections, pc'[x] # "idle" PROVE identifier'[x] # None
    BY <1>1, <2>1 DEF TransactionInv, TypeOK, Open
  <2> QED
    BY <2>1 DEF TransactionInv, TypeOK, Open, Typed
<1>3. NoBorrowedTransaction'
  <2> SUFFICES ASSUME NEW x \in Connections, NEW y \in Connections, x # y,
                      identifier'[y] \in Ids
               PROVE  identifier'[y] \notin {identifier'[x], plan'[x].id, request'[x].id}
    BY DEF NoBorrowedTransaction
  <2>1. None \notin Ids
    BY NoneApart
  <2>2. identifier'[y] = identifier[y]
    BY <1>1, <2>1
  <2>3. identifier[y] \notin {identifier[x], plan[x].id, request[x].id}
    BY <2>2 DEF TransactionInv, NoBorrowedTransaction
  <2> QED
    BY <1>1, <2>1, <2>2, <2>3
<1>4. VersionNotOld'
  BY <1>1 DEF TransactionInv, VersionNotOld
<1>5. ASSUME NEW x \in Connections
      PROVE  /\ {identifier'[x], plan'[x].id, request'[x].id} \subseteq (1 .. issued') \cup {NoId, None}
             /\ since'[x] # None => since'[x] <= version'
             /\ seen'[x] # None => seen'[x] <= version'
             /\ pc'[x] # "idle" => since'[x] # None
             /\ pc'[x] \in {"prepare call", "execute call", "prepare", "execute"} =>
                  seen'[x] # None /\ seen'[x] >= since'[x]
  <2>1. CASE x = c
    BY <2>1, HeldIds
  <2>2. CASE x # c
    <3>1. /\ since[x] # None => since[x] <= version
          /\ seen[x] # None => seen[x] <= version
          /\ pc[x] # "idle" => since[x] # None
          /\ pc[x] \in {"prepare call", "execute call", "prepare", "execute"} =>
               seen[x] # None /\ seen[x] >= since[x]
      BY DEF TransactionInv
    <3>2. {identifier'[x], plan'[x].id, request'[x].id} \subseteq (1 .. issued') \cup {NoId, None}
      <4>1. {identifier[x], plan[x].id, request[x].id} \subseteq (1 .. issued) \cup {NoId, None}
        BY HeldIds
      <4>2. identifier'[x] = identifier[x] /\ plan'[x] = plan[x] /\ request'[x] = request[x]
        BY <1>1, <2>2
      <4>3. issued' = issued
        OBVIOUS
      <4> QED
        BY <4>1, <4>2, <4>3, Zenon
    <3>3. pc'[x] = pc[x] /\ seen'[x] = seen[x] /\ since'[x] = since[x] /\ version' = version
      BY <1>1, <2>2
    <3>4. /\ since'[x] # None => since'[x] <= version'
          /\ seen'[x] # None => seen'[x] <= version'
      BY <3>1, <3>3
    <3>5. /\ pc'[x] # "idle" => since'[x] # None
          /\ pc'[x] \in {"prepare call", "execute call", "prepare", "execute"} =>
               seen'[x] # None /\ seen'[x] >= since'[x]
      BY <3>1, <3>3
    <3> QED
      BY <3>2, <3>4, <3>5
  <2> QED
    BY <2>1, <2>2
<1> QED
  BY <1>2, <1>3, <1>4, <1>5 DEF TransactionInv

\* What is known before the step.
LEMMA Now ==
  ASSUME TransactionInv
  PROVE  /\ Typed
         /\ loaded \in Versions \cup {None}
         /\ loaded # None => loaded <= version
         /\ version \in Versions /\ version # None /\ version <= version
         /\ \A c \in Connections :
              /\ seen[c] # None => seen[c] <= version
              /\ since[c] # None => since[c] <= version
              /\ pc[c] # "idle" => identifier[c] # None /\ since[c] # None
<1>1. version \in Versions /\ version # None
  BY NoneApart DEF TransactionInv, TypeOK
<1>2. version <= version
  BY <1>1 DEF Versions
<1> QED
  BY <1>1, <1>2 DEF TransactionInv, TypeOK, Typed, Open

LEMMA EndTransactionKeeps ==
  ASSUME TransactionInv, NEW c \in Connections, EndTransaction(c) PROVE TransactionInv'
<1>1. NoRequest \in Requests /\ NoRequest.id = None
  BY DEF NoRequest, Requests
<1>2. Typed' /\ Elsewhere(c) /\ pc'[c] = "idle"
  BY <1>1, Now DEF EndTransaction, Typed, Elsewhere
<1>3. identifier'[c] = None /\ request'[c].id = None /\ plan'[c] = plan[c]
  BY <1>1, Now DEF EndTransaction, Typed
<1> QED
  BY <1>2, <1>3, ConnectionStep, Now DEF EndTransaction

LEMMA AskVersionKeeps ==
  ASSUME TransactionInv, NEW c \in Connections, AskVersion(c) PROVE TransactionInv'
<1>1. Typed' /\ Elsewhere(c) /\ pc'[c] \in {"preparing", "checking"} /\ since'[c] = version
  BY Now DEF AskVersion, Goto, Typed, Elsewhere, Places
<1>2. identifier[c] # None
  BY DEF AskVersion, Open
<1> QED
  BY <1>1, <1>2, ConnectionStep, Now DEF AskVersion

\* A version is returned to whoever asked for it.
LEMMA ReturnVersionKeeps ==
  ASSUME TransactionInv, NEW c \in Connections, NEW v \in Versions,
         pc[c] # "idle", v <= version, v >= since[c], ReturnVersion(c, v),
         loaded' \in Versions \cup {None}, loaded' # None => loaded' <= version,
         UNCHANGED <<issued, version, identifier, since, plan, request>>
  PROVE  TransactionInv'
<1>1. Typed' /\ Elsewhere(c) /\ pc'[c] \in {"prepare", "execute"} /\ seen'[c] = v
  BY Now DEF ReturnVersion, Goto, Typed, Elsewhere, Places
<1>2. v # None
  BY NoneApart
<1> QED
  BY <1>1, <1>2, ConnectionStep, Now

\* A version that may be used without asking is that of a catalog that never changes.
LEMMA UseCachedVersionKeeps ==
  ASSUME TransactionInv, NEW c \in Connections, UseCachedVersion(c) PROVE TransactionInv'
<1>1. CachedVersion = loaded /\ loaded # None /\ Fixed /\ pc[c] # "idle"
  BY DEF UseCachedVersion, CachedVersion
<1>2. loaded \in Versions /\ loaded <= version /\ version = 1
  BY <1>1, Now DEF TransactionInv
<1>3. since[c] \in Versions /\ since[c] <= version
  BY <1>1, Now DEF Typed
<1>4. loaded >= since[c]
  BY <1>2, <1>3 DEF Versions
<1> QED
  BY <1>1, <1>2, <1>4, ReturnVersionKeeps DEF UseCachedVersion

LEMMA ServeVersionKeeps ==
  ASSUME TransactionInv, NEW c \in Connections, ServeVersion(c) PROVE TransactionInv'
<1>1. /\ Typed' /\ Elsewhere(c) /\ pc[c] # "idle"
      /\ pc'[c] \in {"prepare call", "execute call"} /\ seen'[c] = version
  BY Now DEF ServeVersion, Goto, Typed, Elsewhere, Places
<1>2. since[c] \in Versions /\ since[c] <= version
  BY <1>1, Now DEF Typed
<1>3. version >= since[c]
  BY <1>2, Now DEF Versions
<1> QED
  BY <1>1, <1>3, ConnectionStep, Now DEF ServeVersion

LEMMA SetLoadedVersionKeeps ==
  ASSUME TransactionInv, NEW c \in Connections, SetLoadedVersion(c) PROVE TransactionInv'
<1>1. pc[c] # "idle" /\ seen[c] # None /\ seen[c] >= since[c]
  BY DEF TransactionInv, SetLoadedVersion
<1>2. seen[c] \in Versions /\ seen[c] <= version
  BY <1>1, Now DEF Typed
<1> QED
  BY <1>1, <1>2, ReturnVersionKeeps DEF SetLoadedVersion

\* A connection that is idle again has no versions.
LEMMA IdleAgain ==
  ASSUME TransactionInv, NEW c \in Connections, Idle(c),
         plan' \in [Connections -> Plans] /\ request' \in [Connections -> Requests],
         \A x \in Connections \ {c} : plan'[x] = plan[x] /\ request'[x] = request[x],
         plan'[c].id \in {identifier[c], plan[c].id},
         request'[c].id \in {identifier[c], plan[c].id, request[c].id},
         UNCHANGED <<issued, version, loaded, identifier>>
  PROVE  TransactionInv'
<1>1. Typed' /\ Elsewhere(c) /\ pc'[c] = "idle" /\ seen'[c] = None /\ since'[c] = None
  BY Now DEF Idle, Goto, Typed, Elsewhere, Places
<1> QED
  BY <1>1, ConnectionStep, Now

LEMMA VersionFailsKeeps ==
  ASSUME TransactionInv, NEW c \in Connections, VersionFails(c) PROVE TransactionInv'
<1>1. Idle(c)
  BY DEF VersionFails, Idle
<1> QED
  BY <1>1, IdleAgain, Now DEF VersionFails, Typed

\* What is bound is the connection's own identifier.
LEMMA BoundPlan ==
  ASSUME TransactionInv, NEW c \in Connections
  PROVE  BindScan(c) \in Plans /\ BindScan(c).id = identifier[c]
BY Now DEF Typed, BindScan, Plans

LEMMA PrepareKeeps ==
  ASSUME TransactionInv, NEW c \in Connections, Prepare(c) PROVE TransactionInv'
<1>1. plan' \in [Connections -> Plans] /\ plan'[c] = BindScan(c)
  BY BoundPlan, Now DEF Prepare, Typed
<1>2. \A x \in Connections \ {c} : plan'[x] = plan[x]
  BY Now DEF Prepare, Typed
<1> QED
  BY <1>1, <1>2, BoundPlan, IdleAgain, Now DEF Prepare, Typed

LEMMA ExecuteKeeps ==
  ASSUME TransactionInv, NEW c \in Connections, Execute(c) PROVE TransactionInv'
<1> DEFINE p == IF plan[c].version = seen[c] THEN plan[c] ELSE BindScan(c)
           r == [kind |-> IF plan[c].version = seen[c] THEN "prepared" ELSE "scan",
                 id |-> plan'[c].id, own |-> identifier[c]]
<1>1. p \in Plans /\ p.id \in {identifier[c], plan[c].id}
  BY BoundPlan, Now DEF Typed
<1>2. plan' = [plan EXCEPT ![c] = p]
  BY DEF Execute
<1>3. request' = [request EXCEPT ![c] = r]
  BY DEF Execute
<1>4. /\ plan' \in [Connections -> Plans] /\ plan'[c] = p
      /\ \A x \in Connections \ {c} : plan'[x] = plan[x]
  <2> HIDE DEF p
  <2> QED
    BY <1>1, <1>2, Now DEF Typed
<1>5. p.id \in Ids \cup {NoId, None} /\ identifier[c] \in Ids \cup {NoId, None}
  BY <1>1, Now DEF Plans, Typed
<1>6. r \in Requests /\ r.id = p.id
  <2> HIDE DEF p
  <2> QED
    BY <1>4, <1>5 DEF Requests
<1> HIDE DEF p, r
<1>7. /\ request' \in [Connections -> Requests] /\ request'[c] = r
      /\ \A x \in Connections \ {c} : request'[x] = request[x]
  BY <1>3, <1>6, Now DEF Typed
<1>8. Idle(c) /\ UNCHANGED <<issued, version, loaded, identifier>>
  BY DEF Execute
<1> QED
  BY <1>1, <1>4, <1>6, <1>7, <1>8, IdleAgain

LEMMA StartExchangeKeeps ==
  ASSUME TransactionInv, NEW c \in Connections, StartExchange(c) PROVE TransactionInv'
<1> DEFINE r == [kind |-> "exchange", id |-> identifier[c], own |-> identifier[c]]
<1>1. r \in Requests /\ r.id = identifier[c]
  BY Now DEF Typed, Requests
<1>2. request' = [request EXCEPT ![c] = r]
  BY DEF StartExchange
<1>3. pc[c] = "idle" /\ UNCHANGED <<issued, version, loaded, pc, identifier, seen, since, plan>>
  BY DEF StartExchange
<1> HIDE DEF r
<1>4. Typed' /\ Elsewhere(c) /\ request'[c] = r
  BY <1>1, <1>2, <1>3, Now DEF Typed, Elsewhere
<1> QED
  BY <1>1, <1>3, <1>4, ConnectionStep, Now

-----------------------------------------------------------------------------
(* The catalog.                                                            *)

LEMMA LoadEntriesKeeps == ASSUME TransactionInv, LoadEntries PROVE TransactionInv'
<1>1. PICK v \in 1 .. version : loaded' = v
  BY DEF LoadEntries
<1>2. v \in Versions /\ v <= version
  <2>1. version \in 1 .. MaxVersion
    BY Now DEF Versions
  <2> QED
    BY <1>1, <2>1, BoundsAssumption DEF Versions
<1>3. UNCHANGED <<issued, version, pc, identifier, seen, since, plan, request>>
  BY DEF LoadEntries
<1>4. TypeOK'
  <2>1. \A x \in Connections : pc'[x] # "idle" => Open(x)'
    BY <1>3 DEF TransactionInv, TypeOK, Open
  <2> QED
    BY <1>1, <1>2, <1>3, <2>1 DEF TransactionInv, TypeOK
<1>5. NoBorrowedTransaction' /\ VersionNotOld'
  BY <1>3 DEF TransactionInv, NoBorrowedTransaction, VersionNotOld
<1> QED
  BY <1>1, <1>2, <1>3, <1>4, <1>5 DEF TransactionInv

LEMMA ServerChangesKeeps == ASSUME TransactionInv, ServerChanges PROVE TransactionInv'
<1>1. /\ ~Fixed /\ version' = version + 1 /\ version' \in Versions
      /\ UNCHANGED <<issued, loaded, pc, identifier, seen, since, plan, request>>
  BY DEF ServerChanges
<1>2. TypeOK'
  <2>1. \A x \in Connections : pc'[x] # "idle" => Open(x)'
    BY <1>1 DEF TransactionInv, TypeOK, Open
  <2> QED
    BY <1>1, <2>1 DEF TransactionInv, TypeOK
<1>3. NoBorrowedTransaction' /\ VersionNotOld'
  BY <1>1 DEF TransactionInv, NoBorrowedTransaction, VersionNotOld
<1>4. version \in Versions /\ loaded \in Versions \cup {None}
  BY DEF TransactionInv, TypeOK
<1>5. loaded' # None => loaded' <= version'
  BY <1>1, <1>4, Now, BoundsAssumption DEF Versions
<1>6. ASSUME NEW x \in Connections
      PROVE  (since'[x] # None => since'[x] <= version') /\ (seen'[x] # None => seen'[x] <= version')
  BY <1>1, <1>4, Now DEF Versions, Typed
<1> QED
  BY <1>1, <1>2, <1>3, <1>5, <1>6 DEF TransactionInv

-----------------------------------------------------------------------------

\* Every step keeps the invariant.
LEMMA NextTransactionInv == TransactionInv /\ [Next]_vars => TransactionInv'
<1> SUFFICES ASSUME TransactionInv, [Next]_vars PROVE TransactionInv'
  OBVIOUS
<1>1. CASE UNCHANGED vars
  BY <1>1 DEF vars, TransactionInv, TypeOK, NoBorrowedTransaction, VersionNotOld, Open
<1> QED
  BY <1>1, StartTransactionKeeps, StartFailsKeeps, EndTransactionKeeps, AskVersionKeeps,
     UseCachedVersionKeeps, ServeVersionKeeps, SetLoadedVersionKeeps, VersionFailsKeeps,
     PrepareKeeps, ExecuteKeeps, StartExchangeKeeps, LoadEntriesKeeps, ServerChangesKeeps
     DEF Next

\* The inductive invariant of transactions and of the catalog's version.
THEOREM TransactionInvariant == Spec => []TransactionInv
<1> QED BY InitTransactionInv, NextTransactionInv, PTL DEF Spec

\* Nothing is done in a transaction another connection has open, however often its start
\* has been repeated (airport_transaction.cpp, GetScanFunction).
THEOREM OwnTransaction == Spec => []NoBorrowedTransaction
<1>1. TransactionInv => NoBorrowedTransaction
  BY DEF TransactionInv
<1> QED BY <1>1, TransactionInvariant, PTL

\* A plan is made, or used again, only with a version the server had after it was asked
\* for, whatever other connections store meanwhile (GetCatalogVersion).
THEOREM VersionCurrent == Spec => []VersionNotOld
<1>1. TransactionInv => VersionNotOld
  BY DEF TransactionInv
<1> QED BY <1>1, TransactionInvariant, PTL

-----------------------------------------------------------------------------
(* The schemas of a catalog.                                               *)

USE DEF Schemas!set, Schemas!locks, Schemas!remote, Schemas!local, Schemas!ghost,
        Schemas!Goto, Schemas!End, Schemas!StartLoad, Schemas!AfterLoad,
        Schemas!Changing, Schemas!InLoad, Schemas!InEntries, Schemas!Use, Schemas!Undisturbed,
        Schemas!Creates, Schemas!Changes

LEMMA InitSchemaSetInv ==
  ASSUME Schemas!Init PROVE Schemas!SchemaSetInv
<1>1. Schemas!TypeOK
  <2>1. 0 \in 0 .. MaxChanges /\ catalog_default \in Names
    BY SchemasAssumption DEF Schemas!Init, Schemas!MainAssumption, Schemas!MaxChangesAssumption,
                             Schemas!CatalogDefault
  <2> QED
    BY <2>1 DEF Schemas!Init, Schemas!TypeOK, Schemas!Places
<1>2. catalog_default = Main
  BY DEF Schemas!Init, Schemas!CatalogDefault
<1>3. \A t \in Connections : Schemas!StatementInv(t)
  BY DEF Schemas!Init, Schemas!StatementInv
<1>4. Schemas!LoadInv /\ Schemas!EntriesInv /\ Schemas!CompleteInv
  BY DEF Schemas!Init, Schemas!LoadInv, Schemas!EntriesInv, Schemas!CompleteInv
<1> QED
  BY <1>1, <1>2, <1>3, <1>4 DEF Schemas!SchemaSetInv

\* One lemma for each step of a statement: what it does to the types, to what is known of
\* statements, to loads and to what is entered.
LEMMA BeginKeeps ==
  ASSUME Schemas!SchemaSetInv, NEW t \in Connections,
         NEW s \in Schemas!Statements, Schemas!Begin(t, s)
  PROVE  Schemas!SchemaSetInv'
<1> USE DEF Schemas!Begin, Schemas!Entry
<1>t. Schemas!TypeOK
  BY DEF Schemas!SchemaSetInv
<1>a. /\ place' = [place EXCEPT ![t] = Schemas!Entry(s)] /\ stmt' = [stmt EXCEPT ![t] = s]
      /\ place[t] = "idle" /\ unsure \subseteq unsure'
      /\ UNCHANGED <<loading, listing, entries, torn, server, called_load_entries, is_loaded, base_lock,
                     collection, raced, partial>>
  OBVIOUS
<1>b. /\ Schemas!Entry(s) \in {"base lock", "set lock", "request", "drop", "clear"}
      /\ Schemas!Entry(s) \in {"request", "drop"} => s.kind \in Schemas!Changes
  BY SchemasAssumption DEF Schemas!KindsAssumption, Schemas!Statements
<1>c. /\ place'[t] = Schemas!Entry(s) /\ stmt'[t] = s
      /\ \A u \in Connections \ {t} : place'[u] = place[u] /\ stmt'[u] = stmt[u]
  BY <1>t, <1>a DEF Schemas!TypeOK
<1>1. Schemas!TypeOK'
  <2>1. place' \in [Connections -> Schemas!Places]
    BY <1>t, <1>a, <1>b DEF Schemas!TypeOK, Schemas!Places
  <2>2. unsure' \subseteq Names
    BY <1>t DEF Schemas!TypeOK, Schemas!Statements
  <2>3. stmt' \in [Connections -> Schemas!Statements \cup {None}]
    BY <1>t, <1>a DEF Schemas!TypeOK
  <2>4. UNCHANGED <<set_lock, set_default, catalog_default, server_default, changes>>
    OBVIOUS
  <2> HIDE DEF Schemas!Begin, Schemas!Entry
  <2> QED
    BY <1>t, <1>a, <2>1, <2>2, <2>3, <2>4 DEF Schemas!TypeOK
<1>5. catalog_default' = Main
  BY DEF Schemas!SchemaSetInv
<1>2. ASSUME NEW u \in Connections PROVE Schemas!StatementInv(u)'
  <2>1. Schemas!StatementInv(u)
    BY DEF Schemas!SchemaSetInv
  <2>2. ASSUME NEW v \in Connections \ {u}, Schemas!Changing(u)', Schemas!Changing(v)',
               stmt'[v].name = stmt'[u].name
        PROVE  stmt'[u].name \in unsure'
    <3>1. CASE t \notin {u, v}
      BY <1>a, <1>c, <2>1, <2>2, <3>1 DEF Schemas!StatementInv
    <3>2. ASSUME NEW w \in Connections \ {t}, Schemas!Changing(w), stmt[w].name = s.name,
                 s.kind \in Schemas!Changes
          PROVE  s.name \in unsure'
      BY <3>2
    <3>3. CASE t = u
      <4>1. Schemas!Changing(v) /\ stmt[v].name = s.name /\ s.kind \in Schemas!Changes /\ v # t
        BY <1>c, <2>2, <3>3
      <4> QED
        BY <1>c, <3>2, <3>3, <4>1
    <3>4. CASE t = v
      <4>1. Schemas!Changing(u) /\ stmt[u].name = s.name /\ s.kind \in Schemas!Changes /\ u # t
        BY <1>c, <2>2, <3>4
      <4> QED
        BY <1>c, <2>2, <3>2, <3>4, <4>1
    <3> QED
      BY <3>1, <3>3, <3>4
  <2> HIDE DEF Schemas!Begin, Schemas!Entry
  <2>3. CASE u = t
    BY <1>a, <1>b, <1>c, <2>2, <2>3 DEF Schemas!StatementInv
  <2>4. CASE u # t
    BY <1>a, <1>c, <2>1, <2>2, <2>4 DEF Schemas!StatementInv
  <2> QED
    BY <2>3, <2>4
<1> HIDE DEF Schemas!Begin, Schemas!Entry
<1>i. \A u \in Connections : /\ Schemas!InLoad(u)' <=> Schemas!InLoad(u)
                         /\ \A p \in {"list", "insert", "find", "answered", "entering"} : place'[u] = p <=> place[u] = p
  BY <1>a, <1>b, <1>c
<1>3. ASSUME Schemas!Clean' PROVE Schemas!LoadInv'
  <2>1. Schemas!LoadInv
    BY <1>3, <1>a DEF Schemas!SchemaSetInv, Schemas!Clean
  <2> QED
    BY <2>1, <1>i, <1>a DEF Schemas!LoadInv
<1>u. \A n \in Names : Schemas!Settled(n)' => Schemas!Settled(n)
  BY <1>i, <1>a, <1>b, <1>c DEF Schemas!Settled
<1>4. ASSUME ~torn' PROVE Schemas!EntriesInv'
  <2>1. Schemas!EntriesInv
    BY <1>4, <1>a DEF Schemas!SchemaSetInv
  <2> QED
    BY <2>1, <1>u, <1>i, <1>a DEF Schemas!EntriesInv
<1>6. ASSUME Schemas!Clean' PROVE Schemas!CompleteInv'
  <2>1. Schemas!CompleteInv
    BY <1>6, <1>a DEF Schemas!SchemaSetInv, Schemas!Clean
  <2> QED
    BY <2>1, <1>u, <1>i, <1>a DEF Schemas!CompleteInv
<1> QED
  BY <1>1, <1>2, <1>3, <1>4, <1>5, <1>6 DEF Schemas!SchemaSetInv

\* A load that does something is the only one, or it is noted that it races.
LEMMA LoadEntireSetKeeps ==
  ASSUME Schemas!SchemaSetInv, NEW t \in Connections,
         Schemas!LoadEntireSet(t)
  PROVE  Schemas!SchemaSetInv'
<1> USE DEF Schemas!LoadEntireSet
<1>t. Schemas!TypeOK
  BY DEF Schemas!SchemaSetInv
<1>o. \A u \in Connections \ {t} : place'[u] = place[u] /\ loading'[u] = loading[u]
  BY <1>t DEF Schemas!TypeOK
<1>s. Schemas!StatementInv(t) /\ \A u \in Connections : Schemas!StatementInv(u)
  BY DEF Schemas!SchemaSetInv

<1>a. /\ place[t] = "set lock"
      /\ \/ /\ called_load_entries /\ place'[t] = "base lock" /\ UNCHANGED <<loading, raced>>
         \/ /\ ~called_load_entries /\ place'[t] = "load" /\ loading'[t] = "LoadEntireSet"
            /\ raced' = (raced \/ \E u \in Connections : Schemas!InLoad(u))
      /\ UNCHANGED <<torn, is_loaded, called_load_entries, collection, base_lock, server, stmt,
                     unsure, partial>>
  BY <1>t DEF Schemas!TypeOK
<1>1. Schemas!TypeOK'
  BY <1>t DEF Schemas!TypeOK, Schemas!Places
<1>2. ASSUME NEW u \in Connections PROVE Schemas!StatementInv(u)'
  <2> HIDE DEF Schemas!LoadEntireSet
  <2>1. \A v \in Connections : Schemas!Changing(v)' <=> Schemas!Changing(v)
    BY <1>a, <1>o
  <2>2. CASE u = t
    BY <1>a, <1>o, <1>s, <2>2 DEF Schemas!StatementInv
  <2>3. CASE u # t
    <3>1. ASSUME NEW v \in Connections \ {u}, Schemas!Changing(u)', Schemas!Changing(v)',
                 stmt'[v].name = stmt'[u].name
          PROVE  stmt'[u].name \in unsure'
      <4> HIDE DEF Schemas!Changing
      <4> QED
        BY <1>a, <1>s, <2>1, <3>1 DEF Schemas!StatementInv
    <3> QED
      BY <1>a, <1>o, <1>s, <2>3, <3>1 DEF Schemas!StatementInv
  <2> QED
    BY <2>2, <2>3
<1>3. ASSUME Schemas!Clean' PROVE Schemas!LoadInv'
  <2> HIDE DEF Schemas!LoadEntireSet
  <2>1. Schemas!LoadInv
    BY <1>3, <1>a DEF Schemas!SchemaSetInv, Schemas!Clean
  <2>2. CASE called_load_entries
    BY <1>a, <1>o, <2>1, <2>2 DEF Schemas!LoadInv
  <2>3. CASE ~called_load_entries
    <3>1. \A u \in Connections : ~Schemas!InLoad(u)
      BY <1>3, <1>a, <2>3 DEF Schemas!Clean
    <3>2. ~is_loaded
      BY <2>1, <2>3, <3>1 DEF Schemas!LoadInv
    <3> QED
      BY <1>a, <1>o, <2>1, <2>3, <3>1, <3>2 DEF Schemas!LoadInv
  <2> QED
    BY <2>2, <2>3
<1>4. ASSUME ~torn' PROVE Schemas!EntriesInv'
  <2>1. /\ UNCHANGED <<entries, server, stmt, unsure, listing>>
        /\ \A u \in Connections, p \in {"insert", "answered", "entering"} : place'[u] = p <=> place[u] = p
    BY <1>a, <1>o
  <2> HIDE DEF Schemas!LoadEntireSet, Schemas!Use, Schemas!StartLoad
  <2>2. ~torn
    BY <1>4, <1>a
  <2>3. Schemas!EntriesInv
    BY <2>2 DEF Schemas!SchemaSetInv
  <2>4. \A u, v \in Connections : Schemas!InEntries(u)' /\ Schemas!InEntries(v)' => u = v
    BY <1>4, <1>a, <1>o, <2>3 DEF Schemas!EntriesInv
  <2> QED
    BY <2>1, <2>3, <2>4 DEF Schemas!EntriesInv, Schemas!Settled
<1>6. ASSUME Schemas!Clean' PROVE Schemas!CompleteInv'
  BY <1>t, <1>6 DEF Schemas!SchemaSetInv, Schemas!TypeOK, Schemas!StatementInv, Schemas!Clean,
                    Schemas!LoadInv, Schemas!EntriesInv, Schemas!CompleteInv, Schemas!Settled
<1>5. catalog_default' = Main
  BY DEF Schemas!SchemaSetInv
<1> QED
  BY <1>1, <1>2, <1>3, <1>4, <1>5, <1>6 DEF Schemas!SchemaSetInv

\* Whoever gets the lock of a loaded set finds it loaded, or notices the load of a drop.
LEMMA LockKeeps ==
  ASSUME Schemas!SchemaSetInv, NEW t \in Connections,
         Schemas!Lock(t)
  PROVE  Schemas!SchemaSetInv'
<1> USE DEF Schemas!Lock
<1>t. Schemas!TypeOK
  BY DEF Schemas!SchemaSetInv
<1>o. \A u \in Connections \ {t} : place'[u] = place[u] /\ loading'[u] = loading[u]
  BY <1>t DEF Schemas!TypeOK
<1>s. Schemas!StatementInv(t) /\ \A u \in Connections : Schemas!StatementInv(u)
  BY DEF Schemas!SchemaSetInv

<1>a. /\ place[t] = "base lock" /\ base_lock = NoThread /\ base_lock' = t /\ is_loaded'
      /\ torn => torn'
      /\ \/ /\ ~is_loaded /\ place'[t] = "load" /\ loading'[t] = "GetEntry"
            /\ raced' = (raced \/ (~called_load_entries /\ \E u \in Connections : Schemas!InLoad(u)))
         \/ /\ is_loaded /\ place'[t] = "find" /\ UNCHANGED loading
            /\ ~torn' => \A u \in Connections \ {t} : ~Schemas!InEntries(u)
            /\ raced' = (raced \/ \E u \in Connections : Schemas!InLoad(u) /\ loading[u] = "DropEntry")
      /\ UNCHANGED <<called_load_entries, collection, server, stmt, unsure, partial>>
  BY <1>t DEF Schemas!TypeOK
<1>n. NoThread \notin Connections
  BY SchemasAssumption DEF Schemas!NoThreadAssumption
<1>1. Schemas!TypeOK'
  BY <1>t DEF Schemas!TypeOK, Schemas!Places
<1>2. ASSUME NEW u \in Connections PROVE Schemas!StatementInv(u)'
  <2> HIDE DEF Schemas!Lock
  <2>1. CASE u = t
    BY <1>a, <1>o, <1>s, <2>1 DEF Schemas!StatementInv
  <2>2. CASE u # t
    <3>1. ~(place[u] = "find" \/ (Schemas!InLoad(u) /\ loading[u] = "GetEntry"))
      BY <1>a, <1>n, <1>s DEF Schemas!StatementInv
    <3> QED
      BY <1>a, <1>o, <1>s, <2>2, <3>1 DEF Schemas!StatementInv
  <2> QED
    BY <2>1, <2>2
<1>3. ASSUME Schemas!Clean' PROVE Schemas!LoadInv'
  <2> HIDE DEF Schemas!Lock
  <2>1. Schemas!LoadInv
    BY <1>3, <1>a DEF Schemas!SchemaSetInv, Schemas!Clean
  <2>2. is_loaded => called_load_entries
    <3>1. \A u \in Connections : ~(Schemas!InLoad(u) /\ loading[u] = "GetEntry")
      BY <1>a, <1>n, <1>s DEF Schemas!StatementInv
    <3>2. is_loaded => \A u \in Connections : ~(Schemas!InLoad(u) /\ loading[u] = "DropEntry")
      BY <1>3, <1>a DEF Schemas!Clean
    <3> QED
      BY <2>1, <3>1, <3>2 DEF Schemas!LoadInv
  <2>3. ~called_load_entries => \A u \in Connections : ~Schemas!InLoad(u)
    BY <1>3, <1>a, <2>2 DEF Schemas!Clean
  <2> QED
    BY <1>a, <1>o, <2>1, <2>2, <2>3 DEF Schemas!LoadInv
<1>4. ASSUME ~torn' PROVE Schemas!EntriesInv'
  <2>1. /\ UNCHANGED <<entries, server, stmt, unsure, listing>>
        /\ \A u \in Connections, p \in {"insert", "answered", "entering"} : place'[u] = p <=> place[u] = p
    BY <1>a, <1>o
  <2> HIDE DEF Schemas!Lock, Schemas!Use, Schemas!StartLoad
  <2>2. ~torn
    BY <1>4, <1>a
  <2>3. Schemas!EntriesInv
    BY <2>2 DEF Schemas!SchemaSetInv
  <2>4. \A u, v \in Connections : Schemas!InEntries(u)' /\ Schemas!InEntries(v)' => u = v
    BY <1>4, <1>a, <1>o, <2>3 DEF Schemas!EntriesInv
  <2> QED
    BY <2>1, <2>3, <2>4 DEF Schemas!EntriesInv, Schemas!Settled
<1>6. ASSUME Schemas!Clean' PROVE Schemas!CompleteInv'
  BY <1>t, <1>6 DEF Schemas!SchemaSetInv, Schemas!TypeOK, Schemas!StatementInv, Schemas!Clean,
                    Schemas!LoadInv, Schemas!EntriesInv, Schemas!CompleteInv, Schemas!Settled
<1>5. catalog_default' = Main
  BY DEF Schemas!SchemaSetInv
<1> QED
  BY <1>1, <1>2, <1>3, <1>4, <1>5, <1>6 DEF Schemas!SchemaSetInv

LEMMA EnterDropKeeps ==
  ASSUME Schemas!SchemaSetInv, NEW t \in Connections,
         Schemas!EnterDrop(t)
  PROVE  Schemas!SchemaSetInv'
<1> USE DEF Schemas!EnterDrop
<1>t. Schemas!TypeOK
  BY DEF Schemas!SchemaSetInv
<1>o. \A u \in Connections \ {t} : place'[u] = place[u] /\ loading'[u] = loading[u]
  BY <1>t DEF Schemas!TypeOK
<1>s. Schemas!StatementInv(t) /\ \A u \in Connections : Schemas!StatementInv(u)
  BY DEF Schemas!SchemaSetInv

<1>a. /\ place[t] = "drop" /\ is_loaded'
      /\ \/ /\ is_loaded /\ place'[t] = "request" /\ UNCHANGED <<loading, raced>>
         \/ /\ ~is_loaded /\ place'[t] = "load" /\ loading'[t] = "DropEntry"
            /\ raced' = (raced \/ (~called_load_entries /\ \E u \in Connections : Schemas!InLoad(u)))
      /\ UNCHANGED <<torn, called_load_entries, collection, base_lock, server, stmt, unsure, partial>>
  BY <1>t DEF Schemas!TypeOK
<1>1. Schemas!TypeOK'
  BY <1>t DEF Schemas!TypeOK, Schemas!Places
<1>2. ASSUME NEW u \in Connections PROVE Schemas!StatementInv(u)'
  BY <1>t, SchemasAssumption DEF Schemas!SchemaSetInv, Schemas!TypeOK, Schemas!StatementInv,
                                 Schemas!Statements
<1>3. ASSUME Schemas!Clean' PROVE Schemas!LoadInv'
  <2> HIDE DEF Schemas!EnterDrop
  <2>1. Schemas!LoadInv
    <3>1. ~torn /\ ~raced /\ ~partial
      <4>1. raced => raced'
        BY <1>a
      <4> QED
        BY <1>3, <1>a, <4>1 DEF Schemas!Clean
    <3> QED
      BY <3>1 DEF Schemas!SchemaSetInv, Schemas!Clean
  <2>2. CASE is_loaded
    BY <1>a, <1>o, <2>1, <2>2 DEF Schemas!LoadInv
  <2>3. CASE ~is_loaded
    <3>1. ~called_load_entries => \A u \in Connections : ~Schemas!InLoad(u)
      BY <1>3, <1>a, <2>3 DEF Schemas!Clean
    <3> QED
      BY <1>a, <1>o, <2>1, <2>3, <3>1 DEF Schemas!LoadInv
  <2> QED
    BY <2>2, <2>3
<1>4. ASSUME ~torn' PROVE Schemas!EntriesInv'
  BY <1>t, <1>4 DEF Schemas!SchemaSetInv, Schemas!TypeOK, Schemas!StatementInv,
                    Schemas!EntriesInv, Schemas!Settled
<1>6. ASSUME Schemas!Clean' PROVE Schemas!CompleteInv'
  BY <1>t, <1>6 DEF Schemas!SchemaSetInv, Schemas!TypeOK, Schemas!StatementInv, Schemas!Clean,
                    Schemas!LoadInv, Schemas!EntriesInv, Schemas!CompleteInv, Schemas!Settled
<1>5. catalog_default' = Main
  BY DEF Schemas!SchemaSetInv
<1> QED
  BY <1>1, <1>2, <1>3, <1>4, <1>5, <1>6 DEF Schemas!SchemaSetInv

LEMMA EnterLoadKeeps ==
  ASSUME Schemas!SchemaSetInv, NEW t \in Connections,
         Schemas!EnterLoad(t)
  PROVE  Schemas!SchemaSetInv'
<1> USE DEF Schemas!EnterLoad
<1>t. Schemas!TypeOK
  BY DEF Schemas!SchemaSetInv
<1>o. \A u \in Connections \ {t} : place'[u] = place[u] /\ loading'[u] = loading[u]
  BY <1>t DEF Schemas!TypeOK
<1>s. Schemas!StatementInv(t) /\ \A u \in Connections : Schemas!StatementInv(u)
  BY DEF Schemas!SchemaSetInv

<1>a. /\ place[t] = "load"
      /\ \/ /\ ~called_load_entries /\ place'[t] = "list" /\ UNCHANGED loading
         \/ /\ called_load_entries /\ loading'[t] = "nobody"
            /\ \/ loading[t] = "LoadEntireSet" /\ place'[t] = "base lock"
               \/ /\ loading[t] = "GetEntry" /\ place'[t] = "find"
                  /\ ~torn' => \A u \in Connections \ {t} : ~Schemas!InEntries(u)
               \/ loading[t] = "DropEntry" /\ place'[t] = "request"
      /\ torn => torn'
      /\ UNCHANGED <<entries, is_loaded, called_load_entries, collection, base_lock, server, stmt,
                     listing, unsure, raced, partial>>
  <2>1. loading[t] \in {"LoadEntireSet", "GetEntry", "DropEntry"}
    BY <1>t, <1>s DEF Schemas!TypeOK, Schemas!StatementInv
  <2> QED
    BY <1>t, <2>1 DEF Schemas!TypeOK
<1>1. Schemas!TypeOK'
  <2>1. /\ place' = [place EXCEPT ![t] = place'[t]] /\ loading' = [loading EXCEPT ![t] = loading'[t]]
        /\ set_lock' \in {set_lock, NoThread} /\ torn' \in BOOLEAN
        /\ UNCHANGED <<set_default, catalog_default, server_default, changes>>
    BY <1>t DEF Schemas!TypeOK
  <2> HIDE DEF Schemas!EnterLoad
  <2> QED
    BY <1>t, <1>a, <2>1 DEF Schemas!TypeOK, Schemas!Places
<1>5. catalog_default' = Main
  BY DEF Schemas!SchemaSetInv
<1>2. ASSUME NEW u \in Connections PROVE Schemas!StatementInv(u)'
  <2> HIDE DEF Schemas!EnterLoad
  <2>1. \A v \in Connections : Schemas!Changing(v)' <=> Schemas!Changing(v)
    BY <1>a, <1>o
  <2>2. CASE u = t
    BY <1>a, <1>o, <1>s, <2>2 DEF Schemas!StatementInv
  <2>3. CASE u # t
    <3>1. ASSUME NEW v \in Connections \ {u}, Schemas!Changing(u)', Schemas!Changing(v)',
                 stmt'[v].name = stmt'[u].name
          PROVE  stmt'[u].name \in unsure'
      <4> HIDE DEF Schemas!Changing
      <4> QED
        BY <1>a, <1>s, <2>1, <3>1 DEF Schemas!StatementInv
    <3> QED
      BY <1>a, <1>o, <1>s, <2>3, <3>1 DEF Schemas!StatementInv
  <2> QED
    BY <2>2, <2>3
<1> HIDE DEF Schemas!EnterLoad
<1>3. ASSUME Schemas!Clean' PROVE Schemas!LoadInv'
  <2>1. Schemas!LoadInv
    BY <1>3, <1>a DEF Schemas!SchemaSetInv, Schemas!Clean
  <2>2. CASE called_load_entries
    BY <1>a, <1>o, <2>1, <2>2 DEF Schemas!LoadInv
  <2>3. CASE ~called_load_entries
    BY <1>a, <1>o, <2>1, <2>3 DEF Schemas!LoadInv
  <2> QED
    BY <2>2, <2>3
<1>i. \A u \in Connections, p \in {"insert", "answered", "entering"} : place'[u] = p <=> place[u] = p
  BY <1>a, <1>o
<1>4. ASSUME ~torn' PROVE Schemas!EntriesInv'
  <2>1. Schemas!EntriesInv
    BY <1>4, <1>a DEF Schemas!SchemaSetInv
  <2>2. \A u, v \in Connections : Schemas!InEntries(u)' /\ Schemas!InEntries(v)' => u = v
    BY <1>4, <1>a, <1>o, <2>1 DEF Schemas!EntriesInv
  <2> QED
    BY <2>1, <2>2, <1>i, <1>a DEF Schemas!EntriesInv, Schemas!Settled
<1>6. ASSUME Schemas!Clean' PROVE Schemas!CompleteInv'
  <2>1. Schemas!CompleteInv
    BY <1>6, <1>a DEF Schemas!SchemaSetInv, Schemas!Clean
  <2> QED
    BY <2>1, <1>i, <1>a DEF Schemas!CompleteInv, Schemas!Settled
<1> QED
  BY <1>1, <1>2, <1>3, <1>4, <1>5, <1>6 DEF Schemas!SchemaSetInv

LEMMA ListSchemasKeeps ==
  ASSUME Schemas!SchemaSetInv, NEW t \in Connections,
         Schemas!ListSchemas(t)
  PROVE  Schemas!SchemaSetInv'
<1> USE DEF Schemas!ListSchemas
<1>t. Schemas!TypeOK
  BY DEF Schemas!SchemaSetInv
<1>1. Schemas!TypeOK'
  BY <1>t DEF Schemas!TypeOK, Schemas!Places
<1>2. ASSUME NEW u \in Connections PROVE Schemas!StatementInv(u)'
  BY <1>t, SchemasAssumption DEF Schemas!SchemaSetInv, Schemas!TypeOK, Schemas!StatementInv,
                                 Schemas!Statements
<1>3. ASSUME Schemas!Clean' PROVE Schemas!LoadInv'
  BY <1>t, <1>3, SchemasAssumption DEF Schemas!SchemaSetInv, Schemas!TypeOK,
                                       Schemas!StatementInv, Schemas!Clean, Schemas!LoadInv,
                                       Schemas!NoThreadAssumption
<1>4. ASSUME ~torn' PROVE Schemas!EntriesInv'
  BY <1>t, <1>4 DEF Schemas!SchemaSetInv, Schemas!TypeOK, Schemas!StatementInv,
                    Schemas!EntriesInv, Schemas!Settled
<1>6. ASSUME Schemas!Clean' PROVE Schemas!CompleteInv'
  BY <1>t, <1>6 DEF Schemas!SchemaSetInv, Schemas!TypeOK, Schemas!StatementInv, Schemas!Clean,
                    Schemas!LoadInv, Schemas!EntriesInv, Schemas!CompleteInv, Schemas!Settled
<1>5. catalog_default' = Main
  BY DEF Schemas!SchemaSetInv
<1> QED
  BY <1>1, <1>2, <1>3, <1>4, <1>5, <1>6 DEF Schemas!SchemaSetInv

LEMMA InsertSchemaKeeps ==
  ASSUME Schemas!SchemaSetInv, NEW t \in Connections,
         Schemas!InsertSchema(t)
  PROVE  Schemas!SchemaSetInv'
<1> USE DEF Schemas!InsertSchema
<1>t. Schemas!TypeOK
  BY DEF Schemas!SchemaSetInv
<1>1. Schemas!TypeOK'
  BY <1>t DEF Schemas!TypeOK, Schemas!Places
<1>2. ASSUME NEW u \in Connections PROVE Schemas!StatementInv(u)'
  BY <1>t, SchemasAssumption DEF Schemas!SchemaSetInv, Schemas!TypeOK, Schemas!StatementInv,
                                 Schemas!Statements
<1>3. ASSUME Schemas!Clean' PROVE Schemas!LoadInv'
  BY <1>t, <1>3, SchemasAssumption DEF Schemas!SchemaSetInv, Schemas!TypeOK,
                                       Schemas!StatementInv, Schemas!Clean, Schemas!LoadInv,
                                       Schemas!NoThreadAssumption
<1>4. ASSUME ~torn' PROVE Schemas!EntriesInv'
  BY <1>t, <1>4 DEF Schemas!SchemaSetInv, Schemas!TypeOK, Schemas!StatementInv,
                    Schemas!EntriesInv, Schemas!Settled
<1>6. ASSUME Schemas!Clean' PROVE Schemas!CompleteInv'
  BY <1>t, <1>6 DEF Schemas!SchemaSetInv, Schemas!TypeOK, Schemas!StatementInv, Schemas!Clean,
                    Schemas!LoadInv, Schemas!EntriesInv, Schemas!CompleteInv, Schemas!Settled
<1>5. catalog_default' = Main
  BY DEF Schemas!SchemaSetInv
<1> QED
  BY <1>1, <1>2, <1>3, <1>4, <1>5, <1>6 DEF Schemas!SchemaSetInv

LEMMA FinishLoadKeeps ==
  ASSUME Schemas!SchemaSetInv, NEW t \in Connections,
         Schemas!FinishLoad(t)
  PROVE  Schemas!SchemaSetInv'
<1> USE DEF Schemas!FinishLoad
<1>t. Schemas!TypeOK
  BY DEF Schemas!SchemaSetInv
<1>l. loading[t] \in {"LoadEntireSet", "GetEntry", "DropEntry"}
  BY <1>t DEF Schemas!TypeOK, Schemas!SchemaSetInv, Schemas!StatementInv
<1>1. Schemas!TypeOK'
  <2>1. place' \in [Connections -> Schemas!Places]
    BY <1>t, <1>l DEF Schemas!TypeOK, Schemas!Places
  <2> QED
    BY <1>t, <2>1 DEF Schemas!TypeOK
<1>2. ASSUME NEW u \in Connections PROVE Schemas!StatementInv(u)'
  BY <1>t, SchemasAssumption DEF Schemas!SchemaSetInv, Schemas!TypeOK, Schemas!StatementInv,
                                 Schemas!Statements
<1>3. ASSUME Schemas!Clean' PROVE Schemas!LoadInv'
  BY <1>t, <1>3, SchemasAssumption DEF Schemas!SchemaSetInv, Schemas!TypeOK,
                                       Schemas!StatementInv, Schemas!Clean, Schemas!LoadInv,
                                       Schemas!NoThreadAssumption
<1>4. ASSUME ~torn' PROVE Schemas!EntriesInv'
  BY <1>t, <1>4 DEF Schemas!SchemaSetInv, Schemas!TypeOK, Schemas!StatementInv,
                    Schemas!EntriesInv, Schemas!Settled
<1>6. ASSUME Schemas!Clean' PROVE Schemas!CompleteInv'
  BY <1>t, <1>6 DEF Schemas!SchemaSetInv, Schemas!TypeOK, Schemas!StatementInv, Schemas!Clean,
                    Schemas!LoadInv, Schemas!EntriesInv, Schemas!CompleteInv, Schemas!Settled
<1>5. catalog_default' = Main
  BY DEF Schemas!SchemaSetInv
<1> QED
  BY <1>1, <1>2, <1>3, <1>4, <1>5, <1>6 DEF Schemas!SchemaSetInv

LEMMA LoadFailsKeeps ==
  ASSUME Schemas!SchemaSetInv, NEW t \in Connections,
         Schemas!LoadFails(t)
  PROVE  Schemas!SchemaSetInv'
<1> USE DEF Schemas!LoadFails
<1>t. Schemas!TypeOK
  BY DEF Schemas!SchemaSetInv
<1>1. Schemas!TypeOK'
  BY <1>t DEF Schemas!TypeOK, Schemas!Places
<1>2. ASSUME NEW u \in Connections PROVE Schemas!StatementInv(u)'
  BY <1>t, SchemasAssumption DEF Schemas!SchemaSetInv, Schemas!TypeOK, Schemas!StatementInv,
                                 Schemas!Statements
<1>3. ASSUME Schemas!Clean' PROVE Schemas!LoadInv'
  BY <1>t, <1>3, SchemasAssumption DEF Schemas!SchemaSetInv, Schemas!TypeOK,
                                       Schemas!StatementInv, Schemas!Clean, Schemas!LoadInv,
                                       Schemas!NoThreadAssumption
<1>4. ASSUME ~torn' PROVE Schemas!EntriesInv'
  BY <1>t, <1>4 DEF Schemas!SchemaSetInv, Schemas!TypeOK, Schemas!StatementInv,
                    Schemas!EntriesInv, Schemas!Settled
<1>6. ASSUME Schemas!Clean' PROVE Schemas!CompleteInv'
  BY <1>t, <1>6 DEF Schemas!SchemaSetInv, Schemas!TypeOK, Schemas!StatementInv, Schemas!Clean,
                    Schemas!LoadInv, Schemas!EntriesInv, Schemas!CompleteInv, Schemas!Settled
<1>5. catalog_default' = Main
  BY DEF Schemas!SchemaSetInv
<1> QED
  BY <1>1, <1>2, <1>3, <1>4, <1>5, <1>6 DEF Schemas!SchemaSetInv

LEMMA FindKeeps ==
  ASSUME Schemas!SchemaSetInv, NEW t \in Connections,
         Schemas!Find(t)
  PROVE  Schemas!SchemaSetInv'
<1> USE DEF Schemas!Find
<1>t. Schemas!TypeOK
  BY DEF Schemas!SchemaSetInv
<1>1. Schemas!TypeOK'
  BY <1>t DEF Schemas!TypeOK, Schemas!Places
<1>2. ASSUME NEW u \in Connections PROVE Schemas!StatementInv(u)'
  BY <1>t, SchemasAssumption DEF Schemas!SchemaSetInv, Schemas!TypeOK, Schemas!StatementInv,
                                 Schemas!Statements
<1>3. ASSUME Schemas!Clean' PROVE Schemas!LoadInv'
  BY <1>t, <1>3, SchemasAssumption DEF Schemas!SchemaSetInv, Schemas!TypeOK,
                                       Schemas!StatementInv, Schemas!Clean, Schemas!LoadInv,
                                       Schemas!NoThreadAssumption
<1>4. ASSUME ~torn' PROVE Schemas!EntriesInv'
  BY <1>t, <1>4 DEF Schemas!SchemaSetInv, Schemas!TypeOK, Schemas!StatementInv,
                    Schemas!EntriesInv, Schemas!Settled
<1>6. ASSUME Schemas!Clean' PROVE Schemas!CompleteInv'
  BY <1>t, <1>6 DEF Schemas!SchemaSetInv, Schemas!TypeOK, Schemas!StatementInv, Schemas!Clean,
                    Schemas!LoadInv, Schemas!EntriesInv, Schemas!CompleteInv, Schemas!Settled
<1>5. catalog_default' = Main
  BY DEF Schemas!SchemaSetInv
<1> QED
  BY <1>1, <1>2, <1>3, <1>4, <1>5, <1>6 DEF Schemas!SchemaSetInv

LEMMA ServeKeeps ==
  ASSUME Schemas!SchemaSetInv, NEW t \in Connections,
         Schemas!Serve(t)
  PROVE  Schemas!SchemaSetInv'
<1> USE DEF Schemas!Serve
<1>t. Schemas!TypeOK
  BY DEF Schemas!SchemaSetInv
<1>1. Schemas!TypeOK'
  <2>1. place' \in [Connections -> Schemas!Places]
    BY <1>t DEF Schemas!TypeOK, Schemas!Places
  <2>2. stmt[t].name \in Names
    BY DEF Schemas!SchemaSetInv, Schemas!StatementInv, Schemas!Statements
  <2>3. server' \subseteq Names /\ server_default' \in server' \cup {None}
    BY <1>t, <2>2 DEF Schemas!TypeOK
  <2>4. changes' \in 0 .. MaxChanges
    BY <1>t, SchemasAssumption DEF Schemas!TypeOK, Schemas!MaxChangesAssumption
  <2> QED
    BY <1>t, <2>1, <2>3, <2>4 DEF Schemas!TypeOK
<1>2. ASSUME NEW u \in Connections PROVE Schemas!StatementInv(u)'
  BY <1>t, SchemasAssumption DEF Schemas!SchemaSetInv, Schemas!TypeOK, Schemas!StatementInv,
                                 Schemas!Statements
<1>3. ASSUME Schemas!Clean' PROVE Schemas!LoadInv'
  BY <1>t, <1>3, SchemasAssumption DEF Schemas!SchemaSetInv, Schemas!TypeOK,
                                       Schemas!StatementInv, Schemas!Clean, Schemas!LoadInv,
                                       Schemas!NoThreadAssumption
<1>4. ASSUME ~torn' PROVE Schemas!EntriesInv'
  BY <1>t, <1>4 DEF Schemas!SchemaSetInv, Schemas!TypeOK, Schemas!StatementInv,
                    Schemas!EntriesInv, Schemas!Settled
<1>6. ASSUME Schemas!Clean' PROVE Schemas!CompleteInv'
  BY <1>t, <1>6 DEF Schemas!SchemaSetInv, Schemas!TypeOK, Schemas!StatementInv, Schemas!Clean,
                    Schemas!LoadInv, Schemas!EntriesInv, Schemas!CompleteInv, Schemas!Settled
<1>5. catalog_default' = Main
  BY DEF Schemas!SchemaSetInv
<1> QED
  BY <1>1, <1>2, <1>3, <1>4, <1>5, <1>6 DEF Schemas!SchemaSetInv

LEMMA CallFailsKeeps ==
  ASSUME Schemas!SchemaSetInv, NEW t \in Connections,
         Schemas!CallFails(t)
  PROVE  Schemas!SchemaSetInv'
<1> USE DEF Schemas!CallFails
<1>t. Schemas!TypeOK
  BY DEF Schemas!SchemaSetInv
<1>1. Schemas!TypeOK'
  <2>1. place' \in [Connections -> Schemas!Places]
    BY <1>t DEF Schemas!TypeOK, Schemas!Places
  <2>2. stmt[t].name \in Names
    BY DEF Schemas!SchemaSetInv, Schemas!StatementInv, Schemas!Statements
  <2> QED
    BY <1>t, <2>1, <2>2 DEF Schemas!TypeOK
<1>2. ASSUME NEW u \in Connections PROVE Schemas!StatementInv(u)'
  BY <1>t, SchemasAssumption DEF Schemas!SchemaSetInv, Schemas!TypeOK, Schemas!StatementInv,
                                 Schemas!Statements
<1>3. ASSUME Schemas!Clean' PROVE Schemas!LoadInv'
  BY <1>t, <1>3, SchemasAssumption DEF Schemas!SchemaSetInv, Schemas!TypeOK,
                                       Schemas!StatementInv, Schemas!Clean, Schemas!LoadInv,
                                       Schemas!NoThreadAssumption
<1>4. ASSUME ~torn' PROVE Schemas!EntriesInv'
  BY <1>t, <1>4 DEF Schemas!SchemaSetInv, Schemas!TypeOK, Schemas!StatementInv,
                    Schemas!EntriesInv, Schemas!Settled
<1>6. ASSUME Schemas!Clean' PROVE Schemas!CompleteInv'
  BY <1>t, <1>6 DEF Schemas!SchemaSetInv, Schemas!TypeOK, Schemas!StatementInv, Schemas!Clean,
                    Schemas!LoadInv, Schemas!EntriesInv, Schemas!CompleteInv, Schemas!Settled
<1>5. catalog_default' = Main
  BY DEF Schemas!SchemaSetInv
<1> QED
  BY <1>1, <1>2, <1>3, <1>4, <1>5, <1>6 DEF Schemas!SchemaSetInv

LEMMA EnterMapKeeps ==
  ASSUME Schemas!SchemaSetInv, NEW t \in Connections,
         Schemas!EnterMap(t)
  PROVE  Schemas!SchemaSetInv'
<1> USE DEF Schemas!EnterMap
<1>t. Schemas!TypeOK
  BY DEF Schemas!SchemaSetInv
<1>1. Schemas!TypeOK'
  BY <1>t DEF Schemas!TypeOK, Schemas!Places
<1>2. ASSUME NEW u \in Connections PROVE Schemas!StatementInv(u)'
  BY <1>t, SchemasAssumption DEF Schemas!SchemaSetInv, Schemas!TypeOK, Schemas!StatementInv,
                                 Schemas!Statements
<1>3. ASSUME Schemas!Clean' PROVE Schemas!LoadInv'
  BY <1>t, <1>3, SchemasAssumption DEF Schemas!SchemaSetInv, Schemas!TypeOK,
                                       Schemas!StatementInv, Schemas!Clean, Schemas!LoadInv,
                                       Schemas!NoThreadAssumption
<1>4. ASSUME ~torn' PROVE Schemas!EntriesInv'
  BY <1>t, <1>4 DEF Schemas!SchemaSetInv, Schemas!TypeOK, Schemas!StatementInv,
                    Schemas!EntriesInv, Schemas!Settled
<1>6. ASSUME Schemas!Clean' PROVE Schemas!CompleteInv'
  BY <1>t, <1>6 DEF Schemas!SchemaSetInv, Schemas!TypeOK, Schemas!StatementInv, Schemas!Clean,
                    Schemas!LoadInv, Schemas!EntriesInv, Schemas!CompleteInv, Schemas!Settled
<1>5. catalog_default' = Main
  BY DEF Schemas!SchemaSetInv
<1> QED
  BY <1>1, <1>2, <1>3, <1>4, <1>5, <1>6 DEF Schemas!SchemaSetInv

\* What the server has created or dropped is entered or removed when no load is under way.
LEMMA CreateSchemaKeeps ==
  ASSUME Schemas!SchemaSetInv, NEW t \in Connections,
         Schemas!CreateSchema(t)
  PROVE  Schemas!SchemaSetInv'
<1> USE DEF Schemas!CreateSchema
<1> DEFINE n0 == stmt[t].name
<1>t. Schemas!TypeOK
  BY DEF Schemas!SchemaSetInv
<1>1. Schemas!TypeOK'
  <2>1. place' \in [Connections -> Schemas!Places]
    BY <1>t DEF Schemas!TypeOK, Schemas!Places
  <2>2. stmt[t].name \in Names
    BY DEF Schemas!SchemaSetInv, Schemas!StatementInv, Schemas!Statements
  <2> QED
    BY <1>t, <2>1, <2>2 DEF Schemas!TypeOK
<1>2. ASSUME NEW u \in Connections PROVE Schemas!StatementInv(u)'
  BY <1>t, SchemasAssumption DEF Schemas!SchemaSetInv, Schemas!TypeOK, Schemas!StatementInv,
                                 Schemas!Statements
<1>3. ASSUME Schemas!Clean' PROVE Schemas!LoadInv'
  BY <1>t, <1>3, SchemasAssumption DEF Schemas!SchemaSetInv, Schemas!TypeOK,
                                       Schemas!StatementInv, Schemas!Clean, Schemas!LoadInv,
                                       Schemas!NoThreadAssumption
<1>s. Schemas!StatementInv(t)
  BY DEF Schemas!SchemaSetInv
<1>5. catalog_default' = Main
  BY DEF Schemas!SchemaSetInv
<1>x. ~torn' => \A u \in Connections \ {t} : place[u] # "insert"
  BY DEF Schemas!SchemaSetInv, Schemas!EntriesInv
<1>e. /\ entries' = entries \cup {n0} /\ (n0 \notin unsure => n0 \in server)
      /\ \A u \in Connections \ {t} :
           /\ place'[u] = place[u] /\ stmt'[u] = stmt[u] /\ listing'[u] = listing[u]
           /\ ~torn' => place[u] # "insert"
      /\ place[t] = "entering" /\ place'[t] \in {"idle", "request"}
      /\ torn => torn'
      /\ UNCHANGED <<unsure, server, called_load_entries, raced, partial>>
  <2>1. n0 \notin unsure => n0 \in server
    BY <1>s DEF Schemas!StatementInv
  <2>2. ~torn' => \A u \in Connections \ {t} : place[u] # "insert"
    BY <1>x
  <2>3. \A u \in Connections \ {t} :
          place'[u] = place[u] /\ stmt'[u] = stmt[u] /\ listing'[u] = listing[u]
    BY <1>t DEF Schemas!TypeOK
  <2>4. place'[t] \in {"idle", "request"}
    BY <1>t DEF Schemas!TypeOK
  <2> QED
    BY <2>1, <2>2, <2>3, <2>4
<1> HIDE DEF n0, Schemas!CreateSchema
<1>u. \A n \in Names : Schemas!Settled(n)' => n \notin unsure /\ (n # n0 => Schemas!Settled(n))
  BY <1>e DEF Schemas!Settled, n0
<1>i. ~torn' => \A u \in Connections : place'[u] # "insert"
  BY <1>e
<1>4. ASSUME ~torn' PROVE Schemas!EntriesInv'
  <2>1. Schemas!EntriesInv
    BY <1>4, <1>e DEF Schemas!SchemaSetInv
  <2> QED
    BY <1>4, <1>e, <1>i, <1>u, <2>1 DEF Schemas!EntriesInv
<1>6. ASSUME Schemas!Clean' PROVE Schemas!CompleteInv'
  <2>1. Schemas!CompleteInv /\ ~torn'
    BY <1>6, <1>e DEF Schemas!SchemaSetInv, Schemas!Clean
  <2> QED
    BY <1>e, <1>i, <1>u, <2>1 DEF Schemas!CompleteInv
<1> QED
  BY <1>1, <1>2, <1>3, <1>4, <1>5, <1>6 DEF Schemas!SchemaSetInv

LEMMA DropEntryKeeps ==
  ASSUME Schemas!SchemaSetInv, NEW t \in Connections,
         Schemas!DropEntry(t)
  PROVE  Schemas!SchemaSetInv'
<1> USE DEF Schemas!DropEntry
<1> DEFINE n0 == stmt[t].name
<1>t. Schemas!TypeOK
  BY DEF Schemas!SchemaSetInv
<1>s. \A u \in Connections : Schemas!StatementInv(u)
  BY DEF Schemas!SchemaSetInv
<1>a. stmt[t] \in Schemas!Statements /\ stmt[t].kind \in {"replace", "drop"}
  BY <1>t, <1>s DEF Schemas!StatementInv
<1>b. stmt[t].kind = "replace" => [stmt[t] EXCEPT !.kind = "create"] \in Schemas!Statements
  BY <1>a, SchemasAssumption DEF Schemas!Statements, Schemas!KindsAssumption
<1>c. \/ place'[t] = "idle"
      \/ /\ place'[t] = "request" /\ stmt'[t] = [stmt[t] EXCEPT !.kind = "create"]
         /\ stmt[t].kind = "replace"
         /\ stmt'[t].name = stmt[t].name /\ stmt'[t].kind = "create"
  BY <1>t, <1>a DEF Schemas!TypeOK, Schemas!Statements
<1>d. /\ \A u \in Connections \ {t} : place'[u] = place[u] /\ stmt'[u] = stmt[u] /\ loading'[u] = loading[u]
      /\ place[t] = "answered" /\ UNCHANGED <<base_lock, unsure, server>>
  BY <1>t DEF Schemas!TypeOK
<1>1. Schemas!TypeOK'
  <2>1. place' \in [Connections -> Schemas!Places]
    BY <1>t DEF Schemas!TypeOK, Schemas!Places
  <2>2. stmt' \in [Connections -> Schemas!Statements \cup {None}]
    BY <1>t, <1>a, <1>b DEF Schemas!TypeOK
  <2> QED
    BY <1>t, <2>1, <2>2 DEF Schemas!TypeOK
<1>2. ASSUME NEW u \in Connections PROVE Schemas!StatementInv(u)'
  <2> HIDE DEF Schemas!DropEntry
  <2>1. \A v \in Connections : Schemas!Changing(v)' => Schemas!Changing(v) /\ stmt'[v].name = stmt[v].name
    BY <1>a, <1>c, <1>d
  <2>2. ASSUME NEW v \in Connections \ {u}, Schemas!Changing(u)', Schemas!Changing(v)',
               stmt'[v].name = stmt'[u].name
        PROVE  stmt'[u].name \in unsure'
    <3> HIDE DEF Schemas!Changing
    <3> QED
      BY <1>d, <1>s, <2>1, <2>2 DEF Schemas!StatementInv
  <2>3. CASE u = t
    BY <1>a, <1>b, <1>c, <1>d, <2>2, <2>3 DEF Schemas!StatementInv
  <2>4. CASE u # t
    BY <1>d, <1>s, <2>2, <2>4 DEF Schemas!StatementInv
  <2> QED
    BY <2>3, <2>4
<1>3. ASSUME Schemas!Clean' PROVE Schemas!LoadInv'
  BY <1>t, <1>3, SchemasAssumption DEF Schemas!SchemaSetInv, Schemas!TypeOK,
                                       Schemas!StatementInv, Schemas!Clean, Schemas!LoadInv,
                                       Schemas!NoThreadAssumption
<1>5. catalog_default' = Main
  BY DEF Schemas!SchemaSetInv
<1>x. ~torn' => \A u \in Connections \ {t} : place[u] # "insert"
  OBVIOUS
<1>e. /\ entries' = entries \ {n0} /\ (n0 \notin unsure => n0 \notin server)
      /\ \A u \in Connections \ {t} :
           /\ place'[u] = place[u] /\ stmt'[u] = stmt[u] /\ listing'[u] = listing[u]
           /\ ~torn' => place[u] # "insert"
      /\ place[t] = "answered" /\ place'[t] \in {"idle", "request"}
      /\ torn => torn'
      /\ UNCHANGED <<unsure, server, called_load_entries, raced, partial>>
  <2>1. n0 \notin unsure => n0 \notin server
    BY <1>s DEF Schemas!StatementInv
  <2>2. ~torn' => \A u \in Connections \ {t} : place[u] # "insert"
    BY <1>x
  <2>3. \A u \in Connections \ {t} :
          place'[u] = place[u] /\ stmt'[u] = stmt[u] /\ listing'[u] = listing[u]
    BY <1>t DEF Schemas!TypeOK
  <2>4. place'[t] \in {"idle", "request"}
    BY <1>t DEF Schemas!TypeOK
  <2> QED
    BY <2>1, <2>2, <2>3, <2>4
<1> HIDE DEF n0, Schemas!DropEntry
<1>u. \A n \in Names : Schemas!Settled(n)' => n \notin unsure /\ (n # n0 => Schemas!Settled(n))
  BY <1>e DEF Schemas!Settled, n0
<1>i. ~torn' => \A u \in Connections : place'[u] # "insert"
  BY <1>e
<1>4. ASSUME ~torn' PROVE Schemas!EntriesInv'
  <2>1. Schemas!EntriesInv
    BY <1>4, <1>e DEF Schemas!SchemaSetInv
  <2> QED
    BY <1>4, <1>e, <1>i, <1>u, <2>1 DEF Schemas!EntriesInv
<1>6. ASSUME Schemas!Clean' PROVE Schemas!CompleteInv'
  <2>1. Schemas!CompleteInv /\ ~torn'
    BY <1>6, <1>e DEF Schemas!SchemaSetInv, Schemas!Clean
  <2> QED
    BY <1>e, <1>i, <1>u, <2>1 DEF Schemas!CompleteInv
<1> QED
  BY <1>1, <1>2, <1>3, <1>4, <1>5, <1>6 DEF Schemas!SchemaSetInv

LEMMA ClearEntriesKeeps ==
  ASSUME Schemas!SchemaSetInv, NEW t \in Connections,
         Schemas!ClearEntries(t)
  PROVE  Schemas!SchemaSetInv'
<1> USE DEF Schemas!ClearEntries
<1>t. Schemas!TypeOK
  BY DEF Schemas!SchemaSetInv
<1>1. Schemas!TypeOK'
  BY <1>t DEF Schemas!TypeOK, Schemas!Places
<1>2. ASSUME NEW u \in Connections PROVE Schemas!StatementInv(u)'
  BY <1>t, SchemasAssumption DEF Schemas!SchemaSetInv, Schemas!TypeOK, Schemas!StatementInv,
                                 Schemas!Statements
<1>3. ASSUME Schemas!Clean' PROVE Schemas!LoadInv'
  BY <1>t, <1>3, SchemasAssumption DEF Schemas!SchemaSetInv, Schemas!TypeOK,
                                       Schemas!StatementInv, Schemas!Clean, Schemas!LoadInv,
                                       Schemas!NoThreadAssumption
<1>4. ASSUME ~torn' PROVE Schemas!EntriesInv'
  BY <1>t, <1>4 DEF Schemas!SchemaSetInv, Schemas!TypeOK, Schemas!StatementInv,
                    Schemas!EntriesInv, Schemas!Settled
<1>6. ASSUME Schemas!Clean' PROVE Schemas!CompleteInv'
  BY <1>t, <1>6 DEF Schemas!SchemaSetInv, Schemas!TypeOK, Schemas!StatementInv, Schemas!Clean,
                    Schemas!LoadInv, Schemas!EntriesInv, Schemas!CompleteInv, Schemas!Settled
<1>5. catalog_default' = Main
  BY DEF Schemas!SchemaSetInv
<1> QED
  BY <1>1, <1>2, <1>3, <1>4, <1>5, <1>6 DEF Schemas!SchemaSetInv

\* Only a torn map loses entries, of which nothing is said.
LEMMA LoseEntryKeeps ==
  ASSUME Schemas!SchemaSetInv, Schemas!LoseEntry
  PROVE  Schemas!SchemaSetInv'
<1> USE DEF Schemas!LoseEntry
<1>1. Schemas!TypeOK' /\ catalog_default' = Main /\ torn'
  BY DEF Schemas!SchemaSetInv, Schemas!TypeOK
<1>2. \A t \in Connections : Schemas!StatementInv(t)'
  BY DEF Schemas!SchemaSetInv, Schemas!StatementInv
<1> QED
  BY <1>1, <1>2 DEF Schemas!SchemaSetInv, Schemas!Clean

\* Every step of a statement keeps the invariant.
LEMMA NextSchemaSetInv ==
  ASSUME Schemas!SchemaSetInv, [Schemas!Next]_(Schemas!vars)
  PROVE  Schemas!SchemaSetInv'
<1>1. CASE UNCHANGED Schemas!vars
  <2> USE <1>1 DEF Schemas!vars
  <2>1. Schemas!TypeOK' /\ catalog_default' = Main
    BY DEF Schemas!SchemaSetInv, Schemas!TypeOK
  <2>2. \A t \in Connections : Schemas!StatementInv(t)'
    BY DEF Schemas!SchemaSetInv, Schemas!StatementInv
  <2>3. /\ ~torn' => Schemas!EntriesInv'
        /\ Schemas!Clean' => Schemas!LoadInv' /\ Schemas!CompleteInv'
    BY DEF Schemas!SchemaSetInv, Schemas!Clean, Schemas!LoadInv, Schemas!EntriesInv,
           Schemas!CompleteInv, Schemas!Settled
  <2> QED
    BY <2>1, <2>2, <2>3 DEF Schemas!SchemaSetInv
<1>2. ASSUME NEW t \in Connections, Schemas!Step(t) PROVE Schemas!SchemaSetInv'
  BY <1>2, BeginKeeps, LoadEntireSetKeeps, LockKeeps, EnterDropKeeps, EnterLoadKeeps,
     ListSchemasKeeps, InsertSchemaKeeps, FinishLoadKeeps, LoadFailsKeeps, FindKeeps, ServeKeeps,
     CallFailsKeeps, EnterMapKeeps, CreateSchemaKeeps, DropEntryKeeps, ClearEntriesKeeps DEF Schemas!Step
<1> QED
  BY <1>1, <1>2, LoseEntryKeeps DEF Schemas!Next

\* However the statements of any number of connections interleave: a look-up or a scan that
\* holds the lock finds no schema the server does not have, and all it has unless a load has
\* failed or the set has been cleared; as long as no loads have raced, and no thread has used
\* the map while another did, which CREATE SCHEMA takes no lock against
\* (AirportSchemaSet::LoadEntireSet, AirportCatalogSet::GetEntry, Scan, DropEntry).
THEOREM LooksUpWhatServerHas ==
  PartsSpec => []LookupSeesServer
<1> DEFINE Inv == part = "schemas" => Schemas!SchemaSetInv
<1>1. PartsInit => Inv
  BY InitSchemaSetInv DEF PartsInit
<1>2. Inv /\ [PartsNext]_allVars => Inv'
  <2> SUFFICES ASSUME Inv, [PartsNext]_allVars, part' = "schemas" PROVE Schemas!SchemaSetInv'
    OBVIOUS
  <2>1. part = "schemas" /\ [Schemas!Next]_(Schemas!vars)
    BY DEF PartsNext, allVars, setVars, schemaVars, Schemas!vars
  <2> QED
    BY <2>1, NextSchemaSetInv
<1>3. Schemas!SchemaSetInv => Schemas!LookupSeesServer
  <2> SUFFICES ASSUME Schemas!SchemaSetInv, NEW t \in Connections, place[t] = "find",
                      Schemas!Undisturbed, NEW n \in Names, Schemas!AtRest(n)
               PROVE  /\ Schemas!Lookup(n) = n => n \in server
                      /\ ~partial /\ n \in server => Schemas!Lookup(n) = n
    BY DEF Schemas!LookupSeesServer
  <2>1. Schemas!Settled(n)
    BY DEF Schemas!SchemaSetInv, Schemas!StatementInv, Schemas!Settled, Schemas!AtRest
  <2>2. Schemas!Lookup(n) = n <=> n \in entries
    BY SchemasAssumption DEF Schemas!Lookup, Schemas!SchemaSetInv, Schemas!NoneAssumption
  <2>3. n \in entries => n \in server
    BY <2>1 DEF Schemas!SchemaSetInv, Schemas!EntriesInv
  <2>4. ASSUME ~partial PROVE called_load_entries /\ Schemas!CompleteInv
    BY <2>4 DEF Schemas!SchemaSetInv, Schemas!LoadInv, Schemas!Clean
  <2>5. ~partial /\ n \in server => n \in entries
    BY <2>1, <2>4 DEF Schemas!CompleteInv
  <2> QED
    BY <2>2, <2>3, <2>5
<1>4. Inv => LookupSeesServer
  BY <1>3 DEF LookupSeesServer
<1> QED
  BY <1>1, <1>2, <1>4, PTL DEF PartsSpec

-----------------------------------------------------------------------------
(* The contents of a schema.                                               *)

\* Every group is of objects of one name, the name of its entry.
LEMMA GroupFacts ==
  ASSUME NEW s \in Contents!Sets, NEW objects \in SUBSET Contents!Objects,
         NEW g \in Contents!Groups(s, objects)
  PROVE  /\ g \subseteq objects /\ g # {}
         /\ \A o \in g : o.kind = s /\ o.name = Contents!NameOf(g)
         /\ Contents!NameOf(g) \in DOMAIN Lower
         /\ s # "table" => g = {o \in objects : o.kind = s /\ o.name = Contents!NameOf(g)}
<1>1. /\ g \subseteq objects /\ g # {} /\ \A o \in g : o.kind = s
      /\ \A o, q \in g : o.name = q.name
      /\ s # "table" => \A o \in g : g = {q \in objects : q.kind = s /\ q.name = o.name}
  BY DEF Contents!Groups
<1>2. Contents!NameOf(g) = (CHOOSE o \in g : TRUE).name /\ (CHOOSE o \in g : TRUE) \in g
  BY <1>1 DEF Contents!NameOf
<1> HIDE DEF Contents!NameOf
<1>3. (CHOOSE o \in g : TRUE) \in Contents!Objects
  BY <1>1, <1>2
<1> QED
  BY <1>1, <1>2, <1>3, ContentsAssumption DEF Contents!LowerAssumption

\* What a set is about stays while its list does.
LEMMA ListStill ==
  ASSUME NEW s, UNCHANGED <<listed[s], entries[s], history>>
  PROVE  /\ Contents!Groups(s, history[listed[s]])' = Contents!Groups(s, history[listed[s]])
         /\ Contents!Handled(history[listed[s]])' = Contents!Handled(history[listed[s]])
         /\ \A g : Contents!Entry(g)' = Contents!Entry(g)
         /\ \A g : (\E e \in entries[s] : Contents!SameName(e.name, Contents!NameOf(g)))' =
                   (\E e \in entries[s] : Contents!SameName(e.name, Contents!NameOf(g)))
<1>1. Contents!Groups(s, history[listed[s]])' = Contents!Groups(s, history[listed[s]])
  BY DEF Contents!Groups
<1>2. Contents!Handled(history[listed[s]])' = Contents!Handled(history[listed[s]])
  BY DEF Contents!Handled
<1>3. \A g : Contents!Entry(g)' = Contents!Entry(g)
  BY DEF Contents!Entry, Contents!NameOf
<1>4. ASSUME NEW g
      PROVE  (\E e \in entries[s] : Contents!SameName(e.name, Contents!NameOf(g)))' =
             (\E e \in entries[s] : Contents!SameName(e.name, Contents!NameOf(g)))
  BY DEF Contents!NameOf, Contents!SameName
<1> QED
  BY <1>1, <1>2, <1>3, <1>4

\* As long as a set lists nothing and gets no entry, it may fail at any time.
LEMMA SetStill ==
  ASSUME NEW s \in Contents!Sets, Contents!SetInv(s),
         UNCHANGED <<listed[s], entries[s], history, source, listed_at>>,
         \/ UNCHANGED <<place[s], groups[s]>>
         \/ place[s] = "unloaded" /\ place'[s] = "listing" /\ groups'[s] = groups[s]
         \/ place'[s] = "failed" /\ groups'[s] \in {groups[s], {}}
         \/ /\ place[s] = "creating" /\ place'[s] = "loaded"
            /\ groups[s] = {} /\ groups'[s] = {}
  PROVE  Contents!SetInv(s)'
<1>1. listed[s] = None => Contents!SetInv(s)'
  BY DEF Contents!SetInv
<1>2. ASSUME listed[s] # None PROVE Contents!SetInv(s)'
  <2>1. (groups[s] \subseteq Contents!Groups(s, history[listed[s]]))'
    BY <1>2, ListStill DEF Contents!SetInv
  <2>2. (entries[s] \subseteq {Contents!Entry(g) : g \in Contents!Groups(s, history[listed[s]])})'
    BY <1>2, ListStill DEF Contents!SetInv
  <2>3. (place[s] # "failed" =>
           \A g \in Contents!Groups(s, history[listed[s]]) \ groups[s] :
             \E e \in entries[s] : Contents!SameName(e.name, Contents!NameOf(g)))'
    BY <1>2, ListStill DEF Contents!SetInv
  <2> QED
    BY <1>2, <2>1, <2>2, <2>3, ListStill DEF Contents!SetInv
<1> QED
  BY <1>1, <1>2

\* A step of one set leaves the others alone.
LEMMA OtherSetsStill ==
  ASSUME Contents!ContentsInv, NEW s \in Contents!Sets, UNCHANGED <<history, source, listed_at>>,
         \A r \in Contents!Sets \ {s} : UNCHANGED <<place[r], listed[r], groups[r], entries[r]>>,
         Contents!TypeOK', Contents!SetInv(s)'
  PROVE  Contents!ContentsInv'
<1>1. ASSUME NEW r \in Contents!Sets \ {s} PROVE Contents!SetInv(r)'
  BY SetStill DEF Contents!ContentsInv
<1> QED
  BY <1>1 DEF Contents!ContentsInv

LEMMA InitContentsInv ==
  ASSUME Contents!Init PROVE Contents!ContentsInv
BY DEF Contents!Init, Contents!ContentsInv, Contents!TypeOK, Contents!SetInv

\* Steps that list nothing and make no entry.
LEMMA ContentsMoves ==
  ASSUME Contents!ContentsInv, NEW s \in Contents!Sets,
         \/ Contents!Lock(s) \/ Contents!ListFails(s) \/ Contents!CreateFails(s)
         \/ Contents!Loaded(s)
  PROVE  Contents!ContentsInv'
<1>t. Contents!TypeOK /\ Contents!SetInv(s)
  BY DEF Contents!ContentsInv
<1>a. /\ place' = [place EXCEPT ![s] = place'[s]]
      /\ UNCHANGED <<history, contents_version, source, listed_at, listed, entries>>
      /\ \/ /\ place[s] = "unloaded" /\ place'[s] = "listing" /\ UNCHANGED groups
         \/ /\ place[s] = "listing" /\ place'[s] = "failed" /\ UNCHANGED groups
         \/ /\ place[s] = "creating" /\ place'[s] = "failed"
            /\ groups' = [groups EXCEPT ![s] = {}]
         \/ /\ place[s] = "creating" /\ place'[s] = "loaded" /\ UNCHANGED groups
            /\ groups[s] = {}
  BY <1>t DEF Contents!Lock, Contents!ListFails, Contents!CreateFails, Contents!Loaded,
              Contents!TypeOK
<1>1. Contents!TypeOK'
  <2>1. groups' \in [Contents!Sets -> SUBSET SUBSET Contents!Objects]
    BY <1>t, <1>a DEF Contents!TypeOK
  <2>2. place' \in [Contents!Sets -> {"unloaded", "listing", "creating", "loaded", "failed"}]
    BY <1>t, <1>a DEF Contents!TypeOK
  <2> QED
    BY <1>t, <1>a, <2>1, <2>2 DEF Contents!TypeOK, Contents!SameName
<1>2. Contents!SetInv(s)'
  <2>1. \/ UNCHANGED <<place[s], groups[s]>>
        \/ place[s] = "unloaded" /\ place'[s] = "listing" /\ groups'[s] = groups[s]
        \/ place'[s] = "failed" /\ groups'[s] \in {groups[s], {}}
        \/ /\ place[s] = "creating" /\ place'[s] = "loaded"
           /\ groups[s] = {} /\ groups'[s] = {}
    BY <1>t, <1>a DEF Contents!TypeOK
  <2> QED
    BY <1>t, <1>a, <2>1, SetStill
<1>3. \A r \in Contents!Sets \ {s} : UNCHANGED <<place[r], listed[r], groups[r], entries[r]>>
  BY <1>t, <1>a DEF Contents!TypeOK
<1> QED
  BY <1>a, <1>1, <1>2, <1>3, OtherSetsStill

LEMMA ListKeeps ==
  ASSUME Contents!ContentsInv, NEW s \in Contents!Sets, Contents!List(s)
  PROVE  Contents!ContentsInv'
<1>t. Contents!TypeOK /\ Contents!SetInv(s)
  BY DEF Contents!ContentsInv
<1> DEFINE v == Contents!SourceVersion
           made == Contents!Groups(s, history[v])
<1>1. v \in Contents!Versions /\ v # None /\ (source = "hashed" => v = listed_at)
  BY <1>t, ContentsAssumption DEF Contents!SourceVersion, Contents!TypeOK,
                                  Contents!MaxVersionAssumption
<1>2. history[v] \in SUBSET Contents!Objects
  BY <1>t, <1>1 DEF Contents!TypeOK, Contents!Objects
<1>3. made \in SUBSET SUBSET Contents!Objects
  BY <1>2, GroupFacts
<1>4. /\ place[s] = "listing" /\ listed[s] = None /\ groups[s] = {} /\ entries[s] = {}
      /\ UNCHANGED <<history, contents_version, source, listed_at, entries>>
      /\ \/ /\ Contents!Handled(history[v]) /\ groups' = [groups EXCEPT ![s] = made]
            /\ listed' = [listed EXCEPT ![s] = v] /\ place' = [place EXCEPT ![s] = "creating"]
         \/ place' = [place EXCEPT ![s] = "failed"] /\ UNCHANGED <<groups, listed>>
  BY <1>t DEF Contents!List, Contents!SetInv
<1> HIDE DEF v
<1>5. Contents!TypeOK'
  <2> HIDE DEF made
  <2>1. groups' \in [Contents!Sets -> SUBSET SUBSET Contents!Objects]
    BY <1>t, <1>3, <1>4 DEF Contents!TypeOK
  <2>2. /\ place' \in [Contents!Sets -> {"unloaded", "listing", "creating", "loaded", "failed"}]
        /\ listed' \in [Contents!Sets -> Contents!Versions \cup {None}]
    BY <1>t, <1>1, <1>4 DEF Contents!TypeOK
  <2> QED
    BY <1>t, <1>4, <2>1, <2>2 DEF Contents!TypeOK, Contents!SameName
<1>6. Contents!SetInv(s)'
  <2>1. CASE UNCHANGED <<listed, groups>> /\ place' = [place EXCEPT ![s] = "failed"]
    <3>1. place'[s] = "failed"
      BY <1>t, <2>1 DEF Contents!TypeOK
    <3> QED
      BY <1>t, <1>4, <2>1, <3>1, SetStill
  <2>2. CASE /\ Contents!Handled(history[v]) /\ groups' = [groups EXCEPT ![s] = made]
             /\ listed' = [listed EXCEPT ![s] = v] /\ place' = [place EXCEPT ![s] = "creating"]
    <3>1. /\ Contents!Handled(history[v]) /\ groups'[s] = made /\ listed'[s] = v
          /\ place'[s] = "creating" /\ entries'[s] = {}
      BY <1>t, <1>4, <2>2 DEF Contents!TypeOK
    <3> HIDE DEF made
    <3>2. Contents!Groups(s, history[listed[s]])' = made
      BY <1>4, <3>1 DEF Contents!Groups, made
    <3>3. Contents!Handled(history[listed[s]])'
      BY <1>4, <3>1 DEF Contents!Handled
    <3> QED
      BY <1>1, <1>4, <3>1, <3>2, <3>3 DEF Contents!SetInv
  <2> QED
    BY <1>4, <2>1, <2>2
<1>7. \A r \in Contents!Sets \ {s} : UNCHANGED <<place[r], listed[r], groups[r], entries[r]>>
  BY <1>t, <1>4 DEF Contents!TypeOK
<1> QED
  BY <1>4, <1>5, <1>6, <1>7, OtherSetsStill

\* A name keeps its entry; whatever name the group has, an entry of it is there afterwards.
LEMMA CreateEntryKeeps ==
  ASSUME Contents!ContentsInv, NEW s \in Contents!Sets, Contents!CreateEntry(s)
  PROVE  Contents!ContentsInv'
<1>t. Contents!TypeOK /\ Contents!SetInv(s)
  BY DEF Contents!ContentsInv
<1>1. PICK g \in groups[s] :
        /\ groups' = [groups EXCEPT ![s] = @ \ {g}]
        /\ IF \E e \in entries[s] : Contents!SameName(e.name, Contents!NameOf(g))
           THEN UNCHANGED entries
           ELSE entries' = [entries EXCEPT ![s] = @ \cup {Contents!Entry(g)}]
  BY DEF Contents!CreateEntry
<1>2. place[s] = "creating" /\ UNCHANGED <<history, contents_version, source, listed_at, place, listed>>
  BY DEF Contents!CreateEntry
<1> DEFINE made == Contents!Groups(s, history[listed[s]])
<1>3. /\ listed[s] # None /\ listed[s] \in Contents!Versions /\ history \in Histories
      /\ groups[s] \subseteq made
  BY <1>t, <1>2 DEF Contents!TypeOK, Contents!SetInv
<1>4. history[listed[s]] \in SUBSET Contents!Objects
  BY <1>3 DEF Contents!Objects
<1>5. g \in made /\ g \in SUBSET Contents!Objects /\ Contents!NameOf(g) \in DOMAIN Lower
  BY <1>1, <1>3, <1>4, GroupFacts
<1>6. /\ groups'[s] = groups[s] \ {g}
      /\ entries[s] \subseteq entries'[s] /\ entries'[s] \subseteq entries[s] \cup {Contents!Entry(g)}
      /\ \E e \in entries'[s] : Contents!SameName(e.name, Contents!NameOf(g))
      /\ \A d, e \in entries'[s] : Contents!SameName(d.name, e.name) => d = e
  <2>1. Contents!Entry(g).name = Contents!NameOf(g)
    BY DEF Contents!Entry
  <2>2. \A d, e \in entries[s] : Contents!SameName(d.name, e.name) => d = e
    BY <1>t DEF Contents!TypeOK
  <2> QED
    BY <1>t, <1>1, <2>1, <2>2 DEF Contents!TypeOK, Contents!SameName
<1>7. \A r \in Contents!Sets \ {s} : UNCHANGED <<place[r], listed[r], groups[r], entries[r]>>
  BY <1>t, <1>1, <1>2 DEF Contents!TypeOK
<1>8. Contents!TypeOK'
  <2>1. Contents!Entry(g) \in [name : DOMAIN Lower, objects : SUBSET Contents!Objects]
    BY <1>5 DEF Contents!Entry
  <2>2. entries' \in [Contents!Sets -> SUBSET [name : DOMAIN Lower, objects : SUBSET Contents!Objects]]
    BY <1>t, <1>1, <2>1 DEF Contents!TypeOK
  <2>3. groups' \in [Contents!Sets -> SUBSET SUBSET Contents!Objects]
    BY <1>t, <1>1 DEF Contents!TypeOK
  <2>4. \A r \in Contents!Sets : \A d, e \in entries'[r] : Contents!SameName(d.name, e.name)' => d = e
    BY <1>t, <1>6, <1>7 DEF Contents!TypeOK, Contents!SameName
  <2> QED
    BY <1>t, <1>2, <2>2, <2>3, <2>4 DEF Contents!TypeOK
<1>9. Contents!SetInv(s)'
  <2>1. made' = made /\ Contents!Handled(history[listed[s]])' = Contents!Handled(history[listed[s]])
    BY <1>2 DEF Contents!Groups, Contents!Handled
  <2> HIDE DEF made
  <2>2. groups'[s] \subseteq made /\ entries'[s] \subseteq {Contents!Entry(h) : h \in made}
    BY <1>t, <1>3, <1>5, <1>6 DEF Contents!SetInv, made
  <2>3. \A h \in made \ groups'[s] : \E e \in entries'[s] : Contents!SameName(e.name, Contents!NameOf(h))
    BY <1>t, <1>2, <1>3, <1>6 DEF Contents!SetInv, made
  <2> QED
    BY <1>t, <1>2, <1>3, <2>1, <2>2, <2>3
       DEF Contents!SetInv, made, Contents!Entry, Contents!NameOf, Contents!SameName
<1> QED
  BY <1>2, <1>7, <1>8, <1>9, OtherSetsStill

LEMMA NextContentsInv ==
  ASSUME Contents!ContentsInv, [Contents!Next]_(Contents!vars)
  PROVE  Contents!ContentsInv'
<1>1. ASSUME UNCHANGED <<history, source, listed_at, place, listed, groups, entries>>,
             contents_version' \in Contents!Versions
      PROVE  Contents!ContentsInv'
  <2>1. Contents!TypeOK'
    BY <1>1 DEF Contents!ContentsInv, Contents!TypeOK, Contents!SameName
  <2> QED
    BY <1>1, <2>1, SetStill DEF Contents!ContentsInv
<1>2. CASE Contents!Change
  BY <1>1, <1>2, ContentsAssumption DEF Contents!Change, Contents!ContentsInv, Contents!TypeOK,
                                        Contents!Versions, Contents!MaxVersionAssumption
<1>3. CASE UNCHANGED Contents!vars
  BY <1>1, <1>3 DEF Contents!vars, Contents!ContentsInv, Contents!TypeOK
<1> QED
  BY <1>2, <1>3, ContentsMoves, ListKeeps, CreateEntryKeeps DEF Contents!Next

\* With a hash, all sets of a schema show the version of the list of schemas it came with;
\* no entry is of another schema or of a list that has an object of another one; and a set of
\* functions has each function together with the others of its name, unless names differ
\* only in case (getCachedRequestData, handle_flight_app_metadata, functions_by_name).
THEOREM SchemaAsListed ==
  PartsSpec => []ContentsAsListed
<1>1. Contents!ContentsInv => Contents!OneVersion
  BY DEF Contents!ContentsInv, Contents!SetInv, Contents!OneVersion
<1>2. Contents!ContentsInv => Contents!OnlyOwnObjects
  BY DEF Contents!ContentsInv, Contents!SetInv, Contents!OnlyOwnObjects, Contents!Handled
<1>3. Contents!ContentsInv => Contents!OverloadsTogether
  <2> SUFFICES ASSUME Contents!ContentsInv, NEW s \in Contents!Sets \ {"table"}, place[s] = "loaded",
                      \A o, q \in {o \in history[listed[s]] : o.kind = s} :
                        Lower[o.name] = Lower[q.name] => o.name = q.name
               PROVE  LET own == {o \in history[listed[s]] : o.kind = s}
                      IN  entries[s] = {[name |-> o.name, objects |-> {q \in own : q.name = o.name}] : o \in own}
    BY DEF Contents!OverloadsTogether
  <2> DEFINE objects == history[listed[s]]
             own == {o \in objects : o.kind = s}
             made == Contents!Groups(s, objects)
             Whole(o) == [name |-> o.name, objects |-> {q \in own : q.name = o.name}]
  <2>1. /\ Contents!SetInv(s) /\ listed[s] # None /\ groups[s] = {}
        /\ objects \in SUBSET Contents!Objects
    BY DEF Contents!ContentsInv, Contents!SetInv, Contents!TypeOK, Contents!Objects
  <2>2. made = {{o \in own : o.name = q.name} : q \in own}
    BY DEF Contents!Groups
  <2>3. \A g \in made : /\ g # {} /\ g \subseteq own /\ \A o \in g : o.name = Contents!NameOf(g)
                        /\ \A o \in g : Contents!Entry(g) = Whole(o)
    <3> SUFFICES ASSUME NEW g \in made, NEW o \in g
                 PROVE  o \in own /\ o.name = Contents!NameOf(g) /\ Contents!Entry(g) = Whole(o)
      BY <2>1, GroupFacts
    <3>1. o.name = Contents!NameOf(g) /\ g = {q \in own : q.name = o.name} /\ o \in own
      BY <2>1, GroupFacts
    <3> QED
      BY <3>1 DEF Contents!Entry
  <2>4. entries[s] \subseteq {Whole(o) : o \in own}
    BY <2>1, <2>3 DEF Contents!SetInv
  <2>5. ASSUME NEW o \in own PROVE Whole(o) \in entries[s]
    <3> DEFINE g == {q \in own : q.name = o.name}
    <3>1. g \in made /\ o \in g
      BY <2>2
    <3>2. PICK e \in entries[s] : Contents!SameName(e.name, Contents!NameOf(g))
      BY <2>1, <3>1 DEF Contents!SetInv
    <3>3. PICK q \in own : e = Whole(q)
      BY <2>4
    <3>4. e.name = q.name /\ Contents!NameOf(g) = o.name
      BY <2>3, <3>1, <3>3
    <3>5. q.name = o.name
      BY <3>2, <3>4 DEF Contents!SameName
    <3> QED
      BY <3>3, <3>5
  <2> QED
    BY <2>4, <2>5
<1>4. Contents!ContentsInv => Contents!ContentsAsListed
  BY <1>1, <1>2, <1>3 DEF Contents!ContentsAsListed
<1> DEFINE Inv == part = "contents" => Contents!ContentsInv
<1>5. PartsInit => Inv
  BY InitContentsInv DEF PartsInit
<1>6. Inv /\ [PartsNext]_allVars => Inv'
  <2> SUFFICES ASSUME Inv, [PartsNext]_allVars, part' = "contents" PROVE Contents!ContentsInv'
    OBVIOUS
  <2>1. part = "contents" /\ [Contents!Next]_(Contents!vars)
    BY DEF PartsNext, allVars, setVars, contentsVars, Contents!vars
  <2> QED
    BY <2>1, NextContentsInv
<1>7. Inv => ContentsAsListed
  BY <1>4 DEF ContentsAsListed
<1> QED
  BY <1>5, <1>6, <1>7, PTL DEF PartsSpec

=============================================================================
