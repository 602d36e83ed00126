-------------------------- MODULE AirportRpc_proofs --------------------------
(***************************************************************************)
(* Proofs about what asks a server something in one thread: a call with    *)
(* any number of retries, airport_action with any number of results, a     *)
(* listing of any length, and the progress of a scan of any number of      *)
(* endpoints.                                                              *)
(***************************************************************************)
EXTENDS RequestParts, SequenceTheorems, WellFoundedInduction, TLAPS

-----------------------------------------------------------------------------
(* One call.                                                               *)

LEMMA InitRpcInv == Init => RpcInv
<1> SUFFICES ASSUME Init PROVE RpcInv
  OBVIOUS
<1>1. TypeOK
  <2>1. context \in BOOLEAN /\ want_result \in BOOLEAN /\ interrupted \in BOOLEAN
    BY DEF Init
  <2>2. attempt \in 0 .. MaxRetries /\ requests \in Nat /\ committed \in Nat
          /\ stream \in 0 .. requests
    BY MaxRetriesAssumption DEF Init
  <2> QED BY <2>1, <2>2 DEF Init, TypeOK, Places
<1> QED BY <1>1, MaxRetriesAssumption DEF Init, RpcInv, RequestsBounded, ReturnMeansExecuted,
       NoRequestAfterInterrupt

\* Every step of the call, the server and the user keeps the invariant.
LEMMA NextRpcInv == RpcInv /\ [Next]_vars => RpcInv'
<1> SUFFICES ASSUME RpcInv, [Next]_vars PROVE RpcInv'
  OBVIOUS
<1> USE MaxRetriesAssumption
    DEF RpcInv, TypeOK, RequestsBounded, ReturnMeansExecuted, NoRequestAfterInterrupt, Places, Ended, caller
<1>1. CASE Start
  BY <1>1 DEF Start
<1>2. CASE Attempt
  BY <1>2 DEF Attempt, InterruptSeen
<1>2a. CASE Send
  BY <1>2a DEF Send
<1>3. CASE DoActionReturns
  BY <1>3 DEF DoActionReturns
<1>4. CASE NextReturns
  BY <1>4 DEF NextReturns
<1>5. ASSUME NEW status \in Statuses, AttemptFails(status) PROVE RpcInv'
  BY <1>5 DEF AttemptFails, LastAttempt, InterruptSeen
<1>6. CASE Wake
  BY <1>6 DEF Wake
<1>7. CASE CheckBeforeDrain
  BY <1>7 DEF CheckBeforeDrain
<1>8. CASE DrainReturns
  BY <1>8 DEF DrainReturns
<1>9. CASE DrainFails
  BY <1>9 DEF DrainFails
<1>10. ASSUME NEW r \in 1 .. requests, Execute(r) PROVE RpcInv'
  BY <1>10 DEF Execute
<1>11. CASE Interrupt
  BY <1>11 DEF Interrupt
<1>12. CASE UNCHANGED vars
  BY <1>12 DEF vars
<1> QED
  BY <1>1, <1>2, <1>3, <1>4, <1>5, <1>6, <1>7, <1>8, <1>9, <1>10, <1>11, <1>12, <1>2a
     DEF Next, Step, Over

\* The inductive invariant holds in every reachable state.
THEOREM RpcInvariant == Spec => []RpcInv
<1> QED BY InitRpcInv, NextRpcInv, PTL DEF Spec

\* However the attempts fail, the server is sent at most MaxRetries + 1 requests.
THEOREM AtMostMaxRetries == Spec => []RequestsBounded
<1>1. RpcInv => RequestsBounded
  BY DEF RpcInv
<1> QED BY <1>1, RpcInvariant, PTL

\* A call that returns has had its action executed, unless it repeated Next on a
\* failed stream and got nothing.
THEOREM ReturnedMeansExecuted == Spec => []ReturnMeansExecuted
<1>1. RpcInv => ReturnMeansExecuted
  BY DEF RpcInv
<1> QED BY <1>1, RpcInvariant, PTL

\* An interrupted caller with a context sends at most the request it was about to
\* send.
THEOREM InterruptStopsRequests == Spec => []NoRequestAfterInterrupt
<1>1. RpcInv => NoRequestAfterInterrupt
  BY DEF RpcInv
<1> QED BY <1>1, RpcInvariant, PTL

-----------------------------------------------------------------------------
(* The function airport_action; its variables are its own.                 *)

LEMMA InitActionInv ==
  ASSUME Action!Init PROVE Action!ActionInv
<1>1. 0 \in 0 .. MaxResults /\ 0 \in 0 .. 0
  BY ActionAssumption DEF Action!MaxResultsAssumption
<1> QED
  BY <1>1 DEF Action!Init, Action!ActionInv, Action!TypeOK, Action!CompleteIsComplete

\* Every step of the statement, the monitor and the server keeps the invariant.
LEMMA NextActionInv ==
  ASSUME Action!ActionInv, [Action!Next]_(Action!vars)
  PROVE  Action!ActionInv'
<1> USE ActionAssumption DEF Action!MaxResultsAssumption, Action!ActionInv, Action!TypeOK,
            Action!CompleteIsComplete, Action!Ends, Action!CancelServer
<1>1. CASE Action!Interrupt
  BY <1>1 DEF Action!Interrupt
<1>2. CASE Action!Start
  BY <1>2 DEF Action!Start
<1>3. CASE Action!CallReturns
  BY <1>3 DEF Action!CallReturns
<1>4. CASE Action!Check
  BY <1>4 DEF Action!Check
<1>5. CASE Action!ReadResult
  BY <1>5 DEF Action!ReadResult
<1>6. CASE Action!ReadEnd
  BY <1>6 DEF Action!ReadEnd
<1>7. CASE Action!Drain
  BY <1>7 DEF Action!Drain
<1>8. CASE Action!Fails
  BY <1>8 DEF Action!Fails
<1>9. CASE Action!DeadlineExpires
  BY <1>9 DEF Action!DeadlineExpires
<1>10. CASE Action!Limit
  BY <1>10 DEF Action!Limit
<1>11. CASE Action!Destroy
  BY <1>11 DEF Action!Destroy
<1>12. CASE Action!Over
  BY <1>12 DEF Action!Over
<1>13. CASE Action!Wake
  BY <1>13 DEF Action!Wake
<1>14. CASE Action!Ask
  BY <1>14 DEF Action!Ask
<1>15. CASE Action!CancelAnswered
  BY <1>15 DEF Action!CancelAnswered
<1>16. CASE Action!CancelUnanswered
  BY <1>16 DEF Action!CancelUnanswered
<1>17. CASE Action!Register
  BY <1>17 DEF Action!Register
<1>18. CASE Action!Produce
  BY <1>18 DEF Action!Produce
<1>19. CASE Action!Complete
  BY <1>19 DEF Action!Complete
<1>20. CASE UNCHANGED Action!vars
  BY <1>20 DEF Action!vars
<1> QED
  BY <1>1, <1>2, <1>3, <1>4, <1>5, <1>6, <1>7, <1>8, <1>9, <1>10, <1>11, <1>12, <1>13, <1>14,
     <1>15, <1>16, <1>17, <1>18, <1>19, <1>20 DEF Action!Next, Action!StatementStep

\* A statement that ends without an error has returned every result of an action that
\* completed, and the server cancels nothing but an interrupted "execute", however many
\* results there are and however statement, monitor and server interleave
\* (do_action, interrupt_monitor).
THEOREM CompleteOrReported == PartsSpec => []CompleteIsComplete
<1> DEFINE Inv == part \in {"action", "slow action"} => Action!ActionInv
<1>1. PartsInit => Inv
  BY InitActionInv DEF PartsInit
<1>2. Inv /\ [PartsNext]_allVars => Inv'
  <2> SUFFICES ASSUME Inv, [PartsNext]_allVars, part' \in {"action", "slow action"}
               PROVE  Action!ActionInv'
    OBVIOUS
  <2>1. part \in {"action", "slow action"} /\ [Action!Next]_(Action!vars)
    BY DEF PartsNext, allVars, askingVars, actionVars, Action!vars
  <2> QED
    BY <2>1, NextActionInv
<1>3. Inv => CompleteIsComplete
  BY DEF Action!ActionInv, CompleteIsComplete
<1> QED
  BY <1>1, <1>2, <1>3, PTL DEF PartsSpec

-----------------------------------------------------------------------------
(* The listing of flights.                                                 *)

\* What has been read of a child vector stays when more is written behind it, and what is
\* written is read from where the vector ended before.
LEMMA ReadsBehind ==
  ASSUME NEW S, NEW s \in Seq(S), NEW t \in Seq(S)
  PROVE  /\ \A p, list : Listing!ReadsAs(s, p, list) => Listing!ReadsAs(s \o t, p, list)
         /\ Listing!ReadsAs(s \o t, [offset |-> Len(s), length |-> Len(t)], t)
<1>1. /\ s \o t \in Seq(S) /\ Len(s \o t) = Len(s) + Len(t) /\ Len(s) \in Nat /\ Len(t) \in Nat
      /\ \A k \in 1 .. Len(s) : (s \o t)[k] = s[k]
      /\ \A k \in 1 .. Len(t) : (s \o t)[Len(s) + k] = t[k]
  OBVIOUS
<1>2. 1 .. Len(s) \subseteq 1 .. Len(s \o t)
  BY <1>1
<1>3. \A k \in 1 .. Len(t) : Len(s) + k \in 1 .. Len(s \o t)
  BY <1>1
<1> QED
  BY <1>1, <1>2, <1>3 DEF Listing!ReadsAs

LEMMA AppendedBehind ==
  ASSUME NEW S, NEW s \in Seq(S), NEW e \in S
  PROVE  Append(s, e) = s \o <<e>> /\ <<e>> \in Seq(S)
OBVIOUS

LEMMA TakenFacts ==
  /\ VectorSize \in Nat \ {0} /\ Listing!Taken(0) = 0
  /\ \A n \in Nat : /\ Listing!Taken(n) \in Nat
                    /\ Listing!Taken(n + 1) = Listing!Taken(n) + VectorSize + 1
<1>1. VectorSize \in Nat \ {0}
  BY ListingAssumption DEF Listing!VectorSizeAssumption
<1>2. ASSUME NEW n \in Nat
      PROVE  /\ n * (VectorSize + 1) \in Nat
             /\ (n + 1) * (VectorSize + 1) = n * (VectorSize + 1) + VectorSize + 1
  BY <1>1
<1> QED
  BY <1>1, <1>2 DEF Listing!Taken

LEMMA FlightFacts ==
  ASSUME NEW f \in Flights
  PROVE  /\ f.type \in {"cmd", "path", "unknown"} /\ f.path \in Seq(Texts) /\ Len(f.path) \in Nat
         /\ f.endpoints \in Seq([ticket : Texts, locations : Seq(Texts)])
         /\ Len(f.endpoints) \in Nat /\ DOMAIN f.endpoints = 1 .. Len(f.endpoints)
         /\ \A k \in 1 .. Len(f.endpoints) :
              /\ f.endpoints[k].ticket \in Texts /\ f.endpoints[k].locations \in Seq(Texts)
              /\ Len(f.endpoints[k].locations) \in Nat
<1>1. /\ f.type \in {"cmd", "path", "unknown"} /\ f.path \in Seq(Texts)
      /\ f.endpoints \in Seq([ticket : Texts, locations : Seq(Texts)])
  BY ListingAssumption DEF Listing!FlightsAssumption
<1>2. \A k \in 1 .. Len(f.endpoints) : f.endpoints[k] \in [ticket : Texts, locations : Seq(Texts)]
  <2> DEFINE R == [ticket : Texts, locations : Seq(Texts)]
             e == f.endpoints
  <2>1. e \in Seq(R)
    BY <1>1
  <2> HIDE DEF R, e
  <2>2. \A k \in 1 .. Len(e) : e[k] \in R
    BY <2>1
  <2> QED
    BY <2>2 DEF R, e
<1>3. ASSUME NEW e \in [ticket : Texts, locations : Seq(Texts)]
      PROVE  e.ticket \in Texts /\ e.locations \in Seq(Texts) /\ Len(e.locations) \in Nat
  OBVIOUS
<1> QED
  BY <1>1, <1>2, <1>3

LEMMA InitListingInv ==
  ASSUME Listing!Init PROVE Listing!ListingInv
<1>1. server \in Seq(Flights)
  <2>1. PICK n \in 0 .. MaxFlights : server \in [1 .. n -> Flights]
    BY DEF Listing!Init
  <2>2. n \in Nat
    BY <2>1, ListingAssumption DEF Listing!MaxFlightsAssumption
  <2> QED
    BY <2>1, <2>2
<1>2. Listing!EmptyChunk \in Listing!ChunkType
  BY DEF Listing!EmptyChunk, Listing!ChunkType
<1>3. results = <<>> /\ DOMAIN results = {} /\ Len(results) = 0 /\ results \in Seq(Listing!ChunkType)
  BY DEF Listing!Init
<1>4. chunk.from = <<>> /\ DOMAIN chunk.from = {} /\ Len(chunk.from) = 0
  BY DEF Listing!Init, Listing!EmptyChunk
<1>5. Listing!TypeOK
  <2>1. Len(server) \in Nat /\ 0 \in 0 .. Len(server)
    BY <1>1
  <2>2. /\ Len(chunk.lists) = 0 /\ Len(chunk.descriptors) = 0 /\ Len(chunk.places) = 0
        /\ Len(chunk.tickets) = 0
    BY DEF Listing!Init, Listing!EmptyChunk
  <2> QED
    <3>1. /\ cursor = 0 /\ opened = FALSE /\ place = "idle" /\ row = 0 /\ base = 0
          /\ chunk = Listing!EmptyChunk /\ stopped = FALSE
      BY DEF Listing!Init
    <3>2. chunk \in Listing!ChunkType
      BY <1>2, <3>1
    <3>3. /\ cursor \in 0 .. Len(server) /\ opened \in BOOLEAN /\ stopped \in BOOLEAN
          /\ place \in {"idle", "check", "read", "endpoints", "added", "done", "failed"}
          /\ row \in 0 .. Len(server) /\ base \in Nat
      BY <2>1, <3>1
    <3>4. /\ Len(chunk.from) <= VectorSize /\ Len(chunk.lists) = Len(chunk.from)
          /\ Len(chunk.descriptors) = Len(chunk.from) /\ Len(chunk.places) = Len(chunk.tickets)
          /\ Len(chunk.descriptors) >= Len(chunk.from)
      BY <1>4, <2>2, TakenFacts
    <3> QED
      BY <1>1, <1>3, <3>2, <3>3, <3>4 DEF Listing!TypeOK
<1> QED
  BY <1>3, <1>4, <1>5, TakenFacts
     DEF Listing!Init, Listing!ListingInv, Listing!RowsReadBack, Listing!RowsInOrder, Listing!ChunkInv,
         Listing!OrderInv, Listing!AllFull


\* What a step does to the order of the rows.
LEMMA OrderKeeps ==
  ASSUME Listing!ListingInv, Listing!Next
  PROVE  Listing!RowsInOrder' /\ Listing!OrderInv'
<1>t. Listing!TypeOK /\ Listing!OrderInv /\ Listing!RowsInOrder
  BY DEF Listing!ListingInv
<1> DEFINE from == chunk.from
<1>u. /\ Len(server) \in Nat /\ cursor \in Nat /\ cursor <= Len(server) /\ row \in Nat
      /\ Len(from) \in Nat /\ DOMAIN from = 1 .. Len(from) /\ (from = <<>> <=> Len(from) = 0)
      /\ Len(results) \in Nat /\ DOMAIN results = 1 .. Len(results)
      /\ Len(from) <= VectorSize
  <2>1. /\ server \in Seq(Flights) /\ from \in Seq(1 .. Len(server))
        /\ results \in Seq(Listing!ChunkType)
    BY <1>t DEF Listing!TypeOK, Listing!ChunkType
  <2>2. Len(server) \in Nat
    BY <2>1
  <2>3. Len(from) \in Nat /\ DOMAIN from = 1 .. Len(from) /\ (from = <<>> <=> Len(from) = 0)
    BY <2>1
  <2>4. Len(results) \in Nat /\ DOMAIN results = 1 .. Len(results)
    BY <2>1
  <2> QED
    BY <1>t, <2>2, <2>3, <2>4 DEF Listing!TypeOK
<1>v. Listing!Taken(Len(results)) \in Nat /\ VectorSize \in Nat \ {0}
  BY <1>u, TakenFacts
<1>s. UNCHANGED server
  BY DEF Listing!Next, Listing!Step, Listing!Interrupt, Listing!Call, Listing!OpenListing,
         Listing!OpenFails, Listing!CheckInterrupt, Listing!ReadFirst, Listing!NoMoreFlights,
         Listing!ReadFails, Listing!AddDescriptor, Listing!AddEndpoint, Listing!AddRow,
         Listing!ReadNext, Listing!ReturnRows
\* Steps that do not touch rows.
<1>1. ASSUME UNCHANGED <<results, cursor, row>>, chunk'.from = from,
             \/ place' \in {place, "failed"}
             \/ place = "idle" /\ place' = "check"
             \/ place = "read" /\ row = 0 /\ from = <<>> /\ place' = "done"
             \/ place = "read" /\ row # 0 /\ Len(from) < VectorSize /\ place' = "endpoints"
      PROVE  Listing!RowsInOrder' /\ Listing!OrderInv'
  <2>1. Listing!RowsInOrder'
    BY <1>t, <1>1 DEF Listing!RowsInOrder, Listing!Taken
  <2>2. /\ Listing!Taken(Len(results))' = Listing!Taken(Len(results))
        /\ Listing!AllFull' = Listing!AllFull /\ Listing!Ended' = Listing!Ended
    BY <1>s, <1>1 DEF Listing!Taken, Listing!AllFull, Listing!Ended
  <2> QED
    BY <1>t, <1>u, <1>s, <1>1, <2>1, <2>2 DEF Listing!OrderInv
<1>2. CASE Listing!ReadFirst \/ Listing!ReadNext
  <2>1. /\ place' = "read" /\ UNCHANGED <<results, chunk>> /\ place \in {"check", "added"}
        /\ \/ cursor < Len(server) /\ cursor' = cursor + 1 /\ row' = cursor + 1
           \/ cursor = Len(server) /\ cursor' = cursor /\ row' = 0
    BY <1>2, <1>u DEF Listing!ReadFirst, Listing!ReadNext, Listing!NextFlight
  <2>2. Listing!RowsInOrder'
    BY <1>t, <2>1 DEF Listing!RowsInOrder, Listing!Taken
  <2>3. /\ Listing!Taken(Len(results))' = Listing!Taken(Len(results))
        /\ Listing!AllFull' = Listing!AllFull
    BY <2>1 DEF Listing!Taken, Listing!AllFull
  <2>4. cursor' = cursor => Listing!Ended' = Listing!Ended
    BY <1>s, <2>1 DEF Listing!Taken, Listing!Ended
  <2>5. cursor < Len(server) => ~Listing!Ended
    BY <1>u DEF Listing!Ended
  <2> QED
    <3>1. CASE cursor < Len(server)
      <4>1. Listing!AllFull /\ cursor = Listing!Taken(Len(results)) + Len(from)
            /\ \A i \in DOMAIN from : from[i] = Listing!Taken(Len(results)) + i
        BY <1>t, <1>u, <2>1, <2>5, <3>1 DEF Listing!OrderInv
      <4>2. /\ place' = "read" /\ row' # 0 /\ row' = cursor' /\ cursor' = cursor + 1
            /\ Listing!AllFull' /\ chunk' = chunk
        BY <1>u, <2>1, <2>3, <3>1, <4>1
      <4>3. cursor' = Listing!Taken(Len(results))' + Len(chunk'.from) + 1
        BY <2>3, <4>1, <4>2
      <4>4. \A i \in DOMAIN chunk'.from : chunk'.from[i] = Listing!Taken(Len(results))' + i
        BY <2>3, <4>1, <4>2
      <4>5. Listing!OrderInv'
        BY <4>2, <4>3, <4>4 DEF Listing!OrderInv
      <4> QED
        BY <2>2, <4>5
    <3>2. CASE cursor = Len(server)
      <4>1. /\ Listing!Ended \/ (Listing!AllFull /\ cursor = Listing!Taken(Len(results)) + Len(from))
            /\ \A i \in DOMAIN from : from[i] = Listing!Taken(Len(results)) + i
        BY <1>t, <2>1 DEF Listing!OrderInv
      <4>2. /\ place' = "read" /\ row' = 0 /\ cursor' = cursor /\ cursor' = Len(server') /\ chunk' = chunk
        BY <1>u, <1>s, <2>1, <3>2
      <4>3. Listing!Ended' \/ (Listing!AllFull' /\ cursor' = Listing!Taken(Len(results))' + Len(chunk'.from))
        BY <2>3, <2>4, <4>1, <4>2
      <4>4. \A i \in DOMAIN chunk'.from : chunk'.from[i] = Listing!Taken(Len(results))' + i
        BY <2>3, <4>1, <4>2
      <4>5. Listing!OrderInv'
        BY <4>2, <4>3, <4>4 DEF Listing!OrderInv
      <4> QED
        BY <2>2, <4>5
    <3> QED
      BY <1>u, <2>2, <3>1, <3>2
<1>3. CASE Listing!AddRow /\ place' = "added"
  <2>1. /\ place = "endpoints" /\ place' = "added" /\ UNCHANGED <<results, cursor, row>>
        /\ chunk'.from = Append(from, row)
    BY <1>t, <1>3 DEF Listing!AddRow, Listing!TypeOK, Listing!ChunkType
  <2>2. row \in 1 .. Len(server) /\ row = Listing!Taken(Len(results)) + Len(from) + 1
    <3>1. row = cursor /\ cursor = Listing!Taken(Len(results)) + Len(from) + 1
      BY <1>t, <2>1 DEF Listing!OrderInv
    <3> QED
      BY <1>u, <1>v, <3>1
  <2>3. /\ Len(chunk'.from) = Len(from) + 1 /\ DOMAIN chunk'.from = 1 .. Len(from) + 1
        /\ \A i \in 1 .. Len(from) : chunk'.from[i] = from[i]
        /\ chunk'.from[Len(from) + 1] = row
    <3>1. from \in Seq(1 .. Len(server))
      BY <1>t DEF Listing!TypeOK, Listing!ChunkType
    <3> QED
      BY <2>1, <2>2, <3>1
  <2>4. Listing!RowsInOrder'
    BY <1>t, <2>1 DEF Listing!RowsInOrder, Listing!Taken
  <2>5. /\ Listing!Taken(Len(results))' = Listing!Taken(Len(results))
        /\ Listing!AllFull' = Listing!AllFull
    BY <2>1 DEF Listing!Taken, Listing!AllFull
  <2>6. Listing!Taken(Len(results)) \in Nat
    BY <1>u, TakenFacts
  <2>7. \A i \in DOMAIN chunk'.from : chunk'.from[i] = Listing!Taken(Len(results)) + i
    <3>1. \A i \in 1 .. Len(from) : from[i] = Listing!Taken(Len(results)) + i
      BY <1>t, <1>u DEF Listing!OrderInv
    <3>2. ASSUME NEW i \in 1 .. Len(from) + 1
          PROVE  chunk'.from[i] = Listing!Taken(Len(results)) + i
      <4>1. CASE i = Len(from) + 1
        BY <1>u, <1>v, <2>2, <2>3, <4>1
      <4>2. CASE i # Len(from) + 1
        <5>1. i \in 1 .. Len(from)
          BY <1>u, <4>2
        <5> QED
          BY <2>3, <3>1, <5>1
      <4> QED
        BY <4>1, <4>2
    <3> QED
      BY <2>3, <3>2
  <2>8. Listing!AllFull /\ row = cursor
    BY <1>t, <2>1 DEF Listing!OrderInv
  <2>9. cursor = Listing!Taken(Len(results)) + Len(chunk'.from)
    BY <1>u, <2>2, <2>3, <2>6, <2>8
  <2>10. Listing!OrderInv'
    BY <2>1, <2>5, <2>7, <2>8, <2>9 DEF Listing!OrderInv
  <2> QED
    BY <2>4, <2>10
<1>4. CASE Listing!ReturnRows
  <2>1. /\ place = "read" /\ from # <<>> /\ (row = 0 \/ Len(from) = VectorSize)
        /\ results' = Append(results, chunk) /\ place' = "idle" /\ row' = 0 /\ chunk'.from = <<>>
        /\ cursor' = cursor
    BY <1>4 DEF Listing!ReturnRows, Listing!EmptyChunk
  <2>2. /\ Len(results') = Len(results) + 1 /\ DOMAIN results' = 1 .. Len(results) + 1
        /\ \A j \in 1 .. Len(results) : results'[j] = results[j]
        /\ results'[Len(results) + 1] = chunk /\ results' # <<>>
    <3>1. results \in Seq(Listing!ChunkType) /\ chunk \in Listing!ChunkType
      BY <1>t DEF Listing!TypeOK
    <3> HIDE DEF Listing!ChunkType
    <3> QED
      BY <2>1, <3>1
  <2>3. /\ Listing!AllFull /\ ~Listing!Ended
        /\ \A i \in DOMAIN from : from[i] = Listing!Taken(Len(results)) + i
        /\ row = 0 => cursor = Len(server) /\ cursor = Listing!Taken(Len(results)) + Len(from)
        /\ row # 0 => cursor = Listing!Taken(Len(results)) + Len(from) + 1
    BY <1>t, <1>u, <2>1 DEF Listing!OrderInv, Listing!Ended
  <2>4. /\ Listing!Taken(Len(results)) \in Nat
        /\ Listing!Taken(Len(results) + 1) = Listing!Taken(Len(results)) + VectorSize + 1
    BY <1>u, TakenFacts
  <2>5. Listing!RowsInOrder'
    <3>1. ASSUME NEW j \in 1 .. Len(results)
          PROVE  /\ Len(results'[j].from) = VectorSize
                 /\ \A i \in DOMAIN results'[j].from : results'[j].from[i] = Listing!Taken(j - 1) + i
      BY <1>t, <1>u, <2>2, <2>3 DEF Listing!RowsInOrder, Listing!AllFull
    <3>2. \A i \in DOMAIN chunk.from : chunk.from[i] = Listing!Taken((Len(results) + 1) - 1) + i
      BY <1>u, <2>3
    <3>3. ASSUME NEW j \in 1 .. Len(results) + 1
          PROVE  /\ j < Len(results) + 1 => Len(results'[j].from) = VectorSize
                 /\ \A i \in DOMAIN results'[j].from : results'[j].from[i] = Listing!Taken(j - 1) + i
      <4>1. j \in 1 .. Len(results) \/ j = Len(results) + 1
        BY <1>u
      <4> QED
        BY <2>2, <3>1, <3>2, <4>1
    <3>4. \A n : Listing!Taken(n)' = Listing!Taken(n)
      BY DEF Listing!Taken
    <3> QED
      BY <2>2, <3>3 DEF Listing!RowsInOrder, Listing!Taken
  <2>6. row # 0 => Listing!AllFull'
    BY <1>u, <2>1, <2>2, <2>3 DEF Listing!AllFull
  <2>7. row = 0 => Listing!Ended'
    BY <1>u, <1>s, <2>1, <2>2, <2>3 DEF Listing!Ended, Listing!Taken
  <2>8. Listing!Taken(Len(results))' = Listing!Taken(Len(results) + 1)
    BY <2>2 DEF Listing!Taken
  <2>9. DOMAIN chunk'.from = {} /\ Len(chunk'.from) = 0
    BY <2>1
  <2> QED
    <3>1. Listing!Ended' \/ (Listing!AllFull' /\ cursor' = Listing!Taken(Len(results))' + Len(chunk'.from))
      <4>1. CASE row = 0
        BY <2>7, <4>1
      <4>2. CASE row # 0
        <5>1. Len(from) = VectorSize
          BY <2>1, <4>2
        <5>2. cursor = Listing!Taken(Len(results) + 1) + 0
          BY <1>u, <1>v, <2>3, <2>4, <4>2, <5>1
        <5> QED
          BY <2>1, <2>6, <2>8, <2>9, <4>2, <5>2
      <4> QED
        BY <4>1, <4>2
    <3>2. Listing!OrderInv'
      BY <2>1, <2>9, <3>1 DEF Listing!OrderInv
    <3> QED
      BY <2>5, <3>2
<1>5. CASE Listing!Call
  <2>1. place = "idle" /\ place' = "check" /\ UNCHANGED <<results, cursor, row>> /\ chunk'.from = <<>>
    BY <1>5 DEF Listing!Call, Listing!EmptyChunk
  <2>2. from = <<>>
    BY <1>t, <2>1 DEF Listing!OrderInv
  <2> QED
    BY <1>1, <2>1, <2>2
<1>6. CASE Listing!AddDescriptor
  <2>1. /\ place = "read" /\ row # 0 /\ Len(from) < VectorSize /\ place' \in {"endpoints", "failed"}
        /\ UNCHANGED <<results, cursor, row>> /\ chunk'.from = from
    BY <1>t, <1>6 DEF Listing!AddDescriptor, Listing!Described, Listing!TypeOK, Listing!ChunkType
  <2> QED
    BY <1>1, <2>1
<1>7. CASE Listing!AddEndpoint \/ (Listing!AddRow /\ place' # "added")
  <2>1. /\ place' \in {place, "failed"} /\ UNCHANGED <<results, cursor, row>> /\ chunk'.from = from
    BY <1>t, <1>7 DEF Listing!AddEndpoint, Listing!AddRow, Listing!TypeOK, Listing!ChunkType
  <2> QED
    BY <1>1, <2>1
<1>8. CASE Listing!NoMoreFlights
  BY <1>1, <1>8 DEF Listing!NoMoreFlights
<1>9. CASE \/ Listing!OpenListing \/ Listing!OpenFails \/ Listing!CheckInterrupt
           \/ Listing!ReadFails \/ Listing!Interrupt
  <2>1. place' \in {place, "failed"} /\ UNCHANGED <<results, cursor, row, chunk>>
    BY <1>9 DEF Listing!OpenListing, Listing!OpenFails, Listing!CheckInterrupt,
                Listing!ReadFails, Listing!Interrupt
  <2> QED
    BY <1>1, <2>1
<1> QED
  BY <1>2, <1>3, <1>4, <1>5, <1>6, <1>7, <1>8, <1>9 DEF Listing!Next, Listing!Step


\* What the type of the vector in hand says of its parts.
LEMMA ChunkFacts ==
  ASSUME Listing!TypeOK
  PROVE  /\ server \in Seq(Flights) /\ Len(server) \in Nat
         /\ chunk.descriptors \in Seq(Listing!Places) /\ chunk.parts \in Seq(Texts)
         /\ chunk.lists \in Seq(Listing!Places) /\ chunk.tickets \in Seq(Texts)
         /\ chunk.places \in Seq(Listing!Places \cup {Listing!Unset})
         /\ chunk.locations \in Seq(Texts) /\ chunk.from \in Seq(1 .. Len(server))
         /\ Len(chunk.from) \in Nat /\ DOMAIN chunk.from = 1 .. Len(chunk.from)
         /\ Len(chunk.tickets) \in Nat /\ Len(chunk.lists) = Len(chunk.from)
         /\ Len(chunk.descriptors) \in Nat /\ Len(chunk.descriptors) >= Len(chunk.from)
         /\ Len(chunk.places) = Len(chunk.tickets)
         /\ DOMAIN chunk.places = 1 .. Len(chunk.tickets)
<1>1. /\ server \in Seq(Flights)
      /\ chunk.descriptors \in Seq(Listing!Places) /\ chunk.parts \in Seq(Texts)
      /\ chunk.lists \in Seq(Listing!Places) /\ chunk.tickets \in Seq(Texts)
      /\ chunk.places \in Seq(Listing!Places \cup {Listing!Unset})
      /\ chunk.locations \in Seq(Texts) /\ chunk.from \in Seq(1 .. Len(server))
  BY DEF Listing!TypeOK, Listing!ChunkType
<1>2. /\ Len(server) \in Nat
      /\ Len(chunk.from) \in Nat /\ DOMAIN chunk.from = 1 .. Len(chunk.from)
      /\ Len(chunk.tickets) \in Nat /\ Len(chunk.descriptors) \in Nat
      /\ DOMAIN chunk.places = 1 .. Len(chunk.places)
  BY <1>1
<1> QED
  BY <1>1, <1>2 DEF Listing!TypeOK

\* The tickets of a flight's endpoints are a list as long as they are.
LEMMA TicketsFacts ==
  ASSUME NEW f \in Flights
  PROVE  /\ Len([k \in DOMAIN f.endpoints |-> f.endpoints[k].ticket]) = Len(f.endpoints)
         /\ \A k \in 1 .. Len(f.endpoints) :
              [l \in DOMAIN f.endpoints |-> f.endpoints[l].ticket][k] = f.endpoints[k].ticket
<1> DEFINE t == [k \in DOMAIN f.endpoints |-> f.endpoints[k].ticket]
<1>1. Len(f.endpoints) \in Nat /\ DOMAIN f.endpoints = 1 .. Len(f.endpoints)
  BY FlightFacts
<1>2. DOMAIN t = 1 .. Len(f.endpoints)
  BY <1>1
<1>3. Len(t) = Len(f.endpoints)
  BY <1>1, <1>2
<1> QED
  BY <1>1, <1>3

\* What is read of a row does not change when other rows are written: a vector that agrees
\* with another on the row, and has more behind it, reads back the same.
LEMMA RowStays ==
  ASSUME Listing!TypeOK, NEW d, NEW i \in 1 .. Len(chunk.from), Listing!ReadsBack(chunk, i),
         NEW t \in Seq(Texts), NEW p \in Seq(Texts), NEW l \in Seq(Texts),
         d.from[i] = chunk.from[i], d.descriptors[i] = chunk.descriptors[i],
         d.lists[i] = chunk.lists[i],
         d.parts = chunk.parts \o p, d.tickets = chunk.tickets \o t,
         d.locations = chunk.locations \o l,
         DOMAIN chunk.places \subseteq DOMAIN d.places,
         chunk.lists[i].length = 1 =>
           d.places[chunk.lists[i].offset + 1] = chunk.places[chunk.lists[i].offset + 1]
  PROVE  Listing!ReadsBack(d, i)
<1> DEFINE f == server[chunk.from[i]]
<1>1. f \in Flights
  <2>1. chunk.from[i] \in 1 .. Len(server)
    <3>1. chunk.from \in Seq(1 .. Len(server)) /\ Len(chunk.from) \in Nat
      BY ChunkFacts
    <3> QED
      BY SMTT(30), <3>1
  <2> QED
    BY SMTT(30), <2>1, ChunkFacts
<1>2. /\ f.type = "path" => Listing!ReadsAs(chunk.parts, chunk.descriptors[i], f.path)
      /\ Listing!ReadsAs(chunk.tickets, chunk.lists[i], [k \in DOMAIN f.endpoints |-> f.endpoints[k].ticket])
      /\ Len(f.endpoints) = 1 =>
           /\ chunk.lists[i].offset + 1 \in DOMAIN chunk.places
           /\ Listing!ReadsAs(chunk.locations, chunk.places[chunk.lists[i].offset + 1], f.endpoints[1].locations)
  BY DEF Listing!ReadsBack
<1>3. chunk.lists[i] \in Listing!Places /\ chunk.descriptors[i] \in Listing!Places
  <2>1. i \in 1 .. Len(chunk.lists) /\ i \in 1 .. Len(chunk.descriptors)
    BY SMTT(30), ChunkFacts
  <2> HIDE DEF Listing!Places
  <2> QED
    BY SMTT(30), <2>1, ChunkFacts
<1>4. chunk.lists[i].length = Len(f.endpoints)
  <2>1. chunk.lists[i].length = Len([k \in DOMAIN f.endpoints |-> f.endpoints[k].ticket])
    BY <1>2 DEF Listing!ReadsAs
  <2> QED
    BY <1>1, <2>1, TicketsFacts
<1>5. f.type = "path" => Listing!ReadsAs(d.parts, d.descriptors[i], f.path)
  <2>1. chunk.parts \in Seq(Texts)
    BY ChunkFacts
  <2> HIDE DEF f
  <2> QED
    BY <1>2, <1>3, <2>1, ReadsBehind
<1>6. Listing!ReadsAs(d.tickets, d.lists[i], [k \in DOMAIN f.endpoints |-> f.endpoints[k].ticket])
  <2>1. chunk.tickets \in Seq(Texts)
    BY ChunkFacts
  <2> HIDE DEF f
  <2> QED
    BY <1>2, <1>3, <2>1, ReadsBehind
<1>7. ASSUME Len(f.endpoints) = 1
      PROVE  /\ d.lists[i].offset + 1 \in DOMAIN d.places
             /\ Listing!ReadsAs(d.locations, d.places[d.lists[i].offset + 1], f.endpoints[1].locations)
  <2> DEFINE spot == chunk.places[chunk.lists[i].offset + 1]
  <2>1. /\ chunk.lists[i].offset + 1 \in DOMAIN chunk.places
        /\ Listing!ReadsAs(chunk.locations, spot, f.endpoints[1].locations)
        /\ d.places[chunk.lists[i].offset + 1] = spot
    BY <1>2, <1>4, <1>7
  <2>2. Listing!ReadsAs(d.locations, spot, f.endpoints[1].locations)
    <3>1. chunk.locations \in Seq(Texts)
      BY ChunkFacts
    <3> HIDE DEF f, spot
    <3> QED
      BY <2>1, <3>1, ReadsBehind
  <2> QED
    BY <2>1, <2>2
<1> QED
  BY <1>5, <1>6, <1>7 DEF Listing!ReadsBack


\* The row is written behind the others.
LEMMA RowAdded ==
  ASSUME Listing!TypeOK, Listing!ChunkInv, place = "endpoints", row \in 1 .. Len(server),
         Len(chunk.tickets) - base = Len(server[row].endpoints), NEW d,
         d.lists = Append(chunk.lists, [offset |-> base, length |-> Len(server[row].endpoints)]),
         d.from = Append(chunk.from, row),
         d.descriptors = chunk.descriptors, d.parts = chunk.parts, d.tickets = chunk.tickets,
         d.places = chunk.places, d.locations = chunk.locations
  PROVE  \A i \in DOMAIN d.from : Listing!ReadsBack(d, i)
<1> DEFINE n == Len(chunk.from)
           f == server[row]
           tickets == [k \in DOMAIN f.endpoints |-> f.endpoints[k].ticket]
           list == [offset |-> base, length |-> Len(f.endpoints)]
<1>1. f \in Flights /\ base \in Nat
  BY ChunkFacts DEF Listing!TypeOK
<1>2. n \in Nat /\ DOMAIN chunk.from = 1 .. n /\ Len(chunk.tickets) \in Nat /\ Len(f.endpoints) \in Nat
  BY <1>1, ChunkFacts, FlightFacts
<1>3. /\ d.lists[n + 1] = list /\ d.from[n + 1] = row /\ DOMAIN d.from = 1 .. n + 1
      /\ \A i \in 1 .. n : d.lists[i] = chunk.lists[i] /\ d.from[i] = chunk.from[i]
  <2>1. chunk.from \in Seq(1 .. Len(server))
    BY ChunkFacts
  <2>2. chunk.lists \in Seq(Listing!Places) /\ Len(chunk.lists) = n
    BY ChunkFacts
  <2>3. list \in Listing!Places
    BY <1>1, <1>2 DEF Listing!Places
  <2> HIDE DEF Listing!Places, list
  <2>4. d.from[n + 1] = row /\ DOMAIN d.from = 1 .. n + 1 /\ \A i \in 1 .. n : d.from[i] = chunk.from[i]
    BY <1>2, <2>1
  <2>5. d.lists = Append(chunk.lists, list)
    BY DEF list
  <2>6. d.lists[n + 1] = list /\ \A i \in 1 .. n : d.lists[i] = chunk.lists[i]
    BY SMTT(30), <1>2, <2>2, <2>3, <2>5
  <2> QED
    BY <2>4, <2>6
<1>4. ASSUME NEW i \in 1 .. n
      PROVE  Listing!ReadsBack(d, i)
  <2>1. Listing!ReadsBack(chunk, i)
    BY <1>2 DEF Listing!ChunkInv
  <2> QED
    BY <1>3, <2>1 DEF Listing!ReadsBack
<1>5. Listing!ReadsBack(d, n + 1)
  <2>1. /\ f.type = "path" => Listing!ReadsAs(chunk.parts, chunk.descriptors[n + 1], f.path)
        /\ \A e \in 1 .. Len(f.endpoints) : chunk.tickets[base + e] = f.endpoints[e].ticket
        /\ Len(f.endpoints) = 1 =>
             Listing!ReadsAs(chunk.locations, chunk.places[base + 1], f.endpoints[1].locations)
    <3>1. Len(f.endpoints) = 1 => Len(chunk.tickets) - base = 1
      OBVIOUS
    <3> QED
      BY <3>1 DEF Listing!ChunkInv
  <2>2. Listing!ReadsAs(d.tickets, list, tickets)
    <3>1. Len(tickets) = Len(f.endpoints) /\ \A k \in 1 .. Len(f.endpoints) : tickets[k] = f.endpoints[k].ticket
      BY <1>1, TicketsFacts
    <3>2. \A k \in 1 .. Len(f.endpoints) : base + k \in 1 .. Len(chunk.tickets)
      BY <1>1, <1>2
    <3>3. list.offset = base /\ list.length = Len(f.endpoints)
      OBVIOUS
    <3> HIDE DEF list, tickets
    <3> QED
      BY <2>1, <3>1, <3>2, <3>3 DEF Listing!ReadsAs
  <2>3. ASSUME Len(f.endpoints) = 1
        PROVE  /\ list.offset + 1 \in DOMAIN d.places
               /\ Listing!ReadsAs(d.locations, d.places[list.offset + 1], f.endpoints[1].locations)
    <3>1. base + 1 \in 1 .. Len(chunk.tickets)
      BY <1>1, <1>2, <2>3
    <3>2. DOMAIN chunk.places = 1 .. Len(chunk.tickets)
      BY ChunkFacts
    <3>3. list.offset = base
      OBVIOUS
    <3> QED
      BY <2>1, <2>3, <3>1, <3>2, <3>3
  <2>4. f.type = "path" => Listing!ReadsAs(d.parts, d.descriptors[n + 1], f.path)
    BY <2>1
  <2> HIDE DEF list, f
  <2>5. server[d.from[n + 1]] = f /\ d.lists[n + 1] = list
    BY <1>3 DEF f
  <2> QED
    BY <2>2, <2>3, <2>4, <2>5 DEF Listing!ReadsBack
<1> QED
  <2>1. \A i \in 1 .. n + 1 : i \in 1 .. n \/ i = n + 1
    BY <1>2
  <2> QED
    BY <1>3, <1>4, <1>5, <2>1

\* The descriptor of the next row is written, and nothing else.
LEMMA DescriptorAdded ==
  ASSUME Listing!TypeOK, Listing!ChunkInv, place = "read", row \in 1 .. Len(server)
  PROVE  LET d == Listing!Described(chunk, server[row])
             n == Len(chunk.from)
         IN  /\ d.from = chunk.from /\ d.lists = chunk.lists /\ d.tickets = chunk.tickets
             /\ \A i \in 1 .. n :
                  /\ Listing!ReadsBack(d, i)
                  /\ d.lists[i].length # 0 => d.lists[i].offset + d.lists[i].length <= Len(d.tickets)
             /\ Len(d.descriptors) = n + 1
             /\ server[row].type = "path" =>
                  Listing!ReadsAs(d.parts, d.descriptors[n + 1], server[row].path)
<1> DEFINE n == Len(chunk.from)
           f == server[row]
           d == Listing!Described(chunk, f)
           new == IF f.type = "path" THEN [offset |-> Len(chunk.parts), length |-> Len(f.path)]
                  ELSE Listing!Nowhere
           p == IF f.type = "path" THEN f.path ELSE <<>>
<1>1. f \in Flights
  BY ChunkFacts
<1>2. /\ n \in Nat /\ DOMAIN chunk.from = 1 .. n /\ Len(chunk.descriptors) = n
      /\ chunk.parts \in Seq(Texts) /\ p \in Seq(Texts) /\ Len(chunk.parts) \in Nat /\ Len(f.path) \in Nat
  <2>1. f.path \in Seq(Texts)
    BY <1>1, FlightFacts
  <2>2. n \in Nat /\ DOMAIN chunk.from = 1 .. n /\ chunk.parts \in Seq(Texts)
    BY ChunkFacts
  <2>3. Len(chunk.descriptors) = n
    BY DEF Listing!TypeOK
  <2>4. <<>> \in Seq(Texts)
    OBVIOUS
  <2>5. Len(chunk.parts) \in Nat /\ Len(f.path) \in Nat
    BY <2>1, <2>2
  <2> QED
    BY <2>1, <2>2, <2>3, <2>4, <2>5
<1>3. new \in Listing!Places
  BY <1>2 DEF Listing!Places, Listing!Nowhere
<1>4. /\ d.from = chunk.from /\ d.lists = chunk.lists /\ d.tickets = chunk.tickets
      /\ d.places = chunk.places /\ d.locations = chunk.locations
      /\ d.descriptors = Append(chunk.descriptors, new) /\ d.parts = chunk.parts \o p
  <2>1. chunk \in Listing!ChunkType
    BY DEF Listing!TypeOK
  <2>2. chunk.parts \o <<>> = chunk.parts
    BY <1>2
  <2> HIDE DEF f
  <2> QED
    BY <2>1, <2>2 DEF Listing!Described, Listing!ChunkType
<1>5. /\ Len(d.descriptors) = n + 1 /\ d.descriptors[n + 1] = new
      /\ \A i \in 1 .. n : d.descriptors[i] = chunk.descriptors[i]
  <2>1. chunk.descriptors \in Seq(Listing!Places)
    BY ChunkFacts
  <2> HIDE DEF Listing!Places, new, d, n
  <2> QED
    BY <1>2, <1>3, <1>4, <2>1
<1>6. ASSUME NEW i \in 1 .. n
      PROVE  /\ Listing!ReadsBack(d, i)
             /\ d.lists[i].length # 0 => d.lists[i].offset + d.lists[i].length <= Len(d.tickets)
  <2>1. Listing!ReadsBack(chunk, i)
    BY <1>2 DEF Listing!ChunkInv
  <2>2. Listing!ReadsBack(d, i)
    <3>1. chunk.tickets \in Seq(Texts) /\ chunk.locations \in Seq(Texts) /\ <<>> \in Seq(Texts)
      BY ChunkFacts
    <3>2. chunk.tickets = chunk.tickets \o <<>> /\ chunk.locations = chunk.locations \o <<>>
      BY <3>1
    <3> HIDE DEF d, p
    <3> QED
      BY <1>2, <1>4, <1>5, <2>1, <3>1, <3>2, RowStays
  <2>3. chunk.lists[i] \in Listing!Places
    <3>1. i \in 1 .. Len(chunk.lists) /\ chunk.lists \in Seq(Listing!Places)
      BY ChunkFacts
    <3> HIDE DEF Listing!Places
    <3> QED
      BY <3>1
  <2>4. ASSUME chunk.lists[i].length # 0
        PROVE  chunk.lists[i].offset + chunk.lists[i].length <= Len(chunk.tickets)
    <3> DEFINE eps == server[chunk.from[i]].endpoints
               ts == [k \in DOMAIN eps |-> eps[k].ticket]
    <3>1. Listing!ReadsAs(chunk.tickets, chunk.lists[i], ts)
      BY <2>1 DEF Listing!ReadsBack
    <3> HIDE DEF eps, ts
    <3>2. chunk.lists[i].length \in 1 .. Len(ts) /\ chunk.lists[i].offset \in Nat
      BY <2>3, <2>4, <3>1 DEF Listing!ReadsAs, Listing!Places
    <3>3. chunk.lists[i].offset + chunk.lists[i].length \in 1 .. Len(chunk.tickets)
      BY <3>1, <3>2 DEF Listing!ReadsAs
    <3> QED
      BY <3>3, ChunkFacts
  <2> QED
    BY <1>4, <2>2, <2>4
<1>7. ASSUME f.type = "path"
      PROVE  Listing!ReadsAs(d.parts, d.descriptors[n + 1], f.path)
  <2>1. p = f.path /\ new = [offset |-> Len(chunk.parts), length |-> Len(p)]
    BY <1>7
  <2> HIDE DEF p, new, d
  <2> QED
    BY <1>2, <1>4, <1>5, <2>1, ReadsBehind
<1> QED
  BY <1>4, <1>5, <1>6, <1>7

\* An endpoint of the row in hand is written behind those of the rows before.
LEMMA EndpointAdded ==
  ASSUME Listing!TypeOK, Listing!ChunkInv, Listing!AddEndpoint, row \in 1 .. Len(server)
  PROVE  LET d == chunk'
         IN  /\ \A i \in 1 .. Len(chunk.from) : Listing!ReadsBack(d, i)
             /\ d.tickets \in Seq(Texts) /\ d.locations \in Seq(Texts)
             /\ d.places \in Seq(Listing!Places \cup {Listing!Unset})
             /\ Len(d.tickets) = Len(chunk.tickets) + 1 /\ Len(d.places) = Len(d.tickets)
             /\ \A k \in 1 .. Len(d.tickets) - base : d.tickets[base + k] = server[row].endpoints[k].ticket
             /\ Len(server[row].endpoints) = 1 =>
                  Listing!ReadsAs(d.locations, d.places[base + 1], server[row].endpoints[1].locations)
<1> DEFINE d == chunk'
           e == server[row].endpoints[Len(chunk.tickets) - base + 1]
<1>0. /\ place = "endpoints" /\ Len(chunk.tickets) - base < Len(server[row].endpoints)
      /\ e = server[row].endpoints[Len(chunk.tickets) - base + 1]
      /\ d.tickets = Append(chunk.tickets, e.ticket)
      /\ d.places = [Append(chunk.places, Listing!Unset)
                       EXCEPT ![base + 1] = [offset |-> Len(chunk.locations), length |-> Len(e.locations)]]
      /\ d.locations = chunk.locations \o e.locations
      /\ d.descriptors = chunk.descriptors /\ d.parts = chunk.parts
      /\ d.lists = chunk.lists /\ d.from = chunk.from
  <2>1. chunk \in Listing!ChunkType
    BY DEF Listing!TypeOK
  <2> QED
    BY <2>1 DEF Listing!AddEndpoint, Listing!ChunkType
<1> HIDE DEF d, e
<1> DEFINE n == Len(chunk.from)
           m == Len(chunk.tickets)
           f == server[row]
           place1 == [offset |-> Len(chunk.locations), length |-> Len(e.locations)]
<1>1. f \in Flights /\ base \in Nat
  BY ChunkFacts DEF Listing!TypeOK
<1>2. n \in Nat /\ m \in Nat /\ Len(f.endpoints) \in Nat /\ m - base \in 0 .. Len(f.endpoints)
  BY SMTT(30), <1>0, <1>1, ChunkFacts, FlightFacts DEF Listing!ChunkInv
<1>3. /\ m - base + 1 \in 1 .. Len(f.endpoints) /\ base <= m
  <2> DEFINE l == Len(f.endpoints)
  <2>1. m \in Nat /\ l \in Nat /\ base \in Nat /\ m - base \in 0 .. l /\ m - base < l
    BY <1>0, <1>1, <1>2
  <2> HIDE DEF l, m
  <2>2. m - base + 1 \in 1 .. l /\ base <= m
    BY <2>1
  <2> QED
    BY <2>2 DEF l
<1>4. e.ticket \in Texts /\ e.locations \in Seq(Texts) /\ Len(e.locations) \in Nat
  <2> HIDE DEF f, m
  <2> QED
    BY <1>0, <1>1, <1>3, FlightFacts DEF f, m
<1>5. chunk.locations \in Seq(Texts) /\ Len(chunk.locations) \in Nat /\ chunk.tickets \in Seq(Texts)
      /\ <<>> \in Seq(Texts) /\ <<e.ticket>> \in Seq(Texts) /\ chunk.parts \in Seq(Texts)
  <2>1. chunk.locations \in Seq(Texts) /\ chunk.tickets \in Seq(Texts) /\ chunk.parts \in Seq(Texts)
    BY ChunkFacts
  <2> QED
    BY <1>4, <2>1
<1>6. place1 \in Listing!Places
  BY <1>4, <1>5 DEF Listing!Places
<1>7. /\ Len(d.tickets) = m + 1 /\ d.tickets[m + 1] = e.ticket
      /\ \A k \in 1 .. m : d.tickets[k] = chunk.tickets[k]
      /\ d.tickets = chunk.tickets \o <<e.ticket>> /\ chunk.parts = chunk.parts \o <<>>
  <2>2. chunk.parts = chunk.parts \o <<>>
    BY <1>5
  <2> DEFINE ticket == e.ticket
  <2>3. ticket \in Texts /\ d.tickets = Append(chunk.tickets, ticket)
    BY <1>0, <1>4
  <2> HIDE DEF ticket
  <2>4. /\ Len(d.tickets) = m + 1 /\ d.tickets[m + 1] = ticket
        /\ \A k \in 1 .. m : d.tickets[k] = chunk.tickets[k]
    BY <1>5, <2>3
  <2>5. d.tickets = chunk.tickets \o <<ticket>>
    BY <1>5, <2>3, AppendedBehind
  <2> QED
    BY <2>2, <2>4, <2>5 DEF ticket
<1>8. /\ d.places \in Seq(Listing!Places \cup {Listing!Unset})
      /\ Len(d.places) = m + 1 /\ DOMAIN d.places = 1 .. m + 1
      /\ d.places[base + 1] = place1
      /\ \A k \in 1 .. m : k # base + 1 => d.places[k] = chunk.places[k]
  <2> DEFINE P == Listing!Places \cup {Listing!Unset}
             longer == Append(chunk.places, Listing!Unset)
  <2>1. chunk.places \in Seq(P) /\ Listing!Unset \in P /\ place1 \in P /\ Len(chunk.places) = m
    BY <1>6, ChunkFacts
  <2> HIDE DEF P, place1
  <2>2. /\ longer \in Seq(P) /\ Len(longer) = m + 1 /\ DOMAIN longer = 1 .. m + 1
        /\ \A k \in 1 .. m : longer[k] = chunk.places[k]
    BY <1>2, <2>1
  <2>3. base + 1 \in 1 .. m + 1 /\ \A k \in 1 .. m : k \in 1 .. m + 1
    BY <1>1, <1>2, <1>3
  <2>4. d.places = [longer EXCEPT ![base + 1] = place1]
    BY <1>0 DEF place1
  <2> HIDE DEF longer
  <2>5. d.places \in Seq(P) /\ Len(d.places) = m + 1
    <3>1. base + 1 \in 1 .. Len(longer) /\ longer \in Seq(P) /\ place1 \in P
      BY <2>1, <2>2, <2>3
    <3>2. /\ [longer EXCEPT ![base + 1] = place1] \in Seq(P)
          /\ Len([longer EXCEPT ![base + 1] = place1]) = Len(longer)
      BY ONLY <3>1, ExceptSeq
    <3> QED
      BY <2>2, <2>4, <3>2
  <2>6. DOMAIN d.places = 1 .. m + 1
    BY <2>5
  <2> QED
    BY <2>2, <2>3, <2>4, <2>5, <2>6 DEF P
<1>9. ASSUME NEW i \in 1 .. n
      PROVE  Listing!ReadsBack(d, i)
  <2>1. Listing!ReadsBack(chunk, i) /\ (chunk.lists[i].length # 0 =>
          chunk.lists[i].offset + chunk.lists[i].length <= base)
    BY <1>0, ChunkFacts DEF Listing!ChunkInv
  <2>2. chunk.lists[i].offset \in Nat
    <3>1. i \in 1 .. Len(chunk.lists) /\ chunk.lists \in Seq(Listing!Places)
      BY ChunkFacts
    <3>2. chunk.lists[i] \in Listing!Places
      <4> HIDE DEF Listing!Places
      <4> QED
        BY <3>1
    <3> QED
      BY <3>2 DEF Listing!Places
  <2>3. chunk.lists[i].length = 1 =>
          d.places[chunk.lists[i].offset + 1] = chunk.places[chunk.lists[i].offset + 1]
    <3>1. SUFFICES ASSUME chunk.lists[i].length = 1
                   PROVE  d.places[chunk.lists[i].offset + 1] = chunk.places[chunk.lists[i].offset + 1]
      OBVIOUS
    <3>2. chunk.lists[i].offset + 1 <= base
      BY <2>1, <3>1
    <3>3. chunk.lists[i].offset + 1 \in 1 .. m /\ chunk.lists[i].offset + 1 # base + 1
      <4> DEFINE o == chunk.lists[i].offset
      <4>1. o \in Nat /\ o + 1 <= base /\ base \in Nat /\ m \in Nat /\ base <= m
        BY <1>1, <1>2, <1>3, <2>2, <3>2
      <4> HIDE DEF o, m
      <4>2. o + 1 \in 1 .. m /\ o + 1 # base + 1
        BY <4>1
      <4> QED
        BY <4>2 DEF o, m
    <3> QED
      BY <1>8, <3>3
  <2>4. DOMAIN chunk.places \subseteq DOMAIN d.places
    <3>1. DOMAIN chunk.places = 1 .. m
      BY ChunkFacts
    <3> QED
      BY <1>2, <1>8, <3>1
  <2>5. /\ d.parts = chunk.parts \o <<>> /\ d.tickets = chunk.tickets \o <<e.ticket>>
        /\ d.locations = chunk.locations \o e.locations
        /\ <<>> \in Seq(Texts) /\ <<e.ticket>> \in Seq(Texts) /\ e.locations \in Seq(Texts)
    BY <1>0, <1>4, <1>5, <1>7
  <2>6. i \in 1 .. Len(chunk.from) /\ Listing!ReadsBack(chunk, i)
    BY <2>1
  <2> DEFINE ts == <<e.ticket>>
             ls == e.locations
             ps == <<>>
  <2>7. /\ d.parts = chunk.parts \o ps /\ d.tickets = chunk.tickets \o ts
        /\ d.locations = chunk.locations \o ls
        /\ ps \in Seq(Texts) /\ ts \in Seq(Texts) /\ ls \in Seq(Texts)
    BY <2>5
  <2>8. /\ d.from[i] = chunk.from[i] /\ d.descriptors[i] = chunk.descriptors[i]
        /\ d.lists[i] = chunk.lists[i]
    BY <1>0
  <2>9. chunk.lists[i].length = 1 =>
          d.places[chunk.lists[i].offset + 1] = chunk.places[chunk.lists[i].offset + 1]
    BY <2>3
  <2> HIDE DEF ts, ls, ps
  <2> QED
    BY ONLY Listing!TypeOK, <2>4, <2>6, <2>7, <2>8, <2>9, RowStays
<1>10. ASSUME NEW k \in 1 .. Len(d.tickets) - base
       PROVE  d.tickets[base + k] = f.endpoints[k].ticket
  <2>1. CASE k = m - base + 1
    <3>1. base + k = m + 1
      BY <1>1, <1>2, <2>1
    <3> QED
      BY <1>0, <1>7, <2>1, <3>1
  <2>2. CASE k # m - base + 1
    <3>1. k \in 1 .. m - base /\ base + k \in 1 .. m
      <4>1. k \in 1 .. m + 1 - base /\ m \in Nat /\ base \in Nat /\ base <= m
        <5>1. Len(d.tickets) = m + 1
          BY <1>7
        <5> DEFINE l == Len(d.tickets)
        <5>2. k \in 1 .. l - base
          OBVIOUS
        <5>3. l = m + 1
          BY <5>1
        <5> HIDE DEF l
        <5>4. k \in 1 .. m + 1 - base
          BY <1>1, <1>2, <5>2, <5>3
        <5> QED
          BY <1>1, <1>2, <1>3, <5>4
      <4> HIDE DEF m
      <4> QED
        BY <2>2, <4>1
    <3>2. chunk.tickets[base + k] = f.endpoints[k].ticket
      BY SMTT(30), <1>0, <3>1 DEF Listing!ChunkInv
    <3> QED
      BY <1>7, <3>1, <3>2
  <2> QED
    BY <2>1, <2>2
<1>11. ASSUME Len(f.endpoints) = 1
       PROVE  Listing!ReadsAs(d.locations, d.places[base + 1], f.endpoints[1].locations)
  <2>1. m - base + 1 = 1
    BY <1>1, <1>2, <1>3, <1>11
  <2>2. e = f.endpoints[1]
    BY <1>0, <2>1
  <2>3. Listing!ReadsAs(d.locations, place1, e.locations)
    BY SMTT(30), <1>0, <1>4, <1>5, ReadsBehind
  <2> QED
    BY <1>8, <2>2, <2>3
<1> QED
  <2>1. d.tickets \in Seq(Texts) /\ d.locations \in Seq(Texts)
    BY SMTT(30), <1>0, <1>4, <1>5
  <2> QED
    BY <1>7, <1>8, <1>9, <1>10, <1>11, <2>1 DEF d

LEMMA ServerStays ==
  ASSUME Listing!Next
  PROVE  UNCHANGED server /\ \A c, i : Listing!ReadsBack(c, i)' <=> Listing!ReadsBack(c, i)
<1>1. UNCHANGED server
  BY DEF Listing!Next, Listing!Step, Listing!Interrupt, Listing!Call, Listing!OpenListing,
         Listing!OpenFails, Listing!CheckInterrupt, Listing!ReadFirst, Listing!NoMoreFlights,
         Listing!ReadFails, Listing!AddDescriptor, Listing!AddEndpoint, Listing!AddRow,
         Listing!ReadNext, Listing!ReturnRows
<1> QED
  BY <1>1 DEF Listing!ReadsBack, Listing!ReadsAs

\* What a step does to what is read back of the rows.
LEMMA ChunkKeeps ==
  ASSUME Listing!ListingInv, Listing!Next
  PROVE  Listing!RowsReadBack' /\ Listing!ChunkInv'
<1>t. Listing!TypeOK /\ Listing!ChunkInv /\ Listing!RowsReadBack /\ Listing!OrderInv
  BY DEF Listing!ListingInv
<1>s. UNCHANGED server /\ \A c, i : Listing!ReadsBack(c, i)' <=> Listing!ReadsBack(c, i)
  BY ServerStays
<1>u. DOMAIN chunk.from = 1 .. Len(chunk.from) /\ Len(chunk.from) \in Nat
  BY <1>t, ChunkFacts
\* Rows handed out stay as they are.
<1>r. UNCHANGED results => Listing!RowsReadBack'
  BY <1>s, <1>t DEF Listing!RowsReadBack
\* Behind an endpoint or a row: what is left to show of the vector being filled.
<1>c. ASSUME place' # "endpoints",
             \A i \in DOMAIN chunk'.from : Listing!ReadsBack(chunk', i)
      PROVE  Listing!ChunkInv'
  BY <1>s, <1>c DEF Listing!ChunkInv
<1>1. CASE Listing!Call
  <2>1. place' # "endpoints" /\ chunk'.from = <<>> /\ UNCHANGED results
    BY <1>1 DEF Listing!Call, Listing!EmptyChunk
  <2> QED
    BY <1>c, <1>r, <2>1
<1>2. CASE Listing!ReturnRows
  <2>1. place' # "endpoints" /\ chunk'.from = <<>> /\ results' = Append(results, chunk)
    BY <1>2 DEF Listing!ReturnRows, Listing!EmptyChunk
  <2>2. /\ DOMAIN results' = 1 .. Len(results) + 1 /\ DOMAIN results = 1 .. Len(results)
        /\ \A j \in 1 .. Len(results) : results'[j] = results[j]
        /\ results'[Len(results) + 1] = chunk /\ Len(results) \in Nat
    <3>1. results \in Seq(Listing!ChunkType) /\ chunk \in Listing!ChunkType
      BY <1>t DEF Listing!TypeOK
    <3> HIDE DEF Listing!ChunkType
    <3> QED
      BY <2>1, <3>1
  <2>3. ASSUME NEW j \in 1 .. Len(results) + 1
        PROVE  \A i \in DOMAIN results'[j].from : Listing!ReadsBack(results'[j], i)
    <3>1. CASE j = Len(results) + 1
      BY <1>t, <2>2, <3>1 DEF Listing!ChunkInv
    <3>2. CASE j # Len(results) + 1
      <4>1. j \in 1 .. Len(results)
        BY <2>2, <3>2
      <4> QED
        BY <1>t, <2>2, <4>1 DEF Listing!RowsReadBack
    <3> QED
      BY <3>1, <3>2
  <2>4. Listing!RowsReadBack'
    BY <1>s, <2>2, <2>3 DEF Listing!RowsReadBack
  <2> QED
    BY <1>c, <2>1, <2>4
<1>3. CASE Listing!AddDescriptor /\ place' = "endpoints"
  <2> DEFINE d == Listing!Described(chunk, server[row])
  <2>1. /\ place = "read" /\ row # 0 /\ base' = Len(chunk.tickets) /\ chunk' = d
        /\ UNCHANGED <<results, row>>
    BY <1>3 DEF Listing!AddDescriptor
  <2>2. row \in 1 .. Len(server)
    <3>1. row \in 0 .. Len(server) /\ Len(server) \in Nat
      BY <1>t, ChunkFacts DEF Listing!TypeOK
    <3> QED
      BY <2>1, <3>1
  <2>3. /\ d.from = chunk.from /\ d.lists = chunk.lists /\ d.tickets = chunk.tickets
        /\ \A i \in 1 .. Len(chunk.from) :
             /\ Listing!ReadsBack(d, i)
             /\ d.lists[i].length # 0 => d.lists[i].offset + d.lists[i].length <= Len(d.tickets)
        /\ Len(d.descriptors) = Len(chunk.from) + 1
        /\ server[row].type = "path" =>
             Listing!ReadsAs(d.parts, d.descriptors[Len(chunk.from) + 1], server[row].path)
    BY <1>t, <2>1, <2>2, DescriptorAdded
  <2>4. /\ Len(server[row].endpoints) \in Nat /\ Len(chunk.tickets) \in Nat
    <3>1. server[row] \in Flights
      BY <1>t, <2>2, ChunkFacts
    <3> QED
      BY <1>t, <3>1, ChunkFacts, FlightFacts
  <2> HIDE DEF d
  <2>5. /\ chunk'.from = chunk.from /\ chunk'.lists = d.lists /\ Len(chunk'.tickets) - base' = 0
        /\ chunk'.descriptors = d.descriptors /\ chunk'.parts = d.parts
        /\ 0 \in 0 .. Len(server[row].endpoints) /\ 1 .. 0 = {}
    BY <2>1, <2>3, <2>4
  <2>6. \A i \in DOMAIN chunk'.from :
          /\ Listing!ReadsBack(chunk', i)
          /\ chunk'.lists[i].length # 0 => chunk'.lists[i].offset + chunk'.lists[i].length <= base'
    <3>1. \A i \in DOMAIN chunk'.from : Listing!ReadsBack(chunk', i)
      BY <1>u, <2>1, <2>3, <2>5
    <3>2. \A i \in DOMAIN chunk'.from :
             chunk'.lists[i].length # 0 => chunk'.lists[i].offset + chunk'.lists[i].length <= base'
      BY <1>u, <2>1, <2>3, <2>5
    <3> QED
      BY <3>1, <3>2
  <2>7. Listing!ChunkInv'
    BY <1>s, <1>u, <2>1, <2>3, <2>5, <2>6
       DEF Listing!ChunkInv, Listing!ReadsAs
  <2> QED
    BY <1>r, <2>1, <2>7
<1>4. CASE Listing!AddEndpoint
  <2> DEFINE e == server[row].endpoints[Len(chunk.tickets) - base + 1]
  <2>1. /\ place = "endpoints" /\ place' = "endpoints" /\ UNCHANGED <<results, row, base>>
        /\ Len(chunk.tickets) - base < Len(server[row].endpoints)
        /\ chunk'.tickets = Append(chunk.tickets, e.ticket)
        /\ chunk'.places = [Append(chunk.places, Listing!Unset)
                   EXCEPT ![base + 1] = [offset |-> Len(chunk.locations), length |-> Len(e.locations)]]
        /\ chunk'.locations = chunk.locations \o e.locations
        /\ chunk'.descriptors = chunk.descriptors /\ chunk'.parts = chunk.parts
        /\ chunk'.lists = chunk.lists /\ chunk'.from = chunk.from
    <3>1. chunk \in Listing!ChunkType
      BY <1>t DEF Listing!TypeOK
    <3> QED
      BY <1>4, <3>1 DEF Listing!AddEndpoint, Listing!ChunkType
  <2>2. row \in 1 .. Len(server)
    <3>1. row = cursor /\ cursor = Listing!Taken(Len(results)) + Len(chunk.from) + 1
      BY <1>t, <2>1 DEF Listing!OrderInv
    <3>2. cursor \in 0 .. Len(server) /\ Len(server) \in Nat /\ Len(results) \in Nat
      BY <1>t, ChunkFacts DEF Listing!TypeOK
    <3>3. Listing!Taken(Len(results)) \in Nat
      BY <3>2, TakenFacts
    <3> QED
      BY <1>u, <3>1, <3>2, <3>3
  <2>3. /\ \A i \in 1 .. Len(chunk.from) : Listing!ReadsBack(chunk', i)
        /\ Len(chunk'.tickets) = Len(chunk.tickets) + 1
        /\ \A k \in 1 .. Len(chunk'.tickets) - base :
             chunk'.tickets[base + k] = server[row].endpoints[k].ticket
        /\ Len(server[row].endpoints) = 1 =>
             Listing!ReadsAs(chunk'.locations, chunk'.places[base + 1], server[row].endpoints[1].locations)
    BY <1>4, <1>t, <2>2, EndpointAdded
  <2>4. Len(chunk'.tickets) - base \in 0 .. Len(server[row].endpoints)
    <3>1. server[row] \in Flights
      BY <1>t, <2>2, ChunkFacts
    <3>2. Len(server[row].endpoints) \in Nat /\ Len(chunk.tickets) \in Nat /\ base \in Nat
      BY <1>t, <3>1, ChunkFacts, FlightFacts DEF Listing!TypeOK
    <3>3. Len(chunk.tickets) - base \in 0 .. Len(server[row].endpoints)
      BY <1>t, <2>1 DEF Listing!ChunkInv
    <3> QED
      BY SMTT(30), <2>1, <2>3, <3>2, <3>3
  <2>5. \A i \in DOMAIN chunk'.from :
          /\ Listing!ReadsBack(chunk', i)
          /\ chunk'.lists[i].length # 0 => chunk'.lists[i].offset + chunk'.lists[i].length <= base'
    <3>1. \A i \in DOMAIN chunk'.from : Listing!ReadsBack(chunk', i)
      BY <1>u, <2>1, <2>3
    <3>2. \A i \in DOMAIN chunk'.from :
             chunk'.lists[i].length # 0 => chunk'.lists[i].offset + chunk'.lists[i].length <= base'
      BY <1>t, <2>1 DEF Listing!ChunkInv
    <3> QED
      BY <3>1, <3>2
  <2>6. /\ Len(chunk'.descriptors) = Len(chunk'.from) + 1
        /\ server[row].type = "path" =>
             Listing!ReadsAs(chunk'.parts, chunk'.descriptors[Len(chunk'.from) + 1], server[row].path)
    BY <1>t, <2>1 DEF Listing!ChunkInv
  <2>7. Listing!ChunkInv'
    BY <1>s, <2>1, <2>3, <2>4, <2>5, <2>6 DEF Listing!ChunkInv, Listing!ReadsAs
  <2> QED
    BY <1>r, <2>1, <2>7
<1>5. CASE Listing!AddRow /\ place' = "added"
  <2>1. /\ place = "endpoints" /\ UNCHANGED results
        /\ Len(chunk.tickets) - base = Len(server[row].endpoints)
        /\ chunk'.lists = Append(chunk.lists, [offset |-> base, length |-> Len(server[row].endpoints)])
        /\ chunk'.from = Append(chunk.from, row)
        /\ chunk'.descriptors = chunk.descriptors /\ chunk'.parts = chunk.parts
        /\ chunk'.tickets = chunk.tickets /\ chunk'.places = chunk.places
        /\ chunk'.locations = chunk.locations
    <3>1. chunk \in Listing!ChunkType
      BY <1>t DEF Listing!TypeOK
    <3> QED
      BY <1>5, <3>1 DEF Listing!AddRow, Listing!ChunkType
  <2>2. row \in 1 .. Len(server)
    <3>1. row = cursor /\ cursor = Listing!Taken(Len(results)) + Len(chunk.from) + 1
      BY <1>t, <2>1 DEF Listing!OrderInv
    <3>2. cursor \in 0 .. Len(server) /\ Len(server) \in Nat /\ Len(results) \in Nat
      BY <1>t, ChunkFacts DEF Listing!TypeOK
    <3>3. Listing!Taken(Len(results)) \in Nat
      BY <3>2, TakenFacts
    <3> QED
      BY <1>u, <3>1, <3>2, <3>3
  <2>3. \A i \in DOMAIN chunk'.from : Listing!ReadsBack(chunk', i)
    BY <1>t, <2>1, <2>2, RowAdded
  <2> QED
    BY <1>5, <1>c, <1>r, <2>1, <2>3
<1>6. ASSUME UNCHANGED <<chunk, results>>, place' # "endpoints"
      PROVE  Listing!RowsReadBack' /\ Listing!ChunkInv'
  <2>1. \A i \in DOMAIN chunk'.from : Listing!ReadsBack(chunk', i)
    BY <1>t, <1>6 DEF Listing!ChunkInv
  <2> QED
    BY <1>6, <1>c, <1>r, <2>1
<1>7. CASE \/ Listing!OpenListing \/ Listing!OpenFails \/ Listing!CheckInterrupt \/ Listing!ReadFirst
           \/ Listing!NoMoreFlights \/ Listing!ReadFails \/ Listing!ReadNext
           \/ Listing!AddDescriptor /\ place' # "endpoints"
           \/ Listing!AddRow /\ place' # "added"
  BY <1>6, <1>7 DEF Listing!OpenListing, Listing!OpenFails, Listing!CheckInterrupt,
                    Listing!ReadFirst,
      Listing!NoMoreFlights, Listing!ReadFails, Listing!ReadNext, Listing!AddDescriptor, Listing!AddRow
<1>8. CASE Listing!Interrupt
  <2>1. UNCHANGED <<server, cursor, opened, place, row, base, chunk, results>>
    BY <1>8 DEF Listing!Interrupt
  <2> QED
    BY <1>r, <1>s, <1>t, <2>1 DEF Listing!ChunkInv, Listing!ReadsAs
<1> QED
  BY <1>1, <1>2, <1>3, <1>4, <1>5, <1>7, <1>8 DEF Listing!Next, Listing!Step

\* What a step does to the type of the state.
LEMMA TypeKeeps ==
  ASSUME Listing!ListingInv, Listing!Next
  PROVE  Listing!TypeOK'
<1>t. Listing!TypeOK /\ Listing!ChunkInv /\ Listing!OrderInv
  BY DEF Listing!ListingInv
<1>s. UNCHANGED server /\ server \in Seq(Flights) /\ Len(server) \in Nat
  BY <1>t, ServerStays, ChunkFacts
<1>c. Listing!ChunkType' = Listing!ChunkType
  BY <1>s DEF Listing!ChunkType
<1>o. /\ cursor \in 0 .. Len(server) /\ opened \in BOOLEAN /\ stopped \in BOOLEAN
      /\ place \in {"idle", "check", "read", "endpoints", "added", "done", "failed"}
      /\ row \in 0 .. Len(server) /\ base \in Nat
      /\ chunk \in Listing!ChunkType /\ results \in Seq(Listing!ChunkType)
      /\ Len(chunk.from) <= VectorSize /\ Len(chunk.lists) = Len(chunk.from)
      /\ Len(chunk.descriptors) >= Len(chunk.from) /\ Len(chunk.places) = Len(chunk.tickets)
      /\ place \notin {"endpoints", "failed"} => Len(chunk.descriptors) = Len(chunk.from)
  BY <1>t DEF Listing!TypeOK
<1>n. Len(chunk.from) \in Nat /\ Len(chunk.tickets) \in Nat /\ Len(chunk.descriptors) \in Nat
  BY <1>t, ChunkFacts
\* The vector keeps its type when its parts do.
<1>v. ASSUME chunk' \in Listing!ChunkType, UNCHANGED <<cursor, opened, stopped, row, results>>,
             place' \in {"endpoints", "added"}, base' \in Nat,
             Len(chunk'.from) <= VectorSize, Len(chunk'.lists) = Len(chunk'.from),
             Len(chunk'.descriptors) >= Len(chunk'.from), Len(chunk'.places) = Len(chunk'.tickets),
             place' = "added" => Len(chunk'.descriptors) = Len(chunk'.from)
      PROVE  Listing!TypeOK'
  BY <1>s, <1>c, <1>o, <1>v DEF Listing!TypeOK
<1>1. CASE Listing!Call \/ Listing!ReturnRows
  <2>1. /\ chunk' = Listing!EmptyChunk /\ place' \in {"idle", "check"} /\ row' \in {row, 0}
        /\ UNCHANGED <<server, cursor, opened, base, stopped>>
        /\ results' = results \/ results' = Append(results, chunk)
    BY <1>1 DEF Listing!Call, Listing!ReturnRows
  <2>2. /\ Listing!EmptyChunk \in Listing!ChunkType
        /\ Len(Listing!EmptyChunk.from) = 0 /\ Len(Listing!EmptyChunk.lists) = 0
        /\ Len(Listing!EmptyChunk.descriptors) = 0 /\ Len(Listing!EmptyChunk.places) = 0
        /\ Len(Listing!EmptyChunk.tickets) = 0
    BY DEF Listing!EmptyChunk, Listing!ChunkType
  <2>3. results' \in Seq(Listing!ChunkType)
    <3> HIDE DEF Listing!ChunkType
    <3> QED
      BY SMTT(30), <1>o, <2>1
  <2>4. row' \in 0 .. Len(server)
    BY <1>s, <1>o, <2>1
  <2>5. VectorSize \in Nat
    BY TakenFacts
  <2>6. /\ chunk' \in Listing!ChunkType /\ Len(chunk'.from) = 0 /\ Len(chunk'.lists) = 0
        /\ Len(chunk'.descriptors) = 0 /\ Len(chunk'.places) = 0 /\ Len(chunk'.tickets) = 0
    BY <2>1, <2>2
  <2> QED
    BY <1>s, <1>c, <1>o, <2>1, <2>3, <2>4, <2>5, <2>6 DEF Listing!TypeOK
<1>2. CASE Listing!ReadFirst \/ Listing!ReadNext
  <2>1. /\ place' = "read" /\ UNCHANGED <<server, opened, base, chunk, results, stopped>>
        /\ \/ cursor < Len(server) /\ cursor' = cursor + 1 /\ row' = cursor + 1
           \/ cursor' = cursor /\ row' = 0
        /\ place \in {"check", "added"}
    BY <1>2 DEF Listing!ReadFirst, Listing!ReadNext, Listing!NextFlight
  <2>2. cursor' \in 0 .. Len(server) /\ row' \in 0 .. Len(server)
    BY <1>s, <1>o, <2>1
  <2> QED
    BY <1>s, <1>c, <1>o, <2>1, <2>2 DEF Listing!TypeOK
<1>3. CASE Listing!AddDescriptor /\ place' = "endpoints"
  <2> DEFINE d == Listing!Described(chunk, server[row])
  <2>1. /\ place = "read" /\ row # 0 /\ Len(chunk.from) < VectorSize
        /\ chunk' = d /\ base' = Len(chunk.tickets)
        /\ UNCHANGED <<cursor, opened, stopped, row, results>>
    BY <1>3 DEF Listing!AddDescriptor
  <2>2. row \in 1 .. Len(server)
    BY <1>s, <1>o, <2>1
  <2>3. d \in Listing!ChunkType
    <3> DEFINE f == server[row]
    <3>1. f.path \in Seq(Texts) /\ Len(f.path) \in Nat
      BY <1>s, <2>2, FlightFacts
    <3>2. chunk.parts \in Seq(Texts) /\ Len(chunk.parts) \in Nat /\ chunk.parts \o f.path \in Seq(Texts)
      BY <1>t, <3>1, ChunkFacts
    <3>3. ASSUME NEW p \in Listing!Places
          PROVE  Append(chunk.descriptors, p) \in Seq(Listing!Places)
      <4> HIDE DEF Listing!Places
      <4> QED
        BY <1>t, ChunkFacts
    <3>4. /\ [offset |-> Len(chunk.parts), length |-> Len(f.path)] \in Listing!Places
          /\ Listing!Nowhere \in Listing!Places
      BY <3>1, <3>2 DEF Listing!Places, Listing!Nowhere
    <3> HIDE DEF f
    <3>5. Listing!Described(chunk, f) \in Listing!ChunkType
      <4> HIDE DEF Listing!Places
      <4>1. CASE f.type = "path"
        BY <1>o, <3>2, <3>3, <3>4, <4>1 DEF Listing!Described, Listing!ChunkType
      <4>2. CASE f.type # "path"
        BY <1>o, <3>3, <3>4, <4>2 DEF Listing!Described, Listing!ChunkType
      <4> QED
        BY <4>1, <4>2
    <3> QED
      BY <3>5 DEF f
  <2>4. d.from = chunk.from /\ d.lists = chunk.lists /\ d.tickets = chunk.tickets
        /\ Len(d.descriptors) = Len(chunk.from) + 1
    BY <1>t, <2>1, <2>2, DescriptorAdded
  <2>5. d.places = chunk.places
    BY <1>o DEF Listing!Described, Listing!ChunkType
  <2> HIDE DEF d
  <2>6. /\ Len(chunk'.from) <= VectorSize /\ Len(chunk'.lists) = Len(chunk'.from)
        /\ Len(chunk'.descriptors) >= Len(chunk'.from) /\ Len(chunk'.places) = Len(chunk'.tickets)
    BY <1>o, <1>n, <2>1, <2>4, <2>5
  <2> QED
    BY <1>3, <1>n, <1>v, <2>1, <2>3, <2>6
<1>4. CASE Listing!AddEndpoint
  <2>1. /\ place = "endpoints" /\ place' = "endpoints"
        /\ UNCHANGED <<cursor, opened, stopped, row, base, results>>
        /\ chunk' = [descriptors |-> chunk.descriptors, parts |-> chunk.parts, lists |-> chunk.lists,
                     tickets |-> chunk'.tickets, places |-> chunk'.places,
                     locations |-> chunk'.locations, from |-> chunk.from]
    BY <1>4, <1>o DEF Listing!AddEndpoint, Listing!ChunkType
  <2>2. row \in 1 .. Len(server)
    <3>1. row = cursor /\ cursor = Listing!Taken(Len(results)) + Len(chunk.from) + 1
      BY <1>t, <2>1 DEF Listing!OrderInv
    <3>2. Len(results) \in Nat
      BY <1>o
    <3>3. Listing!Taken(Len(results)) \in Nat
      BY <3>2, TakenFacts
    <3> QED
      BY <1>n, <1>s, <1>o, <3>1, <3>3
  <2>3. /\ chunk'.tickets \in Seq(Texts) /\ chunk'.locations \in Seq(Texts)
        /\ chunk'.places \in Seq(Listing!Places \cup {Listing!Unset})
        /\ Len(chunk'.places) = Len(chunk'.tickets)
    BY <1>4, <1>t, <2>2, EndpointAdded
  <2>4. /\ chunk.descriptors \in Seq(Listing!Places) /\ chunk.parts \in Seq(Texts)
        /\ chunk.lists \in Seq(Listing!Places) /\ chunk.from \in Seq(1 .. Len(server))
    BY <1>t, ChunkFacts
  <2>5. /\ chunk' \in Listing!ChunkType /\ chunk'.from = chunk.from /\ chunk'.lists = chunk.lists
        /\ chunk'.descriptors = chunk.descriptors
    <3> DEFINE ts == chunk'.tickets
               ps == chunk'.places
               ls == chunk'.locations
    <3>1. chunk' = [descriptors |-> chunk.descriptors, parts |-> chunk.parts, lists |-> chunk.lists,
                    tickets |-> ts, places |-> ps, locations |-> ls, from |-> chunk.from]
      BY <2>1
    <3>2. ts \in Seq(Texts) /\ ls \in Seq(Texts) /\ ps \in Seq(Listing!Places \cup {Listing!Unset})
      BY <2>3
    <3> HIDE DEF ts, ps, ls, Listing!Places, Listing!Unset
    <3> QED
      BY <2>4, <3>1, <3>2 DEF Listing!ChunkType
  <2> QED
    BY <1>o, <1>v, <2>1, <2>3, <2>5
<1>5. CASE Listing!AddRow /\ place' = "added"
  <2> DEFINE list == [offset |-> base, length |-> Len(server[row].endpoints)]
  <2>1. /\ place = "endpoints" /\ UNCHANGED <<cursor, opened, stopped, row, base, results>>
        /\ chunk' = [chunk EXCEPT !.lists = Append(chunk.lists, list), !.from = Append(chunk.from, row)]
    BY <1>5 DEF Listing!AddRow
  <2>2. row \in 1 .. Len(server) /\ Len(chunk.from) < VectorSize
    <3>1. row = cursor /\ cursor = Listing!Taken(Len(results)) + Len(chunk.from) + 1
          /\ Len(chunk.from) < VectorSize
      BY <1>t, <2>1 DEF Listing!OrderInv
    <3>2. Len(results) \in Nat
      BY <1>o
    <3>3. Listing!Taken(Len(results)) \in Nat
      BY <3>2, TakenFacts
    <3> QED
      BY <1>n, <1>s, <1>o, <3>1, <3>3
  <2>3. list \in Listing!Places
    <3>1. server[row] \in Flights
      BY <1>s, <2>2
    <3>2. Len(server[row].endpoints) \in Nat
      BY <3>1, FlightFacts
    <3> QED
      BY <1>o, <3>2 DEF Listing!Places
  <2>4. /\ Append(chunk.lists, list) \in Seq(Listing!Places)
        /\ Len(Append(chunk.lists, list)) = Len(chunk.from) + 1
    <3>1. chunk.lists \in Seq(Listing!Places) /\ Len(chunk.lists) = Len(chunk.from)
      BY <1>t, ChunkFacts
    <3> HIDE DEF Listing!Places, list
    <3> QED
      BY <2>3, <3>1
  <2>5. /\ Append(chunk.from, row) \in Seq(1 .. Len(server))
        /\ Len(Append(chunk.from, row)) = Len(chunk.from) + 1
    <3>1. chunk.from \in Seq(1 .. Len(server))
      BY <1>t, ChunkFacts
    <3> QED
      BY <2>2, <3>1
  <2> HIDE DEF list
  <2>6. /\ chunk' \in Listing!ChunkType /\ chunk'.from = Append(chunk.from, row)
        /\ chunk'.lists = Append(chunk.lists, list) /\ chunk'.descriptors = chunk.descriptors
        /\ chunk'.places = chunk.places /\ chunk'.tickets = chunk.tickets
    <3> HIDE DEF Listing!Places
    <3> QED
      BY <1>o, <2>1, <2>4, <2>5 DEF Listing!ChunkType
  <2>7. Len(chunk.descriptors) = Len(chunk.from) + 1
    BY <1>t, <2>1 DEF Listing!ChunkInv
  <2>8. /\ Len(chunk'.from) = Len(chunk.from) + 1 /\ Len(chunk'.lists) = Len(chunk.from) + 1
        /\ Len(chunk'.descriptors) = Len(chunk.from) + 1 /\ Len(chunk'.places) = Len(chunk'.tickets)
    BY <1>o, <2>4, <2>5, <2>6, <2>7
  <2>9. Len(chunk.from) + 1 <= VectorSize
    <3>1. VectorSize \in Nat
      BY TakenFacts
    <3> QED
      BY <1>n, <2>2, <3>1
  <2> QED
    BY <1>5, <1>n, <1>o, <1>v, <2>1, <2>6, <2>8, <2>9
<1>6. ASSUME UNCHANGED <<cursor, row, base, chunk, results>>,
             opened' \in BOOLEAN, stopped' \in BOOLEAN, place' \in {place, "done", "failed"},
             place' = "done" => place = "read"
      PROVE  Listing!TypeOK'
  BY <1>s, <1>c, <1>o, <1>6 DEF Listing!TypeOK
<1>7. CASE \/ Listing!OpenListing \/ Listing!OpenFails \/ Listing!CheckInterrupt
           \/ Listing!NoMoreFlights \/ Listing!ReadFails \/ Listing!Interrupt
           \/ Listing!AddDescriptor /\ place' # "endpoints"
           \/ Listing!AddRow /\ place' # "added"
  BY <1>6, <1>7, <1>o
     DEF Listing!OpenListing, Listing!OpenFails, Listing!CheckInterrupt, Listing!Interrupt,
         Listing!NoMoreFlights, Listing!ReadFails, Listing!AddDescriptor, Listing!AddRow
<1> QED
  BY <1>1, <1>2, <1>3, <1>4, <1>5, <1>7 DEF Listing!Next, Listing!Step

LEMMA NextListingInv ==
  ASSUME Listing!ListingInv, [Listing!Next]_(Listing!vars)
  PROVE  Listing!ListingInv'
<1>1. CASE Listing!Next
  <2>1. Listing!TypeOK' /\ Listing!RowsReadBack' /\ Listing!ChunkInv' /\ Listing!RowsInOrder' /\ Listing!OrderInv'
    BY <1>1, TypeKeeps, ChunkKeeps, OrderKeeps
  <2> QED
    BY <2>1 DEF Listing!ListingInv
<1>2. CASE UNCHANGED Listing!vars
  <2>1. UNCHANGED <<server, cursor, opened, place, row, base, chunk, results, stopped>>
    BY <1>2 DEF Listing!vars
  <2>2. Listing!RowsReadBack' /\ Listing!ChunkInv'
    <3>1. \A c, i : Listing!ReadsBack(c, i)' <=> Listing!ReadsBack(c, i)
      BY <2>1 DEF Listing!ReadsBack, Listing!ReadsAs
    <3>2. Listing!RowsReadBack'
      BY <2>1, <3>1 DEF Listing!ListingInv, Listing!RowsReadBack
    <3>3. Listing!ChunkInv'
      BY <2>1, <3>1 DEF Listing!ListingInv, Listing!ChunkInv, Listing!ReadsAs
    <3> QED
      BY <3>2, <3>3
  <2>3. Listing!TypeOK'
    BY <2>1 DEF Listing!ListingInv, Listing!TypeOK, Listing!ChunkType
  <2>4. Listing!RowsInOrder' /\ Listing!OrderInv'
    BY <2>1 DEF Listing!ListingInv, Listing!RowsInOrder, Listing!OrderInv, Listing!AllFull,
                Listing!Ended,
                Listing!Taken
  <2> QED
    BY <2>2, <2>3, <2>4 DEF Listing!ListingInv
<1> QED
  BY <1>1, <1>2

\* A list that is shorter than a vector was handed out whole: if no vector was full nothing was dropped.
LEMMA ShortListingWhole ==
  ASSUME Listing!ListingInv
  PROVE  Listing!ShortListingComplete
<1> SUFFICES ASSUME place = "done", Len(server) <= VectorSize, NEW k \in DOMAIN server
             PROVE  \E j \in DOMAIN results : \E i \in DOMAIN results[j].from : results[j].from[i] = k
  BY DEF Listing!ShortListingComplete
<1>t. Listing!TypeOK /\ Listing!OrderInv /\ Listing!RowsInOrder
  BY DEF Listing!ListingInv
<1> DEFINE n == Len(results)
           last == results[n].from
<1>1. n \in Nat /\ DOMAIN results = 1 .. n /\ k \in 1 .. Len(server) /\ Len(server) \in Nat
      /\ VectorSize \in Nat \ {0} /\ (results # <<>> => n # 0)
  <2>1. server \in Seq(Flights) /\ results \in Seq(Listing!ChunkType)
    BY <1>t DEF Listing!TypeOK
  <2>2. n \in Nat /\ DOMAIN results = 1 .. n /\ (results # <<>> => n # 0)
    <3> HIDE DEF Listing!ChunkType
    <3> QED
      BY <2>1
  <2>3. k \in 1 .. Len(server) /\ Len(server) \in Nat
    BY <2>1
  <2> QED
    BY <2>2, <2>3, TakenFacts
<1>2. /\ chunk.from = <<>> /\ cursor = Len(server)
      /\ Listing!Ended \/ (Listing!AllFull /\ cursor = Listing!Taken(n) + Len(chunk.from))
  BY <1>t DEF Listing!OrderInv
<1>3. CASE Listing!AllFull /\ cursor = Listing!Taken(n) + Len(chunk.from)
  <2>1. Len(server) = Listing!Taken(n)
    <3>1. Len(chunk.from) = 0 /\ Listing!Taken(n) \in Nat
      BY <1>1, <1>2, TakenFacts
    <3> QED
      BY <1>2, <1>3, <3>1
  <2>2. n # 0 => Listing!Taken(n) >= VectorSize + 1
    <3>1. SUFFICES ASSUME n # 0 PROVE Listing!Taken(n) >= VectorSize + 1
      OBVIOUS
    <3>2. n - 1 \in Nat /\ (n - 1) + 1 = n
      BY <1>1, <3>1
    <3>3. Listing!Taken(n - 1) \in Nat /\ Listing!Taken(n) = Listing!Taken(n - 1) + VectorSize + 1
      BY <3>2, TakenFacts
    <3> QED
      BY <1>1, <3>3
  <2>3. n = 0
    BY <1>1, <2>1, <2>2
  <2>4. Len(server) = 0
    BY <2>1, <2>3, TakenFacts
  <2> QED
    BY <1>1, <2>4
<1>4. CASE Listing!Ended
  <2>1. n # 0 /\ Len(server) = Listing!Taken(n - 1) + Len(last)
    BY <1>1, <1>2, <1>4 DEF Listing!Ended
  <2>2. n - 1 \in Nat /\ n \in DOMAIN results
    BY <1>1, <2>1
  <2>3. Len(last) \in Nat /\ DOMAIN last = 1 .. Len(last)
    <3>1. results \in Seq(Listing!ChunkType)
      BY <1>t DEF Listing!TypeOK
    <3>2. results[n] \in Listing!ChunkType
      <4> HIDE DEF Listing!ChunkType
      <4> QED
        BY <2>2, <3>1
    <3>3. last \in Seq(1 .. Len(server))
      BY <3>2 DEF Listing!ChunkType
    <3> QED
      BY <3>3
  <2>4. Listing!Taken(n - 1) = 0
    <3>1. CASE n - 1 = 0
      BY <3>1, TakenFacts
    <3>2. CASE n - 1 # 0
      <4>1. n - 2 \in Nat /\ (n - 2) + 1 = n - 1
        <5> HIDE DEF n
        <5> QED
          BY <1>1, <2>1, <2>2, <3>2
      <4>2. Listing!Taken(n - 2) \in Nat /\ Listing!Taken(n - 1) = Listing!Taken(n - 2) + VectorSize + 1
        BY <4>1, TakenFacts
      <4> QED
        BY <1>1, <2>1, <2>3, <4>2
    <3> QED
      BY <3>1, <3>2
  <2>5. k \in DOMAIN last
    BY <1>1, <2>1, <2>3, <2>4
  <2>6. last[k] = k
    <3>1. last[k] = Listing!Taken(n - 1) + k
      BY <1>t, <2>2, <2>5 DEF Listing!RowsInOrder
    <3> QED
      BY <1>1, <2>4, <3>1
  <2> QED
    BY <2>2, <2>5, <2>6
<1> QED
  BY <1>2, <1>3, <1>4

\* Rows of flights read back as what the server listed, in its order and none twice, and
\* a list shorter than a vector is handed out whole (list_flights).
THEOREM ListingIsReadBack == PartsSpec => []ListingReadsBack
<1> DEFINE Inv == part = "listing" => Listing!ListingInv
<1>1. PartsInit => Inv
  BY InitListingInv DEF PartsInit
<1>2. Inv /\ [PartsNext]_allVars => Inv'
  <2> SUFFICES ASSUME Inv, [PartsNext]_allVars, part' = "listing"
               PROVE  Listing!ListingInv'
    OBVIOUS
  <2>1. part = "listing" /\ [Listing!Next]_(Listing!vars)
    BY DEF PartsNext, allVars, askingVars, listingVars, Listing!vars
  <2> QED
    BY <2>1, NextListingInv
<1>3. Inv => ListingReadsBack
  <2>1. ASSUME part = "listing", Listing!ListingInv
        PROVE  ListingReadsBack
    <3>1. Listing!ShortListingComplete /\ Listing!RowsReadBack /\ Listing!RowsInOrder
      BY <2>1, ShortListingWhole DEF Listing!ListingInv
    <3> QED
      BY <2>1, <3>1 DEF ListingReadsBack
  <2> QED
    BY <2>1 DEF ListingReadsBack
<1> QED
  BY <1>1, <1>2, <1>3, PTL DEF PartsSpec

-----------------------------------------------------------------------------
(* The progress of a scan.                                                 *)

\* Induction over the numbers up to a bound, stated for sets.
LEMMA NumbersUpTo ==
  ASSUME NEW n \in Nat, NEW S, 0 \in S, \A i \in 0 .. n - 1 : i \in S => i + 1 \in S
  PROVE  0 .. n \subseteq S
<1> DEFINE F == {i \in Nat : i \in 0 .. n /\ i \notin S}
           R == {p \in Nat \X Nat : p[1] < p[2]}
<1>1. SUFFICES ASSUME F # {} PROVE FALSE
  OBVIOUS
<1>2. IsWellFoundedOn(R, Nat)
  BY NatLessThanWellFounded DEF OpToRel
<1>3. PICK x \in F : \A y \in F : ~ (<<y, x>> \in R)
  <2> F \subseteq Nat
    OBVIOUS
  <2> HIDE DEF F, R
  <2> QED
    BY <1>1, <1>2, WFMin
<1>4. \A y \in F : ~ (y < x)
  BY <1>3
<1>5. x # 0 /\ x - 1 \in 0 .. n - 1 /\ x - 1 \notin F
  BY <1>4
<1> QED
  BY <1>5

\* The slots are added up one after another.
LEMMA SumFacts ==
  ASSUME NEW f \in [Progress!Endpoints -> Nat]
  PROVE  \E t \in [0 .. NumEndpoints -> Nat] :
            /\ t[0] = 0 /\ \A i \in 1 .. NumEndpoints : t[i] = t[i - 1] + f[i - 1]
            /\ Progress!Sum(f) = t[NumEndpoints]
<1> DEFINE n == NumEndpoints
           Totals(m) == {t \in [0 .. m -> Nat] : /\ t[0] = 0
                                                /\ \A i \in 1 .. m : t[i] = t[i - 1] + f[i - 1]}
           S == {m \in Nat : Totals(m) # {}}
<1>1. n \in Nat /\ f \in [0 .. n - 1 -> Nat]
  BY ScanProgressAssumption DEF Progress!ProgressAssumption, Progress!Endpoints
<1>2. 0 \in S
  <2>1. [i \in 0 .. 0 |-> 0] \in Totals(0)
    OBVIOUS
  <2> QED
    BY <2>1
<1>3. ASSUME NEW m \in 0 .. n - 1, m \in S
      PROVE  m + 1 \in S
  <2>1. PICK t \in Totals(m) : TRUE
    BY <1>3
  <2> DEFINE u == [i \in 0 .. m + 1 |-> IF i = m + 1 THEN t[m] + f[m] ELSE t[i]]
  <2>2. m \in Nat /\ f[m] \in Nat /\ t[m] \in Nat /\ t \in [0 .. m -> Nat]
    BY <1>1, <2>1
  <2>3. u \in [0 .. m + 1 -> Nat]
    BY <2>2
  <2>4. u[0] = 0
    BY <2>1, <2>2
  <2>5. ASSUME NEW i \in 1 .. m + 1
        PROVE  u[i] = u[i - 1] + f[i - 1]
    <3>1. CASE i = m + 1
      BY <2>2, <3>1
    <3>2. CASE i # m + 1
      <4>1. i \in 1 .. m /\ i - 1 \in 0 .. m + 1 /\ i \in 0 .. m + 1 /\ i - 1 # m + 1
        BY <2>2, <3>2
      <4>2. t[i] = t[i - 1] + f[i - 1]
        BY <2>1, <4>1
      <4> QED
        BY <3>2, <4>1, <4>2
    <3> QED
      BY <3>1, <3>2
  <2>6. u \in Totals(m + 1)
    BY <2>3, <2>4, <2>5
  <2>7. Totals(m + 1) # {}
    <3> HIDE DEF u
    <3> QED
      BY <2>6
  <2>8. m + 1 \in Nat
    BY <2>2
  <2> HIDE DEF Totals
  <2> QED
    BY <2>7, <2>8
<1>4. n \in S
  <2> HIDE DEF S
  <2>1. 0 .. n \subseteq S
    BY <1>1, <1>2, <1>3, NumbersUpTo
  <2> QED
    BY <1>1, <2>1
<1>5. PICK t \in Totals(n) : TRUE
  BY <1>4
<1> DEFINE Rec(g) == g = [i \in 0 .. n |-> IF i = 0 THEN 0 ELSE g[i - 1] + f[i - 1]]
           total == CHOOSE g : Rec(g)
<1>6. Rec(t)
  BY <1>1, <1>5
<1>7. Rec(total)
  BY <1>6
<1>8. /\ total[0] = 0 /\ \A i \in 1 .. n : total[i] = total[i - 1] + f[i - 1]
      /\ DOMAIN total = 0 .. n /\ total = [i \in 0 .. n |-> total[i]]
  <2> HIDE DEF total
  <2>1. total = [i \in 0 .. n |-> IF i = 0 THEN 0 ELSE total[i - 1] + f[i - 1]]
    BY <1>7
  <2> DEFINE next == [i \in 0 .. n |-> IF i = 0 THEN 0 ELSE total[i - 1] + f[i - 1]]
  <2>2. /\ next[0] = 0 /\ \A i \in 1 .. n : next[i] = total[i - 1] + f[i - 1]
        /\ DOMAIN next = 0 .. n /\ next = [i \in 0 .. n |-> next[i]]
    BY <1>1
  <2>3. total = next
    BY <2>1
  <2> HIDE DEF next
  <2> QED
    BY <2>2, <2>3
<1>9. \A i \in 0 .. n : total[i] = t[i]
  <2> DEFINE E == {i \in 0 .. n : total[i] = t[i]}
  <2> HIDE DEF total
  <2>1. 0 \in E
    BY <1>1, <1>5, <1>8
  <2>2. ASSUME NEW i \in 0 .. n - 1, i \in E
        PROVE  i + 1 \in E
    <3>1. i + 1 \in 1 .. n /\ (i + 1) - 1 = i
      BY <1>1
    <3>2. total[i + 1] = total[i] + f[i]
      BY <1>8, <3>1
    <3>3. t[i + 1] = t[i] + f[i]
      BY <1>5, <3>1
    <3>4. i + 1 \in 0 .. n
      BY <1>1
    <3> QED
      BY <2>2, <3>2, <3>3, <3>4
  <2> HIDE DEF E
  <2>3. 0 .. n \subseteq E
    BY <1>1, <2>1, <2>2, NumbersUpTo
  <2> QED
    BY <2>3 DEF E
<1>10. Progress!Sum(f) = total[n]
  BY DEF Progress!Sum
<1>11. Progress!Sum(f) = t[n]
  <2> HIDE DEF total
  <2> QED
    BY <1>1, <1>9, <1>10
<1> QED
  BY <1>5, <1>11

\* What is in one slot is no more than what is in all.
LEMMA SumOfOne ==
  ASSUME NEW f \in [Progress!Endpoints -> Nat], NEW g \in [Progress!Endpoints -> Nat],
         NEW k \in Progress!Endpoints, f[0] <= g[k], \A e \in Progress!Endpoints \ {0} : f[e] = 0
  PROVE  Progress!Sum(f) <= Progress!Sum(g)
<1> DEFINE n == NumEndpoints
<1>1. /\ n \in Nat \ {0} /\ k \in 0 .. n - 1
      /\ f \in [0 .. n - 1 -> Nat] /\ g \in [0 .. n - 1 -> Nat]
      /\ \A e \in 1 .. n - 1 : f[e] = 0
  BY ScanProgressAssumption DEF Progress!ProgressAssumption, Progress!Endpoints
<1>2. PICK s \in [0 .. n -> Nat] : /\ s[0] = 0 /\ \A i \in 1 .. n : s[i] = s[i - 1] + f[i - 1]
                                  /\ Progress!Sum(f) = s[n]
  BY SumFacts
<1>3. PICK t \in [0 .. n -> Nat] : /\ t[0] = 0 /\ \A i \in 1 .. n : t[i] = t[i - 1] + g[i - 1]
                                  /\ Progress!Sum(g) = t[n]
  BY SumFacts
<1>4. s[n] = f[0]
  <2> DEFINE E == {i \in 0 .. n : i # 0 => s[i] = f[0]}
  <2>1. 0 \in E
    BY <1>1
  <2>2. ASSUME NEW i \in 0 .. n - 1, i \in E
        PROVE  i + 1 \in E
    <3>1. i + 1 \in 1 .. n /\ (i + 1) - 1 = i /\ i \in 0 .. n
      BY <1>1
    <3>2. s[i + 1] = s[i] + f[i]
      BY <1>2, <3>1
    <3>3. f[0] \in Nat
      BY <1>1
    <3>4. s[i + 1] = f[0]
      <4>1. CASE i = 0
        BY <1>2, <3>2, <3>3, <4>1
      <4>2. CASE i # 0
        BY SMTT(30), <1>1, <2>2, <3>2, <3>3, <4>2
      <4> QED
        BY <4>1, <4>2
    <3> QED
      BY <3>1, <3>4
  <2> HIDE DEF E
  <2>3. 0 .. n \subseteq E
    BY <1>1, <2>1, <2>2, NumbersUpTo
  <2> QED
    BY <1>1, <2>3 DEF E
<1>5. t[n] >= g[k]
  <2> DEFINE E == {i \in 0 .. n : i > k => t[i] >= g[k]}
  <2>1. 0 \in E
    BY <1>1
  <2>2. ASSUME NEW i \in 0 .. n - 1, i \in E
        PROVE  i + 1 \in E
    <3>1. i + 1 \in 1 .. n /\ (i + 1) - 1 = i /\ i \in 0 .. n /\ i + 1 \in 0 .. n
      BY <1>1
    <3>2. t[i + 1] = t[i] + g[i] /\ t[i] \in Nat /\ g[i] \in Nat /\ g[k] \in Nat
      BY <1>1, <1>3, <3>1
    <3>3. i + 1 > k => t[i + 1] >= g[k]
      <4>1. CASE i > k
        BY <2>2, <3>2, <4>1
      <4>2. CASE i = k
        BY <3>2, <4>2
      <4>3. CASE i < k
        BY <1>1, <4>3
      <4> QED
        BY <1>1, <4>1, <4>2, <4>3
    <3> QED
      BY <3>1, <3>3
  <2> HIDE DEF E
  <2>3. 0 .. n \subseteq E
    BY <1>1, <2>1, <2>2, NumbersUpTo
  <2>4. n \in E /\ n > k
    BY <1>1, <2>3
  <2> QED
    BY <2>4 DEF E
<1>6. f[0] \in Nat /\ g[k] \in Nat /\ t[n] \in Nat
  BY <1>1
<1> QED
  BY <1>2, <1>3, <1>4, <1>5, <1>6

LEMMA InitProgressInv ==
  ASSUME Progress!Init PROVE Progress!ProgressInv
<1>1. Full \in Nat \ {0} /\ NumEndpoints \in Nat
  BY ScanProgressAssumption DEF Progress!ProgressAssumption
<1>2. \A e \in Progress!Endpoints : 0 \in Progress!Endpoints
  BY <1>1 DEF Progress!Endpoints
<1>3. Progress!TypeOK
  BY <1>1 DEF Progress!Init, Progress!TypeOK
<1>4. Progress!SlotShared
  BY <1>2 DEF Progress!Init, Progress!SlotShared
<1> QED
  BY <1>3, <1>4 DEF Progress!ProgressInv

LEMMA NextProgressInv ==
  ASSUME Progress!ProgressInv, [Progress!Next]_(Progress!vars)
  PROVE  Progress!ProgressInv'
<1> DEFINE E == Progress!Endpoints
<1>0. Progress!TypeOK /\ Progress!SlotShared /\ Full \in Nat \ {0} /\ NumEndpoints \in Nat
  BY ScanProgressAssumption DEF Progress!ProgressInv, Progress!ProgressAssumption
<1>e. \A e \in E : 0 \in E
  BY <1>0 DEF Progress!Endpoints
<1>i. Progress!ProgressInv' <=> Progress!TypeOK' /\ Progress!SlotShared'
  BY DEF Progress!ProgressInv
<1> HIDE DEF E
<1>1. CASE Progress!InitGlobal
  <2>1. /\ scan = "bound" /\ scan' = "running" /\ UNCHANGED <<slot, streams, reported>>
        /\ progress_array' = [e \in E |-> 0]
    BY <1>1 DEF Progress!InitGlobal, E
  <2>2. Progress!TypeOK'
    BY <1>0, <2>1 DEF Progress!TypeOK, E
  <2>3. Progress!SlotShared'
    BY <1>0, <1>e, <2>1 DEF Progress!SlotShared, E
  <2> QED
    BY <1>i, <2>2, <2>3
<1>2. ASSUME NEW e \in E, Progress!OpenStream(e)
      PROVE  Progress!ProgressInv'
  <2>1. /\ scan = "running" /\ UNCHANGED <<progress_array, reported, scan>>
        /\ streams' = [streams EXCEPT ![e] = "open"] /\ slot' = [slot EXCEPT ![e] = 0]
    BY <1>2 DEF Progress!OpenStream, Progress!CounterIndex
  <2>2. Progress!TypeOK'
    BY <1>0, <1>e, <2>1 DEF Progress!TypeOK, E
  <2>3. Progress!SlotShared'
    BY <1>0, <2>1 DEF Progress!SlotShared, Progress!TypeOK, E
  <2> QED
    BY <1>i, <2>2, <2>3
<1>3. ASSUME NEW e \in E, NEW v \in Progress!Reports, Progress!Report(e, v)
      PROVE  Progress!ProgressInv'
  <2>1. streams[e] = "open" /\ slot[e] = 0 /\ scan # "bound" /\ UNCHANGED <<slot, scan>>
    BY <1>0, <1>3 DEF Progress!Report, Progress!SlotShared, E
  <2>2. CASE Progress!ValidReport(v)
    <3>1. /\ progress_array' = [progress_array EXCEPT ![0] = v] /\ UNCHANGED streams
          /\ reported' = [reported EXCEPT ![e] = v]
      BY <1>3, <2>1, <2>2 DEF Progress!Report
    <3>2. v \in 0 .. Full
      BY <1>0, <2>2 DEF Progress!ValidReport, Progress!Reports
    <3>3. Progress!TypeOK'
      BY <1>0, <1>e, <2>1, <3>1, <3>2 DEF Progress!TypeOK, E
    <3>4. progress_array'[0] = reported'[e]
      BY <1>0, <1>e, <3>1 DEF Progress!TypeOK, E
    <3>5. Progress!SlotShared'
      BY <1>0, <2>1, <3>1, <3>4 DEF Progress!SlotShared, Progress!TypeOK, E
    <3> QED
      BY <1>i, <3>3, <3>5
  <2>3. CASE ~Progress!ValidReport(v)
    <3>1. streams' = [streams EXCEPT ![e] = "failed"] /\ UNCHANGED <<progress_array, reported>>
      BY <1>3, <2>3 DEF Progress!Report
    <3>2. Progress!TypeOK'
      BY <1>0, <2>1, <3>1 DEF Progress!TypeOK, E
    <3>3. Progress!SlotShared'
      BY <1>0, <2>1, <3>1 DEF Progress!SlotShared, Progress!TypeOK, E
    <3> QED
      BY <1>i, <3>2, <3>3
  <2> QED
    BY <2>2, <2>3
<1>4. ASSUME NEW e \in E, Progress!EndOfStream(e)
      PROVE  Progress!ProgressInv'
  <2>1. /\ streams[e] = "open" /\ streams' = [streams EXCEPT ![e] = "ended"]
        /\ UNCHANGED <<progress_array, slot, reported, scan>>
    BY <1>4 DEF Progress!EndOfStream
  <2>2. Progress!TypeOK'
    BY <1>0, <2>1 DEF Progress!TypeOK, E
  <2>3. Progress!SlotShared'
    BY <1>0, <2>1 DEF Progress!SlotShared, Progress!TypeOK, E
  <2> QED
    BY <1>i, <2>2, <2>3
<1>5. CASE Progress!ScanOver
  <2>1. scan' = "over" /\ UNCHANGED <<progress_array, slot, streams, reported>>
    BY <1>5 DEF Progress!ScanOver
  <2> QED
    BY <1>0, <1>i, <2>1 DEF Progress!TypeOK, Progress!SlotShared
<1>6. CASE UNCHANGED Progress!vars
  BY <1>0, <1>i, <1>6 DEF Progress!vars, Progress!TypeOK, Progress!SlotShared
<1> QED
  BY <1>1, <1>2, <1>3, <1>4, <1>5, <1>6 DEF Progress!Next, Progress!Idle, E

LEMMA BarFollowsReports ==
  ASSUME Progress!ProgressInv
  PROVE  Progress!ProgressInRange /\ Progress!BarNotAhead
<1> DEFINE E == Progress!Endpoints
<1>0. Progress!TypeOK /\ Progress!SlotShared /\ Full \in Nat \ {0} /\ NumEndpoints \in Nat
  BY ScanProgressAssumption DEF Progress!ProgressInv, Progress!ProgressAssumption
<1>1. progress_array \in [E -> Nat] /\ reported \in [E -> 0 .. Full] /\ reported \in [E -> Nat]
  BY <1>0 DEF Progress!TypeOK
<1>2. CASE E = {}
  <2>1. NumEndpoints = 0
    BY <1>0, <1>2 DEF Progress!Endpoints
  <2>2. Progress!ProgressInRange
    BY <1>2 DEF Progress!ProgressInRange
  <2>3. Progress!Sum(progress_array) = 0 /\ Progress!Sum(reported) = 0
    BY <1>1, <2>1, SumFacts
  <2> QED
    BY <2>2, <2>3 DEF Progress!BarNotAhead, Progress!TotalProgress
<1>3. CASE E # {}
  <2>1. PICK k \in E : progress_array[0] = reported[k]
    BY <1>0, <1>3 DEF Progress!SlotShared
  <2>2. \A e \in E \ {0} : progress_array[e] = 0
    BY <1>0 DEF Progress!SlotShared
  <2>3. Progress!ProgressInRange
    BY <1>0, <1>1, <2>1, <2>2 DEF Progress!ProgressInRange
  <2>4. Progress!Sum(progress_array) <= Progress!Sum(reported)
    <3>1. progress_array[0] <= reported[k]
      BY <1>1, <2>1
    <3> QED
      BY <1>1, <2>2, <3>1, SumOfOne
  <2> QED
    BY <2>3, <2>4 DEF Progress!BarNotAhead, Progress!TotalProgress
<1> QED
  BY <1>2, <1>3

\* The progress bar is never ahead of what the streams reported, and stays between
\* nothing and everything, in whatever order valid and invalid reports arrive
\* (total_progress).
THEOREM BarBehindReports == PartsSpec => []BarNotAhead
<1> DEFINE Inv == part = "progress" => Progress!ProgressInv
<1>1. PartsInit => Inv
  BY InitProgressInv DEF PartsInit
<1>2. Inv /\ [PartsNext]_allVars => Inv'
  <2> SUFFICES ASSUME Inv, [PartsNext]_allVars, part' = "progress"
               PROVE  Progress!ProgressInv'
    OBVIOUS
  <2>1. part = "progress" /\ [Progress!Next]_(Progress!vars)
    BY DEF PartsNext, allVars, progressVars, Progress!vars
  <2> QED
    BY <2>1, NextProgressInv
<1>3. Inv => BarNotAhead
  <2>1. ASSUME Progress!ProgressInv
        PROVE  Progress!TypeOK /\ Progress!ProgressInRange /\ Progress!BarNotAhead
    BY <2>1, BarFollowsReports DEF Progress!ProgressInv
  <2> QED
    BY <2>1 DEF BarNotAhead
<1> QED
  BY <1>1, <1>2, <1>3, PTL DEF PartsSpec
=============================================================================
