------------------------- MODULE AirportScan_proofs -------------------------
(***************************************************************************)
(* Proofs about the parallel scan, for any number of threads, endpoints,   *)
(* batches and rows: its invariant, that it implements the delivery of a   *)
(* flight, in stream order, and that its blocked reads can be cancelled.   *)
(***************************************************************************)
EXTENDS AirportScan, TLAPS

\* A row is a triple of an endpoint, a batch of it and a position in the batch.
LEMMA RowsShape ==
  ASSUME NEW r \in Rows
  PROVE  \E e \in Endpoints : \E b \in 1 .. Len(Batches[e]) : \E i \in 1 .. Batches[e][b] :
           r = <<e, b, i>>
BY DEF Rows, RowsOfEndpoint, RowsOfBatch

LEMMA RowsMember ==
  ASSUME NEW e \in Endpoints, NEW b \in 1 .. Len(Batches[e]), NEW i \in 1 .. Batches[e][b]
  PROVE  <<e, b, i>> \in Rows /\ <<e, b, i>> \in RowsOfEndpoint(e)
BY DEF Rows, RowsOfEndpoint, RowsOfBatch

LEMMA RowsOfEndpointShape ==
  ASSUME NEW e \in Endpoints, NEW r \in RowsOfEndpoint(e)
  PROVE  /\ r \in Rows
         /\ \E b \in 1 .. Len(Batches[e]) : \E i \in 1 .. Batches[e][b] : r = <<e, b, i>>
BY DEF Rows, RowsOfEndpoint, RowsOfBatch

\* The batches of an endpoint are counted by a natural number and have a size.
LEMMA BatchesType ==
  ASSUME NEW e \in Endpoints
  PROVE  /\ Len(Batches[e]) \in Nat
         /\ \A b \in 1 .. Len(Batches[e]) : Batches[e][b] \in Nat
BY BatchesAssumption

\* Handing out a set of rows counts each of them once more.
LEMMA EmitCounts ==
  ASSUME out \in [Rows -> Nat], NEW S, Emit(S)
  PROVE  /\ out' \in [Rows -> Nat]
         /\ \A r \in Rows : out'[r] = IF r \in S THEN out[r] + 1 ELSE out[r]
BY DEF Emit

-----------------------------------------------------------------------------
(* Type correctness.                                                       *)

LEMMA InitTypeOK == Init => TypeOK
<1> SUFFICES ASSUME Init PROVE TypeOK
  OBVIOUS
<1>1. monitor \in [Threads -> Monitors]
  BY DEF Init, Monitors
<1>2. pc \in [Threads -> Places]
  BY DEF Init, Places
<1> QED BY <1>1, <1>2 DEF Init, TypeOK

\* Claiming keeps the cursor a number and the claimed index an endpoint.
LEMMA ClaimType ==
  ASSUME TypeOK, NEW t \in Threads, GetNextEndpoint(t)
  PROVE  /\ current_endpoint' \in Nat
         /\ endpoint' \in [Threads -> Endpoints \cup {NoEndpoint}]
BY EndpointsAssumption DEF TypeOK, GetNextEndpoint, Endpoints

\* A reading thread has an endpoint, so the type of the chunk depends on more than
\* the types before the step: the lemma assumes the whole invariant.
LEMMA NextTypeOK == ScanInv /\ [Next]_vars => TypeOK'
<1> SUFFICES ASSUME ScanInv, [Next]_vars PROVE TypeOK'
  OBVIOUS
<1>0. /\ TypeOK
      /\ \A t \in Threads : ThreadInv(t)
  BY DEF ScanInv
<1> USE <1>0
<1> USE DEF TypeOK, Goto, Places, Ended, chunkVars
<1>1. ASSUME NEW t \in Threads, InitLocal(t) PROVE TypeOK'
  BY <1>1, ClaimType DEF InitLocal
<1>2. ASSUME NEW t \in Threads, ProcessEndpoint(t) PROVE TypeOK'
  BY <1>2 DEF ProcessEndpoint
<1>3. ASSUME NEW t \in Threads, DoGetReturns(t) PROVE TypeOK'
  BY <1>3 DEF DoGetReturns, Monitors
<1>4. ASSUME NEW t \in Threads, OpenFails(t) PROVE TypeOK'
  BY <1>4 DEF OpenFails
<1>5. ASSUME NEW t \in Threads, EnterRead(t) PROVE TypeOK'
  BY <1>5 DEF EnterRead
<1>6a. ASSUME NEW t \in Threads, ReadEmptyBatch(t) PROVE TypeOK'
  BY <1>6a DEF ReadEmptyBatch, TakeBatch
<1>6b. ASSUME NEW t \in Threads, ReadRows(t) PROVE TypeOK'
  <2>1. endpoint[t] \in Endpoints
    BY <1>6b DEF ReadRows, TakeBatch, ThreadInv
  <2>2. NextBatchSize(t) \in Nat
    BY <1>6b, <2>1, BatchesType DEF ReadRows, TakeBatch, NextBatchSize
  <2> QED BY <1>6b, <2>2 DEF ReadRows, TakeBatch
<1>7. ASSUME NEW t \in Threads, ReadEnd(t) PROVE TypeOK'
  <2>1. GetNextEndpoint(t)
    BY <1>7 DEF ReadEnd, NextEndpoint
  <2> QED BY <1>7, <2>1, ClaimType DEF ReadEnd, NextEndpoint
<1>8. ASSUME NEW t \in Threads, ReadFails(t) PROVE TypeOK'
  BY <1>8 DEF ReadFails
<1>9. ASSUME NEW t \in Threads, TakeFlightInterrupted(t) PROVE TypeOK'
  BY <1>9 DEF TakeFlightInterrupted
<1>10a. ASSUME NEW t \in Threads, StreamVector(t) PROVE TypeOK'
  <2>1. chunk_offset[t] + OutputSize(t) \in Nat
    BY <1>10a, VectorSizeAssumption DEF StreamVector, OutputSize, Smaller
  <2>2. out' \in [Rows -> Nat]
    BY <1>10a, EmitCounts DEF StreamVector
  <2> QED BY <1>10a, <2>1, <2>2 DEF StreamVector
<1>10b. ASSUME NEW t \in Threads, StreamNext(t) PROVE TypeOK'
  BY <1>10b DEF StreamNext
<1>11a. ASSUME NEW t \in Threads, LocalVector(t) PROVE TypeOK'
  <2>1. out' \in [Rows -> Nat]
    BY <1>11a, EmitCounts DEF LocalVector
  <2> QED BY <1>11a, <2>1 DEF LocalVector
<1>11b. ASSUME NEW t \in Threads, LocalEnd(t) PROVE TypeOK'
  <2>1. GetNextEndpoint(t)
    BY <1>11b DEF LocalEnd, NextEndpoint
  <2> QED BY <1>11b, <2>1, ClaimType DEF LocalEnd, NextEndpoint
<1>11c. ASSUME NEW t \in Threads, LocalFails(t) PROVE TypeOK'
  BY <1>11c DEF LocalFails
<1>12. ASSUME NEW t \in Threads, MonitorFires(t) PROVE TypeOK'
  BY <1>12 DEF MonitorFires, Monitors
<1>13. ASSUME NEW t \in Threads, Drop(t) PROVE TypeOK'
  BY <1>13 DEF Drop
<1>14. CASE Interrupt
  BY <1>14 DEF Interrupt
<1>15. CASE UNCHANGED vars
  BY <1>15 DEF vars
<1> QED
  BY <1>1, <1>2, <1>3, <1>4, <1>5, <1>6a, <1>6b, <1>7, <1>8, <1>9, <1>10a, <1>10b, <1>11a, <1>11b, <1>11c, <1>12, <1>13,
     <1>14, <1>15 DEF Next, ReadAnswered, ReadCancelled, TakeFlight, QueryOver

-----------------------------------------------------------------------------
(* The inductive invariant.  A step belongs to one thread; it is quiet (it   *)
(* changes neither the cursor nor the rows handed out), or it claims an      *)
(* endpoint, or it hands rows out.  One lemma per kind says what the step    *)
(* owes about its own thread, and concludes the invariant for all of them.   *)

\* The step leaves the scan state of every thread but t alone.
OthersUnmoved(t) ==
  \A s \in Threads \ {t} :
    /\ pc'[s] = pc[s] /\ endpoint'[s] = endpoint[s] /\ batch'[s] = batch[s]
    /\ chunk_length'[s] = chunk_length[s] /\ chunk_offset'[s] = chunk_offset[s]
    /\ done'[s] = done[s] /\ caller'[s] = caller[s]

LEMMA InitScanInv == Init => ScanInv
<1> SUFFICES ASSUME Init PROVE ScanInv
  OBVIOUS
<1>1. TypeOK
  BY InitTypeOK
<1>2. OneReaderPerEndpoint /\ NoRowTwice
  BY DEF Init, OneReaderPerEndpoint, NoRowTwice, Scanning
<1>3. ASSUME NEW t \in Threads PROVE ThreadInv(t) /\ PositionInv(t)
  BY DEF Init, ThreadInv, PositionInv, Scanning, ChunkIsCurrentBatch, NoEndpoint
<1>4. ASSUME NEW e \in Endpoints PROVE EndpointInv(e)
  BY RowsOfEndpointShape DEF Init, EndpointInv, Endpoints
<1> QED BY <1>1, <1>2, <1>3, <1>4 DEF ScanInv

\* What ThreadInv says of a thread survives a step of another thread.
LEMMA OthersKeepThreadInv ==
  ASSUME ScanInv, TypeOK', NEW t \in Threads, OthersUnmoved(t),
         current_endpoint' \in {current_endpoint, current_endpoint + 1},
         NEW s \in Threads \ {t}
  PROVE  ThreadInv(s)'
<1>1. ThreadInv(s) /\ TypeOK
  BY DEF ScanInv
<1>2. ChunkIsCurrentBatch(s)'
  BY <1>1 DEF ThreadInv, ChunkIsCurrentBatch, OthersUnmoved
<1>3. endpoint'[s] \in Int /\ current_endpoint \in Nat
  BY <1>1, EndpointsAssumption DEF TypeOK, Endpoints, NoEndpoint, OthersUnmoved
<1>4. /\ endpoint'[s] < current_endpoint'
      /\ pc'[s] = "finished" \/ done'[s] => NumEndpoints <= current_endpoint'
  BY <1>1, <1>3, EndpointsAssumption DEF ThreadInv, OthersUnmoved
<1> QED BY <1>1, <1>2, <1>4 DEF ThreadInv, OthersUnmoved, Scanning

\* A thread keeps its position when nobody hands out rows of its endpoint.
LEMMA OthersKeepPosition ==
  ASSUME ScanInv, TypeOK', NEW t \in Threads, OthersUnmoved(t),
         NEW s \in Threads \ {t},
         Scanning(s) => \A r \in RowsOfEndpoint(endpoint[s]) : out'[r] = out[r]
  PROVE  PositionInv(s)'
<1>1. PositionInv(s) /\ ThreadInv(s)
  BY DEF ScanInv
<1>2. SUFFICES ASSUME Scanning(s),
                      NEW b \in 1 .. Len(Batches[endpoint[s]]),
                      NEW i \in 1 .. Batches[endpoint[s]][b]
               PROVE  out'[<<endpoint[s], b, i>>] = IF Consumed(s, b, i)' THEN 1 ELSE 0
  BY DEF PositionInv, OthersUnmoved, Scanning
<1>3. endpoint[s] \in Endpoints
  BY <1>1, <1>2 DEF ThreadInv, Scanning
<1>4. <<endpoint[s], b, i>> \in RowsOfEndpoint(endpoint[s])
  BY <1>3, RowsMember
<1>5. Consumed(s, b, i)' <=> Consumed(s, b, i)
  BY DEF Consumed, OthersUnmoved
<1> QED BY <1>1, <1>2, <1>4, <1>5 DEF PositionInv

\* A quiet step owes the invariant of its own thread, and must neither start
\* scanning an endpoint nor let go of one.
LEMMA QuietStep ==
  ASSUME ScanInv, TypeOK', NEW t \in Threads, OthersUnmoved(t),
         UNCHANGED <<current_endpoint, endpoint, out>>,
         Scanning(t)' => Scanning(t),
         Holding(t) => Holding(t)',
         ThreadInv(t)', PositionInv(t)'
  PROVE  ScanInv'
<1>1. OneReaderPerEndpoint'
  BY DEF ScanInv, OneReaderPerEndpoint, OthersUnmoved, Scanning
<1>2. NoRowTwice'
  BY DEF ScanInv, NoRowTwice
<1>3. ASSUME NEW s \in Threads PROVE ThreadInv(s)' /\ PositionInv(s)'
  BY <1>3, OthersKeepThreadInv, OthersKeepPosition
<1>4. ASSUME NEW e \in Endpoints PROVE EndpointInv(e)'
  <2>1. EndpointInv(e)
    BY DEF ScanInv
  <2>2. \A s \in Threads : Holding(s) => Holding(s)'
    BY DEF OthersUnmoved, Holding
  <2> QED BY <2>1, <2>2 DEF EndpointInv
<1> QED BY <1>1, <1>2, <1>3, <1>4 DEF ScanInv

\* A claim gives the thread the endpoint at the cursor, which nobody holds, and
\* is made only by a thread whose previous endpoint is handed out completely.
LEMMA ClaimStep ==
  ASSUME ScanInv, TypeOK', NEW t \in Threads, OthersUnmoved(t),
         GetNextEndpoint(t), UNCHANGED out,
         Holding(t) => \A r \in RowsOfEndpoint(endpoint[t]) : out[r] = 1,
         current_endpoint < NumEndpoints => pc'[t] = "open" /\ ~done'[t],
         current_endpoint >= NumEndpoints => ~Scanning(t)',
         ThreadInv(t)'
  PROVE  ScanInv'
<1>1. TypeOK /\ \A s \in Threads : ThreadInv(s)
  BY DEF ScanInv
<1>2. /\ current_endpoint' = current_endpoint + 1
      /\ endpoint'[t] = IF current_endpoint < NumEndpoints THEN current_endpoint ELSE endpoint[t]
      /\ \A s \in Threads \ {t} : endpoint'[s] = endpoint[s] /\ endpoint[s] < current_endpoint
  BY <1>1 DEF GetNextEndpoint, TypeOK, ThreadInv
<1>3. OneReaderPerEndpoint'
  <2> SUFFICES ASSUME NEW r \in Threads, NEW s \in Threads,
                      Scanning(r)', Scanning(s)', endpoint'[r] = endpoint'[s], r # s
               PROVE  FALSE
    BY DEF OneReaderPerEndpoint
  <2>1. CASE r # t /\ s # t
    BY <2>1 DEF OthersUnmoved, Scanning, ScanInv, OneReaderPerEndpoint
  <2>2. CASE r = t \/ s = t
    <3>1. current_endpoint < NumEndpoints
      BY <1>1, <2>2, EndpointsAssumption DEF TypeOK
    <3> QED BY <1>1, <1>2, <2>2, <3>1 DEF TypeOK
  <2> QED BY <2>1, <2>2
<1>4. NoRowTwice'
  BY DEF ScanInv, NoRowTwice
<1>5. PositionInv(t)'
  <2> SUFFICES ASSUME Scanning(t)',
                      NEW b \in 1 .. Len(Batches[endpoint'[t]]),
                      NEW i \in 1 .. Batches[endpoint'[t]][b]
               PROVE  out'[<<endpoint'[t], b, i>>] = IF Consumed(t, b, i)' THEN 1 ELSE 0
    BY DEF PositionInv
  <2>1. current_endpoint < NumEndpoints
    BY <1>1, EndpointsAssumption DEF TypeOK
  <2>2. endpoint'[t] = current_endpoint /\ current_endpoint \in Endpoints
    BY EndpointsAssumption, <1>1, <1>2, <2>1 DEF TypeOK, Endpoints
  <2>3. <<endpoint'[t], b, i>> \in RowsOfEndpoint(current_endpoint)
    BY <2>2, RowsMember
  <2>4. EndpointInv(current_endpoint)
    BY <2>2 DEF ScanInv
  <2>5. out[<<endpoint'[t], b, i>>] = 0
    BY <1>1, <2>3, <2>4 DEF EndpointInv, TypeOK
  <2>6. ~Consumed(t, b, i)'
    BY <2>1 DEF Consumed
  <2> QED BY <2>5, <2>6
<1>6. ASSUME NEW s \in Threads PROVE ThreadInv(s)' /\ PositionInv(s)'
  BY <1>2, <1>5, <1>6, OthersKeepThreadInv, OthersKeepPosition
<1>7. ASSUME NEW e \in Endpoints PROVE EndpointInv(e)'
  <2>1. EndpointInv(e)
    BY DEF ScanInv
  <2>2. e \in Int /\ current_endpoint \in Nat /\ e < NumEndpoints
    BY <1>1, EndpointsAssumption DEF Endpoints, TypeOK
  <2>3. CASE e > current_endpoint
    BY <1>2, <2>1, <2>2, <2>3 DEF EndpointInv
  <2>4. CASE e = current_endpoint
    <3>1. Holding(t)' /\ endpoint'[t] = e
      BY <1>2, <2>2, <2>4, EndpointsAssumption DEF Holding
    <3> QED BY <1>2, <2>2, <2>4, <3>1 DEF EndpointInv
  <2>5. CASE e < current_endpoint
    <3>1. CASE \E s \in Threads \ {t} : Holding(s) /\ endpoint[s] = e
      <4>1. PICK s \in Threads \ {t} : Holding(s) /\ endpoint[s] = e
        BY <3>1
      <4>2. Holding(s)' /\ endpoint'[s] = e
        BY <4>1 DEF Holding, OthersUnmoved
      <4> QED BY <1>2, <2>2, <2>5, <4>2 DEF EndpointInv
    <3>2. CASE \A r \in RowsOfEndpoint(e) : out[r] = 1
      BY <1>2, <2>2, <2>5, <3>2 DEF EndpointInv
    <3> QED BY <2>1, <2>2, <2>5, <3>1, <3>2 DEF EndpointInv
  <2> QED BY <2>2, <2>3, <2>4, <2>5
<1> QED BY <1>3, <1>4, <1>6, <1>7 DEF ScanInv

\* Handing out rows of one's own endpoint, each of them new.
LEMMA EmitStep ==
  ASSUME ScanInv, TypeOK', NEW t \in Threads, OthersUnmoved(t), Scanning(t),
         UNCHANGED <<current_endpoint, endpoint, pc, done>>,
         NEW S \in SUBSET RowsOfEndpoint(endpoint[t]), Emit(S),
         \A r \in S : out[r] = 0,
         ThreadInv(t)', PositionInv(t)'
  PROVE  ScanInv'
<1>1. TypeOK /\ \A s \in Threads : ThreadInv(s)
  BY DEF ScanInv
<1>2. endpoint[t] \in Endpoints
  BY <1>1 DEF ThreadInv, Scanning
<1>3. \A r \in Rows : out'[r] = IF r \in S THEN out[r] + 1 ELSE out[r]
  BY <1>1, EmitCounts DEF TypeOK
<1>4. OneReaderPerEndpoint'
  BY DEF ScanInv, OneReaderPerEndpoint, OthersUnmoved, Scanning
<1>5. NoRowTwice'
  <2>1. \A r \in Rows : out'[r] = 1 \/ out'[r] = out[r]
    BY <1>3
  <2> QED BY <2>1 DEF ScanInv, NoRowTwice
<1>6. ASSUME NEW e \in Endpoints, e # endpoint[t], NEW r \in RowsOfEndpoint(e)
      PROVE  out'[r] = out[r]
  <2>1. r \in Rows /\ r[1] = e
    BY <1>6, RowsOfEndpointShape
  <2>2. r \notin S
    BY <1>2, <1>6, <2>1, RowsOfEndpointShape
  <2> QED BY <1>3, <2>1, <2>2
<1>7. ASSUME NEW s \in Threads \ {t} PROVE PositionInv(s)'
  <2>1. Scanning(s) => endpoint[s] \in Endpoints /\ endpoint[s] # endpoint[t]
    BY <1>1 DEF ScanInv, OneReaderPerEndpoint, ThreadInv, Scanning
  <2> QED BY <1>6, <2>1, OthersKeepPosition
<1>8. ASSUME NEW s \in Threads PROVE ThreadInv(s)' /\ PositionInv(s)'
  BY <1>7, <1>8, OthersKeepThreadInv
<1>9. ASSUME NEW e \in Endpoints PROVE EndpointInv(e)'
  <2>1. EndpointInv(e)
    BY DEF ScanInv
  <2>2. \A s \in Threads : Holding(s)' <=> Holding(s)
    BY DEF Holding
  <2>3. CASE e = endpoint[t]
    <3>1. Holding(t)' /\ endpoint'[t] = e
      BY <2>2, <2>3 DEF Scanning, Holding
    <3>2. ~(e >= current_endpoint)
      BY <1>1, <2>3 DEF ThreadInv, TypeOK, Endpoints
    <3> QED BY <3>1, <3>2 DEF EndpointInv
  <2>4. CASE e # endpoint[t]
    BY <1>6, <2>1, <2>2, <2>4 DEF EndpointInv
  <2> QED BY <2>3, <2>4
<1> QED BY <1>4, <1>5, <1>8, <1>9 DEF ScanInv

-----------------------------------------------------------------------------
(* Every action is of one of the three kinds.                              *)

\* A vector of a stream is a part of the chunk that nobody has handed out yet: the
\* batch the reader stands at has the chunk's size, and the part fits it.
LEMMA SliceOfChunk ==
  ASSUME ScanInv, TypeOK', NEW t \in Threads, StreamVector(t)
  PROVE  /\ OthersUnmoved(t) /\ UNCHANGED <<current_endpoint, endpoint, pc, done>>
         /\ pc[t] = "ready" /\ endpoint[t] \in Endpoints /\ Kind[endpoint[t]] # "local"
         /\ OutputSize(t) > 0 /\ Emit(NextSlice(t)) /\ UNCHANGED <<batch, chunk_length>>
         /\ chunk_offset'[t] = chunk_offset[t] + OutputSize(t)
         /\ batch[t] \in Nat /\ chunk_offset[t] \in Nat /\ chunk_length[t] \in Nat
         /\ OutputSize(t) \in Nat /\ chunk_offset[t] + OutputSize(t) <= chunk_length[t]
         /\ ~done[t] /\ Scanning(t)
         /\ batch[t] \in 1 .. Len(Batches[endpoint[t]])
         /\ Batches[endpoint[t]][batch[t]] = chunk_length[t]
         /\ NextSlice(t) \in SUBSET RowsOfEndpoint(endpoint[t])
         /\ \A r \in NextSlice(t) : out[r] = 0
<1>a. /\ TypeOK /\ TypeOK'
      /\ \A s \in Threads : ThreadInv(s) /\ PositionInv(s)
  BY DEF ScanInv
<1>1. /\ OthersUnmoved(t) /\ UNCHANGED <<current_endpoint, endpoint, pc, done>>
      /\ pc[t] = "ready" /\ endpoint[t] \in Endpoints /\ Kind[endpoint[t]] # "local"
      /\ OutputSize(t) > 0 /\ Emit(NextSlice(t)) /\ UNCHANGED <<batch, chunk_length>>
      /\ chunk_offset'[t] = chunk_offset[t] + OutputSize(t)
  BY <1>a DEF StreamVector, OthersUnmoved, ThreadInv, TypeOK
<1>2. /\ batch[t] \in Nat /\ chunk_offset[t] \in Nat /\ chunk_length[t] \in Nat
      /\ OutputSize(t) \in Nat /\ chunk_offset[t] + OutputSize(t) <= chunk_length[t]
  BY <1>a, <1>1, VectorSizeAssumption DEF OutputSize, Smaller, TypeOK
<1>3. ~done[t] /\ Scanning(t)
  BY <1>a, <1>1, <1>2, VectorSizeAssumption
     DEF ThreadInv, ChunkIsCurrentBatch, Scanning, OutputSize, Smaller
<1>4. /\ batch[t] \in 1 .. Len(Batches[endpoint[t]])
      /\ Batches[endpoint[t]][batch[t]] = chunk_length[t]
  <2>1. /\ batch[t] >= 1 /\ batch[t] <= Len(Batches[endpoint[t]])
        /\ chunk_length[t] = Batches[endpoint[t]][batch[t]]
    BY <1>a, <1>1, <1>3 DEF ThreadInv, ChunkIsCurrentBatch
  <2> QED BY BatchesType, <1>1, <1>2, <2>1
<1>5. NextSlice(t) \in SUBSET RowsOfEndpoint(endpoint[t])
  <2> SUFFICES ASSUME NEW i \in chunk_offset[t] + 1 .. chunk_offset[t] + OutputSize(t)
               PROVE  <<endpoint[t], batch[t], i>> \in RowsOfEndpoint(endpoint[t])
    BY DEF NextSlice
  <2>1. i \in 1 .. Batches[endpoint[t]][batch[t]]
    BY <1>2, <1>4
  <2> QED BY <1>1, <1>4, <2>1, RowsMember
<1>6. ASSUME NEW r \in NextSlice(t) PROVE out[r] = 0
  <2>1. PICK i \in chunk_offset[t] + 1 .. chunk_offset[t] + OutputSize(t) : r = <<endpoint[t], batch[t], i>>
    BY DEF NextSlice
  <2>2. i \in 1 .. Batches[endpoint[t]][batch[t]] /\ ~(i <= chunk_offset[t])
    BY <1>2, <1>4
  <2>3. ~Consumed(t, batch[t], i)
    BY <1>1, <1>2, <2>2 DEF Consumed
  <2> QED BY <1>a, <1>3, <1>4, <2>1, <2>2, <2>3 DEF PositionInv
<1> QED BY <1>1, <1>2, <1>3, <1>4, <1>5, <1>6

\* A vector of a local function is its next batch, of which nothing is handed out yet.
LEMMA VectorOfLocal ==
  ASSUME ScanInv, TypeOK', NEW t \in Threads, LocalVector(t)
  PROVE  /\ OthersUnmoved(t) /\ UNCHANGED <<current_endpoint, endpoint, pc, done>>
         /\ pc[t] = "ready" /\ ~done[t] /\ endpoint[t] \in Endpoints /\ Kind[endpoint[t]] = "local"
         /\ Emit(RowsOfBatch(endpoint[t], batch[t] + 1))
         /\ batch'[t] = batch[t] + 1 /\ batch[t] < Len(Batches[endpoint[t]])
         /\ UNCHANGED <<chunk_length, chunk_offset>>
         /\ batch[t] \in Nat /\ batch[t] + 1 \in 1 .. Len(Batches[endpoint[t]]) /\ Scanning(t)
         /\ RowsOfBatch(endpoint[t], batch[t] + 1) \in SUBSET RowsOfEndpoint(endpoint[t])
         /\ \A r \in RowsOfBatch(endpoint[t], batch[t] + 1) : out[r] = 0
<1>a. /\ TypeOK /\ TypeOK'
      /\ \A s \in Threads : ThreadInv(s) /\ PositionInv(s)
  BY DEF ScanInv
<1> DEFINE S == RowsOfBatch(endpoint[t], batch[t] + 1)
<1>1. /\ OthersUnmoved(t) /\ UNCHANGED <<current_endpoint, endpoint, pc, done>>
      /\ pc[t] = "ready" /\ ~done[t] /\ endpoint[t] \in Endpoints /\ Kind[endpoint[t]] = "local"
      /\ Emit(S) /\ batch'[t] = batch[t] + 1 /\ batch[t] < Len(Batches[endpoint[t]])
      /\ UNCHANGED <<chunk_length, chunk_offset>>
  BY <1>a DEF LocalVector, OthersUnmoved, ThreadInv, ChunkIsCurrentBatch, TypeOK
<1>2. batch[t] \in Nat /\ batch[t] + 1 \in 1 .. Len(Batches[endpoint[t]]) /\ Scanning(t)
  BY <1>a, BatchesType, <1>1 DEF TypeOK, Scanning
<1>3. S \in SUBSET RowsOfEndpoint(endpoint[t])
  BY <1>2 DEF RowsOfEndpoint
<1>4. ASSUME NEW r \in S PROVE out[r] = 0
  <2>1. PICK i \in 1 .. Batches[endpoint[t]][batch[t] + 1] : r = <<endpoint[t], batch[t] + 1, i>>
    BY DEF RowsOfBatch
  <2>2. ~Consumed(t, batch[t] + 1, i)
    BY <1>2 DEF Consumed
  <2> QED BY <1>a, <1>2, <2>1, <2>2 DEF PositionInv
<1> QED BY <1>1, <1>2, <1>3, <1>4

LEMMA NextScanInv == ScanInv /\ [Next]_vars => ScanInv'
<1> SUFFICES ASSUME ScanInv, [Next]_vars PROVE ScanInv'
  OBVIOUS
<1>a. /\ TypeOK /\ TypeOK'
      /\ \A t \in Threads : ThreadInv(t) /\ PositionInv(t)
  BY NextTypeOK DEF ScanInv
<1>b. \A e \in Endpoints : Len(Batches[e]) \in Nat /\ \A b \in 1 .. Len(Batches[e]) : Batches[e][b] \in Nat
  BY BatchesType
<1>1. ASSUME NEW t \in Threads, ProcessEndpoint(t) PROVE ScanInv'
  <2>1. /\ OthersUnmoved(t)
        /\ UNCHANGED <<current_endpoint, endpoint, out>>
        /\ Scanning(t)' => Scanning(t)
        /\ Holding(t) => Holding(t)'
    BY <1>a, <1>1 DEF ProcessEndpoint, OthersUnmoved, Scanning, Holding, Goto, TypeOK, chunkVars
  <2>2. ThreadInv(t)'
    BY <1>a, <1>b, <1>1 DEF ProcessEndpoint, ThreadInv, ChunkIsCurrentBatch, Scanning, Goto, TypeOK, chunkVars
  <2>3. PositionInv(t)'
    BY <1>a, <1>b, <1>1 DEF ProcessEndpoint, ThreadInv, ChunkIsCurrentBatch, PositionInv, Consumed, Scanning, Goto, TypeOK, chunkVars
  <2> QED BY <1>a, <2>1, <2>2, <2>3, QuietStep
<1>2. ASSUME NEW t \in Threads, DoGetReturns(t) PROVE ScanInv'
  <2>1. /\ OthersUnmoved(t)
        /\ UNCHANGED <<current_endpoint, endpoint, out>>
        /\ Scanning(t)' => Scanning(t)
        /\ Holding(t) => Holding(t)'
    BY <1>a, <1>2 DEF DoGetReturns, OthersUnmoved, Scanning, Holding, Goto, TypeOK, chunkVars
  <2>2. ThreadInv(t)'
    BY <1>a, <1>b, <1>2 DEF DoGetReturns, ThreadInv, ChunkIsCurrentBatch, Scanning, Goto, TypeOK, chunkVars
  <2>3. PositionInv(t)'
    BY <1>a, <1>b, <1>2 DEF DoGetReturns, ThreadInv, ChunkIsCurrentBatch, PositionInv, Consumed, Scanning, Goto, TypeOK, chunkVars
  <2> QED BY <1>a, <2>1, <2>2, <2>3, QuietStep
<1>3. ASSUME NEW t \in Threads, OpenFails(t) PROVE ScanInv'
  <2>1. /\ OthersUnmoved(t)
        /\ UNCHANGED <<current_endpoint, endpoint, out>>
        /\ Scanning(t)' => Scanning(t)
        /\ Holding(t) => Holding(t)'
    BY <1>a, <1>3 DEF OpenFails, OthersUnmoved, Scanning, Holding, Goto, TypeOK, chunkVars
  <2>2. ThreadInv(t)'
    BY <1>a, <1>b, <1>3 DEF OpenFails, ThreadInv, ChunkIsCurrentBatch, Scanning, Goto, TypeOK, chunkVars
  <2>3. PositionInv(t)'
    BY <1>a, <1>b, <1>3 DEF OpenFails, ThreadInv, ChunkIsCurrentBatch, PositionInv, Consumed, Scanning, Goto, TypeOK, chunkVars
  <2> QED BY <1>a, <2>1, <2>2, <2>3, QuietStep
<1>4. ASSUME NEW t \in Threads, EnterRead(t) PROVE ScanInv'
  <2>1. /\ OthersUnmoved(t)
        /\ UNCHANGED <<current_endpoint, endpoint, out>>
        /\ Scanning(t)' => Scanning(t)
        /\ Holding(t) => Holding(t)'
    BY <1>a, <1>4 DEF EnterRead, OthersUnmoved, Scanning, Holding, Goto, TypeOK, chunkVars
  <2>2. ThreadInv(t)'
    BY <1>a, <1>b, <1>4 DEF EnterRead, ThreadInv, ChunkIsCurrentBatch, Scanning, Goto, TypeOK, chunkVars
  <2>3. PositionInv(t)'
    BY <1>a, <1>b, <1>4 DEF EnterRead, ThreadInv, ChunkIsCurrentBatch, PositionInv, Consumed, Scanning, Goto, TypeOK, chunkVars
  <2> QED BY <1>a, <2>1, <2>2, <2>3, QuietStep
<1>5. ASSUME NEW t \in Threads, ReadEmptyBatch(t) PROVE ScanInv'
  <2>1. /\ OthersUnmoved(t)
        /\ UNCHANGED <<current_endpoint, endpoint, out>>
        /\ Scanning(t)' => Scanning(t)
        /\ Holding(t) => Holding(t)'
    BY <1>a, <1>5 DEF ReadEmptyBatch, TakeBatch, NextBatchSize, OthersUnmoved, Scanning, Holding, Goto, TypeOK, chunkVars
  <2>2. ThreadInv(t)'
    BY <1>a, <1>b, <1>5 DEF ReadEmptyBatch, TakeBatch, NextBatchSize, ThreadInv, ChunkIsCurrentBatch, Scanning, Goto, TypeOK, chunkVars
  <2>3. PositionInv(t)'
    <3> SUFFICES ASSUME Scanning(t)',
                        NEW b \in 1 .. Len(Batches[endpoint[t]]),
                        NEW i \in 1 .. Batches[endpoint[t]][b]
                 PROVE  out[<<endpoint[t], b, i>>] = IF Consumed(t, b, i)' THEN 1 ELSE 0
      BY <2>1 DEF PositionInv
    <3>1. endpoint[t] \in Endpoints /\ Scanning(t) /\ pc[t] = "reading" /\ pc'[t] = "fetch"
      BY <1>a, <1>5, <2>1 DEF ReadEmptyBatch, TakeBatch, Goto, ThreadInv, Scanning, TypeOK
    <3>2. batch'[t] = batch[t] + 1 /\ batch[t] \in Nat
      BY <1>a, <1>5 DEF ReadEmptyBatch, TakeBatch, TypeOK
    <3>3. b # batch[t] + 1
      <4>1. Batches[endpoint[t]][batch[t] + 1] = 0
        BY <1>5 DEF ReadEmptyBatch, NextBatchSize
      <4> QED BY <4>1
    <3>4. Consumed(t, b, i)' <=> Consumed(t, b, i)
      BY <3>1, <3>2, <3>3 DEF Consumed
    <3> QED BY <1>a, <3>1, <3>4 DEF PositionInv
  <2> QED BY <1>a, <2>1, <2>2, <2>3, QuietStep
<1>6. ASSUME NEW t \in Threads, ReadRows(t) PROVE ScanInv'
  <2>1. /\ OthersUnmoved(t)
        /\ UNCHANGED <<current_endpoint, endpoint, out>>
        /\ Scanning(t)' => Scanning(t)
        /\ Holding(t) => Holding(t)'
    BY <1>a, <1>6 DEF ReadRows, TakeBatch, NextBatchSize, OthersUnmoved, Scanning, Holding, Goto, TypeOK, chunkVars
  <2>2. ThreadInv(t)'
    BY <1>a, <1>b, <1>6 DEF ReadRows, TakeBatch, NextBatchSize, ThreadInv, ChunkIsCurrentBatch, Scanning, Goto, TypeOK, chunkVars
  <2>3. PositionInv(t)'
    <3> SUFFICES ASSUME Scanning(t)',
                        NEW b \in 1 .. Len(Batches[endpoint[t]]),
                        NEW i \in 1 .. Batches[endpoint[t]][b]
                 PROVE  out[<<endpoint[t], b, i>>] = IF Consumed(t, b, i)' THEN 1 ELSE 0
      BY <2>1 DEF PositionInv
    <3>1. endpoint[t] \in Endpoints /\ Scanning(t) /\ pc[t] = "reading" /\ pc'[t] = "ready"
      BY <1>a, <1>6, <2>1 DEF ReadRows, TakeBatch, Goto, ThreadInv, Scanning, TypeOK
    <3>2. /\ batch'[t] = batch[t] + 1 /\ batch[t] \in Nat
          /\ chunk_offset'[t] = 0 /\ Kind[endpoint[t]] # "local"
      BY <1>a, <1>6, <3>1 DEF ReadRows, TakeBatch, TypeOK, ThreadInv, ChunkIsCurrentBatch
    <3>3. b \in Nat /\ i \in Nat /\ i >= 1
      BY <1>b, <3>1
    <3>4. Consumed(t, b, i)' <=> Consumed(t, b, i)
      BY <2>1, <3>1, <3>2, <3>3 DEF Consumed
    <3> QED BY <1>a, <3>1, <3>4 DEF PositionInv
  <2> QED BY <1>a, <2>1, <2>2, <2>3, QuietStep
<1>7. ASSUME NEW t \in Threads, ReadFails(t) PROVE ScanInv'
  <2>1. /\ OthersUnmoved(t)
        /\ UNCHANGED <<current_endpoint, endpoint, out>>
        /\ Scanning(t)' => Scanning(t)
        /\ Holding(t) => Holding(t)'
    BY <1>a, <1>7 DEF ReadFails, OthersUnmoved, Scanning, Holding, Goto, TypeOK, chunkVars
  <2>2. ThreadInv(t)'
    BY <1>a, <1>b, <1>7 DEF ReadFails, ThreadInv, ChunkIsCurrentBatch, Scanning, Goto, TypeOK, chunkVars
  <2>3. PositionInv(t)'
    BY <1>a, <1>b, <1>7 DEF ReadFails, ThreadInv, ChunkIsCurrentBatch, PositionInv, Consumed, Scanning, Goto, TypeOK, chunkVars
  <2> QED BY <1>a, <2>1, <2>2, <2>3, QuietStep
<1>8. ASSUME NEW t \in Threads, TakeFlightInterrupted(t) PROVE ScanInv'
  <2>1. /\ OthersUnmoved(t)
        /\ UNCHANGED <<current_endpoint, endpoint, out>>
        /\ Scanning(t)' => Scanning(t)
        /\ Holding(t) => Holding(t)'
    BY <1>a, <1>8 DEF TakeFlightInterrupted, OthersUnmoved, Scanning, Holding, Goto, TypeOK, chunkVars
  <2>2. ThreadInv(t)'
    BY <1>a, <1>b, <1>8 DEF TakeFlightInterrupted, ThreadInv, ChunkIsCurrentBatch, Scanning, Goto, TypeOK, chunkVars
  <2>3. PositionInv(t)'
    BY <1>a, <1>b, <1>8 DEF TakeFlightInterrupted, ThreadInv, ChunkIsCurrentBatch, PositionInv, Consumed, Scanning, Goto, TypeOK, chunkVars
  <2> QED BY <1>a, <2>1, <2>2, <2>3, QuietStep
<1>9. ASSUME NEW t \in Threads, StreamNext(t) PROVE ScanInv'
  <2>1. /\ OthersUnmoved(t)
        /\ UNCHANGED <<current_endpoint, endpoint, out>>
        /\ Scanning(t)' => Scanning(t)
        /\ Holding(t) => Holding(t)'
    BY <1>a, <1>9 DEF StreamNext, OthersUnmoved, Scanning, Holding, Goto, TypeOK, chunkVars
  <2>2. ThreadInv(t)'
    BY <1>a, <1>b, <1>9 DEF StreamNext, ThreadInv, ChunkIsCurrentBatch, Scanning, Goto, TypeOK, chunkVars
  <2>3. PositionInv(t)'
    <3> SUFFICES ASSUME Scanning(t)',
                        NEW b \in 1 .. Len(Batches[endpoint[t]]),
                        NEW i \in 1 .. Batches[endpoint[t]][b]
                 PROVE  out[<<endpoint[t], b, i>>] = IF Consumed(t, b, i)' THEN 1 ELSE 0
      BY <2>1 DEF PositionInv
    <3>1. /\ endpoint[t] \in Endpoints /\ Scanning(t) /\ pc[t] = "ready" /\ pc'[t] = "fetch"
          /\ Kind[endpoint[t]] # "local" /\ OutputSize(t) = 0 /\ batch' = batch
      BY <1>a, <1>9, <2>1 DEF StreamNext, Goto, ThreadInv, Scanning, TypeOK
    <3>2. batch[t] \in Nat /\ chunk_offset[t] \in Nat /\ chunk_length[t] \in Nat
      BY <1>a DEF TypeOK
    <3>3. chunk_length[t] = Batches[endpoint[t]][batch[t]] /\ chunk_offset[t] <= chunk_length[t]
      BY <1>a, <3>1 DEF ThreadInv, ChunkIsCurrentBatch, Scanning
    <3>4. chunk_offset[t] = chunk_length[t]
      BY <3>1, <3>2, <3>3, VectorSizeAssumption DEF OutputSize, Smaller
    <3>5. Consumed(t, b, i)' <=> Consumed(t, b, i)
      BY <3>1, <3>2, <3>3, <3>4 DEF Consumed
    <3> QED BY <1>a, <3>1, <3>5 DEF PositionInv
  <2> QED BY <1>a, <2>1, <2>2, <2>3, QuietStep
<1>10. ASSUME NEW t \in Threads, LocalFails(t) PROVE ScanInv'
  <2>1. /\ OthersUnmoved(t)
        /\ UNCHANGED <<current_endpoint, endpoint, out>>
        /\ Scanning(t)' => Scanning(t)
        /\ Holding(t) => Holding(t)'
    BY <1>a, <1>10 DEF LocalFails, OthersUnmoved, Scanning, Holding, Goto, TypeOK, chunkVars
  <2>2. ThreadInv(t)'
    BY <1>a, <1>b, <1>10 DEF LocalFails, ThreadInv, ChunkIsCurrentBatch, Scanning, Goto, TypeOK, chunkVars
  <2>3. PositionInv(t)'
    BY <1>a, <1>b, <1>10 DEF LocalFails, ThreadInv, ChunkIsCurrentBatch, PositionInv, Consumed, Scanning, Goto, TypeOK, chunkVars
  <2> QED BY <1>a, <2>1, <2>2, <2>3, QuietStep
<1>11. ASSUME NEW t \in Threads, Drop(t) PROVE ScanInv'
  <2>1. /\ OthersUnmoved(t)
        /\ UNCHANGED <<current_endpoint, endpoint, out>>
        /\ Scanning(t)' => Scanning(t)
        /\ Holding(t) => Holding(t)'
    BY <1>a, <1>11 DEF Drop, OthersUnmoved, Scanning, Holding, Goto, TypeOK, chunkVars
  <2>2. ThreadInv(t)'
    BY <1>a, <1>b, <1>11 DEF Drop, ThreadInv, ChunkIsCurrentBatch, Scanning, Goto, TypeOK, chunkVars
  <2>3. PositionInv(t)'
    BY <1>a, <1>b, <1>11 DEF Drop, ThreadInv, ChunkIsCurrentBatch, PositionInv, Consumed, Scanning, Goto, TypeOK, chunkVars
  <2> QED BY <1>a, <2>1, <2>2, <2>3, QuietStep
<1>12. ASSUME NEW t \in Threads, InitLocal(t) PROVE ScanInv'
  <2>1. OthersUnmoved(t) /\ GetNextEndpoint(t) /\ UNCHANGED out
    BY <1>a, <1>12 DEF InitLocal, GetNextEndpoint, Goto, OthersUnmoved, TypeOK, chunkVars
  <2>2. /\ ~Holding(t) /\ ~done[t] /\ done' = done
        /\ pc'[t] = IF current_endpoint < NumEndpoints THEN "open" ELSE "finished"
    BY <1>a, <1>12 DEF InitLocal, Goto, Holding, ThreadInv, TypeOK
  <2>3. ThreadInv(t)'
    BY <1>a, <2>1, <2>2, EndpointsAssumption
       DEF GetNextEndpoint, ThreadInv, ChunkIsCurrentBatch, Scanning, TypeOK, Endpoints, NoEndpoint
  <2>4. current_endpoint < NumEndpoints => pc'[t] = "open" /\ ~done'[t]
    BY <2>2
  <2>5. current_endpoint >= NumEndpoints => ~Scanning(t)'
    BY <1>a, <2>2, EndpointsAssumption DEF Scanning, TypeOK
  <2> QED BY <1>a, <2>1, <2>2, <2>3, <2>4, <2>5, ClaimStep
<1>13. ASSUME NEW t \in Threads, ReadEnd(t) PROVE ScanInv'
  <2>1. /\ OthersUnmoved(t) /\ GetNextEndpoint(t) /\ UNCHANGED out
        /\ pc[t] = "reading" /\ ~done[t] /\ endpoint[t] \in Endpoints
        /\ batch[t] = Len(Batches[endpoint[t]])
    BY <1>a, <1>13
       DEF ReadEnd, NextEndpoint, GetNextEndpoint, Goto, OthersUnmoved, TypeOK, ThreadInv, ChunkIsCurrentBatch
  <2>2. \A r \in RowsOfEndpoint(endpoint[t]) : out[r] = 1
    BY <1>a, <1>b, <2>1, RowsOfEndpointShape DEF PositionInv, Scanning, Consumed
  <2>3. ThreadInv(t)'
    BY <1>a, <1>13, <2>1, EndpointsAssumption
       DEF ReadEnd, NextEndpoint, GetNextEndpoint, Goto, ThreadInv, ChunkIsCurrentBatch, Scanning, TypeOK,
           Endpoints, NoEndpoint
  <2>4. current_endpoint < NumEndpoints => pc'[t] = "open" /\ ~done'[t]
    BY <1>a, <1>13, <2>1, EndpointsAssumption DEF ReadEnd, NextEndpoint, Goto, TypeOK
  <2>5. current_endpoint >= NumEndpoints => ~Scanning(t)'
    BY <1>a, <1>13, EndpointsAssumption DEF ReadEnd, NextEndpoint, Scanning, TypeOK
  <2> QED BY <1>a, <2>1, <2>2, <2>3, <2>4, <2>5, ClaimStep
<1>14. ASSUME NEW t \in Threads, LocalEnd(t) PROVE ScanInv'
  <2>1. /\ OthersUnmoved(t) /\ GetNextEndpoint(t) /\ UNCHANGED out
        /\ pc[t] = "ready" /\ ~done[t] /\ endpoint[t] \in Endpoints
        /\ batch[t] = Len(Batches[endpoint[t]]) /\ Kind[endpoint[t]] = "local"
    BY <1>a, <1>14
       DEF LocalEnd, NextEndpoint, GetNextEndpoint, Goto, OthersUnmoved, TypeOK, ThreadInv,
           ChunkIsCurrentBatch, chunkVars
  <2>2. \A r \in RowsOfEndpoint(endpoint[t]) : out[r] = 1
    BY <1>a, <1>b, <2>1, RowsOfEndpointShape DEF PositionInv, Scanning, Consumed
  <2>3. ThreadInv(t)'
    BY <1>a, <1>14, <2>1, EndpointsAssumption
       DEF LocalEnd, NextEndpoint, GetNextEndpoint, Goto, ThreadInv, ChunkIsCurrentBatch, Scanning, TypeOK,
           Endpoints, NoEndpoint, chunkVars
  <2>4. current_endpoint < NumEndpoints => pc'[t] = "open" /\ ~done'[t]
    BY <1>a, <1>14, <2>1, EndpointsAssumption DEF LocalEnd, NextEndpoint, Goto, TypeOK
  <2>5. current_endpoint >= NumEndpoints => ~Scanning(t)'
    BY <1>a, <1>14, EndpointsAssumption DEF LocalEnd, NextEndpoint, Scanning, TypeOK
  <2> QED BY <1>a, <2>1, <2>2, <2>3, <2>4, <2>5, ClaimStep
<1>15. ASSUME NEW t \in Threads, StreamVector(t) PROVE ScanInv'
  <2>1. /\ OthersUnmoved(t) /\ UNCHANGED <<current_endpoint, endpoint, pc, done>>
        /\ pc[t] = "ready" /\ endpoint[t] \in Endpoints /\ Kind[endpoint[t]] # "local"
        /\ OutputSize(t) > 0 /\ Emit(NextSlice(t)) /\ UNCHANGED <<batch, chunk_length>>
        /\ chunk_offset'[t] = chunk_offset[t] + OutputSize(t)
    BY <1>a, <1>15, SliceOfChunk
  <2>2. /\ batch[t] \in Nat /\ chunk_offset[t] \in Nat /\ chunk_length[t] \in Nat
        /\ OutputSize(t) \in Nat /\ chunk_offset[t] + OutputSize(t) <= chunk_length[t]
    BY <1>a, <1>15, SliceOfChunk
  <2>3. ~done[t] /\ Scanning(t)
    BY <1>a, <1>15, SliceOfChunk
  <2>4. /\ batch[t] \in 1 .. Len(Batches[endpoint[t]])
        /\ Batches[endpoint[t]][batch[t]] = chunk_length[t]
    BY <1>a, <1>15, SliceOfChunk
  <2>5. NextSlice(t) \in SUBSET RowsOfEndpoint(endpoint[t])
    BY <1>a, <1>15, SliceOfChunk
  <2>6. ASSUME NEW r \in NextSlice(t) PROVE out[r] = 0
    BY <1>a, <1>15, SliceOfChunk
  <2>7. ThreadInv(t)'
    BY <1>a, <1>15, <2>1, <2>2, <2>3, <2>4 DEF StreamVector, ThreadInv, ChunkIsCurrentBatch, Scanning, TypeOK
  <2>8. PositionInv(t)'
    <3> SUFFICES ASSUME NEW b \in 1 .. Len(Batches[endpoint[t]]),
                        NEW i \in 1 .. Batches[endpoint[t]][b]
                 PROVE  out'[<<endpoint[t], b, i>>] = IF Consumed(t, b, i)' THEN 1 ELSE 0
      BY <2>1 DEF PositionInv
    <3>1. <<endpoint[t], b, i>> \in Rows
      BY <2>1, RowsMember
    <3>2. <<endpoint[t], b, i>> \in NextSlice(t) <=>
            b = batch[t] /\ i > chunk_offset[t] /\ i <= chunk_offset[t] + OutputSize(t)
      BY <1>b, <2>1, <2>2 DEF NextSlice
    <3>3. out[<<endpoint[t], b, i>>] = IF Consumed(t, b, i) THEN 1 ELSE 0
      BY <1>a, <2>3 DEF PositionInv
    <3>4. Consumed(t, b, i)' <=> Consumed(t, b, i) \/ <<endpoint[t], b, i>> \in NextSlice(t)
      BY <1>b, <2>1, <2>2, <3>2 DEF Consumed
    <3>5. ~(Consumed(t, b, i) /\ <<endpoint[t], b, i>> \in NextSlice(t))
      BY <1>b, <2>1, <2>2, <3>2 DEF Consumed
    <3> QED BY <1>a, <2>1, <3>1, <3>3, <3>4, <3>5, EmitCounts DEF TypeOK
  <2> QED BY <1>a, <2>1, <2>3, <2>5, <2>6, <2>7, <2>8, EmitStep
<1>16. ASSUME NEW t \in Threads, LocalVector(t) PROVE ScanInv'
  <2> DEFINE S == RowsOfBatch(endpoint[t], batch[t] + 1)
  <2>1. /\ OthersUnmoved(t) /\ UNCHANGED <<current_endpoint, endpoint, pc, done>>
        /\ pc[t] = "ready" /\ ~done[t] /\ endpoint[t] \in Endpoints /\ Kind[endpoint[t]] = "local"
        /\ Emit(S) /\ batch'[t] = batch[t] + 1 /\ batch[t] < Len(Batches[endpoint[t]])
        /\ UNCHANGED <<chunk_length, chunk_offset>>
    BY <1>a, <1>16, VectorOfLocal
  <2>2. batch[t] \in Nat /\ batch[t] + 1 \in 1 .. Len(Batches[endpoint[t]]) /\ Scanning(t)
    BY <1>a, <1>16, VectorOfLocal
  <2>3. S \in SUBSET RowsOfEndpoint(endpoint[t])
    BY <1>a, <1>16, VectorOfLocal
  <2>4. ASSUME NEW r \in S PROVE out[r] = 0
    BY <1>a, <1>16, VectorOfLocal
  <2>5. ThreadInv(t)'
    BY <1>a, <1>b, <1>16, <2>1, <2>2 DEF LocalVector, ThreadInv, ChunkIsCurrentBatch, Scanning, TypeOK
  <2>6. PositionInv(t)'
    <3> SUFFICES ASSUME NEW b \in 1 .. Len(Batches[endpoint[t]]),
                        NEW i \in 1 .. Batches[endpoint[t]][b]
                 PROVE  out'[<<endpoint[t], b, i>>] = IF Consumed(t, b, i)' THEN 1 ELSE 0
      BY <2>1 DEF PositionInv
    <3>1. <<endpoint[t], b, i>> \in Rows
      BY <2>1, RowsMember
    <3>2. <<endpoint[t], b, i>> \in S <=> b = batch[t] + 1
      BY DEF RowsOfBatch
    <3>3. out[<<endpoint[t], b, i>>] = IF Consumed(t, b, i) THEN 1 ELSE 0
      BY <1>a, <2>2 DEF PositionInv
    <3>4. /\ Consumed(t, b, i)' <=> b <= batch[t] + 1
          /\ Consumed(t, b, i) <=> b <= batch[t]
      BY <1>b, <2>1, <2>2 DEF Consumed
    <3>5. b \in Nat
      BY <1>b, <2>1
    <3> HIDE DEF S
    <3> QED BY SMTT(30), <1>a, <2>1, <2>2, <3>1, <3>2, <3>3, <3>4, <3>5, EmitCounts DEF TypeOK
  <2> HIDE DEF S
  <2> QED BY <1>a, <2>1, <2>2, <2>3, <2>4, <2>5, <2>6, EmitStep
<1>17. CASE UNCHANGED <<current_endpoint, pc, caller, endpoint, chunkVars, done, out>>
  <2>1. PICK t : t \in Threads
    BY ThreadsAssumption
  <2>2. \A s \in Threads : OthersUnmoved(s) /\ ThreadInv(s)' /\ PositionInv(s)'
    BY <1>a, <1>17 DEF OthersUnmoved, ThreadInv, ChunkIsCurrentBatch, PositionInv, Consumed, Scanning, chunkVars
  <2> QED BY <1>a, <1>17, <2>1, <2>2, QuietStep DEF Scanning, Holding
<1>18. ASSUME NEW t \in Threads, MonitorFires(t) PROVE ScanInv'
  BY <1>17, <1>18 DEF MonitorFires
<1>19. ASSUME Interrupt PROVE ScanInv'
  BY <1>17, <1>19 DEF Interrupt
<1>20. ASSUME UNCHANGED vars PROVE ScanInv'
  BY <1>17, <1>20 DEF vars, chunkVars
<1> QED
  BY <1>1, <1>2, <1>3, <1>4, <1>5, <1>6, <1>7, <1>8, <1>9, <1>10, <1>11, <1>12, <1>13, <1>14, <1>15,
     <1>16, <1>18, <1>19, <1>20 DEF Next, ReadAnswered, ReadCancelled, TakeFlight, QueryOver

-----------------------------------------------------------------------------
(* The theorems.                                                           *)

\* The inductive invariant holds in every reachable state.
THEOREM ScanInvariant == Spec => []ScanInv
<1>1. Init => ScanInv
  BY InitScanInv
<1>2. ScanInv /\ [Next]_vars => ScanInv'
  BY NextScanInv
<1> QED BY <1>1, <1>2, PTL DEF Spec

\* Every variable keeps its type in every reachable state.
THEOREM TypeCorrect == Spec => []TypeOK
<1>1. ScanInv => TypeOK
  BY DEF ScanInv
<1> QED BY <1>1, ScanInvariant, PTL

\* The atomic cursor never gives an endpoint to two threads.
THEOREM EndpointExclusion == Spec => []OneReaderPerEndpoint
<1>1. ScanInv => OneReaderPerEndpoint
  BY DEF ScanInv
<1> QED BY <1>1, ScanInvariant, PTL

\* No row of the flight is ever handed to DuckDB twice.
THEOREM AtMostOnce == Spec => []NoRowTwice
<1>1. ScanInv => NoRowTwice
  BY DEF ScanInv
<1> QED BY <1>1, ScanInvariant, PTL

\* When every thread has finished, every endpoint was claimed, nobody holds one,
\* and so all rows of all endpoints were handed out.
LEMMA AllHandedOut == ScanInv => NothingLostOnSuccess
<1> SUFFICES ASSUME ScanInv, \A t \in Threads : pc[t] = "finished", NEW r \in Rows
             PROVE  out[r] >= 1
  BY DEF NothingLostOnSuccess
<1>1. NumEndpoints <= current_endpoint /\ current_endpoint \in Nat
  BY ThreadsAssumption DEF ScanInv, ThreadInv, TypeOK
<1>2. PICK e \in Endpoints : r \in RowsOfEndpoint(e)
  BY DEF Rows
<1>3. ~(e >= current_endpoint)
  BY <1>1, EndpointsAssumption DEF Endpoints
<1>4. ~\E t \in Threads : Holding(t) /\ endpoint[t] = e
  BY DEF Holding
<1> QED BY <1>2, <1>3, <1>4 DEF ScanInv, EndpointInv

\* If all tasks end normally, no row of any endpoint is missing.
THEOREM CompleteOnSuccess == Spec => []NothingLostOnSuccess
<1> QED BY AllHandedOut, ScanInvariant, PTL

-----------------------------------------------------------------------------
(* What a step hands out.                                                  *)

\* The rows S of the endpoint of t are handed out: all of them for the first time, and
\* none while an earlier row of the endpoint is missing.
HandsOut(t, S) ==
  /\ Emit(S) /\ S \in SUBSET RowsOfEndpoint(endpoint[t]) /\ endpoint[t] \in Endpoints
  /\ pc' = pc /\ pc[t] = "ready"
  /\ S # {} /\ \A r \in S : out[r] = 0
  /\ \A r \in S, s \in Rows : Before(s, r) => s \in S \/ out[s] = 1

\* A row that comes earlier in the endpoint that t is scanning has been handed out, or
\* belongs to the batch the reader stands at, or to a later one.
LEMMA EarlierRow ==
  ASSUME ScanInv, NEW t \in Threads, Scanning(t), NEW s \in Rows, s[1] = endpoint[t]
  PROVE  \E b \in 1 .. Len(Batches[endpoint[t]]) : \E i \in 1 .. Batches[endpoint[t]][b] :
           s = <<endpoint[t], b, i>> /\ (Consumed(t, b, i) => out[s] = 1)
<1>1. PICK e \in Endpoints : \E b \in 1 .. Len(Batches[e]) : \E i \in 1 .. Batches[e][b] :
        s = <<e, b, i>>
  BY RowsShape
<1>2. PICK b \in 1 .. Len(Batches[e]) : \E i \in 1 .. Batches[e][b] : s = <<e, b, i>>
  BY <1>1
<1>3. PICK i \in 1 .. Batches[e][b] : s = <<e, b, i>>
  BY <1>2
<1>4. e = endpoint[t]
  BY <1>3
<1>5. Consumed(t, b, i) => out[<<endpoint[t], b, i>>] = 1
  BY <1>4 DEF ScanInv, PositionInv
<1> QED BY <1>3, <1>4, <1>5

\* The next slice of a chunk.
LEMMA SliceHandsOut ==
  ASSUME ScanInv, TypeOK', NEW t \in Threads, StreamVector(t)
  PROVE  HandsOut(t, NextSlice(t))
<1>1. /\ pc[t] = "ready" /\ endpoint[t] \in Endpoints /\ Kind[endpoint[t]] # "local"
      /\ OutputSize(t) > 0 /\ OutputSize(t) \in Nat
      /\ batch[t] \in Nat /\ chunk_offset[t] \in Nat
      /\ ~done[t] /\ Scanning(t) /\ pc' = pc
  BY SliceOfChunk DEF StreamVector
<1>2. /\ Emit(NextSlice(t)) /\ NextSlice(t) \in SUBSET RowsOfEndpoint(endpoint[t])
      /\ \A r \in NextSlice(t) : out[r] = 0
  BY SliceOfChunk
<1>3. NextSlice(t) # {}
  <2>1. chunk_offset[t] + 1 \in chunk_offset[t] + 1 .. chunk_offset[t] + OutputSize(t)
    BY <1>1
  <2> QED BY <2>1 DEF NextSlice
<1>4. ASSUME NEW r \in NextSlice(t), NEW s \in Rows, Before(s, r), s \notin NextSlice(t)
      PROVE  out[s] = 1
  <2>1. PICK j \in chunk_offset[t] + 1 .. chunk_offset[t] + OutputSize(t) :
          r = <<endpoint[t], batch[t], j>>
    BY DEF NextSlice
  <2>2. s[1] = endpoint[t]
    BY <1>4, <2>1 DEF Before
  <2>3a. PICK b \in 1 .. Len(Batches[endpoint[t]]) : \E i \in 1 .. Batches[endpoint[t]][b] :
           s = <<endpoint[t], b, i>> /\ (Consumed(t, b, i) => out[s] = 1)
    BY <1>1, <2>2, EarlierRow
  <2>3. PICK i \in 1 .. Batches[endpoint[t]][b] :
          s = <<endpoint[t], b, i>> /\ (Consumed(t, b, i) => out[s] = 1)
    BY <2>3a
  <2>4. b \in Nat /\ i \in Nat /\ j \in Nat
    BY SMTT(30), <1>1, BatchesType, <2>1
  <2>5. b < batch[t] \/ (b = batch[t] /\ i < j)
    BY <1>4, <2>1, <2>3 DEF Before
  <2>6. b = batch[t] => i <= chunk_offset[t]
    <3> SUFFICES ASSUME b = batch[t], ~(i <= chunk_offset[t]) PROVE FALSE
      BY <1>1, <2>4
    <3>1. i \in chunk_offset[t] + 1 .. chunk_offset[t] + OutputSize(t)
      BY SMTT(30), <1>1, <2>1, <2>4, <2>5
    <3> QED BY <1>4, <2>3, <3>1 DEF NextSlice
  <2>7. Consumed(t, b, i)
    BY <1>1, <2>5, <2>6 DEF Consumed
  <2> QED BY <2>3, <2>7
<1> QED BY <1>1, <1>2, <1>3, <1>4 DEF HandsOut

\* The next batch of a local function; it is not empty.
LEMMA LocalHandsOut ==
  ASSUME ScanInv, TypeOK', NEW t \in Threads, LocalVector(t)
  PROVE  HandsOut(t, RowsOfBatch(endpoint[t], batch[t] + 1))
<1> DEFINE S == RowsOfBatch(endpoint[t], batch[t] + 1)
<1>1. /\ pc[t] = "ready" /\ endpoint[t] \in Endpoints /\ Kind[endpoint[t]] = "local"
      /\ batch[t] \in Nat /\ batch[t] + 1 \in 1 .. Len(Batches[endpoint[t]])
      /\ ~done[t] /\ Scanning(t) /\ pc' = pc
  BY VectorOfLocal DEF LocalVector
<1>2. /\ Emit(S) /\ S \in SUBSET RowsOfEndpoint(endpoint[t])
      /\ \A r \in S : out[r] = 0
  BY VectorOfLocal
<1>3. S # {}
  <2>1. 1 \in 1 .. Batches[endpoint[t]][batch[t] + 1]
    BY <1>1, LocalScanAssumption
  <2> QED BY <2>1 DEF RowsOfBatch
<1>4. ASSUME NEW r \in S, NEW s \in Rows, Before(s, r), s \notin S
      PROVE  out[s] = 1
  <2>1. PICK j \in 1 .. Batches[endpoint[t]][batch[t] + 1] :
          r = <<endpoint[t], batch[t] + 1, j>>
    BY DEF RowsOfBatch
  <2>2. s[1] = endpoint[t]
    BY <1>4, <2>1 DEF Before
  <2>3a. PICK b \in 1 .. Len(Batches[endpoint[t]]) : \E i \in 1 .. Batches[endpoint[t]][b] :
           s = <<endpoint[t], b, i>> /\ (Consumed(t, b, i) => out[s] = 1)
    BY <1>1, <2>2, EarlierRow
  <2>3. PICK i \in 1 .. Batches[endpoint[t]][b] :
          s = <<endpoint[t], b, i>> /\ (Consumed(t, b, i) => out[s] = 1)
    BY <2>3a
  <2>4. b \in Nat
    BY <1>1, BatchesType
  <2>5. b # batch[t] + 1
    BY <1>4, <2>3 DEF RowsOfBatch
  <2>6. b <= batch[t]
    BY <1>1, <1>4, <2>1, <2>3, <2>4, <2>5 DEF Before
  <2>7. Consumed(t, b, i)
    BY <1>1, <2>4, <2>6 DEF Consumed
  <2> QED BY <2>3, <2>7
<1> HIDE DEF S
<1>5. HandsOut(t, S)
  BY <1>1, <1>2, <1>3, <1>4 DEF HandsOut
<1> QED BY <1>5 DEF S

\* Every step either hands out nothing or hands out what HandsOut says; a thread that
\* has ended stays where it is.
LEMMA StepHandsOut ==
  ASSUME ScanInv, [Next]_vars
  PROVE  \/ /\ UNCHANGED out
            /\ \A t \in Threads : pc[t] \in Ended => pc'[t] = pc[t]
         \/ \E t \in Threads, S \in SUBSET Rows : HandsOut(t, S)
<1> DEFINE Quiet == /\ UNCHANGED out
                    /\ \A t \in Threads : pc[t] \in Ended => pc'[t] = pc[t]
<1>0. TypeOK'
  BY NextTypeOK
<1> USE DEF Goto, Ended, GetNextEndpoint
<1>1. ASSUME NEW t \in Threads, InitLocal(t) PROVE Quiet
  BY <1>1 DEF InitLocal, ScanInv, TypeOK
<1>2. ASSUME NEW t \in Threads, ProcessEndpoint(t) PROVE Quiet
  BY <1>2 DEF ProcessEndpoint, ScanInv, TypeOK
<1>3. ASSUME NEW t \in Threads, DoGetReturns(t) PROVE Quiet
  BY <1>3 DEF DoGetReturns, ScanInv, TypeOK
<1>4. ASSUME NEW t \in Threads, OpenFails(t) PROVE Quiet
  BY <1>4 DEF OpenFails, ScanInv, TypeOK
<1>5. ASSUME NEW t \in Threads, EnterRead(t) PROVE Quiet
  BY <1>5 DEF EnterRead, ScanInv, TypeOK
<1>6. ASSUME NEW t \in Threads, ReadEmptyBatch(t) PROVE Quiet
  BY <1>6 DEF ReadEmptyBatch, TakeBatch, ScanInv, TypeOK
<1>7. ASSUME NEW t \in Threads, ReadRows(t) PROVE Quiet
  BY <1>7 DEF ReadRows, TakeBatch, ScanInv, TypeOK
<1>8. ASSUME NEW t \in Threads, ReadEnd(t) PROVE Quiet
  BY <1>8 DEF ReadEnd, NextEndpoint, ScanInv, TypeOK
<1>9. ASSUME NEW t \in Threads, ReadFails(t) PROVE Quiet
  BY <1>9 DEF ReadFails, ScanInv, TypeOK
<1>10. ASSUME NEW t \in Threads, TakeFlightInterrupted(t) PROVE Quiet
  BY <1>10 DEF TakeFlightInterrupted, ScanInv, TypeOK
<1>11. ASSUME NEW t \in Threads, StreamNext(t) PROVE Quiet
  BY <1>11 DEF StreamNext, ScanInv, TypeOK
<1>12. ASSUME NEW t \in Threads, LocalEnd(t) PROVE Quiet
  BY <1>12 DEF LocalEnd, NextEndpoint, ScanInv, TypeOK
<1>13. ASSUME NEW t \in Threads, LocalFails(t) PROVE Quiet
  BY <1>13 DEF LocalFails, ScanInv, TypeOK
<1>14. ASSUME NEW t \in Threads, MonitorFires(t) PROVE Quiet
  BY <1>14 DEF MonitorFires
<1>15. ASSUME NEW t \in Threads, Drop(t) PROVE Quiet
  BY <1>15 DEF Drop, ScanInv, TypeOK
<1>16. ASSUME Interrupt PROVE Quiet
  BY <1>16 DEF Interrupt
<1>17. ASSUME UNCHANGED vars PROVE Quiet
  BY <1>17 DEF vars
<1>18. ASSUME NEW t \in Threads, HandsOut(t, NextSlice(t)) \/ HandsOut(t, RowsOfBatch(endpoint[t], batch[t] + 1))
       PROVE  \E S \in SUBSET Rows : HandsOut(t, S)
  <2>1. \A e \in Endpoints : RowsOfEndpoint(e) \in SUBSET Rows
    BY DEF Rows
  <2> QED BY <1>18, <2>1 DEF HandsOut
<1>19. ASSUME NEW t \in Threads, StreamVector(t) \/ LocalVector(t)
       PROVE  \E S \in SUBSET Rows : HandsOut(t, S)
  BY <1>0, <1>18, <1>19, SliceHandsOut, LocalHandsOut
<1> HIDE DEF Quiet
<1>20. Quiet \/ \E t \in Threads, S \in SUBSET Rows : HandsOut(t, S)
  BY <1>1, <1>2, <1>3, <1>4, <1>5, <1>6, <1>7, <1>8, <1>9, <1>10, <1>11, <1>12, <1>13, <1>14,
     <1>15, <1>16, <1>17, <1>19
     DEF Next, ReadAnswered, ReadCancelled, TakeFlight, QueryOver
<1> QED BY <1>20 DEF Quiet

-----------------------------------------------------------------------------
(* Rows in stream order.                                                   *)

\* Within an endpoint, rows leave the scan in the order of the stream: no row is handed
\* out while an earlier one is missing.
THEOREM InStreamOrder == Spec => RowsInStreamOrder
<1> DEFINE InOrder == \A r, s \in Rows : out'[s] > out[s] /\ Before(r, s) => out'[r] >= 1
<1>1. ScanInv /\ [Next]_vars => [InOrder]_vars
  <2> SUFFICES ASSUME ScanInv, [Next]_vars PROVE InOrder
    OBVIOUS
  <2> SUFFICES ASSUME NEW r \in Rows, NEW s \in Rows, out'[s] > out[s], Before(r, s)
               PROVE  out'[r] >= 1
    OBVIOUS
  <2>1. out \in [Rows -> Nat]
    BY DEF ScanInv, TypeOK
  <2>2. out' # out
    BY <2>1
  <2>3. PICK t \in Threads, S \in SUBSET Rows : HandsOut(t, S)
    BY <2>2, StepHandsOut
  <2>4. \A q \in Rows : out'[q] = IF q \in S THEN out[q] + 1 ELSE out[q]
    BY <2>1, <2>3, EmitCounts DEF HandsOut
  <2>5. s \in S
    BY <2>1, <2>4
  <2>6. r \in S \/ out[r] = 1
    BY <2>3, <2>5 DEF HandsOut
  <2> QED BY <2>1, <2>4, <2>6
<1> QED BY <1>1, ScanInvariant, PTL DEF Spec, RowsInStreamOrder

-----------------------------------------------------------------------------
(* The refinement.                                                         *)

\* The outcome is a success exactly when all threads have finished.
LEMMA OutcomeIsSuccess == Outcome = "success" <=> \A t \in Threads : pc[t] = "finished"
<1>1. ASSUME \A t \in Threads : pc[t] = "finished"
      PROVE  ~\E t \in Threads : pc[t] \in {"failed", "interrupted"}
  BY <1>1
<1> QED BY <1>1 DEF Outcome

\* While no thread has failed and none was given up, and not all have finished, the query runs.
LEMMA OutcomeIsRunning ==
  Outcome = "running" <=>
    /\ \A t \in Threads : pc[t] \notin {"failed", "interrupted", "dropped"}
    /\ \E t \in Threads : pc[t] # "finished"
BY ThreadsAssumption DEF Outcome

LEMMA OutcomeType == Outcome \in {"running", "success", "stopped", "error"}
BY DEF Outcome

LEMMA InitDelivery == Init => Delivery!Init
<1> SUFFICES ASSUME Init PROVE Delivery!Init
  OBVIOUS
<1>1. Outcome = "running"
  BY OutcomeIsRunning, ThreadsAssumption DEF Init
<1> QED BY <1>1 DEF Init, Delivery!Init

\* A step that hands out rows delivers them.
LEMMA HandsOutDelivers ==
  ASSUME ScanInv, NEW t \in Threads, NEW S \in SUBSET Rows, HandsOut(t, S)
  PROVE  Delivery!Deliver
<1>1. out \in [Rows -> Nat]
  BY DEF ScanInv, TypeOK
<1>2. /\ out' \in [Rows -> Nat]
      /\ \A r \in Rows : out'[r] = IF r \in S THEN out[r] + 1 ELSE out[r]
  BY <1>1, EmitCounts DEF HandsOut
<1>3. {r \in Rows : out'[r] # out[r]} = S
  BY <1>1, <1>2
<1>4. Outcome # "success"
  BY OutcomeIsSuccess DEF HandsOut
<1>5. UNCHANGED Outcome
  BY DEF HandsOut, Outcome
<1>6. \A r \in S : r[1] = endpoint[t] /\ out[r] = 0 /\ out'[r] = 1
  <2>1. \A r \in S : r[1] = endpoint[t]
    BY RowsOfEndpointShape DEF HandsOut
  <2> QED BY <1>2, <2>1 DEF HandsOut
<1>7. \A r \in S, s \in Rows : Before(s, r) => out'[s] = 1
  BY <1>2, <1>6 DEF HandsOut
<1>8. endpoint[t] \in {r[1] : r \in Rows}
  BY <1>6 DEF HandsOut
<1> QED BY <1>2, <1>3, <1>4, <1>5, <1>6, <1>7, <1>8
        DEF Delivery!Deliver, Delivery!Precedes, Before, HandsOut

\* A step that hands out nothing may let the query succeed, fail or stop, or goes unseen.
LEMMA QuietDelivers ==
  ASSUME ScanInv, ScanInv', UNCHANGED out,
         \A t \in Threads : pc[t] \in Ended => pc'[t] = pc[t]
  PROVE  Delivery!Succeed \/ Delivery!GiveUp \/ UNCHANGED <<out, Outcome>>
<1> USE DEF Ended
<1>1. CASE Outcome = "success"
  <2>1. \A t \in Threads : pc[t] = "finished"
    BY <1>1, OutcomeIsSuccess
  <2>2. \A t \in Threads : pc'[t] = "finished"
    BY <2>1
  <2>3. Outcome' = "success"
    BY <2>2 DEF Outcome
  <2> QED BY <1>1, <2>3
<1>2. CASE Outcome # "success" /\ Outcome' = "success"
  <2>1. \A t \in Threads : pc'[t] = "finished"
    BY <1>2 DEF Outcome
  <2>2. \A t \in Threads : pc[t] \notin {"failed", "interrupted", "dropped"}
    BY <2>1
  <2>3. Outcome = "running"
    BY <1>2, <2>2, OutcomeIsRunning, OutcomeIsSuccess
  <2>4. NothingLostOnSuccess'
    BY AllHandedOut, PTL
  <2>5. \A r \in Rows : out[r] >= 1 /\ out[r] <= 1 /\ out[r] \in Nat
    BY <2>1, <2>4 DEF ScanInv, NothingLostOnSuccess, NoRowTwice, TypeOK
  <2>6. \A r \in Rows : out[r] = 1
    BY <2>5
  <2> QED BY <1>2, <2>3, <2>6 DEF Delivery!Succeed
<1>3. CASE Outcome # "success" /\ Outcome' = "running"
  <2>1. \A t \in Threads : pc'[t] \notin {"failed", "interrupted", "dropped"}
    BY <1>3, ThreadsAssumption DEF Outcome
  <2>2. \A t \in Threads : pc[t] \notin {"failed", "interrupted", "dropped"}
    BY <2>1
  <2>3. Outcome = "running"
    BY <1>3, <2>2, OutcomeIsRunning, OutcomeIsSuccess
  <2> QED BY <1>3, <2>3
<1>4. CASE Outcome # "success" /\ Outcome' \in {"stopped", "error"}
  BY <1>4 DEF Delivery!GiveUp
<1>5. Outcome' \in {"running", "success", "stopped", "error"}
  BY DEF Outcome
<1> QED BY <1>1, <1>2, <1>3, <1>4, <1>5

\* The scan, with its threads, chunks and cursor, implements the delivery of a flight:
\* nothing twice, nothing out of order, success only when complete.
THEOREM ImplementsDelivery == Spec => DeliverySpec
<1>1. Init => Delivery!Init
  BY InitDelivery
<1>2. ScanInv /\ [Next]_vars => [Delivery!Next]_<<out, Outcome>>
  <2> SUFFICES ASSUME ScanInv, [Next]_vars PROVE [Delivery!Next]_<<out, Outcome>>
    OBVIOUS
  <2>1. ScanInv'
    BY NextScanInv
  <2> QED BY <2>1, StepHandsOut, HandsOutDelivers, QuietDelivers DEF Delivery!Next
<1> QED BY <1>1, <1>2, ScanInvariant, PTL DEF Spec, DeliverySpec, Delivery!Spec

-----------------------------------------------------------------------------
(* Monitors.                                                               *)

\* A thread that has opened a stream and is not done with it is watched by a monitor of
\* that stream; one that is blocked has not reported the end.
MonitorInv(t) ==
  /\ pc[t] \in {"fetch", "reading", "ready"} /\ Kind[endpoint[t]] = "flight" /\ ~done[t] =>
       monitor[t].stream = endpoint[t]
  /\ pc[t] = "doget" \/ pc[t] = "fetch" \/ pc[t] = "reading" => ~done[t]

LEMMA MonitorStep ==
  ASSUME ScanInv, [Next]_vars, NEW s \in Threads, MonitorInv(s)
  PROVE  MonitorInv(s)'
<1>0. /\ TypeOK /\ ThreadInv(s)
  BY DEF ScanInv
<1>a. monitor \in [Threads -> Monitors] /\ pc \in [Threads -> Places] /\ done \in [Threads -> BOOLEAN]
      /\ endpoint \in [Threads -> Endpoints \cup {NoEndpoint}]
  BY <1>0 DEF TypeOK
<1>b. /\ pc[s] = "doget" \/ pc[s] = "fetch" \/ pc[s] = "reading" => ~done[s]
      /\ pc[s] = "init" \/ pc[s] = "open" => ~done[s]
  BY <1>0 DEF ThreadInv, ChunkIsCurrentBatch
<1> USE <1>a, <1>b DEF MonitorInv, Goto
<1>1. ASSUME NEW t \in Threads, InitLocal(t) PROVE MonitorInv(s)'
  BY <1>1 DEF InitLocal, GetNextEndpoint
<1>2. ASSUME NEW t \in Threads, ProcessEndpoint(t) PROVE MonitorInv(s)'
  BY <1>2 DEF ProcessEndpoint
<1>3. ASSUME NEW t \in Threads, DoGetReturns(t) PROVE MonitorInv(s)'
  BY <1>3 DEF DoGetReturns, Monitors
<1>4. ASSUME NEW t \in Threads, OpenFails(t) PROVE MonitorInv(s)'
  BY <1>4 DEF OpenFails
<1>5. ASSUME NEW t \in Threads, EnterRead(t) PROVE MonitorInv(s)'
  BY <1>5 DEF EnterRead
<1>6. ASSUME NEW t \in Threads, ReadEmptyBatch(t) PROVE MonitorInv(s)'
  BY <1>6 DEF ReadEmptyBatch, TakeBatch
<1>7. ASSUME NEW t \in Threads, ReadRows(t) PROVE MonitorInv(s)'
  BY <1>7 DEF ReadRows, TakeBatch
<1>8. ASSUME NEW t \in Threads, ReadEnd(t) PROVE MonitorInv(s)'
  BY <1>8 DEF ReadEnd, NextEndpoint, GetNextEndpoint
<1>9. ASSUME NEW t \in Threads, ReadFails(t) PROVE MonitorInv(s)'
  BY <1>9 DEF ReadFails
<1>10. ASSUME NEW t \in Threads, TakeFlightInterrupted(t) PROVE MonitorInv(s)'
  BY <1>10 DEF TakeFlightInterrupted
<1>11. ASSUME NEW t \in Threads, StreamNext(t) PROVE MonitorInv(s)'
  BY <1>11 DEF StreamNext
<1>12. ASSUME NEW t \in Threads, LocalEnd(t) PROVE MonitorInv(s)'
  BY <1>12 DEF LocalEnd, NextEndpoint, GetNextEndpoint
<1>13. ASSUME NEW t \in Threads, LocalFails(t) PROVE MonitorInv(s)'
  BY <1>13 DEF LocalFails
<1>14. ASSUME NEW t \in Threads, MonitorFires(t) PROVE MonitorInv(s)'
  BY <1>14 DEF MonitorFires, Monitors
<1>15. ASSUME NEW t \in Threads, Drop(t) PROVE MonitorInv(s)'
  BY <1>15 DEF Drop
<1>16. ASSUME NEW t \in Threads, StreamVector(t) \/ LocalVector(t) PROVE MonitorInv(s)'
  BY <1>16 DEF StreamVector, LocalVector
<1>17. ASSUME Interrupt PROVE MonitorInv(s)'
  BY <1>17 DEF Interrupt
<1>18. ASSUME UNCHANGED vars PROVE MonitorInv(s)'
  BY <1>18 DEF vars
<1> QED
  BY <1>1, <1>2, <1>3, <1>4, <1>5, <1>6, <1>7, <1>8, <1>9, <1>10, <1>11, <1>12, <1>13, <1>14,
     <1>15, <1>16, <1>17, <1>18
     DEF Next, ReadAnswered, ReadCancelled, TakeFlight, QueryOver

\* A thread blocked in a Flight read is watched by a monitor bound to that very stream,
\* not to the stream of an endpoint it read before (InterruptMonitor, ProcessEndpoint).
THEOREM ReadsAreCancellable == Spec => []BlockedReadIsCancellable
<1> DEFINE I == \A t \in Threads : MonitorInv(t)
<1>1. Init => I
  BY DEF Init, MonitorInv
<1>2. ScanInv /\ [Next]_vars /\ I => I'
  BY MonitorStep
<1>3. I => BlockedReadIsCancellable
  BY DEF MonitorInv, BlockedReadIsCancellable
<1> HIDE DEF I
<1> QED BY <1>1, <1>2, <1>3, ScanInvariant, PTL DEF Spec

=============================================================================
