----------------------- MODULE AirportExchange_proofs -----------------------
(***************************************************************************)
(* For any chunks, threads and room in the stream, and whatever the server *)
(* and failures do: no chunk is sent twice or lost, a statement that       *)
(* succeeds returns the server's answer to each chunk in the order the     *)
(* server applied them, and the results of a scalar function are those for *)
(* their rows.                                                             *)
(***************************************************************************)
EXTENDS ExchangeParts, FiniteSetTheorems, TLAPS

-----------------------------------------------------------------------------
(* Sequences.                                                              *)

LEMMA AppendFacts ==
  ASSUME NEW S, NEW s \in Seq(S), NEW e \in S
  PROVE  /\ Append(s, e) \in Seq(S)
         /\ Range(Append(s, e)) = Range(s) \cup {e}
         /\ Distinct(s) /\ e \notin Range(s) => Distinct(Append(s, e))
<1>1. /\ Len(Append(s, e)) = Len(s) + 1 /\ Len(s) \in Nat
      /\ \A i \in 1 .. Len(s) : Append(s, e)[i] = s[i]
      /\ Append(s, e)[Len(s) + 1] = e
  OBVIOUS
<1>2. Range(Append(s, e)) \subseteq Range(s) \cup {e}
  BY <1>1 DEF Range
<1>3. Range(s) \cup {e} \subseteq Range(Append(s, e))
  <2>1. e \in Range(Append(s, e))
    <3>1. Len(s) + 1 \in 1 .. Len(Append(s, e))
      BY <1>1
    <3> QED
      BY <1>1, <3>1 DEF Range
  <2>2. ASSUME NEW i \in 1 .. Len(s) PROVE s[i] \in Range(Append(s, e))
    <3>1. i \in 1 .. Len(Append(s, e)) /\ Append(s, e)[i] = s[i]
      BY <1>1
    <3> QED
      BY <3>1 DEF Range
  <2> QED
    BY SMTT(30), <2>1, <2>2 DEF Range
<1>4. Distinct(s) /\ e \notin Range(s) => Distinct(Append(s, e))
  BY <1>1 DEF Distinct, Range
<1> QED
  BY <1>2, <1>3, <1>4

LEMMA HeadTailFacts ==
  ASSUME NEW S, NEW s \in Seq(S), s # <<>>
  PROVE  /\ Head(s) \in S /\ Tail(s) \in Seq(S)
         /\ Range(s) = {Head(s)} \cup Range(Tail(s))
         /\ Distinct(s) => Distinct(Tail(s)) /\ Head(s) \notin Range(Tail(s))
<1>1. /\ Len(s) \in Nat \ {0} /\ Head(s) = s[1]
      /\ Len(Tail(s)) = Len(s) - 1
      /\ \A i \in 1 .. Len(Tail(s)) : Tail(s)[i] = s[i + 1]
      /\ Head(s) \in S /\ Tail(s) \in Seq(S)
  OBVIOUS
<1>2. Range(s) \subseteq {Head(s)} \cup Range(Tail(s))
  <2> SUFFICES ASSUME NEW i \in 1 .. Len(s), i # 1 PROVE s[i] \in Range(Tail(s))
    BY <1>1 DEF Range
  <2>1. i - 1 \in 1 .. Len(Tail(s)) /\ Tail(s)[i - 1] = s[i]
    BY <1>1
  <2>2. i - 1 \in DOMAIN Tail(s)
    BY <1>1, <2>1
  <2> QED
    BY <2>1, <2>2 DEF Range
<1>3. {Head(s)} \cup Range(Tail(s)) \subseteq Range(s)
  <2>1. ASSUME NEW i \in 1 .. Len(Tail(s)) PROVE Tail(s)[i] \in Range(s)
    <3>1. i + 1 \in 1 .. Len(s) /\ Tail(s)[i] = s[i + 1]
      BY <1>1
    <3> QED
      BY <3>1 DEF Range
  <2>2. Head(s) \in Range(s)
    <3>1. 1 \in 1 .. Len(s)
      BY <1>1
    <3> QED
      BY <1>1, <3>1 DEF Range
  <2> QED
    BY <2>1, <2>2 DEF Range
<1>4. ASSUME Distinct(s) PROVE Distinct(Tail(s)) /\ Head(s) \notin Range(Tail(s))
  <2>1. ASSUME NEW i \in 1 .. Len(Tail(s))
        PROVE  i + 1 \in 1 .. Len(s) /\ Tail(s)[i] = s[i + 1] /\ i + 1 # 1
    BY <1>1
  <2>2. Distinct(Tail(s))
    <3> SUFFICES ASSUME NEW i \in 1 .. Len(Tail(s)), NEW j \in 1 .. Len(Tail(s)), i # j
                 PROVE  Tail(s)[i] # Tail(s)[j]
      BY DEF Distinct
    <3>1. i + 1 # j + 1
      OBVIOUS
    <3> QED
      BY <1>4, <2>1, <3>1 DEF Distinct
  <2>3. Head(s) \notin Range(Tail(s))
    <3> SUFFICES ASSUME NEW i \in 1 .. Len(Tail(s)) PROVE s[1] # Tail(s)[i]
      BY <1>1 DEF Range
    <3>1. 1 \in 1 .. Len(s)
      BY <1>1
    <3> QED
      BY <1>4, <2>1, <3>1 DEF Distinct
  <2> QED
    BY <2>2, <2>3
<1> QED
  BY <1>1, <1>2, <1>3, <1>4

LEMMA EmptyFacts == Range(<<>>) = {} /\ Distinct(<<>>) /\ \A S : <<>> \in Seq(S)
BY DEF Range, Distinct

-----------------------------------------------------------------------------
(* The first state, and steps that move no chunk.                          *)

LEMMA InitStreamInv == Init => StreamInv
<1> SUFFICES ASSUME Init PROVE StreamInv
  OBVIOUS
<1>1. TypeOK
  BY EmptyFacts DEF Init, TypeOK
<1>2. ChunkOnce
  BY EmptyFacts DEF Init, ChunkOnce
<1>3. query \in {"creating", "opening"}
  BY DEF Init
<1> QED
  BY <1>1, <1>2, <1>3 DEF Init, StreamInv

\* The chunks, wherever they are.
Chunkwise == <<creates, returning, answering, todo, chunk, pc, collection, count, sent, answers, closed,
               applied>>

\* A statement that fails leaves everything as it is.
LEMMA FailKeeps ==
  ASSUME StreamInv, query' = "failed", UNCHANGED Chunkwise,
         table' \in BOOLEAN, served' \in BOOLEAN, alive' \in BOOLEAN, interrupted' \in BOOLEAN,
         monitor' \in BOOLEAN
  PROVE  StreamInv'
<1>1. TypeOK'
  BY DEF StreamInv, TypeOK, Chunkwise
<1>2. ChunkOnce'
  BY DEF StreamInv, ChunkOnce, Chunkwise
<1> QED
  BY <1>1, <1>2 DEF StreamInv, Chunkwise

\* What the outside does while the statement stays where it is.
LEMMA OutsideKeeps ==
  ASSUME StreamInv, UNCHANGED <<query, Chunkwise>>,
         table' \in BOOLEAN, served' \in BOOLEAN, alive' \in BOOLEAN, interrupted' \in BOOLEAN,
         monitor' \in BOOLEAN
  PROVE  StreamInv'
<1>1. TypeOK'
  BY DEF StreamInv, TypeOK, Chunkwise
<1>2. ChunkOnce'
  BY DEF StreamInv, ChunkOnce, Chunkwise
<1>3. SinkInv => SinkInv'
  BY DEF SinkInv, Chunkwise
<1> QED
  BY <1>1, <1>2, <1>3 DEF StreamInv, Chunkwise

\* Opening moves no chunk either; once the schema is there, the sink begins.
LEMMA OpeningKeeps ==
  ASSUME StreamInv, UNCHANGED Chunkwise,
         query \in {"creating", "opening", "schema"}, query' \in {"opening", "schema", "sinking"},
         table' \in BOOLEAN, monitor' \in BOOLEAN, UNCHANGED <<served, alive, interrupted>>
  PROVE  StreamInv'
<1>1. TypeOK'
  BY DEF StreamInv, TypeOK, Chunkwise
<1>2. ChunkOnce'
  BY DEF StreamInv, ChunkOnce, Chunkwise
<1>3. /\ todo = Chunks /\ sent = <<>> /\ answers = <<>> /\ applied = <<>> /\ collection = <<>>
      /\ chunk = NoChunk /\ pc = "idle" /\ ~closed
  BY DEF StreamInv
<1>4. SinkInv'
  BY <1>3 DEF SinkInv, Chunkwise
<1> QED
  BY <1>1, <1>2, <1>3, <1>4 DEF StreamInv, Chunkwise

-----------------------------------------------------------------------------
(* The sink.                                                               *)

LEMMA TakeChunkKeeps == ASSUME StreamInv, UNCHANGED kind, TakeChunk PROVE StreamInv'
<1>1. PICK c \in todo : todo' = todo \ {c} /\ chunk' = c
  BY DEF TakeChunk
<1>2. /\ query = "sinking" /\ pc = "idle" /\ pc' = "write"
      /\ UNCHANGED <<kind, query, table, collection, count, stream, interrupted, monitor, applied>>
  BY DEF TakeChunk
<1>3. todo \subseteq Chunks /\ c \in Chunks /\ c # NoChunk
  BY NoChunkAssumption DEF StreamInv, TypeOK
<1>4. TypeOK'
  BY <1>1, <1>2, <1>3 DEF StreamInv, TypeOK, stream, kind
<1>5. ChunkOnce' /\ c \notin Range(applied) \cup Range(sent)
  BY <1>1, <1>2 DEF StreamInv, ChunkOnce, stream, kind
<1>6. SinkInv'
  BY <1>1, <1>2, <1>3, <1>5 DEF StreamInv, SinkInv, stream, kind
<1> QED
  BY <1>2, <1>4, <1>5, <1>6 DEF StreamInv, stream, kind

\* When a chunk is written whose rows are to be returned, nothing else is under way.
LEMMA WriteKeeps == ASSUME StreamInv, UNCHANGED kind, Write PROVE StreamInv'
<1>1. /\ query = "sinking" /\ pc = "write" /\ sent' = Append(sent, chunk)
      /\ IF returning THEN pc' = "read" /\ chunk' = chunk ELSE pc' = "idle" /\ chunk' = NoChunk
      /\ UNCHANGED <<kind, query, table, todo, collection, count, answers, closed, served, alive,
                     interrupted, monitor, applied>>
  BY DEF Write, Release
<1>2. chunk \in Chunks \cup {NoChunk} /\ sent \in Seq(Chunks) /\ SinkInv
  BY <1>1 DEF StreamInv, TypeOK
<1>3. /\ chunk \in Chunks /\ chunk # NoChunk /\ chunk \notin todo
      /\ chunk \notin Range(applied) \cup Range(sent)
      /\ returning => sent = <<>> /\ answers = <<>> /\ collection = applied
  BY <1>1, <1>2 DEF SinkInv
<1>4. /\ sent' \in Seq(Chunks) /\ Range(sent') = Range(sent) \cup {chunk}
      /\ Distinct(sent) => Distinct(sent')
  BY <1>1, <1>2, <1>3, AppendFacts
<1>5. TypeOK'
  BY <1>1, <1>4 DEF StreamInv, TypeOK, kind
<1>6. ChunkOnce'
  BY <1>1, <1>3, <1>4 DEF StreamInv, ChunkOnce, kind
<1>7. SinkInv'
  <2>1. CASE returning
    <3>1. sent' = <<chunk>>
      BY <1>1, <1>3, <2>1
    <3> QED
      BY <1>1, <1>3, <2>1, <3>1 DEF SinkInv, kind
  <2>2. CASE ~returning
    BY <1>1, <2>2 DEF SinkInv, kind
  <2> QED
    BY <2>1, <2>2
<1> QED
  BY <1>1, <1>5, <1>6, <1>7 DEF StreamInv, kind

\* The only answer there is is the one to the chunk that is sunk.
LEMMA ReadKeeps == ASSUME StreamInv, UNCHANGED kind, Read PROVE StreamInv'
<1>1. /\ query = "sinking" /\ pc = "read" /\ answers # <<>> /\ answers' = Tail(answers)
      /\ collection' = Append(collection, Head(answers))
      /\ chunk' = NoChunk /\ pc' = "idle"
      /\ UNCHANGED <<kind, query, table, todo, count, sent, closed, served, alive, interrupted,
                     monitor, applied>>
  BY DEF Read, Release
<1>2. /\ returning /\ sent = <<>> /\ answers = <<chunk>> /\ applied = Append(collection, chunk)
      /\ applied \in Seq(Chunks)
  BY <1>1 DEF StreamInv, SinkInv, TypeOK
<1>3. answers' = <<>> /\ collection' = applied
  BY <1>1, <1>2
<1>4. applied \in Seq(Chunks \cup {Final}) /\ answers' \in Seq(Chunks \cup {Final})
  <2>1. answers' \in Seq(Chunks \cup {Final})
    BY <1>3, EmptyFacts
  <2> QED
    BY <1>2, <2>1
<1>5. TypeOK'
  BY <1>1, <1>3, <1>4 DEF StreamInv, TypeOK, kind
<1>6. ChunkOnce'
  BY <1>1 DEF StreamInv, ChunkOnce, kind
<1>7. SinkInv'
  BY <1>1, <1>2, <1>3 DEF SinkInv, kind
<1> QED
  BY <1>1, <1>5, <1>6, <1>7 DEF StreamInv, kind

-----------------------------------------------------------------------------
(* The end of the statement, and the server.                               *)

LEMMA DoneWritingKeeps == ASSUME StreamInv, UNCHANGED kind, DoneWriting PROVE StreamInv'
<1>1. /\ query' = "counting" /\ closed' = TRUE
      /\ UNCHANGED <<kind, table, todo, chunk, pc, collection, count, sent, answers, served,
                     alive, interrupted, monitor, applied>>
  BY DEF DoneWriting
<1>2. TypeOK' /\ ChunkOnce'
  BY <1>1 DEF StreamInv, TypeOK, ChunkOnce, kind
<1> QED
  BY <1>1, <1>2 DEF StreamInv, kind

LEMMA ReadChangedCountKeeps == ASSUME StreamInv, UNCHANGED kind, ReadChangedCount PROVE StreamInv'
<1>1. /\ query' = "finished" /\ monitor' = FALSE
      /\ answers' = (IF answers # <<>> THEN Tail(answers) ELSE answers)
      /\ count' \in {Len(applied), count}
      /\ UNCHANGED <<kind, table, todo, chunk, pc, collection, sent, closed, served, alive,
                     interrupted, applied>>
  BY DEF ReadChangedCount
<1>2. /\ answers \in Seq(Chunks \cup {Final}) /\ applied \in Seq(Chunks) /\ count \in Nat
  BY DEF StreamInv, TypeOK, kind
<1>3. answers' \in Seq(Chunks \cup {Final}) /\ count' \in Nat
  BY <1>1, <1>2, HeadTailFacts
<1>4. TypeOK'
  BY <1>1, <1>3 DEF StreamInv, TypeOK, kind
<1>5. ChunkOnce'
  BY <1>1 DEF StreamInv, ChunkOnce, kind
<1> QED
  BY <1>1, <1>4, <1>5 DEF StreamInv, kind

\* The server moves a chunk from the stream to its table, and its answer to the stream.
LEMMA ServeKeeps == ASSUME StreamInv, UNCHANGED kind, Serve PROVE StreamInv'
<1>1. /\ sent # <<>> /\ sent' = Tail(sent) /\ applied' = Append(applied, Head(sent))
      /\ answers' = (IF answering THEN Append(answers, Head(sent)) ELSE answers)
      /\ UNCHANGED <<kind, query, todo, chunk, pc, collection, count, table, closed, served,
                     alive, interrupted, monitor>>
  BY DEF Serve, client
<1>2. sent \in Seq(Chunks) /\ applied \in Seq(Chunks) /\ answers \in Seq(Chunks \cup {Final})
  BY DEF StreamInv, TypeOK, kind
<1>3. /\ Head(sent) \in Chunks /\ sent' \in Seq(Chunks) /\ Range(sent) = {Head(sent)} \cup Range(sent')
      /\ Distinct(sent) => Distinct(sent') /\ Head(sent) \notin Range(sent')
  BY <1>1, <1>2, HeadTailFacts
<1>4. /\ applied' \in Seq(Chunks) /\ Range(applied') = Range(applied) \cup {Head(sent)}
      /\ Distinct(applied) /\ Head(sent) \notin Range(applied) => Distinct(applied')
  BY <1>1, <1>2, <1>3, AppendFacts
<1>5. answers' \in Seq(Chunks \cup {Final})
  BY <1>1, <1>2, <1>3, AppendFacts
<1>6. TypeOK'
  BY <1>1, <1>3, <1>4, <1>5 DEF StreamInv, TypeOK, kind
<1>7. ChunkOnce'
  BY <1>1, <1>3, <1>4 DEF StreamInv, ChunkOnce, kind
<1>8. ASSUME query = "sinking" PROVE SinkInv'
  <2>1. SinkInv
    BY <1>8 DEF StreamInv
  <2>2. Range(applied') \cup Range(sent') = Range(applied) \cup Range(sent)
    BY <1>3, <1>4
  <2>3. CASE returning
    <3>1. pc = "read" /\ sent = <<chunk>> /\ answers = <<>> /\ collection = applied /\ answering
      BY <1>1, <2>1, <2>3 DEF StreamInv, SinkInv
    <3>2. sent' = <<>> /\ answers' = <<chunk>> /\ applied' = Append(collection, chunk)
      BY <1>1, <3>1
    <3> QED
      BY <1>1, <2>1, <2>3, <3>1, <3>2 DEF SinkInv, kind
  <2>4. CASE ~returning
    BY <1>1, <2>1, <2>2, <2>4 DEF SinkInv, kind
  <2> QED
    BY <2>3, <2>4
<1> QED
  BY <1>1, <1>6, <1>7, <1>8 DEF StreamInv, kind

\* The server has been told that nothing more is written.
LEMMA EndServiceKeeps == ASSUME StreamInv, UNCHANGED kind, EndService PROVE StreamInv'
<1>1. /\ closed /\ served' = TRUE
      /\ answers' = answers \/ answers' = Append(answers, Final)
      /\ UNCHANGED <<kind, query, todo, chunk, pc, collection, count, table, sent, closed, alive,
                     interrupted, monitor, applied>>
  BY DEF EndService, client
<1>2. answers' \in Seq(Chunks \cup {Final})
  <2>1. answers \in Seq(Chunks \cup {Final})
    BY DEF StreamInv, TypeOK, kind
  <2> QED
    BY <1>1, <2>1, AppendFacts
<1>3. TypeOK' /\ ChunkOnce'
  BY <1>1, <1>2 DEF StreamInv, TypeOK, ChunkOnce, kind
<1>4. query \notin {"creating", "opening", "schema", "sinking"}
  BY <1>1 DEF StreamInv, kind
<1> QED
  BY <1>1, <1>3, <1>4 DEF StreamInv, kind

-----------------------------------------------------------------------------

\* Every step keeps the invariant.
LEMMA NextStreamInv == StreamInv /\ [Next]_vars => StreamInv'
<1> SUFFICES ASSUME StreamInv, [Next]_vars PROVE StreamInv'
  OBVIOUS
<1>k. UNCHANGED kind
  BY DEF Next, vars
<1>0. {table, served, alive, interrupted, monitor, TRUE, FALSE} \subseteq BOOLEAN
  BY DEF StreamInv, TypeOK
<1>1. CASE UNCHANGED vars
  BY <1>k, <1>0, <1>1, OutsideKeeps DEF vars, client, stream, Chunkwise, kind
<1>2. CASE CreateTable \/ Open \/ GetSchema
  BY <1>k, <1>0, <1>2, OpeningKeeps DEF CreateTable, Open, GetSchema, stream, Chunkwise, kind
<1>3. CASE CreateFails \/ OpenFails \/ DoneWritingFails \/ CountFails
  BY <1>k, <1>0, <1>3, FailKeeps DEF CreateFails, OpenFails, DoneWritingFails, CountFails, Fail,
                                     Chunkwise, kind
<1>4. ASSUME RefuseChunk \/ SinkFails PROVE StreamInv'
  BY <1>k, <1>0, <1>4, FailKeeps DEF RefuseChunk, SinkFails, Fail, Chunkwise, kind
<1>5. CASE Break \/ DeadlineExpires \/ Interrupt \/ MonitorFires
  BY <1>k, <1>0, <1>5, OutsideKeeps
     DEF Break, DeadlineExpires, Interrupt, MonitorFires, client, stream, Chunkwise, kind
<1> QED
  BY <1>k, <1>1, <1>2, <1>3, <1>4, <1>5, TakeChunkKeeps, WriteKeeps, ReadKeeps,
     DoneWritingKeeps, ReadChangedCountKeeps, ServeKeeps, EndServiceKeeps
     DEF Next, Client, Environment

LEMMA AlwaysStreamInv == Spec => []StreamInv
<1> QED BY InitStreamInv, NextStreamInv, PTL DEF Spec

-----------------------------------------------------------------------------
(* No chunk is lost, and the count comes last.                             *)

Completion == ChunksKept /\ CountLast

\* Steps that move no chunk.
LEMMA StillComplete ==
  ASSUME Completion, UNCHANGED Chunkwise, served' = served,
         \/ query' = query /\ table' = table
         \/ query' = "failed" /\ query # "finished"
  PROVE  Completion'
<1>1. ChunksKept'
  BY DEF Completion, ChunksKept, Chunkwise
<1>2. CountLast'
  BY DEF Completion, CountLast, Chunkwise, Sunk, AnswersWhenAsked
<1> QED
  BY <1>1, <1>2 DEF Completion

\* Before the sink, all chunks are still to be taken.
LEMMA OpeningComplete ==
  ASSUME StreamInv, Completion, UNCHANGED Chunkwise, served' = served,
         query \in {"creating", "opening", "schema"}, query' \in {"opening", "schema", "sinking"},
         query = "creating" => table', query # "creating" => table' = table
  PROVE  Completion'
<1>1. todo' = Chunks /\ ~closed /\ answers = <<>> /\ query # "finished"
  BY DEF StreamInv, Chunkwise
<1>2. ChunksKept'
  BY <1>1 DEF ChunksKept
<1>3. CountLast'
  BY <1>1 DEF Completion, CountLast, Chunkwise
<1> QED
  BY <1>2, <1>3 DEF Completion

\* In the sink nothing is closed, and the count of the server has not come.
LEMMA SinkCounts ==
  ASSUME StreamInv, Completion, query = "sinking"
  PROVE  table /\ ~closed /\ ~served /\ count = 0 /\ Final \notin Range(answers)
BY DEF StreamInv, Completion, CountLast

LEMMA TakeChunkComplete == ASSUME StreamInv, Completion, UNCHANGED kind, TakeChunk PROVE Completion'
<1>1. PICK c \in todo : todo' = todo \ {c} /\ chunk' = c
  BY DEF TakeChunk
<1>2. /\ query = "sinking" /\ pc = "idle" /\ pc' = "write"
      /\ UNCHANGED <<kind, query, table, collection, count, stream, applied>>
  BY DEF TakeChunk
<1>3. ChunksKept'
  BY <1>1, <1>2 DEF Completion, ChunksKept, stream, kind
<1>4. CountLast'
  BY <1>2, SinkCounts DEF Completion, CountLast, stream, kind
<1> QED
  BY <1>3, <1>4 DEF Completion

\* A chunk that is no longer in hand is in the stream.
LEMMA WriteComplete == ASSUME StreamInv, Completion, UNCHANGED kind, Write PROVE Completion'
<1>1. /\ query = "sinking" /\ pc = "write" /\ sent' = Append(sent, chunk)
      /\ UNCHANGED <<kind, query, table, todo, collection, count, answers, closed, served, applied>>
  BY DEF Write
<1>2. chunk \in Chunks /\ sent \in Seq(Chunks)
  BY <1>1 DEF StreamInv, SinkInv, TypeOK
<1>3. Range(sent') = Range(sent) \cup {chunk}
  BY <1>1, <1>2, AppendFacts
<1>4. ChunksKept'
  BY <1>1, <1>3 DEF Completion, ChunksKept, kind
<1>5. CountLast'
  BY <1>1, SinkCounts DEF Completion, CountLast, kind
<1> QED
  BY <1>4, <1>5 DEF Completion

LEMMA ReadComplete == ASSUME StreamInv, Completion, UNCHANGED kind, Read PROVE Completion'
<1>1. /\ query = "sinking" /\ pc = "read" /\ answers # <<>> /\ answers' = Tail(answers)
      /\ UNCHANGED <<kind, query, table, todo, count, sent, closed, served, applied>>
  BY DEF Read
<1>2. answers \in Seq(Chunks \cup {Final})
  BY DEF StreamInv, TypeOK
<1>3. Range(answers') \subseteq Range(answers)
  BY <1>1, <1>2, HeadTailFacts
<1>4. ChunksKept'
  BY <1>1 DEF Completion, ChunksKept, kind
<1>5. CountLast'
  BY <1>1, <1>3, SinkCounts DEF Completion, CountLast, kind
<1> QED
  BY <1>4, <1>5 DEF Completion

LEMMA DoneWritingComplete == ASSUME StreamInv, Completion, UNCHANGED kind, DoneWriting PROVE Completion'
<1>1. /\ query = "sinking" /\ Sunk /\ query' = "counting" /\ closed' = TRUE
      /\ UNCHANGED <<kind, table, todo, chunk, pc, collection, count, sent, answers, served, applied>>
  BY DEF DoneWriting
<1>2. ChunksKept'
  BY <1>1 DEF Completion, ChunksKept, kind
<1>3. returning => sent = <<>> /\ Range(answers) = {} /\ collection = applied
  BY <1>1, EmptyFacts DEF Sunk, StreamInv, SinkInv
<1>4. CountLast'
  BY <1>1, <1>3, SinkCounts DEF Completion, CountLast, kind, Sunk
<1> QED
  BY <1>2, <1>4 DEF Completion

\* A server that answers only when asked has nothing left to say but the count.
LEMMA ReadChangedCountComplete ==
  ASSUME StreamInv, Completion, UNCHANGED kind, ReadChangedCount PROVE Completion'
<1>1. /\ query = "counting" /\ query' = "finished" /\ (answers # <<>> \/ served)
      /\ answers' = (IF answers # <<>> THEN Tail(answers) ELSE answers)
      /\ count' = Len(applied) \/ count' = count
      /\ UNCHANGED <<kind, table, todo, chunk, pc, collection, sent, closed, served, applied>>
  BY DEF ReadChangedCount
<1>2. answers \in Seq(Chunks \cup {Final})
  BY DEF StreamInv, TypeOK
<1>3. answers # <<>> => Head(answers) \in Range(answers) /\ Range(answers') \subseteq Range(answers)
  BY <1>1, <1>2, HeadTailFacts
<1>4. ChunksKept'
  BY <1>1 DEF Completion, ChunksKept, kind
<1>5. AnswersWhenAsked => served
  BY <1>1, <1>3 DEF Completion, CountLast, AnswersWhenAsked
<1>6. count = 0
  BY <1>1 DEF Completion, CountLast
<1>7. CountLast'
  BY <1>1, <1>3, <1>5, <1>6 DEF Completion, CountLast, kind, Sunk, AnswersWhenAsked
<1> QED
  BY <1>4, <1>7 DEF Completion

LEMMA ServeComplete == ASSUME StreamInv, Completion, UNCHANGED kind, Serve PROVE Completion'
<1>1. /\ sent # <<>> /\ sent' = Tail(sent) /\ applied' = Append(applied, Head(sent))
      /\ answers' = (IF answering THEN Append(answers, Head(sent)) ELSE answers)
      /\ UNCHANGED <<kind, query, table, todo, chunk, pc, collection, count, closed, served>>
  BY DEF Serve, client
<1>2. sent \in Seq(Chunks) /\ applied \in Seq(Chunks) /\ answers \in Seq(Chunks \cup {Final})
  BY DEF StreamInv, TypeOK
<1>3. Head(sent) \in Chunks /\ Range(sent) = {Head(sent)} \cup Range(sent')
  BY <1>1, <1>2, HeadTailFacts
<1>4. Range(applied') = Range(applied) \cup {Head(sent)}
  BY <1>1, <1>2, <1>3, AppendFacts
<1>5. answering => Range(answers') = Range(answers) \cup {Head(sent)}
  <2>1. Head(sent) \in Chunks \cup {Final}
    BY <1>3
  <2>2. Range(Append(answers, Head(sent))) = Range(answers) \cup {Head(sent)}
    BY <1>2, <2>1, AppendFacts
  <2> QED
    BY <1>1, <2>2
<1>6. ChunksKept'
  BY <1>1, <1>3, <1>4 DEF Completion, ChunksKept, kind
<1>7. ~served /\ Head(sent) # Final /\ ~(returning /\ query \in {"counting", "finished"})
  BY <1>1, <1>3, NoChunkAssumption DEF Completion, CountLast
<1>8. ~(query = "finished" /\ AnswersWhenAsked)
  BY <1>7 DEF Completion, CountLast
<1>9. CountLast'
  BY <1>1, <1>5, <1>7, <1>8 DEF Completion, CountLast, kind, Sunk, AnswersWhenAsked
<1> QED
  BY <1>6, <1>9 DEF Completion

LEMMA EndServiceComplete == ASSUME StreamInv, Completion, UNCHANGED kind, EndService PROVE Completion'
<1>1. /\ closed /\ sent = <<>> /\ served' = TRUE
      /\ answers' = answers \/ answers' = Append(answers, Final)
      /\ UNCHANGED <<kind, query, todo, chunk, pc, collection, count, table, sent, closed, applied>>
  BY DEF EndService, client
<1>2. Range(answers') \subseteq Range(answers) \cup {Final}
  <2>1. answers \in Seq(Chunks \cup {Final})
    BY DEF StreamInv, TypeOK
  <2>2. Range(Append(answers, Final)) = Range(answers) \cup {Final}
    BY <2>1, AppendFacts
  <2> QED
    BY <1>1, <2>2
<1>3. ChunksKept'
  BY <1>1 DEF Completion, ChunksKept, kind
<1>4. CountLast'
  BY <1>1, <1>2 DEF Completion, CountLast, kind, Sunk, AnswersWhenAsked
<1> QED
  BY <1>3, <1>4 DEF Completion

LEMMA InitCompletion == Init => Completion
BY EmptyFacts DEF Init, Completion, ChunksKept, CountLast

LEMMA NextCompletion == StreamInv /\ Completion /\ [Next]_vars => Completion'
<1> SUFFICES ASSUME StreamInv, Completion, [Next]_vars PROVE Completion'
  OBVIOUS
<1>k. UNCHANGED kind
  BY DEF Next, vars
<1>1. CASE UNCHANGED vars
  BY <1>1, StillComplete DEF vars, client, stream, Chunkwise, kind
<1>2. CASE CreateTable \/ Open \/ GetSchema
  BY <1>k, <1>2, OpeningComplete DEF CreateTable, Open, GetSchema, stream, Chunkwise, kind
<1>3. CASE CreateFails \/ OpenFails \/ DoneWritingFails \/ CountFails
  BY <1>k, <1>3, StillComplete
     DEF CreateFails, OpenFails, DoneWritingFails, CountFails, Fail, Chunkwise, kind
<1>4. ASSUME RefuseChunk \/ SinkFails PROVE Completion'
  BY <1>k, <1>4, StillComplete DEF RefuseChunk, SinkFails, Fail, Chunkwise, kind
<1>5. CASE Break \/ DeadlineExpires \/ Interrupt \/ MonitorFires
  BY <1>k, <1>5, StillComplete
     DEF Break, DeadlineExpires, Interrupt, MonitorFires, client, stream, Chunkwise, kind
<1> QED
  BY <1>k, <1>1, <1>2, <1>3, <1>4, <1>5, TakeChunkComplete, WriteComplete, ReadComplete,
     DoneWritingComplete, ReadChangedCountComplete, ServeComplete, EndServiceComplete
     DEF Next, Client, Environment

-----------------------------------------------------------------------------
(* The theorems.                                                           *)

\* The inductive invariant of an exchange.
THEOREM ExchangeInvariant == Spec => []ExchangeInv
<1>1. Spec => []Completion
  BY InitCompletion, NextCompletion, AlwaysStreamInv, PTL DEF Spec
<1>2. StreamInv /\ Completion => ExchangeInv
  BY DEF Completion, ExchangeInv
<1> QED BY <1>1, <1>2, AlwaysStreamInv, PTL

\* No chunk of the statement is sent twice.
THEOREM SentAtMostOnce == Spec => []ChunkOnce
<1>1. ExchangeInv => ChunkOnce
  BY DEF ExchangeInv, StreamInv
<1> QED BY <1>1, ExchangeInvariant, PTL

\* A sequence in which nothing comes twice is as long as it has members.
LEMMA DistinctCardinality ==
  ASSUME NEW S, NEW s \in Seq(S), Distinct(s) PROVE Cardinality(Range(s)) = Len(s)
<1>1. Len(s) \in Nat /\ s \in [1 .. Len(s) -> Range(s)]
  BY DEF Range
<1>2. s \in Bijection(1 .. Len(s), Range(s))
  <2>1. \A i, j \in 1 .. Len(s) : s[i] = s[j] => i = j
    BY DEF Distinct
  <2>2. \A x \in Range(s) : \E i \in 1 .. Len(s) : s[i] = x
    BY DEF Range
  <2> QED
    BY <1>1, <2>1, <2>2 DEF Bijection, Injection, Surjection, IsInjective
<1>3. IsFiniteSet(1 .. Len(s)) /\ Cardinality(1 .. Len(s)) = Len(s)
  BY SMTT(30), <1>1, FS_Interval
<1> QED
  BY <1>2, <1>3, FS_Bijection DEF ExistsBijection

\* A statement that finishes has had all its chunks applied, returns the server's answers to
\* them in the order in which they were applied if it returns rows, and reports their number
\* or zero, if the server answers only when it is asked to (Sink, Finalize and
\* ReadChangedCount).
THEOREM CompleteWhenFinished == Spec => []SuccessIsComplete
<1>1. ASSUME ExchangeInv, query = "finished", AnswersWhenAsked
      PROVE  /\ table /\ closed /\ sent = <<>>
             /\ Range(applied) = Chunks
             /\ returning => collection = applied
             /\ count \in {0, Cardinality(Chunks)}
  <2>1. /\ table /\ closed /\ Sunk /\ sent = <<>> /\ count \in {0, Len(applied)}
        /\ returning => collection = applied
    BY <1>1 DEF ExchangeInv, CountLast
  <2>2. applied \in Seq(Chunks) /\ Distinct(applied)
    BY <1>1 DEF ExchangeInv, StreamInv, TypeOK, ChunkOnce
  <2>3. Range(applied) = Chunks
    <3>1. Range(applied) \subseteq Chunks
      BY <2>2 DEF Range
    <3>2. \A c \in Chunks : c \in Range(applied) \cup Range(sent)
      BY <1>1, <2>1 DEF ExchangeInv, ChunksKept, Sunk
    <3> QED
      BY <2>1, <3>1, <3>2, EmptyFacts
  <2>4. Cardinality(Chunks) = Len(applied)
    BY <2>2, <2>3, DistinctCardinality
  <2> QED
    BY <2>1, <2>3, <2>4
<1>2. ExchangeInv => SuccessIsComplete
  BY <1>1 DEF SuccessIsComplete
<1> QED BY <1>2, ExchangeInvariant, PTL

-----------------------------------------------------------------------------
(* Scalar functions.                                                       *)

Result == [args : Seq(Function!Rows), values : Seq(Function!Values)]

\* What one thread and its exchange have.
Own(t) == <<place[t], exchange[t], args[t], arguments_sent[t], results_sent[t], faithful[t],
            results[t]>>

LEMMA SingleFacts ==
  ASSUME NEW S, NEW s \in Seq(S), Len(s) = 1
  PROVE  s # <<>> /\ Head(s) \in S /\ Head(s) = s[1] /\ Tail(s) = <<>>
<1>1. s # <<>> /\ 1 \in 1 .. Len(s)
  OBVIOUS
<1>2. Tail(s) \in Seq(S) /\ Len(Tail(s)) = 0
  BY <1>1
<1>3. Tail(s) = <<>>
  <2>1. \A q \in Seq(S) : Len(q) = 0 => q = <<>>
    OBVIOUS
  <2> QED
    BY <1>2, <2>1
<1> QED
  BY <1>1, <1>3

LEMMA FunctionStill ==
  ASSUME NEW t \in Threads, Function!ThreadInv(t), UNCHANGED <<Own(t), input_schema, arguments>>
  PROVE  Function!ThreadInv(t)'
BY DEF Function!ThreadInv, Own, Function!BoundSchema

LEMMA OthersStill ==
  ASSUME Function!FunctionInv, NEW t \in Threads, UNCHANGED <<input_schema, arguments>>,
         \A u \in Threads \ {t} : UNCHANGED Own(u), Function!TypeOK', Function!ThreadInv(t)'
  PROVE  Function!FunctionInv'
<1>1. ASSUME NEW u \in Threads \ {t} PROVE Function!ThreadInv(u)'
  BY FunctionStill DEF Function!FunctionInv
<1> QED
  BY <1>1 DEF Function!FunctionInv

LEMMA InitFunctionInv ==
  ASSUME Function!Init PROVE Function!FunctionInv
<1>1. Function!TypeOK
  <2>1. 0 \in 0 .. MaxVectors /\ 0 <= MaxRows
    BY FunctionAssumption DEF Function!MaxRowsAssumption
  <2>2. \A S : <<>> \in Seq(S) /\ Len(<<>>) = 0
    OBVIOUS
  <2>3. /\ arguments \in [DOMAIN Parameters -> ArgumentTypes]
        /\ input_schema \in {Function!Nothing, Function!BoundSchema}
        /\ vectors \in [Threads -> 0 .. MaxVectors]
    BY <2>1 DEF Function!Init
  <2>4. /\ args \in [Threads -> Seq(Function!Rows)]
        /\ arguments_sent \in [Threads -> Seq(Seq(Function!Rows))]
        /\ results_sent \in [Threads -> Seq(Seq(Function!Values))]
        /\ results \in [Threads -> Seq(Result)]
    BY <2>2 DEF Function!Init, Function!Nothing
  <2>5. \A t \in Threads : /\ Len(args[t]) <= MaxRows
                           /\ Len(arguments_sent[t]) + Len(results_sent[t]) <= 1
    BY <2>1, <2>2 DEF Function!Init, Function!Nothing
  <2> QED
    BY <2>3, <2>4, <2>5 DEF Function!Init, Function!TypeOK, Result
<1>2. ASSUME NEW t \in Threads PROVE Function!ThreadInv(t)
  BY DEF Function!Init, Function!ThreadInv
<1> QED
  BY <1>1, <1>2 DEF Function!FunctionInv

LEMMA BindKeeps ==
  ASSUME Function!FunctionInv, Function!Bind PROVE Function!FunctionInv'
<1> USE DEF Function!FunctionInv, Function!Bind, Function!local, Function!wires
<1>1. Function!TypeOK'
  BY DEF Function!TypeOK, Function!BoundSchema
<1>2. ASSUME NEW t \in Threads PROVE Function!ThreadInv(t)'
  BY DEF Function!TypeOK, Function!ThreadInv, Function!BoundSchema
<1> QED
  BY <1>1, <1>2

\* Steps that move no batch.
LEMMA ThreadMoves ==
  ASSUME Function!FunctionInv, NEW t \in Threads,
         \/ Function!Open(t) \/ Function!GetSchema(t) \/ Function!OpenFails(t)
         \/ Function!WaitForAnswer(t) \/ Function!ProcessFails(t) \/ Function!Finish(t)
         \/ Function!ReadEnd(t) \/ Function!MonitorFires(t)
  PROVE  Function!FunctionInv'
<1> USE DEF Function!Goto, Function!wires, Function!Open, Function!GetSchema,
            Function!OpenFails, Function!WaitForAnswer, Function!ProcessFails,
            Function!Finish, Function!ReadEnd, Function!MonitorFires
<1>t. Function!TypeOK /\ Function!ThreadInv(t)
  BY DEF Function!FunctionInv
<1>1. Function!TypeOK'
  <2>1. <<>> \in Seq(Function!Rows) /\ Len(<<>>) = 0
    OBVIOUS
  <2>2. UNCHANGED <<arguments, input_schema, arguments_sent, results_sent, results, vectors,
                    faithful, stopped>>
    OBVIOUS
  <2>3. /\ place' = place \/ \E w \in {"schema", "ready", "read", "failed", "done", "undefined"} :
                               place' = [place EXCEPT ![t] = w]
        /\ exchange' = exchange \/ exchange' = [exchange EXCEPT ![t] = t]
        /\ \/ connected' = connected \/ connected' = [connected EXCEPT ![t] = TRUE]
           \/ connected' = [connected EXCEPT ![exchange[t]] = FALSE]
    OBVIOUS
  <2>4. \/ monitors' = monitors
        \/ \E b \in BOOLEAN : monitors' = [monitors EXCEPT ![t] = b]
    OBVIOUS
  <2>5. args' = args \/ args' = [args EXCEPT ![t] = <<>>]
    BY DEF Function!Nothing
  <2> HIDE DEF Function!Goto, Function!wires, Function!Open, Function!GetSchema,
               Function!OpenFails, Function!WaitForAnswer, Function!ProcessFails,
               Function!Finish, Function!ReadEnd, Function!MonitorFires
  <2>6. /\ args' \in [Threads -> Seq(Function!Rows)]
        /\ \A u \in Threads : Len(args'[u]) <= MaxRows
    <3>1. /\ args \in [Threads -> Seq(Function!Rows)]
          /\ \A u \in Threads : Len(args[u]) <= MaxRows
      BY <1>t DEF Function!TypeOK
    <3>2. 0 <= MaxRows
      BY FunctionAssumption DEF Function!MaxRowsAssumption
    <3> QED
      BY <2>1, <2>5, <3>1, <3>2
  <2>7. place' \in [Threads -> {"unbound", "bound", "schema", "ready", "write", "written",
                                 "read", "done", "failed", "undefined"}]
    <3>1. place \in [Threads -> {"unbound", "bound", "schema", "ready", "write", "written",
                                  "read", "done", "failed", "undefined"}]
      BY <1>t DEF Function!TypeOK
    <3> QED
      BY <2>3, <3>1
  <2>9. exchange' \in [Threads -> Threads \cup {NoThread}]
    <3>1. exchange \in [Threads -> Threads \cup {NoThread}]
      BY <1>t DEF Function!TypeOK
    <3> QED
      BY <2>3, <3>1
  <2>8. {connected', monitors', faithful'} \subseteq [Threads -> BOOLEAN]
    <3>1. connected \in [Threads -> BOOLEAN] /\ monitors \in [Threads -> BOOLEAN]
          /\ faithful \in [Threads -> BOOLEAN]
      BY <1>t DEF Function!TypeOK
    <3>2. connected' \in [Threads -> BOOLEAN]
      BY <2>3, <3>1
    <3>3. monitors' \in [Threads -> BOOLEAN]
      BY <2>4, <3>1
    <3> QED
      BY <2>2, <3>1, <3>2, <3>3
  <2> QED
    BY <1>t, <2>2, <2>6, <2>7, <2>8, <2>9 DEF Function!TypeOK, Function!BoundSchema
<1>2. Function!ThreadInv(t)'
  BY <1>t DEF Function!TypeOK, Function!ThreadInv, Function!BoundSchema
<1>3. \A u \in Threads \ {t} : UNCHANGED Own(u)
  BY SMTT(30), <1>t DEF Function!TypeOK, Own
<1> QED
  BY <1>1, <1>2, <1>3, OthersStill

LEMMA EvaluateKeeps ==
  ASSUME Function!FunctionInv, NEW t \in Threads, Function!Evaluate(t)
  PROVE  Function!FunctionInv'
<1> USE DEF Function!Goto, Function!wires, Function!Evaluate
<1>t. Function!TypeOK /\ Function!ThreadInv(t)
  BY DEF Function!FunctionInv
<1>1. PICK n \in 1 .. MaxRows : args' = [args EXCEPT ![t] = [i \in 1 .. n |-> <<t, vectors[t], i>>]]
  OBVIOUS
<1>2. vectors[t] \in 0 .. MaxVectors /\ vectors[t] + 1 \in 0 .. MaxVectors
  BY <1>t, FunctionAssumption DEF Function!MaxRowsAssumption, Function!TypeOK
<1>3. /\ [i \in 1 .. n |-> <<t, vectors[t], i>>] \in Seq(Function!Rows)
      /\ Len([i \in 1 .. n |-> <<t, vectors[t], i>>]) = n /\ n \in 1 .. MaxRows
  BY <1>2, FunctionAssumption DEF Function!MaxRowsAssumption, Function!Rows
<1>4. Function!TypeOK'
  <2>1. /\ args' \in [Threads -> Seq(Function!Rows)]
        /\ \A u \in Threads : Len(args'[u]) <= MaxRows
    BY <1>t, <1>1, <1>3, FunctionAssumption DEF Function!TypeOK, Function!MaxRowsAssumption
  <2>2. vectors' \in [Threads -> 0 .. MaxVectors]
    BY <1>t, <1>2 DEF Function!TypeOK
  <2> QED
    BY <1>t, <2>1, <2>2 DEF Function!TypeOK, Function!BoundSchema
<1>5. Function!ThreadInv(t)'
  BY <1>t DEF Function!TypeOK, Function!ThreadInv, Function!BoundSchema
<1>6. \A u \in Threads \ {t} : UNCHANGED Own(u)
  BY <1>t, <1>1 DEF Function!TypeOK, Own
<1> QED
  BY <1>4, <1>5, <1>6, OthersStill

\* The batch goes into the thread's own exchange, which is empty.
LEMMA WriteRecordBatchKeeps ==
  ASSUME Function!FunctionInv, NEW t \in Threads, Function!WriteRecordBatch(t)
  PROVE  Function!FunctionInv'
<1> USE DEF Function!Goto, Function!WriteRecordBatch
<1>t. Function!TypeOK /\ Function!ThreadInv(t)
  BY DEF Function!FunctionInv
<1>1. exchange[t] = t /\ arguments_sent[t] = <<>> /\ results_sent[t] = <<>>
  BY <1>t DEF Function!ThreadInv
<1>2. arguments_sent' = [arguments_sent EXCEPT ![t] = <<args[t]>>]
  BY <1>1
<1>3. args[t] \in Seq(Function!Rows) /\ <<args[t]>> \in Seq(Seq(Function!Rows)) /\ Len(<<args[t]>>) = 1
      /\ Len(<<>>) = 0
  BY <1>t DEF Function!TypeOK
<1>4. Function!TypeOK'
  <2>1. /\ arguments_sent' \in [Threads -> Seq(Seq(Function!Rows))]
        /\ \A u \in Threads : Len(arguments_sent'[u]) + Len(results_sent[u]) <= 1
    BY <1>t, <1>1, <1>2, <1>3 DEF Function!TypeOK
  <2> QED
    BY <1>t, <2>1 DEF Function!TypeOK, Function!BoundSchema
<1>5. Function!ThreadInv(t)'
  BY <1>t, <1>1, <1>2 DEF Function!TypeOK, Function!ThreadInv, Function!BoundSchema
<1>6. \A u \in Threads \ {t} : UNCHANGED Own(u)
  BY <1>t, <1>2 DEF Function!TypeOK, Own
<1> QED
  BY <1>4, <1>5, <1>6, OthersStill

\* A result for each row is what DuckDB finds in the result vector.
LEMMA ResultVectorOfAll ==
  ASSUME NEW S, NEW answer \in Seq(S), NEW n \in Nat
  PROVE  /\ Function!ResultVector(answer, n) \in Seq(S \cup {Garbage})
         /\ Len(answer) = n => Function!ResultVector(answer, n) = answer
<1> DEFINE v == Function!ResultVector(answer, n)
<1>1. /\ v = [i \in 1 .. n |-> v[i]]
      /\ \A i \in 1 .. n : v[i] = IF Len(answer) = 1 THEN answer[1]
                                  ELSE IF i <= Len(answer) THEN answer[i] ELSE Garbage
  BY DEF Function!ResultVector
<1>2. \A i \in 1 .. n : v[i] \in S \cup {Garbage}
  BY <1>1
<1>3. v \in Seq(S \cup {Garbage}) /\ Len(v) = n
  BY <1>1, <1>2
<1>4. ASSUME Len(answer) = n PROVE v = answer
  BY <1>1, <1>3, <1>4
<1> QED
  BY <1>3, <1>4

LEMMA ReadAnswerKeeps ==
  ASSUME Function!FunctionInv, NEW t \in Threads, Function!ReadAnswer(t)
  PROVE  Function!FunctionInv'
<1> USE DEF Function!Goto, Function!ReadAnswer
<1>t. Function!TypeOK /\ Function!ThreadInv(t)
  BY DEF Function!FunctionInv
<1> DEFINE answer == Head(results_sent[t])
           result == [args |-> args[t], values |-> Function!ResultVector(answer, Len(args[t]))]
<1>1. /\ exchange[t] = t /\ arguments_sent[t] = <<>> /\ Len(results_sent[t]) = 1
      /\ results_sent[t] \in Seq(Seq(Function!Values)) /\ args[t] \in Seq(Function!Rows)
      /\ results[t] \in Seq(Result)
  <2>1. place[t] = "read" /\ results_sent[exchange[t]] # <<>>
    OBVIOUS
  <2>2. exchange[t] = t /\ arguments_sent[t] = <<>> /\ Len(results_sent[t]) = 1
    BY <1>t, <2>1 DEF Function!ThreadInv
  <2> QED
    BY <1>t, <2>2 DEF Function!TypeOK, Result
<1>2. /\ answer \in Seq(Function!Values) /\ Tail(results_sent[t]) = <<>> /\ Len(args[t]) \in Nat
      /\ answer = results_sent[t][1]
  <2>1. Len(args[t]) \in Nat
    BY <1>1
  <2> QED
    BY <1>1, <2>1, SingleFacts
<1>f. faithful[t] => answer = args[t]
  <2>1. place[t] = "read" /\ results_sent[t] # <<>>
    BY <1>1
  <2> QED
    BY <1>t, <1>2, <2>1 DEF Function!ThreadInv
<1>3. /\ results' = [results EXCEPT ![t] = Append(results[t], result)]
      /\ results_sent' = [results_sent EXCEPT ![t] = <<>>]
  BY <1>1, <1>2
<1>4. result \in Result /\ (faithful[t] => result.values = result.args)
  <2>1. Function!ResultVector(answer, Len(args[t])) \in Seq(Function!Values \cup {Garbage})
        /\ (faithful[t] => Function!ResultVector(answer, Len(args[t])) = args[t])
    BY <1>1, <1>2, <1>f, ResultVectorOfAll
  <2>2. Function!Values \cup {Garbage} = Function!Values
    BY DEF Function!Values
  <2> QED
    BY <1>1, <2>1, <2>2 DEF Result
<1>5. /\ Append(results[t], result) \in Seq(Result)
      /\ \A k \in DOMAIN Append(results[t], result) :
           Append(results[t], result)[k] = result \/
             (k \in DOMAIN results[t] /\ Append(results[t], result)[k] = results[t][k])
  <2> HIDE DEF result
  <2> QED
    BY <1>1, <1>4
<1> HIDE DEF result, answer
<1>6. Function!TypeOK'
  <2>1. results' \in [Threads -> Seq(Result)]
    BY <1>t, <1>3, <1>5 DEF Function!TypeOK, Result
  <2>2. /\ results_sent' \in [Threads -> Seq(Seq(Function!Values))]
        /\ \A u \in Threads : Len(arguments_sent[u]) + Len(results_sent'[u]) <= 1
    BY SMTT(30), <1>t, <1>1, <1>3 DEF Function!TypeOK
  <2>3. /\ args' \in [Threads -> Seq(Function!Rows)]
        /\ \A u \in Threads : Len(args'[u]) <= MaxRows
    BY SMTT(30), <1>t, FunctionAssumption DEF Function!TypeOK, Function!Nothing, Function!MaxRowsAssumption
  <2>4. place' \in [Threads -> {"unbound", "bound", "schema", "ready", "write", "written",
                                 "read", "done", "failed", "undefined"}]
    BY <1>t DEF Function!TypeOK
  <2> QED
    BY <1>t, <2>1, <2>2, <2>3, <2>4 DEF Function!TypeOK, Function!BoundSchema, Result
<1>7. Function!ThreadInv(t)'
  <2>1. /\ results'[t] = Append(results[t], result) /\ results_sent'[t] = <<>>
        /\ place[t] = "read" /\ place'[t] = "ready"
        /\ UNCHANGED <<exchange, arguments_sent, faithful, input_schema, arguments>>
    BY <1>t, <1>3 DEF Function!TypeOK
  <2>2. faithful[t] => \A k \in DOMAIN results'[t] : results'[t][k].values = results'[t][k].args
    BY <1>t, <1>4, <1>5, <2>1 DEF Function!ThreadInv
  <2> QED
    BY <1>t, <1>1, <2>1, <2>2 DEF Function!ThreadInv, Function!BoundSchema
<1>8. \A u \in Threads \ {t} : UNCHANGED Own(u)
  BY <1>t, <1>3 DEF Function!TypeOK, Own
<1> QED
  BY <1>6, <1>7, <1>8, OthersStill

\* The server moves the batch under way in an exchange from one direction to the other.
LEMMA AnswersKeep ==
  ASSUME Function!FunctionInv, NEW x \in Threads,
         Function!Answer(x) \/ Function!AnswerOtherwise(x)
  PROVE  Function!FunctionInv'
<1>t. Function!TypeOK /\ Function!ThreadInv(x)
  BY DEF Function!FunctionInv
<1>1. /\ arguments_sent[x] # <<>> /\ arguments_sent[x] \in Seq(Seq(Function!Rows))
      /\ results_sent[x] \in Seq(Seq(Function!Values))
      /\ Len(arguments_sent[x]) + Len(results_sent[x]) <= 1
  BY <1>t DEF Function!TypeOK, Function!Answer, Function!AnswerOtherwise
<1>2. /\ Len(arguments_sent[x]) = 1 /\ results_sent[x] = <<>> /\ Tail(arguments_sent[x]) = <<>>
      /\ Head(arguments_sent[x]) \in Seq(Function!Rows)
      /\ Head(arguments_sent[x]) = arguments_sent[x][1]
  <2>1. Len(arguments_sent[x]) \in Nat \ {0} /\ Len(results_sent[x]) \in Nat
    BY <1>1
  <2>2. Len(arguments_sent[x]) = 1 /\ Len(results_sent[x]) = 0
    <3>1. \A m \in Nat \ {0}, n \in Nat : m + n <= 1 => m = 1 /\ n = 0
      OBVIOUS
    <3> QED
      BY <1>1, <2>1, <3>1
  <2>3. results_sent[x] = <<>>
    BY <1>1, <2>2
  <2> QED
    BY <1>1, <2>2, <2>3, SingleFacts
<1>3. \E answer \in Seq(Function!Values) :
        /\ results_sent' = [results_sent EXCEPT ![x] = <<answer>>]
        /\ \/ answer = arguments_sent[x][1] /\ faithful' = faithful
           \/ faithful' = [faithful EXCEPT ![x] = FALSE]
  <2>1. \A a : Append(results_sent[x], a) = <<a>>
    BY <1>2
  <2>2. CASE Function!Answer(x)
    <3>1. /\ results_sent' = [results_sent EXCEPT ![x] = <<arguments_sent[x][1]>>]
          /\ faithful' = faithful
      BY <1>2, <2>1, <2>2 DEF Function!Answer
    <3>2. arguments_sent[x][1] \in Seq(Function!Values)
      BY <1>2 DEF Function!Values
    <3> QED
      BY <3>1, <3>2
  <2>3. CASE Function!AnswerOtherwise(x)
    <3>1. PICK answer \in {Function!EndOfStream} \cup
                 {[i \in 1 .. n |-> Garbage] : n \in (0 .. MaxRows) \ {Len(Head(arguments_sent[x]))}} :
            results_sent' = [results_sent EXCEPT ![x] = <<answer>>]
      BY <2>1, <2>3 DEF Function!AnswerOtherwise
    <3>2. answer \in Seq(Function!Values)
      <4>1. Function!EndOfStream \in Seq(Function!Values)
        BY DEF Function!EndOfStream, Function!Values
      <4>2. \A n \in 0 .. MaxRows : [i \in 1 .. n |-> Garbage] \in Seq(Function!Values)
        BY FunctionAssumption DEF Function!Values, Function!MaxRowsAssumption
      <4> QED
        BY <4>1, <4>2
    <3> QED
      BY <2>3, <3>1, <3>2 DEF Function!AnswerOtherwise
  <2> QED
    BY <2>2, <2>3
<1>4. PICK answer \in Seq(Function!Values) :
        /\ results_sent' = [results_sent EXCEPT ![x] = <<answer>>]
        /\ \/ answer = arguments_sent[x][1] /\ faithful' = faithful
           \/ faithful' = [faithful EXCEPT ![x] = FALSE]
  BY <1>3
<1>5. /\ arguments_sent' = [arguments_sent EXCEPT ![x] = <<>>]
      /\ UNCHANGED <<arguments, input_schema, place, exchange, args, vectors, monitors, results,
                     connected, stopped>>
  BY <1>1, <1>2 DEF Function!Answer, Function!AnswerOtherwise, Function!local
<1>6. <<answer>> \in Seq(Seq(Function!Values)) /\ Len(<<answer>>) = 1 /\ Len(<<>>) = 0
      /\ <<answer>>[1] = answer
  OBVIOUS
<1>7. Function!TypeOK'
  <2>1. faithful' \in [Threads -> BOOLEAN]
    BY <1>t, <1>4 DEF Function!TypeOK
  <2>2. /\ arguments_sent' \in [Threads -> Seq(Seq(Function!Rows))]
        /\ results_sent' \in [Threads -> Seq(Seq(Function!Values))]
        /\ \A u \in Threads : Len(arguments_sent'[u]) + Len(results_sent'[u]) <= 1
    BY <1>t, <1>4, <1>5, <1>6 DEF Function!TypeOK
  <2> QED
    BY <1>t, <1>5, <2>1, <2>2 DEF Function!TypeOK, Function!BoundSchema
<1>8. Function!ThreadInv(x)'
  <2>1. arguments_sent'[x] = <<>> /\ results_sent'[x] = <<answer>>
        /\ (faithful'[x] => faithful[x] /\ answer = arguments_sent[x][1])
    BY <1>t, <1>4, <1>5 DEF Function!TypeOK
  <2> QED
    BY <1>t, <1>1, <1>5, <1>6, <2>1 DEF Function!ThreadInv, Function!BoundSchema
<1>9. \A u \in Threads \ {x} : UNCHANGED Own(u)
  BY <1>t, <1>4, <1>5 DEF Function!TypeOK, Own
<1> QED
  BY <1>5, <1>7, <1>8, <1>9, OthersStill

LEMMA NextFunctionInv ==
  ASSUME Function!FunctionInv, [Function!Next]_(Function!vars)
  PROVE  Function!FunctionInv'
<1>1. ASSUME UNCHANGED <<Function!local, arguments, input_schema, arguments_sent, results_sent, faithful>>,
             connected' \in [Threads -> BOOLEAN], stopped' \in BOOLEAN
      PROVE  Function!FunctionInv'
  <2>1. Function!TypeOK'
    BY <1>1 DEF Function!FunctionInv, Function!TypeOK, Function!BoundSchema, Function!local
  <2>2. \A t \in Threads : Function!ThreadInv(t)'
    BY <1>1 DEF Function!FunctionInv, Function!ThreadInv, Function!BoundSchema, Function!local
  <2> QED
    BY <2>1, <2>2 DEF Function!FunctionInv
<1>2. connected \in [Threads -> BOOLEAN] /\ stopped \in BOOLEAN
  BY DEF Function!FunctionInv, Function!TypeOK
<1>3. CASE Function!Interrupt \/ UNCHANGED Function!vars
  BY <1>1, <1>2, <1>3 DEF Function!Interrupt, Function!vars, Function!wires
<1>4. ASSUME NEW x \in Threads, Function!Break(x) PROVE Function!FunctionInv'
  BY <1>1, <1>2, <1>4 DEF Function!Break
<1>5. ASSUME NEW x \in Threads, Function!Answer(x) \/ Function!AnswerOtherwise(x)
      PROVE  Function!FunctionInv'
  BY <1>5, AnswersKeep
<1>6. ASSUME NEW t \in Threads, Function!ThreadStep(t) \/ Function!MonitorFires(t)
      PROVE  Function!FunctionInv'
  BY <1>6, ThreadMoves, EvaluateKeeps, WriteRecordBatchKeeps, ReadAnswerKeeps
     DEF Function!ThreadStep
<1> QED
  BY <1>3, <1>4, <1>5, <1>6, BindKeeps DEF Function!Next

\* As long as the server gives one result for each row, every result a thread hands to DuckDB
\* is the one for its arguments, whatever other threads evaluate, read or are interrupted in
\* at the same time, and every batch is imported with the types it was built with
\* (process_chunk, AirportScalarFunctionBind).
THEOREM ResultsOfOwnRows == PartsSpec => []ResultsMatchRows
<1> DEFINE Inv == part = "function" => Function!FunctionInv
<1>1. PartsInit => Inv
  BY InitFunctionInv DEF PartsInit
<1>2. Inv /\ [PartsNext]_allVars => Inv'
  <2> SUFFICES ASSUME Inv, [PartsNext]_allVars, part' = "function" PROVE Function!FunctionInv'
    OBVIOUS
  <2>1. part = "function" /\ [Function!Next]_(Function!vars)
    BY DEF PartsNext, allVars, functionVars, Function!vars, Function!local, Function!wires
  <2> QED
    BY <2>1, NextFunctionInv
<1>3. Function!FunctionInv => Function!ResultsMatchRows
  BY FunctionAssumption
     DEF Function!NoThreadAssumption, Function!FunctionInv, Function!ThreadInv, Function!ResultsMatchRows
<1>4. Function!FunctionInv => Function!BatchesImportedRight
  BY DEF Function!FunctionInv, Function!ThreadInv, Function!BatchesImportedRight,
         Function!ImportedRight, Function!BoundSchema, Function!Cast
<1>5. Inv => ResultsMatchRows
  BY <1>3, <1>4 DEF ResultsMatchRows
<1> QED
  BY <1>1, <1>2, <1>5, PTL DEF PartsSpec

=============================================================================
