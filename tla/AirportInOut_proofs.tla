------------------------ MODULE AirportInOut_proofs -------------------------
(***************************************************************************)
(* Proofs about the table in/out functions, for any threads, inputs,       *)
(* answers and vector size.                                                *)
(***************************************************************************)
EXTENDS AirportInOut, FiniteSetTheorems, TLAPS

ThreadStep(t) == Call(t) \/ Read(t) \/ Return(t) \/ CallFails(t) \/ Stop(t)

-----------------------------------------------------------------------------
(* The answers.                                                            *)

\* The batches of an answer are counted and have sizes.
LEMMA ReplyType ==
  /\ Len(Reply) \in Nat \ {0} /\ \A b \in 1 .. Len(Reply) : Reply[b] \in Nat
  /\ Len(FinalReply) \in Nat /\ \A b \in 1 .. Len(FinalReply) : FinalReply[b] \in Nat
BY ReplyAssumption

\* Of the batches that answer an input only the last one says so.
LEMMA ReplyToShape ==
  ASSUME NEW i
  PROVE  /\ Len(ReplyTo(i)) = Len(Reply)
         /\ \A b \in 1 .. Len(Reply) :
              /\ ReplyTo(i)[b].input = i /\ ReplyTo(i)[b].rows = Reply[b]
              /\ ReplyTo(i)[b].tag =
                   IF b = Len(Reply) THEN "chunk_finished" ELSE "chunk_continues"
BY ReplyType DEF ReplyTo

LEMMA FinalShape ==
  ASSUME NEW last
  PROVE  /\ Len(FinalBatches(last)) = Len(FinalReply)
         /\ \A b \in 1 .. Len(FinalReply) :
              /\ FinalBatches(last)[b].input = Final
              /\ FinalBatches(last)[b].rows = FinalReply[b]
              /\ FinalBatches(last)[b].tag =
                   IF b = Len(FinalReply) THEN last ELSE "chunk_continues"
BY ReplyType DEF FinalBatches

\* An input is not the end of the writes.
LEMMA InputNotFinal == ASSUME NEW i \in Inputs PROVE i # Final
BY DEF Inputs, Final

Batches == [input : Inputs \cup {Final}, rows : Nat, tag : Metadata]

LEMMA Concatenation ==
  ASSUME NEW S, NEW s \in Seq(S), NEW a \in Seq(S)
  PROVE  /\ Len(s) \in Nat /\ Len(a) \in Nat /\ Len(s \o a) = Len(s) + Len(a)
         /\ \A b \in 1 .. Len(s) : (s \o a)[b] = s[b]
         /\ \A b \in Len(s) + 1 .. Len(s \o a) : (s \o a)[b] = a[b - Len(s)]
OBVIOUS

LEMMA ReplyToType == ASSUME NEW i \in Inputs PROVE ReplyTo(i) \in Seq(Batches)
BY ReplyType DEF ReplyTo, Batches, Metadata

LEMMA FinalType ==
  ASSUME NEW last \in {"chunk_continues", "chunk_finished"}
  PROVE  FinalBatches(last) \in Seq(Batches)
BY ReplyType DEF FinalBatches, Batches, Metadata

\* What the server adds to its batches.
LEMMA Answers ==
  ASSUME TypeOK, Answer
  PROVE  /\ sent[answered + 1] \in Inputs
         /\ Len(replies) \in Nat /\ Len(replies') = Len(replies) + Len(Reply)
         /\ \A b \in 1 .. Len(replies) : replies'[b] = replies[b]
         /\ \A b \in Len(replies) + 1 .. Len(replies') :
              /\ replies'[b] = ReplyTo(sent[answered + 1])[b - Len(replies)]
              /\ replies'[b].input = sent[answered + 1]
              /\ replies'[b].rows = Reply[b - Len(replies)]
              /\ replies'[b].tag =
                   IF b = Len(replies') THEN "chunk_finished" ELSE "chunk_continues"
<1> DEFINE a == ReplyTo(sent[answered + 1])
<1>1. sent \in Seq(Inputs) /\ answered \in Nat /\ answered < Len(sent)
  BY DEF TypeOK, Answer
<1>2. sent[answered + 1] \in Inputs
  BY <1>1
<1>3. a \in Seq(Batches) /\ replies \in Seq(Batches) /\ replies' = replies \o a
  BY <1>2, ReplyToType DEF TypeOK, Answer, Batches
<1>4. Len(a) = Len(Reply) /\ Len(Reply) \in Nat \ {0}
  BY ReplyToShape, ReplyType
<1> HIDE DEF a
<1>5. /\ Len(replies) \in Nat /\ Len(replies') = Len(replies) + Len(Reply)
      /\ \A b \in 1 .. Len(replies) : replies'[b] = replies[b]
      /\ \A b \in Len(replies) + 1 .. Len(replies') : replies'[b] = a[b - Len(replies)]
  BY <1>3, <1>4, Concatenation
<1> SUFFICES ASSUME NEW b \in Len(replies) + 1 .. Len(replies')
             PROVE  /\ replies'[b].input = sent[answered + 1]
                    /\ replies'[b].rows = Reply[b - Len(replies)]
                    /\ replies'[b].tag =
                         IF b = Len(replies') THEN "chunk_finished" ELSE "chunk_continues"
  BY <1>2, <1>5 DEF a
<1>6. b - Len(replies) \in 1 .. Len(Reply) /\ (b - Len(replies) = Len(Reply) <=> b = Len(replies'))
  BY <1>4, <1>5
<1>7. replies'[b] = ReplyTo(sent[answered + 1])[b - Len(replies)]
  BY <1>5 DEF a
<1> QED
  BY SMTT(30), <1>6, <1>7, ReplyToShape

LEMMA Closes ==
  ASSUME TypeOK, Close
  PROVE  /\ Len(replies) \in Nat /\ Len(replies') = Len(replies) + Len(FinalReply)
         /\ \A b \in 1 .. Len(replies) : replies'[b] = replies[b]
         /\ \A b \in Len(replies) + 1 .. Len(replies') :
              /\ replies'[b].input = Final
              /\ replies'[b].rows = FinalReply[b - Len(replies)]
              /\ replies'[b].tag \in {"chunk_continues", "chunk_finished"}
              /\ b < Len(replies') => replies'[b].tag = "chunk_continues"
<1>1. PICK last \in {"chunk_continues", "chunk_finished"} :
        replies' = replies \o FinalBatches(last)
  BY DEF Close
<1> DEFINE a == FinalBatches(last)
<1>2. a \in Seq(Batches) /\ replies \in Seq(Batches) /\ replies' = replies \o a
  BY <1>1, FinalType DEF TypeOK, Batches
<1>3. Len(a) = Len(FinalReply) /\ Len(FinalReply) \in Nat
  BY FinalShape, ReplyType
<1> HIDE DEF a
<1>4. /\ Len(replies) \in Nat /\ Len(replies') = Len(replies) + Len(FinalReply)
      /\ \A b \in 1 .. Len(replies) : replies'[b] = replies[b]
      /\ \A b \in Len(replies) + 1 .. Len(replies') : replies'[b] = a[b - Len(replies)]
  BY <1>2, <1>3, Concatenation
<1> SUFFICES ASSUME NEW b \in Len(replies) + 1 .. Len(replies')
             PROVE  /\ replies'[b].input = Final
                    /\ replies'[b].rows = FinalReply[b - Len(replies)]
                    /\ replies'[b].tag \in {"chunk_continues", "chunk_finished"}
                    /\ b < Len(replies') => replies'[b].tag = "chunk_continues"
  BY <1>4
<1>5. b - Len(replies) \in 1 .. Len(FinalReply) /\ (b - Len(replies) = Len(FinalReply) <=> b = Len(replies'))
  BY <1>3, <1>4
<1> QED
  BY <1>4, <1>5, FinalShape DEF a

-----------------------------------------------------------------------------
(* Where the threads are.                                                  *)

LEMMA CallEffect ==
  ASSUME TypeOK, LockInv, NEW t \in tasks, Call(t)
  PROVE  /\ lock = {} /\ ~Reading /\ ~Handing
         /\ lock' = {t} /\ Active' /\ tasks' = tasks
         /\ Reading' <=> chunk_offset = 0
         /\ Handing' <=> chunk_offset # 0
         /\ NoneFailed' <=> NoneFailed
         /\ \A u \in Threads : stage'[u] = "finished" <=> stage[u] = "finished"
         /\ stage[t] = "call" /\ stage'[t] \in {"read", "return"}
<1>1. tasks \subseteq Threads /\ stage \in [Threads -> Stages]
  BY DEF TypeOK
<1>2. /\ stage[t] = "call" /\ lock = {} /\ lock' = {t} /\ tasks' = tasks
      /\ stage' = [stage EXCEPT ![t] = IF chunk_offset = 0 THEN "read" ELSE "return"]
  BY DEF Call
<1>3. \A u \in Threads : stage[u] \notin {"read", "return"}
  BY <1>2 DEF LockInv
<1> QED
  BY <1>1, <1>2, <1>3 DEF Reading, Handing, NoneFailed, Active

\* The holder of the lock is the only thread that reads or returns.
LEMMA Holder ==
  ASSUME LockInv, NEW t \in Threads, stage[t] \in {"read", "return"}
  PROVE  lock = {t} /\ \A u \in Threads : stage[u] \in {"read", "return"} => u = t
BY DEF LockInv

LEMMA ReadEffect ==
  ASSUME TypeOK, LockInv, NEW t \in tasks, Read(t)
  PROVE  /\ lock = {t} /\ Reading /\ ~Handing
         /\ lock' = {t} /\ Active /\ Active' /\ ~Reading' /\ Handing' /\ tasks' = tasks
         /\ NoneFailed' <=> NoneFailed
         /\ \A u \in Threads : stage'[u] = "finished" <=> stage[u] = "finished"
         /\ stage[t] = "read" /\ stage'[t] = "return"
<1>1. tasks \subseteq Threads /\ stage \in [Threads -> Stages]
  BY DEF TypeOK
<1>2. /\ stage[t] = "read" /\ lock' = lock /\ tasks' = tasks
      /\ stage' = [stage EXCEPT ![t] = "return"]
  BY DEF Read
<1>3. lock = {t} /\ \A u \in Threads : stage[u] \in {"read", "return"} => u = t
  BY <1>1, <1>2, Holder
<1> QED
  BY <1>1, <1>2, <1>3 DEF Reading, Handing, NoneFailed, Active

LEMMA ReturnEffect ==
  ASSUME TypeOK, LockInv, NEW t \in tasks, Return(t)
  PROVE  /\ lock = {t} /\ Active /\ Handing /\ ~Reading
         /\ lock' = {} /\ ~Reading' /\ ~Handing' /\ tasks' = tasks
         /\ continuing' = HaveMoreOutput
         /\ Active' <=> HaveMoreOutput
         /\ NoneFailed' <=> NoneFailed
         /\ \A u \in Threads \ {t} : stage'[u] = stage[u]
         /\ stage[t] = "return"
         /\ stage'[t] = IF Finalizing(t) /\ ~HaveMoreOutput THEN "finished" ELSE "call"
<1>1. tasks \subseteq Threads /\ stage \in [Threads -> Stages]
  BY DEF TypeOK
<1>2. /\ stage[t] = "return" /\ lock' = {} /\ tasks' = tasks
      /\ stage' = [stage EXCEPT ![t] =
                     IF Finalizing(t) /\ ~HaveMoreOutput THEN "finished" ELSE "call"]
      /\ continuing' = HaveMoreOutput
  BY DEF Return
<1>3. lock = {t} /\ \A u \in Threads : stage[u] \in {"read", "return"} => u = t
  BY <1>1, <1>2, Holder
<1>4. /\ \A u \in Threads \ {t} : stage'[u] = stage[u]
      /\ stage'[t] = IF Finalizing(t) /\ ~HaveMoreOutput THEN "finished" ELSE "call"
  BY <1>1, <1>2
<1>5. stage'[t] \in {"finished", "call"}
  BY <1>4
<1>6. Active' <=> HaveMoreOutput
  BY <1>2 DEF Active
<1>7. ~Reading' /\ ~Handing' /\ ~Reading /\ Handing /\ (NoneFailed' <=> NoneFailed) /\ Active
  BY <1>1, <1>2, <1>3, <1>4, <1>5 DEF Reading, Handing, NoneFailed, Active
<1> QED
  BY <1>2, <1>3, <1>4, <1>6, <1>7

LEMMA FailEffect ==
  ASSUME TypeOK, LockInv, NEW t \in tasks, CallFails(t)
  PROVE  /\ ~Handing /\ lock' = {} /\ ~Reading' /\ ~Handing' /\ ~NoneFailed' /\ tasks' = tasks
         /\ \/ lock = {} /\ ~continuing /\ done_writing
            \/ Active
         /\ stage[t] \in {"call", "read"}
         /\ \A u \in Threads \ {t} : stage'[u] = stage[u]
         /\ stage'[t] = "failed"
<1>1. tasks \subseteq Threads /\ stage \in [Threads -> Stages]
  BY DEF TypeOK
<1>2. /\ stage' = [stage EXCEPT ![t] = "failed"] /\ tasks' = tasks
      /\ \/ stage[t] = "call" /\ lock = {} /\ ~continuing /\ done_writing /\ lock' = lock
         \/ stage[t] = "read" /\ lock' = {}
  BY DEF CallFails
<1>3. CASE stage[t] = "call" /\ lock = {} /\ ~continuing /\ done_writing /\ lock' = lock
  <2>1. \A u \in Threads : stage[u] \notin {"read", "return"}
    BY <1>3 DEF LockInv
  <2> QED
    BY <1>1, <1>2, <1>3, <2>1 DEF Reading, Handing, NoneFailed
<1>4. CASE stage[t] = "read" /\ lock' = {}
  <2>1. lock = {t} /\ \A u \in Threads : stage[u] \in {"read", "return"} => u = t
    BY <1>1, <1>4, Holder
  <2> QED
    BY <1>1, <1>2, <1>4, <2>1 DEF Reading, Handing, NoneFailed, Active
<1> QED
  BY <1>2, <1>3, <1>4

LEMMA StopEffect ==
  ASSUME TypeOK, NEW t \in tasks, Stop(t)
  PROVE  /\ (Reading' <=> Reading) /\ (Handing' <=> Handing) /\ (NoneFailed' <=> NoneFailed)
         /\ (Active' <=> Active) /\ tasks' = tasks
         /\ \A u \in Threads \ {t} : stage'[u] = stage[u]
         /\ stage'[t] = "stopped" /\ stage[t] = "call"
BY DEF TypeOK, Stop, Reading, Handing, NoneFailed, Active

-----------------------------------------------------------------------------
(* Types, and the lock.                                                    *)

LEMMA InitTypeOK == Init => TypeOK
<1> SUFFICES ASSUME Init PROVE TypeOK
  OBVIOUS
<1>1. stage \in [Threads -> Stages] /\ metadata \in Metadata
  BY DEF Init, Stages, Metadata
<1>2. input \in [Threads -> 1 .. NumInputs + 1]
  BY NumInputsAssumption DEF Init
<1>3. tasks \subseteq Threads /\ lock \in SUBSET tasks
  BY DEF Init
<1>4. sent \in Seq(Inputs) /\ replies \in Seq(Batches) /\ handed \in Seq(Nat)
  BY DEF Init
<1>5. /\ continuing \in BOOLEAN /\ done_writing \in BOOLEAN /\ closed \in BOOLEAN
      /\ answered \in Nat /\ taken \in Nat /\ chunk_length \in Nat /\ chunk_offset \in Nat
  BY DEF Init
<1> QED
  BY <1>1, <1>2, <1>3, <1>4, <1>5 DEF TypeOK, Batches

LEMMA SendType ==
  ASSUME TypeOK, NEW t \in tasks, Send(t)
  PROVE  /\ sent' \in Seq(Inputs) /\ done_writing' \in BOOLEAN
         /\ \/ continuing /\ sent' = sent /\ done_writing' = done_writing
            \/ ~continuing /\ Finalizing(t) /\ done_writing' /\ sent' = sent
            \/ /\ ~continuing /\ ~Finalizing(t) /\ ~done_writing /\ ~done_writing'
               /\ sent' = Append(sent, <<t, input[t]>>)
<1>1. sent \in Seq(Inputs) /\ done_writing \in BOOLEAN /\ t \in Threads
  BY DEF TypeOK
<1>2. ~Finalizing(t) => <<t, input[t]>> \in Inputs
  BY <1>1, NumInputsAssumption DEF TypeOK, Finalizing, Inputs
<1>3. CASE continuing
  BY <1>1, <1>3 DEF Send, exchange
<1>4. CASE ~continuing /\ Finalizing(t)
  BY <1>1, <1>4 DEF Send
<1>5. CASE ~continuing /\ ~Finalizing(t)
  <2>1. ~done_writing /\ sent' = Append(sent, <<t, input[t]>>) /\ done_writing' = done_writing
    BY <1>5 DEF Send
  <2>2. sent' \in Seq(Inputs)
    BY <1>1, <1>2, <1>5, <2>1
  <2> QED
    BY <1>1, <1>5, <2>1, <2>2
<1> QED
  BY <1>3, <1>4, <1>5

\* A batch that is there has a size and a tag.
LEMMA BatchType ==
  ASSUME TypeOK, NEW b \in 1 .. Len(replies)
  PROVE  replies[b].rows \in Nat /\ replies[b].tag \in Metadata
<1>1. replies \in Seq(Batches)
  BY DEF TypeOK, Batches
<1>2. replies[b] \in Batches
  BY <1>1
<1> QED
  BY <1>2 DEF Batches

\* The output of a call.
LEMMA Output ==
  ASSUME TypeOK, chunk_offset <= chunk_length
  PROVE  /\ OutputSize \in Nat /\ NextOffset \in Nat
         /\ chunk_offset + OutputSize <= chunk_length /\ NextOffset <= chunk_length
         /\ OutputSize = 0 <=> chunk_offset = chunk_length
         /\ NextOffset = 0 <=> chunk_offset + OutputSize = chunk_length
         /\ NextOffset > 0 =>
              /\ OutputSize = VectorSize /\ NextOffset # chunk_length
              /\ NextOffset = chunk_offset + VectorSize
<1>1. chunk_length \in Nat /\ chunk_offset \in Nat /\ VectorSize \in Nat \ {0}
  BY InOutVectorAssumption DEF TypeOK
<1>2. OutputSize = IF VectorSize < chunk_length - chunk_offset THEN VectorSize
                   ELSE chunk_length - chunk_offset
  BY DEF OutputSize, Smaller
<1>3. NextOffset = IF chunk_offset + OutputSize = chunk_length THEN 0
                   ELSE chunk_offset + OutputSize
  BY DEF NextOffset
<1> QED
  BY <1>1, <1>2, <1>3

LEMMA CallTypeOK == ASSUME TypeOK, NEW t \in tasks, Call(t) PROVE TypeOK'
<1>1. sent' \in Seq(Inputs) /\ done_writing' \in BOOLEAN
  BY SendType DEF Call
<1>2. stage' \in [Threads -> Stages] /\ lock' \in SUBSET tasks
  BY DEF TypeOK, Call, Stages
<1> QED
  BY <1>1, <1>2 DEF TypeOK, Call, chunk, server

LEMMA ReadTypeOK == ASSUME TypeOK, NEW t \in tasks, Read(t) PROVE TypeOK'
<1>1. stage' \in [Threads -> Stages]
  BY DEF TypeOK, Read, Stages
<1>2. taken' \in Nat /\ chunk_length' \in Nat /\ metadata' \in Metadata /\ handed' \in Seq(Nat)
  <2>1. taken \in Nat /\ handed \in Seq(Nat) /\ Len(replies) \in Nat
    BY DEF TypeOK
  <2>2. CASE taken < Len(replies) /\ taken' = taken + 1 /\ chunk_length' = replies[taken + 1].rows
             /\ metadata' = replies[taken + 1].tag /\ handed' = Append(handed, 0)
    BY <2>1, <2>2, BatchType
  <2>3. CASE chunk_length' = 0 /\ metadata' = "null" /\ UNCHANGED <<taken, handed>>
    BY <2>1, <2>3 DEF Metadata
  <2> QED
    BY <2>2, <2>3 DEF Read
<1> QED
  BY <1>1, <1>2 DEF TypeOK, Read, exchange, server

LEMMA AddTo ==
  ASSUME NEW D, NEW f \in [D -> Nat], NEW d, NEW n \in Nat
  PROVE  [f EXCEPT ![d] = @ + n] \in [D -> Nat]
<1>1. CASE d \in D
  BY <1>1
<1>2. CASE d \notin D
  <2>1. [f EXCEPT ![d] = @ + n] = f
    BY <1>2
  <2> QED
    BY <2>1
<1> QED
  BY <1>1, <1>2

LEMMA ReturnTypeOK ==
  ASSUME TypeOK, LockInv, ChunkInv, HandedInv, NEW t \in tasks, Return(t) PROVE TypeOK'
<1>1. stage' \in [Threads -> Stages] /\ lock' \in SUBSET tasks
  <2>1. stage \in [Threads -> Stages] /\ {"finished", "call"} \subseteq Stages
    BY DEF TypeOK, Stages, Ended
  <2>2. (IF Finalizing(t) /\ ~HaveMoreOutput THEN "finished" ELSE "call") \in Stages
    BY <2>1
  <2> QED
    BY <2>1, <2>2 DEF Return
<1>2. input' \in [Threads -> 1 .. NumInputs + 1]
  <2>1. t \in Threads /\ input \in [Threads -> 1 .. NumInputs + 1]
    BY DEF TypeOK
  <2>2. CASE input' = input
    BY <2>1, <2>2
  <2>3. CASE ~Finalizing(t) /\ input' = [input EXCEPT ![t] = @ + 1]
    BY <2>1, <2>3, NumInputsAssumption DEF Finalizing
  <2> QED
    BY <2>2, <2>3 DEF Return
<1>3. OutputSize \in Nat /\ NextOffset \in Nat
  BY Output DEF ChunkInv
<1>4. handed' \in Seq(Nat)
  <2>1. handed \in Seq(Nat) /\ \A b \in 1 .. Len(handed) : handed[b] \in Nat
    BY DEF TypeOK
  <2>2. CASE handed' = handed
    BY <2>1, <2>2
  <2>3. CASE handed' = [handed EXCEPT ![taken] = @ + OutputSize]
    <3>1. handed \in [1 .. Len(handed) -> Nat] /\ Len(handed) \in Nat
      BY <2>1
    <3>2. handed' \in [1 .. Len(handed) -> Nat]
      BY <1>3, <2>3, <3>1, AddTo
    <3> QED
      BY <3>1, <3>2
  <2> QED
    BY <2>2, <2>3 DEF Return
<1>5. continuing' \in BOOLEAN
  BY DEF Return, HaveMoreOutput
<1> QED
  BY <1>1, <1>2, <1>3, <1>4, <1>5 DEF TypeOK, Return, server, exchange

LEMMA FailTypeOK == ASSUME TypeOK, NEW t \in tasks, CallFails(t) PROVE TypeOK'
<1>1. stage' \in [Threads -> Stages]
  BY DEF TypeOK, CallFails, Stages, Ended
<1>2. lock' \in SUBSET tasks
  BY DEF TypeOK, CallFails
<1> QED
  BY <1>1, <1>2 DEF TypeOK, CallFails, server, exchange, chunk

LEMMA StopTypeOK == ASSUME TypeOK, NEW t \in tasks, Stop(t) PROVE TypeOK'
<1>1. stage' \in [Threads -> Stages]
  BY DEF TypeOK, Stop, Stages, Ended
<1> QED
  BY <1>1 DEF TypeOK, Stop, server, exchange, chunk

LEMMA ServerTypeOK == ASSUME TypeOK, Server PROVE TypeOK'
<1>1. UNCHANGED <<tasks, lock, continuing, stage, input, exchange, chunk, handed>>
  BY DEF Server
<1>2. answered' \in Nat /\ closed' \in BOOLEAN /\ replies' \in Seq(Batches)
  <2>1. answered \in Nat /\ closed \in BOOLEAN /\ replies \in Seq(Batches)
    BY DEF TypeOK, Batches
  <2>2. CASE Answer
    <3>1. sent[answered + 1] \in Inputs
      BY <2>2, Answers
    <3>2. ReplyTo(sent[answered + 1]) \in Seq(Batches)
      BY <3>1, ReplyToType
    <3> QED
      BY <2>1, <2>2, <3>2 DEF Answer
  <2>3. CASE Close
    <3>1. PICK last \in {"chunk_continues", "chunk_finished"} :
            replies' = replies \o FinalBatches(last)
      BY <2>3 DEF Close
    <3>2. FinalBatches(last) \in Seq(Batches)
      BY FinalType
    <3> QED
      BY <2>1, <2>3, <3>1, <3>2 DEF Close
  <2> QED
    BY <2>2, <2>3 DEF Server
<1> QED
  BY <1>1, <1>2 DEF TypeOK, Batches, exchange, chunk

LEMMA InitLockInv == Init => LockInv
BY NumInputsAssumption DEF Init, LockInv

\* The step of a thread takes the lock, keeps it, or releases it.
LEMMA ThreadLockInv ==
  ASSUME TypeOK, LockInv, NEW t \in tasks, ThreadStep(t) PROVE LockInv'
<1>1. t \in Threads /\ tasks \subseteq Threads
  BY DEF TypeOK
<1>2. CASE Call(t)
  <2>1. UNCHANGED input /\ \A u \in Threads \ {t} : stage'[u] = stage[u]
    BY <1>1, <1>2 DEF TypeOK, Call
  <2>2. \A u \in Threads : stage[u] \notin {"read", "return"}
    BY <1>2 DEF LockInv, Call
  <2> QED
    BY <1>1, <1>2, <2>1, <2>2, CallEffect DEF LockInv, Finalizing
<1>3. CASE Read(t)
  <2>1. UNCHANGED input /\ \A u \in Threads \ {t} : stage'[u] = stage[u]
    BY <1>1, <1>3 DEF TypeOK, Read
  <2> QED
    BY <1>1, <1>3, <2>1, ReadEffect DEF LockInv, Finalizing
<1>4. CASE Return(t)
  <2>1. /\ lock = {t} /\ lock' = {} /\ tasks' = tasks /\ \A u \in Threads \ {t} : stage'[u] = stage[u]
        /\ stage'[t] = IF Finalizing(t) /\ ~HaveMoreOutput THEN "finished" ELSE "call"
    BY <1>4, ReturnEffect
  <2>2. stage'[t] \notin {"read", "return"} /\ (stage'[t] = "finished" => Finalizing(t) /\ ~HaveMoreOutput)
    BY <2>1
  <2>3. \A u \in Threads : stage'[u] \notin {"read", "return"}
    BY <2>1, <2>2 DEF LockInv
  <2>4. ASSUME NEW u \in Threads, stage'[u] = "finished" PROVE Finalizing(u)'
    <3>1. CASE u = t
      BY <1>4, <2>2, <2>4, <3>1 DEF Finalizing, Return
    <3>2. CASE u # t
      <4>1. Finalizing(u) /\ input'[u] = input[u]
        BY <1>1, <1>4, <2>1, <2>4, <3>2 DEF LockInv, TypeOK, Return
      <4> QED
        BY <4>1 DEF Finalizing
    <3> QED
      BY <3>1, <3>2
  <2> QED
    BY <1>1, <2>1, <2>3, <2>4 DEF LockInv
<1>5. CASE CallFails(t)
  <2>1. UNCHANGED input
    BY <1>5 DEF CallFails
  <2>2. \A u \in Threads \ {t} : stage'[u] \notin {"read", "return"}
    BY <1>1, <1>5, FailEffect DEF LockInv, CallFails
  <2> QED
    BY <1>1, <1>5, <2>1, <2>2, FailEffect DEF LockInv, Finalizing
<1>6. CASE Stop(t)
  <2>1. UNCHANGED <<input, lock>>
    BY <1>6 DEF Stop
  <2> QED
    BY <1>1, <1>6, <2>1, StopEffect DEF LockInv, Finalizing
<1> QED
  BY <1>2, <1>3, <1>4, <1>5, <1>6 DEF ThreadStep

-----------------------------------------------------------------------------
(* The steps of a thread.                                                  *)

\* The inductive invariant, but for what follows from the rest of it.
StreamInv ==
  /\ TypeOK /\ LockInv /\ ServerInv /\ ChunkInv /\ HandedInv
  /\ AnswersEndInPartialVectors => ContinuingMeansMoreOutput /\ NoReadWithoutAnswer
  /\ LockstepInv /\ CompletionInv /\ AloneInv

\* What the numbers are.
Numbers ==
  /\ tasks \subseteq Threads
  /\ answered \in Nat /\ taken \in Nat /\ chunk_length \in Nat /\ chunk_offset \in Nat
  /\ Len(sent) \in Nat /\ Len(replies) \in Nat /\ Len(handed) \in Nat
  /\ continuing \in BOOLEAN /\ done_writing \in BOOLEAN /\ closed \in BOOLEAN
  /\ \A t \in Threads : input[t] \in 1 .. NumInputs + 1

LEMMA NumbersHold == ASSUME TypeOK PROVE Numbers
BY DEF TypeOK, Numbers

\* The next of a sequence of pairs that are numbered in turn.
LEMMA AppendInTurn ==
  ASSUME NEW S, NEW s \in Seq(S), NEW t, \A i \in 1 .. Len(s) : s[i] = <<t, i>>
  PROVE  LET next == Append(s, <<t, Len(s) + 1>>)
         IN  Len(next) = Len(s) + 1 /\ \A i \in 1 .. Len(next) : next[i] = <<t, i>>
<1> DEFINE next == Append(s, <<t, Len(s) + 1>>)
<1>1. /\ Len(s) \in Nat /\ Len(next) = Len(s) + 1 /\ next[Len(s) + 1] = <<t, Len(s) + 1>>
      /\ \A i \in 1 .. Len(s) : next[i] = s[i]
  OBVIOUS
<1> HIDE DEF next
<1>2. ASSUME NEW i \in 1 .. Len(s) + 1 PROVE next[i] = <<t, i>>
  <2>1. CASE i = Len(s) + 1
    BY <1>1, <2>1
  <2>2. CASE i \in 1 .. Len(s)
    BY <1>1, <2>2
  <2> QED
    BY <1>1, <2>1, <2>2
<1> QED
  BY <1>1, <1>2 DEF next

\* A thread writes only when the exchange is idle.
LEMMA CallKeeps ==
  ASSUME StreamInv, NEW t \in tasks, Call(t) PROVE StreamInv'
<1>1. TypeOK /\ LockInv /\ TypeOK' /\ LockInv' /\ t \in Threads
  BY CallTypeOK, ThreadLockInv, NumbersHold DEF StreamInv, ThreadStep, Numbers
<1>2. /\ lock = {} /\ ~Reading /\ ~Handing
      /\ lock' = {t} /\ Active' /\ tasks' = tasks
      /\ Reading' <=> chunk_offset = 0
      /\ Handing' <=> chunk_offset # 0
      /\ NoneFailed' <=> NoneFailed
      /\ \A u \in Threads : stage'[u] = "finished" <=> stage[u] = "finished"
      /\ stage[t] = "call" /\ stage'[t] \in {"read", "return"}
  BY <1>1, CallEffect
<1>3. \/ continuing /\ sent' = sent /\ done_writing' = done_writing
      \/ ~continuing /\ Finalizing(t) /\ done_writing' /\ sent' = sent
      \/ /\ ~continuing /\ ~Finalizing(t) /\ ~done_writing /\ ~done_writing'
         /\ sent' = Append(sent, <<t, input[t]>>)
  BY <1>1, SendType DEF Call
<1>4. UNCHANGED <<continuing, input, answered, replies, closed, taken, chunk_length,
                  chunk_offset, metadata, handed>>
  BY DEF Call, server, chunk
<1>5. sent' = Append(sent, <<t, input[t]>>) =>
        /\ Len(sent') = Len(sent) + 1 /\ sent'[Len(sent) + 1] = <<t, input[t]>>
        /\ \A i \in 1 .. Len(sent) : sent'[i] = sent[i]
  BY SMTT(30), <1>1 DEF TypeOK
<1>n. Numbers
  BY <1>1, NumbersHold
<1>6. ServerInv'
  BY <1>3, <1>4, <1>5, <1>n DEF StreamInv, ServerInv, Numbers
<1>7. ChunkInv'
  BY <1>2, <1>4, <1>n DEF StreamInv, ChunkInv, Numbers
<1>8. HandedInv'
  BY <1>2, <1>4, <1>n DEF StreamInv, HandedInv, RowsHandedOutOnce, Numbers
<1>9. chunk_offset # 0 => continuing
  BY <1>n DEF StreamInv, ChunkInv, Numbers
<1>10. ASSUME AnswersEndInPartialVectors
       PROVE  ContinuingMeansMoreOutput' /\ NoReadWithoutAnswer'
  <2>1. ContinuingMeansMoreOutput'
    BY <1>2, <1>4, <1>10, <1>n DEF StreamInv, ContinuingMeansMoreOutput, Numbers
  <2>2. ASSUME Reading' PROVE (taken < Len(replies) \/ closed \/ answered < Len(sent) \/ done_writing)'
    <3>1. CASE continuing
      <4>1. metadata = "chunk_continues"
        BY <1>2, <1>10, <1>n, <2>2, <3>1 DEF StreamInv, ContinuingMeansMoreOutput, Numbers
      <4>2. taken \in 1 .. Len(replies) /\ replies[taken].tag = "chunk_continues"
        BY <4>1, <1>n DEF StreamInv, ChunkInv, Numbers
      <4> QED
        BY <1>4, <4>2 DEF StreamInv, ServerInv
    <3>2. CASE ~continuing
      <4>1. answered <= Len(sent)
        BY DEF StreamInv, ServerInv
      <4> QED
        BY <1>3, <1>4, <1>5, <1>n, <3>2, <4>1 DEF Numbers
    <3> QED
      BY <3>1, <3>2
  <2> QED
    BY <2>1, <2>2 DEF NoReadWithoutAnswer
<1>11. LockstepInv'
  <2> SUFFICES ASSUME NoneFailed
               PROVE  InLockstep'
    BY <1>2 DEF LockstepInv
  <2>1. InLockstep
    BY DEF StreamInv, LockstepInv
  <2>2. CASE continuing
    BY <1>2, <1>3, <1>4, <1>n, <2>1, <2>2 DEF Numbers, InLockstep
  <2>3. CASE ~continuing
    <3>1. taken = Len(replies) /\ answered = Len(sent) /\ chunk_offset = 0
      BY <1>2, <1>9, <1>n, <2>1, <2>3 DEF Numbers, Active, InLockstep
    <3> QED
      BY <1>2, <1>3, <1>4, <1>5, <1>n, <2>1, <2>3, <3>1 DEF Numbers, InLockstep
  <2> QED
    BY <2>2, <2>3, <1>n DEF Numbers
<1>12. CompletionInv'
  <2>1. stage'[t] # "finished"
    BY <1>2
  <2>2. ~done_writing' => \E u \in tasks' : ~Finalizing(u)'
    <3>1. CASE continuing
      BY <1>2, <1>3, <1>4, <3>1 DEF StreamInv, CompletionInv, Active, Finalizing
    <3>2. CASE ~continuing
      BY <1>2, <1>3, <1>4, <3>2 DEF Finalizing
    <3> QED
      BY <3>1, <3>2, <1>n DEF Numbers
  <2> QED
    BY <1>2, <2>1, <2>2 DEF CompletionInv
<1>13. AloneInv'
  <2> SUFFICES ASSUME tasks = {t}
               PROVE  Alone(t)'
    BY <1>1, <1>2 DEF AloneInv
  <2>1. Alone(t)
    BY <1>1 DEF StreamInv, AloneInv
  <2>2. NoneFailed
    BY <1>2 DEF NoneFailed
  <2>3. Active <=> continuing
    BY <1>2 DEF Active
  <2>4. (Finalizing(t)' <=> Finalizing(t)) /\ stage[t] # "failed" /\ stage'[t] # "failed"
    BY <1>2, <1>4 DEF Finalizing
  <2>5. stage'[t] = "return" => chunk_offset # 0
    BY <1>1, <1>2 DEF Handing
  <2>6. CASE continuing
    BY <1>1, <1>2, <1>3, <1>4, <1>n, <2>1, <2>3, <2>4, <2>5, <2>6 DEF Numbers, Alone, SentInTurn
  <2>7. CASE ~continuing
    <3>1. taken = Len(replies) /\ answered = Len(sent)
      BY <2>2, <2>3, <2>7 DEF StreamInv, LockstepInv, InLockstep
    <3>2. ~Active /\ chunk_offset = 0 /\ stage'[t] # "return"
      BY <1>9, <1>n, <2>3, <2>5, <2>7 DEF Numbers
    <3>3. Len(sent) = input[t] - 1 /\ input[t] \in Nat /\ \A i \in 1 .. Len(sent) : sent[i] = <<t, i>>
      BY <1>1, <1>n, <2>1, <2>4, <3>2 DEF Numbers, Alone, SentInTurn
    <3>4. SentInTurn(t)'
      <4>1. CASE Finalizing(t)
        BY <1>2, <1>3, <1>4, <2>4, <2>7, <3>3, <4>1 DEF SentInTurn
      <4>2. CASE ~Finalizing(t)
        <5>1. sent' = Append(sent, <<t, Len(sent) + 1>>) /\ sent \in Seq(Inputs)
          BY SMTT(30), <1>1, <1>3, <2>7, <3>3, <4>2 DEF TypeOK
        <5>2. Len(sent') = Len(sent) + 1 /\ \A i \in 1 .. Len(sent') : sent'[i] = <<t, i>>
          BY <3>3, <5>1, AppendInTurn
        <5>3. Len(sent') = input[t]
          BY <1>n, <3>3, <5>2 DEF Numbers
        <5> QED
          BY <1>2, <1>4, <2>4, <4>2, <5>2, <5>3 DEF SentInTurn
      <4> QED
        BY <4>1, <4>2
    <3>5. (~Finalizing(t) => ~done_writing') /\ (Finalizing(t) => done_writing')
      BY <1>3, <1>n, <2>1, <2>7 DEF Numbers, Alone
    <3>6. ~\E b \in 1 .. Len(replies) : b > taken
      BY <1>n, <3>1 DEF Numbers
    <3> QED
      BY <1>2, <1>4, <2>4, <3>2, <3>4, <3>5, <3>6 DEF Alone
  <2> QED
    BY <2>6, <2>7, <1>n DEF Numbers
<1> QED
  BY <1>1, <1>2, <1>6, <1>7, <1>8, <1>10, <1>11, <1>12, <1>13 DEF StreamInv

\* A thread takes a batch only when the one before is used up.
LEMMA ReadKeeps ==
  ASSUME StreamInv, NEW t \in tasks, Read(t) PROVE StreamInv'
<1>1. TypeOK /\ LockInv /\ TypeOK' /\ LockInv' /\ t \in Threads
  BY ReadTypeOK, ThreadLockInv, NumbersHold DEF StreamInv, ThreadStep, Numbers
<1>2. /\ lock = {t} /\ Reading /\ ~Handing
      /\ lock' = {t} /\ Active /\ Active' /\ ~Reading' /\ Handing' /\ tasks' = tasks
      /\ NoneFailed' <=> NoneFailed
      /\ \A u \in Threads : stage'[u] = "finished" <=> stage[u] = "finished"
      /\ stage[t] = "read" /\ stage'[t] = "return"
  BY <1>1, ReadEffect
<1>3. UNCHANGED <<continuing, input, answered, replies, closed, sent, done_writing, chunk_offset>>
  BY DEF Read, server, exchange
<1>n. Numbers
  BY <1>1, NumbersHold
<1>4. chunk_offset = 0 /\ (taken > 0 => handed[taken] = replies[taken].rows)
  BY <1>2, <1>n DEF StreamInv, HandedInv, Numbers
<1>5. \/ /\ taken < Len(replies) /\ taken' = taken + 1
         /\ chunk_length' = replies[taken + 1].rows /\ metadata' = replies[taken + 1].tag
         /\ handed' = Append(handed, 0)
      \/ /\ taken = Len(replies) /\ closed
         /\ chunk_length' = 0 /\ metadata' = "null" /\ taken' = taken /\ handed' = handed
  BY DEF Read
<1>6. ServerInv'
  BY <1>3 DEF StreamInv, ServerInv
<1>7. ChunkInv'
  <2>1. taken < Len(replies) => metadata' # "null" /\ chunk_length' \in Nat
    <3> SUFFICES ASSUME taken < Len(replies) PROVE metadata' # "null" /\ chunk_length' \in Nat
      OBVIOUS
    <3>1. taken + 1 \in 1 .. Len(replies)
      BY <1>n DEF Numbers
    <3>2. replies[taken + 1].tag # "null"
      BY <3>1 DEF StreamInv, ServerInv
    <3> QED
      BY <1>1, <1>5, <3>1, <3>2, BatchType
  <2> QED
    BY <1>2, <1>3, <1>4, <1>5, <1>n, <2>1 DEF StreamInv, ChunkInv, Numbers
<1>8. HandedInv'
  <2>1. Len(handed) = taken /\ \A b \in 1 .. taken - 1 : handed[b] = replies[b].rows
    BY DEF StreamInv, HandedInv, RowsHandedOutOnce
  <2>2. CASE taken < Len(replies)
    <3>1. Len(handed') = taken + 1 /\ handed'[taken + 1] = 0 /\ \A b \in 1 .. taken : handed'[b] = handed[b]
      <4>1. handed \in Seq(Nat) /\ handed' = Append(handed, 0)
        BY SMTT(30), <1>1, <1>5, <1>n, <2>2 DEF TypeOK, Numbers
      <4> QED
        BY <4>1, <1>n, <2>1 DEF Numbers
    <3>2. \A b \in 1 .. taken' - 1 : handed'[b] = replies'[b].rows
      BY SMTT(30), <1>3, <1>4, <1>5, <1>n, <2>1, <2>2, <3>1 DEF Numbers
    <3>3. taken' = taken + 1 /\ metadata' # "null"
      BY SMTT(30), <1>5, <1>7, <1>n, <2>2, <3>1 DEF ChunkInv, StreamInv, ServerInv, Numbers
    <3> QED
      BY <1>2, <1>3, <1>4, <1>n, <3>1, <3>2, <3>3 DEF HandedInv, RowsHandedOutOnce, Numbers
  <2>3. CASE ~(taken < Len(replies))
    BY <1>2, <1>3, <1>4, <1>5, <1>n, <2>1, <2>3 DEF HandedInv, RowsHandedOutOnce, Numbers
  <2> QED
    BY <2>2, <2>3
<1>9. ContinuingMeansMoreOutput' /\ NoReadWithoutAnswer'
  BY <1>2 DEF ContinuingMeansMoreOutput, NoReadWithoutAnswer
<1>10. LockstepInv'
  <2> SUFFICES ASSUME NoneFailed
               PROVE  InLockstep'
    BY <1>2 DEF LockstepInv
  <2>1. InLockstep
    BY DEF StreamInv, LockstepInv
  <2>2. answered = Len(sent) /\ (taken < Len(replies) => (done_writing => closed))
    BY <1>2, <1>5, <1>n, <2>1 DEF StreamInv, ServerInv, InLockstep, Numbers
  <2>3. taken' = taken \/ taken' = taken + 1
    BY <1>5, <1>n DEF Numbers
  <2>4. metadata' = "chunk_finished" => taken' = Len(replies)
    BY <1>5, <1>n, <2>1 DEF InLockstep, Numbers
  <2>5. \A b \in taken' + 1 .. Len(replies') : replies'[b].tag = "chunk_finished" => b = Len(replies')
    <3> SUFFICES ASSUME NEW b, b \in taken' + 1 .. Len(replies), replies[b].tag = "chunk_finished"
                 PROVE  b = Len(replies)
      BY <1>3
    <3>1. taken \in Nat /\ Len(replies) \in Nat
      BY <1>n DEF Numbers
    <3>2. b \in taken + 1 .. Len(replies)
      BY <2>3, <3>1
    <3> QED
      BY <2>1, <3>2 DEF InLockstep
  <2>6. done_writing => closed
    BY <1>5, <1>n, <2>2 DEF Numbers
  <2> QED
    BY <1>2, <1>3, <1>n, <2>2, <2>4, <2>5, <2>6 DEF InLockstep, Numbers
<1>11. CompletionInv'
  BY <1>1, <1>2, <1>3, <1>n DEF StreamInv, CompletionInv, Finalizing, Numbers
<1>12. AloneInv'
  <2> SUFFICES ASSUME tasks = {t}
               PROVE  Alone(t)'
    BY <1>1, <1>2 DEF AloneInv
  <2>1. Alone(t)
    BY <1>1 DEF StreamInv, AloneInv
  <2>2. (Finalizing(t)' <=> Finalizing(t)) /\ stage[t] # "failed" /\ stage'[t] # "failed"
    BY <1>2, <1>3 DEF Finalizing
  <2>3. ASSUME NEW b \in 1 .. Len(replies),
               b > taken' \/ (b = taken' /\ metadata' # "null")
        PROVE  b > taken
    BY <1>5, <1>n, <2>3 DEF Numbers
  <2>4. SentInTurn(t)'
    BY <1>2, <1>3, <2>1, <2>2 DEF Alone, SentInTurn
  <2>5. Finalizing(t) => done_writing
    BY <1>2, <2>1, <2>2 DEF Alone
  <2>6. \A b \in 1 .. Len(replies) : b > taken =>
          replies[b].input = IF Finalizing(t) THEN Final ELSE <<t, input[t]>>
    BY <1>2, <2>1, <2>2 DEF Alone
  <2> QED
    BY <1>3, <2>1, <2>2, <2>3, <2>4, <2>5, <2>6 DEF Alone
<1> QED
  BY <1>1, <1>6, <1>7, <1>8, <1>9, <1>10, <1>11, <1>12 DEF StreamInv

\* One vector more is a multiple of the vector size.
LEMMA NextMultiple ==
  ASSUME NEW k \in Nat, NEW v \in Nat PROVE (k + 1) * v = k * v + v
OBVIOUS

\* There is output left only if this call was not the end of an answer.
LEMMA LeftOver ==
  ASSUME StreamInv, Handing, ~HaveMoreOutput
  PROVE  /\ NextOffset = 0
         /\ NoneFailed => taken = Len(replies) /\ answered = Len(sent)
         /\ metadata = "chunk_finished" \/ closed
<1>1. TypeOK /\ Numbers /\ chunk_offset <= chunk_length
  BY NumbersHold DEF StreamInv, ChunkInv
<1>2. NextOffset \in Nat /\ (NextOffset > 0 => OutputSize = VectorSize /\ NextOffset # chunk_length)
  BY <1>1, Output
<1>3. NextOffset = 0 /\ metadata # "chunk_continues"
  BY <1>2 DEF HaveMoreOutput
<1>4. metadata \in Metadata
  BY <1>1 DEF TypeOK
<1>5. CASE metadata = "null"
  BY <1>3, <1>5 DEF StreamInv, ChunkInv, ServerInv
<1>6. CASE metadata = "chunk_finished"
  BY <1>3, <1>6 DEF StreamInv, LockstepInv, InLockstep
<1> QED
  BY <1>3, <1>4, <1>5, <1>6 DEF Metadata

\* What a call hands out is the next part of the batch, counted where the batch is.
LEMMA HandedOut ==
  ASSUME StreamInv, NEW t \in tasks, Return(t)
  PROVE  /\ OutputSize # 0 => taken \in 1 .. Len(handed) /\ metadata # "null"
         /\ handed' = handed \/ handed'[taken] = handed[taken] + OutputSize
         /\ Len(handed') = Len(handed)
         /\ \A b \in 1 .. Len(handed) : b # taken \/ OutputSize = 0 => handed'[b] = handed[b]
         /\ OutputSize # 0 => handed'[taken] = chunk_offset + OutputSize
<1>1. TypeOK /\ LockInv /\ Numbers /\ chunk_offset <= chunk_length
  BY NumbersHold DEF StreamInv, ChunkInv
<1>2. Handing /\ OutputSize \in Nat /\ chunk_offset + OutputSize <= chunk_length
  BY <1>1, Output, ReturnEffect
<1>3. Len(handed) = taken
  BY DEF StreamInv, HandedInv, RowsHandedOutOnce
<1>4. CASE OutputSize = 0
  BY <1>1, <1>4 DEF Return
<1>5. CASE OutputSize # 0
  <2>1. metadata # "null" /\ taken > 0
    BY <1>1, <1>2, <1>5 DEF StreamInv, ChunkInv, Numbers
  <2>2. taken \in 1 .. Len(handed) /\ handed[taken] = chunk_offset
    BY <1>1, <1>2, <1>3, <2>1 DEF StreamInv, HandedInv, Numbers
  <2>3. handed' = [handed EXCEPT ![taken] = @ + OutputSize] /\ handed \in Seq(Nat)
    BY <1>1, <1>5 DEF Return, TypeOK
  <2>4. /\ Len(handed') = Len(handed) /\ handed'[taken] = handed[taken] + OutputSize
        /\ \A b \in 1 .. Len(handed) : b # taken => handed'[b] = handed[b]
    BY <2>2, <2>3
  <2> QED
    BY <1>5, <2>1, <2>2, <2>4
<1> QED
  BY <1>4, <1>5

\* A call returns the next vector, and goes on to the next input only when the answer to
\* this one is used up.
LEMMA ReturnKeeps ==
  ASSUME StreamInv, NEW t \in tasks, Return(t) PROVE StreamInv'
<1>1. TypeOK /\ LockInv /\ TypeOK' /\ LockInv' /\ t \in Threads
  BY ReturnTypeOK, ThreadLockInv, NumbersHold DEF StreamInv, ThreadStep, Numbers
<1>2. /\ lock = {t} /\ Active /\ Handing /\ ~Reading
      /\ lock' = {} /\ ~Reading' /\ ~Handing' /\ tasks' = tasks
      /\ continuing' = HaveMoreOutput
      /\ Active' <=> HaveMoreOutput
      /\ NoneFailed' <=> NoneFailed
      /\ \A u \in Threads \ {t} : stage'[u] = stage[u]
      /\ stage[t] = "return"
      /\ stage'[t] = IF Finalizing(t) /\ ~HaveMoreOutput THEN "finished" ELSE "call"
  BY <1>1, ReturnEffect
<1>3. /\ UNCHANGED <<answered, replies, closed, sent, done_writing, taken, chunk_length, metadata>>
      /\ chunk_offset' = NextOffset
      /\ input' = IF HaveMoreOutput \/ Finalizing(t) THEN input
                  ELSE [input EXCEPT ![t] = @ + 1]
  BY DEF Return, server, exchange
<1>n. Numbers
  BY <1>1, NumbersHold
<1>4. /\ OutputSize \in Nat /\ NextOffset \in Nat
      /\ chunk_offset + OutputSize <= chunk_length /\ NextOffset <= chunk_length
      /\ OutputSize = 0 <=> chunk_offset = chunk_length
      /\ NextOffset = 0 <=> chunk_offset + OutputSize = chunk_length
      /\ NextOffset > 0 =>
           /\ OutputSize = VectorSize /\ NextOffset # chunk_length
           /\ NextOffset = chunk_offset + VectorSize
  BY <1>1, Output DEF StreamInv, ChunkInv
<1>5. NextOffset > 0 => HaveMoreOutput
  BY <1>4 DEF HaveMoreOutput
<1>6. ~HaveMoreOutput =>
        /\ NextOffset = 0
        /\ NoneFailed => taken = Len(replies) /\ answered = Len(sent)
        /\ metadata = "chunk_finished" \/ closed
  BY <1>2, LeftOver
<1>7. ServerInv'
  BY <1>3 DEF StreamInv, ServerInv
<1>8. ASSUME NEW k \in 0 .. chunk_offset, chunk_offset = k * VectorSize
      PROVE  /\ k \in Nat /\ (k + 1) * VectorSize = chunk_offset + VectorSize
             /\ k + 1 \in 0 .. chunk_offset + VectorSize
  <2>1. k \in Nat /\ VectorSize \in Nat \ {0}
    BY <1>n, InOutVectorAssumption DEF Numbers
  <2>2. (k + 1) * VectorSize = k * VectorSize + VectorSize
    BY <2>1, NextMultiple
  <2>3. k + 1 \in 0 .. chunk_offset + VectorSize
    BY <1>n, <2>1 DEF Numbers
  <2> QED
    BY <1>8, <2>1, <2>2, <2>3
<1>9. ChunkInv'
  <2>1. PICK k \in 0 .. chunk_offset : chunk_offset = k * VectorSize
    BY DEF StreamInv, ChunkInv
  <2>2. \E m \in 0 .. NextOffset : NextOffset = m * VectorSize
    <3>1. CASE NextOffset = 0
      <4>1. 0 \in 0 .. NextOffset /\ NextOffset = 0 * VectorSize
        BY <3>1, InOutVectorAssumption
      <4> QED
        BY <4>1
    <3>2. CASE NextOffset > 0
      BY <1>4, <1>8, <2>1, <3>2
    <3> QED
      BY <1>4, <3>1, <3>2
  <2>3. taken <= Len(replies) /\ NextOffset <= chunk_length /\ (NextOffset > 0 => continuing')
    BY <1>2, <1>4, <1>5 DEF StreamInv, ChunkInv
  <2> QED
    BY <1>2, <1>3, <2>2, <2>3 DEF StreamInv, ChunkInv
<1>10. HandedInv'
  <2>1. /\ OutputSize # 0 => taken \in 1 .. Len(handed) /\ metadata # "null"
        /\ Len(handed') = Len(handed)
        /\ \A b \in 1 .. Len(handed) : b # taken \/ OutputSize = 0 => handed'[b] = handed[b]
        /\ OutputSize # 0 => handed'[taken] = chunk_offset + OutputSize
    BY HandedOut
  <2>2. Len(handed) = taken /\ \A b \in 1 .. taken - 1 : handed[b] = replies[b].rows
    BY DEF StreamInv, HandedInv, RowsHandedOutOnce
  <2>3. ASSUME taken > 0
        PROVE  IF NextOffset > 0 /\ metadata # "null" THEN handed'[taken] = NextOffset
               ELSE handed'[taken] = replies[taken].rows
    <3>1. CASE metadata = "null"
      BY <1>2, <1>n, <2>1, <2>2, <2>3, <3>1 DEF StreamInv, HandedInv, Numbers
    <3>2. CASE metadata # "null"
      <4>1. handed[taken] = chunk_offset /\ chunk_length = replies[taken].rows
        BY <1>2, <2>3, <3>2 DEF StreamInv, HandedInv, ChunkInv
      <4>2. handed'[taken] = chunk_offset + OutputSize
        BY <1>4, <1>n, <2>1, <2>2, <2>3, <4>1 DEF Numbers
      <4> QED
        BY <1>4, <3>2, <4>1, <4>2
    <3> QED
      BY <3>1, <3>2
  <2>4. \A b \in 1 .. taken - 1 : handed'[b] = replies[b].rows
    BY <1>n, <2>1, <2>2 DEF Numbers
  <2>5. NextOffset > 0 => metadata # "null"
    BY <1>4, <1>n DEF StreamInv, ChunkInv, Numbers
  <2> QED
    BY <1>2, <1>3, <1>4, <1>n, <2>1, <2>2, <2>3, <2>4, <2>5 DEF HandedInv, RowsHandedOutOnce, Numbers
<1>11. ASSUME AnswersEndInPartialVectors
       PROVE  ContinuingMeansMoreOutput' /\ NoReadWithoutAnswer'
  <2>1. NoReadWithoutAnswer'
    BY <1>2 DEF NoReadWithoutAnswer
  <2>2. ASSUME HaveMoreOutput, NextOffset = 0, metadata # "chunk_continues" PROVE FALSE
    <3>1. OutputSize = VectorSize /\ chunk_length # 0 /\ chunk_offset + VectorSize = chunk_length
      BY <1>4, <2>2 DEF HaveMoreOutput
    <3>2. taken \in 1 .. Len(replies) /\ metadata = replies[taken].tag /\ chunk_length = replies[taken].rows
      BY <1>n, <3>1 DEF StreamInv, ChunkInv, Numbers
    <3> DEFINE reply == IF replies[taken].input = Final THEN FinalReply ELSE Reply
    <3>3. reply # <<>> /\ chunk_length = reply[Len(reply)]
      BY <2>2, <3>2 DEF StreamInv, ServerInv
    <3>4. PICK k \in 0 .. chunk_offset : chunk_offset = k * VectorSize
      BY DEF StreamInv, ChunkInv
    <3>5. chunk_length = (k + 1) * VectorSize /\ k + 1 \in 1 .. chunk_length
      BY <1>8, <1>n, <3>1, <3>4 DEF Numbers
    <3>6. LastVectorPartial(reply)
      BY <1>11 DEF AnswersEndInPartialVectors
    <3> HIDE DEF reply
    <3> QED
      BY <3>3, <3>5, <3>6 DEF LastVectorPartial
  <2>3. ContinuingMeansMoreOutput'
    BY <1>2, <1>3, <1>4, <2>2 DEF ContinuingMeansMoreOutput
  <2> QED
    BY <2>1, <2>3
<1>12. LockstepInv'
  <2> SUFFICES ASSUME NoneFailed
               PROVE  InLockstep'
    BY <1>2 DEF LockstepInv
  <2>1. InLockstep
    BY DEF StreamInv, LockstepInv
  <2> QED
    BY <1>2, <1>3, <1>6, <1>n, <2>1 DEF InLockstep, Numbers
<1>13. CompletionInv'
  <2>1. HaveMoreOutput => stage'[t] # "finished"
    BY <1>2
  <2>2. ASSUME ~done_writing PROVE \E u \in tasks : stage'[u] # "finished"
    <3>1. PICK u \in tasks : ~Finalizing(u)
      BY <1>2, <2>2 DEF StreamInv, CompletionInv
    <3>2. CASE u = t
      BY <1>2, <3>1, <3>2
    <3>3. CASE u # t
      BY <1>1, <1>2, <1>n, <3>1, <3>3 DEF LockInv, Numbers
    <3> QED
      BY <3>2, <3>3
  <2>3. ASSUME ~done_writing, HaveMoreOutput PROVE \E u \in tasks : ~Finalizing(u)'
    BY <1>2, <1>3, <2>3 DEF StreamInv, CompletionInv, Finalizing
  <2> QED
    BY <1>2, <1>3, <2>1, <2>2, <2>3 DEF CompletionInv
<1>14. AloneInv'
  <2> SUFFICES ASSUME tasks = {t}
               PROVE  Alone(t)'
    BY <1>1, <1>2 DEF AloneInv
  <2>1. Alone(t)
    BY <1>1 DEF StreamInv, AloneInv
  <2>2. stage'[t] # "failed" /\ stage[t] # "failed"
    BY <1>2
  <2>3. CASE HaveMoreOutput
    <3>1. input' = input
      BY <1>3, <2>3
    <3> QED
      BY <1>2, <1>3, <2>1, <2>2, <2>3, <3>1 DEF Alone, SentInTurn, Finalizing
  <2>4. CASE ~HaveMoreOutput
    <3>1. CASE Finalizing(t)
      <4>1. input' = input
        BY <1>3, <3>1
      <4> QED
        BY <1>2, <1>3, <2>1, <2>2, <2>4, <3>1, <4>1 DEF Alone, SentInTurn, Finalizing
    <3>2. CASE ~Finalizing(t)
      <4>1. input'[t] = input[t] + 1 /\ input[t] \in Nat
        BY <1>1, <1>3, <2>4, <3>2 DEF TypeOK
      <4> QED
        BY <1>2, <1>3, <1>n, <2>1, <2>2, <2>4, <3>2, <4>1 DEF Alone, SentInTurn, Finalizing, Numbers
    <3> QED
      BY <3>1, <3>2
  <2> QED
    BY <2>3, <2>4
<1> QED
  BY <1>1, <1>7, <1>9, <1>10, <1>11, <1>12, <1>13, <1>14 DEF StreamInv

\* After a failure the threads that are left may find the answer to another input; the
\* rows they read are still handed out once.
LEMMA FailKeeps ==
  ASSUME StreamInv, NEW t \in tasks, CallFails(t) PROVE StreamInv'
<1>1. TypeOK /\ LockInv /\ TypeOK' /\ LockInv' /\ t \in Threads
  BY FailTypeOK, ThreadLockInv, NumbersHold DEF StreamInv, ThreadStep, Numbers
<1>2. /\ ~Handing /\ lock' = {} /\ ~Reading' /\ ~Handing' /\ ~NoneFailed' /\ tasks' = tasks
      /\ \/ lock = {} /\ ~continuing /\ done_writing
         \/ Active
      /\ stage[t] \in {"call", "read"}
      /\ \A u \in Threads \ {t} : stage'[u] = stage[u]
      /\ stage'[t] = "failed"
  BY <1>1, FailEffect
<1>3. UNCHANGED <<continuing, input, answered, replies, closed, sent, done_writing, taken,
                  chunk_length, chunk_offset, metadata, handed>>
  BY DEF CallFails, server, exchange, chunk
<1>n. Numbers
  BY <1>1, NumbersHold
<1>4. ServerInv' /\ ChunkInv'
  BY <1>2, <1>3 DEF StreamInv, ServerInv, ChunkInv
<1>5. HandedInv'
  BY <1>2, <1>3 DEF StreamInv, HandedInv, RowsHandedOutOnce
<1>6. ASSUME AnswersEndInPartialVectors
      PROVE  ContinuingMeansMoreOutput' /\ NoReadWithoutAnswer'
  BY <1>2, <1>3, <1>6 DEF StreamInv, ContinuingMeansMoreOutput, NoReadWithoutAnswer
<1>7. LockstepInv'
  BY <1>2 DEF LockstepInv
<1>8. CompletionInv'
  <2>1. stage'[t] # "finished"
    BY <1>2
  <2>2. ~done_writing /\ Active' => \E u \in tasks : ~Finalizing(u)'
    BY <1>2, <1>3 DEF StreamInv, CompletionInv, Finalizing, Active
  <2> QED
    BY <1>2, <1>3, <2>1, <2>2 DEF CompletionInv
<1>9. AloneInv'
  <2> SUFFICES ASSUME tasks = {t}
               PROVE  Alone(t)'
    BY <1>1, <1>2 DEF AloneInv
  <2>1. Alone(t)
    BY <1>1 DEF StreamInv, AloneInv
  <2>2. stage[t] # "failed" /\ stage'[t] = "failed"
    BY <1>2
  <2> QED
    BY <1>3, <2>1, <2>2 DEF Alone, SentInTurn, Finalizing
<1> QED
  BY <1>1, <1>4, <1>5, <1>6, <1>7, <1>8, <1>9 DEF StreamInv

LEMMA StopKeeps ==
  ASSUME StreamInv, NEW t \in tasks, Stop(t) PROVE StreamInv'
<1>1. TypeOK /\ LockInv /\ TypeOK' /\ LockInv' /\ t \in Threads
  BY StopTypeOK, ThreadLockInv, NumbersHold DEF StreamInv, ThreadStep, Numbers
<1>2. /\ (Reading' <=> Reading) /\ (Handing' <=> Handing) /\ (NoneFailed' <=> NoneFailed)
      /\ (Active' <=> Active) /\ tasks' = tasks
      /\ \A u \in Threads \ {t} : stage'[u] = stage[u]
      /\ stage'[t] = "stopped" /\ stage[t] = "call"
  BY <1>1, StopEffect
<1>3. UNCHANGED <<lock, continuing, input, answered, replies, closed, sent, done_writing, taken,
                  chunk_length, chunk_offset, metadata, handed>>
  BY DEF Stop, server, exchange, chunk
<1>n. Numbers
  BY <1>1, NumbersHold
<1>4. ServerInv' /\ ChunkInv'
  BY <1>2, <1>3 DEF StreamInv, ServerInv, ChunkInv
<1>5. HandedInv'
  BY <1>2, <1>3 DEF StreamInv, HandedInv, RowsHandedOutOnce
<1>6. ASSUME AnswersEndInPartialVectors
      PROVE  ContinuingMeansMoreOutput' /\ NoReadWithoutAnswer'
  BY <1>2, <1>3, <1>6 DEF StreamInv, ContinuingMeansMoreOutput, NoReadWithoutAnswer
<1>7. LockstepInv'
  BY <1>2, <1>3 DEF StreamInv, LockstepInv, InLockstep
<1>8. CompletionInv'
  <2>1. stage'[t] # "finished"
    BY <1>2
  <2> QED
    BY <1>2, <1>3, <2>1 DEF StreamInv, CompletionInv, Finalizing
<1>9. AloneInv'
  <2> SUFFICES ASSUME tasks = {t}
               PROVE  Alone(t)'
    BY <1>1, <1>2 DEF AloneInv
  <2>1. Alone(t)
    BY <1>1 DEF StreamInv, AloneInv
  <2> QED
    BY <1>2, <1>3, <2>1 DEF Alone, SentInTurn, Finalizing
<1> QED
  BY <1>1, <1>4, <1>5, <1>6, <1>7, <1>8, <1>9 DEF StreamInv

-----------------------------------------------------------------------------
(* The steps of the server.                                                *)

\* What no step of the server touches.
LEMMA ServerEffect ==
  ASSUME Server
  PROVE  /\ UNCHANGED <<tasks, lock, continuing, stage, input, sent, done_writing, taken,
                        chunk_length, chunk_offset, metadata, handed>>
         /\ (Reading' <=> Reading) /\ (Handing' <=> Handing) /\ (NoneFailed' <=> NoneFailed)
         /\ (Active' <=> Active)
         /\ \A t \in Threads : Finalizing(t)' <=> Finalizing(t)
BY DEF Server, exchange, chunk, Reading, Handing, NoneFailed, Active, Finalizing

\* An answer to the next input is added behind the answers that are there.
LEMMA AnswerKeeps == ASSUME StreamInv, Server, Answer PROVE StreamInv'
<1>1. TypeOK /\ LockInv /\ TypeOK'
  BY ServerTypeOK DEF StreamInv
<1>2. /\ UNCHANGED <<tasks, lock, continuing, stage, input, sent, done_writing, taken,
                     chunk_length, chunk_offset, metadata, handed>>
      /\ (Reading' <=> Reading) /\ (Handing' <=> Handing) /\ (NoneFailed' <=> NoneFailed)
      /\ (Active' <=> Active)
      /\ \A t \in Threads : Finalizing(t)' <=> Finalizing(t)
  BY ServerEffect
<1>n. Numbers
  BY <1>1, NumbersHold
<1>3. answered < Len(sent) /\ answered' = answered + 1 /\ closed' = closed /\ ~closed
  BY <1>n DEF Answer, StreamInv, ServerInv, Numbers
<1>4. /\ sent[answered + 1] \in Inputs
      /\ Len(replies') = Len(replies) + Len(Reply)
      /\ \A b \in 1 .. Len(replies) : replies'[b] = replies[b]
      /\ \A b \in Len(replies) + 1 .. Len(replies') :
           /\ replies'[b].input = sent[answered + 1]
           /\ replies'[b].rows = Reply[b - Len(replies)]
           /\ replies'[b].tag =
                IF b = Len(replies') THEN "chunk_finished" ELSE "chunk_continues"
  BY <1>1, Answers
<1>5. Len(Reply) \in Nat \ {0} /\ Reply # <<>> /\ Len(replies') > Len(replies) /\ Len(replies') \in Nat
  BY <1>4, <1>n, ReplyType, ReplyAssumption DEF Numbers
<1>6. LockInv'
  BY <1>2 DEF StreamInv, LockInv
<1>7. ServerInv'
  <2> DEFINE reply(r) == IF r.input = Final THEN FinalReply ELSE Reply
  <2>1. ASSUME NEW b \in 1 .. Len(replies')
        PROVE  \/ replies'[b].tag = "chunk_continues" /\ (b < Len(replies') \/ closed')
               \/ /\ replies'[b].tag = "chunk_finished" /\ reply(replies'[b]) # <<>>
                  /\ replies'[b].rows = reply(replies'[b])[Len(reply(replies'[b]))]
    <3>1. CASE b \in 1 .. Len(replies)
      <4>1. replies'[b] = replies[b] /\ b < Len(replies')
        BY <1>4, <1>5, <1>n, <3>1 DEF Numbers
      <4> QED
        BY <1>3, <3>1, <4>1 DEF StreamInv, ServerInv
    <3>2. CASE b \in Len(replies) + 1 .. Len(replies')
      <4>1. reply(replies'[b]) = Reply
        BY <1>4, <3>2, InputNotFinal
      <4>2. b = Len(replies') => b - Len(replies) = Len(Reply)
        BY <1>4, <1>5, <1>n DEF Numbers
      <4>3. b # Len(replies') => b < Len(replies')
        BY <1>5, <3>2
      <4> QED
        BY <1>4, <1>5, <3>2, <4>1, <4>2, <4>3
    <3> QED
      BY <1>5, <1>n, <3>1, <3>2 DEF Numbers
  <2> QED
    BY <1>2, <1>3, <1>n, <2>1 DEF ServerInv, Numbers
<1>8. taken > 0 => replies'[taken] = replies[taken]
  BY <1>4, <1>n DEF StreamInv, ChunkInv, Numbers
<1>9. ChunkInv'
  BY SMTT(30), <1>2, <1>3, <1>5, <1>8, <1>n DEF StreamInv, ChunkInv, Numbers
<1>10. HandedInv'
  <2>1. \A b \in 1 .. taken - 1 : replies'[b] = replies[b]
    BY <1>4, <1>n DEF StreamInv, ChunkInv, Numbers
  <2> QED
    BY <1>2, <1>8, <2>1 DEF StreamInv, HandedInv, RowsHandedOutOnce
<1>11. ASSUME AnswersEndInPartialVectors
       PROVE  ContinuingMeansMoreOutput' /\ NoReadWithoutAnswer'
  <2>1. taken < Len(replies')
    BY <1>5, <1>n DEF StreamInv, ChunkInv, Numbers
  <2> QED
    BY <1>2, <1>11, <2>1 DEF StreamInv, ContinuingMeansMoreOutput, NoReadWithoutAnswer
<1>12. NoneFailed => ~done_writing /\ answered = Len(sent) - 1 /\ taken = Len(replies) /\ Reading
  BY <1>3, <1>n DEF StreamInv, LockstepInv, InLockstep, Numbers
<1>13. NoneFailed => Active
  BY <1>3, <1>n DEF StreamInv, LockstepInv, InLockstep, Numbers
<1>14. LockstepInv'
  <2> SUFFICES ASSUME NoneFailed PROVE InLockstep'
    BY <1>2 DEF LockstepInv
  <2>1. ASSUME NEW b \in taken + 1 .. Len(replies'), replies'[b].tag = "chunk_finished"
        PROVE  b = Len(replies')
    BY <1>4, <1>12, <2>1
  <2>2. metadata = "chunk_finished" => ~(chunk_offset > 0 \/ Handing)
    BY <1>3, <1>n DEF StreamInv, LockstepInv, InLockstep, Numbers
  <2> QED
    BY <1>2, <1>3, <1>12, <1>13, <1>n, <2>1, <2>2 DEF InLockstep, Numbers
<1>15. CompletionInv'
  BY <1>2, <1>n DEF StreamInv, CompletionInv, Numbers
<1>16. AloneInv'
  <2> SUFFICES ASSUME NEW t \in Threads, tasks = {t} PROVE Alone(t)'
    BY <1>2 DEF AloneInv
  <2>1. Alone(t)
    BY DEF StreamInv, AloneInv
  <2>2. SentInTurn(t)'
    BY <1>2, <2>1 DEF Alone, SentInTurn
  <2>3. ASSUME stage[t] # "failed", NEW b \in 1 .. Len(replies'),
               b > taken \/ (b = taken /\ (chunk_offset > 0 \/ stage[t] = "return") /\ metadata # "null")
        PROVE  replies'[b].input = IF Finalizing(t) THEN Final ELSE <<t, input[t]>>
    <3>1. NoneFailed
      BY <2>3 DEF NoneFailed
    <3>2. CASE b \in 1 .. Len(replies)
      BY <1>4, <1>13, <2>1, <2>3, <3>1, <3>2 DEF Alone
    <3>3. CASE b \in Len(replies) + 1 .. Len(replies')
      <4>1. ~Finalizing(t)
        BY <1>12, <1>13, <2>1, <2>3, <3>1 DEF Alone
      <4>2. Len(sent) = input[t] /\ answered + 1 = Len(sent)
        BY <1>12, <1>13, <1>n, <2>1, <2>3, <3>1, <4>1 DEF Alone, SentInTurn, Numbers
      <4>3. sent[answered + 1] = <<t, input[t]>>
        BY <1>n, <2>1, <4>2 DEF Alone, SentInTurn, Numbers
      <4> QED
        BY <1>4, <3>3, <4>1, <4>3
    <3> QED
      BY <1>5, <1>n, <3>2, <3>3 DEF Numbers
  <2> QED
    BY <1>2, <2>1, <2>2, <2>3 DEF Alone
<1> QED
  BY <1>1, <1>6, <1>7, <1>9, <1>10, <1>11, <1>14, <1>15, <1>16 DEF StreamInv

\* The server closes the stream only when it owes no answer to an input.
LEMMA CloseKeeps == ASSUME StreamInv, Server, Close PROVE StreamInv'
<1>1. TypeOK /\ LockInv /\ TypeOK'
  BY ServerTypeOK DEF StreamInv
<1>2. /\ UNCHANGED <<tasks, lock, continuing, stage, input, sent, done_writing, taken,
                     chunk_length, chunk_offset, metadata, handed>>
      /\ (Reading' <=> Reading) /\ (Handing' <=> Handing) /\ (NoneFailed' <=> NoneFailed)
      /\ (Active' <=> Active)
      /\ \A t \in Threads : Finalizing(t)' <=> Finalizing(t)
  BY ServerEffect
<1>n. Numbers
  BY <1>1, NumbersHold
<1>3. done_writing /\ answered = Len(sent) /\ answered' = answered /\ ~closed /\ closed'
  BY DEF Close
<1>4. /\ Len(replies') = Len(replies) + Len(FinalReply)
      /\ \A b \in 1 .. Len(replies) : replies'[b] = replies[b]
      /\ \A b \in Len(replies) + 1 .. Len(replies') :
           /\ replies'[b].input = Final
           /\ replies'[b].rows = FinalReply[b - Len(replies)]
           /\ replies'[b].tag \in {"chunk_continues", "chunk_finished"}
           /\ b < Len(replies') => replies'[b].tag = "chunk_continues"
  BY <1>1, Closes
<1>5. Len(FinalReply) \in Nat /\ Len(replies') >= Len(replies) /\ Len(replies') \in Nat
  BY <1>4, <1>n, ReplyType DEF Numbers
<1>6. LockInv'
  BY <1>2 DEF StreamInv, LockInv
<1>7. ServerInv'
  <2> DEFINE reply(r) == IF r.input = Final THEN FinalReply ELSE Reply
  <2>1. ASSUME NEW b \in 1 .. Len(replies')
        PROVE  \/ replies'[b].tag = "chunk_continues"
               \/ /\ replies'[b].tag = "chunk_finished" /\ reply(replies'[b]) # <<>>
                  /\ replies'[b].rows = reply(replies'[b])[Len(reply(replies'[b]))]
    <3>1. CASE b \in 1 .. Len(replies)
      BY <1>4, <3>1 DEF StreamInv, ServerInv
    <3>2. CASE b \in Len(replies) + 1 .. Len(replies')
      <4>1. reply(replies'[b]) = FinalReply
        BY <1>4, <3>2
      <4>2. FinalReply # <<>>
        BY <1>4, <1>n, <3>2 DEF Numbers
      <4>3. b = Len(replies') => b - Len(replies) = Len(FinalReply)
        BY <1>4, <1>5, <1>n DEF Numbers
      <4>4. b # Len(replies') => b < Len(replies')
        BY <1>5, <3>2
      <4> QED
        BY <1>4, <1>5, <3>2, <4>1, <4>2, <4>3, <4>4
    <3> QED
      BY <1>5, <1>n, <3>1, <3>2 DEF Numbers
  <2> QED
    BY <1>2, <1>3, <1>n, <2>1 DEF ServerInv, Numbers
<1>8. taken > 0 => replies'[taken] = replies[taken]
  BY <1>4, <1>n DEF StreamInv, ChunkInv, Numbers
<1>9. ChunkInv'
  BY SMTT(30), <1>2, <1>3, <1>5, <1>8, <1>n DEF StreamInv, ChunkInv, Numbers
<1>10. HandedInv'
  <2>1. \A b \in 1 .. taken - 1 : replies'[b] = replies[b]
    BY SMTT(30), <1>4, <1>n DEF StreamInv, ChunkInv, Numbers
  <2> QED
    BY <1>2, <1>8, <2>1 DEF StreamInv, HandedInv, RowsHandedOutOnce
<1>11. ASSUME AnswersEndInPartialVectors
       PROVE  ContinuingMeansMoreOutput' /\ NoReadWithoutAnswer'
  BY <1>2, <1>3, <1>11 DEF StreamInv, ContinuingMeansMoreOutput, NoReadWithoutAnswer
<1>12. NoneFailed => taken = Len(replies) /\ Reading
  BY <1>3 DEF StreamInv, LockstepInv, InLockstep
<1>13. Reading => Active /\ ~Handing
  BY <1>1, <1>n, Holder DEF Reading, Handing, Active, Numbers
<1>14. LockstepInv'
  <2> SUFFICES ASSUME NoneFailed PROVE InLockstep'
    BY <1>2 DEF LockstepInv
  <2>1. ASSUME NEW b \in taken + 1 .. Len(replies'), replies'[b].tag = "chunk_finished"
        PROVE  b = Len(replies')
    BY <1>4, <1>5, <1>12, <2>1
  <2>2. chunk_offset = 0
    BY <1>12 DEF StreamInv, HandedInv
  <2> QED
    BY <1>2, <1>3, <1>12, <1>13, <1>n, <2>1, <2>2 DEF InLockstep, Numbers
<1>15. CompletionInv'
  BY <1>2, <1>n DEF StreamInv, CompletionInv, Numbers
<1>16. AloneInv'
  <2> SUFFICES ASSUME NEW t \in Threads, tasks = {t} PROVE Alone(t)'
    BY <1>2 DEF AloneInv
  <2>1. Alone(t) /\ Finalizing(t)
    BY <1>3 DEF StreamInv, AloneInv, Alone
  <2>2. SentInTurn(t)'
    BY <1>2, <2>1 DEF Alone, SentInTurn
  <2>3. ASSUME stage[t] # "failed", Active, NEW b \in 1 .. Len(replies'),
               b > taken \/ (b = taken /\ (chunk_offset > 0 \/ stage[t] = "return") /\ metadata # "null")
        PROVE  replies'[b].input = Final
    <3>1. CASE b \in 1 .. Len(replies)
      BY <1>4, <2>1, <2>3, <3>1 DEF Alone
    <3>2. CASE b \in Len(replies) + 1 .. Len(replies')
      BY <1>4, <3>2
    <3> QED
      BY <1>5, <1>n, <3>1, <3>2 DEF Numbers
  <2> QED
    BY <1>2, <2>1, <2>2, <2>3 DEF Alone
<1> QED
  BY <1>1, <1>6, <1>7, <1>9, <1>10, <1>11, <1>14, <1>15, <1>16 DEF StreamInv

-----------------------------------------------------------------------------
(* The theorems.                                                           *)

LEMMA InitStreamInv == Init => StreamInv
<1> SUFFICES ASSUME Init PROVE StreamInv
  OBVIOUS
<1>1. TypeOK /\ LockInv
  BY InitTypeOK, InitLockInv
<1>2. ~Active /\ ~Reading /\ ~Handing /\ tasks # {} /\ tasks \subseteq Threads
  <2>1. tasks \subseteq Threads /\ tasks # {} /\ lock = {} /\ ~continuing
    <3>1. tasks \in (SUBSET Threads) \ {{}} /\ lock = {} /\ continuing = FALSE
      BY DEF Init
    <3> QED
      BY <3>1
  <2>2. \A t \in Threads : stage[t] = "call"
    BY DEF Init
  <2> QED
    BY <2>1, <2>2 DEF Active, Reading, Handing
<1>3. ServerInv
  BY DEF Init, ServerInv
<1>4. ChunkInv
  <2>1. 0 \in 0 .. 0 /\ 0 = 0 * VectorSize
    BY InOutVectorAssumption
  <2> QED
    BY <1>2, <2>1 DEF Init, ChunkInv
<1>5. HandedInv
  BY <1>2 DEF Init, HandedInv, RowsHandedOutOnce
<1>6. ContinuingMeansMoreOutput /\ NoReadWithoutAnswer
  BY <1>2 DEF Init, ContinuingMeansMoreOutput, NoReadWithoutAnswer
<1>7. LockstepInv
  BY <1>2 DEF Init, LockstepInv, InLockstep
<1>8. CompletionInv
  BY <1>2 DEF Init, CompletionInv
<1>9. AloneInv
  <2> SUFFICES ASSUME NEW t \in Threads PROVE Alone(t)
    BY DEF AloneInv
  <2>1. SentInTurn(t)
    BY <1>2 DEF Init, SentInTurn
  <2> QED
    BY <1>2, <2>1, NumInputsAssumption DEF Init, Alone, Finalizing
<1> QED
  BY <1>1, <1>3, <1>4, <1>5, <1>6, <1>7, <1>8, <1>9 DEF StreamInv

LEMMA NextStreamInv == StreamInv /\ [Next]_vars => StreamInv'
<1> SUFFICES ASSUME StreamInv, [Next]_vars PROVE StreamInv'
  OBVIOUS
<1>1. ASSUME NEW t \in tasks, Call(t) PROVE StreamInv'
  BY <1>1, CallKeeps
<1>2. ASSUME NEW t \in tasks, Read(t) PROVE StreamInv'
  BY <1>2, ReadKeeps
<1>3. ASSUME NEW t \in tasks, Return(t) PROVE StreamInv'
  BY <1>3, ReturnKeeps
<1>4. ASSUME NEW t \in tasks, CallFails(t) PROVE StreamInv'
  BY <1>4, FailKeeps
<1>5. ASSUME NEW t \in tasks, Stop(t) PROVE StreamInv'
  BY <1>5, StopKeeps
<1>6. CASE Server
  BY <1>6, AnswerKeeps, CloseKeeps DEF Server
<1>7. CASE UNCHANGED vars
  <2>1. UNCHANGED <<tasks, lock, continuing, stage, input, answered, replies, closed, sent,
                    done_writing, taken, chunk_length, chunk_offset, metadata, handed>>
    BY <1>7 DEF vars, server, exchange, chunk
  <2>2. (Active' <=> Active) /\ (Reading' <=> Reading) /\ (Handing' <=> Handing)
        /\ (NoneFailed' <=> NoneFailed) /\ \A t \in Threads : Finalizing(t)' <=> Finalizing(t)
    BY <2>1 DEF Active, Reading, Handing, NoneFailed, Finalizing
  <2>3. TypeOK'
    BY <2>1 DEF StreamInv, TypeOK
  <2>4. LockInv'
    BY <2>1, <2>2 DEF StreamInv, LockInv
  <2>5. ServerInv' /\ ChunkInv'
    BY <2>1, <2>2 DEF StreamInv, ServerInv, ChunkInv
  <2>6. HandedInv'
    BY <2>1, <2>2 DEF StreamInv, HandedInv, RowsHandedOutOnce
  <2>7. AnswersEndInPartialVectors => ContinuingMeansMoreOutput' /\ NoReadWithoutAnswer'
    BY <2>1, <2>2 DEF StreamInv, ContinuingMeansMoreOutput, NoReadWithoutAnswer
  <2>8. LockstepInv'
    BY <2>1, <2>2 DEF StreamInv, LockstepInv, InLockstep
  <2>9. CompletionInv'
    BY <2>1, <2>2 DEF StreamInv, CompletionInv, TypeOK
  <2>10. AloneInv'
    BY <2>1, <2>2 DEF StreamInv, AloneInv, Alone, SentInTurn
  <2> QED
    BY <2>3, <2>4, <2>5, <2>6, <2>7, <2>8, <2>9, <2>10 DEF StreamInv
<1> QED
  BY <1>1, <1>2, <1>3, <1>4, <1>5, <1>6, <1>7 DEF Next, QueryOver

LEMMA AlwaysStreamInv == Spec => []StreamInv
<1> QED
  BY InitStreamInv, NextStreamInv, PTL DEF Spec

\* When all have finished the exchange is idle, so that nothing is left of any answer.
LEMMA FinishedComplete == StreamInv => FinishedMeansComplete
<1> SUFFICES ASSUME StreamInv, \A t \in tasks : stage[t] = "finished"
             PROVE  taken = Len(replies) /\ \A b \in 1 .. taken : handed[b] = replies[b].rows
  BY DEF FinishedMeansComplete
<1>1. TypeOK /\ LockInv /\ Numbers
  BY NumbersHold DEF StreamInv
<1>2. ~Handing /\ NoneFailed
  BY DEF Handing, NoneFailed
<1>3. ~Active
  <2>1. lock = {}
    BY <1>1 DEF LockInv, Numbers
  <2> QED
    BY <2>1 DEF Active, StreamInv, CompletionInv
<1>4. taken = Len(replies)
  BY <1>2, <1>3 DEF StreamInv, LockstepInv, InLockstep
<1>5. chunk_offset = 0
  BY <1>1, <1>3 DEF StreamInv, ChunkInv, Active, Numbers
<1>6. taken > 0 => handed[taken] = replies[taken].rows
  BY <1>2, <1>5 DEF StreamInv, HandedInv
<1>7. \A b \in 1 .. taken - 1 : handed[b] = replies[b].rows
  BY DEF StreamInv, HandedInv, RowsHandedOutOnce
<1> QED
  BY <1>1, <1>4, <1>6, <1>7 DEF Numbers

\* The rows of every batch are handed out once and in order, and all of them when every
\* task has finished, however many threads share the exchange.
THEOREM InOutInvariant == Spec => []InOutInv
<1>1. StreamInv => InOutInv
  BY FinishedComplete DEF StreamInv, InOutInv
<1> QED
  BY <1>1, AlwaysStreamInv, PTL

\* If no answer ends in a full vector, continuing_current_chunk is set only while a part of
\* the answer is still to come.
THEOREM ContinuingIsRight ==
  ASSUME AnswersEndInPartialVectors
  PROVE  Spec => []ContinuingMeansMoreOutput
<1>1. StreamInv => ContinuingMeansMoreOutput
  BY DEF StreamInv
<1> QED
  BY <1>1, AlwaysStreamInv, PTL

\* A thread that has the exchange alone sends each of its inputs once, before the next.
THEOREM InputsSentOnce == Spec => []EachInputSentOnce
<1>1. ASSUME StreamInv PROVE EachInputSentOnce
  <2> SUFFICES ASSUME NEW t \in Threads, tasks = {t}, NEW n \in 1 .. NumInputs
               PROVE  /\ Cardinality({i \in 1 .. Len(sent) : sent[i] = <<t, n>>}) <= 1
                      /\ n < input[t] =>
                           Cardinality({i \in 1 .. Len(sent) : sent[i] = <<t, n>>}) = 1
    BY DEF EachInputSentOnce
  <2> DEFINE S == {i \in 1 .. Len(sent) : sent[i] = <<t, n>>}
  <2>1. Numbers /\ SentInTurn(t) /\ Alone(t)
    BY <1>1, NumbersHold DEF StreamInv, AloneInv, Alone
  <2>2. \A i \in 1 .. Len(sent) : sent[i] = <<t, n>> <=> i = n
    BY <2>1 DEF SentInTurn
  <2>3. n < input[t] => n \in 1 .. Len(sent)
    BY <2>1, NumInputsAssumption DEF SentInTurn, Numbers
  <2>4. CASE n \in 1 .. Len(sent)
    <3>1. S = {n}
      BY <2>2, <2>4
    <3>2. Cardinality(S) = 1
      BY <3>1, FS_Singleton
    <3> QED
      BY <3>2
  <2>5. CASE n \notin 1 .. Len(sent)
    <3>1. S = {}
      BY <2>2, <2>5
    <3> QED
      BY <2>3, <2>5, <3>1, FS_EmptySet
  <2> QED
    BY <2>4, <2>5
<1> QED
  BY <1>1, AlwaysStreamInv, PTL

\* A thread that has the exchange alone is given rows only for the input of its call, and
\* goes on to the next input only when the answer to this one has ended.
THEOREM OutputIsForInput == Spec => OutputBelongsToInput
<1>1. ASSUME StreamInv, [Next]_vars
      PROVE  [\A t \in Threads : tasks = {t} =>
                /\ stage[t] = "return" /\ handed' # handed =>
                     replies[taken].input = IF Finalizing(t) THEN Final ELSE <<t, input[t]>>
                /\ input'[t] # input[t] => metadata = "chunk_finished"]_vars
  <2> SUFFICES ASSUME Next, NEW t \in Threads, tasks = {t}
               PROVE  /\ stage[t] = "return" /\ handed' # handed =>
                           replies[taken].input = IF Finalizing(t) THEN Final ELSE <<t, input[t]>>
                      /\ input'[t] # input[t] => metadata = "chunk_finished"
    BY <1>1
  <2>1. TypeOK /\ LockInv /\ Numbers /\ Alone(t)
    BY <1>1, NumbersHold DEF StreamInv, AloneInv
  <2>2. CASE Return(t)
    <3>1. Handing /\ Active /\ stage[t] = "return"
      BY <2>1, <2>2, ReturnEffect
    <3>2. handed' # handed => taken \in 1 .. Len(replies) /\ metadata # "null"
      <4>1. handed' # handed => OutputSize # 0
        BY <2>2 DEF Return
      <4>2. Len(handed) = taken /\ taken <= Len(replies)
        BY <1>1 DEF StreamInv, HandedInv, RowsHandedOutOnce, ChunkInv
      <4> QED
        BY <1>1, <2>1, <2>2, <4>1, <4>2, HandedOut DEF Numbers
    <3>3. handed' # handed =>
            replies[taken].input = IF Finalizing(t) THEN Final ELSE <<t, input[t]>>
      BY <2>1, <3>1, <3>2 DEF Alone
    <3>4. ASSUME input'[t] # input[t] PROVE metadata = "chunk_finished"
      <4>1. ~HaveMoreOutput /\ ~Finalizing(t)
        BY <2>2, <3>4 DEF Return
      <4>2. metadata = "chunk_finished" \/ closed
        BY <1>1, <3>1, <4>1, LeftOver
      <4>3. ~closed
        BY <1>1, <2>1, <4>1 DEF Alone, StreamInv, ServerInv
      <4> QED
        BY <4>2, <4>3
    <3> QED
      BY <3>3, <3>4
  <2>3. CASE Read(t)
    BY <2>1, <2>3, ReadEffect DEF Read
  <2>4. CASE Call(t) \/ CallFails(t) \/ Stop(t) \/ Server \/ QueryOver
    <3>1. input' = input /\ handed' = handed
      BY <2>4 DEF Call, CallFails, Stop, Server, QueryOver, vars
    <3> QED
      BY <3>1
  <2> QED
    BY <2>2, <2>3, <2>4 DEF Next
<1> QED
  BY <1>1, AlwaysStreamInv, PTL DEF Spec, OutputBelongsToInput
=============================================================================
