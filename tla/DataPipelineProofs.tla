-------------------------- MODULE DataPipelineProofs --------------------------
(***************************************************************************)
(* The two ways of what arrives from the agents: the proofs of the safety  *)
(* properties of DataPipeline, which takes it to the tables, for any       *)
(* reports, workers, batch size and capacity, and those of BrowserFeed,    *)
(* which takes the news of it to any browsers.                             *)
(***************************************************************************)
EXTENDS DataPipeline, BrowserFeed, FiniteSetTheorems, TLAPS

(* The loop writes at most one batch, and only while it says so.           *)
LoopOwnsBatch ==
  /\ \A b, c \in BatchesBy("timer") : b = c
  /\ BatchesBy("timer") # {} => loop = "writing"

(* Stop writes at most one batch, and main waits for it.                   *)
StopOwnsBatch ==
  /\ \A b, c \in BatchesBy("stop") : b = c
  /\ BatchesBy("stop") # {} => phase = "flushing"

(* What was there when Stop was called, and is not settled, is with a      *)
(* flush that Stop still waits for, or with a size flush.                  *)
WithFlush(r) ==
  \/ phase = "stopping" /\ r \in buffer
  \/ \E b \in batches :
       /\ r \in b.entries
       /\ b.by = "timer" => phase = "stopping"
       /\ b.by = "stop" => phase = "flushing"

StopKeepsTrack ==
  \A r \in atStop : fate[r] # "unsent" /\ (fate[r] = "under way" => WithFlush(r))

IInv ==
  /\ TypeOK
  /\ OnePlace
  /\ FullIsFlushed
  /\ LoopOwnsBatch
  /\ StopOwnsBatch
  /\ StopKeepsTrack

----------------------------------------------------------------------------
(* Appending to the buffer keeps its type.                                 *)
LEMMA PutType ==
  ASSUME BufferType, NEW e \in Entries, Put(e)
  PROVE  BufferType'
<1>1. IsFiniteSet(buffer')
  BY FS_AddElement DEF BufferType, Put
<1>2. QED
  BY <1>1 DEF BufferType, Put

(* So does the critical section of a flush, for what it changes.           *)
LEMMA TakeType ==
  ASSUME BufferType, NEW f \in {"size", "timer", "stop"}, Take(f)
  PROVE  /\ buffer' \in SUBSET Entries /\ IsFiniteSet(buffer')
         /\ batches' \subseteq Batch
<1>1. IsFiniteSet({})
  BY FS_EmptySet
<1>2. buffer # {} => [by |-> f, entries |-> buffer] \in Batch
  BY DEF BufferType, Batch
<1>3. QED
  BY <1>1, <1>2 DEF BufferType, Take

(* And the settling of reports, and the end of the process.               *)
LEMMA SettleType ==
  ASSUME TypeOK, NEW S, NEW f \in Fates, Settle(S, f)
  PROVE  fate' \in [Reports -> Fates]
BY DEF TypeOK, Settle

LEMMA ResetType == ASSUME BufferReset PROVE BufferType'
<1>1. IsFiniteSet({})
  BY FS_EmptySet
<1>2. buffer' = {} /\ batches' = {} /\ spawned' = 0
  BY DEF BufferReset
<1>3. loop' = "select" /\ stopped' = FALSE
  BY DEF BufferReset
<1>4. QED
  BY <1>1, <1>2, <1>3 DEF BufferType

(* Every step keeps the types.                                             *)
LEMMA StepType == TypeOK /\ [Next]_vars => TypeOK'
<1> SUFFICES ASSUME TypeOK, [Next]_vars PROVE TypeOK'
  OBVIOUS
<1>1. ASSUME NEW r \in Reports, Save(r) PROVE TypeOK'
  <2>1. fate' \in [Reports -> Fates]
    BY <1>1, SettleType DEF Save, Fates
  <2>2. Append(queue, r) \in Seq(Reports)
    BY DEF TypeOK
  <2>. queue' \in Seq(Reports)
    BY <1>1, <2>2 DEF Save, TypeOK
  <2>3. QED
    BY <1>1, <2>1, <2>2 DEF Save, TypeOK, BufferType, Batch
<1>2. ASSUME NEW w \in Workers, TakeJob(w) PROVE TypeOK'
  <2>1. Head(queue) \in Reports /\ Tail(queue) \in Seq(Reports)
    BY <1>2 DEF TakeJob, TypeOK
  <2>2. QED
    BY <1>2, <2>1 DEF TakeJob, TypeOK, BufferType, Batch
<1>3. ASSUME NEW w \in Workers, BufferMetric(w) PROVE TypeOK'
  <2>1. BufferType'
    BY <1>3, PutType DEF BufferMetric, TypeOK
  <2>2. QED
    BY <1>3, <2>1 DEF BufferMetric, TypeOK, Reports
<1>4. ASSUME NEW w \in Workers, StoreOther(w) PROVE TypeOK'
  <2>1. fate' \in [Reports -> Fates]
    BY <1>4, SettleType DEF StoreOther, Fates
  <2>2. QED
    BY <1>4, <2>1 DEF StoreOther, TypeOK, BufferType, Batch
<1>5. CASE FlushBySize
  <2>1. BufferType'
    BY <1>5, TakeType DEF FlushBySize, SizeFlush, TypeOK, BufferType
  <2>2. QED
    BY <1>5, <2>1 DEF FlushBySize, TypeOK
<1>6. CASE FlushByTimer
  <2>1. ASSUME Tick PROVE BufferType'
    BY <2>1, TakeType DEF Tick, TypeOK, BufferType
  <2>2. ASSUME LoopReturns PROVE BufferType'
    BY <2>2 DEF LoopReturns, TypeOK, BufferType, Batch
  <2>3. QED
    BY <1>6, <2>1, <2>2 DEF FlushByTimer, TypeOK
<1>7. ASSUME NEW b \in batches, Insert(b) PROVE TypeOK'
  <2>1. fate' \in [Reports -> Fates]
    BY <1>7, SettleType DEF Insert, Fates
  <2>2. BufferType'
    BY <1>7 DEF Insert, Finish, TypeOK, BufferType, Batch
  <2>3. QED
    BY <1>7, <2>1, <2>2 DEF Insert, TypeOK, Phases
<1>8. CASE Signal
  BY <1>8 DEF Signal, CloseStopChan, TypeOK, BufferType, Batch, Taken, Phases
<1>9. CASE StopBuffer
  <2>1. BufferType'
    BY <1>9, TakeType DEF StopBuffer, StopFlush, TypeOK, BufferType
  <2>2. QED
    BY <1>9, <2>1 DEF StopBuffer, TypeOK, Phases
<1>10. CASE Die
  <2>1. fate' \in [Reports -> Fates]
    BY <1>10, SettleType DEF Die, Fates
  <2>2. QED
    BY <1>10, <2>1, ResetType DEF Die, TypeOK, Phases
<1>11. CASE Restart
  BY <1>11 DEF Restart, TypeOK, BufferType, Batch, Phases
<1>12. CASE UNCHANGED vars
  BY <1>12 DEF vars, TypeOK, BufferType, Batch
<1>13. QED
  BY <1>1, <1>2, <1>3, <1>4, <1>5, <1>6, <1>7, <1>8, <1>9, <1>10, <1>11, <1>12
     DEF Next, Worker, Main, Exit, Crash

----------------------------------------------------------------------------
(* What the steps do to the places.                                        *)
InjectiveQueue == \A i, j \in 1 .. Len(queue) : queue[i] = queue[j] => i = j

LEMMA QueueAppends ==
  ASSUME queue \in Seq(Reports), InjectiveQueue,
         NEW r \in Reports, r \notin Queued, queue' = Append(queue, r)
  PROVE  Queued' = Queued \cup {r} /\ InjectiveQueue'
<1>1. /\ Len(queue') = Len(queue) + 1
      /\ \A i \in 1 .. Len(queue) : queue'[i] = queue[i]
      /\ queue'[Len(queue) + 1] = r
  OBVIOUS
<1>2. Len(queue) \in Nat
  OBVIOUS
<1>3. Queued' = Queued \cup {r}
  <2>1. ASSUME NEW x \in Queued' PROVE x \in Queued \cup {r}
    BY <1>1, <1>2, <2>1 DEF Queued
  <2>2. ASSUME NEW x \in Queued PROVE x \in Queued'
    <3>1. PICK i \in 1 .. Len(queue) : x = queue[i]
      BY <2>2 DEF Queued
    <3>2. i \in 1 .. Len(queue') /\ queue'[i] = x
      BY <1>1, <1>2, <3>1
    <3>3. QED
      BY <3>2 DEF Queued
  <2>3. r \in Queued'
    <3>1. Len(queue) + 1 \in 1 .. Len(queue')
      BY <1>1, <1>2
    <3>2. QED
      BY <1>1, <3>1 DEF Queued
  <2>4. QED
    BY <2>1, <2>2, <2>3
<1>4. InjectiveQueue'
  BY <1>1, <1>2 DEF InjectiveQueue, Queued
<1>5. QED
  BY <1>3, <1>4

(* Serving removes the head, which no worker gets a second time.           *)
LEMMA QueueServes ==
  ASSUME queue \in Seq(Reports), InjectiveQueue, queue # <<>>, queue' = Tail(queue)
  PROVE  /\ Head(queue) \in Queued
         /\ Queued' = Queued \ {Head(queue)}
         /\ InjectiveQueue'
<1>1. /\ Len(queue) \in Nat \ {0}
      /\ Len(queue') = Len(queue) - 1
      /\ \A i \in 1 .. Len(queue) - 1 : queue'[i] = queue[i + 1]
      /\ Head(queue) = queue[1]
  OBVIOUS
<1>2. Head(queue) \in Queued
  BY <1>1 DEF Queued
<1>3. Queued' = Queued \ {Head(queue)}
  <2>1. ASSUME NEW x \in Queued' PROVE x \in Queued /\ x # Head(queue)
    <3>1. PICK i \in 1 .. Len(queue') : x = queue'[i]
      BY <2>1 DEF Queued
    <3>2. i + 1 \in 1 .. Len(queue) /\ x = queue[i + 1] /\ i + 1 # 1
      BY <1>1, <3>1
    <3>3. 1 \in 1 .. Len(queue)
      BY <1>1
    <3>4. QED
      BY <1>1, <3>2, <3>3 DEF Queued, InjectiveQueue
  <2>2. ASSUME NEW x \in Queued, x # Head(queue) PROVE x \in Queued'
    <3>1. PICK i \in 1 .. Len(queue) : x = queue[i]
      BY <2>2 DEF Queued
    <3>2. i - 1 \in 1 .. Len(queue') /\ x = queue'[i - 1]
      BY <1>1, <2>2, <3>1
    <3>3. QED
      BY <3>2 DEF Queued
  <2>3. QED
    BY <2>1, <2>2
<1>4. InjectiveQueue'
  BY <1>1 DEF InjectiveQueue
<1>5. QED
  BY <1>2, <1>3, <1>4

(* A flush moves the buffer to a batch, and nothing else.                  *)
DisjointBatches == \A b, c \in batches : b # c => b.entries \cap c.entries = {}

LEMMA TakeMoves ==
  ASSUME BufferType, DisjointBatches, buffer \cap Taken = {},
         NEW f \in {"size", "timer", "stop"}, Take(f)
  PROVE  buffer' = {} /\ Taken' = Taken \cup buffer /\ DisjointBatches'
<1>1. CASE buffer = {}
  BY <1>1 DEF Take, Taken, DisjointBatches
<1>2. CASE buffer # {}
  <2> DEFINE new == [by |-> f, entries |-> buffer]
  <2>1. batches' = batches \cup {new} /\ buffer' = {} /\ new.entries = buffer
    BY <1>2 DEF Take
  <2>2. Taken' = Taken \cup buffer
    BY <2>1 DEF Taken
  <2>3. \A b \in batches : b.entries \cap buffer = {}
    BY DEF Taken
  <2>4. DisjointBatches'
    BY <2>1, <2>3 DEF DisjointBatches
  <2>5. QED
    BY <2>1, <2>2, <2>4
<1>3. QED
  BY <1>1, <1>2

(* The end of a flush removes its batch.                                   *)
LEMMA FinishRemoves ==
  ASSUME DisjointBatches, NEW b \in batches, Finish(b)
  PROVE  buffer' = buffer /\ Taken' = Taken \ b.entries /\ DisjointBatches'
BY DEF DisjointBatches, Finish, Taken

(* A place whose variable does not change does not change.                 *)
LEMMA Unmoved ==
  /\ UNCHANGED fate => UnderWay' = UnderWay
  /\ UNCHANGED queue => Queued' = Queued
  /\ UNCHANGED hands => InHand' = InHand
  /\ UNCHANGED batches => Taken' = Taken
<1>1. UNCHANGED fate => UnderWay' = UnderWay
  BY DEF UnderWay
<1>2. UNCHANGED queue => Queued' = Queued
  BY DEF Queued
<1>3. UNCHANGED hands => InHand' = InHand
  BY DEF InHand
<1>4. UNCHANGED batches => Taken' = Taken
  BY DEF Taken
<1>5. QED
  BY <1>1, <1>2, <1>3, <1>4

(* Settling and accepting, seen from the set of reports under way.         *)
LEMMA SettlesSome ==
  ASSUME NEW S, NEW f \in {"stored", "lost"}, Settle(S, f)
  PROVE  UnderWay' = UnderWay \ S
BY DEF Settle, UnderWay

LEMMA AcceptsOne ==
  ASSUME NEW r \in Reports, Settle({r}, "under way")
  PROVE  UnderWay' = UnderWay \cup {r}
BY DEF Settle, UnderWay

----------------------------------------------------------------------------
(* Every step keeps each report under way in one place.                    *)
LEMMA StepPlace == TypeOK /\ OnePlace /\ [Next]_vars => OnePlace'
<1> SUFFICES ASSUME TypeOK, OnePlace, [Next]_vars PROVE OnePlace'
  OBVIOUS
<1> USE DEF OnePlace, Disjoint
<1>q. queue \in Seq(Reports) /\ BufferType /\ InjectiveQueue /\ DisjointBatches
  BY DEF TypeOK, InjectiveQueue, DisjointBatches
<1>1. ASSUME NEW r \in Reports, Save(r) PROVE OnePlace'
  <2>1. r \notin UnderWay
    BY <1>1 DEF Save, UnderWay
  <2>2. CASE Len(queue) < QueueSize
    <3>1. Queued' = Queued \cup {r} /\ InjectiveQueue'
      BY <1>1, <1>q, <2>1, <2>2, QueueAppends DEF Save
    <3>2. UnderWay' = UnderWay \cup {r}
      BY <1>1, <2>2, AcceptsOne DEF Save
    <3>3. InHand' = InHand /\ Taken' = Taken
      BY <1>1, Unmoved DEF Save
    <3>4. QED
      BY <1>1, <2>1, <3>1, <3>2, <3>3 DEF Save, InjectiveQueue
  <2>3. CASE ~(Len(queue) < QueueSize)
    <3>1. UnderWay' = UnderWay
      BY <1>1, <2>1, <2>3, SettlesSome DEF Save
    <3>2. Queued' = Queued /\ InHand' = InHand /\ Taken' = Taken
      BY <1>1, <2>3, Unmoved DEF Save
    <3>3. QED
      BY <1>1, <2>3, <3>1, <3>2 DEF Save
  <2>4. QED
    BY <2>2, <2>3
<1>2. ASSUME NEW w \in Workers, TakeJob(w) PROVE OnePlace'
  <2> DEFINE h == Head(queue)
  <2>1. h \in Queued /\ Queued' = Queued \ {h} /\ InjectiveQueue'
    BY <1>2, <1>q, QueueServes DEF TakeJob
  <2>2. h # NoJob
    BY <1>2, <1>q, PipelineAssumption DEF TakeJob, Reports
  <2>3. InHand' = InHand \cup {h}
    BY <1>2, <2>2 DEF TakeJob, InHand, TypeOK
  <2>4. \A u, v \in Workers : hands'[u] = hands'[v] /\ hands'[u] # NoJob => u = v
    BY <1>2, <2>1 DEF TakeJob, InHand, TypeOK
  <2>5. UnderWay' = UnderWay /\ Taken' = Taken /\ buffer' = buffer
    BY <1>2, Unmoved DEF TakeJob
  <2>6. QED
    BY <1>2, <2>1, <2>3, <2>4, <2>5 DEF TakeJob, InjectiveQueue
<1>3. ASSUME NEW w \in Workers, BufferMetric(w) PROVE OnePlace'
  <2>1. hands[w] \in InHand
    BY <1>3, PipelineAssumption DEF BufferMetric, InHand
  <2>2. InHand' = InHand \ {hands[w]} /\ buffer' = buffer \cup {hands[w]}
    BY <1>3 DEF BufferMetric, Put, InHand, TypeOK
  <2>3. \A u, v \in Workers : hands'[u] = hands'[v] /\ hands'[u] # NoJob => u = v
    BY <1>3 DEF BufferMetric, TypeOK
  <2>4. UnderWay' = UnderWay /\ Queued' = Queued /\ Taken' = Taken
    BY <1>3, Unmoved DEF BufferMetric, Put
  <2>5. QED
    BY <1>3, <2>1, <2>2, <2>3, <2>4 DEF BufferMetric, Put
<1>4. ASSUME NEW w \in Workers, StoreOther(w) PROVE OnePlace'
  <2>1. UnderWay' = UnderWay \ {hands[w]}
    BY <1>4, SettlesSome DEF StoreOther
  <2>2. InHand' = InHand \ {hands[w]} /\ hands[w] \in InHand
    BY <1>4, PipelineAssumption DEF StoreOther, InHand, TypeOK
  <2>3. \A u, v \in Workers : hands'[u] = hands'[v] /\ hands'[u] # NoJob => u = v
    BY <1>4 DEF StoreOther, TypeOK
  <2>4. Queued' = Queued /\ Taken' = Taken /\ buffer' = buffer
    BY <1>4, Unmoved DEF StoreOther
  <2>5. QED
    BY <1>4, <2>1, <2>2, <2>3, <2>4 DEF StoreOther
<1>5. ASSUME NEW f \in {"size", "timer", "stop"}, Take(f),
             UNCHANGED <<fate, queue, hands>>
      PROVE  OnePlace'
  <2>1. buffer' = {} /\ Taken' = Taken \cup buffer /\ DisjointBatches'
    BY <1>5, <1>q, TakeMoves
  <2>2. UnderWay' = UnderWay /\ Queued' = Queued /\ InHand' = InHand
    BY <1>5, Unmoved
  <2>3. QED
    BY <1>5, <2>1, <2>2 DEF DisjointBatches
<1>6. CASE FlushBySize
  BY <1>5, <1>6 DEF FlushBySize, SizeFlush
<1>7. CASE FlushByTimer
  <2>1. CASE Tick
    BY <1>5, <1>7, <2>1 DEF FlushByTimer, Tick
  <2>2. CASE LoopReturns
    <3>1. UnderWay' = UnderWay /\ Queued' = Queued /\ InHand' = InHand /\ Taken' = Taken
      BY <1>7, <2>2, Unmoved DEF FlushByTimer, LoopReturns
    <3>2. QED
      BY <1>7, <2>2, <3>1 DEF FlushByTimer, LoopReturns
  <2>3. QED
    BY <1>7, <2>1, <2>2 DEF FlushByTimer
<1>8. ASSUME NEW b \in batches, Insert(b) PROVE OnePlace'
  <2>1. UnderWay' = UnderWay \ b.entries
    BY <1>8, SettlesSome DEF Insert
  <2>2. buffer' = buffer /\ Taken' = Taken \ b.entries /\ DisjointBatches'
    BY <1>8, <1>q, FinishRemoves DEF Insert
  <2>3. Queued' = Queued /\ InHand' = InHand /\ b.entries \subseteq Taken
    BY <1>8, Unmoved DEF Insert, Taken
  <2>4. QED
    BY <1>8, <2>1, <2>2, <2>3 DEF Insert, DisjointBatches
<1>9. CASE Signal
  <2>1. UnderWay' = UnderWay /\ Queued' = Queued /\ InHand' = InHand /\ Taken' = Taken
    BY <1>9, Unmoved DEF Signal, CloseStopChan
  <2>2. QED
    BY <1>9, <2>1 DEF Signal, CloseStopChan
<1>10. CASE StopBuffer
  BY <1>5, <1>10 DEF StopBuffer, StopFlush
<1>11. CASE Die
  <2>1. UnderWay' = {}
    BY <1>11, SettlesSome DEF Die
  <2>2. Queued' = {} /\ InHand' = {} /\ Taken' = {} /\ buffer' = {} /\ batches' = {}
    BY <1>11 DEF Die, BufferReset, Queued, InHand, Taken
  <2>3. QED
    BY <1>11, <2>1, <2>2 DEF Die
<1>12. CASE Restart
  <2>1. UnderWay' = UnderWay /\ Queued' = Queued /\ InHand' = InHand /\ Taken' = Taken
    BY <1>12, Unmoved DEF Restart
  <2>2. QED
    BY <1>12, <2>1 DEF Restart
<1>13. CASE UNCHANGED vars
  <2>1. UnderWay' = UnderWay /\ Queued' = Queued /\ InHand' = InHand /\ Taken' = Taken
    BY <1>13, Unmoved DEF vars
  <2>2. QED
    BY <1>13, <2>1 DEF vars
<1>14. QED
  BY <1>1, <1>2, <1>3, <1>4, <1>6, <1>7, <1>8, <1>9, <1>10, <1>11, <1>12, <1>13
     DEF Next, Worker, Main, Exit, Crash

----------------------------------------------------------------------------
(* A step that does not empty the buffer keeps or raises the number of     *)
(* flushes under way.                                                      *)
LEMMA StepFull == TypeOK /\ FullIsFlushed /\ [Next]_vars => FullIsFlushed'
<1> SUFFICES ASSUME TypeOK, FullIsFlushed, [Next]_vars PROVE FullIsFlushed'
  OBVIOUS
<1>1. buffer' = {} => FullIsFlushed'
  BY FS_EmptySet, BatchAssumption DEF FullIsFlushed
<1>2. UNCHANGED <<buffer, spawned>> => FullIsFlushed'
  BY DEF FullIsFlushed
<1>3. ASSUME NEW e \in Entries, Put(e) PROVE FullIsFlushed'
  <2>1. spawned \in Nat
    BY DEF TypeOK, BufferType
  <2>2. CASE Cardinality(buffer') >= BatchSize
    BY <1>3, <2>1, <2>2 DEF Put, FullIsFlushed
  <2>3. CASE ~(Cardinality(buffer') >= BatchSize)
    BY <2>3 DEF FullIsFlushed
  <2>4. QED
    BY <2>2, <2>3
<1>4. QED
  BY <1>1, <1>2, <1>3
     DEF Next, Save, Worker, TakeJob, BufferMetric, StoreOther, FlushBySize, FlushByTimer,
         SizeFlush, Tick, Take, LoopReturns, Insert, Finish, Signal, CloseStopChan, Main,
         StopBuffer, StopFlush, Exit, Crash, Die, BufferReset, Restart, vars

(* Nothing but a round of the loop, the end of one, and the end of the     *)
(* process changes what the loop does.                                     *)
LEMMA StepLoop == TypeOK /\ LoopOwnsBatch /\ [Next]_vars => LoopOwnsBatch'
<1> SUFFICES ASSUME TypeOK, LoopOwnsBatch, [Next]_vars PROVE LoopOwnsBatch'
  OBVIOUS
<1> USE DEF LoopOwnsBatch, BatchesBy
<1>1. UNCHANGED <<batches, loop>> => LoopOwnsBatch'
  OBVIOUS
<1>2. ASSUME NEW f \in {"size", "stop"}, Take(f), UNCHANGED loop PROVE LoopOwnsBatch'
  BY <1>2 DEF Take
<1>3. CASE Tick
  BY <1>3 DEF Tick, Take
<1>4. CASE LoopReturns
  BY <1>4 DEF LoopReturns
<1>5. ASSUME NEW b \in batches, Insert(b) PROVE LoopOwnsBatch'
  BY <1>5 DEF Insert, Finish
<1>6. CASE Die
  BY <1>6 DEF Die, BufferReset
<1>7. QED
  BY <1>1, <1>2, <1>3, <1>4, <1>5, <1>6
     DEF Next, Save, Worker, TakeJob, BufferMetric, Put, StoreOther, FlushBySize,
         FlushByTimer, SizeFlush, Signal, CloseStopChan, Main, StopBuffer, StopFlush,
         Exit, Crash, Restart, vars

(* Only main makes a batch of Stop, and it does so once.                   *)
LEMMA StepStop == TypeOK /\ StopOwnsBatch /\ [Next]_vars => StopOwnsBatch'
<1> SUFFICES ASSUME TypeOK, StopOwnsBatch, [Next]_vars PROVE StopOwnsBatch'
  OBVIOUS
<1> USE DEF StopOwnsBatch, BatchesBy
<1>1. UNCHANGED <<batches, phase>> => StopOwnsBatch'
  OBVIOUS
<1>2. ASSUME NEW f \in {"size", "timer"}, Take(f), UNCHANGED phase PROVE StopOwnsBatch'
  BY <1>2 DEF Take
<1>3. ASSUME NEW b \in batches, Insert(b) PROVE StopOwnsBatch'
  BY <1>3 DEF Insert, Finish
<1>4. CASE Signal
  BY <1>4 DEF Signal, CloseStopChan
<1>5. CASE StopBuffer
  BY <1>5 DEF StopBuffer, StopFlush, Take
<1>6. CASE Die
  BY <1>6 DEF Die, BufferReset
<1>7. CASE Restart
  BY <1>7 DEF Restart
<1>8. QED
  BY <1>1, <1>2, <1>3, <1>4, <1>5, <1>6, <1>7
     DEF Next, Save, Worker, TakeJob, BufferMetric, Put, StoreOther, FlushBySize,
         FlushByTimer, SizeFlush, Tick, LoopReturns, Main, Exit, Crash, vars

(* What Stop found stays with a flush until it is settled.                 *)
LEMMA StepTrack == IInv /\ [Next]_vars => StopKeepsTrack'
<1> SUFFICES ASSUME IInv, [Next]_vars PROVE StopKeepsTrack'
  OBVIOUS
<1> USE DEF StopKeepsTrack, WithFlush
<1>t. /\ TypeOK /\ LoopOwnsBatch /\ StopOwnsBatch /\ StopKeepsTrack
      /\ UnderWay = Queued \cup InHand \cup buffer \cup Taken
      /\ atStop \subseteq Reports
  BY DEF IInv, OnePlace, TypeOK, Reports
<1>1. ASSUME UNCHANGED <<batches, phase, atStop>>, buffer \subseteq buffer',
             \A r \in atStop : fate'[r] # fate[r] => fate'[r] \notin {"unsent", "under way"}
      PROVE  StopKeepsTrack'
  BY <1>t, <1>1
<1>2. ASSUME NEW f \in {"size", "timer"}, Take(f), UNCHANGED <<phase, atStop, fate>>
      PROVE  StopKeepsTrack'
  <2> SUFFICES ASSUME NEW r \in atStop, fate[r] = "under way" PROVE WithFlush(r)'
    BY <1>t, <1>2
  <2>1. CASE phase = "stopping" /\ r \in buffer
    <3> DEFINE new == [by |-> f, entries |-> buffer]
    <3>1. new \in batches' /\ r \in new.entries /\ new.by # "stop"
      BY <1>2, <2>1 DEF Take
    <3>2. phase' = "stopping"
      BY <1>2, <2>1
    <3>3. QED
      BY <3>1, <3>2
  <2>2. ASSUME NEW b \in batches, r \in b.entries,
               b.by = "timer" => phase = "stopping", b.by = "stop" => phase = "flushing"
        PROVE  WithFlush(r)'
    BY <1>2, <2>2 DEF Take
  <2>3. QED
    BY <1>t, <2>1, <2>2
<1>3. ASSUME NEW r \in Reports, Save(r) PROVE StopKeepsTrack'
  <2>1. r \notin atStop
    BY <1>3, <1>t DEF Save
  <2>2. \A x \in atStop : fate'[x] = fate[x]
    BY <1>3, <1>t, <2>1 DEF Save, Settle
  <2>3. QED
    BY <1>1, <1>3, <2>2 DEF Save
<1>4. ASSUME NEW w \in Workers, StoreOther(w) PROVE StopKeepsTrack'
  BY <1>1, <1>4, <1>t DEF StoreOther, Settle
<1>5. ASSUME NEW b \in batches, Insert(b) PROVE StopKeepsTrack'
  <2>1. \A x \in atStop :
          /\ fate'[x] # "unsent"
          /\ fate'[x] = "under way" => fate[x] = "under way" /\ x \notin b.entries
    BY <1>5, <1>t DEF Insert, Settle
  <2>a. atStop' = atStop
    BY <1>5 DEF Insert
  <2>2. ASSUME NEW r \in atStop, fate[r] = "under way", r \notin b.entries
        PROVE  WithFlush(r)'
    <3>1. b.by = "stop" => phase = "flushing"
      BY <1>t DEF StopOwnsBatch, BatchesBy
    <3>2. CASE phase = "stopping" /\ r \in buffer
      BY <1>5, <3>1, <3>2 DEF Insert, Finish
    <3>3. ASSUME NEW c \in batches, r \in c.entries,
                 c.by = "timer" => phase = "stopping", c.by = "stop" => phase = "flushing"
          PROVE  WithFlush(r)'
      <4>1. c # b /\ c \in batches'
        BY <1>5, <2>2, <3>3 DEF Insert, Finish
      <4>2. CASE b.by # "stop"
        BY <1>5, <3>3, <4>1, <4>2 DEF Insert
      <4>3. CASE b.by = "stop"
        <5>1. c.by # "stop"
          BY <1>t, <4>1, <4>3 DEF StopOwnsBatch, BatchesBy
        <5>2. c.by # "timer"
          BY <3>1, <3>3, <4>3
        <5>3. QED
          BY <3>3, <4>1, <5>1, <5>2
      <4>4. QED
        BY <4>2, <4>3
    <3>4. QED
      BY <1>t, <2>2, <3>2, <3>3
  <2>3. QED
    BY <2>1, <2>2, <2>a
<1>6. CASE Signal
  <2>1. \A b \in batches : b.by # "stop"
    BY <1>6, <1>t DEF Signal, StopOwnsBatch, BatchesBy
  <2>2. \A r \in atStop' : fate[r] = "under way"
    BY <1>6, <1>t DEF Signal, UnderWay
  <2>3. \A r \in atStop' : r \in buffer \/ \E b \in batches : r \in b.entries
    BY <1>6 DEF Signal, Taken
  <2>4. QED
    BY <1>6, <2>1, <2>2, <2>3 DEF Signal, CloseStopChan
<1>7. CASE StopBuffer
  <2>1. \A b \in batches : b.by # "timer" /\ b.by # "stop"
    BY <1>7, <1>t DEF StopBuffer, StopFlush, LoopOwnsBatch, StopOwnsBatch, BatchesBy
  <2>2. batches \subseteq batches'
    BY <1>7 DEF StopBuffer, StopFlush, Take
  <2>3. ASSUME NEW r \in buffer PROVE WithFlush(r)'
    <3>1. [by |-> "stop", entries |-> buffer] \in batches' /\ phase' = "flushing"
      BY <1>7, <2>3 DEF StopBuffer, StopFlush, Take
    <3>2. QED
      BY <2>3, <3>1
  <2>4. \A r : (\E b \in batches : r \in b.entries) => WithFlush(r)'
    BY <2>1, <2>2
  <2>5. UNCHANGED <<fate, atStop>>
    BY <1>7 DEF StopBuffer
  <2>6. QED
    BY <1>t, <2>3, <2>4, <2>5
<1>8. CASE Die
  BY <1>8 DEF Die
<1>9. CASE Restart
  <2>1. phase # "stopping" /\ phase # "flushing"
    BY <1>9 DEF Restart
  <2>2. QED
    BY <1>9, <1>t, <2>1 DEF Restart
<1>10. QED
  BY <1>1, <1>2, <1>3, <1>4, <1>5, <1>6, <1>7, <1>8, <1>9
     DEF Next, Worker, TakeJob, BufferMetric, Put, FlushBySize, FlushByTimer, SizeFlush,
         Tick, LoopReturns, Main, Exit, Crash, vars

----------------------------------------------------------------------------
(* The invariant holds at the start, and every step keeps it.              *)
LEMMA InitInv == Init => IInv
<1> SUFFICES ASSUME Init PROVE IInv
  OBVIOUS
<1>1. IsFiniteSet({}) /\ Cardinality({}) = 0
  BY FS_EmptySet
<1>2. TypeOK
  <2>1. BufferType
    BY <1>1 DEF Init, BufferInit, BufferType
  <2>2. QED
    BY <2>1 DEF Init, TypeOK, Fates, Phases
<1>3. Queued = {} /\ InHand = {} /\ Taken = {} /\ UnderWay = {}
  <2>1. Queued = {}
    BY DEF Init, Queued
  <2>2. InHand = {} /\ UnderWay = {}
    BY DEF Init, InHand, UnderWay
  <2>3. Taken = {}
    BY DEF Init, BufferInit, Taken
  <2>4. QED
    BY <2>1, <2>2, <2>3
<1>4. OnePlace
  BY <1>3 DEF Init, BufferInit, OnePlace, Disjoint
<1>5. FullIsFlushed
  BY <1>1, BatchAssumption DEF Init, BufferInit, FullIsFlushed
<1>6. LoopOwnsBatch /\ StopOwnsBatch /\ StopKeepsTrack
  BY DEF Init, BufferInit, LoopOwnsBatch, StopOwnsBatch, StopKeepsTrack, BatchesBy
<1>7. QED
  BY <1>2, <1>4, <1>5, <1>6 DEF IInv

LEMMA StepInv == IInv /\ [Next]_vars => IInv'
BY StepType, StepPlace, StepFull, StepLoop, StepStop, StepTrack DEF IInv

LEMMA Invariance == Spec => []IInv
BY InitInv, StepInv, PTL DEF Spec

(***************************************************************************)
(* Every variable keeps its type.                                          *)
(***************************************************************************)
THEOREM PipelineTypes == Spec => []TypeOK
<1>1. IInv => TypeOK
  BY DEF IInv
<1>2. QED
  BY <1>1, Invariance, PTL

(***************************************************************************)
(* A report under way is in one place, and is stored at most once, however *)
(* workers and the three kinds of flush interleave.                        *)
(***************************************************************************)
THEOREM Conservation == Spec => []OnePlace
<1>1. IInv => OnePlace
  BY DEF IInv
<1>2. QED
  BY <1>1, Invariance, PTL

(***************************************************************************)
(* A full buffer has a flush on its way.                                   *)
(***************************************************************************)
THEOREM FullBufferIsFlushed == Spec => []FullIsFlushed
<1>1. IInv => FullIsFlushed
  BY DEF IInv
<1>2. QED
  BY <1>1, Invariance, PTL

(***************************************************************************)
(* When Stop has returned, only the batches of size flushes are left of    *)
(* what it found.                                                          *)
(***************************************************************************)
THEOREM StopFlushes == Spec => []StopFlushesRest
<1>1. IInv => StopFlushesRest
  <2> SUFFICES ASSUME IInv, phase = "closing",
                      NEW r \in atStop, fate[r] = "under way"
               PROVE  \E b \in BatchesBy("size") : r \in b.entries
    BY DEF StopFlushesRest
  <2>1. PICK b \in batches : r \in b.entries /\ b.by # "timer" /\ b.by # "stop"
    BY DEF IInv, StopKeepsTrack, WithFlush
  <2>2. b.by = "size"
    BY <2>1 DEF IInv, TypeOK, BufferType, Batch
  <2>3. QED
    BY <2>1, <2>2 DEF BatchesBy
<1>2. QED
  BY <1>1, Invariance, PTL

----------------------------------------------------------------------------
(* The steps of the pipeline are steps of the channel.                     *)
LEMMA SettleIsBecomes == \A S, f : Settle(S, f) <=> Channel!Becomes(S, f)
BY DEF Settle, Channel!Becomes

LEMMA WaitingIsUnderWay == Channel!Waiting = UnderWay
BY DEF UnderWay, Channel!Waiting

(* A report is refused when the queue is full, and so is the channel.      *)
LEMMA SaveIsChannel ==
  ASSUME TypeOK, OnePlace, NEW r \in Reports, Save(r)
  PROVE  Channel!ChannelNext
<1>1. InjectiveQueue /\ queue \in Seq(Reports) /\ Queued \subseteq Channel!Waiting
  BY WaitingIsUnderWay DEF OnePlace, Disjoint, InjectiveQueue, TypeOK
<1>2. CASE Len(queue) < QueueSize
  BY <1>2, SettleIsBecomes DEF Save, Channel!Accept, Channel!ChannelNext
<1>3. CASE ~(Len(queue) < QueueSize)
  <2> DEFINE q == [i \in 1 .. QueueSize |-> queue[i]]
  <2>1. Len(queue) \in Nat /\ Len(queue) >= QueueSize /\ QueueSize \in Nat
    BY <1>1, <1>3, PipelineAssumption
  <2>2. /\ q \in [1 .. QueueSize -> Queued]
        /\ \A i, j \in 1 .. QueueSize : q[i] = q[j] => i = j
    BY <1>1, <2>1 DEF Queued, InjectiveQueue
  <2>3. q \in [1 .. QueueSize -> Channel!Waiting]
    BY <1>1, <2>2
  <2>4. Channel!Full
    BY <2>2, <2>3 DEF Channel!Full
  <2> QED BY <1>3, <2>4, SettleIsBecomes DEF Save, Channel!Refuse, Channel!ChannelNext
<1> QED BY <1>2, <1>3

LEMMA StepIsChannel ==
  ASSUME TypeOK, OnePlace, [Next]_vars
  PROVE  [Channel!ChannelNext]_fate
<1> DEFINE Steps == Channel!ChannelNext \/ UNCHANGED fate
<1>1. ASSUME NEW S \in SUBSET UnderWay, NEW f \in {"stored", "lost"}, Settle(S, f)
      PROVE  Channel!ChannelNext
  BY <1>1, SettleIsBecomes, WaitingIsUnderWay
     DEF Channel!Deliver, Channel!Lose, Channel!ChannelNext
<1>2. ASSUME NEW r \in Reports, Save(r) PROVE Steps
  BY <1>2, SaveIsChannel
<1>3. ASSUME NEW w \in Workers, StoreOther(w) PROVE Steps
  <2>1. {hands[w]} \subseteq UnderWay
    BY <1>3, PipelineAssumption DEF StoreOther, OnePlace, InHand
  <2> QED BY <1>1, <1>3, <2>1 DEF StoreOther
<1>4. ASSUME NEW b \in batches, Insert(b) PROVE Steps
  <2>1. b.entries \subseteq UnderWay
    BY DEF OnePlace, Taken
  <2> QED BY <1>1, <1>4, <2>1 DEF Insert
<1>5. CASE Crash \/ Exit
  BY <1>1, <1>5 DEF Crash, Exit, Die
<1>6. ASSUME NEW w \in Workers, TakeJob(w) \/ BufferMetric(w) PROVE Steps
  BY <1>6 DEF TakeJob, BufferMetric
<1>7. CASE FlushBySize \/ FlushByTimer \/ Signal \/ StopBuffer \/ Restart
  BY <1>7 DEF FlushBySize, FlushByTimer, Signal, StopBuffer, Restart
<1>8. CASE UNCHANGED vars
  BY <1>8 DEF vars
<1> QED BY <1>2, <1>3, <1>4, <1>5, <1>6, <1>7, <1>8 DEF Next, Worker, Main

(***************************************************************************)
(* Queue, workers, buffer, flushes, shutdown and crash together are a      *)
(* channel that delivers a report at most once, and that refuses one only  *)
(* when the queue's capacity of reports is under way.                      *)
(***************************************************************************)
THEOREM PipelineIsChannel == Spec => ImplementsChannel
<1>1. Init => Channel!ChannelInit
  BY DEF Init, Channel!ChannelInit
<1>2. IInv /\ [Next]_vars => [Channel!ChannelNext]_fate
  BY StepIsChannel DEF IInv
<1> QED BY <1>1, <1>2, Invariance, PTL DEF Spec, ImplementsChannel, Channel!ChannelSpec

(***************************************************************************)
(* What has been stored or lost stays so: nothing stores a report twice,   *)
(* nor counts one as lost that is in the database.  It follows from what   *)
(* the channel promises.                                                   *)
(***************************************************************************)
SettledIsFinal ==
  [][\A r \in Reports : fate[r] \in {"stored", "lost"} => fate'[r] = fate[r]]_fate

THEOREM SettledStays == Spec => SettledIsFinal
<1>1. [Channel!ChannelNext]_fate =>
        [\A r \in Reports : fate[r] \in {"stored", "lost"} => fate'[r] = fate[r]]_fate
  BY DEF Channel!ChannelNext, Channel!Accept, Channel!Refuse, Channel!Deliver, Channel!Lose,
         Channel!Becomes, Channel!Waiting
<1> QED BY <1>1, PipelineIsChannel, PTL DEF ImplementsChannel, Channel!ChannelSpec, SettledIsFinal

----------------------------------------------------------------------------
(* The feed of the browsers.                                               *)

(***************************************************************************)
(* A connection that is opened or closed is not in the table: its id is    *)
(* its own, and its handler is the only one that enters it.                *)
(***************************************************************************)
OutsideIsOut ==
  \A b \in Browsers : handler[b].step \in {"none", "register", "close"} => b \notin table

FeedInv == FeedType /\ OutsideIsOut /\ HeardAll

----------------------------------------------------------------------------
(* A step of a handler that does not touch the table, nor opens or closes  *)
(* its connection, and may break it.                                       *)
LEMMA HandlerKeeps ==
  ASSUME FeedInv, NEW b \in Browsers, NEW next \in Handler,
         handler' = [handler EXCEPT ![b] = next],
         next.step \in {"none", "register", "close"} => b \notin table,
         UNCHANGED <<table, closed, informed, casts, drops>>,
         broken \subseteq broken', broken' \subseteq Browsers
  PROVE  FeedInv'
BY DEF FeedInv, FeedType, OutsideIsOut, HeardAll

LEMMA NextIsHandler ==
  ASSUME FeedType, NEW b \in Browsers,
         NEW step \in {"none", "register", "welcome", "count", "states", "push",
                       "read", "alone", "error", "raw", "pong", "leave", "close"}
  PROVE  /\ [handler[b] EXCEPT !.step = step] \in Handler
         /\ [handler[b] EXCEPT !.step = step].step = step
BY DEF FeedType, Handler

(* A connection is taken out of the table, or was not in it.               *)
LEMMA UnregisterKeeps ==
  ASSUME FeedInv, NEW b \in Browsers, UnregisterFrontend(b), UNCHANGED casts,
         handler' \in [Browsers -> Handler], drops' \subseteq Browsers,
         \A c \in Browsers \ {b} : handler'[c] = handler[c]
  PROVE  FeedInv'
BY DEF FeedInv, FeedType, OutsideIsOut, HeardAll, UnregisterFrontend

LEMMA FeedStepInv == ASSUME FeedInv, [FeedNext]_feedVars PROVE FeedInv'
<1> USE FeedAssumption DEF FeedInv
<1>1. CASE Broadcast
  <2> DEFINE new == [latest |-> TRUE, left |-> table, at |-> NoBrowser]
             older(k) == [k EXCEPT !.latest = FALSE]
  <2>1. /\ casts' = {older(k) : k \in casts} \cup {new}
        /\ UNCHANGED <<handler, table, closed, broken, drops>> /\ informed' = {}
    BY <1>1 DEF Broadcast, sockets
  <2>2. new \in Cast /\ new.latest /\ new.left = table
    BY DEF FeedType, Cast
  <2>3. \A k \in casts : older(k) \in Cast
    BY DEF FeedType, Cast
  <2> HIDE DEF new, older
  <2>4. FeedType'
    BY <2>1, <2>2, <2>3 DEF FeedType
  <2>5. HeardAll'
    BY <2>1, <2>2 DEF HeardAll
  <2> QED BY <2>1, <2>4, <2>5 DEF OutsideIsOut
<1>2. ASSUME NEW k \in casts, NEW b \in Browsers, CastTurns(k, b) PROVE FeedInv'
  <2> DEFINE past == [k EXCEPT !.left = @ \ {b}]
             at == [k EXCEPT !.left = @ \ {b}, !.at = b]
  <2>1. /\ past \in Cast /\ past.left = k.left \ {b} /\ past.at = k.at /\ past.latest = k.latest
        /\ at \in Cast /\ at.left = k.left \ {b} /\ at.at = b /\ at.latest = k.latest
    BY DEF FeedType, Cast
  <2>2. /\ k.at = NoBrowser
        /\ \/ b \in closed /\ casts' = (casts \ {k}) \cup {past}
           \/ casts' = (casts \ {k}) \cup {at}
        /\ UNCHANGED <<handler, table, closed, broken, informed, drops>>
    BY <1>2 DEF CastTurns, Becomes, sockets
  <2> HIDE DEF past, at
  <2>3. FeedType'
    BY <2>1, <2>2 DEF FeedType
  <2>4. HeardAll'
    <3> SUFFICES ASSUME NEW c \in table \ (closed \cup broken), c \notin informed
                 PROVE  \E q \in casts' : q.latest /\ c \in q.left \cup {q.at}
      BY <2>2 DEF HeardAll
    <3>1. PICK q \in casts : q.latest /\ c \in q.left \cup {q.at}
      BY DEF HeardAll
    <3>2. CASE q # k
      BY <2>2, <3>1, <3>2
    <3>3. CASE q = k
      <4>1. c \in k.left
        BY <2>2, <3>1, <3>3 DEF FeedType
      <4>2. CASE casts' = (casts \ {k}) \cup {at}
        BY <2>1, <3>1, <3>3, <4>1, <4>2
      <4>3. CASE b \in closed /\ casts' = (casts \ {k}) \cup {past}
        BY <2>1, <3>1, <3>3, <4>1, <4>3
      <4> QED BY <2>2, <4>2, <4>3
    <3> QED BY <3>2, <3>3
  <2> QED BY <2>2, <2>3, <2>4 DEF OutsideIsOut
<1>3. ASSUME NEW k \in casts, CastWrites(k) PROVE FeedInv'
  <2> DEFINE done == [k EXCEPT !.at = NoBrowser]
  <2>1. /\ done \in Cast /\ done.left = k.left /\ done.latest = k.latest
        /\ k.at \in Browsers \cup {NoBrowser} /\ k \in Cast
    BY DEF FeedType, Cast
  <2>2. /\ k.at # NoBrowser
        /\ casts' = (casts \ {k}) \cup {done}
        /\ \/ /\ k.at \notin closed \cup broken
              /\ informed' = IF k.latest /\ k.at \in table THEN informed \cup {k.at} ELSE informed
              /\ UNCHANGED <<broken, drops>>
           \/ /\ broken' = IF k.at \in closed THEN broken ELSE broken \cup {k.at}
              /\ drops' = drops \cup {k.at}
              /\ UNCHANGED informed
        /\ UNCHANGED <<handler, table, closed>>
    BY <1>3 DEF CastWrites, Becomes, WriteSucceeds, WriteFails, Informs
  <2> HIDE DEF done
  <2>3. FeedType'
    BY <2>1, <2>2 DEF FeedType
  <2>4. HeardAll'
    BY <2>1, <2>2 DEF HeardAll
  <2> QED BY <2>2, <2>3, <2>4 DEF OutsideIsOut
<1>4. ASSUME NEW k \in casts, CastEnds(k) PROVE FeedInv'
  BY <1>4 DEF CastEnds, Becomes, sockets, FeedType, OutsideIsOut, HeardAll
<1>5. ASSUME NEW b \in Browsers, Connect(b) PROVE FeedInv'
  <2>1. b \notin table
    BY <1>5 DEF Connect, At, OutsideIsOut
  <2>2. /\ handler' = [handler EXCEPT ![b] = [handler[b] EXCEPT !.step = "register"]]
        /\ closed' = closed \ {b}
        /\ UNCHANGED <<table, broken, informed, casts, drops>>
    BY <1>5 DEF Connect, Goto, news
  <2>3. FeedType'
    BY <2>2, NextIsHandler DEF FeedType
  <2> QED BY <2>1, <2>2, <2>3, NextIsHandler DEF FeedType, OutsideIsOut, HeardAll
<1>6. ASSUME NEW b \in Browsers, RegisterFrontend(b) PROVE FeedInv'
  <2>1. /\ handler' = [handler EXCEPT ![b] = [handler[b] EXCEPT !.step = "welcome"]]
        /\ table' = table \cup {b} /\ informed' = informed \cup {b}
        /\ UNCHANGED <<closed, broken, casts, drops>>
    BY <1>6 DEF RegisterFrontend, Goto, sockets
  <2>2. FeedType'
    BY <2>1, NextIsHandler DEF FeedType
  <2> QED BY <2>1, <2>2, NextIsHandler DEF FeedType, OutsideIsOut, HeardAll
<1>7. ASSUME NEW b \in Browsers, Leave(b) PROVE FeedInv'
  <2>1. UnregisterFrontend(b) /\ UNCHANGED <<casts, drops>>
    BY <1>7 DEF Leave
  <2>2. handler' = [handler EXCEPT ![b] = [handler[b] EXCEPT !.step = "close"]]
    BY <1>7 DEF Leave, Goto
  <2>3. handler' \in [Browsers -> Handler] /\ \A c \in Browsers \ {b} : handler'[c] = handler[c]
    BY <2>2, NextIsHandler DEF FeedType
  <2> QED BY <2>1, <2>3, UnregisterKeeps DEF FeedType
<1>8. ASSUME NEW b \in Browsers, Drop(b) PROVE FeedInv'
  BY <1>8, UnregisterKeeps DEF Drop, FeedType
<1>9. ASSUME NEW b \in Browsers, Close(b) PROVE FeedInv'
  <2>1. b \notin table
    BY <1>9 DEF Close, At, OutsideIsOut
  <2>2. /\ handler' = [handler EXCEPT ![b] = [handler[b] EXCEPT !.step = "none"]]
        /\ closed' = closed \cup {b} /\ broken' = broken \ {b}
        /\ UNCHANGED <<table, informed, casts, drops>>
    BY <1>9 DEF Close, Goto, news
  <2>3. FeedType'
    BY <2>2, NextIsHandler DEF FeedType
  <2> QED BY <2>1, <2>2, <2>3, NextIsHandler DEF FeedType, OutsideIsOut, HeardAll
<1>10. ASSUME NEW b \in Browsers, PanelPanics(b) PROVE FeedInv'
  BY <1>10 DEF PanelPanics, NoHandler, FeedType, Handler, OutsideIsOut, HeardAll
<1>11. ASSUME NEW b \in Browsers,
             \/ Greet(b) \/ QueryStates(b) \/ PushState(b) \/ StopReading(b) \/ HandlePing(b)
             \/ SendError(b) \/ Receive(b) \/ Disappear(b) \/ HandlerPanics(b)
       PROVE FeedInv'
  <2>1. /\ UNCHANGED <<table, closed, informed, casts, drops>>
        /\ broken \subseteq broken' /\ broken' \subseteq Browsers
    BY <1>11 DEF Greet, QueryStates, PushState, StopReading, HandlePing, SendError, Receive,
       Disappear, HandlerPanics, Writes, WriteSucceeds, WriteFails, sockets, news, FeedType
  <2>2. CASE \E step \in {"count", "states", "read", "pong", "error", "alone", "leave", "raw"} :
               Goto(b, step)
    <3>1. PICK step \in {"count", "states", "read", "pong", "error", "alone", "leave", "raw"} :
            Goto(b, step)
      BY <2>2
    <3> DEFINE next == [handler[b] EXCEPT !.step = step]
    <3>2. next \in Handler /\ next.step = step
      BY DEF FeedType, Handler
    <3>3. handler' = [handler EXCEPT ![b] = next]
      BY <3>1 DEF Goto
    <3> HIDE DEF next
    <3>4. next.step \in {"none", "register", "close"} => b \notin table
      BY <3>2
    <3> QED BY <2>1, <3>2, <3>3, <3>4, HandlerKeeps
  <2>3. CASE QueryStates(b) \/ PushState(b)
    <3>1. handler[b] \in Handler
      BY DEF FeedType
    <3>2. \/ Goto(b, "read")
          \/ \E n \in 0 .. MaxOnline, step \in {"push", "read"} :
               handler' = [handler EXCEPT ![b] = [step |-> step, todo |-> n]]
      BY <2>3, <3>1 DEF QueryStates, PushState, Handler, At
    <3>3. \A n \in 0 .. MaxOnline, step \in {"push", "read"} :
            [step |-> step, todo |-> n] \in Handler
      BY DEF Handler
    <3> QED BY <2>1, <2>2, <3>2, <3>3, HandlerKeeps
  <2> QED BY <1>11, <2>2, <2>3 DEF Greet, StopReading, HandlePing, SendError, Receive, Disappear,
             HandlerPanics
<1>12. CASE UNCHANGED feedVars
  BY <1>12 DEF feedVars, sockets, news, FeedType, OutsideIsOut, HeardAll
<1> QED BY <1>1, <1>2, <1>3, <1>4, <1>5, <1>6, <1>7, <1>8, <1>9, <1>10, <1>11, <1>12
        DEF FeedNext, HandlerStep

----------------------------------------------------------------------------
(***************************************************************************)
(* The invariant the two theorems below are parts of: who is not in the    *)
(* table need not hear.                                                    *)
(***************************************************************************)
THEOREM FeedInvariance == FeedSpec => []FeedInv
<1>1. FeedInit => FeedInv
  BY FeedAssumption DEF FeedInit, FeedInv, FeedType, NoHandler, Handler, OutsideIsOut, HeardAll
<1> QED BY <1>1, FeedStepInv, PTL DEF FeedSpec

(***************************************************************************)
(* The connections, the table and the broadcasts keep their types.         *)
(***************************************************************************)
THEOREM FeedTypeCorrect == FeedSpec => []FeedType
<1>1. FeedInv => FeedType
  BY DEF FeedInv
<1> QED BY <1>1, FeedInvariance, PTL

(***************************************************************************)
(* A change that is broadcast reaches every browser in the table, however  *)
(* many come, go and fail while it is written to one after the other.      *)
(***************************************************************************)
THEOREM EveryoneHears == FeedSpec => []HeardAll
<1>1. FeedInv => HeardAll
  BY DEF FeedInv
<1> QED BY <1>1, FeedInvariance, PTL

===============================================================================
