----------------------------- MODULE DataPipeline -----------------------------
(***************************************************************************)
(* What becomes of the reports agents send.  A handler puts a job into a   *)
(* bounded queue without ever waiting (agent_data_worker.go); a pool of    *)
(* workers executes the jobs (agent_data_service.go): a metric goes to the *)
(* metric buffer, whose flushes insert it in a batch, anything else is     *)
(* written to the database by the worker.  On a signal main stops the      *)
(* metric buffer, then the routes, and exits; workers and size flushes are *)
(* not waited for (main.go).                                               *)
(***************************************************************************)
EXTENDS BatchBuffer, Sequences

CONSTANTS
  Others,      (* reports that are not metrics: system, process, GPU, logs *)
  Workers,
  QueueSize,   (* capacity of jobQueue                                     *)
  NoJob

ASSUME PipelineAssumption ==
  /\ Entries \cap Others = {}
  /\ QueueSize \in Nat \ {0}
  /\ NoJob \notin Entries \cup Others

VARIABLES
  fate,        (* what has become of each report                           *)
  queue,       (* jobQueue                                                 *)
  hands,       (* the job each worker executes                             *)
  phase,       (* how far main has come                                    *)
  atStop       (* history: the metrics in the buffer or a batch at Stop    *)

vars == <<buffer, spawned, batches, loop, stopped, fate, queue, hands, phase, atStop>>

Reports == Entries \cup Others      (* Entries are the metrics             *)

Fates == {"unsent", "under way", "stored", "lost"}
Phases == {"running", "stopping", "flushing", "closing", "ended"}

TypeOK ==
  /\ BufferType
  /\ fate \in [Reports -> Fates]
  /\ queue \in Seq(Reports)
  /\ hands \in [Workers -> Reports \cup {NoJob}]
  /\ phase \in Phases
  /\ atStop \subseteq Entries

Init ==
  /\ BufferInit
  /\ fate = [r \in Reports |-> "unsent"]
  /\ queue = <<>>
  /\ hands = [w \in Workers |-> NoJob]
  /\ phase = "running"
  /\ atStop = {}

----------------------------------------------------------------------------
Alive == phase # "ended"

Queued == {queue[i] : i \in 1 .. Len(queue)}
InHand == {hands[w] : w \in Workers} \ {NoJob}
UnderWay == {r \in Reports : fate[r] = "under way"}

Settle(S, f) == fate' = [r \in Reports |-> IF r \in S THEN f ELSE fate[r]]

(* SaveMetrics and its likes: the agent is told that all is well whether   *)
(* the queue took the job or not.                                          *)
Save(r) ==
  /\ Alive
  /\ fate[r] = "unsent"
  /\ IF Len(queue) < QueueSize
     THEN queue' = Append(queue, r) /\ Settle({r}, "under way")
     ELSE Settle({r}, "lost") /\ UNCHANGED queue
  /\ UNCHANGED <<buffer, spawned, batches, loop, stopped, hands, phase, atStop>>

TakeJob(w) ==
  /\ Alive
  /\ hands[w] = NoJob
  /\ queue # <<>>
  /\ hands' = [hands EXCEPT ![w] = Head(queue)]
  /\ queue' = Tail(queue)
  /\ UNCHANGED <<buffer, spawned, batches, loop, stopped, fate, phase, atStop>>

(* saveMetricsJob.Execute                                                  *)
BufferMetric(w) ==
  /\ Alive
  /\ hands[w] \in Entries
  /\ Put(hands[w])
  /\ hands' = [hands EXCEPT ![w] = NoJob]
  /\ UNCHANGED <<fate, queue, phase, atStop>>

(* Execute of the other jobs; nobody tries again after an error.           *)
StoreOther(w) ==
  /\ Alive
  /\ hands[w] \in Others
  /\ Settle({hands[w]}, "stored") \/ Settle({hands[w]}, "lost")
  /\ hands' = [hands EXCEPT ![w] = NoJob]
  /\ UNCHANGED <<buffer, spawned, batches, loop, stopped, queue, phase, atStop>>

(* A goroutine Put has started; one round of flushLoop.                    *)
FlushBySize ==
  /\ Alive
  /\ SizeFlush
  /\ UNCHANGED <<fate, queue, hands, phase, atStop>>

FlushByTimer ==
  /\ Alive
  /\ Tick \/ LoopReturns
  /\ UNCHANGED <<fate, queue, hands, phase, atStop>>

(* BatchCreate inserts the batch as a whole, or fails as a whole.          *)
Insert(b) ==
  /\ Alive
  /\ Finish(b)
  /\ Settle(b.entries, "stored") \/ Settle(b.entries, "lost")
  /\ phase' = IF b.by = "stop" THEN "closing" ELSE phase
  /\ UNCHANGED <<queue, hands, atStop>>

(* A signal arrives: Stop of the metric buffer, which then waits.          *)
Signal ==
  /\ phase = "running"
  /\ CloseStopChan
  /\ phase' = "stopping"
  /\ atStop' = buffer \cup Taken
  /\ UNCHANGED <<fate, queue, hands>>

StopBuffer ==
  /\ phase = "stopping"
  /\ StopFlush
  /\ phase' = IF buffer = {} THEN "closing" ELSE "flushing"
  /\ UNCHANGED <<fate, queue, hands, atStop>>

(* The process ends with whatever has not been written.                    *)
Die ==
  /\ phase' = "ended"
  /\ Settle(UnderWay, "lost")
  /\ queue' = <<>>
  /\ hands' = [w \in Workers |-> NoJob]
  /\ atStop' = {}
  /\ BufferReset

(* The routes and the schedule are shut down, then os.Exit.                *)
Exit == phase = "closing" /\ Die

(* A crash, or the SIGKILL of the stop command after three seconds.        *)
Crash == Alive /\ Die

Restart ==
  /\ phase = "ended"
  /\ phase' = "running"
  /\ UNCHANGED <<buffer, spawned, batches, loop, stopped, fate, queue, hands, atStop>>

----------------------------------------------------------------------------
Worker(w) == TakeJob(w) \/ BufferMetric(w) \/ StoreOther(w)
Main == StopBuffer \/ Exit

Next ==
  \/ \E r \in Reports : Save(r)
  \/ \E w \in Workers : Worker(w)
  \/ FlushBySize \/ FlushByTimer
  \/ \E b \in batches : Insert(b)
  \/ Signal \/ Main \/ Crash \/ Restart

Spec == Init /\ [][Next]_vars

(* Goroutines run on, the ticker fires, inserts end, and main goes on once *)
(* it has been told to stop.  Nothing makes agents send, or the panel stop *)
(* or start again.                                                         *)
Fairness ==
  /\ \A w \in Workers : WF_vars(Worker(w))
  /\ WF_vars(FlushBySize)
  /\ WF_vars(FlushByTimer)
  /\ \A e \in Entries : WF_vars(\E b \in batches : e \in b.entries /\ Insert(b))
  /\ WF_vars(Main)

FairSpec == Spec /\ Fairness

----------------------------------------------------------------------------
(***************************************************************************)
(* A report that was accepted and is not settled is in one place: the      *)
(* queue, the hands of one worker, the buffer, or one batch; and nothing   *)
(* settled is left in any of them, so that no report is stored twice.      *)
(***************************************************************************)
Disjoint ==
  /\ \A i, j \in 1 .. Len(queue) : queue[i] = queue[j] => i = j
  /\ \A v, w \in Workers : hands[v] = hands[w] /\ hands[v] # NoJob => v = w
  /\ \A b, c \in batches : b # c => b.entries \cap c.entries = {}
  /\ Queued \cap InHand = {}
  /\ (Queued \cup InHand) \cap (buffer \cup Taken) = {}
  /\ buffer \cap Taken = {}

OnePlace ==
  /\ Disjoint
  /\ UnderWay = Queued \cup InHand \cup buffer \cup Taken

(***************************************************************************)
(* "Flush the remaining metrics" (metric_buffer.go:55): when Stop of the   *)
(* metric buffer has returned, what was in the buffer or being written as  *)
(* it was called has been inserted, or its insert has failed.              *)
(***************************************************************************)
StopFlushesAll ==
  phase = "closing" => \A r \in atStop : fate[r] # "under way"

(***************************************************************************)
(* The same but for the batches of the goroutines that Put has started,    *)
(* which Stop does not wait for.                                           *)
(***************************************************************************)
StopFlushesRest ==
  phase = "closing" =>
    \A r \in atStop : fate[r] = "under way" => \E b \in BatchesBy("size") : r \in b.entries

(***************************************************************************)
(* Every report that was accepted is settled in the end: no metric is left *)
(* behind in the buffer by flushes that find it empty, and Stop comes to   *)
(* its end.                                                                *)
(***************************************************************************)
Settles == \A r \in Reports : fate[r] = "under way" ~> fate[r] # "under way"

(***************************************************************************)
(* The pipeline is a channel that loses reports but delivers none twice,   *)
(* and that refuses one only when the queue's capacity of reports is under *)
(* way ("数据任务队列已满，丢弃任务", agent_data_worker.go:59), in spite of   *)
(* batches, failed inserts, shutdown and crash.                            *)
(***************************************************************************)
Channel == INSTANCE ReportChannel WITH Capacity <- QueueSize

ImplementsChannel == Channel!ChannelSpec
============================================================================
