------------------------------ MODULE BatchBuffer -----------------------------
(***************************************************************************)
(* The buffer that MetricBuffer (metric_buffer.go) and LogWriter           *)
(* (log_queue.go) have in common.  Put appends under the mutex and, from   *)
(* BatchSize entries on, starts a goroutine that flushes; a ticker's loop  *)
(* flushes as well, and so does Stop.  A flush takes the whole buffer      *)
(* under the mutex and writes what it took without it, so several flushes  *)
(* can be writing at once.  What writing does is the using module's part.  *)
(***************************************************************************)
EXTENDS Naturals, FiniteSets

CONSTANTS
  Entries,     (* what is buffered                                         *)
  BatchSize    (* the number of entries from which Put asks for a flush    *)

ASSUME BatchAssumption == BatchSize \in Nat \ {0}

VARIABLES
  buffer,      (* the entries in the buffer                                *)
  spawned,     (* flush goroutines of Put that have not had the mutex yet  *)
  batches,     (* what was taken and is being written, and by whose flush  *)
  loop,        (* flushLoop: waits in its select, writes, has returned     *)
  stopped      (* stopChan is closed                                       *)

bufferVars == <<buffer, spawned, batches, loop, stopped>>

Batch == [by : {"size", "timer", "stop"}, entries : (SUBSET Entries) \ {{}}]

BufferType ==
  /\ buffer \in SUBSET Entries /\ IsFiniteSet(buffer)
  /\ spawned \in Nat
  /\ batches \subseteq Batch
  /\ loop \in {"select", "writing", "returned"}
  /\ stopped \in BOOLEAN

BufferInit ==
  /\ buffer = {}
  /\ spawned = 0
  /\ batches = {}
  /\ loop = "select"
  /\ stopped = FALSE

BatchesBy(f) == {b \in batches : b.by = f}
Taken == UNION {b.entries : b \in batches}

----------------------------------------------------------------------------
(* Enqueue                                                                 *)
Put(e) ==
  /\ buffer' = buffer \cup {e}
  /\ spawned' = IF Cardinality(buffer') >= BatchSize THEN spawned + 1 ELSE spawned
  /\ UNCHANGED <<batches, loop, stopped>>

(* Faulty variants of Take: an empty buffer makes a batch, too; the buffer *)
(* is not emptied.                                                         *)
TakeEvenNothing(f) ==
  /\ buffer' = {}
  /\ batches' = batches \cup {[by |-> f, entries |-> buffer]}

TakeCopy(f) ==
  /\ buffer' = buffer
  /\ batches' = IF buffer = {} THEN batches
                ELSE batches \cup {[by |-> f, entries |-> buffer]}

(* The critical section of flush.                                          *)
Take(f) ==
  /\ buffer' = {}
  /\ batches' = IF buffer = {} THEN batches
                ELSE batches \cup {[by |-> f, entries |-> buffer]}

SizeFlush ==
  /\ spawned > 0
  /\ spawned' = spawned - 1
  /\ Take("size")
  /\ UNCHANGED <<loop, stopped>>

(* Faulty variant of Tick: the timer, too, waits for a full batch.         *)
TickIfFull ==
  /\ loop = "select"
  /\ Cardinality(buffer) >= BatchSize
  /\ Take("timer")
  /\ loop' = "writing"
  /\ UNCHANGED <<spawned, stopped>>

(* The ticker fires.  It may be chosen though stopChan is closed already.  *)
Tick ==
  /\ loop = "select"
  /\ Take("timer")
  /\ loop' = IF buffer = {} THEN "select" ELSE "writing"
  /\ UNCHANGED <<spawned, stopped>>

LoopReturns ==
  /\ loop = "select" /\ stopped
  /\ loop' = "returned"
  /\ UNCHANGED <<buffer, spawned, batches, stopped>>

(* flush returns.                                                          *)
Finish(b) ==
  /\ batches' = batches \ {b}
  /\ loop' = IF b.by = "timer" THEN "select" ELSE loop
  /\ UNCHANGED <<buffer, spawned, stopped>>

(* Stop: it closes stopChan, waits for the loop, and flushes what is left. *)
CloseStopChan ==
  /\ ~stopped
  /\ stopped' = TRUE
  /\ UNCHANGED <<buffer, spawned, batches, loop>>

(* Faulty variant of StopFlush: it does not wait for the loop.             *)
StopFlushAtOnce ==
  /\ Take("stop")
  /\ UNCHANGED <<spawned, loop, stopped>>

StopFlush ==
  /\ loop = "returned"
  /\ Take("stop")
  /\ UNCHANGED <<spawned, loop, stopped>>

(* The process ends, and another one begins with the state of BufferInit.  *)
BufferReset ==
  /\ buffer' = {}
  /\ spawned' = 0
  /\ batches' = {}
  /\ loop' = "select"
  /\ stopped' = FALSE

----------------------------------------------------------------------------
(***************************************************************************)
(* A buffer of BatchSize entries or more has a flush on its way, however   *)
(* the flushes of Put, of the ticker and of Stop overtake each other       *)
(* (metric_buffer.go:67, "flush at once when the batch size is reached").  *)
(***************************************************************************)
FullIsFlushed == Cardinality(buffer) >= BatchSize => spawned > 0
============================================================================
