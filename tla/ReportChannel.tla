---------------------------- MODULE ReportChannel ----------------------------
(***************************************************************************)
(* What the way from the agents to the tables promises for each report: it *)
(* is delivered at most once, is refused only when Capacity reports wait,  *)
(* and is settled together with others or by itself, once.  DataPipeline,  *)
(* with its queue, workers, buffer and shutdown, is shown to implement     *)
(* this module.                                                            *)
(***************************************************************************)
EXTENDS Naturals

CONSTANTS
  Reports,   (* what agents send                                           *)
  Capacity   (* how many reports wait before one may be refused            *)

VARIABLE
  fate       (* what has become of each report                             *)

ChannelInit == fate = [r \in Reports |-> "unsent"]

Waiting == {r \in Reports : fate[r] = "under way"}
Full ==
  \E q \in [1 .. Capacity -> Waiting] :
    \A i, j \in 1 .. Capacity : q[i] = q[j] => i = j

Becomes(S, f) == fate' = [r \in Reports |-> IF r \in S THEN f ELSE fate[r]]

Accept(r) == fate[r] = "unsent" /\ Becomes({r}, "under way")

Refuse(r) == fate[r] = "unsent" /\ Full /\ Becomes({r}, "lost")

(* A write to the database, and its failure or the end of the process.     *)
Deliver(S) == Becomes(S, "stored")
Lose(S) == Becomes(S, "lost")

ChannelNext ==
  \/ \E r \in Reports : Accept(r) \/ Refuse(r)
  \/ \E S \in SUBSET Waiting : Deliver(S) \/ Lose(S)

ChannelSpec == ChannelInit /\ [][ChannelNext]_fate
============================================================================
