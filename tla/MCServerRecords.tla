-------------------------- MODULE MCServerRecords --------------------------
(* The requests are interchangeable.                                       *)
EXTENDS ServerRecords, TLC

Interchangeable == Permutations(Requests)
============================================================================
