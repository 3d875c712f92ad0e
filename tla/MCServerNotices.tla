-------------------------- MODULE MCServerNotices --------------------------
EXTENDS ServerNotices, TLC

(* The connections of a server are used in any order.                      *)
Interchangeable == Permutations(Conns)
============================================================================
