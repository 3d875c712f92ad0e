--------------------------- MODULE MCPanelProcess ---------------------------
(* Commands and process numbers are interchangeable.                       *)
EXTENDS PanelProcess, TLC

Interchangeable == Permutations(Commands) \cup Permutations(Pids)
============================================================================
