--------------------------- MODULE MCPanelAccess ---------------------------
(* The login requests are interchangeable.                                 *)
EXTENDS PanelAccess, TLC

Interchangeable == Permutations(Logins)
============================================================================
