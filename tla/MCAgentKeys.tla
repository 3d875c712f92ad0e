---------------------------- MODULE MCAgentKeys ----------------------------
(* Connections and agents are interchangeable.                             *)
EXTENDS AgentKeys, TLC

Interchangeable == Permutations(Conns) \cup Permutations(Agents)
============================================================================
