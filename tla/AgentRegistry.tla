--------------------------- MODULE AgentRegistry ---------------------------
(***************************************************************************)
(* What the agent registry of app/services/websocket/manager.go promises   *)
(* to the rest of the panel: a table with at most one connection for each  *)
(* server, in which a connection is entered once in its life, for one      *)
(* server, and from which it is removed for good.  Nothing is said of      *)
(* sockets, handlers or goroutines: those are AgentConnections, which is   *)
(* shown to implement this module.                                         *)
(***************************************************************************)

CONSTANTS
  Servers,   (* ids of the rows of the servers table                       *)
  Conns,     (* every connection an agent ever opens                       *)
  NoConn     (* "the map has no entry": the second result of a map lookup  *)

ASSUME RegistryAssumption == NoConn \notin Conns

VARIABLES
  registry,  (* agentConnections: the connection of each server, or NoConn *)
  used       (* the connections that have been entered, now or earlier     *)

registryVars == <<registry, used>>

RegistryType ==
  /\ registry \in [Servers -> Conns \cup {NoConn}]
  /\ used \subseteq Conns

RegistryInit ==
  /\ registry = [s \in Servers |-> NoConn]
  /\ used = {}

(***************************************************************************)
(* A new connection takes the place of whatever the server had.            *)
(***************************************************************************)
Register(s, c) ==
  /\ c \notin used
  /\ registry' = [registry EXCEPT ![s] = c]
  /\ used' = used \cup {c}

Unregister(s) ==
  /\ registry[s] # NoConn
  /\ registry' = [registry EXCEPT ![s] = NoConn]
  /\ UNCHANGED used

(***************************************************************************)
(* The panel is started again: the table is made anew, and a connection to *)
(* the process that has ended cannot come into it.                         *)
(***************************************************************************)
Forget ==
  /\ registry' = [s \in Servers |-> NoConn]
  /\ UNCHANGED used

RegistryNext ==
  \E s \in Servers :
    \/ Unregister(s)
    \/ \E c \in Conns : Register(s, c)

(* The registry of one process, and that of the panel with its restarts.   *)
RegistrySpec == RegistryInit /\ [][RegistryNext]_registryVars
LastingSpec == RegistryInit /\ [][RegistryNext \/ Forget]_registryVars

(***************************************************************************)
(* A connection answers for one server only: a message the panel sends to  *)
(* a server never reaches the agent of another one.                        *)
(***************************************************************************)
OneServerPerConn ==
  \A s, t \in Servers :
    registry[s] = registry[t] /\ registry[s] # NoConn => s = t
============================================================================
