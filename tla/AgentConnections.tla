-------------------------- MODULE AgentConnections -------------------------
(***************************************************************************)
(* The life of the agents' WebSocket connections: the handler goroutine of *)
(* each connection (HandleAgentConnection), authentication (HandleAuth),   *)
(* the registry of the connection manager, the goroutine that closes a     *)
(* replaced connection later, the heartbeat checker, and the API request   *)
(* that resets an agent's key.                                             *)
(*                                                                         *)
(* One action is one stretch of code that no other goroutine can see half  *)
(* done: a critical section of agentMutex, one access to a connection's    *)
(* state, one blocking read or write of a socket.                          *)
(***************************************************************************)

CONSTANTS
  Servers,    (* ids of the servers an agent key can belong to             *)
  Conns,      (* the connections agents open; each is accepted once        *)
  NoServer,   (* the empty serverID of a connection                        *)
  NoConn,     (* no entry in the registry                                  *)
  Reauth      (* may an agent that has been told it is authenticated send  *)
              (* another auth message on the same connection?              *)

ASSUME ConnectionsAssumption ==
  /\ NoServer \notin Servers
  /\ NoConn \notin Conns
  /\ Reauth \in BOOLEAN

VARIABLES
  pc,         (* where the handler goroutine of each connection is         *)
  state,      (* BaseConnection.state                                      *)
  socket,     (* the server's end: none, open, broken (writes fail from    *)
              (* now on, reads may go on), closed                          *)
  serverID,   (* AgentConnection.serverID                                  *)
  gone,       (* connections whose agent has disappeared                   *)
  stale,      (* connections whose lastPing is more than 60s old           *)
  registry,   (* connectionManager.agentConnections                        *)
  closing,    (* connections a goroutine of RegisterAgent will close       *)
  todo,       (* the heartbeat checker's copy of the registry, less the    *)
              (* entries it has dealt with                                 *)
  evicting,   (* the server the checker is about to unregister             *)
  answered    (* history: connections whose auth success was written       *)

handlerVars == <<pc, serverID, answered>>
checkerVars == <<todo, evicting>>
agentVars   == <<gone, stale>>
vars == <<pc, state, socket, serverID, gone, stale, registry, closing, todo,
          evicting, answered>>

----------------------------------------------------------------------------
States  == {"Connecting", "Authenticated", "Closed"}
Sockets == {"none", "open", "broken", "closed"}

(* "top": before the IsClosed check that starts a round of the loop;       *)
(* "read": blocked in ReadMessage; "handle": a message has been parsed;    *)
(* "ping": HandleHeartbeat has found the sender authenticated; "auth":     *)
(* HandleAuth before it changes the connection; "respond": before it       *)
(* writes the answer; "register": before RegisterAgent; "defer": the loop  *)
(* is left; "unregister", "close": the calls of the deferred function      *)
PCs == {"none", "top", "read", "handle", "ping", "auth", "respond",
        "register", "defer", "unregister", "close", "done"}

TypeOK ==
  /\ pc \in [Conns -> PCs]
  /\ state \in [Conns -> States]
  /\ socket \in [Conns -> Sockets]
  /\ serverID \in [Conns -> Servers \cup {NoServer}]
  /\ gone \subseteq Conns
  /\ stale \subseteq Conns
  /\ registry \in [Servers -> Conns \cup {NoConn}]
  /\ closing \subseteq Conns
  /\ todo \in [Servers -> Conns \cup {NoConn}]
  /\ evicting \in Servers \cup {NoServer}
  /\ answered \subseteq Conns

Nothing == [s \in Servers |-> NoConn]

Init ==
  /\ pc = [c \in Conns |-> "none"]
  /\ state = [c \in Conns |-> "Connecting"]
  /\ socket = [c \in Conns |-> "none"]
  /\ serverID = [c \in Conns |-> NoServer]
  /\ gone = {} /\ stale = {}
  /\ registry = Nothing
  /\ closing = {}
  /\ todo = Nothing
  /\ evicting = NoServer
  /\ answered = {}

----------------------------------------------------------------------------
(***************************************************************************)
(* The manager's critical sections                                         *)
(***************************************************************************)

IsClosed(c) == state[c] = "Closed"

(* BaseConnection.Close *)
Close(c) ==
  /\ state' = [state EXCEPT ![c] = "Closed"]
  /\ socket' = [socket EXCEPT ![c] = "closed"]

(* Faulty variants of RegisterAgent, each of which one of the properties   *)
(* must reject: the result of the map lookup is not looked at; the old     *)
(* connection is not marked.                                               *)
RegisterAgentUnchecked(s, c) ==
  /\ registry' = [registry EXCEPT ![s] = c]
  /\ state' = [state EXCEPT ![registry[s]] = "Closed"]
  /\ closing' = closing \cup {registry[s]}

RegisterAgentUnmarked(s, c) ==
  /\ registry' = [registry EXCEPT ![s] = c]
  /\ closing' = closing \cup ({registry[s]} \ {NoConn})
  /\ UNCHANGED state

(* The connection the server had is marked closed at once and closed by a  *)
(* goroutine two seconds later.  Nothing here asks whether it is the same  *)
(* connection.                                                             *)
RegisterAgent(s, c) ==
  /\ registry' = [registry EXCEPT ![s] = c]
  /\ IF registry[s] = NoConn
       THEN UNCHANGED <<state, closing>>
       ELSE /\ state' = [state EXCEPT ![registry[s]] = "Closed"]
            /\ closing' = closing \cup {registry[s]}

(* Whatever connection the server has now is closed and removed: the       *)
(* argument is a server, the caller cannot say which connection it means.  *)
UnregisterAgent(s) ==
  IF registry[s] = NoConn
    THEN UNCHANGED <<registry, state, socket>>
    ELSE /\ Close(registry[s])
         /\ registry' = [registry EXCEPT ![s] = NoConn]

(* A write the peer does not take within WriteTimeout, or that finds the    *)
(* socket dead, leaves the WebSocket unable to write again; WriteJSON      *)
(* refuses a connection marked closed without touching the socket.         *)
WriteFails(c) ==
  socket' = IF IsClosed(c) \/ socket[c] # "open"
              THEN socket ELSE [socket EXCEPT ![c] = "broken"]

WriteSucceeds(c) ==
  /\ ~IsClosed(c) /\ socket[c] = "open"
  /\ UNCHANGED socket

Goto(c, from, to) ==
  /\ pc[c] = from
  /\ pc' = [pc EXCEPT ![c] = to]

----------------------------------------------------------------------------
(***************************************************************************)
(* The handler goroutine of connection c                                   *)
(***************************************************************************)

Accept(c) ==
  /\ Goto(c, "none", "top")
  /\ socket' = [socket EXCEPT ![c] = "open"]
  /\ UNCHANGED <<state, serverID, registry, closing, answered, agentVars, checkerVars>>

StartRound(c) ==
  /\ Goto(c, "top", IF IsClosed(c) THEN "defer" ELSE "read")
  /\ UNCHANGED <<state, socket, serverID, registry, closing, answered, agentVars, checkerVars>>

Receive(c) ==
  /\ c \notin gone /\ socket[c] # "closed"
  /\ Goto(c, "read", "handle")
  /\ UNCHANGED <<state, socket, serverID, registry, closing, answered, agentVars, checkerVars>>

(* The read returns an error: the agent is gone or the socket was closed   *)
(* under the handler.                                                      *)
ReadFails(c) ==
  /\ c \in gone \/ socket[c] = "closed"
  /\ Goto(c, "read", "defer")
  /\ UNCHANGED <<state, socket, serverID, registry, closing, answered, agentVars, checkerVars>>

(* ReadTimeout passes with nothing to read, or the frame cannot be         *)
(* decrypted, while the agent is there.                                    *)
ReadGivesUp(c) ==
  /\ Goto(c, "read", "defer")
  /\ UNCHANGED <<state, socket, serverID, registry, closing, answered, agentVars, checkerVars>>

(* The state is checked again between the read and the dispatch.           *)
SkipMessage(c) ==
  /\ IsClosed(c)
  /\ Goto(c, "handle", "defer")
  /\ UNCHANGED <<state, socket, serverID, registry, closing, answered, agentVars, checkerVars>>

(* A heartbeat counts if its sender is authenticated, else it is refused.  *)
HandleHeartbeat(c) ==
  /\ ~IsClosed(c)
  /\ IF state[c] = "Authenticated"
       THEN Goto(c, "handle", "ping") /\ UNCHANGED socket
       ELSE Goto(c, "handle", "top") /\ (UNCHANGED socket \/ WriteFails(c))
  /\ UNCHANGED <<state, serverID, registry, closing, answered, agentVars, checkerVars>>

(* Faulty variant of Ping: a heartbeat enters its connection in the        *)
(* registry again.                                                         *)
PingRegisters(c) ==
  /\ Goto(c, "ping", "top")
  /\ registry' = [registry EXCEPT ![serverID[c]] = c]
  /\ UNCHANGED <<socket, state, serverID, closing, answered, agentVars, checkerVars>>

(* UpdateAgentPing refreshes whatever connection the server of the sender  *)
(* has by now, which need not be the sender; then the answer is written.   *)
Ping(c) ==
  /\ Goto(c, "ping", "top")
  /\ stale' = stale \ {registry[serverID[c]]}
  /\ \/ UNCHANGED socket
     \/ WriteFails(c)
  /\ UNCHANGED <<state, serverID, gone, registry, closing, answered, checkerVars>>

(* Any other message, a malformed one included: it is stored or refused,   *)
(* and a refusal is written back.                                          *)
HandleOther(c) ==
  /\ ~IsClosed(c)
  /\ Goto(c, "handle", "top")
  /\ \/ UNCHANGED socket
     \/ WriteFails(c)
  /\ UNCHANGED <<state, serverID, registry, closing, answered, agentVars, checkerVars>>

StartAuth(c) ==
  /\ ~IsClosed(c)
  /\ Reauth \/ c \notin answered
  /\ Goto(c, "handle", "auth")
  /\ UNCHANGED <<state, socket, serverID, registry, closing, answered, agentVars, checkerVars>>

(* The key is unknown, its fingerprint does not match, or the key exchange *)
(* could not be written: the connection is left as it was.                 *)
RejectAuth(c) ==
  /\ Goto(c, "auth", "top")
  /\ \/ UNCHANGED socket
     \/ WriteFails(c)
  /\ UNCHANGED <<state, serverID, registry, closing, answered, agentVars, checkerVars>>

(* The key belongs to s.  SetState does not ask what the state was.        *)
AcceptAuth(c, s) ==
  /\ Goto(c, "auth", "respond")
  /\ serverID' = [serverID EXCEPT ![c] = s]
  /\ state' = [state EXCEPT ![c] = "Authenticated"]
  /\ stale' = stale \ {c}
  /\ UNCHANGED <<socket, gone, registry, closing, answered, checkerVars>>

(* The answer goes out before the connection is registered, so that the    *)
(* old connection of the server is not closed for one that was never told. *)
Respond(c) ==
  /\ \/ /\ WriteSucceeds(c)
        /\ Goto(c, "respond", "register")
        /\ answered' = answered \cup {c}
     \/ /\ WriteFails(c)
        /\ Goto(c, "respond", "top")
        /\ UNCHANGED answered
  /\ UNCHANGED <<state, serverID, registry, closing, agentVars, checkerVars>>

Register(c) ==
  /\ Goto(c, "register", "top")
  /\ RegisterAgent(serverID[c], c)
  /\ UNCHANGED <<socket, serverID, answered, agentVars, checkerVars>>

(* Faulty variant of CheckOnExit: the handler only closes its connection.  *)
CheckOnExitForgets(c) ==
  /\ Goto(c, "defer", "close")
  /\ UNCHANGED <<state, socket, serverID, registry, closing, answered, agentVars, checkerVars>>

(* The deferred function reads the state and the server, and only then     *)
(* takes the manager's lock in UnregisterAgent.                            *)
CheckOnExit(c) ==
  /\ Goto(c, "defer", IF state[c] = "Authenticated" /\ serverID[c] # NoServer
                        THEN "unregister" ELSE "close")
  /\ UNCHANGED <<state, socket, serverID, registry, closing, answered, agentVars, checkerVars>>

UnregisterOnExit(c) ==
  /\ Goto(c, "unregister", "close")
  /\ UnregisterAgent(serverID[c])
  /\ UNCHANGED <<serverID, closing, answered, agentVars, checkerVars>>

(* Faulty variant of CloseOnExit: the socket stays open.                   *)
CloseOnExitLeaks(c) ==
  /\ Goto(c, "close", "done")
  /\ state' = [state EXCEPT ![c] = "Closed"]
  /\ UNCHANGED <<socket, serverID, registry, closing, answered, agentVars, checkerVars>>

CloseOnExit(c) ==
  /\ Goto(c, "close", "done")
  /\ Close(c)
  /\ UNCHANGED <<serverID, registry, closing, answered, agentVars, checkerVars>>

(* What the goroutine does without waiting for its agent.                  *)
Handler(c) ==
  \/ StartRound(c)
  \/ ReadFails(c)
  \/ SkipMessage(c) \/ HandleHeartbeat(c) \/ Ping(c) \/ HandleOther(c)
  \/ StartAuth(c)
  \/ RejectAuth(c) \/ (\E s \in Servers : AcceptAuth(c, s))
  \/ Respond(c) \/ Register(c)
  \/ CheckOnExit(c) \/ UnregisterOnExit(c) \/ CloseOnExit(c)

----------------------------------------------------------------------------
(***************************************************************************)
(* The other goroutines                                                    *)
(***************************************************************************)

(* Faulty variant of CloseReplaced: the connection is marked once more,    *)
(* its socket is not closed.                                               *)
CloseReplacedMarks(c) ==
  /\ c \in closing
  /\ state' = [state EXCEPT ![c] = "Closed"]
  /\ closing' = closing \ {c}
  /\ UNCHANGED <<handlerVars, socket, registry, agentVars, checkerVars>>

(* The goroutine RegisterAgent started, after oldConnectionCloseDelay.     *)
CloseReplaced(c) ==
  /\ c \in closing
  /\ Close(c)
  /\ closing' = closing \ {c}
  /\ UNCHANGED <<handlerVars, registry, agentVars, checkerVars>>

(* The heartbeat checker's tick: it works on a copy of the registry.       *)
StartSweep ==
  /\ todo = Nothing /\ evicting = NoServer
  /\ todo' = registry
  /\ UNCHANGED <<handlerVars, state, socket, registry, closing, agentVars, evicting>>

(* Faulty variant of CheckHeartbeat: the test of IsClosed is inverted.     *)
CheckHeartbeatInverted(s) ==
  /\ evicting = NoServer /\ todo[s] # NoConn
  /\ IF IsClosed(todo[s]) /\ todo[s] \in stale
       THEN evicting' = s /\ UNCHANGED todo
       ELSE todo' = [todo EXCEPT ![s] = NoConn] /\ UNCHANGED evicting
  /\ UNCHANGED <<handlerVars, state, socket, registry, closing, agentVars>>

CheckHeartbeat(s) ==
  /\ evicting = NoServer /\ todo[s] # NoConn
  /\ IF ~IsClosed(todo[s]) /\ todo[s] \in stale
       THEN evicting' = s /\ UNCHANGED todo
       ELSE todo' = [todo EXCEPT ![s] = NoConn] /\ UNCHANGED evicting
  /\ UNCHANGED <<handlerVars, state, socket, registry, closing, agentVars>>

Evict ==
  /\ evicting # NoServer
  /\ UnregisterAgent(evicting)
  /\ evicting' = NoServer
  /\ todo' = [todo EXCEPT ![evicting] = NoConn]
  /\ UNCHANGED <<handlerVars, closing, agentVars>>

Checker == StartSweep \/ (\E s \in Servers : CheckHeartbeat(s)) \/ Evict

(* POST /servers/:id/reset-key disconnects the agent of the server.        *)
ResetAgentKey(s) ==
  /\ registry[s] # NoConn
  /\ UnregisterAgent(s)
  /\ UNCHANGED <<handlerVars, closing, agentVars, checkerVars>>

(* A message of the API (new configuration, restart, update): it goes to   *)
(* the registered connection, and may find its socket dead.                *)
SendToAgent(s) ==
  /\ registry[s] # NoConn
  /\ WriteFails(registry[s])
  /\ UNCHANGED <<handlerVars, state, registry, closing, agentVars, checkerVars>>

(* The agents and the clock.                                               *)
Disappear(c) ==
  /\ pc[c] \notin {"none", "done"}
  /\ gone' = gone \cup {c}
  /\ UNCHANGED <<handlerVars, state, socket, stale, registry, closing, checkerVars>>

SixtySecondsPass(c) ==
  /\ pc[c] \notin {"none", "done"}
  /\ stale' = stale \cup {c}
  /\ UNCHANGED <<handlerVars, state, socket, gone, registry, closing, checkerVars>>

----------------------------------------------------------------------------
Next ==
  \/ \E c \in Conns :
       \/ Accept(c) \/ Receive(c) \/ ReadGivesUp(c) \/ Handler(c)
       \/ CloseReplaced(c)
       \/ Disappear(c) \/ SixtySecondsPass(c)
  \/ \E s \in Servers : ResetAgentKey(s) \/ SendToAgent(s)
  \/ Checker

Spec == Init /\ [][Next]_vars

(* A goroutine that can run is scheduled; the delay of CloseReplaced and   *)
(* the ticker of the checker run out.  Agents and API users owe nothing.   *)
Fairness ==
  /\ \A c \in Conns : WF_vars(Handler(c)) /\ WF_vars(CloseReplaced(c))
  /\ WF_vars(StartSweep)
  /\ \A s \in Servers : WF_vars(CheckHeartbeat(s))
  /\ WF_vars(Evict)

FairSpec == Spec /\ Fairness

----------------------------------------------------------------------------
(***************************************************************************)
(* Properties                                                              *)
(***************************************************************************)

Registered(c) == \E s \in Servers : registry[s] = c
InLoop == {"top", "read", "handle", "ping"}

(* SendToAgent and the API trust a registry entry: it must be a connection *)
(* that belongs to that server, was told so, is still authenticated, has   *)
(* not been closed, and whose handler is still there to unregister it.     *)
RegisteredIsLive ==
  \A s \in Servers, c \in Conns : registry[s] = c =>
    /\ state[c] = "Authenticated" /\ serverID[c] = s
    /\ c \in answered
    /\ socket[c] \in {"open", "broken"}
    /\ pc[c] \in InLoop \cup {"defer", "unregister"}

(* An agent that was told it is authenticated, and whose connection still  *)
(* counts as authenticated once RegisterAgent has returned, is the one the *)
(* panel reaches for that server: it is never replaced, evicted or reset   *)
(* behind its back.                                                        *)
AuthenticatedIsReachable ==
  \A c \in Conns :
    c \in answered /\ pc[c] # "register" /\ state[c] = "Authenticated"
      => registry[serverID[c]] = c

(* "the connection has been replaced by a new connection"                  *)
(* (websocket_controller.go:118): one that RegisterAgent has marked closed *)
(* and will close is not, itself, what the registry now holds.             *)
ReplacedByAnother == \A c \in closing : ~Registered(c)

(* StateClosed is final: the reading loop, WriteJSON and the heartbeat     *)
(* checker all take a closed connection to be finished.                    *)
ClosedIsFinal ==
  [][\A c \in Conns : state[c] = "Closed" => state'[c] = "Closed"]_vars

(* The answer is sent before registering "so that the old connection is    *)
(* not closed" (handler.go:135): a handler whose answer could not be sent  *)
(* leaves the registry alone when it ends.                                 *)
FailedAuthSparesOld ==
  [][\A c \in Conns :
       pc[c] = "unregister" /\ pc'[c] = "close" /\ c \notin answered
         => registry' = registry]_vars

(* "no heartbeat for more than 60 seconds: disconnect" (manager.go:406):   *)
(* the connection the checker disconnects is the one it found silent, not  *)
(* its successor.                                                          *)
EvictsTheSilent ==
  [][\A s \in Servers :
       evicting = s /\ evicting' = NoServer /\ registry[s] # NoConn
         => registry[s] = todo[s]]_vars

(* An agent that stays silent, its TCP connection being alive, does not    *)
(* stay registered.                                                        *)
SilentIsEvicted ==
  \A c \in Conns :
    Registered(c) /\ c \in stale ~> ~Registered(c) \/ c \notin stale

(* No goroutine and no socket outlives its agent, nor a connection that    *)
(* was replaced or unregistered, though its agent says nothing and does    *)
(* not hang up.                                                            *)
DeadIsReleased ==
  \A c \in Conns :
    c \in gone \/ IsClosed(c) ~> pc[c] = "done" /\ socket[c] = "closed"

(***************************************************************************)
(* The registry as the rest of the panel sees it.  A connection has been   *)
(* used once its answer is written and RegisterAgent is done.              *)
(***************************************************************************)
Registry == INSTANCE AgentRegistry
              WITH used <- {c \in answered : pc[c] # "register"}

ImplementsRegistry == Registry!RegistrySpec

============================================================================
