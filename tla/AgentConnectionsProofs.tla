----------------------- MODULE AgentConnectionsProofs ----------------------
EXTENDS AgentConnections, TLAPS

(***************************************************************************)
(* The inductive invariant.  The three safety properties speak of          *)
(* connections that are registered or were answered; the parts below add   *)
(* what holds of a connection on its way there.                            *)
(***************************************************************************)

(* A connection that was never told it is authenticated is not known to    *)
(* the manager, so nobody but its own handler can close it.                *)
UnansweredIsPrivate ==
  \A c \in Conns : c \notin answered =>
    /\ ~Registered(c) /\ c \notin closing
    /\ pc[c] # "done" => state[c] # "Closed"
    /\ pc[c] \notin {"none", "done"} => socket[c] \in {"open", "broken"}

(* HandleAuth runs for a connection that has not been answered, up to the  *)
(* write of the answer; between that write and RegisterAgent the           *)
(* connection is still private.                                            *)
AuthStages ==
  \A c \in Conns :
    /\ pc[c] \in {"none", "auth", "respond"} => c \notin answered
    /\ pc[c] \in {"respond", "register"} => state[c] = "Authenticated"
    /\ pc[c] = "register" =>
         /\ c \in answered /\ c \notin closing /\ ~Registered(c)
         /\ socket[c] \in {"open", "broken"}

(* A state says Authenticated only after SetServerID, so the manager is    *)
(* only ever asked about the id of a server.                               *)
IdentityIsSet ==
  \A c \in Conns :
    /\ state[c] = "Authenticated" => serverID[c] \in Servers
    /\ pc[c] \in {"ping", "respond", "register", "unregister"}
         => serverID[c] \in Servers

(* A connection that waits to be closed was marked closed when it was      *)
(* replaced; a handler that has ended has closed its connection.           *)
ClosingIsMarked ==
  \A c \in Conns :
    /\ c \in closing => state[c] = "Closed" /\ c \in answered
    /\ pc[c] = "done" => state[c] = "Closed"

IInv ==
  /\ TypeOK
  /\ RegisteredIsLive
  /\ AuthenticatedIsReachable
  /\ ReplacedByAnother
  /\ UnansweredIsPrivate
  /\ AuthStages
  /\ IdentityIsSet
  /\ ClosingIsMarked

----------------------------------------------------------------------------
(***************************************************************************)
(* Every variable keeps its type whatever the agents send, a second auth   *)
(* message on one connection included.  The manager being asked about the  *)
(* id of a server is part of it: the empty id is not in the map.           *)
(***************************************************************************)
THEOREM TypeCorrect == Spec => []TypeOK
<1> DEFINE Inv == TypeOK /\ IdentityIsSet
<1>1. Init => Inv
  BY ConnectionsAssumption
  DEF Init, TypeOK, IdentityIsSet, Nothing, PCs, States, Sockets
<1>2. Inv /\ [Next]_vars => Inv'
  <2> SUFFICES ASSUME Inv, [Next]_vars PROVE Inv'
    OBVIOUS
  <2> USE ConnectionsAssumption
      DEF TypeOK, IdentityIsSet, Goto, PCs, States, Sockets, handlerVars,
          agentVars, checkerVars
  <2>1. ASSUME NEW c \in Conns, Handler(c) PROVE Inv'
    <3>1. CASE StartRound(c) \/ ReadFails(c) \/ SkipMessage(c) \/ StartAuth(c)
               \/ CheckOnExit(c)
      BY <3>1 DEF StartRound, ReadFails, SkipMessage, StartAuth, CheckOnExit
    <3>2. CASE HandleHeartbeat(c) \/ Ping(c) \/ HandleOther(c) \/ RejectAuth(c)
      BY <3>2 DEF HandleHeartbeat, Ping, HandleOther, RejectAuth, WriteFails
    <3>3. ASSUME NEW s \in Servers, AcceptAuth(c, s) PROVE Inv'
      BY <3>3 DEF AcceptAuth
    <3>4. CASE Respond(c)
      BY <3>4 DEF Respond, WriteFails, WriteSucceeds
    <3>5. CASE Register(c)
      BY <3>5 DEF Register, RegisterAgent
    <3>6. CASE UnregisterOnExit(c)
      BY <3>6 DEF UnregisterOnExit, UnregisterAgent, Close
    <3>7. CASE CloseOnExit(c)
      BY <3>7 DEF CloseOnExit, Close
    <3> QED BY <2>1, <3>1, <3>2, <3>3, <3>4, <3>5, <3>6, <3>7 DEF Handler
  <2>2. ASSUME NEW c \in Conns, Accept(c) \/ Receive(c) \/ ReadGivesUp(c) PROVE Inv'
    BY <2>2 DEF Accept, Receive, ReadGivesUp
  <2>3. ASSUME NEW c \in Conns, CloseReplaced(c) PROVE Inv'
    BY <2>3 DEF CloseReplaced, Close
  <2>4. ASSUME NEW c \in Conns, Disappear(c) \/ SixtySecondsPass(c) PROVE Inv'
    BY <2>4 DEF Disappear, SixtySecondsPass
  <2>5. ASSUME NEW s \in Servers, ResetAgentKey(s) \/ SendToAgent(s) PROVE Inv'
    BY <2>5 DEF ResetAgentKey, SendToAgent, UnregisterAgent, Close, WriteFails
  <2>6. CASE Checker
    <3>1. ASSUME NEW s \in Servers, CheckHeartbeat(s) PROVE Inv'
      BY <3>1 DEF CheckHeartbeat
    <3>2. CASE StartSweep
      BY <3>2 DEF StartSweep
    <3>3. CASE Evict
      BY <3>3 DEF Evict, UnregisterAgent, Close
    <3> QED BY <2>6, <3>1, <3>2, <3>3 DEF Checker
  <2>7. CASE UNCHANGED vars
    BY <2>7 DEF vars
  <2> QED BY <2>1, <2>2, <2>3, <2>4, <2>5, <2>6, <2>7 DEF Next
<1> QED BY <1>1, <1>2, PTL DEF Spec

----------------------------------------------------------------------------
LEMMA InitInv == Init => IInv
  BY ConnectionsAssumption
  DEF Init, IInv, TypeOK, RegisteredIsLive, AuthenticatedIsReachable,
      ReplacedByAnother, UnansweredIsPrivate, AuthStages, IdentityIsSet,
      ClosingIsMarked, Registered, Nothing, PCs, States, Sockets

(***************************************************************************)
(* Removing the connection a server has keeps the invariant, for whichever *)
(* reason it is done: the handler's exit, the checker, or the API.         *)
(***************************************************************************)
LEMMA UnregisterInv ==
  ASSUME IInv, NEW s \in Servers, UnregisterAgent(s),
         UNCHANGED <<serverID, closing, answered, gone, stale>>,
         TypeOK',
         \/ UNCHANGED pc
         \/ \E c \in Conns : serverID[c] = s /\ Goto(c, "unregister", "close")
  PROVE  IInv'
<1> USE ConnectionsAssumption
    DEF IInv, TypeOK, UnregisterAgent, Close, Goto, Registered, IsClosed, PCs
<1> USE DEF RegisteredIsLive
<1>1. RegisteredIsLive'
  BY DEF InLoop
<1>2. AuthenticatedIsReachable'
  BY DEF AuthenticatedIsReachable, IdentityIsSet, States
<1>3. ReplacedByAnother'
  BY DEF ReplacedByAnother
<1>4. UnansweredIsPrivate'
  BY DEF UnansweredIsPrivate
<1>5. AuthStages'
  BY DEF AuthStages, InLoop
<1>6. IdentityIsSet'
  BY DEF IdentityIsSet
<1>7. ClosingIsMarked'
  BY DEF ClosingIsMarked, InLoop
<1> QED BY <1>1, <1>2, <1>3, <1>4, <1>5, <1>6, <1>7

(***************************************************************************)
(* Entering a connection that has just been answered: it is private until  *)
(* then, so the connection it replaces is another one.                     *)
(***************************************************************************)
LEMMA RegisterInv == ASSUME IInv, NEW c \in Conns, Register(c) PROVE IInv'
<1> USE ConnectionsAssumption
    DEF IInv, TypeOK, Register, RegisterAgent, Goto, handlerVars, agentVars,
        checkerVars, PCs, States, Registered, IsClosed, RegisteredIsLive, AuthStages
<1>1. /\ c \in answered /\ c \notin closing /\ ~Registered(c)
      /\ serverID[c] \in Servers /\ registry[serverID[c]] # c
  BY DEF IdentityIsSet
<1>2. TypeOK'
  BY <1>1
<1>3. RegisteredIsLive'
  BY <1>1, <1>2 DEF InLoop
<1>4. AuthenticatedIsReachable'
  BY <1>1, <1>2 DEF AuthenticatedIsReachable
<1>5. ReplacedByAnother'
  BY <1>1, <1>2 DEF ReplacedByAnother
<1>6. UnansweredIsPrivate'
  BY <1>1, <1>2 DEF UnansweredIsPrivate
<1>7. AuthStages'
  BY <1>1, <1>2 DEF InLoop
<1>8. IdentityIsSet'
  BY <1>1, <1>2 DEF IdentityIsSet
<1>9. ClosingIsMarked'
  BY <1>1, <1>2 DEF ClosingIsMarked
<1> QED BY <1>2, <1>3, <1>4, <1>5, <1>6, <1>7, <1>8, <1>9

(***************************************************************************)
(* No step breaks the invariant when agents authenticate once.             *)
(***************************************************************************)
LEMMA StepInv == ASSUME ~Reauth, IInv, [Next]_vars PROVE IInv'
<1> USE ConnectionsAssumption
    DEF IInv, TypeOK, RegisteredIsLive, AuthenticatedIsReachable,
        ReplacedByAnother, UnansweredIsPrivate, AuthStages, IdentityIsSet,
        ClosingIsMarked, Registered, InLoop, IsClosed, Goto,
        PCs, States, Sockets, handlerVars, agentVars, checkerVars
<1>1. ASSUME NEW c \in Conns, Accept(c) PROVE IInv'
  BY <1>1 DEF Accept
<1>2. ASSUME NEW c \in Conns, Receive(c) PROVE IInv'
  BY <1>2 DEF Receive
<1>3. ASSUME NEW c \in Conns, ReadGivesUp(c) PROVE IInv'
  BY <1>3 DEF ReadGivesUp
<1>4. ASSUME NEW c \in Conns, StartRound(c) PROVE IInv'
  BY <1>4 DEF StartRound
<1>5. ASSUME NEW c \in Conns, ReadFails(c) PROVE IInv'
  BY <1>5 DEF ReadFails
<1>6. ASSUME NEW c \in Conns, SkipMessage(c) PROVE IInv'
  BY <1>6 DEF SkipMessage
<1>7. ASSUME NEW c \in Conns, HandleHeartbeat(c) PROVE IInv'
  BY <1>7 DEF HandleHeartbeat, WriteFails
<1>8. ASSUME NEW c \in Conns, Ping(c) PROVE IInv'
  BY <1>8 DEF Ping, WriteFails
<1>9. ASSUME NEW c \in Conns, HandleOther(c) PROVE IInv'
  BY <1>9 DEF HandleOther, WriteFails
<1>10. ASSUME NEW c \in Conns, StartAuth(c) PROVE IInv'
  BY <1>10 DEF StartAuth
<1>11. ASSUME NEW c \in Conns, RejectAuth(c) PROVE IInv'
  BY <1>11 DEF RejectAuth, WriteFails
<1>12. ASSUME NEW c \in Conns, NEW s \in Servers, AcceptAuth(c, s) PROVE IInv'
  BY <1>12 DEF AcceptAuth
<1>13. ASSUME NEW c \in Conns, Respond(c) PROVE IInv'
  BY <1>13 DEF Respond, WriteFails, WriteSucceeds
<1>14. ASSUME NEW c \in Conns, Register(c) PROVE IInv'
  BY <1>14, RegisterInv
<1>15. ASSUME NEW c \in Conns, CheckOnExit(c) PROVE IInv'
  BY <1>15 DEF CheckOnExit
<1>16. ASSUME NEW c \in Conns, UnregisterOnExit(c) PROVE IInv'
  <2>1. serverID[c] \in Servers /\ UnregisterAgent(serverID[c])
    BY <1>16 DEF UnregisterOnExit
  <2>2. TypeOK'
    BY <1>16, <2>1 DEF UnregisterOnExit, UnregisterAgent, Close
  <2> QED BY <1>16, <2>1, <2>2, UnregisterInv DEF UnregisterOnExit
<1>17. ASSUME NEW c \in Conns, CloseOnExit(c) PROVE IInv'
  BY <1>17 DEF CloseOnExit, Close
<1>18. ASSUME NEW c \in Conns, CloseReplaced(c) PROVE IInv'
  BY <1>18 DEF CloseReplaced, Close
<1>19. ASSUME NEW c \in Conns, Disappear(c) PROVE IInv'
  BY <1>19 DEF Disappear
<1>20. ASSUME NEW c \in Conns, SixtySecondsPass(c) PROVE IInv'
  BY <1>20 DEF SixtySecondsPass
<1>21. ASSUME NEW s \in Servers, ResetAgentKey(s) PROVE IInv'
  <2>1. TypeOK'
    BY <1>21 DEF ResetAgentKey, UnregisterAgent, Close
  <2> QED BY <1>21, <2>1, UnregisterInv DEF ResetAgentKey
<1>22. ASSUME NEW s \in Servers, SendToAgent(s) PROVE IInv'
  BY <1>22 DEF SendToAgent, WriteFails
<1>23. ASSUME NEW s \in Servers, CheckHeartbeat(s) PROVE IInv'
  BY <1>23 DEF CheckHeartbeat
<1>24. ASSUME StartSweep PROVE IInv'
  BY <1>24 DEF StartSweep, Nothing
<1>25. ASSUME Evict PROVE IInv'
  <2>1. evicting \in Servers /\ UnregisterAgent(evicting)
    BY <1>25 DEF Evict
  <2>2. TypeOK'
    BY <1>25, <2>1 DEF Evict, UnregisterAgent, Close
  <2> QED BY <1>25, <2>1, <2>2, UnregisterInv DEF Evict
<1>26. CASE UNCHANGED vars
  BY <1>26 DEF vars
<1> QED
  BY <1>1, <1>2, <1>3, <1>4, <1>5, <1>6, <1>7, <1>8, <1>9, <1>10,
     <1>11, <1>12, <1>13, <1>14, <1>15, <1>16, <1>17, <1>18, <1>19,
     <1>20, <1>21, <1>22, <1>23, <1>24, <1>25, <1>26
  DEF Next, Handler, Checker

THEOREM Invariance == ~Reauth /\ Spec => []IInv
<1>1. ASSUME ~Reauth PROVE Init /\ [][Next]_vars => []IInv
  <2>1. IInv /\ [Next]_vars => IInv'
    BY <1>1, StepInv
  <2> QED BY <2>1, InitInv, PTL
<1> QED BY <1>1 DEF Spec

(***************************************************************************)
(* What SendToAgent, the heartbeat checker and the API find in the         *)
(* registry is a live, authenticated connection of the server asked for.   *)
(***************************************************************************)
THEOREM RegistryIsLive == ~Reauth /\ Spec => []RegisteredIsLive
<1>1. IInv => RegisteredIsLive
  BY DEF IInv
<1> QED BY <1>1, Invariance, PTL

(***************************************************************************)
(* An agent that was told it is authenticated stays the one the panel      *)
(* reaches until its connection is marked closed.                          *)
(***************************************************************************)
THEOREM AgentIsReachable == ~Reauth /\ Spec => []AuthenticatedIsReachable
<1>1. IInv => AuthenticatedIsReachable
  BY DEF IInv
<1> QED BY <1>1, Invariance, PTL

(***************************************************************************)
(* The goroutine that closes a replaced connection never closes the one    *)
(* that is registered.                                                     *)
(***************************************************************************)
THEOREM ClosesOnlyReplaced == ~Reauth /\ Spec => []ReplacedByAnother
<1>1. IInv => ReplacedByAnother
  BY DEF IInv
<1> QED BY <1>1, Invariance, PTL

(***************************************************************************)
(* No connection comes back from StateClosed.  Only HandleAuth could bring *)
(* it back, and it runs for connections nobody else knows.                 *)
(***************************************************************************)
THEOREM ClosedStaysClosed == ~Reauth /\ Spec => ClosedIsFinal
<1> DEFINE Final == \A c \in Conns : state[c] = "Closed" => state'[c] = "Closed"
<1>1. IInv /\ [Next]_vars => [Final]_vars
  <2> SUFFICES ASSUME IInv, Next PROVE Final
    OBVIOUS
  <2> USE DEF IInv, TypeOK, UnansweredIsPrivate, AuthStages
  <2>1. ASSUME NEW d \in Conns, Handler(d) PROVE Final
    <3>1. ASSUME NEW s \in Servers, AcceptAuth(d, s) PROVE Final
      BY <3>1 DEF AcceptAuth, Goto
    <3>2. CASE UnregisterOnExit(d) \/ CloseOnExit(d)
      BY <3>2 DEF UnregisterOnExit, UnregisterAgent, CloseOnExit, Close
    <3>3. CASE Register(d)
      BY <3>3 DEF Register, RegisterAgent
    <3>4. CASE UNCHANGED state
      BY <3>4
    <3> QED
      BY <2>1, <3>1, <3>2, <3>3, <3>4
      DEF Handler, StartRound, ReadFails, SkipMessage, HandleHeartbeat,
          Ping, HandleOther, StartAuth, RejectAuth, Respond, CheckOnExit
  <2>2. ASSUME NEW d \in Conns, CloseReplaced(d) PROVE Final
    BY <2>2 DEF CloseReplaced, Close
  <2>3. ASSUME NEW s \in Servers, ResetAgentKey(s) PROVE Final
    BY <2>3 DEF ResetAgentKey, UnregisterAgent, Close
  <2>4. CASE Evict
    BY <2>4 DEF Evict, UnregisterAgent, Close
  <2>5. CASE UNCHANGED state
    BY <2>5
  <2> QED
    BY <2>1, <2>2, <2>3, <2>4, <2>5
    DEF Next, Accept, Receive, ReadGivesUp, Disappear, SixtySecondsPass,
        SendToAgent, Checker, StartSweep, CheckHeartbeat
<1>2. ~Reauth /\ Spec => [][Final]_vars
  BY <1>1, Invariance, PTL DEF Spec
<1> QED BY <1>2 DEF ClosedIsFinal

----------------------------------------------------------------------------
(***************************************************************************)
(* The connections implement the registry.                                 *)
(***************************************************************************)
LEMMA StepRefines ==
  ASSUME IInv, [Next]_vars
  PROVE  [Registry!RegistryNext]_(Registry!registryVars)
<1> DEFINE Used == {c \in answered : pc[c] # "register"}
<1> USE DEF IInv, TypeOK, Goto, handlerVars
<1>1. ASSUME NEW c \in Conns, Register(c)
      PROVE  \E s \in Servers : Registry!Register(s, c)
  <2>1. c \notin Used /\ Used' = Used \cup {c}
    BY <1>1 DEF Register, AuthStages
  <2>2. serverID[c] \in Servers
    BY <1>1 DEF Register, AuthStages, IdentityIsSet
  <2>3. registry' = [registry EXCEPT ![serverID[c]] = c]
    BY <1>1 DEF Register, RegisterAgent
  <2> QED BY <2>1, <2>2, <2>3 DEF Registry!Register
<1>2. ASSUME NEW c \in Conns, UnregisterOnExit(c)
      PROVE  (\E s \in Servers : Registry!Unregister(s)) \/ UNCHANGED <<registry, Used>>
  <2>1. Used' = Used
    BY <1>2 DEF UnregisterOnExit
  <2>2. serverID[c] \in Servers
    BY <1>2 DEF UnregisterOnExit, IdentityIsSet
  <2> QED
    BY <1>2, <2>1, <2>2 DEF UnregisterOnExit, UnregisterAgent, Registry!Unregister
<1>3. ASSUME NEW s \in Servers, ResetAgentKey(s)
      PROVE  Registry!Unregister(s)
  BY <1>3 DEF ResetAgentKey, UnregisterAgent, Registry!Unregister
<1>4. ASSUME Evict
      PROVE  (\E s \in Servers : Registry!Unregister(s)) \/ UNCHANGED <<registry, Used>>
  BY <1>4, ConnectionsAssumption DEF Evict, UnregisterAgent, Registry!Unregister
<1>5. ASSUME NEW c \in Conns, Respond(c) PROVE UNCHANGED <<registry, Used>>
  BY <1>5 DEF Respond, AuthStages
<1>6. ASSUME NEW c \in Conns,
             \/ Accept(c) \/ Receive(c) \/ ReadGivesUp(c) \/ StartRound(c)
             \/ ReadFails(c) \/ SkipMessage(c) \/ HandleHeartbeat(c) \/ Ping(c)
             \/ HandleOther(c) \/ StartAuth(c) \/ RejectAuth(c)
             \/ (\E s \in Servers : AcceptAuth(c, s))
             \/ CheckOnExit(c) \/ CloseOnExit(c)
      PROVE UNCHANGED <<registry, Used>>
  <2>1. registry' = registry /\ answered' = answered
    BY <1>6
    DEF Accept, Receive, ReadGivesUp, StartRound, ReadFails, SkipMessage,
        HandleHeartbeat, Ping, HandleOther, StartAuth, RejectAuth, AcceptAuth,
        CheckOnExit, CloseOnExit
  <2>2. \E q \in PCs \ {"register"} :
          pc[c] # "register" /\ pc' = [pc EXCEPT ![c] = q]
    BY <1>6
    DEF Accept, Receive, ReadGivesUp, StartRound, ReadFails, SkipMessage,
        HandleHeartbeat, Ping, HandleOther, StartAuth, RejectAuth, AcceptAuth,
        CheckOnExit, CloseOnExit, PCs
  <2> QED BY <2>1, <2>2
<1>7. UNCHANGED <<registry, handlerVars>> => UNCHANGED <<registry, Used>>
  OBVIOUS
<1>8. UNCHANGED vars => UNCHANGED <<registry, handlerVars>>
  BY DEF vars
<1>9. ASSUME NEW c \in Conns,
             CloseReplaced(c) \/ Disappear(c) \/ SixtySecondsPass(c)
      PROVE  UNCHANGED <<registry, handlerVars>>
  BY <1>9 DEF CloseReplaced, Disappear, SixtySecondsPass
<1>10. ASSUME NEW s \in Servers, SendToAgent(s) \/ CheckHeartbeat(s)
       PROVE  UNCHANGED <<registry, handlerVars>>
  BY <1>10 DEF SendToAgent, CheckHeartbeat
<1>11. StartSweep => UNCHANGED <<registry, handlerVars>>
  BY DEF StartSweep
<1>12. (\E s \in Servers : Registry!Unregister(s)) => Registry!RegistryNext
  BY DEF Registry!RegistryNext
<1>13. (\E c \in Conns, s \in Servers : Registry!Register(s, c)) => Registry!RegistryNext
  BY DEF Registry!RegistryNext
<1>14. Registry!RegistryNext \/ UNCHANGED <<registry, Used>>
  <2> HIDE DEF Used, IInv, TypeOK, Goto, handlerVars
  <2>1. ASSUME NEW c \in Conns, Handler(c)
        PROVE  Registry!RegistryNext \/ UNCHANGED <<registry, Used>>
    BY <2>1, <1>1, <1>2, <1>5, <1>6, <1>12, <1>13 DEF Handler
  <2>2. CASE Checker
    BY <2>2, <1>4, <1>7, <1>10, <1>11, <1>12 DEF Checker
  <2> QED
    BY <2>1, <2>2, <1>3, <1>6, <1>7, <1>8, <1>9, <1>10, <1>12 DEF Next
<1> QED BY <1>14, Zenon DEF Registry!registryVars

THEOREM Refinement == ~Reauth /\ Spec => ImplementsRegistry
<1>1. Init => Registry!RegistryInit
  BY DEF Init, Nothing, Registry!RegistryInit
<1>2. IInv /\ [Next]_vars => [Registry!RegistryNext]_(Registry!registryVars)
  BY StepRefines
<1> QED
  BY <1>1, <1>2, Invariance, PTL DEF Spec, ImplementsRegistry, Registry!RegistrySpec

============================================================================
