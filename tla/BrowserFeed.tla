----------------------------- MODULE BrowserFeed -----------------------------
(***************************************************************************)
(* The browsers' connections (websocket_controller.go) and the broadcast   *)
(* of what becomes of one server (manager.go).  A handler goroutine per    *)
(* connection registers it, greets the browser, pushes what is known of    *)
(* the servers online, and then reads; a broadcast copies the table of     *)
(* connections and writes to one after the other.  WriteJSON takes the     *)
(* connection's write lock and sets a deadline; sendError does neither.    *)
(* ServerStatus takes a broadcast for one step: here it is many.           *)
(***************************************************************************)
EXTENDS Naturals, FiniteSets

CONSTANTS
  Browsers,   (* the connections, each of which may be opened again        *)
  NoBrowser,
  MaxOnline,  (* bound: the servers whose state is pushed at first         *)
  MaxCasts    (* bound: the broadcasts under way at a time                 *)

ASSUME FeedAssumption ==
  NoBrowser \notin Browsers /\ MaxOnline \in Nat /\ MaxCasts \in {1, 2}

VARIABLES
  handler,    (* how far the goroutine of each connection has come, and    *)
              (* the states it has yet to push                             *)
  table,      (* frontendConnections                                       *)
  closed,     (* the connections closed by the panel                       *)
  broken,     (* the connections on which a write has failed: all later    *)
              (* ones do                                                   *)
  informed,   (* the browsers in the table that know of the last change    *)
  casts,      (* the broadcasts under way                                  *)
  drops       (* the goroutines that unregister after a failed broadcast   *)

sockets == <<closed, broken>>
news == <<informed, casts>>
feedVars == <<handler, table, sockets, news, drops>>

Handler == [step : {"none", "register", "welcome", "count", "states", "push",
                    "read", "alone", "error", "raw", "pong", "leave", "close"},
            todo : 0 .. MaxOnline]

(* A broadcast of the last change or of the one before it.                 *)
Cast == [latest : BOOLEAN, left : SUBSET Browsers, at : Browsers \cup {NoBrowser}]

FeedType ==
  /\ handler \in [Browsers -> Handler]
  /\ table \subseteq Browsers /\ drops \subseteq Browsers
  /\ closed \subseteq Browsers /\ broken \subseteq Browsers
  /\ informed \subseteq Browsers
  /\ casts \subseteq Cast

NoHandler == [step |-> "none", todo |-> 0]

FeedInit ==
  /\ handler = [b \in Browsers |-> NoHandler]
  /\ table = {} /\ drops = {}
  /\ closed = {} /\ broken = {}
  /\ informed = {}
  /\ casts = {}

----------------------------------------------------------------------------
At(b, step) == handler[b].step = step
Goto(b, step) == handler' = [handler EXCEPT ![b].step = step]
CastAt(b) == \E k \in casts : k.at = b
Meant(b) == CastAt(b) \/ b \in drops \/ \E k \in casts : b \in k.left

(* WriteJSON takes the lock.  Any write may fail, and must once one has,   *)
(* or the connection is closed.                                            *)
CanWrite(b) == ~CastAt(b)
WriteSucceeds(b) == b \notin closed \cup broken /\ UNCHANGED broken
WriteFails(b) == broken' = IF b \in closed THEN broken ELSE broken \cup {b}

(* The handler's write, whose error is only logged.                        *)
Writes(b) ==
  /\ CanWrite(b)
  /\ WriteSucceeds(b) \/ WriteFails(b)
  /\ UNCHANGED closed

----------------------------------------------------------------------------
(* HandleFrontendConnection.  A request that cannot be upgraded, or shows  *)
(* no valid token, is closed at once.  Every connection has an id of its   *)
(* own.                                                                    *)
Connect(b) ==
  /\ At(b, "none") /\ ~Meant(b)
  /\ Goto(b, "register")
  /\ closed' = closed \ {b}
  /\ UNCHANGED <<table, broken, news, drops>>

(* What has been before, the browser is told by the API.                   *)
RegisterFrontend(b) ==
  /\ At(b, "register")
  /\ table' = table \cup {b}
  /\ informed' = informed \cup {b}
  /\ Goto(b, "welcome")
  /\ UNCHANGED <<sockets, casts, drops>>

Greet(b) ==
  /\ \/ At(b, "welcome") /\ Goto(b, "count")
     \/ At(b, "count") /\ Goto(b, "states")
  /\ Writes(b)
  /\ UNCHANGED <<table, news, drops>>

(* pushInitialServerStates: two queries, each of which may fail.           *)
QueryStates(b) ==
  /\ At(b, "states")
  /\ \/ Goto(b, "read")
     \/ /\ b \notin closed
        /\ \E n \in 1 .. MaxOnline :
             handler' = [handler EXCEPT ![b] = [step |-> "push", todo |-> n]]
  /\ UNCHANGED <<table, sockets, news, drops>>

(* Faulty variant of PushState: the loop goes once too often.              *)
PushTooOften(b) ==
  /\ At(b, "push")
  /\ \/ (b \in closed \/ handler[b].todo > MaxOnline)
        /\ handler' = [handler EXCEPT ![b] = [step |-> "read", todo |-> 0]]
        /\ UNCHANGED sockets
     \/ /\ b \notin closed
        /\ Writes(b)
        /\ handler' = [handler EXCEPT ![b].todo = @ + 1]
  /\ UNCHANGED <<table, news, drops>>

PushState(b) ==
  /\ At(b, "push")
  /\ \/ /\ b \in closed \/ handler[b].todo = 0
        /\ handler' = [handler EXCEPT ![b] = [step |-> "read", todo |-> 0]]
        /\ UNCHANGED sockets
     \/ /\ b \notin closed /\ handler[b].todo > 0
        /\ Writes(b)
        /\ handler' = [handler EXCEPT ![b].todo = @ - 1]
  /\ UNCHANGED <<table, news, drops>>

(* A message arrives: a ping, one that cannot be understood, or another.   *)
Receive(b) ==
  /\ At(b, "read") /\ b \notin closed
  /\ \E step \in {"pong", "error", "read"} : Goto(b, step)
  /\ UNCHANGED <<table, sockets, news, drops>>

(* The browser has gone without a word, which the panel does not notice.   *)
Disappear(b) ==
  /\ At(b, "read")
  /\ Goto(b, "alone")
  /\ UNCHANGED <<table, sockets, news, drops>>

(* The connection is closed, or the read deadline past.                    *)
StopReading(b) ==
  /\ At(b, "read") \/ At(b, "alone")
  /\ Goto(b, "leave")
  /\ UNCHANGED <<table, sockets, news, drops>>

HandlePing(b) ==
  /\ At(b, "pong")
  /\ CanWrite(b)
  /\ \/ WriteSucceeds(b) /\ Goto(b, "read")
     \/ WriteFails(b) /\ Goto(b, "leave")
  /\ UNCHANGED <<closed, table, news, drops>>

(* sendError writes at once, whoever else does.  Its error is ignored; one *)
(* that is certain is the deadline of the last WriteJSON, ten seconds on.  *)
SendError(b) ==
  /\ \/ At(b, "error") /\ Goto(b, "raw") /\ UNCHANGED broken
     \/ /\ At(b, "raw") /\ Goto(b, "read")
        /\ WriteSucceeds(b) \/ WriteFails(b)
  /\ UNCHANGED <<closed, table, news, drops>>

(* UnregisterFrontend, from the handler or after a failed broadcast.       *)
UnregisterFrontend(b) ==
  /\ table' = table \ {b}
  /\ closed' = IF b \in table THEN closed \cup {b} ELSE closed
  /\ broken' = IF b \in table THEN broken \ {b} ELSE broken
  /\ informed' = informed \ {b}

(* Faulty variant of Leave: the connection is closed, not unregistered.    *)
LeaveOnly(b) ==
  /\ At(b, "leave")
  /\ Goto(b, "close")
  /\ UNCHANGED <<table, sockets, news, drops>>

Leave(b) ==
  /\ At(b, "leave")
  /\ UnregisterFrontend(b)
  /\ Goto(b, "close")
  /\ UNCHANGED <<casts, drops>>

Close(b) ==
  /\ At(b, "close")
  /\ Goto(b, "none")
  /\ closed' = closed \cup {b}
  /\ broken' = broken \ {b}
  /\ UNCHANGED <<table, news, drops>>

HandlerStep(b) ==
  \/ RegisterFrontend(b) \/ Greet(b) \/ QueryStates(b) \/ PushState(b)
  \/ StopReading(b) \/ HandlePing(b) \/ SendError(b)
  \/ Leave(b) \/ Close(b)

----------------------------------------------------------------------------
(* BroadcastToFrontend, called for each change of the server's status.     *)
Broadcast ==
  /\ Cardinality(casts) < MaxCasts
  /\ casts' = {[k EXCEPT !.latest = FALSE] : k \in casts}
              \cup {[latest |-> TRUE, left |-> table, at |-> NoBrowser]}
  /\ informed' = {}
  /\ UNCHANGED <<handler, table, sockets, drops>>

Becomes(k, after) == casts' = (casts \ {k}) \cup after

Informs(k, b) ==
  informed' = IF k.latest /\ b \in table THEN informed \cup {b} ELSE informed

(* The next connection of the copy; one that is closed is skipped.         *)
CastTurns(k, b) ==
  /\ k.at = NoBrowser /\ b \in k.left
  /\ IF b \in closed THEN Becomes(k, {[k EXCEPT !.left = @ \ {b}]})
     ELSE CanWrite(b) /\ Becomes(k, {[k EXCEPT !.left = @ \ {b}, !.at = b]})
  /\ UNCHANGED <<handler, table, sockets, informed, drops>>

(* Faulty variant of CastWrites: the first error ends the broadcast.       *)
CastGivesUp(k) ==
  LET b == k.at
  IN /\ b # NoBrowser
     /\ \/ /\ WriteSucceeds(b)
           /\ Informs(k, b)
           /\ Becomes(k, {[k EXCEPT !.at = NoBrowser]})
           /\ UNCHANGED drops
        \/ /\ WriteFails(b)
           /\ drops' = drops \cup {b}
           /\ Becomes(k, {})
           /\ UNCHANGED informed
     /\ UNCHANGED <<handler, table, closed>>

CastWrites(k) ==
  LET b == k.at
  IN /\ b # NoBrowser
     /\ Becomes(k, {[k EXCEPT !.at = NoBrowser]})
     /\ \/ /\ WriteSucceeds(b)
           /\ Informs(k, b)
           /\ UNCHANGED drops
        \/ WriteFails(b) /\ drops' = drops \cup {b} /\ UNCHANGED informed
     /\ UNCHANGED <<handler, table, closed>>

CastEnds(k) ==
  /\ k.at = NoBrowser /\ k.left = {}
  /\ Becomes(k, {})
  /\ UNCHANGED <<handler, table, sockets, informed, drops>>

Drop(b) ==
  /\ b \in drops
  /\ drops' = drops \ {b}
  /\ UnregisterFrontend(b)
  /\ UNCHANGED <<handler, casts>>

----------------------------------------------------------------------------
(* Two goroutines that write to one socket: the library panics in one of   *)
(* them, if it notices.  In the handler that ends the connection, in the   *)
(* goroutine of a broadcast the panel.                                     *)
Clash(b) == At(b, "raw") /\ CastAt(b)

HandlerPanics(b) ==
  /\ Clash(b)
  /\ Goto(b, "leave")
  /\ UNCHANGED <<table, sockets, news, drops>>

PanelPanics(b) ==
  /\ Clash(b)
  /\ handler' = [c \in Browsers |-> NoHandler]
  /\ table' = {} /\ drops' = {} /\ casts' = {}
  /\ closed' = {} /\ broken' = {}
  /\ informed' = {}

FeedNext ==
  \/ Broadcast
  \/ \E k \in casts :
       \/ \E b \in Browsers : CastTurns(k, b)
       \/ CastWrites(k) \/ CastEnds(k)
  \/ \E b \in Browsers :
       \/ Connect(b) \/ Receive(b) \/ HandlerStep(b) \/ Drop(b)
       \/ HandlerPanics(b) \/ PanelPanics(b) \/ Disappear(b)

FeedSpec == FeedInit /\ [][FeedNext]_feedVars

(* Goroutines run on, reads and writes have deadlines, and sync.Mutex gives *)
(* the write lock to who has waited for it, however often others ask.      *)
FeedFairness ==
  /\ \A b \in Browsers : SF_feedVars(HandlerStep(b))
  /\ WF_feedVars(\E k \in casts : CastWrites(k))

FeedFairSpec == FeedSpec /\ FeedFairness

----------------------------------------------------------------------------
(***************************************************************************)
(* A change reaches every browser: one that is in the table, and whose     *)
(* connection is neither closed nor broken, has been told of the last      *)
(* change that was broadcast, or asked for the servers since, once that    *)
(* broadcast is past it, whoever left, failed or joined meanwhile          *)
(* (manager.go:332-366).                                                   *)
(***************************************************************************)
HeardAll ==
  \A b \in table \ (closed \cup broken) :
    \/ b \in informed
    \/ \E k \in casts : k.latest /\ b \in k.left \cup {k.at}

(***************************************************************************)
(* A browser that is gone does not stay in the table, broadcast or none    *)
(* (websocket_controller.go:306-330): again and again the panel is reading *)
(* from a browser that is there, or has forgotten it.                      *)
(***************************************************************************)
GoneIsForgotten == \A b \in Browsers : []<>(At(b, "read") \/ b \notin table)

(***************************************************************************)
(* "Protected by the write lock, so that concurrent writes do not panic"   *)
(* (connection.go:117): no two goroutines write to a socket at a time.     *)
(***************************************************************************)
WritesExclude == \A b \in Browsers : ~Clash(b)
============================================================================
