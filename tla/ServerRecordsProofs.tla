------------------------- MODULE ServerRecordsProofs ------------------------
(***************************************************************************)
(* The theorems about ServerRecords: its types, NoOrphans and ConfigAgrees.*)
(* They rest on the shape of the lists of statements (Shaped), which the   *)
(* requests are given when they are asked and keep while they work.        *)
(***************************************************************************)
EXTENDS ServerRecords, SequenceTheorems, FiniteSetTheorems, TLAPS

First(q) == q[1]
Last(q) == q[Len(q)]
Busy(r) == req[r].todo # <<>>

RowOps == {"put", "create", "save"}
ConfigOps == {"readConfig", "sendConfig"}
AgentOps == RowOps \cup {"readRule", "update"} \cup ConfigOps
GroupOps == {"users", "clear", "deleteGroup", "insertGroup", "findGroup", "saveGroup"}

(* A statement has the operands and the failure its handler gives it.      *)
Fits(i) ==
  /\ i \in Item
  /\ IF i.op \in GroupOps THEN i.on \in Groups ELSE i.on \in Servers
  /\ i.op \in RowOps \cup {"readRule"} => i.what \subseteq Kinds
  /\ i.op \in RowOps \cup {"update", "sendConfig"} => i.val \in Values
  /\ i.op = "readRule" => i.val \in Servers
  /\ i.op \in {"insert", "update", "clear"} => i.fail = "abort"
  /\ i.op \in RowOps => i.fail \in {"rules", "channels", "goOn"}
  /\ i.op \in ConfigOps \cup {"delete", "purge"} => i.fail = "goOn"
  /\ i.fail = "skip" => i.op = "users"

(* The configuration is read and sent last, after the row that holds it,   *)
(* and nothing between can end the request.                                *)
ShapedUpdate(q) ==
  /\ Last(q).op \in ConfigOps =>
       /\ \A n \in 1 .. Len(q) : q[n].op \in RowOps \cup ConfigOps \cup {"update"}
       /\ First(q).op = "update" => First(q).on = Last(q).on /\ First(q).val # None
  /\ First(q).op = "update" /\ First(q).val # None =>
       Last(q).op = "readConfig" /\ Last(q).on = First(q).on

(* What belongs to a server is deleted before its row.                     *)
ShapedDelete(q) ==
  Last(q).op = "deleteRow" =>
    \A n \in 1 .. Len(q) : q[n].op \in {"delete", "purge", "deleteRow"} /\ q[n].on = Last(q).on

(* The servers of a group are freed before it is deleted.                  *)
ShapedDeleteGroup(q) ==
  /\ First(q).op = "users" => Len(q) = 3 /\ Last(q).on = First(q).on
  /\ Last(q).op = "deleteGroup" =>
       /\ \A n \in 1 .. Len(q) : q[n].on = Last(q).on
       /\ Len(q) <= 3
       /\ Len(q) > 1 => q[Len(q) - 1].op = "clear"
       /\ Len(q) > 2 => q[1].op = "users"

Shaped(q) ==
  /\ \A n \in 1 .. Len(q) :
       /\ Fits(q[n])
       /\ q[n].op \in {"insert", "update", "users"} => n = 1
       /\ q[n].op \in ConfigOps \cup {"deleteRow", "deleteGroup"} => n = Len(q)
       /\ q[n].op = "clear" => Len(q) = n + 1 /\ Last(q).on = q[n].on
  /\ q # <<>> => ShapedUpdate(q) /\ ShapedDelete(q) /\ ShapedDeleteGroup(q)

----------------------------------------------------------------------------
(* What is left of a list of statements when some are done or skipped.     *)
Later(new, old) ==
  /\ new \in Seq(Item)
  /\ \E k \in 1 .. Len(old) :
       /\ Len(new) = Len(old) - k
       /\ \A n \in 1 .. Len(new) : new[n] = old[n + k]

(* A statement becomes the next one of its handler.                        *)
Becomes(new, old) ==
  /\ new \in Seq(Item) /\ new # <<>> /\ old # <<>> /\ Len(new) = Len(old)
  /\ \A n \in 2 .. Len(old) : new[n] = old[n]
  /\ Fits(new[1]) /\ new[1].on = old[1].on
  /\ \/ old[1].op \in RowOps \cup {"readRule"} /\ new[1].op \in RowOps
     \/ old[1].op = "readConfig" /\ new[1].op = "sendConfig"

LEMMA ListFacts ==
  ASSUME NEW q \in Seq(Item), q # <<>>
  PROVE  /\ Len(q) \in Nat /\ Len(q) >= 1 /\ Head(q) = q[1]
         /\ q[1] \in Item /\ Last(q) \in Item
         /\ Tail(q) \in Seq(Item) /\ Len(Tail(q)) = Len(q) - 1
         /\ \A n \in 1 .. Len(q) - 1 : Tail(q)[n] = q[n + 1]
         /\ Tail(q) = <<>> <=> Len(q) = 1
         /\ Tail(q) # <<>> => Last(Tail(q)) = Last(q)
<1>1. Len(q) \in Nat /\ Len(q) >= 1
  BY EmptySeq
<1>2. q[1] \in Item /\ Last(q) \in Item
  BY <1>1, ElementOfSeq DEF Last
<1>3. /\ Tail(q) \in Seq(Item) /\ Len(Tail(q)) = Len(q) - 1
      /\ \A n \in 1 .. Len(q) - 1 : Tail(q)[n] = q[n + 1]
  BY HeadTailProperties
<1>4. Head(q) = q[1]
  BY <1>1
<1>5. Tail(q) = <<>> <=> Len(q) = 1
  BY <1>1, <1>3, EmptySeq
<1>6. Tail(q) # <<>> => Last(Tail(q)) = Last(q)
  BY <1>1, <1>3, <1>5 DEF Last
<1> QED BY <1>1, <1>2, <1>3, <1>4, <1>5, <1>6

LEMMA LaterEnds ==
  ASSUME NEW old \in Seq(Item), old # <<>>, NEW new, Later(new, old)
  PROVE  /\ Len(new) \in Nat /\ Len(old) \in Nat
         /\ new # <<>> => Len(new) >= 1 /\ Last(new) = Last(old)
         /\ \E k \in 1 .. Len(old) :
              /\ Len(new) = Len(old) - k
              /\ \A n \in 1 .. Len(new) : new[n] = old[n + k] /\ n + k \in 2 .. Len(old)
<1>1. PICK k \in 1 .. Len(old) :
        /\ Len(new) = Len(old) - k
        /\ \A n \in 1 .. Len(new) : new[n] = old[n + k]
  BY DEF Later
<1>2. Len(old) \in Nat /\ Len(new) \in Nat /\ (new # <<>> => Len(new) >= 1)
  BY EmptySeq, LenProperties DEF Later
<1>3. \A n \in 1 .. Len(new) : new[n] = old[n + k] /\ n + k \in 2 .. Len(old)
  BY <1>1, <1>2
<1>4. new # <<>> => Last(new) = Last(old)
  <2> SUFFICES ASSUME new # <<>> PROVE Last(new) = Last(old)
    OBVIOUS
  <2>1. Len(new) \in 1 .. Len(new) /\ Len(new) + k = Len(old)
    BY <1>1, <1>2
  <2> QED BY <1>3, <2>1 DEF Last
<1> QED BY <1>1, <1>2, <1>3, <1>4

LEMMA LaterShaped ==
  ASSUME NEW old \in Seq(Item), old # <<>>, Shaped(old), NEW new, Later(new, old)
  PROVE  Shaped(new)
<1>1. PICK k \in 1 .. Len(old) :
        /\ Len(new) = Len(old) - k
        /\ \A n \in 1 .. Len(new) : new[n] = old[n + k] /\ n + k \in 2 .. Len(old)
  BY LaterEnds
<1>2. /\ Len(old) \in Nat /\ Len(new) \in Nat
      /\ new # <<>> => Len(new) >= 1 /\ Last(new) = Last(old)
  BY LaterEnds
<1>3. \A n \in 1 .. Len(new) :
        /\ Fits(new[n]) /\ new[n].op \notin {"insert", "update", "users"}
        /\ new[n].op \in ConfigOps \cup {"deleteRow", "deleteGroup"} => n = Len(new)
        /\ new[n].op = "clear" => Len(new) = n + 1 /\ Last(new).on = new[n].on
  BY <1>1, <1>2 DEF Shaped
<1>4. ASSUME new # <<>> PROVE ShapedUpdate(new) /\ ShapedDelete(new) /\ ShapedDeleteGroup(new)
  <2>1. /\ First(new).op \notin {"insert", "update", "users"}
        /\ ShapedUpdate(old) /\ ShapedDelete(old) /\ ShapedDeleteGroup(old)
    BY <1>2, <1>3, <1>4 DEF Shaped, First
  <2>2. ShapedUpdate(new)
    BY <1>1, <1>2, <1>4, <2>1 DEF ShapedUpdate
  <2>3. ShapedDelete(new)
    BY <1>1, <1>2, <1>4, <2>1 DEF ShapedDelete
  <2>4. ShapedDeleteGroup(new)
    BY <1>1, <1>2, <1>4, <2>1 DEF ShapedDeleteGroup, First
  <2> QED BY <2>2, <2>3, <2>4
<1> QED BY <1>3, <1>4 DEF Shaped

LEMMA BecomesShaped ==
  ASSUME NEW old \in Seq(Item), Shaped(old), NEW new, Becomes(new, old)
  PROVE  Shaped(new)
<1>1. /\ Len(old) \in Nat /\ Len(new) = Len(old) /\ Len(new) >= 1
      /\ \A n \in 2 .. Len(old) : new[n] = old[n]
      /\ Fits(new[1]) /\ new[1].on = old[1].on
  BY EmptySeq, LenProperties DEF Becomes
<1>2. ShapedUpdate(old) /\ ShapedDelete(old) /\ ShapedDeleteGroup(old)
  BY DEF Shaped, Becomes
<1>3. CASE old[1].op \in RowOps \cup {"readRule"} /\ new[1].op \in RowOps
  <2>1. Last(new) = Last(old) \/ Last(new).op \in RowOps
    BY <1>1, <1>3 DEF Last
  <2>2. \A n \in 1 .. Len(new) :
          /\ Fits(new[n])
          /\ new[n].op \in {"insert", "update", "users"} => n = 1
          /\ new[n].op \in ConfigOps \cup {"deleteRow", "deleteGroup"} => n = Len(new)
          /\ new[n].op = "clear" => Len(new) = n + 1 /\ Last(new).on = new[n].on
    BY <1>1, <1>3 DEF Shaped, Last, RowOps, ConfigOps
  <2>3. ShapedUpdate(new) /\ ShapedDelete(new) /\ ShapedDeleteGroup(new)
    BY <1>1, <1>2, <1>3, <2>1
       DEF ShapedUpdate, ShapedDelete, ShapedDeleteGroup, RowOps, ConfigOps, First, Last
  <2> QED BY <2>2, <2>3 DEF Shaped
<1>4. CASE old[1].op = "readConfig" /\ new[1].op = "sendConfig"
  <2>1. Len(new) = 1
    BY <1>1, <1>4 DEF Shaped, ConfigOps
  <2> QED BY <1>1, <1>4, <2>1
          DEF Shaped, ShapedUpdate, ShapedDelete, ShapedDeleteGroup, First, Last, ConfigOps
<1> QED BY <1>3, <1>4 DEF Becomes

----------------------------------------------------------------------------
(* The part of the invariant that says what requests are.                  *)
TodosShaped == \A r \in Requests : Shaped(req[r].todo)

(* What is written for a server, is written for one that is or was.        *)
OnesKnown ==
  \A r \in Requests : \A n \in 1 .. Len(req[r].todo) :
    req[r].todo[n].op \in AgentOps =>
      \/ server[req[r].todo[n].on] # "unused"
      \/ req[r].todo[1].op = "insert" /\ req[r].todo[1].on = req[r].todo[n].on

Inserting(r) == Busy(r) /\ req[r].todo[1].op = "insert"
OneInserts ==
  \A r \in Requests : Inserting(r) =>
    /\ server[req[r].todo[1].on] = "unused"
    /\ \A p \in Requests \ {r} : Inserting(p) => req[p].todo[1].on # req[r].todo[1].on

(* The agents that are connected, or are to be when a row has been saved.  *)
Heard == agent \cup {s \in Servers : seen[s] # Out}
AgentsKnown == \A s \in Heard : server[s] # "unused"

AskedAreBusy == \A r \in Requests : Busy(r) => req[r].asked

RequestsInv ==
  RecordsType /\ TodosShaped /\ OnesKnown /\ OneInserts /\ AgentsKnown /\ AskedAreBusy

----------------------------------------------------------------------------
(* A step of a request leaves the other requests alone.                    *)
Gives(r, new) ==
  req'[r].todo = new /\ \A p \in Requests \ {r} : req'[p] = req[p]

Moves(r, new) ==
  /\ req' \in [Requests -> Request] /\ req'[r].todo = new
  /\ req'[r].group = req[r].group /\ req'[r].asked = req[r].asked
  /\ \A p \in Requests \ {r} : req'[p] = req[p]

LEMMA ContinuesMoves ==
  ASSUME RecordsType, NEW r \in Requests, NEW new \in Seq(Item), Continues(r, new)
  PROVE  Moves(r, new)
<1> DEFINE next == [req[r] EXCEPT !.todo = new]
<1>1. /\ next \in Request /\ next.todo = new /\ next.group = req[r].group
      /\ next.asked = req[r].asked
  BY DEF RecordsType, Request
<1>2. req' = [req EXCEPT ![r] = next]
  BY DEF Continues
<1> HIDE DEF next
<1> QED BY <1>1, <1>2 DEF Moves, RecordsType

(* What is known of the request at work and of its first statement.        *)
LEMMA TodoHas ==
  ASSUME RecordsType, NEW r \in Requests, Busy(r)
  PROVE  /\ req[r].todo \in Seq(Item) /\ req[r].todo # <<>> /\ Len(req[r].todo) \in Nat
         /\ Len(req[r].todo) >= 1 /\ This(r) = req[r].todo[1]
         /\ Rest(r) \in Seq(Item) /\ Len(Rest(r)) = Len(req[r].todo) - 1
         /\ \A n \in 1 .. Len(req[r].todo) - 1 : Rest(r)[n] = req[r].todo[n + 1]
         /\ req[r].group \in Groups \cup {None}
         /\ Later(Rest(r), req[r].todo) /\ Later(<<>>, req[r].todo)
<1>1. req[r].todo \in Seq(Item) /\ req[r].todo # <<>> /\ req[r].group \in Groups \cup {None}
  BY DEF RecordsType, Request, Busy
<1>2. /\ Len(req[r].todo) \in Nat /\ Len(req[r].todo) >= 1 /\ This(r) = req[r].todo[1]
      /\ Rest(r) \in Seq(Item) /\ Len(Rest(r)) = Len(req[r].todo) - 1
      /\ \A n \in 1 .. Len(req[r].todo) - 1 : Rest(r)[n] = req[r].todo[n + 1]
  BY <1>1, ListFacts DEF This, Rest
<1>3. Later(Rest(r), req[r].todo)
  BY <1>2 DEF Later
<1>4. Later(<<>>, req[r].todo)
  BY <1>2, EmptySeq DEF Later
<1> QED BY <1>1, <1>2, <1>3, <1>4

LEMMA ThisFits ==
  ASSUME RequestsInv, NEW r \in Requests, Busy(r)
  PROVE  Fits(This(r)) /\ This(r) \in Item /\ Shaped(req[r].todo)
BY TodoHas DEF RequestsInv, TodosShaped, Shaped, Fits

LEMMA StatementsAre ==
  ASSUME RecordsType, NEW r \in Requests
  PROVE  Statements(r) = {req[r].todo[n] : n \in 1 .. Len(req[r].todo)}
<1>1. req[r].todo \in Seq(Item)
  BY DEF RecordsType, Request
<1>2. DOMAIN req[r].todo = 1 .. Len(req[r].todo)
  BY <1>1, LenProperties
<1> QED BY <1>2 DEF Statements

LEMMA SomeIs ==
  ASSUME RecordsType, NEW op, NEW on
  PROVE  Some(op, on) <=> \E r \in Requests : \E n \in 1 .. Len(req[r].todo) :
                             req[r].todo[n].op = op /\ req[r].todo[n].on = on
BY StatementsAre DEF Some

(* A statement succeeds, or becomes another.                               *)
LEMMA DoneMoves ==
  ASSUME RecordsType, NEW r \in Requests, Busy(r), Succeeds(r)
  PROVE  Moves(r, Rest(r)) /\ Later(Rest(r), req[r].todo)
BY TodoHas, ContinuesMoves DEF Succeeds

LEMMA PutOnTop ==
  ASSUME RecordsType, NEW r \in Requests, Busy(r), NEW i \in Item
  PROVE  /\ <<i>> \o Rest(r) \in Seq(Item) /\ (<<i>> \o Rest(r)) # <<>>
         /\ (<<i>> \o Rest(r))[1] = i /\ Len(<<i>> \o Rest(r)) = Len(req[r].todo)
         /\ \A n \in 2 .. Len(req[r].todo) : (<<i>> \o Rest(r))[n] = req[r].todo[n]
<1>1. /\ Rest(r) \in Seq(Item) /\ Len(req[r].todo) \in Nat /\ Len(req[r].todo) >= 1
      /\ Len(Rest(r)) = Len(req[r].todo) - 1
      /\ \A n \in 1 .. Len(req[r].todo) - 1 : Rest(r)[n] = req[r].todo[n + 1]
  BY TodoHas
<1>2. <<i>> \in Seq(Item) /\ Len(<<i>>) = 1 /\ <<i>>[1] = i
  OBVIOUS
<1> DEFINE q == <<i>> \o Rest(r)
<1>3. /\ q \in Seq(Item) /\ Len(q) = 1 + Len(Rest(r))
      /\ \A n \in 1 .. 1 + Len(Rest(r)) : q[n] = IF n <= 1 THEN <<i>>[n] ELSE Rest(r)[n - 1]
  BY <1>1, <1>2, ConcatProperties
<1> HIDE DEF q
<1>4. q # <<>> /\ q[1] = i /\ Len(q) = Len(req[r].todo)
  BY <1>1, <1>2, <1>3, EmptySeq
<1>5. ASSUME NEW n \in 2 .. Len(req[r].todo) PROVE q[n] = req[r].todo[n]
  BY <1>1, <1>3
<1> QED BY <1>3, <1>4, <1>5 DEF q

(* A server that is known stays known, and only one that was inserted      *)
(* becomes so.                                                             *)
ServersMove(r) ==
  \A s \in Servers :
    \/ server'[s] = server[s]
    \/ server[s] # "unused" /\ server'[s] # "unused"
    \/ Inserting(r) /\ req[r].todo[1].on = s /\ server'[s] # "unused"

LEMMA StatementKeepsRequests ==
  ASSUME RequestsInv, NEW r \in Requests, Busy(r), NEW new, Moves(r, new),
         Later(new, req[r].todo) \/ Becomes(new, req[r].todo),
         ServersMove(r), UNCHANGED <<seen, agent>>,
         Inserting(r) => new = <<>> \/ server'[req[r].todo[1].on] # "unused"
  PROVE  TodosShaped' /\ OnesKnown' /\ OneInserts' /\ AgentsKnown' /\ AskedAreBusy'
<1> DEFINE old == req[r].todo
<1>1. /\ old \in Seq(Item) /\ old # <<>> /\ Shaped(old) /\ Len(old) \in Nat /\ Len(old) >= 1
      /\ This(r) = old[1] /\ Fits(old[1])
  BY TodoHas, ThisFits DEF RequestsInv
<1>2. TodosShaped'
  <2>1. Shaped(new)
    BY <1>1, LaterShaped, BecomesShaped
  <2> QED BY <2>1 DEF Moves, TodosShaped, RequestsInv
<1>3. \A s \in Servers : server[s] # "unused" => server'[s] # "unused"
  BY DEF ServersMove
<1>4. AgentsKnown'
  BY <1>3 DEF AgentsKnown, Heard, RequestsInv, RecordsType
<1>5. \A i : Fits(i) /\ i.op \in AgentOps => i.on \in Servers
  BY DEF Fits, AgentOps, GroupOps, RowOps, ConfigOps
<1>6. OnesKnown'
  <2> SUFFICES ASSUME NEW p \in Requests, NEW n \in 1 .. Len(req'[p].todo),
                      req'[p].todo[n].op \in AgentOps
               PROVE  \/ server'[req'[p].todo[n].on] # "unused"
                      \/ /\ req'[p].todo[1].op = "insert"
                         /\ req'[p].todo[1].on = req'[p].todo[n].on
    BY DEF OnesKnown
  <2>1. CASE p # r
    <3>1. req'[p] = req[p] /\ Shaped(req[p].todo)
      BY <2>1 DEF Moves, RequestsInv, TodosShaped
    <3>2. req[p].todo[n].on \in Servers
      BY <1>5, <3>1 DEF Shaped
    <3> QED BY <1>3, <3>1, <3>2 DEF RequestsInv, OnesKnown
  <2>2. CASE p = r /\ Later(new, old)
    <3>1. n \in 1 .. Len(new)
      BY <2>2 DEF Moves
    <3>2. \E k \in 1 .. Len(old) :
            \A j \in 1 .. Len(new) : new[j] = old[j + k] /\ j + k \in 2 .. Len(old)
      BY <2>2, <1>1, LaterEnds
    <3>3. PICK m \in 2 .. Len(old) : new[n] = old[m]
      BY <3>1, <3>2
    <3>4. old[m].on \in Servers /\ new[n].op \in AgentOps /\ new # <<>>
      BY <1>1, <1>5, <2>2, <3>3, EmptySeq DEF Shaped, Moves
    <3>5. \/ server[old[m].on] # "unused"
          \/ old[1].op = "insert" /\ old[1].on = old[m].on
      BY <1>1, <3>3, <3>4 DEF RequestsInv, OnesKnown
    <3>6. server'[new[n].on] # "unused"
      BY <1>3, <3>3, <3>4, <3>5 DEF Inserting
    <3> QED BY <2>2, <3>6 DEF Moves
  <2>3. CASE p = r /\ Becomes(new, old)
    <3>1. /\ new[n] = old[n] \/ (n = 1 /\ new[1].on = old[1].on)
          /\ n \in 1 .. Len(old) /\ old[1].op \in AgentOps /\ old[1].op # "insert"
          /\ new[n].op \in AgentOps
      BY <1>1, <2>3 DEF Becomes, Moves, AgentOps, RowOps, ConfigOps
    <3>2. old[n].op \in AgentOps /\ new[n].on = old[n].on
      BY <3>1
    <3>3. old[n].on \in Servers
      BY <1>1, <1>5, <3>1, <3>2 DEF Shaped
    <3>4. server[old[n].on] # "unused"
      BY <3>1, <3>2 DEF RequestsInv, OnesKnown
    <3> QED BY <1>3, <2>3, <3>2, <3>3, <3>4 DEF Moves
  <2> QED BY <2>1, <2>2, <2>3
<1>7. OneInserts'
  <2>1. req'[r].todo # <<>> => req'[r].todo[1].op # "insert"
    <3>1. CASE Later(new, old) /\ new # <<>>
      <4>1. 1 \in 1 .. Len(new)
        BY <1>1, <3>1, LaterEnds
      <4>2. PICK m \in 2 .. Len(old) : new[1] = old[m]
        BY <1>1, <3>1, <4>1, LaterEnds
      <4> QED BY <1>1, <4>2 DEF Shaped, Moves
    <3>2. CASE Becomes(new, old)
      BY <3>2 DEF Becomes, Moves, RowOps
    <3> QED BY <3>1, <3>2 DEF Moves
  <2> SUFFICES ASSUME NEW p \in Requests, req'[p].todo # <<>>, req'[p].todo[1].op = "insert"
               PROVE  /\ server'[req'[p].todo[1].on] = "unused"
                      /\ \A t \in Requests \ {p} :
                           req'[t].todo # <<>> /\ req'[t].todo[1].op = "insert" =>
                             req'[t].todo[1].on # req'[p].todo[1].on
    BY DEF OneInserts, Inserting, Busy
  <2>2. p # r /\ req'[p] = req[p] /\ Inserting(p)
    BY <2>1 DEF Moves, Inserting, Busy
  <2>3. /\ server[req[p].todo[1].on] = "unused"
        /\ \A t \in Requests \ {p} : Inserting(t) => req[t].todo[1].on # req[p].todo[1].on
    BY <2>2 DEF RequestsInv, OneInserts
  <2>4. req[p].todo[1].on \in Servers
    <3>1. Fits(This(p)) /\ This(p) = req[p].todo[1]
      BY <2>2, ThisFits, TodoHas DEF Inserting, RequestsInv
    <3> QED BY <2>2, <3>1 DEF Fits, GroupOps, Inserting
  <2>5. server'[req[p].todo[1].on] = "unused"
    BY <2>2, <2>3, <2>4 DEF ServersMove
  <2> QED BY <2>1, <2>2, <2>3, <2>5 DEF Moves, Inserting, Busy
<1>8. AskedAreBusy'
  BY DEF AskedAreBusy, Busy, Moves, RequestsInv
<1> QED BY <1>2, <1>4, <1>6, <1>7, <1>8

----------------------------------------------------------------------------
LEMMA LeastIsIn ==
  ASSUME NEW S \in SUBSET Nat, S # {}
  PROVE  Min(S) \in S
<1>1. \E n \in S : \A m \in S : <<m, n>> \notin OpToRel(<, Nat)
  BY NatLessThanWellFounded, WFMin
<1>2. ASSUME NEW m \in Nat, NEW n \in Nat, m < n
      PROVE  <<m, n>> \in OpToRel(<, Nat)
  BY <1>2, Zenon DEF OpToRel
<1>3. \E n \in S : \A m \in S : ~(m < n)
  BY <1>1, <1>2, Zenon
<1>4. \E n \in S : \A m \in S : n <= m
  BY <1>3
<1> QED BY <1>4 DEF Min

(* The loop of a statement ends before the configuration is sent.          *)
LEMMA LoopEnds ==
  ASSUME RequestsInv, NEW r \in Requests, Busy(r)
  PROVE  /\ AfterLoop(r) \in Seq(Item) /\ Later(AfterLoop(r), req[r].todo)
         /\ This(r).op \in RowOps /\ This(r).fail \in {"rules", "channels", "target"}
            /\ Last(req[r].todo).op \in ConfigOps => AfterLoop(r) # <<>>
<1> DEFINE old == req[r].todo
           after == {n \in DOMAIN Rest(r) : ~InLoop(r, Rest(r)[n])}
<1>1. /\ old \in Seq(Item) /\ old # <<>> /\ Len(old) \in Nat /\ Len(old) >= 1
      /\ This(r) = old[1] /\ Rest(r) \in Seq(Item) /\ Len(Rest(r)) = Len(old) - 1
      /\ \A n \in 1 .. Len(old) - 1 : Rest(r)[n] = old[n + 1]
  BY TodoHas DEF RequestsInv
<1>2. DOMAIN Rest(r) = 1 .. Len(Rest(r))
  BY <1>1, LenProperties
<1>3. ASSUME after = {}
      PROVE  AfterLoop(r) \in Seq(Item) /\ Later(AfterLoop(r), old)
  <2>1. AfterLoop(r) = <<>>
    BY <1>3 DEF AfterLoop
  <2> QED BY <2>1, EmptySeq, TodoHas DEF RequestsInv
<1>4. ASSUME after # {}
      PROVE  /\ AfterLoop(r) \in Seq(Item) /\ Later(AfterLoop(r), old)
             /\ AfterLoop(r) # <<>>
  <2> DEFINE m == Min(after)
             new == SubSeq(Rest(r), m, Len(Rest(r)))
  <2>1. m \in 1 .. Len(Rest(r))
    <3>1. after \in SUBSET Nat
      BY <1>2
    <3>2. m \in after
      BY <1>4, <3>1, LeastIsIn
    <3> QED BY <1>2, <3>2
  <2>2. AfterLoop(r) = new
    BY <1>4 DEF AfterLoop
  <2> HIDE DEF m
  <2>3. \A i \in m .. Len(Rest(r)) : Rest(r)[i] \in Item
    BY <1>1, <2>1, ElementOfSeq
  <2>4. /\ new \in Seq(Item) /\ Len(new) = Len(Rest(r)) - m + 1
        /\ \A i \in 1 .. Len(Rest(r)) - m + 1 : new[i] = Rest(r)[m + i - 1]
    BY <1>1, <2>1, <2>3, SubSeqProperties
  <2> HIDE DEF new
  <2>5. /\ m \in 1 .. Len(old) /\ Len(new) = Len(old) - m
        /\ \A i \in 1 .. Len(new) : new[i] = old[i + m]
    BY <1>1, <2>1, <2>4
  <2>6. Later(new, old)
    BY <2>4, <2>5 DEF Later
  <2>7. new # <<>>
    BY <1>1, <2>1, <2>4, EmptySeq
  <2> QED BY <2>2, <2>4, <2>6, <2>7
<1>5. ASSUME This(r).op \in RowOps, This(r).fail \in {"rules", "channels", "target"},
             Last(old).op \in ConfigOps
      PROVE  after # {}
  <2>1. Fits(This(r)) /\ Shaped(old)
    BY ThisFits
  <2>2. This(r).fail \in {"rules", "channels"} /\ This(r).op \notin ConfigOps
    BY <1>5, <2>1 DEF Fits, RowOps, ConfigOps
  <2>3. Len(old) - 1 \in 1 .. Len(Rest(r)) /\ Rest(r)[Len(old) - 1] = Last(old)
    BY <1>1, <1>5, <2>2 DEF Last
  <2>4. Last(old).fail = "goOn"
    BY <1>1, <1>5, <2>1 DEF Shaped, Fits, Last
  <2> QED BY <1>2, <2>2, <2>3, <2>4 DEF InLoop
<1> QED BY <1>3, <1>4, <1>5

LEMMA SkipIsLater ==
  ASSUME NEW q \in Seq(Item), Len(q) = 3
  PROVE  Tail(Tail(q)) \in Seq(Item) /\ Later(Tail(Tail(q)), q)
<1> DEFINE t == Tail(q)
           u == Tail(t)
<1>1. q # <<>>
  BY EmptySeq
<1>2. t \in Seq(Item) /\ Len(t) = Len(q) - 1 /\ \A n \in 1 .. Len(q) - 1 : t[n] = q[n + 1]
  BY <1>1, ListFacts
<1> HIDE DEF t
<1>3. t \in Seq(Item) /\ Len(t) = 2 /\ t[2] = q[3]
  BY <1>2
<1>4. t # <<>>
  BY <1>3, EmptySeq
<1>5. u \in Seq(Item) /\ Len(u) = 1 /\ u[1] = t[2]
  <2>1. u \in Seq(Item) /\ Len(u) = Len(t) - 1 /\ \A n \in 1 .. Len(t) - 1 : u[n] = t[n + 1]
    BY <1>3, <1>4, ListFacts
  <2> HIDE DEF u
  <2> QED BY <1>3, <2>1
<1> HIDE DEF u
<1>6. Len(u) = Len(q) - 2 /\ \A n \in 1 .. Len(u) : u[n] = q[n + 2]
  BY <1>3, <1>5
<1>7. Later(u, q)
  BY <1>5, <1>6 DEF Later
<1> QED BY <1>5, <1>7 DEF u, t

LEMMA FailMoves ==
  ASSUME RequestsInv, NEW r \in Requests, Busy(r), Fails(r)
  PROVE  \E new \in Seq(Item) :
           /\ Moves(r, new) /\ Later(new, req[r].todo)
           /\ This(r).op \in {"insert", "update", "clear"} => new = <<>>
           /\ This(r).op \in {"delete", "purge"} => new = Rest(r)
           /\ This(r).op \in RowOps /\ Last(req[r].todo).op \in ConfigOps => new # <<>>
<1> DEFINE old == req[r].todo
<1>1. /\ old \in Seq(Item) /\ old # <<>> /\ Len(old) \in Nat /\ Len(old) >= 1
      /\ This(r) = old[1] /\ Rest(r) \in Seq(Item) /\ Len(Rest(r)) = Len(old) - 1
      /\ \A n \in 1 .. Len(old) - 1 : Rest(r)[n] = old[n + 1]
      /\ Later(Rest(r), old) /\ Later(<<>>, old) /\ <<>> \in Seq(Item)
  BY TodoHas, EmptySeq DEF RequestsInv
<1>2. Fits(This(r)) /\ Shaped(old)
  BY ThisFits
<1>3. RecordsType
  BY DEF RequestsInv
<1>4. CASE This(r).fail = "abort" /\ Continues(r, <<>>)
  <2>1. Moves(r, <<>>)
    BY <1>1, <1>3, <1>4, ContinuesMoves
  <2>2. This(r).op \notin RowOps \cup {"delete", "purge"}
    BY <1>2, <1>4 DEF Fits, RowOps
  <2> QED BY <1>1, <2>1, <2>2
<1>5. CASE This(r).fail = "goOn" /\ Succeeds(r)
  <2>1. Moves(r, Rest(r))
    BY <1>1, <1>3, <1>5, ContinuesMoves DEF Succeeds
  <2>2. This(r).op \notin {"insert", "update", "clear"}
    BY <1>2, <1>5 DEF Fits
  <2>3. This(r).op \in RowOps /\ Last(old).op \in ConfigOps => Rest(r) # <<>>
    BY <1>1, EmptySeq DEF Last, RowOps, ConfigOps
  <2> QED BY <1>1, <2>1, <2>2, <2>3
<1>6. CASE This(r).fail = "skip" /\ Continues(r, Tail(Rest(r)))
  <2>1. This(r).op = "users"
    BY <1>2, <1>6 DEF Fits
  <2>2. Len(old) = 3
    BY <1>1, <1>2, <2>1 DEF Shaped, ShapedDeleteGroup, First
  <2>3. Rest(r) \in Seq(Item) /\ Len(Rest(r)) = Len(old) - 1
    BY <1>1
  <2>4. Rest(r) \in Seq(Item) /\ Len(Rest(r)) = 2
    BY <2>2, <2>3
  <2>5. Rest(r) # <<>> /\ Rest(r) \in Seq(Item)
    BY <2>4, EmptySeq
  <2>6. Tail(Rest(r)) \in Seq(Item)
    BY <2>5, ListFacts
  <2>7. Later(Tail(Rest(r)), old)
    BY <1>1, <2>2, SkipIsLater DEF Rest
  <2>8. Moves(r, Tail(Rest(r)))
    BY <1>3, <1>6, <2>6, ContinuesMoves
  <2> QED BY <2>1, <2>6, <2>7, <2>8 DEF RowOps
<1>7. CASE This(r).fail \in {"rules", "channels", "target"} /\ Continues(r, AfterLoop(r))
  <2>1. AfterLoop(r) \in Seq(Item) /\ Later(AfterLoop(r), old)
    BY LoopEnds
  <2>2. Moves(r, AfterLoop(r))
    BY <1>3, <1>7, <2>1, ContinuesMoves
  <2>3. This(r).op \notin {"insert", "update", "clear", "delete", "purge"}
    BY <1>2, <1>7 DEF Fits
  <2>4. This(r).op \in RowOps /\ Last(old).op \in ConfigOps => AfterLoop(r) # <<>>
    BY <1>7, LoopEnds
  <2> QED BY <2>1, <2>2, <2>3, <2>4
<1> QED BY <1>4, <1>5, <1>6, <1>7 DEF Fails

----------------------------------------------------------------------------
(* The lists the requests begin with.                                      *)
LEMMA OrderHas ==
  ASSUME NEW S, IsFiniteSet(S), NEW order \in Orders(S)
  PROVE  /\ Len(order) \in Nat /\ DOMAIN order = 1 .. Len(order)
         /\ \A n \in 1 .. Len(order) : order[n] \in S
         /\ \A x \in S : \E n \in 1 .. Len(order) : order[n] = x
<1> DEFINE N == Cardinality(S)
<1>1. N \in Nat
  BY FS_CardinalityType
<1>2. order \in [1 .. N -> S] /\ order \in Injection(1 .. N, S)
  BY DEF Orders, Injection, IsInjective
<1>3. order \in Seq(S) /\ Len(order) = N /\ DOMAIN order = 1 .. N
  BY <1>1, <1>2, SeqDef
<1>4. Cardinality(1 .. N) = N
  BY <1>1, FS_Interval
<1>5. order \in Surjection(1 .. N, S)
  BY <1>2, <1>4, FS_Injection
<1>6. \A x \in S : \E n \in 1 .. N : order[n] = x
  BY <1>5 DEF Surjection
<1> QED BY <1>1, <1>2, <1>3, <1>6

LEMMA InOrderIsOrder ==
  ASSUME NEW S, IsFiniteSet(S)
  PROVE  InOrder(S) \in Orders(S)
<1>1. Bijection(1 .. Cardinality(S), S) # {}
  BY FS_CardinalityType DEF ExistsBijection
<1>2. \E q \in Orders(S) : TRUE
  BY <1>1 DEF Bijection, Injection, IsInjective, Orders
<1> QED BY <1>2 DEF InOrder

RulesOn(s) == {i \in Item : Fits(i) /\ i.op \in {"put", "target", "readRule"} /\ i.on = s}
PutsOn(s) == {i \in Item : Fits(i) /\ i.op = "put" /\ i.on = s}
DeletesOn(s) == {i \in Item : Fits(i) /\ i.op \in {"delete", "purge"} /\ i.on = s}

LEMMA DoFits ==
  ASSUME NEW s \in Servers
  PROVE  /\ \A val \in Values : LET i == Do("update", s, {}, "abort", val)
                                IN Fits(i) /\ i.op = "update" /\ i.on = s /\ i.val = val
         /\ LET i == Do("insert", s, {}, "abort", None)
            IN Fits(i) /\ i.op = "insert" /\ i.on = s
         /\ LET i == Do("readConfig", s, {}, "goOn", None)
            IN Fits(i) /\ i.op = "readConfig" /\ i.on = s
         /\ LET i == Do("deleteRow", s, {}, "abort", None)
            IN Fits(i) /\ i.op = "deleteRow" /\ i.on = s
         /\ LET i == Do("source", s, {}, "abort", None)
            IN Fits(i) /\ i.op = "source" /\ i.on = s
         /\ Do("target", s, {}, "target", None) \in RulesOn(s)
         /\ \A k \in Kinds, fail \in {"rules", "channels", "goOn"}, val \in Values :
              Do("put", s, {k}, fail, val) \in PutsOn(s)
         /\ \A k \in Kinds, from \in Servers :
              Do("readRule", s, {k}, "goOn", from) \in RulesOn(s)
         /\ \A K \in SUBSET Kinds : LET i == Do("delete", s, K, "goOn", None)
                                    IN i \in DeletesOn(s) /\ i.op = "delete" /\ i.what = K
         /\ \A t \in Tables : LET i == Do("purge", s, {t}, "goOn", None)
                              IN i \in DeletesOn(s) /\ i.op = "purge" /\ i.what = {t}
         /\ \A val \in Values : LET i == Do("sendConfig", s, {}, "goOn", val)
                                IN Fits(i) /\ i.op = "sendConfig" /\ i.on = s /\ i.val = val
<1> USE DEF Do, Item, Fits, GroupOps, RowOps, ConfigOps, Values, RulesOn, PutsOn, DeletesOn
<1>1. \A val \in Values : LET i == Do("update", s, {}, "abort", val)
                          IN Fits(i) /\ i.op = "update" /\ i.on = s /\ i.val = val
  OBVIOUS
<1>2. /\ LET i == Do("insert", s, {}, "abort", None) IN Fits(i) /\ i.op = "insert" /\ i.on = s
      /\ LET i == Do("readConfig", s, {}, "goOn", None)
         IN Fits(i) /\ i.op = "readConfig" /\ i.on = s
      /\ LET i == Do("deleteRow", s, {}, "abort", None)
         IN Fits(i) /\ i.op = "deleteRow" /\ i.on = s
  OBVIOUS
<1>3. /\ LET i == Do("source", s, {}, "abort", None) IN Fits(i) /\ i.op = "source" /\ i.on = s
      /\ Do("target", s, {}, "target", None) \in RulesOn(s)
  OBVIOUS
<1>4. \A k \in Kinds, fail \in {"rules", "channels", "goOn"}, val \in Values :
        Do("put", s, {k}, fail, val) \in PutsOn(s)
  OBVIOUS
<1>5. \A k \in Kinds, from \in Servers : Do("readRule", s, {k}, "goOn", from) \in RulesOn(s)
  OBVIOUS
<1>6. \A K \in SUBSET Kinds : LET i == Do("delete", s, K, "goOn", None)
                              IN i \in DeletesOn(s) /\ i.op = "delete" /\ i.what = K
  OBVIOUS
<1>7. \A t \in Tables : LET i == Do("purge", s, {t}, "goOn", None)
                        IN i \in DeletesOn(s) /\ i.op = "purge" /\ i.what = {t}
  OBVIOUS
<1>8. \A val \in Values : LET i == Do("sendConfig", s, {}, "goOn", val)
                          IN Fits(i) /\ i.op = "sendConfig" /\ i.on = s /\ i.val = val
  OBVIOUS
<1> QED BY <1>1, <1>2, <1>3, <1>4, <1>5, <1>6, <1>7, <1>8

LEMMA PutsAre ==
  ASSUME NEW S \in SUBSET Kinds, IsFiniteSet(S), NEW order \in Orders(S), NEW s \in Servers,
         NEW fail \in {"rules", "channels", "goOn"}, NEW val \in Values
  PROVE  Puts(order, s, fail, val) \in Seq(PutsOn(s))
<1>1. Len(order) \in Nat /\ DOMAIN order = 1 .. Len(order) /\ \A n \in 1 .. Len(order) : order[n] \in Kinds
  BY OrderHas
<1>2. Puts(order, s, fail, val) \in [1 .. Len(order) -> PutsOn(s)]
  BY <1>1, DoFits DEF Puts
<1> QED BY <1>1, <1>2, SeqDef

(* A list with a statement ahead of others of one kind.                    *)
Headed(q, x, S) ==
  q \in Seq(Item) /\ Len(q) >= 1 /\ q[1] = x /\ \A n \in 2 .. Len(q) : q[n] \in S

LEMMA OneIsHeaded == ASSUME NEW x \in Item, NEW S PROVE Headed(<<x>>, x, S)
BY DEF Headed

LEMMA StaysHeaded ==
  ASSUME NEW S \in SUBSET Item, NEW q, NEW x, Headed(q, x, S), NEW p \in Seq(S)
  PROVE  Headed(q \o p, x, S)
<1>1. p \in Seq(Item) /\ Len(p) \in Nat /\ Len(q) \in Nat /\ q \in Seq(Item) /\ Len(q) >= 1
      /\ q[1] = x /\ \A n \in 2 .. Len(q) : q[n] \in S
  BY SeqMonotonic, LenProperties DEF Headed
<1> DEFINE t == q \o p
<1>2. /\ t \in Seq(Item) /\ Len(t) = Len(q) + Len(p)
      /\ \A n \in 1 .. Len(q) + Len(p) : t[n] = IF n <= Len(q) THEN q[n] ELSE p[n - Len(q)]
  BY <1>1, ConcatProperties
<1> HIDE DEF t
<1>3. t[1] = x /\ Len(t) >= 1
  BY <1>1, <1>2
<1>4. ASSUME NEW n \in 2 .. Len(t) PROVE t[n] \in S
  <2>1. CASE n <= Len(q)
    BY <1>1, <1>2, <2>1
  <2>2. CASE n > Len(q)
    <3>1. n - Len(q) \in 1 .. Len(p) /\ t[n] = p[n - Len(q)]
      BY <1>1, <1>2, <2>2
    <3> QED BY <3>1, ElementOfSeq
  <2> QED BY <1>1, <1>2, <2>1, <2>2
<1> QED BY <1>2, <1>3, <1>4 DEF Headed, t

(* A list with another statement at its end.                               *)
LEMMA EndsWith ==
  ASSUME NEW q \in Seq(Item), NEW x \in Item
  PROVE  /\ q \o <<x>> \in Seq(Item) /\ Len(q) \in Nat /\ Len(q \o <<x>>) = Len(q) + 1
         /\ \A n \in 1 .. Len(q) : (q \o <<x>>)[n] = q[n]
         /\ (q \o <<x>>)[Len(q) + 1] = x /\ (q \o <<x>>) # <<>>
<1>1. <<x>> \in Seq(Item) /\ Len(<<x>>) = 1 /\ <<x>>[1] = x /\ Len(q) \in Nat
  BY LenProperties
<1> DEFINE t == q \o <<x>>
           y == <<x>>
<1> HIDE DEF y
<1>2. /\ t \in Seq(Item) /\ Len(t) = Len(q) + 1
      /\ \A n \in 1 .. Len(q) + 1 : t[n] = IF n <= Len(q) THEN q[n] ELSE y[n - Len(q)]
  BY <1>1, ConcatProperties DEF y
<1> HIDE DEF t
<1>3. \A n \in 1 .. Len(q) : t[n] = q[n]
  BY <1>1, <1>2
<1>4. t[Len(q) + 1] = x
  BY <1>1, <1>2 DEF y
<1>5. t # <<>>
  BY <1>1, <1>2, EmptySeq
<1> QED BY <1>1, <1>2, <1>3, <1>4, <1>5 DEF t

LEMMA RulesShaped ==
  ASSUME NEW s \in Servers, NEW q, NEW x, Headed(q, x, RulesOn(s)), Fits(x),
         x.op \in {"insert", "source"} \/ (x.op = "update" /\ x.val = None)
  PROVE  Shaped(q) /\ Last(q).op \notin ConfigOps \cup {"deleteRow", "deleteGroup"}
<1>1. /\ Len(q) \in Nat /\ Len(q) >= 1 /\ q[1] = x
      /\ \A n \in 1 .. Len(q) : q[n] \in RulesOn(s) \/ n = 1
  BY LenProperties DEF Headed
<1>2. \A n \in 1 .. Len(q) :
        /\ Fits(q[n])
        /\ n # 1 => q[n].op \in {"put", "target", "readRule"}
        /\ q[n].op \notin ConfigOps \cup {"deleteRow", "deleteGroup", "users", "clear"}
  BY <1>1 DEF RulesOn, ConfigOps
<1>3. Last(q).op \notin ConfigOps \cup {"deleteRow", "deleteGroup"}
  BY <1>1, <1>2 DEF Last
<1>4. ShapedUpdate(q) /\ ShapedDelete(q) /\ ShapedDeleteGroup(q)
  BY <1>1, <1>2, <1>3 DEF ShapedUpdate, ShapedDelete, ShapedDeleteGroup, First
<1> QED BY <1>2, <1>3, <1>4 DEF Shaped

LEMMA UpdateShaped ==
  ASSUME NEW s \in Servers, NEW p, NEW x, Headed(p, x, PutsOn(s)), Fits(x),
         x.op = "update", x.on = s, x.val # None, NEW y, Fits(y), y.op = "readConfig", y.on = s
  PROVE  LET q == p \o <<y>>
         IN /\ Shaped(q) /\ q \in Seq(Item) /\ q # <<>> /\ q[1] = x
            /\ Last(q).op = "readConfig" /\ \A n \in 1 .. Len(q) : q[n].on = s
<1> DEFINE q == p \o <<y>>
<1>1. /\ p \in Seq(Item) /\ Len(p) >= 1 /\ p[1] = x /\ y \in Item
      /\ \A n \in 2 .. Len(p) : p[n] \in PutsOn(s)
  BY DEF Headed, Fits
<1>2. /\ p \in Seq(Item) /\ y \in Item /\ Len(p) \in Nat /\ Len(p) >= 1
      /\ \A n \in 1 .. Len(p) : (n = 1 /\ p[n] = x) \/ (n # 1 /\ p[n] \in PutsOn(s))
  BY <1>1, LenProperties
<1>3. /\ q \in Seq(Item) /\ Len(q) = Len(p) + 1 /\ q # <<>>
      /\ \A n \in 1 .. Len(p) : q[n] = p[n]
      /\ q[Len(p) + 1] = y
  BY <1>2, EndsWith
<1> HIDE DEF q
<1>4. /\ q[1] = x /\ Last(q) = y
      /\ \A n \in 1 .. Len(q) : \/ n = 1 /\ q[n] = x
                                \/ n = Len(q) /\ q[n] = y
                                \/ n # 1 /\ n # Len(q) /\ q[n] \in PutsOn(s)
  BY <1>2, <1>3 DEF Last
<1>5. \A n \in 1 .. Len(q) :
        /\ Fits(q[n]) /\ q[n].on = s
        /\ q[n].op \in {"insert", "update", "users"} => n = 1
        /\ q[n].op \in ConfigOps \cup {"deleteRow", "deleteGroup"} => n = Len(q)
        /\ q[n].op \in {"update", "put", "readConfig"}
  BY <1>4 DEF PutsOn, ConfigOps
<1>6. ShapedUpdate(q) /\ ShapedDelete(q) /\ ShapedDeleteGroup(q)
  BY <1>4, <1>5 DEF ShapedUpdate, ShapedDelete, ShapedDeleteGroup, First, RowOps, ConfigOps
<1>7. Shaped(q)
  BY <1>5, <1>6 DEF Shaped
<1> QED BY <1>3, <1>4, <1>5, <1>7 DEF q

LEMMA DeleteShaped ==
  ASSUME NEW s \in Servers, NEW p \in Seq(DeletesOn(s)), NEW y, Fits(y), y.op = "deleteRow",
         y.on = s
  PROVE  LET q == p \o <<y>>
         IN /\ Shaped(q) /\ q \in Seq(Item) /\ q # <<>>
            /\ \A n \in 1 .. Len(q) : q[n].op \in {"delete", "purge", "deleteRow"}
            /\ \A n \in 1 .. Len(p) : n \in 1 .. Len(q) /\ q[n] = p[n]
            /\ Last(q) = y
<1> DEFINE q == p \o <<y>>
<1>1. p \in Seq(Item) /\ y \in Item
  BY SeqMonotonic DEF Fits, DeletesOn
<1>2. /\ q \in Seq(Item) /\ Len(q) = Len(p) + 1 /\ q # <<>> /\ Len(p) \in Nat
      /\ \A n \in 1 .. Len(p) : q[n] = p[n]
      /\ q[Len(p) + 1] = y
  BY <1>1, EndsWith
<1>3. \A n \in 1 .. Len(p) : p[n] \in DeletesOn(s)
  BY ElementOfSeq
<1> HIDE DEF q
<1>4. /\ Last(q) = y
      /\ \A n \in 1 .. Len(q) : \/ n = Len(q) /\ q[n] = y
                                \/ n # Len(q) /\ q[n] \in DeletesOn(s)
  BY <1>2, <1>3 DEF Last
<1>5. ASSUME NEW n \in 1 .. Len(q)
      PROVE  /\ Fits(q[n]) /\ q[n].on = s
             /\ q[n].op \in {"delete", "purge"} \/ (n = Len(q) /\ q[n].op = "deleteRow")
  <2>1. CASE n = Len(q) /\ q[n] = y
    BY <2>1
  <2>2. CASE q[n] \in DeletesOn(s)
    BY <2>2 DEF DeletesOn
  <2> QED BY <1>4, <2>1, <2>2
<1>6. Len(q) >= 1 /\ 1 \in 1 .. Len(q) /\ First(q).op \notin {"update", "users"}
  BY <1>2, <1>5 DEF First
<1>7. ShapedUpdate(q) /\ ShapedDelete(q) /\ ShapedDeleteGroup(q)
  BY <1>4, <1>5, <1>6 DEF ShapedUpdate, ShapedDelete, ShapedDeleteGroup, ConfigOps
<1>8. Shaped(q)
  BY <1>5, <1>7 DEF Shaped, ConfigOps
<1>9. \A n \in 1 .. Len(p) : n \in 1 .. Len(q)
  BY <1>2
<1> QED BY <1>2, <1>4, <1>5, <1>8, <1>9 DEF q

LEMMA GroupShaped ==
  ASSUME NEW g \in Groups
  PROVE  /\ \A q \in {DeleteGroupProgram(g), UpdateGroupProgram(g),
                      <<Do("insertGroup", g, {}, "abort", None)>>} :
              /\ q \in Seq(Item) /\ q # <<>> /\ Shaped(q) /\ q[1].op # "deleteGroup"
              /\ \A n \in 1 .. Len(q) : q[n].op \in GroupOps
<1> USE DEF Do, Item, Fits, GroupOps, RowOps, ConfigOps, Values
<1>1. ASSUME NEW q \in Seq(Item), q = <<Do("insertGroup", g, {}, "abort", None)>>
      PROVE  /\ q \in Seq(Item) /\ q # <<>> /\ Shaped(q) /\ q[1].op # "deleteGroup"
             /\ \A n \in 1 .. Len(q) : q[n].op \in GroupOps
  <2>1. Len(q) = 1 /\ q[1] = Do("insertGroup", g, {}, "abort", None) /\ q # <<>>
    BY <1>1
  <2> QED BY <2>1 DEF Shaped, ShapedUpdate, ShapedDelete, ShapedDeleteGroup, First, Last
<1>2. ASSUME NEW q \in Seq(Item), q = UpdateGroupProgram(g)
      PROVE  /\ q \in Seq(Item) /\ q # <<>> /\ Shaped(q) /\ q[1].op # "deleteGroup"
             /\ \A n \in 1 .. Len(q) : q[n].op \in GroupOps
  <2>1. /\ Len(q) = 2 /\ q # <<>> /\ q[1] = Do("findGroup", g, {}, "abort", None)
        /\ q[2] = Do("saveGroup", g, {}, "abort", None)
    BY <1>2 DEF UpdateGroupProgram
  <2> QED BY <2>1 DEF Shaped, ShapedUpdate, ShapedDelete, ShapedDeleteGroup, First, Last
<1>3. ASSUME NEW q \in Seq(Item), q = DeleteGroupProgram(g)
      PROVE  /\ q \in Seq(Item) /\ q # <<>> /\ Shaped(q) /\ q[1].op # "deleteGroup"
             /\ \A n \in 1 .. Len(q) : q[n].op \in GroupOps
  <2>1. /\ Len(q) = 3 /\ q # <<>> /\ q[1] = Do("users", g, {}, "skip", None)
        /\ q[2] = Do("clear", g, {}, "abort", None)
        /\ q[3] = Do("deleteGroup", g, {}, "abort", None)
    BY <1>3 DEF DeleteGroupProgram
  <2>2. \A n \in 1 .. Len(q) : n = 1 \/ n = 2 \/ n = 3
    BY <2>1
  <2>3. /\ q[1].op = "users" /\ q[2].op = "clear" /\ q[3].op = "deleteGroup"
        /\ q[1].on = g /\ q[2].on = g /\ q[3].on = g
        /\ Fits(q[1]) /\ Fits(q[2]) /\ Fits(q[3])
    BY <2>1
  <2> HIDE DEF Do, Item, Fits
  <2> QED BY <2>1, <2>2, <2>3
          DEF Shaped, ShapedUpdate, ShapedDelete, ShapedDeleteGroup, First, Last
<1>4. /\ DeleteGroupProgram(g) \in Seq(Item) /\ UpdateGroupProgram(g) \in Seq(Item)
      /\ <<Do("insertGroup", g, {}, "abort", None)>> \in Seq(Item)
  BY DEF DeleteGroupProgram, UpdateGroupProgram
<1> QED BY <1>1, <1>2, <1>3, <1>4

----------------------------------------------------------------------------
StillToDelete(q, op, k) == \E n \in 1 .. Len(q) : q[n].op = op /\ k \in q[n].what

(* What a request begins with does what the invariant says of it.          *)
Started(q) ==
  /\ q \in Seq(Item) /\ q # <<>> /\ Shaped(q)
  /\ \A n \in 1 .. Len(q) : q[n].op \in AgentOps =>
       \/ server[q[n].on] # "unused"
       \/ q[1].op = "insert" /\ q[1].on = q[n].on
  /\ q[1].op = "insert" => server[q[1].on] = "unused" /\ ~Some("insert", q[1].on)
  /\ q[1].op # "deleteGroup"
  /\ Last(q).op \in ConfigOps => q[1].op = "update"
  /\ Last(q).op = "deleteRow" =>
       /\ \A k \in Kinds : StillToDelete(q, "delete", k)
       /\ \A t \in Tables : StillToDelete(q, "purge", t)

LEMMA HeadedStarts ==
  ASSUME NEW s \in Servers, NEW q, NEW x, Headed(q, x, RulesOn(s)), Fits(x),
         x.on = s \/ x.op = "source",
         \/ x.op = "insert" /\ server[s] = "unused" /\ ~Some("insert", s)
         \/ x.op = "source" /\ server[s] # "unused"
         \/ x.op = "update" /\ x.val = None /\ server[s] # "unused"
  PROVE  Started(q)
<1>1. Shaped(q) /\ Last(q).op \notin ConfigOps \cup {"deleteRow", "deleteGroup"}
  BY RulesShaped
<1>2. /\ q \in Seq(Item) /\ Len(q) \in Nat /\ Len(q) >= 1 /\ q[1] = x
      /\ \A n \in 2 .. Len(q) : q[n] \in RulesOn(s)
  BY LenProperties DEF Headed
<1>3. q # <<>>
  BY <1>2, EmptySeq
<1>4. ASSUME NEW n \in 1 .. Len(q), q[n].op \in AgentOps
      PROVE  \/ server[q[n].on] # "unused"
             \/ q[1].op = "insert" /\ q[1].on = q[n].on
  <2>1. x.op = "source" => x.op \notin AgentOps
    BY DEF AgentOps, RowOps, ConfigOps
  <2>2. q[n].on = s
    BY <1>2, <1>4, <2>1 DEF RulesOn
  <2>3. CASE x.op = "insert"
    BY <1>2, <2>2, <2>3
  <2>4. CASE server[s] # "unused"
    BY <2>2, <2>4
  <2> QED BY <2>3, <2>4
<1> QED BY <1>1, <1>2, <1>3, <1>4 DEF Started

LEMMA RulesAreRules ==
  ASSUME NEW s \in Servers
  PROVE  PutsOn(s) \subseteq RulesOn(s) /\ RulesOn(s) \subseteq Item /\ PutsOn(s) \subseteq Item
BY DEF PutsOn, RulesOn

LEMMA CreateStarts ==
  ASSUME NEW r \in Requests, NEW s \in Servers, server[s] = "unused", ~Some("insert", s),
         NEW C \in SUBSET Channels, NEW channels \in Orders(C)
  PROVE  Started(CreateProgram(r, s, channels))
<1> DEFINE x == Do("insert", s, {}, "abort", None)
           p == Puts(channels, s, "channels", r)
<1>1. Fits(x) /\ x.op = "insert" /\ x.on = s /\ x \in Item
  BY DoFits DEF Fits
<1>2. p \in Seq(RulesOn(s))
  <2>1. IsFiniteSet(C) /\ C \in SUBSET Kinds /\ r \in Values
    BY RecordsAssumption, FS_Subset DEF Kinds, Values
  <2>2. p \in Seq(PutsOn(s))
    BY <2>1, PutsAre
  <2> QED BY <2>2, SeqMonotonic, RulesAreRules
<1> HIDE DEF x, p
<1>3. Headed(<<x>> \o p, x, RulesOn(s))
  BY <1>1, <1>2, OneIsHeaded, StaysHeaded, RulesAreRules
<1>4. Started(<<x>> \o p)
  BY <1>1, <1>3, HeadedStarts
<1> QED BY <1>4 DEF CreateProgram, x, p

LEMMA UpdateStarts ==
  ASSUME NEW r \in Requests, NEW s \in Servers, server[s] # "unused",
         NEW B \in SUBSET BaseRules, NEW base \in Orders(B), NEW other \in SUBSET OtherRules,
         NEW C \in SUBSET Channels, NEW channels \in Orders(C), NEW val \in Values
  PROVE  Started(UpdateProgram(r, s, base, other, channels, val))
<1> DEFINE x == Do("update", s, {}, "abort", val)
           p1 == Puts(base, s, "rules", r)
           p2 == Puts(InOrder(other), s, "goOn", r)
           p3 == Puts(channels, s, "channels", r)
           y == Do("readConfig", s, {}, "goOn", None)
<1>1. /\ Fits(x) /\ x.op = "update" /\ x.on = s /\ x.val = val /\ x \in Item
      /\ Fits(y) /\ y.op = "readConfig" /\ y.on = s
  BY DoFits DEF Fits
<1>2. p1 \in Seq(PutsOn(s)) /\ p2 \in Seq(PutsOn(s)) /\ p3 \in Seq(PutsOn(s))
  <2>1. /\ IsFiniteSet(B) /\ B \in SUBSET Kinds /\ r \in Values
        /\ IsFiniteSet(other) /\ other \in SUBSET Kinds
        /\ IsFiniteSet(C) /\ C \in SUBSET Kinds
    BY RecordsAssumption, FS_Subset DEF Kinds, Rules, Values
  <2>2. InOrder(other) \in Orders(other)
    BY <2>1, InOrderIsOrder
  <2> QED BY <2>1, <2>2, PutsAre
<1>3. RowAndRules(r, s, base, other, channels, val) = ((<<x>> \o p1) \o p2) \o p3
  BY DEF RowAndRules
<1> DEFINE q == ((<<x>> \o p1) \o p2) \o p3
<1> HIDE DEF x, y, p1, p2, p3
<1>4. Headed(q, x, PutsOn(s))
  <2>1. Headed(<<x>> \o p1, x, PutsOn(s))
    BY <1>1, <1>2, OneIsHeaded, StaysHeaded, RulesAreRules
  <2>2. Headed((<<x>> \o p1) \o p2, x, PutsOn(s))
    BY <1>2, <2>1, StaysHeaded, RulesAreRules
  <2> QED BY <1>2, <2>2, StaysHeaded, RulesAreRules
<1> HIDE DEF q
<1>5. CASE val = None
  <2>1. Headed(q, x, RulesOn(s))
    BY <1>4, RulesAreRules DEF Headed
  <2>2. q \o <<>> = q
    BY <1>4, ConcatEmptySeq DEF Headed
  <2>3. UpdateProgram(r, s, base, other, channels, val) = q
    BY <1>3, <1>5, <2>2 DEF UpdateProgram, q
  <2> QED BY <1>1, <1>5, <2>1, <2>3, HeadedStarts
<1>6. CASE val # None
  <2> DEFINE t == q \o <<y>>
  <2>1. UpdateProgram(r, s, base, other, channels, val) = t
    BY <1>3, <1>6 DEF UpdateProgram, Reconfigure, q, y
  <2>2. /\ Shaped(t) /\ t \in Seq(Item) /\ t # <<>> /\ t[1] = x
        /\ Last(t).op = "readConfig" /\ \A n \in 1 .. Len(t) : t[n].on = s
    BY <1>1, <1>4, <1>6, UpdateShaped
  <2> HIDE DEF t
  <2>3. Started(t)
    BY <1>1, <2>2 DEF Started
  <2> QED BY <2>1, <2>3
<1> QED BY <1>5, <1>6

LEMMA DeleteStarts == ASSUME NEW s \in Servers PROVE Started(DeleteProgram(s))
<1> DEFINE d1 == Do("delete", s, Rules, "goOn", None)
           d2 == Do("delete", s, Channels, "goOn", None)
           p == Purges(s)
           y == Do("deleteRow", s, {}, "abort", None)
<1>1. /\ d1 \in DeletesOn(s) /\ d1.op = "delete" /\ d1.what = Rules
      /\ d2 \in DeletesOn(s) /\ d2.op = "delete" /\ d2.what = Channels
      /\ Fits(y) /\ y.op = "deleteRow" /\ y.on = s
  BY DoFits DEF Kinds
<1>2. /\ p \in Seq(DeletesOn(s))
      /\ \A t \in Tables : \E n \in 1 .. Len(p) : p[n].op = "purge" /\ t \in p[n].what
  <2> DEFINE tables == InOrder(Tables)
  <2>1. /\ Len(tables) \in Nat /\ DOMAIN tables = 1 .. Len(tables)
        /\ \A n \in 1 .. Len(tables) : tables[n] \in Tables
        /\ \A t \in Tables : \E n \in 1 .. Len(tables) : tables[n] = t
    BY RecordsAssumption, InOrderIsOrder, OrderHas
  <2> HIDE DEF tables
  <2>2. p = [n \in 1 .. Len(tables) |-> Do("purge", s, {tables[n]}, "goOn", None)]
    BY <2>1 DEF Purges, tables
  <2>3. p \in [1 .. Len(tables) -> DeletesOn(s)]
    BY <2>1, <2>2, DoFits
  <2>4. p \in Seq(DeletesOn(s)) /\ Len(p) = Len(tables)
    BY <2>1, <2>3, SeqDef
  <2>5. \A n \in 1 .. Len(p) : p[n].op = "purge" /\ p[n].what = {tables[n]}
    BY <2>1, <2>2, <2>4, DoFits
  <2> QED BY <2>1, <2>4, <2>5
<1> DEFINE d == <<d1, d2>>
           q == (d \o p) \o <<y>>
<1>3. DeleteProgram(s) = q
  BY DEF DeleteProgram
<1> HIDE DEF d1, d2, p, y
<1>4. d \in Seq(DeletesOn(s)) /\ Len(d) = 2 /\ d[1] = d1 /\ d[2] = d2
  BY <1>1
<1> HIDE DEF d
<1>5. /\ d \o p \in Seq(DeletesOn(s)) /\ Len(p) \in Nat /\ Len(d \o p) = 2 + Len(p)
      /\ \A n \in 1 .. 2 + Len(p) : (d \o p)[n] = IF n <= 2 THEN d[n] ELSE p[n - 2]
  <2>1. /\ d \o p \in Seq(DeletesOn(s)) /\ Len(d \o p) = Len(d) + Len(p)
        /\ \A n \in 1 .. Len(d) + Len(p) :
             (d \o p)[n] = IF n <= Len(d) THEN d[n] ELSE p[n - Len(d)]
    BY <1>2, <1>4, ConcatProperties
  <2>2. Len(p) \in Nat
    BY <1>2, LenProperties
  <2> QED BY <1>4, <2>1, <2>2
<1> DEFINE u == d \o p
<1>6. /\ u[1] = d1 /\ u[2] = d2 /\ 1 \in 1 .. Len(u) /\ 2 \in 1 .. Len(u)
      /\ \A n \in 1 .. Len(p) : n + 2 \in 1 .. Len(u) /\ u[n + 2] = p[n]
  BY <1>4, <1>5
<1>7. /\ Shaped(q) /\ q \in Seq(Item) /\ q # <<>>
      /\ \A n \in 1 .. Len(q) : q[n].op \in {"delete", "purge", "deleteRow"}
      /\ \A n \in 1 .. Len(u) : n \in 1 .. Len(q) /\ q[n] = u[n]
      /\ Last(q) = y
  BY <1>1, <1>5, DeleteShaped
<1> HIDE DEF u, q
<1>8. \A k \in Kinds : StillToDelete(q, "delete", k)
  BY <1>1, <1>6, <1>7 DEF StillToDelete, Kinds
<1>9. \A t \in Tables : StillToDelete(q, "purge", t)
  BY <1>2, <1>6, <1>7 DEF StillToDelete
<1>10. 1 \in 1 .. Len(q)
  BY <1>6, <1>7
<1>11. Started(q)
  BY <1>1, <1>7, <1>8, <1>9, <1>10 DEF Started, AgentOps, RowOps, ConfigOps
<1> QED BY <1>3, <1>11

LEMMA CopyStarts ==
  ASSUME NEW from \in Servers, NEW s \in Servers, server[s] # "unused",
         NEW T \in SUBSET Rules, NEW order \in Orders(T)
  PROVE  Started(<<Do("source", from, {}, "abort", None)>> \o CopyProgram(from, order, s))
<1> DEFINE x == Do("source", from, {}, "abort", None)
           t == Do("target", s, {}, "target", None)
           p == [i \in DOMAIN order |-> Do("readRule", s, {order[i]}, "goOn", from)]
<1>1. Fits(x) /\ x.op = "source" /\ x \in Item /\ t \in RulesOn(s)
  BY DoFits DEF Fits
<1>2. p \in Seq(RulesOn(s))
  <2>1. IsFiniteSet(T)
    BY RecordsAssumption, FS_Subset, FS_Union DEF Rules
  <2>2. Len(order) \in Nat /\ DOMAIN order = 1 .. Len(order) /\ \A n \in 1 .. Len(order) : order[n] \in Kinds
    BY <2>1, OrderHas DEF Kinds
  <2>3. p \in [1 .. Len(order) -> RulesOn(s)]
    BY <2>2, DoFits
  <2> QED BY <2>2, <2>3, SeqDef
<1>3. CopyProgram(from, order, s) = <<t>> \o p
  BY DEF CopyProgram
<1> HIDE DEF x, t, p
<1>4. <<t>> \o p \in Seq(RulesOn(s))
  <2>1. <<t>> \in Seq(RulesOn(s))
    BY <1>1
  <2> QED BY <1>2, <2>1, ConcatProperties
<1>5. Headed(<<x>> \o (<<t>> \o p), x, RulesOn(s))
  BY <1>1, <1>4, OneIsHeaded, StaysHeaded, RulesAreRules
<1>6. Started(<<x>> \o (<<t>> \o p))
  BY <1>1, <1>5, HeadedStarts
<1> QED BY <1>3, <1>6 DEF x

LEMMA GroupStarts ==
  ASSUME NEW g \in Groups
  PROVE  /\ Started(DeleteGroupProgram(g)) /\ Started(UpdateGroupProgram(g))
         /\ Started(<<Do("insertGroup", g, {}, "abort", None)>>)
<1> SUFFICES ASSUME NEW q \in {DeleteGroupProgram(g), UpdateGroupProgram(g),
                               <<Do("insertGroup", g, {}, "abort", None)>>}
             PROVE  Started(q)
  OBVIOUS
<1>1. /\ q \in Seq(Item) /\ q # <<>> /\ Shaped(q) /\ q[1].op # "deleteGroup"
      /\ \A n \in 1 .. Len(q) : q[n].op \in GroupOps
  BY GroupShaped
<1>2. Len(q) \in Nat /\ Len(q) >= 1
  BY <1>1, EmptySeq
<1>3. 1 \in 1 .. Len(q) /\ Len(q) \in 1 .. Len(q)
  BY <1>2
<1> QED BY <1>1, <1>3 DEF Started, Last, GroupOps, AgentOps, RowOps, ConfigOps

LEMMA AsksStart ==
  ASSUME RequestsInv, NEW r \in Requests, Asks(r)
  PROVE  \E g \in Groups \cup {None}, q \in Seq(Item) : Ask(r, g, q) /\ Started(q)
<1>1. ASSUME NEW g \in Groups \cup {None}, NEW q, Ask(r, g, q), Started(q)
      PROVE  \E h \in Groups \cup {None}, t \in Seq(Item) : Ask(r, h, t) /\ Started(t)
  BY <1>1 DEF Started
<1>2. KnownGroups \subseteq Groups \cup {None} /\ None \in Groups \cup {None}
  BY DEF KnownGroups
<1>3. CASE CreateServer(r)
  <2>1. PICK s \in Servers, g \in KnownGroups, C \in SUBSET Channels :
          /\ server[s] = "unused" /\ ~Some("insert", s)
          /\ \E channels \in Orders(C) : Ask(r, g, CreateProgram(r, s, channels))
    BY <1>3 DEF CreateServer
  <2> QED BY <1>1, <1>2, <2>1, CreateStarts
<1>4. CASE UpdateServer(r)
  <2>1. PICK s \in Servers, g \in KnownGroups, B \in SUBSET BaseRules,
             other \in SUBSET OtherRules, C \in SUBSET Channels, val \in {r, Empty, None} :
          /\ Known(s)
          /\ \E base \in Orders(B), channels \in Orders(C) :
               Ask(r, g, UpdateProgram(r, s, base, other, channels, val))
    BY <1>4 DEF UpdateServer
  <2>2. val \in Values /\ server[s] # "unused"
    BY <2>1 DEF Values, Known
  <2> QED BY <1>1, <1>2, <2>1, <2>2, UpdateStarts
<1>5. CASE DeleteServer(r)
  BY <1>1, <1>2, <1>5, DeleteStarts DEF DeleteServer
<1>6. CASE CopyAlertRules(r)
  <2>1. PICK from \in Servers, s \in Servers, T \in SUBSET Rules :
          /\ Known(from) /\ Known(s)
          /\ \E order \in Orders(T) :
               Ask(r, None, <<Do("source", from, {}, "abort", None)>>
                              \o CopyProgram(from, order, s))
    BY <1>6 DEF CopyAlertRules
  <2> QED BY <1>1, <1>2, <2>1, CopyStarts DEF Known
<1>7. CASE CreateGroup(r) \/ UpdateGroup(r) \/ DeleteGroup(r)
  BY <1>1, <1>2, <1>7, GroupStarts DEF CreateGroup, UpdateGroup, DeleteGroup
<1> QED BY <1>3, <1>4, <1>5, <1>6, <1>7 DEF Asks

----------------------------------------------------------------------------
(* The parts of the invariant that say what requests have left to do.      *)
Deletes(q, s) == q # <<>> /\ Last(q).op = "deleteRow" /\ Last(q).on = s

DeletionsLeft ==
  \A r \in Requests : \A s \in Servers \ late : Deletes(req[r].todo, s) =>
    /\ \A k \in Kinds : stored[s][k] = None \/ StillToDelete(req[r].todo, "delete", k)
    /\ \A t \in reported[s] : t \in Logs \/ StillToDelete(req[r].todo, "purge", t)

GoneIsEmpty ==
  \A s \in Servers \ late : server[s] = "gone" =>
    reported[s] \subseteq Logs /\ \A k \in Kinds : stored[s][k] = None

LiveGroups == {None} \cup torn \cup {g \in Groups : groups[g] = "present"}
GroupsFound ==
  \A s \in Servers : /\ server[s] = "present" => group[s] \in LiveGroups
                     /\ server[s] = "unused" => group[s] = None

(* A group is deleted when its servers have been freed.                    *)
Deleted(q, g) == q # <<>> /\ q[1].op = "deleteGroup" /\ q[1].on = g
GroupsFreed ==
  \A r \in Requests : \A g \in Groups \ torn : Deleted(req[r].todo, g) =>
    \A s \in Servers : server[s] = "present" => group[s] # g

(* A request has written a configuration and not sent it yet.              *)
Written(q, s) ==
  q # <<>> /\ Last(q).op \in ConfigOps /\ Last(q).on = s /\ q[1].op # "update"

(* The configuration that was written last is on its way, at one place, or *)
(* has arrived; while it is, nothing else is.                              *)
ConfigTravels(s) ==
  /\ \A p, q \in Requests : Written(req[p].todo, s) /\ Written(req[q].todo, s) => p = q
  /\ \A p \in Requests : Written(req[p].todo, s) =>
       /\ down[s] = <<>> /\ up[s] = <<>>
       /\ Last(req[p].todo).op = "sendConfig" => Last(req[p].todo).val = conf[s]
  /\ down[s] # <<>> => down[s] = <<conf[s]>> /\ up[s] = <<>>
  /\ up[s] # <<>> => up[s] = <<agentConf[s]>>
  /\ down[s] = <<>> /\ (\A p \in Requests : ~Written(req[p].todo, s)) =>
       conf[s] \in {agentConf[s], Empty}

ConfigKnown == \A s \in Servers \ astray : server[s] # "gone" => ConfigTravels(s)

RecordsInv ==
  RequestsInv /\ DeletionsLeft /\ GoneIsEmpty /\ GroupsFound /\ GroupsFreed /\ ConfigKnown

----------------------------------------------------------------------------
(* What a statement that deletes nothing, frees no group and writes no     *)
(* configuration leaves of its list, claims no more than before.           *)
Goes(new, old) == Later(new, old) \/ Becomes(new, old)

LEMMA GoesEnds ==
  ASSUME NEW old \in Seq(Item), old # <<>>, Shaped(old), NEW new, Goes(new, old)
  PROVE  /\ Len(old) \in Nat /\ Len(old) >= 1 /\ Len(new) \in Nat
         /\ new # <<>> => Len(new) >= 1
         /\ new # <<>> => \/ Last(new) = Last(old)
                          \/ Last(new).op = "sendConfig" /\ old[1].op = "readConfig"
                          \/ Last(new).op \in RowOps
         /\ new # <<>> => \/ \E m \in 2 .. Len(old) : new[1] = old[m] /\ Len(new) = Len(old) - m + 1
                          \/ new[1].op \in RowOps \cup {"sendConfig"}
<1>1. CASE Later(new, old)
  <2>1. /\ Len(new) \in Nat /\ Len(old) \in Nat
        /\ new # <<>> => Len(new) >= 1 /\ Last(new) = Last(old)
    BY <1>1, LaterEnds
  <2>2. Len(old) >= 1
    BY EmptySeq
  <2>3. ASSUME new # <<>>
        PROVE  \E m \in 2 .. Len(old) : new[1] = old[m] /\ Len(new) = Len(old) - m + 1
    <3>1. PICK k \in 1 .. Len(old) :
            /\ Len(new) = Len(old) - k
            /\ \A n \in 1 .. Len(new) : new[n] = old[n + k] /\ n + k \in 2 .. Len(old)
      BY <1>1, LaterEnds
    <3>2. new[1] = old[1 + k] /\ 1 + k \in 2 .. Len(old) /\ Len(new) = Len(old) - (1 + k) + 1
      BY <2>1, <2>3, <3>1
    <3> QED BY <3>2
  <2> QED BY <2>1, <2>2, <2>3
<1>2. CASE Becomes(new, old)
  <2>1. Len(new) = Len(old) /\ Len(old) \in Nat /\ Len(old) >= 1
    BY <1>2, EmptySeq, LenProperties DEF Becomes
  <2> QED BY <1>2, <2>1 DEF Becomes, Last
<1> QED BY <1>1, <1>2 DEF Goes

LEMMA NotDeleting ==
  ASSUME NEW old \in Seq(Item), old # <<>>, Shaped(old), NEW new, Goes(new, old),
         old[1].op \notin {"delete", "purge", "deleteRow"}, NEW s
  PROVE  ~Deletes(new, s)
<1>1. Last(old).op # "deleteRow"
  <2>1. 1 \in 1 .. Len(old)
    BY GoesEnds
  <2> QED BY <2>1 DEF Shaped, ShapedDelete
<1> QED BY <1>1, GoesEnds DEF Deletes, RowOps

LEMMA NotFreeing ==
  ASSUME NEW old \in Seq(Item), old # <<>>, Shaped(old), NEW new, Goes(new, old),
         old[1].op \notin {"users", "clear"}, NEW g
  PROVE  ~Deleted(new, g)
<1> SUFFICES ASSUME new # <<>>, new[1].op = "deleteGroup" PROVE FALSE
  BY DEF Deleted
<1>1. PICK m \in 2 .. Len(old) : new[1] = old[m]
  BY GoesEnds DEF RowOps
<1>2. m = Len(old) /\ Len(old) \in Nat /\ Last(old).op = "deleteGroup"
  BY <1>1, GoesEnds DEF Shaped, Last
<1>3. /\ Len(old) <= 3 /\ old[Len(old) - 1].op = "clear"
      /\ Len(old) > 2 => old[1].op = "users"
  BY <1>1, <1>2 DEF Shaped, ShapedDeleteGroup
<1> QED BY <1>1, <1>2, <1>3

LEMMA KeepsWritten ==
  ASSUME NEW old \in Seq(Item), old # <<>>, Shaped(old), NEW new, Goes(new, old),
         old[1].op \notin ConfigOps, Last(old).op \in ConfigOps => new # <<>>,
         old[1].op = "update" => Last(old).op \notin ConfigOps, NEW s
  PROVE  /\ Written(new, s) <=> Written(old, s)
         /\ Written(new, s) => Last(new) = Last(old)
<1>1. /\ Len(old) \in Nat /\ Len(old) >= 1
      /\ new # <<>> => Last(new) = Last(old) \/ Last(new).op \in RowOps
  BY GoesEnds DEF ConfigOps
<1>2. Last(old).op \in ConfigOps => Len(old) >= 2
  BY <1>1 DEF Last
<1>3. new # <<>> => new[1].op # "update"
  BY GoesEnds DEF Shaped, RowOps
<1>4. Last(old).op \in ConfigOps => Last(new) = Last(old)
  <2>1. CASE Later(new, old)
    BY <2>1, LaterEnds
  <2>2. CASE Becomes(new, old)
    BY <1>1, <1>2, <2>2 DEF Becomes, Last
  <2> QED BY <2>1, <2>2 DEF Goes
<1> QED BY <1>1, <1>3, <1>4 DEF Written, RowOps, ConfigOps

(* Nothing is written to a server whose deletion is at work or is over.    *)
WritesApart ==
  \A s \in Servers \ late' :
    \/ /\ \A k \in Kinds : stored'[s][k] = None \/ stored'[s][k] = stored[s][k]
       /\ reported'[s] \subseteq reported[s]
    \/ server'[s] # "gone" /\ \A p \in Requests : ~Deletes(req[p].todo, s)

(* What r has left to delete covers what is left.                          *)
LeftFor(new) ==
  \A s \in Servers \ late' : Deletes(new, s) =>
    /\ \A k \in Kinds : stored'[s][k] = None \/ StillToDelete(new, "delete", k)
    /\ \A t \in reported'[s] : t \in Logs \/ StillToDelete(new, "purge", t)

LEMMA DataKept ==
  ASSUME RecordsInv, NEW r \in Requests, NEW new, Gives(r, new), late \subseteq late',
         WritesApart, LeftFor(new)
  PROVE  DeletionsLeft'
<1> SUFFICES ASSUME NEW p \in Requests, NEW s \in Servers \ late', Deletes(req'[p].todo, s)
             PROVE  /\ \A k \in Kinds : stored'[s][k] = None \/ StillToDelete(req'[p].todo, "delete", k)
                    /\ \A t \in reported'[s] : t \in Logs \/ StillToDelete(req'[p].todo, "purge", t)
  BY DEF DeletionsLeft
<1>1. CASE p = r
  BY <1>1 DEF Gives, LeftFor
<1>2. CASE p # r
  <2>1. req'[p] = req[p] /\ Deletes(req[p].todo, s) /\ s \in Servers \ late
    BY <1>2 DEF Gives
  <2>2. /\ \A k \in Kinds : stored[s][k] = None \/ StillToDelete(req[p].todo, "delete", k)
        /\ \A t \in reported[s] : t \in Logs \/ StillToDelete(req[p].todo, "purge", t)
    BY <2>1 DEF RecordsInv, DeletionsLeft
  <2>3. /\ \A k \in Kinds : stored'[s][k] = None \/ stored'[s][k] = stored[s][k]
        /\ reported'[s] \subseteq reported[s]
    BY <2>1 DEF WritesApart
  <2> QED BY <2>1, <2>2, <2>3
<1> QED BY <1>1, <1>2

LEMMA GoneKept ==
  ASSUME RecordsInv, late \subseteq late', WritesApart,
         \A s \in Servers \ late' : server'[s] = "gone" => server[s] = "gone"
  PROVE  GoneIsEmpty'
<1> SUFFICES ASSUME NEW s \in Servers \ late', server'[s] = "gone"
             PROVE  reported'[s] \subseteq Logs /\ \A k \in Kinds : stored'[s][k] = None
  BY DEF GoneIsEmpty
<1>1. reported[s] \subseteq Logs /\ \A k \in Kinds : stored[s][k] = None
  BY DEF RecordsInv, GoneIsEmpty
<1>2. /\ \A k \in Kinds : stored'[s][k] = None \/ stored'[s][k] = stored[s][k]
      /\ reported'[s] \subseteq reported[s]
  BY DEF WritesApart
<1> QED BY <1>1, <1>2

(* The rows of servers and groups stay, or go.                             *)
LEMMA GroupsKept ==
  ASSUME RecordsInv, NEW r \in Requests, NEW new, Gives(r, new), torn \subseteq torn',
         UNCHANGED group,
         \A s \in Servers : server'[s] = server[s] \/ server'[s] = "gone",
         \A g \in Groups : groups[g] = "present" =>
           \/ groups'[g] = "present"
           \/ g \in torn' \/ \A s \in Servers : server'[s] = "present" => group[s] # g,
         \A g \in Groups \ torn' : Deleted(new, g) =>
           \A s \in Servers : server'[s] = "present" => group'[s] # g
  PROVE  GroupsFound' /\ GroupsFreed'
<1>1. GroupsFound'
  <2> SUFFICES ASSUME NEW s \in Servers
               PROVE  /\ server'[s] = "present" =>
                           group'[s] \in {None} \cup torn' \cup {g \in Groups : groups'[g] = "present"}
                      /\ server'[s] = "unused" => group'[s] = None
    BY DEF GroupsFound, LiveGroups
  <2>1. /\ server[s] = "present" =>
             group[s] \in {None} \cup torn \cup {g \in Groups : groups[g] = "present"}
        /\ server[s] = "unused" => group[s] = None
    BY DEF RecordsInv, GroupsFound, LiveGroups
  <2> QED BY <2>1
<1>2. GroupsFreed'
  <2> SUFFICES ASSUME NEW p \in Requests, NEW g \in Groups \ torn', Deleted(req'[p].todo, g),
                      NEW s \in Servers, server'[s] = "present"
               PROVE  group'[s] # g
    BY DEF GroupsFreed
  <2>1. CASE p = r
    BY <2>1 DEF Gives
  <2>2. CASE p # r
    BY <2>2 DEF Gives, RecordsInv, GroupsFreed
  <2> QED BY <2>1, <2>2
<1> QED BY <1>1, <1>2

LEMMA ConfigKept ==
  ASSUME RecordsInv, NEW r \in Requests, NEW new, Gives(r, new), astray \subseteq astray',
         UNCHANGED <<conf, agentConf, down, up>>,
         \A s \in Servers : server'[s] # "gone" => server[s] # "gone",
         \A s \in Servers \ astray' : server'[s] # "gone" =>
            /\ Written(new, s) <=> Written(req[r].todo, s)
            /\ Written(new, s) => Last(new) = Last(req[r].todo)
  PROVE  ConfigKnown'
<1> SUFFICES ASSUME NEW s \in Servers \ astray', server'[s] # "gone" PROVE ConfigTravels(s)'
  BY DEF ConfigKnown
<1>1. ConfigTravels(s)
  BY DEF RecordsInv, ConfigKnown
<1>2. \A p \in Requests : /\ Written(req'[p].todo, s) <=> Written(req[p].todo, s)
                          /\ Written(req'[p].todo, s) =>
                               Last(req'[p].todo) = Last(req[p].todo)
  BY DEF Gives
<1> QED BY <1>1, <1>2 DEF ConfigTravels

(* A statement that only goes on with its request.                         *)
LEMMA OnlyGoesOn ==
  ASSUME RecordsInv, NEW r \in Requests, Busy(r), NEW new, Moves(r, new),
         Goes(new, req[r].todo), UNCHANGED <<rows, wire, history>>,
         This(r).op \in {"put", "source", "target", "readRule"},
         Last(req[r].todo).op \in ConfigOps => new # <<>>
  PROVE  RecordsInv'
<1> DEFINE old == req[r].todo
<1>1. /\ UNCHANGED <<server, conf, group, groups, stored, reported>>
      /\ UNCHANGED <<seen, agent, agentConf, down, up>> /\ UNCHANGED <<late, astray, torn>>
  BY DEF rows, wire, history
<1>2. Gives(r, new)
  BY DEF Moves, Gives
<1>3. /\ old \in Seq(Item) /\ old # <<>> /\ Shaped(old)
      /\ old[1].op \in {"put", "source", "target", "readRule"}
  BY TodoHas, ThisFits DEF RecordsInv, RequestsInv
<1>4. RequestsInv'
  <2>1. RecordsType'
    BY <1>1 DEF RecordsInv, RequestsInv, RecordsType, Moves
  <2>2. ServersMove(r) /\ ~Inserting(r)
    BY <1>1, <1>3 DEF ServersMove, Inserting
  <2>3. TodosShaped' /\ OnesKnown' /\ OneInserts' /\ AgentsKnown' /\ AskedAreBusy'
    BY <1>1, <2>2, StatementKeepsRequests DEF Goes, RecordsInv
  <2> QED BY <2>1, <2>3 DEF RequestsInv
<1>5. DeletionsLeft' /\ GoneIsEmpty'
  <2>1. WritesApart
    BY <1>1 DEF WritesApart
  <2>2. LeftFor(new)
    BY <1>3, NotDeleting DEF LeftFor
  <2> QED BY <1>2, <1>1, <2>1, <2>2, DataKept, GoneKept
<1>6. GroupsFound' /\ GroupsFreed'
  BY <1>2, <1>1, <1>3, NotFreeing, GroupsKept
<1>7. ConfigKnown'
  <2>1. old[1].op \notin ConfigOps \cup {"update"}
    BY <1>3 DEF ConfigOps
  <2>2. \A s \in Servers : /\ Written(new, s) <=> Written(old, s)
                           /\ Written(new, s) => Last(new) = Last(old)
    BY <1>3, <2>1, KeepsWritten
  <2> QED BY <1>2, <1>1, <2>2, ConfigKept
<1> QED BY <1>4, <1>5, <1>6, <1>7 DEF RecordsInv

----------------------------------------------------------------------------
LEMMA PutStep ==
  ASSUME RecordsInv, NEW r \in Requests, Put(r)
  PROVE  RecordsInv'
<1>1. Busy(r) /\ This(r).op = "put" /\ UNCHANGED <<rows, wire, history>>
  BY DEF Put, Doing, Busy, This
<1>2. PICK op \in {"create", "save"} : Continues(r, <<[This(r) EXCEPT !.op = op]>> \o Rest(r))
  BY DEF Put
<1> DEFINE i == [This(r) EXCEPT !.op = op]
           new == <<i>> \o Rest(r)
<1>3. RecordsType /\ RequestsInv
  BY DEF RecordsInv, RequestsInv
<1>4. Fits(This(r)) /\ This(r) \in Item /\ This(r) = req[r].todo[1] /\ req[r].todo # <<>>
  BY <1>1, <1>3, ThisFits, TodoHas
<1>5. i \in Item /\ Fits(i) /\ i.op = op /\ i.on = This(r).on
  BY <1>1, <1>4 DEF Item, Fits, RowOps, ConfigOps, GroupOps
<1> HIDE DEF i
<1>6. /\ new \in Seq(Item) /\ new # <<>> /\ new[1] = i /\ Len(new) = Len(req[r].todo)
      /\ \A n \in 2 .. Len(req[r].todo) : new[n] = req[r].todo[n]
  BY <1>1, <1>3, <1>5, PutOnTop
<1> HIDE DEF new
<1>7. Becomes(new, req[r].todo)
  BY <1>1, <1>4, <1>5, <1>6 DEF Becomes, RowOps
<1>8. Moves(r, new)
  BY <1>2, <1>3, <1>6, ContinuesMoves DEF new, i
<1> QED BY <1>1, <1>6, <1>7, <1>8, OnlyGoesOn DEF Goes

LEMMA LookUpStep ==
  ASSUME RecordsInv, NEW r \in Requests, LookUp(r)
  PROVE  RecordsInv'
<1>1. /\ Busy(r) /\ This(r).op \in {"source", "target"} /\ UNCHANGED <<rows, wire, history>>
      /\ Succeeds(r)
  BY DEF LookUp, Doing, Busy, This
<1>2. Moves(r, Rest(r)) /\ Goes(Rest(r), req[r].todo)
  BY <1>1, DoneMoves DEF RecordsInv, RequestsInv, Goes
<1>3. Last(req[r].todo).op \notin ConfigOps
  <2>1. /\ req[r].todo # <<>> /\ Len(req[r].todo) >= 1 /\ Len(req[r].todo) \in Nat
        /\ req[r].todo[1].op \in {"source", "target"} /\ Shaped(req[r].todo)
    BY <1>1, TodoHas, ThisFits DEF RecordsInv, RequestsInv
  <2> QED BY <2>1 DEF Shaped, ShapedUpdate, RowOps, ConfigOps
<1> QED BY <1>1, <1>2, <1>3, OnlyGoesOn

LEMMA ReadRuleStep ==
  ASSUME RecordsInv, NEW r \in Requests, ReadRule(r)
  PROVE  RecordsInv'
<1>1. Busy(r) /\ This(r).op = "readRule" /\ UNCHANGED <<rows, wire, history>>
  BY DEF ReadRule, Doing, Busy, This
<1>2. PICK k \in This(r).what :
        Continues(r, <<Do("put", This(r).on, {k}, "goOn", stored[This(r).val][k])>> \o Rest(r))
  BY DEF ReadRule
<1> DEFINE i == Do("put", This(r).on, {k}, "goOn", stored[This(r).val][k])
           new == <<i>> \o Rest(r)
<1>3. RecordsType /\ RequestsInv
  BY DEF RecordsInv, RequestsInv
<1>4. Fits(This(r)) /\ This(r) \in Item /\ This(r) = req[r].todo[1] /\ req[r].todo # <<>>
  BY <1>1, <1>3, ThisFits, TodoHas
<1>5. i \in Item /\ Fits(i) /\ i.op = "put" /\ i.on = This(r).on
  <2>1. /\ This(r).on \in Servers /\ k \in Kinds /\ This(r).val \in Servers
    BY <1>1, <1>4 DEF Fits, GroupOps
  <2>2. stored[This(r).val][k] \in Values
    BY <1>3, <2>1 DEF RecordsType
  <2>3. i \in PutsOn(This(r).on)
    BY <2>1, <2>2, DoFits
  <2> QED BY <2>3 DEF PutsOn
<1> HIDE DEF i
<1>6. /\ new \in Seq(Item) /\ new # <<>> /\ new[1] = i /\ Len(new) = Len(req[r].todo)
      /\ \A n \in 2 .. Len(req[r].todo) : new[n] = req[r].todo[n]
  BY <1>1, <1>3, <1>5, PutOnTop
<1> HIDE DEF new
<1>7. Becomes(new, req[r].todo)
  BY <1>1, <1>4, <1>5, <1>6 DEF Becomes, RowOps
<1>8. Moves(r, new)
  BY <1>2, <1>3, <1>6, ContinuesMoves DEF new, i
<1> QED BY <1>1, <1>6, <1>7, <1>8, OnlyGoesOn DEF Goes

----------------------------------------------------------------------------
(* A statement that has succeeded.                                         *)
LEMMA DoneHas ==
  ASSUME RecordsInv, NEW r \in Requests, Busy(r), Succeeds(r)
  PROVE  /\ Moves(r, Rest(r)) /\ Gives(r, Rest(r)) /\ Goes(Rest(r), req[r].todo)
         /\ Later(Rest(r), req[r].todo)
         /\ req[r].todo \in Seq(Item) /\ req[r].todo # <<>> /\ Shaped(req[r].todo)
         /\ Len(req[r].todo) \in Nat /\ Len(req[r].todo) >= 1
         /\ Fits(req[r].todo[1]) /\ This(r) = req[r].todo[1]
         /\ Rest(r) # <<>> <=> Len(req[r].todo) > 1
         /\ Rest(r) # <<>> => Last(Rest(r)) = Last(req[r].todo)
         /\ \A n \in 2 .. Len(req[r].todo) :
              n - 1 \in 1 .. Len(Rest(r)) /\ Rest(r)[n - 1] = req[r].todo[n]
<1>1. Moves(r, Rest(r)) /\ Later(Rest(r), req[r].todo)
  BY DoneMoves DEF RecordsInv, RequestsInv
<1>2. Gives(r, Rest(r)) /\ Goes(Rest(r), req[r].todo)
  BY <1>1 DEF Moves, Gives, Goes
<1>3. /\ req[r].todo \in Seq(Item) /\ req[r].todo # <<>> /\ Shaped(req[r].todo)
      /\ Len(req[r].todo) \in Nat /\ Len(req[r].todo) >= 1
      /\ This(r) = req[r].todo[1] /\ Fits(This(r))
      /\ Len(Rest(r)) = Len(req[r].todo) - 1 /\ Rest(r) \in Seq(Item)
      /\ \A n \in 1 .. Len(req[r].todo) - 1 : Rest(r)[n] = req[r].todo[n + 1]
  BY TodoHas, ThisFits DEF RecordsInv, RequestsInv
<1>4. Rest(r) # <<>> <=> Len(req[r].todo) > 1
  BY <1>3, EmptySeq
<1>5. Rest(r) # <<>> => Last(Rest(r)) = Last(req[r].todo)
  BY <1>1, <1>3, LaterEnds
<1>6. ASSUME NEW n \in 2 .. Len(req[r].todo)
      PROVE  n - 1 \in 1 .. Len(Rest(r)) /\ Rest(r)[n - 1] = req[r].todo[n]
  BY <1>3
<1> QED BY <1>1, <1>2, <1>3, <1>4, <1>5, <1>6

(* A statement that writes no configuration keeps what is to be sent.      *)
LEMMA DoneKeepsWritten ==
  ASSUME RecordsInv, NEW r \in Requests, Busy(r), Succeeds(r),
         This(r).op \notin ConfigOps \cup {"update"}, NEW s
  PROVE  /\ Written(Rest(r), s) <=> Written(req[r].todo, s)
         /\ Written(Rest(r), s) => Last(Rest(r)) = Last(req[r].todo)
<1>1. Last(req[r].todo).op \in ConfigOps => Rest(r) # <<>>
  BY DoneHas DEF Last
<1> QED BY <1>1, DoneHas, KeepsWritten

LEMMA NothingFreed ==
  ASSUME RecordsInv, NEW r \in Requests, Busy(r), Succeeds(r),
         This(r).op \notin {"users", "clear"}, NEW g
  PROVE  ~Deleted(Rest(r), g)
BY DoneHas, NotFreeing

(* Whoever is written to has a row, or had one.                            *)
LEMMA ThisKnown ==
  ASSUME RecordsInv, NEW r \in Requests, Busy(r), This(r).op \in AgentOps
  PROVE  This(r).on \in Servers /\ server[This(r).on] # "unused"
<1>1. /\ Fits(This(r)) /\ This(r) = req[r].todo[1] /\ Len(req[r].todo) >= 1
      /\ Len(req[r].todo) \in Nat
  BY TodoHas, ThisFits DEF RecordsInv, RequestsInv
<1>2. 1 \in 1 .. Len(req[r].todo) /\ req[r].todo[1].op # "insert"
  BY <1>1 DEF AgentOps, RowOps, ConfigOps
<1> QED BY <1>1, <1>2
        DEF RecordsInv, RequestsInv, OnesKnown, Fits, AgentOps, RowOps, ConfigOps, GroupOps

LEMMA NobodyDeletes ==
  ASSUME RecordsInv, NEW s, ~Deleting(s), NEW p \in Requests
  PROVE  ~Deletes(req[p].todo, s)
<1> SUFFICES ASSUME Deletes(req[p].todo, s) PROVE FALSE
  OBVIOUS
<1>1. req[p].todo \in Seq(Item) /\ req[p].todo # <<>>
  BY DEF RecordsInv, RequestsInv, RecordsType, Request, Deletes
<1>2. Len(req[p].todo) \in 1 .. Len(req[p].todo)
  BY <1>1, EmptySeq
<1>3. Some("deleteRow", s)
  BY <1>2, SomeIs DEF RecordsInv, RequestsInv, Deletes, Last
<1> QED BY <1>3 DEF Deleting

LEMMA WritesStep ==
  ASSUME RecordsInv, NEW r \in Requests, Busy(r), This(r).op \in {"create", "save"},
         Writes(r), Succeeds(r)
  PROVE  RecordsInv'
<1> DEFINE s == This(r).on
<1>1. /\ UNCHANGED <<server, conf, group, groups, reported>>
      /\ UNCHANGED <<seen, agent, agentConf, down, up>> /\ UNCHANGED <<astray, torn>>
  BY DEF Writes, wire
<1>2. /\ This(r).what \subseteq Kinds /\ This(r).val \in Values /\ s \in Servers
      /\ server[s] # "unused"
  BY DoneHas, ThisKnown DEF Fits, RowOps, AgentOps, GroupOps
<1>3. /\ stored' \in [Servers -> [Kinds -> Values]]
      /\ \A t \in Servers \ {s} : stored'[t] = stored[t]
  BY <1>2 DEF Writes, RecordsInv, RequestsInv, RecordsType
<1>4. /\ late' \subseteq Servers /\ late \subseteq late'
      /\ s \notin late' => server[s] # "gone" /\ ~Deleting(s)
  BY <1>2 DEF Writes, RecordsInv, RequestsInv, RecordsType
<1>5. RequestsInv'
  <2>1. RecordsType'
    <3>1. req' \in [Requests -> Request]
      BY DoneHas DEF Moves
    <3>2. \A t \in Servers : server'[t] = "unused" =>
            reported'[t] = {} /\ \A k \in Kinds : stored'[t][k] = None
      <4> SUFFICES ASSUME NEW t \in Servers, server[t] = "unused"
                   PROVE  reported[t] = {} /\ \A k \in Kinds : stored'[t][k] = None
        BY <1>1
      <4>1. stored'[t] = stored[t]
        BY <1>2, <1>3
      <4>2. reported[t] = {} /\ \A k \in Kinds : stored[t][k] = None
        BY DEF RecordsInv, RequestsInv, RecordsType
      <4> QED BY <4>1, <4>2
    <3>3. RecordsType
      BY DEF RecordsInv, RequestsInv
    <3> HIDE DEF s
    <3> QED BY <1>1, <1>3, <1>4, <3>1, <3>2, <3>3 DEF RecordsType
  <2>2. ServersMove(r) /\ ~Inserting(r)
    BY <1>1, DoneHas DEF ServersMove, Inserting
  <2>3. TodosShaped' /\ OnesKnown' /\ OneInserts' /\ AgentsKnown' /\ AskedAreBusy'
    BY <1>1, <2>2, DoneHas, StatementKeepsRequests DEF Goes, RecordsInv
  <2> QED BY <2>1, <2>3 DEF RequestsInv
<1>6. DeletionsLeft' /\ GoneIsEmpty'
  <2>1. WritesApart
    BY <1>1, <1>3, <1>4, NobodyDeletes DEF WritesApart
  <2>2. LeftFor(Rest(r))
    BY DoneHas, NotDeleting DEF LeftFor
  <2> QED BY <1>1, <1>4, <2>1, <2>2, DoneHas, DataKept, GoneKept
<1>7. GroupsFound' /\ GroupsFreed'
  <2>1. \A g : ~Deleted(Rest(r), g)
    BY NothingFreed
  <2>2. Gives(r, Rest(r))
    BY DoneHas
  <2> QED BY <1>1, <2>1, <2>2, GroupsKept
<1>8. ConfigKnown'
  <2>1. This(r).op \notin ConfigOps \cup {"update"}
    BY DEF ConfigOps
  <2> QED BY <1>1, <2>1, DoneHas, DoneKeepsWritten, ConfigKept
<1> QED BY <1>5, <1>6, <1>7, <1>8 DEF RecordsInv

(* What is not deleted by this statement, is by one of the rest.           *)
LEMMA StillLater ==
  ASSUME RecordsInv, NEW r \in Requests, Busy(r), Succeeds(r), NEW op, NEW k,
         StillToDelete(req[r].todo, op, k), ~(This(r).op = op /\ k \in This(r).what)
  PROVE  StillToDelete(Rest(r), op, k)
<1>1. PICK n \in 1 .. Len(req[r].todo) : req[r].todo[n].op = op /\ k \in req[r].todo[n].what
  BY DEF StillToDelete
<1>2. n # 1
  BY <1>1, DoneHas
<1>3. n \in 2 .. Len(req[r].todo)
  BY <1>2, DoneHas
<1>4. n - 1 \in 1 .. Len(Rest(r)) /\ Rest(r)[n - 1] = req[r].todo[n]
  BY <1>3, DoneHas
<1> QED BY <1>1, <1>4 DEF StillToDelete

(* A statement of a deletion, but its last.                                *)
LEMMA DeletionStep ==
  ASSUME RecordsInv, NEW r \in Requests, Busy(r), This(r).op \in {"delete", "purge"},
         Succeeds(r), UNCHANGED <<server, conf, group, groups, wire, history>>,
         stored' \in [Servers -> [Kinds -> Values]],
         reported' \in [Servers -> SUBSET (Tables \cup Logs)],
         \A s \in Servers :
           /\ \A k \in Kinds :
                \/ stored'[s][k] = None
                \/ /\ stored'[s][k] = stored[s][k]
                   /\ ~(This(r).on = s /\ This(r).op = "delete" /\ k \in This(r).what)
           /\ reported'[s] \subseteq reported[s]
           /\ This(r).on = s /\ This(r).op = "purge" => reported'[s] \cap This(r).what = {}
  PROVE  RecordsInv'
<1>1. /\ UNCHANGED <<server, conf, group, groups>>
      /\ UNCHANGED <<seen, agent, agentConf, down, up>> /\ UNCHANGED <<late, astray, torn>>
  BY DEF wire, history
<1>2. RequestsInv'
  <2>1. RecordsType'
    BY <1>1, DoneHas DEF RecordsInv, RequestsInv, RecordsType, Moves
  <2>2. ServersMove(r) /\ ~Inserting(r)
    BY <1>1, DoneHas DEF ServersMove, Inserting
  <2>3. TodosShaped' /\ OnesKnown' /\ OneInserts' /\ AgentsKnown' /\ AskedAreBusy'
    BY <1>1, <2>2, DoneHas, StatementKeepsRequests DEF Goes, RecordsInv
  <2> QED BY <2>1, <2>3 DEF RequestsInv
<1>3. DeletionsLeft' /\ GoneIsEmpty'
  <2>1. WritesApart
    BY <1>1 DEF WritesApart
  <2>2. LeftFor(Rest(r))
    <3> SUFFICES ASSUME NEW s \in Servers \ late, Deletes(Rest(r), s)
                 PROVE  /\ \A k \in Kinds :
                             stored'[s][k] = None \/ StillToDelete(Rest(r), "delete", k)
                        /\ \A t \in reported'[s] : t \in Logs \/ StillToDelete(Rest(r), "purge", t)
      BY <1>1 DEF LeftFor
    <3>1. Deletes(req[r].todo, s) /\ This(r).on = s
      BY DoneHas DEF Deletes, Shaped, ShapedDelete
    <3>2. /\ \A k \in Kinds : stored[s][k] = None \/ StillToDelete(req[r].todo, "delete", k)
          /\ \A t \in reported[s] : t \in Logs \/ StillToDelete(req[r].todo, "purge", t)
      BY <3>1 DEF RecordsInv, DeletionsLeft
    <3> QED BY <3>1, <3>2, StillLater
  <2> QED BY <1>1, <2>1, <2>2, DoneHas, DataKept, GoneKept
<1>4. GroupsFound' /\ GroupsFreed'
  <2>1. \A g : ~Deleted(Rest(r), g)
    BY NothingFreed
  <2>2. Gives(r, Rest(r))
    BY DoneHas
  <2> QED BY <1>1, <2>1, <2>2, GroupsKept
<1>5. ConfigKnown'
  <2>1. This(r).op \notin ConfigOps \cup {"update"}
    BY DEF ConfigOps
  <2> QED BY <1>1, <2>1, DoneHas, DoneKeepsWritten, ConfigKept
<1> QED BY <1>2, <1>3, <1>4, <1>5 DEF RecordsInv

LEMMA DeleteStep ==
  ASSUME RecordsInv, NEW r \in Requests, Delete(r)
  PROVE  RecordsInv'
<1>1. /\ Busy(r) /\ This(r).op = "delete" /\ Succeeds(r) /\ UNCHANGED reported
      /\ UNCHANGED <<server, conf, group, groups, wire, history>>
  BY DEF Delete, Doing, Busy, This
<1>2. /\ stored' \in [Servers -> [Kinds -> Values]] /\ This(r).on \in Servers
      /\ \A s \in Servers, k \in Kinds :
           stored'[s][k] = IF s = This(r).on /\ k \in This(r).what THEN None ELSE stored[s][k]
  <2>1. This(r).on \in Servers
    BY <1>1, DoneHas DEF Fits, GroupOps
  <2> QED BY <2>1 DEF Delete, RecordsInv, RequestsInv, RecordsType, Values
<1>3. reported' \in [Servers -> SUBSET (Tables \cup Logs)]
  BY <1>1 DEF RecordsInv, RequestsInv, RecordsType
<1> QED BY <1>1, <1>2, <1>3, DeletionStep

LEMMA PurgeStep ==
  ASSUME RecordsInv, NEW r \in Requests, Purge(r)
  PROVE  RecordsInv'
<1>1. /\ Busy(r) /\ This(r).op = "purge" /\ Succeeds(r) /\ UNCHANGED stored
      /\ UNCHANGED <<server, conf, group, groups, wire, history>>
  BY DEF Purge, Doing, Busy, This
<1>2. /\ reported' \in [Servers -> SUBSET (Tables \cup Logs)]
      /\ \A s \in Servers :
           reported'[s] = IF s = This(r).on THEN reported[s] \ This(r).what ELSE reported[s]
  <2>1. This(r).on \in Servers
    BY <1>1, DoneHas DEF Fits, GroupOps
  <2> QED BY <2>1 DEF Purge, RecordsInv, RequestsInv, RecordsType
<1>3. stored' \in [Servers -> [Kinds -> Values]]
  BY <1>1 DEF RecordsInv, RequestsInv, RecordsType
<1> QED BY <1>1, <1>2, <1>3, DeletionStep

LEMMA CreateStep ==
  ASSUME RecordsInv, NEW r \in Requests, Create(r) \/ SaveRule(r)
  PROVE  RecordsInv'
BY WritesStep DEF Create, SaveRule, Doing, Busy, This

(* The row goes last.                                                      *)
LEMMA DeleteRowStep ==
  ASSUME RecordsInv, NEW r \in Requests, DeleteRow(r)
  PROVE  RecordsInv'
<1> DEFINE old == req[r].todo
           s == This(r).on
<1>1. /\ Busy(r) /\ This(r).op = "deleteRow" /\ Succeeds(r)
      /\ UNCHANGED <<conf, group, groups, stored, reported>>
      /\ UNCHANGED <<seen, agent, agentConf, down, up>> /\ UNCHANGED <<late, astray, torn>>
  BY DEF DeleteRow, Doing, Busy, This, wire, history
<1>2. /\ old \in Seq(Item) /\ old # <<>> /\ Len(old) = 1 /\ Rest(r) = <<>> /\ s \in Servers
      /\ old[1].op = "deleteRow" /\ old[1].on = s /\ Last(old) = old[1]
  <2>1. /\ Len(old) \in Nat /\ Len(old) >= 1 /\ Shaped(old) /\ old[1].op = "deleteRow"
        /\ old[1].on = s /\ Fits(old[1]) /\ old \in Seq(Item) /\ old # <<>>
    BY <1>1, DoneHas
  <2>2. 1 \in 1 .. Len(old)
    BY <2>1
  <2>3. Len(old) = 1
    BY <2>1, <2>2 DEF Shaped
  <2>4. Rest(r) = <<>>
    BY <1>1, <2>3, DoneHas
  <2> QED BY <2>1, <2>3, <2>4 DEF Fits, GroupOps, Last
<1>3. /\ server' \in [Servers -> {"unused", "present", "gone"}]
      /\ \A t \in Servers : \/ server'[t] = server[t]
                            \/ t = s /\ server[t] = "present" /\ server'[t] = "gone"
  BY <1>2 DEF DeleteRow, RecordsInv, RequestsInv, RecordsType
<1>4. RequestsInv'
  <2>1. RecordsType'
    <3>1. req' \in [Requests -> Request]
      BY <1>1, DoneHas DEF Moves
    <3>2. \A t \in Servers : server'[t] = "unused" => server[t] = "unused"
      BY <1>3
    <3> QED BY <1>1, <1>3, <3>1, <3>2 DEF RecordsInv, RequestsInv, RecordsType
  <2>2. ServersMove(r) /\ ~Inserting(r)
    BY <1>2, <1>3 DEF ServersMove, Inserting
  <2>3. TodosShaped' /\ OnesKnown' /\ OneInserts' /\ AgentsKnown' /\ AskedAreBusy'
    BY <1>1, <2>2, DoneHas, StatementKeepsRequests DEF Goes, RecordsInv
  <2> QED BY <2>1, <2>3 DEF RequestsInv
<1>5. Gives(r, <<>>)
  BY <1>1, <1>2, DoneHas
<1>6. DeletionsLeft'
  <2>1. WritesApart /\ LeftFor(<<>>)
    BY <1>1 DEF WritesApart, LeftFor, Deletes
  <2> QED BY <1>1, <1>5, <2>1, DataKept
<1>7. GoneIsEmpty'
  <2> SUFFICES ASSUME NEW t \in Servers \ late, server'[t] = "gone"
               PROVE  reported[t] \subseteq Logs /\ \A k \in Kinds : stored[t][k] = None
    BY <1>1 DEF GoneIsEmpty
  <2>1. CASE server[t] = "gone"
    BY <2>1 DEF RecordsInv, GoneIsEmpty
  <2>2. CASE t = s
    <3>1. Deletes(old, t)
      BY <1>2, <2>2 DEF Deletes
    <3>2. /\ \A k \in Kinds : stored[t][k] = None \/ StillToDelete(old, "delete", k)
          /\ \A u \in reported[t] : u \in Logs \/ StillToDelete(old, "purge", u)
      BY <3>1 DEF RecordsInv, DeletionsLeft
    <3>3. \A k : ~StillToDelete(old, "delete", k) /\ ~StillToDelete(old, "purge", k)
      BY <1>2 DEF StillToDelete
    <3> QED BY <3>2, <3>3
  <2> QED BY <1>3, <2>1, <2>2
<1>8. GroupsFound' /\ GroupsFreed'
  <2>1. \A g : ~Deleted(<<>>, g)
    BY DEF Deleted
  <2>2. \A t \in Servers : server'[t] = server[t] \/ server'[t] = "gone"
    BY <1>3
  <2> QED BY <1>1, <1>5, <2>1, <2>2, GroupsKept
<1>9. ConfigKnown'
  <2>1. \A t : ~Written(<<>>, t) /\ ~Written(old, t)
    BY <1>2 DEF Written, ConfigOps
  <2>2. \A t \in Servers : server'[t] # "gone" => server[t] # "gone"
    BY <1>3
  <2> QED BY <1>1, <1>5, <2>1, <2>2, ConfigKept
<1> QED BY <1>4, <1>6, <1>7, <1>8, <1>9 DEF RecordsInv

(* A group that is written into a row is there, or is recorded as torn.    *)
LEMMA GroupWritten ==
  ASSUME RecordsInv, NEW s \in Servers, NEW g \in Groups \cup {None}, Tears(g),
         group' \in [Servers -> Groups \cup {None}],
         group'[s] = g \/ (group'[s] = group[s] /\ server[s] # "gone"),
         \A t \in Servers \ {s} : group'[t] = group[t] /\ server'[t] = server[t],
         server'[s] = "present", UNCHANGED groups,
         \A p \in Requests : \A h : Deleted(req'[p].todo, h) => Deleted(req[p].todo, h)
  PROVE  torn' \subseteq Groups /\ GroupsFound' /\ GroupsFreed'
<1>1. /\ None \notin Groups /\ torn \subseteq Groups
      /\ server \in [Servers -> {"unused", "present", "gone"}]
  BY RecordsAssumption DEF RecordsInv, RequestsInv, RecordsType
<1>2. /\ torn' \subseteq Groups /\ torn \subseteq torn'
      /\ g # None /\ g \notin torn' => groups[g] = "present" /\ ~DeletingGroup(g)
  BY <1>1 DEF Tears
<1>3. \A t \in Servers :
        /\ server[t] = "present" =>
             group[t] \in {None} \cup torn \cup {h \in Groups : groups[h] = "present"}
        /\ server[t] = "unused" => group[t] = None
  BY DEF RecordsInv, GroupsFound, LiveGroups
<1>4. GroupsFound'
  <2> SUFFICES ASSUME NEW t \in Servers
               PROVE  /\ server'[t] = "present" =>
                           group'[t] \in {None} \cup torn' \cup {h \in Groups : groups'[h] = "present"}
                      /\ server'[t] = "unused" => group'[t] = None
    BY DEF GroupsFound, LiveGroups
  <2>1. CASE t # s
    BY <1>2, <1>3, <2>1
  <2>2. CASE t = s /\ group'[s] = group[s] /\ server[s] # "gone"
    BY <1>1, <1>2, <1>3, <2>2
  <2>3. CASE t = s /\ group'[s] = g
    BY <1>1, <1>2, <2>3
  <2> QED BY <2>1, <2>2, <2>3
<1>5. GroupsFreed'
  <2> SUFFICES ASSUME NEW p \in Requests, NEW h \in Groups \ torn', Deleted(req'[p].todo, h),
                      NEW t \in Servers, server'[t] = "present"
               PROVE  group'[t] # h
    BY DEF GroupsFreed
  <2>1. Deleted(req[p].todo, h) /\ h \in Groups \ torn
    BY <1>2
  <2>2. server[t] = "present" => group[t] # h
    BY <2>1 DEF RecordsInv, GroupsFreed
  <2>3. DeletingGroup(h)
    <3>1. req[p].todo \in Seq(Item) /\ req[p].todo # <<>>
      BY <2>1 DEF RecordsInv, RequestsInv, RecordsType, Request, Deleted
    <3>2. 1 \in 1 .. Len(req[p].todo)
      BY <3>1, EmptySeq
    <3>3. Some("deleteGroup", h)
      BY <2>1, <3>2, SomeIs DEF RecordsInv, RequestsInv, Deleted
    <3> QED BY <3>3 DEF DeletingGroup
  <2>4. CASE t # s
    BY <2>2, <2>4
  <2>5. CASE t = s /\ group'[s] = group[s] /\ server[s] # "gone"
    BY <1>1, <1>3, <2>2, <2>5
  <2>6. CASE t = s /\ group'[s] = g
    BY <1>1, <1>2, <2>3, <2>6
  <2> QED BY <2>4, <2>5, <2>6
<1> QED BY <1>2, <1>4, <1>5

LEMMA AssignedFound ==
  ASSUME RecordsInv, NEW r \in Requests, Busy(r), NEW s \in Servers, Assigns(r, s),
         NEW new, Gives(r, new), \A g : ~Deleted(new, g), UNCHANGED groups,
         server[s] # "gone", server'[s] = "present",
         \A t \in Servers \ {s} : server'[t] = server[t]
  PROVE  /\ group' \in [Servers -> Groups \cup {None}] /\ torn' \subseteq Groups
         /\ GroupsFound' /\ GroupsFreed'
<1> DEFINE g == req[r].group
<1>1. g \in Groups \cup {None} /\ group \in [Servers -> Groups \cup {None}]
  BY TodoHas DEF RecordsInv, RequestsInv, RecordsType
<1>2. /\ group' \in [Servers -> Groups \cup {None}]
      /\ group'[s] = g \/ (group'[s] = group[s] /\ server[s] # "gone")
      /\ \A t \in Servers \ {s} : group'[t] = group[t]
      /\ Tears(g)
  BY <1>1 DEF Assigns
<1> HIDE DEF g
<1>3. \A p \in Requests : \A h : Deleted(req'[p].todo, h) => Deleted(req[p].todo, h)
  BY DEF Gives
<1> QED BY <1>1, <1>2, <1>3, GroupWritten

LEMMA InsertStep ==
  ASSUME RecordsInv, NEW r \in Requests, Insert(r)
  PROVE  RecordsInv'
<1> DEFINE s == This(r).on
<1>1. /\ Busy(r) /\ This(r).op = "insert" /\ Succeeds(r) /\ Assigns(r, s)
      /\ server' = [server EXCEPT ![s] = "present"]
      /\ UNCHANGED <<conf, groups, stored, reported>>
      /\ UNCHANGED <<seen, agent, agentConf, down, up>> /\ UNCHANGED <<late, astray>>
  BY DEF Insert, Doing, Busy, This, wire
<1>2. /\ s \in Servers /\ server[s] = "unused" /\ Inserting(r) /\ req[r].todo[1].on = s
  BY <1>1, DoneHas DEF Fits, GroupOps, Inserting, RecordsInv, RequestsInv, OneInserts
<1>3. /\ server' \in [Servers -> {"unused", "present", "gone"}] /\ server'[s] = "present"
      /\ \A t \in Servers \ {s} : server'[t] = server[t]
  BY <1>1, <1>2 DEF RecordsInv, RequestsInv, RecordsType
<1>4. \A g : ~Deleted(Rest(r), g)
  BY <1>1, NothingFreed
<1>5. /\ group' \in [Servers -> Groups \cup {None}] /\ torn' \subseteq Groups
      /\ GroupsFound' /\ GroupsFreed'
  <2>1. Gives(r, Rest(r))
    BY <1>1, DoneHas
  <2> QED BY <1>1, <1>2, <1>3, <1>4, <2>1, AssignedFound
<1>6. RequestsInv'
  <2>1. RecordsType'
    BY <1>1, <1>3, <1>5, DoneHas DEF RecordsInv, RequestsInv, RecordsType, Moves
  <2>2. ServersMove(r)
    BY <1>2, <1>3 DEF ServersMove
  <2>3. TodosShaped' /\ OnesKnown' /\ OneInserts' /\ AgentsKnown' /\ AskedAreBusy'
    BY <1>1, <1>2, <1>3, <2>2, DoneHas, StatementKeepsRequests DEF Goes, RecordsInv
  <2> QED BY <2>1, <2>3 DEF RequestsInv
<1>7. DeletionsLeft' /\ GoneIsEmpty'
  <2>1. WritesApart
    BY <1>1 DEF WritesApart
  <2>2. LeftFor(Rest(r))
    BY <1>1, DoneHas, NotDeleting DEF LeftFor
  <2>3. \A t \in Servers : server'[t] = "gone" => server[t] = "gone"
    BY <1>3
  <2> QED BY <1>1, <2>1, <2>2, <2>3, DoneHas, DataKept, GoneKept
<1>8. ConfigKnown'
  <2>1. This(r).op \notin ConfigOps \cup {"update"}
    BY <1>1 DEF ConfigOps
  <2>2. \A t \in Servers : server'[t] # "gone" => server[t] # "gone"
    BY <1>2, <1>3
  <2>3. \A t : /\ Written(Rest(r), t) <=> Written(req[r].todo, t)
               /\ Written(Rest(r), t) => Last(Rest(r)) = Last(req[r].todo)
    BY <1>1, <2>1, DoneKeepsWritten
  <2>4. Gives(r, Rest(r))
    BY <1>1, DoneHas
  <2> QED BY <1>1, <2>2, <2>3, <2>4, ConfigKept
<1> QED BY <1>5, <1>6, <1>7, <1>8 DEF RecordsInv

----------------------------------------------------------------------------
(* A statement that leaves the servers, what belongs to them and the       *)
(* agents' connections alone.                                              *)
LEMMA DataApart ==
  ASSUME RecordsInv, NEW r \in Requests, Busy(r), NEW new, Moves(r, new),
         Goes(new, req[r].todo), This(r).op \notin {"insert", "delete", "purge", "deleteRow"},
         UNCHANGED <<server, stored, reported, seen, agent, late>>
  PROVE  /\ TodosShaped' /\ OnesKnown' /\ OneInserts' /\ AgentsKnown' /\ AskedAreBusy'
         /\ DeletionsLeft' /\ GoneIsEmpty' /\ Gives(r, new)
<1>1. /\ req[r].todo \in Seq(Item) /\ req[r].todo # <<>> /\ Shaped(req[r].todo)
      /\ This(r) = req[r].todo[1]
  BY TodoHas, ThisFits DEF RecordsInv, RequestsInv
<1>2. ServersMove(r) /\ ~Inserting(r)
  BY <1>1 DEF ServersMove, Inserting
<1>3. TodosShaped' /\ OnesKnown' /\ OneInserts' /\ AgentsKnown' /\ AskedAreBusy'
  BY <1>2, StatementKeepsRequests DEF Goes, RecordsInv
<1>4. WritesApart
  BY DEF WritesApart
<1>5. LeftFor(new)
  BY <1>1, NotDeleting DEF LeftFor
<1>6. Gives(r, new)
  BY DEF Moves, Gives
<1> QED BY <1>3, <1>4, <1>5, <1>6, DataKept, GoneKept

(* Only rows, rules and the configuration itself come before it is sent.   *)
LEMMA OthersSendNothing ==
  ASSUME RecordsInv, NEW r \in Requests, Busy(r),
         \/ This(r).op \notin RowOps \cup ConfigOps \cup {"update"}
         \/ This(r).op = "update" /\ This(r).val = None
  PROVE  /\ Last(req[r].todo).op \notin ConfigOps
         /\ \A s : ~Written(req[r].todo, s)
<1>1. /\ req[r].todo # <<>> /\ Shaped(req[r].todo) /\ This(r) = req[r].todo[1]
      /\ Len(req[r].todo) \in Nat /\ Len(req[r].todo) >= 1
  BY TodoHas, ThisFits DEF RecordsInv, RequestsInv
<1>2. 1 \in 1 .. Len(req[r].todo) /\ ShapedUpdate(req[r].todo)
  BY <1>1 DEF Shaped
<1>3. Last(req[r].todo).op \notin ConfigOps
  BY <1>1, <1>2 DEF ShapedUpdate, First
<1> QED BY <1>3 DEF Written

LEMMA UpdateStep ==
  ASSUME RecordsInv, NEW r \in Requests, Update(r)
  PROVE  RecordsInv'
<1> DEFINE s == This(r).on
           val == This(r).val
           old == req[r].todo
<1>1. /\ Busy(r) /\ This(r).op = "update" /\ Succeeds(r)
      /\ UNCHANGED <<server, groups, stored, reported>>
      /\ UNCHANGED <<seen, agent, agentConf, down, up>> /\ UNCHANGED late
  BY DEF Update, Doing, Busy, This, wire
<1>2. server[s] = "present" => Assigns(r, s) /\ conf' = IF val = None THEN conf ELSE [conf EXCEPT ![s] = val]
  BY DEF Update
<1>3. server[s] # "present" => UNCHANGED <<group, torn, conf>>
  BY DEF Update
<1>4. astray' = IF val = None THEN astray
                ELSE IF Disturbed(s, r) THEN astray \cup {s} ELSE astray \ {s}
  BY DEF Update
<1>5. /\ s \in Servers /\ val \in Values /\ server[s] # "unused"
      /\ server[s] \in {"unused", "present", "gone"}
  BY <1>1, DoneHas, ThisKnown
     DEF Fits, GroupOps, AgentOps, RowOps, RecordsInv, RequestsInv, RecordsType
<1>6. \A g : ~Deleted(Rest(r), g)
  BY <1>1, NothingFreed
<1>7. Gives(r, Rest(r)) /\ Moves(r, Rest(r)) /\ Goes(Rest(r), old)
  BY <1>1, DoneHas
<1>8. /\ group' \in [Servers -> Groups \cup {None}] /\ torn' \subseteq Groups
      /\ GroupsFound' /\ GroupsFreed'
  <2>1. CASE server[s] = "present"
    <3>1. Assigns(r, s) /\ server[s] # "gone" /\ server'[s] = "present"
          /\ \A t \in Servers \ {s} : server'[t] = server[t]
      BY <1>1, <1>2, <2>1
    <3> QED BY <1>1, <1>5, <1>6, <1>7, <3>1, AssignedFound
  <2>2. CASE server[s] # "present"
    <3>1. GroupsFound' /\ GroupsFreed'
      BY <1>1, <1>3, <1>6, <1>7, <2>2, GroupsKept
    <3> QED BY <1>3, <2>2, <3>1 DEF RecordsInv, RequestsInv, RecordsType
  <2> QED BY <2>1, <2>2
<1>9. /\ conf' \in [Servers -> Values] /\ astray' \subseteq Servers
      /\ \A t \in astray : t \in astray' \/ (t = s /\ val # None)
      /\ \A t \in Servers : \/ conf'[t] = conf[t]
                            \/ t = s /\ val # None
      /\ server[s] = "present" /\ val # None => conf'[s] = val
  <2>1. conf \in [Servers -> Values] /\ astray \subseteq Servers
    BY DEF RecordsInv, RequestsInv, RecordsType
  <2>2. \/ conf' = conf /\ (server[s] = "present" => val = None)
        \/ val # None /\ conf' = [conf EXCEPT ![s] = val]
    BY <1>2, <1>3
  <2>3. \/ astray' = astray
        \/ astray' = astray \cup {s}
        \/ val # None /\ astray' = astray \ {s}
    BY <1>4
  <2> QED BY <1>5, <2>1, <2>2, <2>3
<1>10. /\ TodosShaped' /\ OnesKnown' /\ OneInserts' /\ AgentsKnown' /\ AskedAreBusy'
       /\ DeletionsLeft' /\ GoneIsEmpty'
  BY <1>1, <1>7, DataApart
<1>11. RequestsInv'
  <2>1. RecordsType'
    BY <1>1, <1>7, <1>8, <1>9 DEF RecordsInv, RequestsInv, RecordsType, Moves
  <2> QED BY <1>10, <2>1 DEF RequestsInv
<1>12. \A t : ~Written(old, t)
  BY <1>1, DoneHas DEF Written
<1>13. CASE val = None
  <2>1. \A t : ~Written(Rest(r), t)
    <3>1. Last(old).op \notin ConfigOps
      BY <1>1, <1>13, OthersSendNothing
    <3>2. Rest(r) # <<>> => Last(Rest(r)) = Last(old)
      BY <1>1, DoneHas
    <3> QED BY <3>1, <3>2 DEF Written
  <2>2. conf' = conf /\ astray' = astray
    BY <1>2, <1>3, <1>4, <1>13
  <2>3. ConfigKnown'
    BY <1>1, <1>7, <1>9, <1>12, <2>1, <2>2, ConfigKept
  <2> QED BY <1>8, <1>10, <1>11, <2>3 DEF RecordsInv
<1>14. CASE val # None
  <2>1. Last(old).op = "readConfig" /\ Last(old).on = s
    BY <1>1, <1>14, DoneHas DEF Shaped, ShapedUpdate, First
  <2>2. Rest(r) # <<>>
    BY <1>1, <2>1, DoneHas DEF Last
  <2>3. Last(Rest(r)) = Last(old)
    BY <1>1, <2>2, DoneHas
  <2>4. \A t : Written(Rest(r), t) <=> t = s
    <3>1. 2 \in 2 .. Len(old)
      BY <1>1, <2>2, DoneHas
    <3>2. Rest(r)[1] = old[2]
      BY <1>1, <3>1, DoneHas
    <3>3. old[2].op # "update"
      BY <1>1, <3>1, DoneHas DEF Shaped
    <3> QED BY <2>1, <2>2, <2>3, <3>2, <3>3 DEF Written, ConfigOps
  <2>5. ConfigKnown'
    <3> SUFFICES ASSUME NEW t \in Servers \ astray', server[t] # "gone"
                 PROVE  ConfigTravels(t)'
      BY <1>1 DEF ConfigKnown
    <3>1. t # s => ConfigTravels(t)
      BY <1>9 DEF RecordsInv, ConfigKnown
    <3>2. CASE t # s
      <4>1. conf'[t] = conf[t]
        BY <1>9, <3>2
      <4>2. \A p \in Requests : /\ Written(req'[p].todo, t) <=> Written(req[p].todo, t)
                                /\ Written(req'[p].todo, t) => Last(req'[p].todo) = Last(req[p].todo)
        BY <1>7, <1>12, <2>4, <3>2 DEF Gives
      <4> QED BY <1>1, <3>1, <3>2, <4>1, <4>2 DEF ConfigTravels
    <3>3. CASE t = s
      <4>1. /\ down[s] = <<>> /\ up[s] = <<>>
            /\ ~\E q \in Requests \ {r} : \E i \in Statements(q) :
                  i.op \in {"readConfig", "sendConfig"} /\ i.on = s
        <5>1. ~Disturbed(s, r)
          BY <1>4, <1>5, <1>14, <3>3
        <5> QED BY <5>1 DEF Disturbed
      <4>2. \A p \in Requests \ {r} : ~Written(req[p].todo, s)
        <5> SUFFICES ASSUME NEW p \in Requests \ {r}, Written(req[p].todo, s) PROVE FALSE
          OBVIOUS
        <5>1. req[p].todo \in Seq(Item) /\ req[p].todo # <<>>
          BY DEF Written, RecordsInv, RequestsInv, RecordsType, Request
        <5>2. Len(req[p].todo) \in 1 .. Len(req[p].todo)
          BY <5>1, EmptySeq
        <5>3. Last(req[p].todo) \in Statements(p)
          BY <5>2, StatementsAre DEF RecordsInv, RequestsInv, Last
        <5> QED BY <4>1, <5>3 DEF Written, ConfigOps
      <4>3. \A p \in Requests : Written(req'[p].todo, s) <=> p = r
        BY <1>7, <2>4, <4>2 DEF Gives
      <4>4. Last(req'[r].todo).op # "sendConfig"
        BY <1>7, <2>1, <2>3 DEF Gives
      <4> QED BY <1>1, <3>3, <4>1, <4>3, <4>4 DEF ConfigTravels
    <3> QED BY <3>2, <3>3
  <2> QED BY <1>8, <1>10, <1>11, <2>5 DEF RecordsInv
<1> QED BY <1>13, <1>14

LEMMA ReadConfigStep ==
  ASSUME RecordsInv, NEW r \in Requests, ReadConfig(r)
  PROVE  RecordsInv'
<1> DEFINE s == This(r).on
           old == req[r].todo
           val == IF server[s] = "present" THEN conf[s] ELSE Empty
           i == Do("sendConfig", s, {}, "goOn", val)
<1>1. /\ Busy(r) /\ This(r).op = "readConfig"
      /\ UNCHANGED <<server, conf, group, groups, stored, reported>>
      /\ UNCHANGED <<seen, agent, agentConf, down, up>> /\ UNCHANGED <<late, astray, torn>>
  BY DEF ReadConfig, Doing, Busy, This, rows, wire, history
<1>2. Continues(r, <<i>> \o Rest(r))
  BY DEF ReadConfig
<1>3. /\ old \in Seq(Item) /\ old # <<>> /\ Len(old) \in Nat /\ Len(old) >= 1 /\ Shaped(old)
      /\ old[1] = This(r) /\ Fits(old[1]) /\ Rest(r) \in Seq(Item) /\ Len(Rest(r)) = Len(old) - 1
  BY <1>1, TodoHas, ThisFits DEF RecordsInv, RequestsInv
<1>4. Len(old) = 1 /\ Last(old) = This(r) /\ Rest(r) = <<>>
  <2>1. 1 \in 1 .. Len(old)
    BY <1>3
  <2>2. Len(old) = 1
    BY <1>1, <1>3, <2>1 DEF Shaped, ConfigOps
  <2> QED BY <1>3, <2>2, EmptySeq DEF Last
<1>5. /\ s \in Servers /\ server[s] \in {"present", "gone"} /\ val \in Values
      /\ server[s] # "gone" => val = conf[s]
  BY <1>1, ThisKnown DEF AgentOps, ConfigOps, RecordsInv, RequestsInv, RecordsType, Values
<1> HIDE DEF val
<1>6. ASSUME NEW new \in Seq(Item), Moves(r, new), Goes(new, old), ConfigKnown'
      PROVE  RecordsInv'
  <2>1. RecordsType'
    BY <1>1, <1>6 DEF RecordsInv, RequestsInv, RecordsType, Moves
  <2>2. /\ TodosShaped' /\ OnesKnown' /\ OneInserts' /\ AgentsKnown' /\ AskedAreBusy'
        /\ DeletionsLeft' /\ GoneIsEmpty' /\ Gives(r, new)
    BY <1>1, <1>6, DataApart
  <2>3. \A g : ~Deleted(new, g)
    BY <1>1, <1>3, <1>6, NotFreeing
  <2>4. GroupsFound' /\ GroupsFreed'
    BY <1>1, <2>2, <2>3, GroupsKept
  <2> QED BY <1>6, <2>1, <2>2, <2>4 DEF RecordsInv, RequestsInv
<1>7. i \in Item /\ Fits(i) /\ i.op = "sendConfig" /\ i.on = s /\ i.val = val
  BY <1>5, DoFits DEF Fits
<1> HIDE DEF i
<1> DEFINE new == <<i>> \o Rest(r)
<1>8. /\ new \in Seq(Item) /\ new # <<>> /\ new[1] = i /\ Len(new) = Len(old)
      /\ \A n \in 2 .. Len(old) : new[n] = old[n]
  BY <1>1, <1>7, PutOnTop DEF RecordsInv, RequestsInv
<1>9. Continues(r, new)
  BY <1>2
<1> HIDE DEF new
<1>10. Becomes(new, old)
  BY <1>1, <1>3, <1>7, <1>8 DEF Becomes
<1>11. Moves(r, new)
  BY <1>8, <1>9, ContinuesMoves DEF RecordsInv, RequestsInv
<1>12. Last(new) = i /\ new[1] = i /\ new # <<>>
  BY <1>4, <1>8 DEF Last
<1>13. \A t : /\ Written(new, t) <=> t = s
              /\ Written(old, t) <=> t = s
  BY <1>1, <1>3, <1>4, <1>7, <1>12 DEF Written, ConfigOps
<1>14. ConfigKnown'
  <2> SUFFICES ASSUME NEW t \in Servers \ astray, server[t] # "gone"
               PROVE  ConfigTravels(t)'
    BY <1>1 DEF ConfigKnown
  <2>1. ConfigTravels(t)
    BY DEF RecordsInv, ConfigKnown
  <2>2. \A p \in Requests : Written(req'[p].todo, t) <=> Written(req[p].todo, t)
    BY <1>11, <1>13 DEF Moves
  <2>3. \A p \in Requests : Written(req'[p].todo, t) =>
          (Last(req'[p].todo).op = "sendConfig" => Last(req'[p].todo).val = conf[t])
    <3> SUFFICES ASSUME NEW p \in Requests, Written(req'[p].todo, t),
                        Last(req'[p].todo).op = "sendConfig"
                 PROVE  Last(req'[p].todo).val = conf[t]
      OBVIOUS
    <3>1. CASE p = r
      BY <1>5, <1>7, <1>11, <1>12, <1>13, <3>1 DEF Moves
    <3>2. CASE p # r
      BY <1>11, <2>1, <2>2, <3>2 DEF Moves, ConfigTravels
    <3> QED BY <3>1, <3>2
  <2> QED BY <1>1, <2>1, <2>2, <2>3 DEF ConfigTravels
<1> QED BY <1>6, <1>8, <1>10, <1>11, <1>14 DEF Goes

LEMMA SendConfigStep ==
  ASSUME RecordsInv, NEW r \in Requests, SendConfig(r)
  PROVE  RecordsInv'
<1> DEFINE s == This(r).on
           val == This(r).val
           old == req[r].todo
<1>1. /\ Busy(r) /\ This(r).op = "sendConfig" /\ Succeeds(r) /\ s \in agent
      /\ down' = [down EXCEPT ![s] = Append(down[s], val)]
      /\ UNCHANGED <<server, conf, group, groups, stored, reported>>
      /\ UNCHANGED <<seen, agent, agentConf, up>> /\ UNCHANGED <<late, astray, torn>>
  BY DEF SendConfig, Doing, Busy, This, rows, history
<1>2. /\ old # <<>> /\ Len(old) \in Nat /\ Len(old) >= 1 /\ Shaped(old)
      /\ old[1] = This(r) /\ Fits(old[1])
      /\ Moves(r, Rest(r)) /\ Gives(r, Rest(r)) /\ Goes(Rest(r), old)
      /\ \A g : ~Deleted(Rest(r), g)
  BY <1>1, DoneHas, NothingFreed
<1>3. Len(old) = 1 /\ Last(old) = This(r) /\ Rest(r) = <<>>
  <2>1. 1 \in 1 .. Len(old)
    BY <1>2
  <2>2. Len(old) = 1
    BY <1>1, <1>2, <2>1 DEF Shaped, ConfigOps
  <2> QED BY <1>1, <2>2, DoneHas DEF Last
<1>4. s \in Servers /\ val \in Values
  BY <1>1, <1>2 DEF Fits, GroupOps, RowOps
<1>5. /\ down \in [Servers -> Seq(Values)] /\ down' \in [Servers -> Seq(Values)]
      /\ \A t \in Servers \ {s} : down'[t] = down[t]
      /\ down'[s] = Append(down[s], val)
  <2>1. down \in [Servers -> Seq(Values)] /\ down[s] \in Seq(Values)
    BY <1>4 DEF RecordsInv, RequestsInv, RecordsType
  <2>2. Append(down[s], val) \in Seq(Values)
    BY <1>4, <2>1, AppendProperties
  <2> QED BY <1>1, <1>4, <2>1, <2>2
<1>6. RequestsInv' /\ DeletionsLeft' /\ GoneIsEmpty'
  <2>1. RecordsType'
    BY <1>1, <1>2, <1>5 DEF RecordsInv, RequestsInv, RecordsType, Moves
  <2>2. /\ TodosShaped' /\ OnesKnown' /\ OneInserts' /\ AgentsKnown' /\ AskedAreBusy'
        /\ DeletionsLeft' /\ GoneIsEmpty'
    BY <1>1, <1>2, DataApart
  <2> QED BY <2>1, <2>2 DEF RequestsInv
<1>7. GroupsFound' /\ GroupsFreed'
  BY <1>1, <1>2, GroupsKept
<1>8. ConfigKnown'
  <2> SUFFICES ASSUME NEW t \in Servers \ astray, server[t] # "gone"
               PROVE  ConfigTravels(t)'
    BY <1>1 DEF ConfigKnown
  <2>1. ConfigTravels(t)
    BY DEF RecordsInv, ConfigKnown
  <2>2. \A u : /\ ~Written(req'[r].todo, u)
               /\ Written(old, u) <=> u = s
    BY <1>1, <1>2, <1>3 DEF Written, ConfigOps, Gives
  <2>3. CASE t # s
    <3>1. \A p \in Requests : /\ Written(req'[p].todo, t) <=> Written(req[p].todo, t)
                              /\ Written(req'[p].todo, t) => req'[p] = req[p]
      BY <1>2, <2>2, <2>3 DEF Gives
    <3> QED BY <1>1, <1>5, <2>1, <2>3, <3>1 DEF ConfigTravels
  <2>4. CASE t = s
    <3>1. /\ down[s] = <<>> /\ up[s] = <<>> /\ val = conf[s]
          /\ \A p \in Requests : Written(req[p].todo, s) => p = r
      BY <1>1, <1>3, <2>1, <2>2, <2>4 DEF ConfigTravels
    <3>2. \A p \in Requests : ~Written(req'[p].todo, s)
      BY <1>2, <2>2, <3>1 DEF Gives
    <3>3. down'[s] = <<conf[s]>> /\ down'[s] # <<>>
      BY <1>5, <3>1
    <3> QED BY <1>1, <2>4, <3>1, <3>2, <3>3 DEF ConfigTravels
  <2> QED BY <2>3, <2>4
<1> QED BY <1>6, <1>7, <1>8 DEF RecordsInv

----------------------------------------------------------------------------
(* The statements on groups.                                               *)
LEMMA UsersStep ==
  ASSUME RecordsInv, NEW r \in Requests, Users(r)
  PROVE  RecordsInv'
<1> DEFINE g == This(r).on
           old == req[r].todo
<1>1. /\ Busy(r) /\ This(r).op = "users"
      /\ UNCHANGED <<server, conf, group, groups, stored, reported>>
      /\ UNCHANGED <<seen, agent, agentConf, down, up>> /\ UNCHANGED <<late, astray, torn>>
  BY DEF Users, Doing, Busy, This, rows, wire, history
<1>2. /\ old \in Seq(Item) /\ old # <<>> /\ Len(old) \in Nat /\ Len(old) >= 1 /\ Shaped(old)
      /\ old[1] = This(r) /\ Rest(r) \in Seq(Item) /\ Later(Rest(r), old)
      /\ \A n \in 1 .. Len(old) - 1 : Rest(r)[n] = old[n + 1]
  BY <1>1, TodoHas, ThisFits DEF RecordsInv, RequestsInv
<1>3. Len(old) = 3 /\ Last(old).on = g
  BY <1>1, <1>2 DEF Shaped, ShapedDeleteGroup, First
<1>4. \E new \in Seq(Item) :
        /\ Continues(r, new) /\ Later(new, old)
        /\ \A h : Deleted(new, h) => h = g /\ \A t \in Servers : server[t] = "present" => group[t] # h
  <2>1. CASE \E t \in Servers : server[t] = "present" /\ group[t] = g
    <3>1. Continues(r, Rest(r))
      BY <2>1 DEF Users
    <3>2. 2 \in 1 .. Len(old) /\ Rest(r)[1] = old[2] /\ 2 # Len(old)
      BY <1>2, <1>3
    <3>3. Rest(r)[1].op # "deleteGroup"
      BY <1>2, <3>2 DEF Shaped
    <3> QED BY <1>2, <3>1, <3>3 DEF Deleted
  <2>2. CASE ~\E t \in Servers : server[t] = "present" /\ group[t] = g
    <3> DEFINE new == Tail(Rest(r))
    <3>1. Continues(r, new)
      BY <2>2 DEF Users
    <3>2. new \in Seq(Item) /\ Later(new, old)
      BY <1>2, <1>3, SkipIsLater DEF Rest
    <3> HIDE DEF new
    <3>3. ASSUME NEW h, Deleted(new, h) PROVE h = g
      <4>1. new # <<>> /\ new[1].op = "deleteGroup" /\ new[1].on = h
        BY <3>3 DEF Deleted
      <4>2. PICK m \in 2 .. Len(old) : new[1] = old[m]
        <5>1. /\ Len(new) \in Nat /\ Len(new) >= 1
              /\ \E k \in 1 .. Len(old) : \A n \in 1 .. Len(new) :
                   new[n] = old[n + k] /\ n + k \in 2 .. Len(old)
          BY <1>2, <3>2, <4>1, LaterEnds
        <5> QED BY <5>1
      <4>3. m = Len(old)
        BY <1>2, <4>1, <4>2 DEF Shaped
      <4> QED BY <1>3, <4>1, <4>2, <4>3 DEF Last
    <3> QED BY <2>2, <3>1, <3>2, <3>3
  <2> QED BY <2>1, <2>2
<1>5. PICK new \in Seq(Item) :
        /\ Continues(r, new) /\ Later(new, old)
        /\ \A h : Deleted(new, h) => h = g /\ \A t \in Servers : server[t] = "present" => group[t] # h
  BY <1>4
<1>6. Moves(r, new) /\ Goes(new, old)
  BY <1>5, ContinuesMoves DEF RecordsInv, RequestsInv, Goes
<1>7. /\ TodosShaped' /\ OnesKnown' /\ OneInserts' /\ AgentsKnown' /\ AskedAreBusy'
      /\ DeletionsLeft' /\ GoneIsEmpty' /\ Gives(r, new)
  BY <1>1, <1>6, DataApart
<1>8. RecordsType'
  BY <1>1, <1>6 DEF RecordsInv, RequestsInv, RecordsType, Moves
<1>9. GroupsFound' /\ GroupsFreed'
  BY <1>1, <1>5, <1>7, GroupsKept
<1>10. ConfigKnown'
  <2>1. Last(old).op \notin ConfigOps
    BY <1>1, OthersSendNothing DEF RowOps, ConfigOps
  <2>2. \A t : ~Written(new, t) /\ ~Written(old, t)
    BY <1>2, <1>5, <2>1, LaterEnds DEF Written
  <2> QED BY <1>1, <1>7, <2>2, ConfigKept
<1> QED BY <1>7, <1>8, <1>9, <1>10 DEF RecordsInv, RequestsInv

LEMMA ClearStep ==
  ASSUME RecordsInv, NEW r \in Requests, Clear(r)
  PROVE  RecordsInv'
<1> DEFINE g == This(r).on
           old == req[r].todo
<1>1. /\ Busy(r) /\ This(r).op = "clear" /\ Succeeds(r)
      /\ group' = [s \in Servers |-> IF group[s] = g THEN None ELSE group[s]]
      /\ UNCHANGED <<server, conf, groups, stored, reported>>
      /\ UNCHANGED <<seen, agent, agentConf, down, up>> /\ UNCHANGED <<late, astray, torn>>
  BY DEF Clear, Doing, Busy, This, wire, history
<1>2. /\ old # <<>> /\ Len(old) \in Nat /\ Len(old) >= 1 /\ Shaped(old) /\ old[1] = This(r)
      /\ Moves(r, Rest(r)) /\ Gives(r, Rest(r)) /\ Goes(Rest(r), old)
      /\ \A n \in 2 .. Len(old) : n - 1 \in 1 .. Len(Rest(r)) /\ Rest(r)[n - 1] = old[n]
      /\ Rest(r) # <<>> => Last(Rest(r)) = Last(old)
  BY <1>1, DoneHas
<1>3. Len(old) = 2 /\ Last(old).on = g
  <2>1. 1 \in 1 .. Len(old)
    BY <1>2
  <2>2. \A n \in 1 .. Len(old) : old[n].op = "clear" => Len(old) = n + 1 /\ Last(old).on = old[n].on
    BY <1>2 DEF Shaped
  <2>3. old[1].op = "clear" /\ old[1].on = g
    BY <1>1, <1>2
  <2>4. Len(old) = 1 + 1 /\ Last(old).on = old[1].on
    BY <2>1, <2>2, <2>3
  <2> QED BY <2>3, <2>4
<1>4. /\ TodosShaped' /\ OnesKnown' /\ OneInserts' /\ AgentsKnown' /\ AskedAreBusy'
      /\ DeletionsLeft' /\ GoneIsEmpty'
  BY <1>1, <1>2, DataApart
<1>5. /\ group' \in [Servers -> Groups \cup {None}]
      /\ \A t \in Servers : group'[t] # g /\ (group'[t] = group[t] \/ group'[t] = None)
      /\ None \notin Groups
  <2>1. g \in Groups
    BY <1>1, DoneHas DEF Fits, GroupOps
  <2>2. group \in [Servers -> Groups \cup {None}] /\ None \notin Groups
    BY RecordsAssumption DEF RecordsInv, RequestsInv, RecordsType
  <2> QED BY <1>1, <2>1, <2>2
<1>6. RecordsType'
  BY <1>1, <1>2, <1>5 DEF RecordsInv, RequestsInv, RecordsType, Moves
<1>7. GroupsFound'
  <2> SUFFICES ASSUME NEW t \in Servers
               PROVE  /\ server'[t] = "present" =>
                           group'[t] \in {None} \cup torn' \cup {h \in Groups : groups'[h] = "present"}
                      /\ server'[t] = "unused" => group'[t] = None
    BY DEF GroupsFound, LiveGroups
  <2>1. /\ server[t] = "present" =>
             group[t] \in {None} \cup torn \cup {h \in Groups : groups[h] = "present"}
        /\ server[t] = "unused" => group[t] = None
    BY DEF RecordsInv, GroupsFound, LiveGroups
  <2> QED BY <1>1, <1>5, <2>1
<1>8. GroupsFreed'
  <2> SUFFICES ASSUME NEW p \in Requests, NEW h \in Groups \ torn, Deleted(req'[p].todo, h),
                      NEW t \in Servers, server[t] = "present"
               PROVE  group'[t] # h
    BY <1>1 DEF GroupsFreed
  <2>1. CASE p = r
    <3>1. Deleted(Rest(r), h)
      BY <1>2, <2>1 DEF Gives
    <3>2. 2 \in 2 .. Len(old) /\ Rest(r)[1] = old[2]
      BY <1>2, <1>3
    <3>3. h = g
      BY <1>3, <3>1, <3>2 DEF Deleted, Last
    <3> QED BY <1>5, <3>3
  <2>2. CASE p # r
    <3>1. group[t] # h
      BY <1>2, <2>2 DEF Gives, RecordsInv, GroupsFreed
    <3> QED BY <1>5, <3>1
  <2> QED BY <2>1, <2>2
<1>9. ConfigKnown'
  <2>1. Last(old).op \notin ConfigOps
    BY <1>1, OthersSendNothing DEF RowOps, ConfigOps
  <2>2. \A t : ~Written(Rest(r), t) /\ ~Written(old, t)
    BY <1>2, <2>1 DEF Written
  <2> QED BY <1>1, <1>2, <2>2, ConfigKept
<1> QED BY <1>4, <1>6, <1>7, <1>8, <1>9 DEF RecordsInv, RequestsInv

LEMMA GroupRowStep ==
  ASSUME RecordsInv, NEW r \in Requests, GroupRow(r)
  PROVE  RecordsInv'
<1> DEFINE g == This(r).on
           old == req[r].todo
<1>1. /\ Busy(r) /\ Succeeds(r)
      /\ This(r).op \in {"insertGroup", "findGroup", "saveGroup", "deleteGroup"}
      /\ UNCHANGED <<server, conf, group, stored, reported>>
      /\ UNCHANGED <<seen, agent, agentConf, down, up>> /\ UNCHANGED <<late, astray, torn>>
  BY DEF GroupRow, Doing, Busy, This, wire, history
<1>2. \/ This(r).op # "deleteGroup" /\ groups' = [groups EXCEPT ![g] = "present"]
      \/ This(r).op # "deleteGroup" /\ groups' = groups
      \/ This(r).op = "deleteGroup" /\ groups' = [groups EXCEPT ![g] = "gone"]
  BY DEF GroupRow, Doing, This
<1>3. /\ old # <<>> /\ Len(old) \in Nat /\ Len(old) >= 1 /\ Shaped(old) /\ old[1] = This(r)
      /\ Moves(r, Rest(r)) /\ Gives(r, Rest(r)) /\ Goes(Rest(r), old)
      /\ Rest(r) # <<>> => Last(Rest(r)) = Last(old)
      /\ \A h : ~Deleted(Rest(r), h)
  BY <1>1, DoneHas, NothingFreed
<1>4. g \in Groups
  BY <1>1, DoneHas DEF Fits, GroupOps
<1>5. /\ groups' \in [Groups -> {"unused", "present", "gone"}]
      /\ \A h \in Groups : groups[h] = "present" =>
           groups'[h] = "present" \/ (h = g /\ This(r).op = "deleteGroup")
  BY <1>2, <1>4 DEF RecordsInv, RequestsInv, RecordsType
<1>6. /\ TodosShaped' /\ OnesKnown' /\ OneInserts' /\ AgentsKnown' /\ AskedAreBusy'
      /\ DeletionsLeft' /\ GoneIsEmpty'
  BY <1>1, <1>3, DataApart
<1>7. RecordsType'
  BY <1>1, <1>3, <1>5 DEF RecordsInv, RequestsInv, RecordsType, Moves
<1>8. GroupsFound' /\ GroupsFreed'
  <2>1. ASSUME This(r).op = "deleteGroup"
        PROVE  g \in torn \/ \A s \in Servers : server[s] = "present" => group[s] # g
    BY <1>3, <1>4, <2>1 DEF RecordsInv, GroupsFreed, Deleted
  <2>2. \A h \in Groups : groups[h] = "present" =>
          \/ groups'[h] = "present"
          \/ h \in torn' \/ \A s \in Servers : server'[s] = "present" => group[s] # h
    BY <1>1, <1>5, <2>1
  <2> QED BY <1>1, <1>3, <2>2, GroupsKept
<1>9. ConfigKnown'
  <2>1. Last(old).op \notin ConfigOps
    BY <1>1, OthersSendNothing DEF RowOps, ConfigOps
  <2>2. \A t : ~Written(Rest(r), t) /\ ~Written(old, t)
    BY <1>3, <2>1 DEF Written
  <2> QED BY <1>1, <1>3, <2>2, ConfigKept
<1> QED BY <1>6, <1>7, <1>8, <1>9 DEF RecordsInv, RequestsInv

LEMMA FindNoGroupStep ==
  ASSUME RecordsInv, NEW r \in Requests, FindNoGroup(r)
  PROVE  RecordsInv'
<1> DEFINE old == req[r].todo
<1>1. /\ Busy(r) /\ This(r).op = "findGroup" /\ Continues(r, <<>>)
      /\ UNCHANGED <<server, conf, group, stored, reported>>
      /\ UNCHANGED <<seen, agent, agentConf, down, up>> /\ UNCHANGED <<late, astray, torn>>
  BY DEF FindNoGroup, Doing, Busy, This, wire, history
<1>2. /\ groups' \in [Groups -> {"unused", "present", "gone"}]
      /\ \A h \in Groups : groups[h] = "present" => groups'[h] = "present"
  <2>1. groups \in [Groups -> {"unused", "present", "gone"}]
    BY DEF RecordsInv, RequestsInv, RecordsType
  <2>2. \/ groups' = groups
        \/ \E g \in Groups : groups' = [groups EXCEPT ![g] = "present"]
    BY DEF FindNoGroup
  <2> QED BY <2>1, <2>2
<1>3. Moves(r, <<>>) /\ Goes(<<>>, old)
  BY <1>1, ContinuesMoves, TodoHas, EmptySeq DEF RecordsInv, RequestsInv, Goes
<1>4. /\ TodosShaped' /\ OnesKnown' /\ OneInserts' /\ AgentsKnown' /\ AskedAreBusy'
      /\ DeletionsLeft' /\ GoneIsEmpty' /\ Gives(r, <<>>)
  BY <1>1, <1>3, DataApart
<1>5. RecordsType'
  BY <1>1, <1>2, <1>3 DEF RecordsInv, RequestsInv, RecordsType, Moves
<1>6. GroupsFound' /\ GroupsFreed'
  <2>1. \A h : ~Deleted(<<>>, h)
    BY DEF Deleted
  <2> QED BY <1>1, <1>2, <1>4, <2>1, GroupsKept
<1>7. ConfigKnown'
  <2>1. \A t : ~Written(<<>>, t) /\ ~Written(old, t)
    BY <1>1, OthersSendNothing DEF RowOps, ConfigOps, Written
  <2> QED BY <1>1, <1>4, <2>1, ConfigKept
<1> QED BY <1>4, <1>5, <1>6, <1>7 DEF RecordsInv, RequestsInv

----------------------------------------------------------------------------
(* A statement that fails, and a request that is asked.                    *)
LEMMA FailStep ==
  ASSUME RecordsInv, NEW r \in Requests, Fail(r)
  PROVE  RecordsInv'
<1> DEFINE on == This(r).on
           op == This(r).op
           old == req[r].todo
<1>1. /\ Busy(r) /\ Fails(r)
      /\ UNCHANGED <<server, conf, group, groups, stored, reported>>
      /\ UNCHANGED <<seen, agent, agentConf, down, up>>
      /\ late' = IF op \in {"delete", "purge"} THEN late \cup {on} ELSE late
      /\ astray' = IF op \in ConfigOps THEN astray \cup {on} ELSE astray
      /\ torn' = IF op = "users" THEN torn \cup {on} ELSE torn
  BY DEF Fail, Busy, This, rows, wire, ConfigOps
<1>2. /\ old \in Seq(Item) /\ old # <<>> /\ Len(old) \in Nat /\ Len(old) >= 1 /\ Shaped(old)
      /\ old[1] = This(r) /\ Fits(old[1]) /\ 1 \in 1 .. Len(old)
  BY <1>1, TodoHas, ThisFits DEF RecordsInv, RequestsInv
<1>3. PICK new \in Seq(Item) :
        /\ Moves(r, new) /\ Later(new, old)
        /\ op \in {"insert", "update", "clear"} => new = <<>>
        /\ op \in {"delete", "purge"} => new = Rest(r)
        /\ op \in RowOps /\ Last(old).op \in ConfigOps => new # <<>>
  BY <1>1, FailMoves DEF RecordsInv
<1>4. Gives(r, new) /\ Goes(new, old)
  BY <1>3 DEF Moves, Gives, Goes
<1>5. /\ late' \subseteq Servers /\ astray' \subseteq Servers /\ torn' \subseteq Groups
      /\ late \subseteq late' /\ astray \subseteq astray' /\ torn \subseteq torn'
  <2>1. IF op \in GroupOps THEN on \in Groups ELSE on \in Servers
    BY <1>2 DEF Fits
  <2>2. op \in {"delete", "purge"} \cup ConfigOps => on \in Servers
    BY <2>1 DEF GroupOps, ConfigOps
  <2>3. op = "users" => on \in Groups
    BY <2>1 DEF GroupOps
  <2> QED BY <1>1, <2>2, <2>3 DEF RecordsInv, RequestsInv, RecordsType
<1>6. RequestsInv'
  <2>1. RecordsType'
    BY <1>1, <1>3, <1>5 DEF RecordsInv, RequestsInv, RecordsType, Moves
  <2>2. ServersMove(r)
    BY <1>1 DEF ServersMove
  <2>3. Inserting(r) => new = <<>>
    BY <1>2, <1>3 DEF Inserting
  <2>4. TodosShaped' /\ OnesKnown' /\ OneInserts' /\ AgentsKnown' /\ AskedAreBusy'
    BY <1>1, <1>3, <2>2, <2>3, StatementKeepsRequests DEF RecordsInv
  <2> QED BY <2>1, <2>4 DEF RequestsInv
<1>7. new # <<>> => Len(new) >= 1 /\ Last(new) = Last(old)
  BY <1>2, <1>3, LaterEnds
<1>8. LeftFor(new)
  <2> SUFFICES ASSUME NEW s \in Servers \ late', Deletes(new, s) PROVE FALSE
    BY DEF LeftFor
  <2>1. op \in {"delete", "purge", "deleteRow"}
    BY <1>2, <1>4, NotDeleting
  <2>2. Last(old).op = "deleteRow" /\ Last(old).on = s /\ new # <<>>
    BY <1>7 DEF Deletes
  <2>3. op # "deleteRow"
    <3> SUFFICES ASSUME op = "deleteRow" PROVE FALSE
      OBVIOUS
    <3>1. Len(old) = 1
      BY <1>2 DEF Shaped
    <3>2. Len(new) < Len(old) /\ Len(new) \in Nat
      BY <1>2, <1>3, LenProperties DEF Later
    <3> QED BY <1>7, <2>2, <3>1, <3>2
  <2>4. on = s
    BY <1>2, <2>2 DEF Shaped, ShapedDelete
  <2> QED BY <1>1, <2>1, <2>3, <2>4
<1>9. DeletionsLeft' /\ GoneIsEmpty'
  <2>1. WritesApart
    BY <1>1 DEF WritesApart
  <2> QED BY <1>1, <1>4, <1>5, <1>8, <2>1, DataKept, GoneKept
<1>10. GroupsFound' /\ GroupsFreed'
  <2>1. ASSUME NEW g \in Groups \ torn', Deleted(new, g) PROVE FALSE
    <3>1. op \in {"users", "clear"}
      BY <1>2, <1>4, <2>1, NotFreeing
    <3>2. op = "users" /\ new # <<>> /\ new[1].op = "deleteGroup" /\ new[1].on = g
      BY <1>3, <2>1, <3>1 DEF Deleted
    <3>3. PICK m \in 2 .. Len(old) : new[1] = old[m]
      <4>1. /\ Len(new) \in Nat /\ Len(new) >= 1
            /\ \E k \in 1 .. Len(old) : \A n \in 1 .. Len(new) :
                 new[n] = old[n + k] /\ n + k \in 2 .. Len(old)
        BY <1>2, <1>3, <3>2, LaterEnds
      <4> QED BY <4>1
    <3>4. m = Len(old) /\ Last(old).on = g
      BY <1>2, <3>2, <3>3 DEF Shaped, Last
    <3>5. Last(old).on = on
      BY <1>2, <3>2 DEF Shaped, ShapedDeleteGroup, First
    <3> QED BY <1>1, <2>1, <3>2, <3>4, <3>5
  <2> QED BY <1>1, <1>4, <1>5, <2>1, GroupsKept
<1>11. ConfigKnown'
  <2>1. ASSUME NEW s \in Servers \ astray'
        PROVE  /\ Written(new, s) <=> Written(old, s)
               /\ Written(new, s) => Last(new) = Last(old)
    <3>1. CASE op \in ConfigOps
      <4>1. Len(old) = 1 /\ Last(old).on = on
        BY <1>2, <3>1 DEF Shaped, Last
      <4>2. s # on
        BY <1>1, <2>1, <3>1
      <4> QED BY <1>7, <4>1, <4>2 DEF Written
    <3>2. CASE op = "update"
      BY <1>2, <1>3, <3>2 DEF Written
    <3>3. CASE op \notin ConfigOps \cup {"update"}
      <4>1. Last(old).op \in ConfigOps => new # <<>>
        BY <1>1, <1>3, <3>3, OthersSendNothing
      <4> QED BY <1>2, <1>4, <3>3, <4>1, KeepsWritten
    <3> QED BY <3>1, <3>2, <3>3
  <2> QED BY <1>1, <1>4, <1>5, <2>1, ConfigKept
<1> QED BY <1>6, <1>9, <1>10, <1>11 DEF RecordsInv

LEMMA AskStep ==
  ASSUME RecordsInv, NEW r \in Requests, NEW g \in Groups \cup {None}, NEW q \in Seq(Item),
         ~req[r].asked, Ask(r, g, q), Started(q)
  PROVE  RecordsInv'
<1> DEFINE made == [asked |-> TRUE, group |-> g, todo |-> q]
<1>1. /\ ~req[r].asked /\ req' = [req EXCEPT ![r] = made]
      /\ UNCHANGED <<server, conf, group, groups, stored, reported>>
      /\ UNCHANGED <<seen, agent, agentConf, down, up>> /\ UNCHANGED <<late, astray, torn>>
  BY DEF Ask, rows, wire, history
<1>2. made \in Request /\ made.asked = TRUE /\ made.todo = q
  BY DEF Request
<1> HIDE DEF made
<1>3. /\ req' \in [Requests -> Request] /\ req'[r].todo = q /\ req'[r].asked = TRUE
      /\ \A p \in Requests \ {r} : req'[p] = req[p]
  BY <1>1, <1>2 DEF RecordsInv, RequestsInv, RecordsType
<1>4. Gives(r, q)
  BY <1>3 DEF Gives
<1>5. req[r].todo = <<>>
  BY <1>1 DEF RecordsInv, RequestsInv, AskedAreBusy, Busy
<1>6. RecordsType'
  BY <1>1, <1>3 DEF RecordsInv, RequestsInv, RecordsType
<1>7. TodosShaped' /\ AgentsKnown' /\ AskedAreBusy'
  <2>1. TodosShaped'
    BY <1>3 DEF TodosShaped, RecordsInv, RequestsInv, Started
  <2>2. AgentsKnown'
    BY <1>1 DEF AgentsKnown, Heard, RecordsInv, RequestsInv
  <2>3. AskedAreBusy'
    BY <1>3 DEF AskedAreBusy, Busy, RecordsInv, RequestsInv
  <2> QED BY <2>1, <2>2, <2>3
<1>8. OnesKnown'
  <2> SUFFICES ASSUME NEW p \in Requests, NEW n \in 1 .. Len(req'[p].todo),
                      req'[p].todo[n].op \in AgentOps
               PROVE  \/ server[req'[p].todo[n].on] # "unused"
                      \/ /\ req'[p].todo[1].op = "insert"
                         /\ req'[p].todo[1].on = req'[p].todo[n].on
    BY <1>1 DEF OnesKnown
  <2>1. CASE p = r
    BY <1>3, <2>1 DEF Started
  <2>2. CASE p # r
    BY <1>3, <2>2 DEF OnesKnown, RecordsInv, RequestsInv
  <2> QED BY <2>1, <2>2
<1>9. OneInserts'
  <2>1. ASSUME NEW p \in Requests \ {r}, Inserting(p), q[1].op = "insert"
        PROVE  req[p].todo[1].on # q[1].on
    <3>1. req[p].todo \in Seq(Item) /\ req[p].todo # <<>> /\ req[p].todo[1].op = "insert"
      BY <2>1 DEF RecordsInv, RequestsInv, RecordsType, Request, Inserting, Busy
    <3>2. 1 \in 1 .. Len(req[p].todo)
      BY <3>1, EmptySeq
    <3>3. Some("insert", req[p].todo[1].on)
      BY <3>1, <3>2, SomeIs DEF RecordsInv, RequestsInv
    <3> QED BY <2>1, <3>3 DEF Started
  <2> SUFFICES ASSUME NEW p \in Requests, req'[p].todo # <<>>, req'[p].todo[1].op = "insert"
               PROVE  /\ server[req'[p].todo[1].on] = "unused"
                      /\ \A t \in Requests \ {p} :
                           req'[t].todo # <<>> /\ req'[t].todo[1].op = "insert" =>
                             req'[t].todo[1].on # req'[p].todo[1].on
    BY <1>1 DEF OneInserts, Inserting, Busy
  <2>2. CASE p = r
    BY <1>3, <2>1, <2>2 DEF Started, Inserting, Busy
  <2>3. CASE p # r
    <3>1. /\ Inserting(p) /\ req'[p] = req[p] /\ server[req[p].todo[1].on] = "unused"
          /\ \A t \in Requests \ {p} : Inserting(t) => req[t].todo[1].on # req[p].todo[1].on
      BY <1>3, <2>3 DEF RecordsInv, RequestsInv, OneInserts, Inserting, Busy
    <3> QED BY <1>3, <2>1, <2>3, <3>1 DEF Inserting, Busy
  <2> QED BY <2>2, <2>3
<1>10. DeletionsLeft' /\ GoneIsEmpty'
  <2>1. WritesApart
    BY <1>1 DEF WritesApart
  <2>2. LeftFor(q)
    <3> SUFFICES ASSUME NEW s \in Servers, Deletes(q, s)
                 PROVE  /\ \A k \in Kinds : StillToDelete(q, "delete", k)
                        /\ \A t \in reported[s] : t \in Logs \/ StillToDelete(q, "purge", t)
      BY <1>1 DEF LeftFor
    <3>1. reported[s] \subseteq Tables \cup Logs
      BY DEF RecordsInv, RequestsInv, RecordsType
    <3> QED BY <3>1 DEF Started, Deletes
  <2> QED BY <1>1, <1>4, <2>1, <2>2, DataKept, GoneKept
<1>11. GroupsFound' /\ GroupsFreed'
  <2>1. \A h : ~Deleted(q, h)
    BY DEF Started, Deleted
  <2> QED BY <1>1, <1>4, <2>1, GroupsKept
<1>12. ConfigKnown'
  <2>1. \A s : ~Written(q, s) /\ ~Written(req[r].todo, s)
    BY <1>5 DEF Started, Written
  <2> QED BY <1>1, <1>4, <2>1, ConfigKept
<1> QED BY <1>6, <1>7, <1>8, <1>9, <1>10, <1>11, <1>12 DEF RecordsInv, RequestsInv

LEMMA WorkSteps ==
  ASSUME RecordsInv, NEW r \in Requests, Asks(r) \/ Works(r)
  PROVE  RecordsInv'
<1>1. CASE Asks(r)
  <2>1. ~req[r].asked
    BY <1>1 DEF Asks
  <2> QED BY <1>1, <2>1, AsksStart, AskStep DEF RecordsInv
<1>2. CASE Insert(r) \/ Update(r) \/ ReadConfig(r) \/ SendConfig(r)
  BY <1>2, InsertStep, UpdateStep, ReadConfigStep, SendConfigStep
<1>3. CASE Put(r) \/ Create(r) \/ SaveRule(r) \/ LookUp(r) \/ ReadRule(r)
  BY <1>3, PutStep, CreateStep, LookUpStep, ReadRuleStep
<1>4. CASE Delete(r) \/ Purge(r) \/ DeleteRow(r)
  BY <1>4, DeleteStep, PurgeStep, DeleteRowStep
<1>5. CASE Users(r) \/ Clear(r) \/ GroupRow(r) \/ FindNoGroup(r) \/ Fail(r)
  BY <1>5, UsersStep, ClearStep, GroupRowStep, FindNoGroupStep, FailStep
<1> QED BY <1>1, <1>2, <1>3, <1>4, <1>5 DEF Works

----------------------------------------------------------------------------
(* The agents.  What does not touch the requests, the servers and their    *)
(* groups, keeps what the invariant says of them.                          *)
LEMMA RequestsApart ==
  ASSUME RecordsInv, UNCHANGED <<server, group, groups, req, torn>>, RecordsType',
         \A s \in Heard' : server[s] # "unused"
  PROVE  RequestsInv' /\ GroupsFound' /\ GroupsFreed'
<1>1. TodosShaped' /\ OnesKnown' /\ OneInserts' /\ AgentsKnown' /\ AskedAreBusy'
  <2>1. TodosShaped'
    BY DEF TodosShaped, RecordsInv, RequestsInv
  <2>2. OnesKnown'
    BY DEF OnesKnown, RecordsInv, RequestsInv
  <2>3. OneInserts'
    BY DEF OneInserts, Inserting, Busy, RecordsInv, RequestsInv
  <2>4. AgentsKnown' /\ AskedAreBusy'
    BY DEF AgentsKnown, AskedAreBusy, Busy, RecordsInv, RequestsInv
  <2> QED BY <2>1, <2>2, <2>3, <2>4
<1>2. GroupsFound' /\ GroupsFreed'
  BY DEF GroupsFound, LiveGroups, GroupsFreed, RecordsInv
<1> QED BY <1>1, <1>2 DEF RequestsInv

LEMMA StoredApart ==
  ASSUME RecordsInv, UNCHANGED <<server, stored, reported, req, late>>
  PROVE  DeletionsLeft' /\ GoneIsEmpty'
BY DEF DeletionsLeft, GoneIsEmpty, RecordsInv

(* Only one server's configuration is concerned.                           *)
LEMMA ConfigApart ==
  ASSUME RecordsInv, NEW s \in Servers, UNCHANGED req, astray \subseteq astray',
         \A t \in Servers \ {s} : /\ server'[t] = server[t]
                                  /\ conf'[t] = conf[t] /\ agentConf'[t] = agentConf[t]
                                  /\ down'[t] = down[t] /\ up'[t] = up[t],
         s \in astray' \/ server'[s] = "gone" \/ ConfigTravels(s)'
  PROVE  ConfigKnown'
<1> SUFFICES ASSUME NEW t \in Servers \ astray', server'[t] # "gone"
             PROVE  ConfigTravels(t)'
  BY DEF ConfigKnown
<1>1. CASE t = s
  BY <1>1
<1>2. CASE t # s
  <2>1. ConfigTravels(t)
    BY <1>2 DEF RecordsInv, ConfigKnown
  <2> QED BY <1>2, <2>1 DEF ConfigTravels
<1> QED BY <1>1, <1>2

LEMMA AuthenticateStep ==
  ASSUME RecordsInv, NEW s \in Servers, Authenticate(s)
  PROVE  RecordsInv'
<1> DEFINE row == [step |-> "save", conf |-> conf[s], group |-> group[s]]
<1>1. /\ server[s] = "present"
      /\ \/ seen' = [seen EXCEPT ![s] = row] /\ agent' = agent
         \/ seen' = seen /\ agent' = agent \cup {s}
      /\ UNCHANGED <<server, conf, group, groups, stored, reported, req>>
      /\ UNCHANGED <<agentConf, down, up>> /\ UNCHANGED <<late, astray, torn>>
  BY DEF Authenticate, rows, history
<1>2. row \in Seen
  BY DEF Seen, RecordsInv, RequestsInv, RecordsType
<1> HIDE DEF row
<1>3. RecordsType'
  <2>1. seen' \in [Servers -> Seen] /\ agent' \subseteq Servers
    BY <1>1, <1>2 DEF RecordsInv, RequestsInv, RecordsType
  <2> QED BY <1>1, <2>1 DEF RecordsInv, RequestsInv, RecordsType
<1>4. \A t \in Heard' : server[t] # "unused"
  <2>1. \A t \in Servers \ {s} : seen'[t] = seen[t]
    BY <1>1 DEF RecordsInv, RequestsInv, RecordsType
  <2> QED BY <1>1, <2>1 DEF RecordsInv, RequestsInv, AgentsKnown, Heard
<1>5. RequestsInv' /\ GroupsFound' /\ GroupsFreed'
  BY <1>1, <1>3, <1>4, RequestsApart
<1>6. DeletionsLeft' /\ GoneIsEmpty'
  BY <1>1, StoredApart
<1>7. ConfigKnown'
  BY <1>1 DEF ConfigKnown, ConfigTravels, RecordsInv
<1> QED BY <1>5, <1>6, <1>7 DEF RecordsInv

(* A row that comes back has what it had, but no configuration one could   *)
(* rely on.                                                                *)
LEMMA SaveRowStep ==
  ASSUME RecordsInv, NEW s \in Servers, SaveRow(s)
  PROVE  RecordsInv'
<1> DEFINE row == seen[s]
<1>1. /\ row.step = "save" /\ seen' = [seen EXCEPT ![s] = Out]
      /\ agent' \in {agent, agent \cup {s}}
      /\ UNCHANGED <<groups, stored, reported, req>>
      /\ UNCHANGED <<agentConf, down, up>> /\ UNCHANGED late
  BY DEF SaveRow
<1>2. \/ /\ server' = [server EXCEPT ![s] = "present"]
         /\ conf' = [conf EXCEPT ![s] = row.conf]
         /\ group' = [group EXCEPT ![s] = row.group]
         /\ Tears(row.group)
         /\ astray' = IF server[s] = "gone" \/ conf[s] # row.conf
                      THEN astray \cup {s} ELSE astray
      \/ UNCHANGED <<server, conf, group, torn, astray>>
  BY DEF SaveRow
<1>3. /\ row.conf \in Values /\ row.group \in Groups \cup {None} /\ s \in Heard
      /\ server[s] # "unused" /\ server[s] \in {"unused", "present", "gone"}
  BY <1>1 DEF RecordsInv, RequestsInv, RecordsType, Seen, AgentsKnown, Heard, Out
<1> HIDE DEF row
<1>4. /\ server' \in [Servers -> {"unused", "present", "gone"}]
      /\ conf' \in [Servers -> Values] /\ group' \in [Servers -> Groups \cup {None}]
      /\ \A t \in Servers \ {s} :
           server'[t] = server[t] /\ conf'[t] = conf[t] /\ group'[t] = group[t]
      /\ server'[s] # "unused"
      /\ astray' \subseteq Servers /\ astray \subseteq astray'
      /\ \/ s \in astray'
         \/ server'[s] = server[s] /\ conf'[s] = conf[s]
  BY <1>2, <1>3 DEF RecordsInv, RequestsInv, RecordsType
<1>5. torn' \subseteq Groups /\ GroupsFound' /\ GroupsFreed'
  <2>1. CASE UNCHANGED <<server, conf, group, torn, astray>>
    <3>1. GroupsFound' /\ GroupsFreed'
      BY <1>1, <2>1 DEF GroupsFound, LiveGroups, GroupsFreed, RecordsInv
    <3> QED BY <2>1, <3>1 DEF RecordsInv, RequestsInv, RecordsType
  <2>2. CASE /\ server' = [server EXCEPT ![s] = "present"]
             /\ group' = [group EXCEPT ![s] = row.group] /\ Tears(row.group)
    <3>1. server'[s] = "present" /\ group'[s] = row.group
      BY <2>2 DEF RecordsInv, RequestsInv, RecordsType
    <3>2. \A p \in Requests : \A h : Deleted(req'[p].todo, h) => Deleted(req[p].todo, h)
      BY <1>1
    <3> QED BY <1>1, <1>3, <1>4, <2>2, <3>1, <3>2, GroupWritten
  <2> QED BY <1>2, <2>1, <2>2
<1>6. RequestsInv'
  <2>1. RecordsType'
    <3>1. seen' \in [Servers -> Seen] /\ agent' \subseteq Servers
      <4>1. Out \in Seen
        BY DEF Out, Seen, Values
      <4> QED BY <1>1, <4>1 DEF RecordsInv, RequestsInv, RecordsType
    <3>2. \A t \in Servers : server'[t] = "unused" => server[t] = "unused"
      BY <1>4
    <3> QED BY <1>1, <1>4, <1>5, <3>1, <3>2 DEF RecordsInv, RequestsInv, RecordsType
  <2>2. AgentsKnown'
    <3>1. \A t \in Heard' : t \in Heard
      BY <1>1, <1>3 DEF RecordsInv, RequestsInv, RecordsType, Heard
    <3> QED BY <1>3, <1>4, <3>1 DEF RecordsInv, RequestsInv, RecordsType, AgentsKnown, Heard
  <2>3. TodosShaped' /\ AskedAreBusy'
    BY <1>1 DEF TodosShaped, AskedAreBusy, Busy, RecordsInv, RequestsInv
  <2>4. OnesKnown'
    <3> SUFFICES ASSUME NEW r \in Requests, NEW n \in 1 .. Len(req[r].todo),
                        req[r].todo[n].op \in AgentOps
                 PROVE  \/ server'[req[r].todo[n].on] # "unused"
                        \/ /\ req[r].todo[1].op = "insert"
                           /\ req[r].todo[1].on = req[r].todo[n].on
      BY <1>1 DEF OnesKnown
    <3>1. req[r].todo[n].on \in Servers
      <4>1. Fits(req[r].todo[n])
        BY DEF RecordsInv, RequestsInv, TodosShaped, Shaped
      <4> QED BY <4>1 DEF Fits, AgentOps, GroupOps, RowOps, ConfigOps
    <3> QED BY <1>4, <3>1 DEF RecordsInv, RequestsInv, OnesKnown
  <2>5. OneInserts'
    <3> SUFFICES ASSUME NEW r \in Requests, Inserting(r)
                 PROVE  /\ server'[req[r].todo[1].on] = "unused"
                        /\ \A p \in Requests \ {r} :
                             Inserting(p) => req[p].todo[1].on # req[r].todo[1].on
      BY <1>1 DEF OneInserts, Inserting, Busy
    <3>1. /\ server[req[r].todo[1].on] = "unused"
          /\ \A p \in Requests \ {r} :
               Inserting(p) => req[p].todo[1].on # req[r].todo[1].on
      BY DEF RecordsInv, RequestsInv, OneInserts
    <3>2. Fits(req[r].todo[1]) /\ req[r].todo[1].op = "insert"
      BY TodoHas, ThisFits DEF Inserting, RecordsInv, RequestsInv
    <3>3. req[r].todo[1].on \in Servers \ {s}
      BY <1>3, <3>1, <3>2 DEF Fits, GroupOps
    <3> QED BY <1>4, <3>1, <3>3
  <2> QED BY <2>1, <2>2, <2>3, <2>4, <2>5 DEF RequestsInv
<1>7. DeletionsLeft' /\ GoneIsEmpty'
  <2>1. DeletionsLeft'
    BY <1>1 DEF DeletionsLeft, RecordsInv
  <2>2. \A t \in Servers : server'[t] = "gone" => server[t] = "gone"
    BY <1>2, <1>4 DEF RecordsInv, RequestsInv, RecordsType
  <2> QED BY <1>1, <2>1, <2>2 DEF GoneIsEmpty, RecordsInv
<1>8. ConfigKnown'
  <2>1. ASSUME s \notin astray', server'[s] # "gone" PROVE ConfigTravels(s)'
    <3>1. server'[s] = server[s] /\ conf'[s] = conf[s] /\ s \notin astray
      BY <1>4, <2>1
    <3>2. ConfigTravels(s)
      BY <2>1, <3>1 DEF RecordsInv, ConfigKnown
    <3> QED BY <1>1, <3>1, <3>2 DEF ConfigTravels
  <2> QED BY <1>1, <1>4, <2>1, ConfigApart
<1> QED BY <1>5, <1>6, <1>7, <1>8 DEF RecordsInv

LEMMA DisconnectStep ==
  ASSUME RecordsInv, NEW s \in Servers, Disconnect(s)
  PROVE  RecordsInv'
<1>1. /\ s \in agent /\ agent' = agent \ {s}
      /\ down' = [down EXCEPT ![s] = <<>>] /\ up' = [up EXCEPT ![s] = <<>>]
      /\ astray' = IF down[s] # <<>> THEN astray \cup {s} ELSE astray
      /\ UNCHANGED <<server, conf, group, groups, stored, reported, req>>
      /\ UNCHANGED <<seen, agentConf>> /\ UNCHANGED <<late, torn>>
  BY DEF Disconnect, rows
<1>2. /\ down' \in [Servers -> Seq(Values)] /\ up' \in [Servers -> Seq(Values)]
      /\ down'[s] = <<>> /\ up'[s] = <<>>
      /\ \A t \in Servers \ {s} : down'[t] = down[t] /\ up'[t] = up[t]
  <2>1. down \in [Servers -> Seq(Values)] /\ up \in [Servers -> Seq(Values)]
    BY DEF RecordsInv, RequestsInv, RecordsType
  <2>2. <<>> \in Seq(Values)
    BY EmptySeq
  <2> QED BY <1>1, <2>1, <2>2
<1>3. RecordsType'
  BY <1>1, <1>2 DEF RecordsInv, RequestsInv, RecordsType
<1>4. \A t \in Heard' : server[t] # "unused"
  BY <1>1 DEF RecordsInv, RequestsInv, AgentsKnown, Heard
<1>5. RequestsInv' /\ GroupsFound' /\ GroupsFreed'
  BY <1>1, <1>3, <1>4, RequestsApart
<1>6. DeletionsLeft' /\ GoneIsEmpty'
  BY <1>1, StoredApart
<1>7. ConfigKnown'
  <2>1. ASSUME s \notin astray', server[s] # "gone" PROVE ConfigTravels(s)'
    <3>1. down[s] = <<>> /\ s \notin astray
      BY <1>1, <2>1
    <3>2. ConfigTravels(s)
      BY <2>1, <3>1 DEF RecordsInv, ConfigKnown
    <3> QED BY <1>1, <1>2, <3>1, <3>2 DEF ConfigTravels
  <2> QED BY <1>1, <1>2, <2>1, ConfigApart
<1> QED BY <1>5, <1>6, <1>7 DEF RecordsInv

LEMMA ConfigureStep ==
  ASSUME RecordsInv, NEW s \in Servers, Configure(s)
  PROVE  RecordsInv'
<1>1. /\ down[s] # <<>> /\ agentConf' = [agentConf EXCEPT ![s] = Filled(Head(down[s]), agentConf[s])]
      /\ down' = [down EXCEPT ![s] = Tail(down[s])]
      /\ UNCHANGED <<server, conf, group, groups, stored, reported, req>>
      /\ UNCHANGED <<seen, agent, up>> /\ UNCHANGED <<late, astray, torn>>
  BY DEF Configure, rows, history
<1>2. /\ down' \in [Servers -> Seq(Values)] /\ agentConf' \in [Servers -> Values]
      /\ down'[s] = Tail(down[s]) /\ agentConf'[s] = Filled(Head(down[s]), agentConf[s])
      /\ \A t \in Servers \ {s} : down'[t] = down[t] /\ agentConf'[t] = agentConf[t]
  <2>1. /\ down \in [Servers -> Seq(Values)] /\ agentConf \in [Servers -> Values]
        /\ down[s] \in Seq(Values)
    BY DEF RecordsInv, RequestsInv, RecordsType
  <2>2. Filled(Head(down[s]), agentConf[s]) \in Values /\ Tail(down[s]) \in Seq(Values)
    BY <1>1, <2>1, HeadTailProperties DEF Filled
  <2> QED BY <1>1, <2>1, <2>2
<1>3. RecordsType'
  BY <1>1, <1>2 DEF RecordsInv, RequestsInv, RecordsType
<1>4. \A t \in Heard' : server[t] # "unused"
  BY <1>1 DEF RecordsInv, RequestsInv, AgentsKnown, Heard
<1>5. RequestsInv' /\ GroupsFound' /\ GroupsFreed'
  BY <1>1, <1>3, <1>4, RequestsApart
<1>6. DeletionsLeft' /\ GoneIsEmpty'
  BY <1>1, StoredApart
<1>7. ConfigKnown'
  <2>1. ASSUME s \notin astray, server[s] # "gone" PROVE ConfigTravels(s)'
    <3>1. ConfigTravels(s)
      BY <2>1 DEF RecordsInv, ConfigKnown
    <3>2. /\ down[s] = <<conf[s]>> /\ up[s] = <<>>
          /\ \A p \in Requests : ~Written(req[p].todo, s)
      BY <1>1, <3>1 DEF ConfigTravels
    <3>3. down'[s] = <<>> /\ conf[s] \in {agentConf'[s], Empty}
      BY <1>2, <3>2 DEF Filled
    <3> QED BY <1>1, <3>2, <3>3 DEF ConfigTravels
  <2> QED BY <1>1, <1>2, <2>1, ConfigApart
<1> QED BY <1>5, <1>6, <1>7 DEF RecordsInv

LEMMA NobodyConfigures ==
  ASSUME RecordsInv, NEW s, ~Configuring(s), NEW p \in Requests
  PROVE  ~Written(req[p].todo, s)
<1> SUFFICES ASSUME Written(req[p].todo, s) PROVE FALSE
  OBVIOUS
<1>1. req[p].todo \in Seq(Item) /\ req[p].todo # <<>>
  BY DEF RecordsInv, RequestsInv, RecordsType, Request, Written
<1>2. Len(req[p].todo) \in 1 .. Len(req[p].todo)
  BY <1>1, EmptySeq
<1>3. Some("readConfig", s) \/ Some("sendConfig", s)
  BY <1>2, SomeIs DEF RecordsInv, RequestsInv, Written, Last, ConfigOps
<1> QED BY <1>3 DEF Configuring

LEMMA ReportConfigStep ==
  ASSUME RecordsInv, NEW s \in Servers, ReportConfig(s)
  PROVE  RecordsInv'
<1>1. /\ s \in agent /\ up[s] = <<>> /\ up' = [up EXCEPT ![s] = <<agentConf[s]>>]
      /\ astray' = IF Configuring(s) \/ down[s] # <<>> THEN astray \cup {s} ELSE astray
      /\ UNCHANGED <<server, conf, group, groups, stored, reported, req>>
      /\ UNCHANGED <<seen, agent, agentConf, down>> /\ UNCHANGED <<late, torn>>
  BY DEF ReportConfig, rows
<1>2. /\ up' \in [Servers -> Seq(Values)] /\ up'[s] = <<agentConf[s]>>
      /\ \A t \in Servers \ {s} : up'[t] = up[t]
  <2>1. up \in [Servers -> Seq(Values)] /\ agentConf[s] \in Values
    BY DEF RecordsInv, RequestsInv, RecordsType
  <2>2. <<agentConf[s]>> \in Seq(Values)
    BY <2>1
  <2> QED BY <1>1, <2>1, <2>2
<1>3. RecordsType'
  BY <1>1, <1>2 DEF RecordsInv, RequestsInv, RecordsType
<1>4. \A t \in Heard' : server[t] # "unused"
  BY <1>1 DEF RecordsInv, RequestsInv, AgentsKnown, Heard
<1>5. RequestsInv' /\ GroupsFound' /\ GroupsFreed'
  BY <1>1, <1>3, <1>4, RequestsApart
<1>6. DeletionsLeft' /\ GoneIsEmpty'
  BY <1>1, StoredApart
<1>7. ConfigKnown'
  <2>1. ASSUME s \notin astray', server[s] # "gone" PROVE ConfigTravels(s)'
    <3>1. ~Configuring(s) /\ down[s] = <<>> /\ s \notin astray
      BY <1>1, <2>1
    <3>2. ConfigTravels(s) /\ \A p \in Requests : ~Written(req[p].todo, s)
      BY <2>1, <3>1, NobodyConfigures DEF RecordsInv, ConfigKnown
    <3>3. up'[s] = <<agentConf[s]>>
      BY <1>2
    <3> QED BY <1>1, <3>1, <3>2, <3>3 DEF ConfigTravels
  <2> QED BY <1>1, <1>2, <2>1, ConfigApart
<1> QED BY <1>5, <1>6, <1>7 DEF RecordsInv

LEMMA HandleAgentConfigStep ==
  ASSUME RecordsInv, NEW s \in Servers, HandleAgentConfig(s)
  PROVE  RecordsInv'
<1>1. /\ up[s] # <<>> /\ up' = [up EXCEPT ![s] = Tail(up[s])]
      /\ conf' = [conf EXCEPT ![s] = Filled(Head(up[s]), conf[s])] \/ UNCHANGED conf
      /\ UNCHANGED <<server, group, groups, stored, reported, req>>
      /\ UNCHANGED <<seen, agent, agentConf, down>> /\ UNCHANGED <<late, astray, torn>>
  BY DEF HandleAgentConfig, history
<1>2. /\ up' \in [Servers -> Seq(Values)] /\ conf' \in [Servers -> Values]
      /\ up'[s] = Tail(up[s]) /\ (conf'[s] = Filled(Head(up[s]), conf[s]) \/ conf'[s] = conf[s])
      /\ \A t \in Servers \ {s} : up'[t] = up[t] /\ conf'[t] = conf[t]
  <2>1. /\ up \in [Servers -> Seq(Values)] /\ conf \in [Servers -> Values]
        /\ up[s] \in Seq(Values)
    BY DEF RecordsInv, RequestsInv, RecordsType
  <2>2. Filled(Head(up[s]), conf[s]) \in Values /\ Tail(up[s]) \in Seq(Values)
    BY <1>1, <2>1, HeadTailProperties DEF Filled
  <2> QED BY <1>1, <2>1, <2>2
<1>3. RecordsType'
  BY <1>1, <1>2 DEF RecordsInv, RequestsInv, RecordsType
<1>4. \A t \in Heard' : server[t] # "unused"
  BY <1>1 DEF RecordsInv, RequestsInv, AgentsKnown, Heard
<1>5. RequestsInv' /\ GroupsFound' /\ GroupsFreed'
  BY <1>1, <1>3, <1>4, RequestsApart
<1>6. DeletionsLeft' /\ GoneIsEmpty'
  BY <1>1, StoredApart
<1>7. ConfigKnown'
  <2>1. ASSUME s \notin astray, server[s] # "gone" PROVE ConfigTravels(s)'
    <3>1. ConfigTravels(s)
      BY <2>1 DEF RecordsInv, ConfigKnown
    <3>2. /\ up[s] = <<agentConf[s]>> /\ down[s] = <<>> /\ conf[s] \in {agentConf[s], Empty}
          /\ \A p \in Requests : ~Written(req[p].todo, s)
      BY <1>1, <3>1 DEF ConfigTravels
    <3>3. up'[s] = <<>> /\ conf'[s] \in {agentConf[s], Empty}
      BY <1>2, <3>2 DEF Filled
    <3> QED BY <1>1, <3>1, <3>2, <3>3 DEF ConfigTravels
  <2> QED BY <1>1, <1>2, <2>1, ConfigApart
<1> QED BY <1>5, <1>6, <1>7 DEF RecordsInv

LEMMA StoreReportStep ==
  ASSUME RecordsInv, NEW s \in Servers, NEW t \in Tables \cup Logs, StoreReport(s, t)
  PROVE  RecordsInv'
<1>1. /\ s \in agent /\ reported' = [reported EXCEPT ![s] = reported[s] \cup {t}]
      /\ late' = IF server[s] = "gone" \/ Deleting(s) THEN late \cup {s} ELSE late
      /\ UNCHANGED <<server, conf, group, groups, stored, req>>
      /\ UNCHANGED <<seen, agent, agentConf, down, up>> /\ UNCHANGED <<astray, torn>>
  BY DEF StoreReport, wire
<1>2. /\ reported' \in [Servers -> SUBSET (Tables \cup Logs)]
      /\ \A u \in Servers \ {s} : reported'[u] = reported[u]
      /\ server[s] # "unused" /\ late' \subseteq Servers /\ late \subseteq late'
      /\ s \notin late' => server[s] # "gone" /\ ~Deleting(s)
  BY <1>1 DEF RecordsInv, RequestsInv, RecordsType, AgentsKnown, Heard
<1>3. RecordsType'
  BY <1>1, <1>2 DEF RecordsInv, RequestsInv, RecordsType
<1>4. \A u \in Heard' : server[u] # "unused"
  BY <1>1 DEF RecordsInv, RequestsInv, AgentsKnown, Heard
<1>5. RequestsInv' /\ GroupsFound' /\ GroupsFreed'
  BY <1>1, <1>3, <1>4, RequestsApart
<1>6. DeletionsLeft'
  <2> SUFFICES ASSUME NEW p \in Requests, NEW u \in Servers \ late', Deletes(req[p].todo, u)
               PROVE  /\ \A k \in Kinds : stored[u][k] = None \/ StillToDelete(req[p].todo, "delete", k)
                      /\ \A x \in reported'[u] : x \in Logs \/ StillToDelete(req[p].todo, "purge", x)
    BY <1>1 DEF DeletionsLeft
  <2>1. u # s
    BY <1>2, NobodyDeletes
  <2> QED BY <1>2, <2>1 DEF RecordsInv, DeletionsLeft
<1>7. GoneIsEmpty'
  BY <1>1, <1>2 DEF RecordsInv, GoneIsEmpty
<1>8. ConfigKnown'
  BY <1>1 DEF RecordsInv, ConfigKnown, ConfigTravels
<1> QED BY <1>5, <1>6, <1>7, <1>8 DEF RecordsInv

----------------------------------------------------------------------------
LEMMA RecordsStarts ==
  ASSUME RecordsInit
  PROVE  RecordsInv
<1> DEFINE idle == [asked |-> FALSE, group |-> None, todo |-> <<>>]
<1>1. /\ server \in [Servers -> {"unused", "present"}]
      /\ conf = [s \in Servers |-> None] /\ group = [s \in Servers |-> None]
      /\ groups \in [Groups -> {"unused", "present"}]
      /\ stored = [s \in Servers |-> [k \in Kinds |-> None]]
      /\ reported = [s \in Servers |-> {}] /\ req = [r \in Requests |-> idle]
      /\ seen = [s \in Servers |-> Out] /\ agent = {} /\ agentConf = [s \in Servers |-> None]
      /\ down = [s \in Servers |-> <<>>] /\ up = [s \in Servers |-> <<>>]
      /\ late = {} /\ astray = {} /\ torn = {}
  BY DEF RecordsInit
<1>2. idle \in Request /\ idle.todo = <<>>
  <2>1. <<>> \in Seq(Item)
    BY EmptySeq
  <2> QED BY <2>1 DEF Request
<1> HIDE DEF idle
<1>3. req \in [Requests -> Request] /\ \A r \in Requests : req[r].todo = <<>>
  BY <1>1, <1>2
<1>4. None \in Values /\ <<>> \in Seq(Values) /\ Out \in Seen
  BY EmptySeq DEF Values, Out, Seen
<1>5. RecordsType
  BY <1>1, <1>3, <1>4 DEF RecordsType
<1>6. TodosShaped /\ OnesKnown
  <2>1. \A n : n \notin 1 .. Len(<<>>)
    BY EmptySeq
  <2> QED BY <1>3, <2>1 DEF TodosShaped, Shaped, OnesKnown
<1>7. OneInserts /\ AgentsKnown /\ AskedAreBusy
  BY <1>1, <1>3 DEF OneInserts, Inserting, Busy, AgentsKnown, Heard, AskedAreBusy
<1>8. DeletionsLeft /\ GoneIsEmpty /\ GroupsFound /\ GroupsFreed
  BY <1>1, <1>3 DEF DeletionsLeft, Deletes, GoneIsEmpty, GroupsFound, LiveGroups, GroupsFreed, Deleted
<1>9. ConfigKnown
  BY <1>1, <1>3 DEF ConfigKnown, ConfigTravels, Written
<1> QED BY <1>5, <1>6, <1>7, <1>8, <1>9 DEF RecordsInv, RequestsInv

LEMMA RecordsSteps ==
  ASSUME RecordsInv, [RecordsNext]_recordsVars
  PROVE  RecordsInv'
<1>1. CASE UNCHANGED recordsVars
  <2>1. /\ UNCHANGED <<server, conf, group, groups, stored, reported, req>>
        /\ UNCHANGED <<seen, agent, agentConf, down, up>> /\ UNCHANGED <<late, astray, torn>>
    BY <1>1 DEF recordsVars, rows, wire, history
  <2>2. RecordsType'
    BY <2>1 DEF RecordsInv, RequestsInv, RecordsType
  <2>3. \A s \in Heard' : server[s] # "unused"
    BY <2>1 DEF RecordsInv, RequestsInv, AgentsKnown, Heard
  <2>4. RequestsInv' /\ GroupsFound' /\ GroupsFreed' /\ DeletionsLeft' /\ GoneIsEmpty'
    BY <2>1, <2>2, <2>3, RequestsApart, StoredApart
  <2>5. ConfigKnown'
    BY <2>1 DEF RecordsInv, ConfigKnown, ConfigTravels
  <2> QED BY <2>4, <2>5 DEF RecordsInv
<1>2. ASSUME NEW r \in Requests, Asks(r) \/ Works(r) PROVE RecordsInv'
  BY <1>2, WorkSteps
<1>3. ASSUME NEW s \in Servers, Agent(s) PROVE RecordsInv'
  BY <1>3, AuthenticateStep, SaveRowStep, DisconnectStep, ConfigureStep, ReportConfigStep,
     HandleAgentConfigStep, StoreReportStep DEF Agent
<1> QED BY <1>1, <1>2, <1>3 DEF RecordsNext

(***************************************************************************)
(* What is known in every state of the rows, of the requests that are at   *)
(* work on them and of the configurations that travel.                     *)
(***************************************************************************)
THEOREM RecordsInvariance == RecordsSpec => []RecordsInv
<1>1. RecordsInit => RecordsInv
  BY RecordsStarts
<1>2. RecordsInv /\ [RecordsNext]_recordsVars => RecordsInv'
  BY RecordsSteps
<1> QED BY <1>1, <1>2, PTL DEF RecordsSpec

(***************************************************************************)
(* Every variable has its type; in particular nothing is stored for a      *)
(* server before it has a row.                                             *)
(***************************************************************************)
THEOREM RecordsTypes == RecordsSpec => []RecordsType
<1>1. RecordsInv => RecordsType
  BY DEF RecordsInv, RequestsInv
<1> QED BY <1>1, RecordsInvariance, PTL

(***************************************************************************)
(* When nothing that concerns its configuration is under way, a server's   *)
(* row and its agent have the same, but for what was cleared: a request    *)
(* that wrote the row and has not sent it yet would be under way, and what *)
(* was sent and has not been lost is on its way or has arrived             *)
(* (UpdateServer and handleAgentConfig).  Whatever crossed before, this    *)
(* holds from the next change on that is written undisturbed.              *)
(***************************************************************************)
THEOREM ConfigsAgree == RecordsSpec => []ConfigAgrees
<1>1. ASSUME RecordsInv PROVE ConfigAgrees
  <2> SUFFICES ASSUME NEW s \in Servers \ astray, server[s] = "present", ~Configuring(s),
                      down[s] = <<>>
               PROVE  conf[s] \in {agentConf[s], Empty}
    BY DEF ConfigAgrees
  <2>1. ConfigTravels(s)
    BY <1>1 DEF RecordsInv, ConfigKnown
  <2>2. \A p \in Requests : ~Written(req[p].todo, s)
    BY <1>1, NobodyConfigures
  <2> QED BY <2>1, <2>2 DEF ConfigTravels
<1> QED BY <1>1, RecordsInvariance, PTL

(***************************************************************************)
(* Nothing refers to what is gone: when the row of a server goes, the      *)
(* statements before it have taken what belongs to it (DeleteServer), and  *)
(* when that of a group goes, its servers have been freed (Delete of the   *)
(* group), but for what was written or saved meanwhile and statements that *)
(* failed.                                                                 *)
(***************************************************************************)
THEOREM NothingIsOrphaned == RecordsSpec => []NoOrphans
<1>1. RecordsInv => NoOrphans
  BY DEF RecordsInv, GoneIsEmpty, GroupsFound, LiveGroups, NoOrphans
<1> QED BY <1>1, RecordsInvariance, PTL
============================================================================
