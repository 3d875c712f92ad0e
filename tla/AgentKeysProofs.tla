-------------------------- MODULE AgentKeysProofs --------------------------
EXTENDS AgentKeys, TLAPS

Working == Steps \ {"new", "in", "out"}
Trusted == {"readPair", "findPair", "createPair", "updatePair", "sendKeys",
            "storeFingerprint"}
Stored == {"answer", "register"}

(* What is at work on a server that is not mixed is at work alone.         *)
WorksAlone ==
  /\ \A s \in Servers \ mixed :
       /\ \A c, d \in Dialling(s) : c = d
       /\ \A r \in Resets(s) : r.alone
  /\ \A r \in resets : r.alone => Dialling(r.server) = {} /\ Resets(r.server) = {r}

(* What such an authentication has read is still in the row.               *)
RowAsSeen ==
  \A s \in Servers \ mixed : \A c \in Dialling(s) :
    /\ row[s].present /\ row[s].key = dial[c].key
    /\ dial[c].step = "save" => dial[c].seen = row[s]
    /\ dial[c].step \in Trusted => row[s].fp \in {NoAgent, dial[c].agent}
    /\ dial[c].step \in Stored /\ dial[c].agent # NoAgent => row[s].fp = dial[c].agent

(* What such a reset has written is still in the row.                      *)
RowAsReset ==
  \A r \in resets : r.alone /\ r.step = "unregister" =>
    /\ holders[r.server] = {}
    /\ row[r.server].present => row[r.server].key = r.key

RegisteredIsIn ==
  \A s \in Servers : registry[s] # NoConn =>
    Server(registry[s]) = s /\ dial[registry[s]].step = "in"

(* Until a reset writes, the key answered last is the one in force.        *)
KeyInForce ==
  \A s \in Servers \ mixed :
    (\A r \in Resets(s) : r.step = "update") /\ row[s].present =>
      /\ row[s].key = issued[s]
      /\ registry[s] # NoConn => dial[registry[s]].key = issued[s]

ServerInv ==
  WorksAlone /\ RowAsSeen /\ RowAsReset /\ RegisteredIsIn /\ KeyInForce /\ FirstUseHolds

(* There is a pair to hand out once one was read or generated.             *)
WithPair == {"findPair", "createPair", "updatePair", "sendKeys"}

PairAtHand ==
  \A c \in Conns : dial[c].step \in WithPair => dial[c].pair \in Conns

KeysInv == KeysType /\ ServerInv /\ PairAtHand

----------------------------------------------------------------------------
LEMMA DialHas ==
  ASSUME KeysType, NEW c \in Conns
  PROVE  /\ dial[c] \in Dial /\ Server(c) \in Servers /\ dial[c].agent \in AnyAgent
         /\ dial[c].seen \in Row /\ dial[c].pair \in Conns \cup {NoConn}
         /\ row[Server(c)] \in Row
         /\ Undialled \in Dial /\ [Undialled EXCEPT !.step = "out"] \in Dial
         /\ [Undialled EXCEPT !.step = "out"].step = "out"
<1>1. Undialled \in Dial
  BY KeysAssumption, RegistryAssumption DEF Undialled, Dial, Steps, NewRow, Row, Keys, AnyAgent
<1>2. dial[c] \in Dial /\ row \in [Servers -> Row]
  BY DEF KeysType
<1>3. [Undialled EXCEPT !.step = "out"] \in Dial /\ [Undialled EXCEPT !.step = "out"].step = "out"
  BY <1>1 DEF Dial, Steps
<1> QED BY <1>1, <1>2, <1>3 DEF Dial, Server

LEMMA GotoHas ==
  ASSUME KeysType, NEW c \in Conns, NEW step \in Steps
  PROVE  LET next == [dial[c] EXCEPT !.step = step]
         IN  /\ next \in Dial /\ next.step = step /\ next.server = dial[c].server
             /\ next.key = dial[c].key /\ next.agent = dial[c].agent
             /\ next.seen = dial[c].seen /\ next.pair = dial[c].pair
BY DialHas DEF Dial

(* An authentication that goes on, or is given up, with the tables as they *)
(* are.                                                                    *)
LEMMA DialKeepsServer ==
  ASSUME KeysType, ServerInv, NEW c \in Conns, dial[c].step \in Working,
         NEW next \in Dial, dial' = [dial EXCEPT ![c] = next],
         \/ next.step = "out"
         \/ /\ next.step \in (Trusted \cup Stored)
            /\ next.server = dial[c].server /\ next.key = dial[c].key
            /\ next.agent = dial[c].agent
            /\ Server(c) \notin mixed =>
                 /\ next.step \in Trusted => row[Server(c)].fp \in {NoAgent, next.agent}
                 /\ next.step \in Stored /\ next.agent # NoAgent
                      => row[Server(c)].fp = next.agent,
         UNCHANGED <<registry, row, resets, issued, holders, mixed>>
  PROVE  ServerInv'
<1>1. \A d \in Conns \ {c} : dial'[d] = dial[d]
  BY DEF KeysType
<1>2. dial'[c] = next
  BY DEF KeysType
<1>3. \A s \in Servers : Resets(s)' = Resets(s)
  BY DEF Resets
<1>4. \A s \in Servers : Dialling(s)' \subseteq Dialling(s)
  BY <1>1, <1>2 DEF Dialling, Server, Working
<1>5. WorksAlone'
  <2>1. \A r \in resets : r.server \in Servers
    BY DEF KeysType, Reset
  <2>2. \A s \in Servers : (\A d, e \in Dialling(s) : d = e) =>
          \A d, e \in Dialling(s)' : d = e
    BY <1>4
  <2>3. \A s \in Servers : Dialling(s) = {} => Dialling(s)' = {}
    BY <1>4
  <2> QED BY <1>3, <2>1, <2>2, <2>3 DEF ServerInv, WorksAlone
<1>6. RowAsSeen'
  <2> SUFFICES ASSUME NEW s \in Servers \ mixed, NEW d \in Dialling(s)'
               PROVE  /\ row[s].present /\ row[s].key = dial'[d].key
                      /\ dial'[d].step = "save" => dial'[d].seen = row[s]
                      /\ dial'[d].step \in Trusted => row[s].fp \in {NoAgent, dial'[d].agent}
                      /\ dial'[d].step \in Stored /\ dial'[d].agent # NoAgent
                           => row[s].fp = dial'[d].agent
    BY DEF RowAsSeen
  <2>1. d \in Dialling(s) /\ d \in Conns
    BY <1>4 DEF Dialling
  <2>2. CASE d # c
    BY <1>1, <2>1, <2>2 DEF ServerInv, RowAsSeen
  <2>3. CASE d = c
    <3>1. Server(c) = s /\ next.step # "out"
      BY <1>2, <2>1, <2>3 DEF Dialling
    <3>2. row[s].present /\ row[s].key = dial[c].key
      BY <2>1, <2>3 DEF ServerInv, RowAsSeen
    <3> QED BY <1>2, <2>3, <3>1, <3>2 DEF Trusted, Stored
  <2> QED BY <2>2, <2>3
<1>7. \A s \in Servers : registry[s] # NoConn => registry[s] # c
  BY DEF ServerInv, RegisteredIsIn, Working
<1>8. RegisteredIsIn' /\ KeyInForce'
  <2>1. \A s \in Servers : registry[s] # NoConn => registry[s] \in Conns \ {c}
    BY <1>7 DEF KeysType, RegistryType
  <2> QED BY <1>1, <1>3, <2>1 DEF ServerInv, RegisteredIsIn, KeyInForce, Server
<1> QED BY <1>5, <1>6, <1>8 DEF ServerInv, RowAsReset, FirstUseHolds

----------------------------------------------------------------------------
(* What begins on a server leaves no reset of it alone.                    *)
LEMMA DisturbedHas ==
  ASSUME KeysType, NEW s \in Servers, NEW begun \in SUBSET Reset,
         \A r \in begun : r.server = s,
         resets' = Disturbed(s) \cup begun
  PROVE  /\ resets' \subseteq Reset
         /\ \A t \in Servers \ {s} : Resets(t)' = Resets(t)
         /\ \A r \in resets' : r.server # s => r \in resets
         /\ \A r \in resets' : r.server = s => r \in begun \/ ~r.alone
         /\ Resets(s) = {} => Resets(s)' = begun
<1> DEFINE late(r) == [r EXCEPT !.alone = FALSE]
<1>1. \A r \in resets : r \in Reset
  BY DEF KeysType
<1>2. \A r \in Reset : late(r) \in Reset /\ late(r).server = r.server /\ ~late(r).alone
  BY DEF Reset
<1>3. Disturbed(s) = {IF r.server = s THEN late(r) ELSE r : r \in resets}
  BY DEF Disturbed
<1> HIDE DEF late
<1>4. resets' \subseteq Reset
  BY <1>1, <1>2, <1>3
<1>5. \A t \in Servers \ {s} : Resets(t)' = Resets(t)
  BY <1>1, <1>2, <1>3 DEF Resets
<1>6. /\ \A r \in resets' : r.server # s => r \in resets
      /\ \A r \in resets' : r.server = s => r \in begun \/ ~r.alone
  BY <1>1, <1>2, <1>3
<1>7. Resets(s) = {} => Resets(s)' = begun
  BY <1>1, <1>2, <1>3 DEF Resets
<1> QED BY <1>4, <1>5, <1>6, <1>7

LEMMA LookUpKeeps ==
  ASSUME KeysType, ServerInv, NEW c \in Conns, NEW s \in Servers, NEW k \in Keys,
         NEW a \in AnyAgent, LookUpKey(c, s, k, a)
  PROVE  ServerInv'
<1>1. PICK step \in {"save", AfterLookup(a)} :
        dial' = [dial EXCEPT ![c] = [dial[c] EXCEPT
          !.step = step, !.server = s, !.key = k, !.agent = a,
          !.seen = IF step = "save" THEN row[s] ELSE NewRow]]
  BY DEF LookUpKey
<1>2. /\ dial[c].step = "new" /\ row[s].present /\ row[s].key = k
      /\ Begins(s) /\ resets' = Disturbed(s) \cup {}
      /\ UNCHANGED <<registry, row, issued, holders>>
  BY DEF LookUpKey, At, tables
<1>3. /\ dial'[c].step = step /\ dial'[c].server = s /\ dial'[c].key = k /\ dial'[c].agent = a
      /\ step = "save" => dial'[c].seen = row[s]
      /\ \A d \in Conns \ {c} : dial'[d] = dial[d]
  <2>1. dial[c] \in Dial /\ dial \in [Conns -> Dial]
    BY DEF KeysType
  <2> DEFINE next == [dial[c] EXCEPT
          !.step = step, !.server = s, !.key = k, !.agent = a,
          !.seen = IF step = "save" THEN row[s] ELSE NewRow]
  <2>2. /\ next.step = step /\ next.server = s /\ next.key = k /\ next.agent = a
        /\ step = "save" => next.seen = row[s]
    BY <2>1 DEF Dial
  <2> HIDE DEF next
  <2>3. dial' = [dial EXCEPT ![c] = next]
    BY <1>1 DEF next
  <2> QED BY <2>1, <2>2, <2>3
<1>4. step \in {"save", "compare", "answer"} /\ (step = "answer" => a = NoAgent)
  BY <1>1 DEF AfterLookup
<1>5. /\ resets' \subseteq Reset
      /\ \A t \in Servers \ {s} : Resets(t)' = Resets(t)
      /\ \A r \in resets' : r.server # s => r \in resets
      /\ \A r \in resets' : r.server = s => ~r.alone
      /\ Resets(s) = {} => Resets(s)' = {}
  <2>1. {} \in SUBSET Reset /\ \A r \in {} : r.server = s
    OBVIOUS
  <2> QED BY <1>2, <2>1, DisturbedHas
<1>6. /\ \A t \in Servers \ {s} : Dialling(t)' = Dialling(t)
      /\ Dialling(s)' = Dialling(s) \cup {c}
  BY <1>2, <1>3, <1>4 DEF Dialling, Server
<1>7. /\ \A t \in Servers \ {s} : t \in mixed' <=> t \in mixed
      /\ s \notin mixed' => Dialling(s) = {} /\ Resets(s) = {} /\ s \notin mixed
  BY <1>2 DEF Begins, Busy
<1>8. \A t \in Servers : registry[t] # NoConn => registry[t] \in Conns \ {c}
  BY <1>2 DEF ServerInv, RegisteredIsIn, KeysType, RegistryType
<1>9. \A r \in resets : r.server \in Servers
  BY DEF KeysType, Reset
<1>10. WorksAlone'
  <2>1. \A t \in Servers \ mixed' : (\A d, e \in Dialling(t)' : d = e) /\ \A r \in Resets(t)' : r.alone
    BY <1>5, <1>6, <1>7 DEF ServerInv, WorksAlone
  <2>2. \A r \in resets' : r.alone => Dialling(r.server)' = {} /\ Resets(r.server)' = {r}
    BY <1>5, <1>6, <1>9 DEF ServerInv, WorksAlone
  <2> QED BY <2>1, <2>2 DEF WorksAlone
<1>11. RowAsSeen'
  <2> SUFFICES ASSUME NEW t \in Servers \ mixed', NEW d \in Dialling(t)'
               PROVE  /\ row[t].present /\ row[t].key = dial'[d].key
                      /\ dial'[d].step = "save" => dial'[d].seen = row[t]
                      /\ dial'[d].step \in Trusted => row[t].fp \in {NoAgent, dial'[d].agent}
                      /\ dial'[d].step \in Stored /\ dial'[d].agent # NoAgent
                           => row[t].fp = dial'[d].agent
    BY <1>2 DEF RowAsSeen
  <2>1. CASE t = s
    BY <1>2, <1>3, <1>4, <1>6, <1>7, <2>1 DEF Trusted, Stored
  <2>2. CASE t # s
    <3>1. d \in Dialling(t) /\ d \in Conns \ {c} /\ t \notin mixed
      BY <1>2, <1>6, <1>7, <2>2 DEF Dialling
    <3> QED BY <1>3, <3>1 DEF ServerInv, RowAsSeen
  <2> QED BY <2>1, <2>2
<1>12. RowAsReset'
  BY <1>2, <1>5 DEF ServerInv, RowAsReset
<1>13. RegisteredIsIn'
  BY <1>2, <1>3, <1>8 DEF ServerInv, RegisteredIsIn, Server
<1>14. KeyInForce'
  BY <1>2, <1>3, <1>5, <1>7, <1>8 DEF ServerInv, KeyInForce
<1>15. FirstUseHolds'
  BY <1>2, <1>7 DEF ServerInv, FirstUseHolds
<1> QED BY <1>10, <1>11, <1>12, <1>13, <1>14, <1>15 DEF ServerInv

(* A reset that begins, or the server is deleted: its authentications go   *)
(* on, and are mixed with it.                                              *)
LEMMA BegunKeeps ==
  ASSUME KeysType, ServerInv, NEW s \in Servers, NEW begun \in SUBSET Reset,
         resets' = Disturbed(s) \cup begun, Begins(s),
         begun = {} \/ \E r \in Reset : /\ begun = {r} /\ r.server = s
                                        /\ r.step = "update" /\ r.alone = ~Busy(s),
         row' = row \/ ~row'[s].present,
         row' \in [Servers -> Row], \A t \in Servers \ {s} : row'[t] = row[t],
         row'[s].fp = row[s].fp,
         UNCHANGED <<registry, dial, issued, holders>>
  PROVE  ServerInv'
<1>1. \A t \in Servers : Dialling(t)' = Dialling(t)
  BY DEF Dialling, Server
<1>2. \A r \in begun : r.server = s /\ r.step = "update" /\ r.alone = ~Busy(s)
  OBVIOUS
<1>3. /\ resets' \subseteq Reset
      /\ \A t \in Servers \ {s} : Resets(t)' = Resets(t)
      /\ \A r \in resets' : r.server # s => r \in resets
      /\ \A r \in resets' : r.server = s => r \in begun \/ ~r.alone
      /\ Resets(s) = {} => Resets(s)' = begun
  BY <1>2, DisturbedHas
<1>4. /\ \A t \in Servers \ {s} : t \in mixed' <=> t \in mixed
      /\ s \notin mixed' => Dialling(s) = {} /\ Resets(s) = {} /\ s \notin mixed
      /\ ~Busy(s) => Dialling(s) = {} /\ Resets(s) = {}
  BY DEF Begins, Busy
<1>5. \A r \in resets : r.server \in Servers
  BY DEF KeysType, Reset
<1>6. WorksAlone'
  <2>1. \A t \in Servers \ mixed' : \A d, e \in Dialling(t)' : d = e
    BY <1>1, <1>4 DEF ServerInv, WorksAlone
  <2>2. \A t \in Servers \ mixed' : \A r \in Resets(t)' : r.alone
    <3> SUFFICES ASSUME NEW t \in Servers \ mixed', NEW r \in Resets(t)' PROVE r.alone
      OBVIOUS
    <3>1. CASE t = s
      BY <1>2, <1>3, <1>4, <3>1 DEF Begins
    <3>2. CASE t # s
      BY <1>3, <1>4, <3>2 DEF ServerInv, WorksAlone
    <3> QED BY <3>1, <3>2
  <2>3. ASSUME NEW r \in resets', r.alone
        PROVE  Dialling(r.server)' = {} /\ Resets(r.server)' = {r}
    <3>1. CASE r.server = s
      <4>1. r \in begun /\ begun = {r} /\ ~Busy(s)
        BY <1>2, <1>3, <2>3, <3>1
      <4> QED BY <1>1, <1>3, <1>4, <3>1, <4>1
    <3>2. CASE r.server # s
      BY <1>1, <1>3, <1>5, <2>3, <3>2 DEF ServerInv, WorksAlone
    <3> QED BY <3>1, <3>2
  <2> QED BY <2>1, <2>2, <2>3 DEF WorksAlone
<1>7. RowAsSeen'
  BY <1>1, <1>4 DEF ServerInv, RowAsSeen
<1>8. RowAsReset'
  <2> SUFFICES ASSUME NEW r \in resets', r.alone, r.step = "unregister"
               PROVE  /\ holders[r.server] = {}
                      /\ row'[r.server].present => row'[r.server].key = r.key
    BY DEF RowAsReset
  <2>1. r.server # s /\ r \in resets
    BY <1>2, <1>3
  <2> QED BY <1>5, <2>1 DEF ServerInv, RowAsReset
<1>9. RegisteredIsIn'
  BY DEF ServerInv, RegisteredIsIn, Server
<1>10. KeyInForce'
  <2> SUFFICES ASSUME NEW t \in Servers \ mixed', row'[t].present,
                      \A r \in Resets(t)' : r.step = "update"
               PROVE  /\ row'[t].key = issued[t]
                      /\ registry[t] # NoConn => dial[registry[t]].key = issued[t]
    BY DEF KeyInForce
  <2>1. row'[t] = row[t] /\ t \in Servers \ mixed
    BY <1>4
  <2>2. \A r \in Resets(t) : r.step = "update"
    BY <1>3, <1>4
  <2> QED BY <2>1, <2>2 DEF ServerInv, KeyInForce
<1>11. FirstUseHolds'
  BY <1>4 DEF ServerInv, FirstUseHolds
<1> QED BY <1>6, <1>7, <1>8, <1>9, <1>10, <1>11 DEF ServerInv

----------------------------------------------------------------------------
(* An authentication that goes on and writes what it read or compared.     *)
LEMMA DialWritesServer ==
  ASSUME KeysType, ServerInv, NEW c \in Conns, NEW s \in Servers,
         dial[c].step \in Working, dial[c].server = s,
         NEW next \in Dial, dial' = [dial EXCEPT ![c] = next],
         next.step \in {"compare", "in"} \cup Trusted \cup Stored,
         next.server = s, next.key = dial[c].key,
         UNCHANGED <<registry, resets, issued>>,
         mixed' = mixed \/ mixed' = mixed \cup {s},
         \A t \in Servers \ {s} : row'[t] = row[t] /\ holders'[t] = holders[t],
         s \notin mixed' =>
           /\ row'[s].present /\ row'[s].key = row[s].key
           /\ next.step \in Trusted => row'[s].fp \in {NoAgent, next.agent}
           /\ next.step \in Stored /\ next.agent # NoAgent => row'[s].fp = next.agent
           /\ holders'[s] \subseteq {row'[s].fp}
  PROVE  ServerInv'
<1>1. dial'[c] = next /\ \A d \in Conns \ {c} : dial'[d] = dial[d]
  BY DEF KeysType
<1>2. \A t \in Servers : Resets(t)' = Resets(t)
  BY DEF Resets
<1>3. /\ \A t \in Servers \ {s} : Dialling(t)' = Dialling(t)
      /\ Dialling(s)' \subseteq Dialling(s) /\ c \in Dialling(s)
  BY <1>1 DEF Dialling, Server, Working
<1>4. \A r \in resets : r.server \in Servers /\ (r.alone => r.server # s)
  BY <1>3 DEF ServerInv, WorksAlone, KeysType, Reset
<1>5. \A t \in Servers : registry[t] # NoConn => registry[t] \in Conns \ {c}
  BY DEF ServerInv, RegisteredIsIn, KeysType, RegistryType, Working
<1>6. WorksAlone'
  <2>1. \A t \in Servers \ mixed' : \A d, e \in Dialling(t)' : d = e
    BY <1>3 DEF ServerInv, WorksAlone
  <2>2. \A t \in Servers \ mixed' : \A r \in Resets(t)' : r.alone
    BY <1>2 DEF ServerInv, WorksAlone
  <2>3. \A r \in resets : r.alone => Dialling(r.server)' = {} /\ Resets(r.server)' = {r}
    BY <1>2, <1>3, <1>4 DEF ServerInv, WorksAlone
  <2> QED BY <2>1, <2>2, <2>3 DEF WorksAlone
<1>7. RowAsSeen'
  <2> SUFFICES ASSUME NEW t \in Servers \ mixed', NEW d \in Dialling(t)'
               PROVE  /\ row'[t].present /\ row'[t].key = dial'[d].key
                      /\ dial'[d].step = "save" => dial'[d].seen = row'[t]
                      /\ dial'[d].step \in Trusted => row'[t].fp \in {NoAgent, dial'[d].agent}
                      /\ dial'[d].step \in Stored /\ dial'[d].agent # NoAgent
                           => row'[t].fp = dial'[d].agent
    BY DEF RowAsSeen
  <2>1. CASE t = s
    <3>1. d = c /\ s \notin mixed
      BY <1>3, <2>1 DEF ServerInv, WorksAlone
    <3>2. row[s].key = dial[c].key
      BY <1>3, <3>1 DEF ServerInv, RowAsSeen
    <3> QED BY <1>1, <2>1, <3>1, <3>2 DEF Trusted, Stored
  <2>2. CASE t # s
    <3>1. d \in Dialling(t) /\ d \in Conns \ {c} /\ t \notin mixed
      BY <1>1, <1>3, <2>2 DEF Dialling, Server
    <3> QED BY <1>1, <2>2, <3>1 DEF ServerInv, RowAsSeen
  <2> QED BY <2>1, <2>2
<1>8. RowAsReset'
  BY <1>4 DEF ServerInv, RowAsReset
<1>9. RegisteredIsIn'
  BY <1>1, <1>5 DEF ServerInv, RegisteredIsIn, Server
<1>10. KeyInForce'
  <2> SUFFICES ASSUME NEW t \in Servers \ mixed', row'[t].present,
                      \A r \in Resets(t) : r.step = "update"
               PROVE  /\ row'[t].key = issued[t]
                      /\ registry[t] # NoConn => dial'[registry[t]].key = issued[t]
    BY <1>2 DEF KeyInForce
  <2>1. t \in Servers \ mixed
    OBVIOUS
  <2>2. row[t].present /\ row'[t].key = row[t].key
    BY <1>3, <2>1 DEF ServerInv, RowAsSeen
  <2> QED BY <1>1, <1>5, <2>1, <2>2 DEF ServerInv, KeyInForce
<1>11. FirstUseHolds'
  BY DEF ServerInv, FirstUseHolds
<1> QED BY <1>6, <1>7, <1>8, <1>9, <1>10, <1>11 DEF ServerInv

(* A connection enters the registry.                                       *)
LEMMA RegisterKeeps ==
  ASSUME KeysType, ServerInv, NEW c \in Conns, RegisterDialled(c)
  PROVE  ServerInv'
<1> DEFINE s == dial[c].server
           next == [dial[c] EXCEPT !.step = "in"]
<1>0. s \in Servers /\ dial[c].step = "register"
  BY DialHas DEF RegisterDialled, At, Server
<1>1. /\ registry' = [registry EXCEPT ![s] = c]
      /\ dial' = [dial EXCEPT ![c] = next]
      /\ UNCHANGED <<row, resets, issued, holders, mixed>>
  BY DEF RegisterDialled, Register, Goto, tables, history, Server
<1>2. next.step = "in" /\ next.server = s /\ next.key = dial[c].key
  BY GotoHas DEF Steps
<1> HIDE DEF next, s
<1>3. dial'[c] = next /\ \A d \in Conns \ {c} : dial'[d] = dial[d]
  BY <1>1 DEF KeysType
<1>4. \A t \in Servers : Resets(t)' = Resets(t)
  BY <1>1 DEF Resets
<1>5. \A t \in Servers : Dialling(t)' = Dialling(t) \ {c}
  BY <1>2, <1>3 DEF Dialling, Server, s
<1>6. c \in Dialling(s)
  BY <1>0 DEF Dialling, Server, s
<1>7. \A t \in Servers : registry[t] # NoConn => registry[t] \in Conns \ {c}
  BY <1>0 DEF ServerInv, RegisteredIsIn, KeysType, RegistryType
<1>8. registry'[s] = c /\ \A t \in Servers \ {s} : registry'[t] = registry[t]
  BY <1>0, <1>1 DEF KeysType, RegistryType
<1>9. \A r \in resets : r.server \in Servers
  BY DEF KeysType, Reset
<1>10. WorksAlone'
  <2>1. \A t \in Servers \ mixed' : \A d, e \in Dialling(t)' : d = e
    BY <1>1, <1>5 DEF ServerInv, WorksAlone
  <2>2. \A r \in resets : r.alone => Dialling(r.server)' = {} /\ Resets(r.server)' = {r}
    BY <1>4, <1>5, <1>9 DEF ServerInv, WorksAlone
  <2>3. \A t \in Servers \ mixed' : \A r \in Resets(t)' : r.alone
    BY <1>1, <1>4 DEF ServerInv, WorksAlone
  <2> QED BY <1>1, <2>1, <2>2, <2>3 DEF WorksAlone
<1>11. RowAsSeen'
  <2> SUFFICES ASSUME NEW t \in Servers \ mixed, NEW d \in Dialling(t) \ {c}
               PROVE  /\ row[t].present /\ row[t].key = dial[d].key
                      /\ dial[d].step = "save" => dial[d].seen = row[t]
                      /\ dial[d].step \in Trusted => row[t].fp \in {NoAgent, dial[d].agent}
                      /\ dial[d].step \in Stored /\ dial[d].agent # NoAgent
                           => row[t].fp = dial[d].agent
    BY <1>1, <1>3, <1>5 DEF RowAsSeen, Dialling
  <2> QED BY DEF ServerInv, RowAsSeen
<1>12. RegisteredIsIn'
  BY <1>2, <1>3, <1>7, <1>8 DEF ServerInv, RegisteredIsIn, Server
<1>13. KeyInForce'
  <2> SUFFICES ASSUME NEW t \in Servers \ mixed, row[t].present,
                      \A r \in Resets(t) : r.step = "update"
               PROVE  /\ row[t].key = issued[t]
                      /\ registry'[t] # NoConn => dial'[registry'[t]].key = issued[t]
    BY <1>1, <1>4 DEF KeyInForce
  <2>1. row[t].key = issued[t] /\ (registry[t] # NoConn => dial[registry[t]].key = issued[t])
    BY DEF ServerInv, KeyInForce
  <2>2. CASE t = s
    BY <1>2, <1>3, <1>6, <1>8, <2>1, <2>2 DEF ServerInv, RowAsSeen
  <2>3. CASE t # s
    BY <1>3, <1>7, <1>8, <2>1, <2>3
  <2> QED BY <2>2, <2>3
<1> QED BY <1>1, <1>10, <1>11, <1>12, <1>13 DEF ServerInv, RowAsReset, FirstUseHolds

(* A connection that was let in ends.                                      *)
LEMMA LeaveKeeps ==
  ASSUME KeysType, ServerInv, NEW c \in Conns, Leave(c)
  PROVE  ServerInv'
<1> DEFINE s == dial[c].server
           next == [Undialled EXCEPT !.step = "out"]
<1>0. s \in Servers /\ dial[c].step = "in" /\ next.step = "out"
  BY DialHas DEF Leave, At, Server
<1>1. /\ dial' = [dial EXCEPT ![c] = next]
      /\ UNCHANGED <<row, resets, issued, holders, mixed>>
  BY DEF Leave, GivesUp, tables, history
<1>2. registry'[s] = NoConn /\ \A t \in Servers \ {s} : registry'[t] = registry[t]
  BY <1>0 DEF Leave, Unregister, Server, KeysType, RegistryType, registryVars
<1> HIDE DEF next, s
<1>3. dial'[c] = next /\ \A d \in Conns \ {c} : dial'[d] = dial[d]
  BY <1>1 DEF KeysType
<1>4. \A t \in Servers : Resets(t)' = Resets(t)
  BY <1>1 DEF Resets
<1>5. \A t \in Servers : Dialling(t)' = Dialling(t)
  BY <1>0, <1>3 DEF Dialling, Server
<1>6. \A t \in Servers : registry'[t] # NoConn =>
        registry'[t] = registry[t] /\ registry[t] \in Conns \ {c}
  BY <1>2 DEF ServerInv, RegisteredIsIn, KeysType, RegistryType, Server, s
<1>7. \A r \in resets : r.server \in Servers
  BY DEF KeysType, Reset
<1>8. WorksAlone'
  BY <1>1, <1>4, <1>5, <1>7 DEF ServerInv, WorksAlone
<1>9. RowAsSeen'
  <2>1. \A t \in Servers : c \notin Dialling(t) /\ Dialling(t) \subseteq Conns
    BY <1>0 DEF Dialling
  <2> QED BY <1>1, <1>3, <1>5, <2>1 DEF ServerInv, RowAsSeen
<1>10. RegisteredIsIn' /\ KeyInForce'
  BY <1>1, <1>3, <1>4, <1>6 DEF ServerInv, RegisteredIsIn, KeyInForce, Server
<1> QED BY <1>1, <1>8, <1>9, <1>10 DEF ServerInv, RowAsReset, FirstUseHolds

----------------------------------------------------------------------------
(* The steps of an authentication, each with the lemma it falls under.     *)
LEMMA ExchangeKeeps ==
  ASSUME KeysType, ServerInv, NEW c \in Conns, Exchange(c)
  PROVE  ServerInv'
<1> DEFINE s == Server(c)
<1>1. s \in Servers /\ dial[c].server = s
  BY DialHas DEF Server
<1>2. CASE SaveRow(c)
  <2> DEFINE next == [dial[c] EXCEPT !.step = AfterLookup(dial[c].agent), !.seen = NewRow]
  <2>1. /\ dial' = [dial EXCEPT ![c] = next]
        /\ row' = [row EXCEPT ![s] = dial[c].seen] \/ row' = row
        /\ dial[c].step = "save" /\ UNCHANGED <<registry, resets, issued, holders, mixed>>
    BY <1>2 DEF SaveRow, At, history
  <2>2. NewRow \in Row /\ dial[c] \in Dial
    BY KeysAssumption, DialHas DEF NewRow, Row, Keys, AnyAgent
  <2>3. AfterLookup(dial[c].agent) \in Steps
    BY DEF AfterLookup, Steps
  <2>4. /\ next \in Dial /\ next.step = AfterLookup(dial[c].agent) /\ next.server = s
        /\ next.key = dial[c].key /\ next.agent = dial[c].agent
    BY <1>1, <2>2, <2>3 DEF Dial
  <2> HIDE DEF next
  <2>5. /\ next.step \in {"compare", "answer"}
        /\ next.step = "answer" => next.agent = NoAgent
    BY <2>4 DEF AfterLookup
  <2>6. \A t \in Servers \ {s} : row'[t] = row[t]
    BY <2>1 DEF KeysType
  <2>7. c \in Dialling(s)
    BY <2>1 DEF Dialling
  <2>8. s \notin mixed => row'[s] = row[s] /\ row[s].present
    BY <1>1, <2>1, <2>7 DEF ServerInv, RowAsSeen, KeysType
  <2>9. s \notin mixed => holders[s] \subseteq {row[s].fp}
    BY <1>1 DEF ServerInv, FirstUseHolds
  <2> QED BY <1>1, <2>1, <2>4, <2>5, <2>6, <2>8, <2>9, DialWritesServer DEF Working, Steps,
             Trusted, Stored
<1>3. CASE StoreFingerprint(c)
  <2> DEFINE next == [dial[c] EXCEPT !.step = "answer"]
  <2>1. /\ dial' = [dial EXCEPT ![c] = next] /\ dial[c].step = "storeFingerprint"
        /\ \/ /\ row' = IF row[s].present THEN [row EXCEPT ![s].fp = dial[c].agent] ELSE row
              /\ mixed' = mixed
           \/ row' = row /\ mixed' = mixed \cup {s}
        /\ UNCHANGED <<registry, resets, issued, holders>>
    BY <1>3 DEF StoreFingerprint, Goto, At
  <2>2. /\ next \in Dial /\ next.step = "answer" /\ next.server = s
        /\ next.key = dial[c].key /\ next.agent = dial[c].agent
    BY <1>1, GotoHas DEF Steps
  <2> HIDE DEF next
  <2>3. \A t \in Servers \ {s} : row'[t] = row[t]
    BY <2>1 DEF KeysType
  <2>4. c \in Dialling(s)
    BY <2>1 DEF Dialling
  <2>5. ASSUME s \notin mixed'
        PROVE  /\ row'[s].present /\ row'[s].key = row[s].key
               /\ row'[s].fp = dial[c].agent /\ holders[s] \subseteq {row'[s].fp}
    <3>1. s \notin mixed /\ row[s].present /\ row[s].fp \in {NoAgent, dial[c].agent}
      BY <1>1, <2>1, <2>4, <2>5 DEF ServerInv, RowAsSeen, Trusted
    <3>2. row[s] \in Row /\ row' = [row EXCEPT ![s] = [row[s] EXCEPT !.fp = dial[c].agent]]
      BY <1>1, <2>1, <2>5, <3>1 DEF KeysType
    <3>3. /\ row'[s].present = row[s].present /\ row'[s].key = row[s].key
          /\ row'[s].fp = dial[c].agent
      BY <1>1, <3>2 DEF KeysType, Row
    <3>4. holders[s] \subseteq {row[s].fp} /\ NoAgent \notin holders[s]
      BY <1>1, <3>1, KeysAssumption DEF ServerInv, FirstUseHolds, KeysType
    <3> QED BY <3>1, <3>3, <3>4
  <2>6. mixed' = mixed \/ mixed' = mixed \cup {s}
    BY <2>1
  <2>7. /\ dial[c].step \in Working
        /\ next.step \in {"compare", "in"} \cup Trusted \cup Stored
        /\ next.step \notin Trusted
    BY <2>1, <2>2 DEF Working, Steps, Trusted, Stored
  <2>8. \A t \in Servers \ {s} : row'[t] = row[t] /\ holders'[t] = holders[t]
    BY <2>1, <2>3
  <2>9. UNCHANGED <<registry, resets, issued>> /\ holders' = holders
    BY <2>1
  <2>10. dial' = [dial EXCEPT ![c] = next]
    BY <2>1
  <2>11. s \notin mixed' =>
           /\ row'[s].present /\ row'[s].key = row[s].key
           /\ next.step \in Trusted => row'[s].fp \in {NoAgent, next.agent}
           /\ next.step \in Stored /\ next.agent # NoAgent => row'[s].fp = next.agent
           /\ holders'[s] \subseteq {row'[s].fp}
    BY <2>2, <2>5, <2>7, <2>9
  <2> HIDE DEF s
  <2> QED BY <1>1, <2>2, <2>6, <2>7, <2>8, <2>9, <2>10, <2>11, DialWritesServer
<1>4. CASE Answer(c)
  <2>1. PICK step \in {"register", "in"} : Goto(c, step)
    BY <1>4 DEF Answer
  <2> DEFINE next == [dial[c] EXCEPT !.step = step]
  <2>2. /\ next \in Dial /\ next.step = step /\ next.server = s
        /\ next.key = dial[c].key /\ next.agent = dial[c].agent
    <3>1. step \in Steps
      BY DEF Steps
    <3> QED BY <1>1, <3>1, GotoHas
  <2>3. /\ dial' = [dial EXCEPT ![c] = next] /\ dial[c].step = "answer"
        /\ holders' = [holders EXCEPT ![s] = holders[s] \cup ({dial[c].agent} \ {NoAgent})]
        /\ UNCHANGED <<registry, row, resets, issued, mixed>>
    BY <1>4, <2>1 DEF Answer, Goto, At, tables
  <2> HIDE DEF next
  <2>4. c \in Dialling(s)
    BY <2>3 DEF Dialling
  <2>5. \A t \in Servers \ {s} : holders'[t] = holders[t]
    BY <2>3 DEF KeysType
  <2>6. s \notin mixed =>
          /\ row[s].present /\ (dial[c].agent # NoAgent => row[s].fp = dial[c].agent)
          /\ holders[s] \subseteq {row[s].fp}
    BY <1>1, <2>3, <2>4 DEF ServerInv, RowAsSeen, FirstUseHolds, Stored
  <2>7. holders'[s] = holders[s] \cup ({dial[c].agent} \ {NoAgent})
    BY <1>1, <2>3 DEF KeysType
  <2> QED BY <1>1, <2>2, <2>3, <2>5, <2>6, <2>7, DialWritesServer DEF Working, Steps,
             Trusted, Stored
<1>5. CASE RegisterDialled(c) \/ Leave(c)
  BY <1>5, RegisterKeeps, LeaveKeeps
<1>6. CASE CompareFingerprint(c) \/ ReadPair(c) \/ FindPair(c) \/ WritePair(c) \/ SendKeys(c)
  <2>1. UNCHANGED <<registry, row, resets, issued, holders, mixed>>
    BY <1>6 DEF CompareFingerprint, ReadPair, FindPair, WritePair, SendKeys, tables, history
  <2>2. dial[c].step \in {"compare"} \cup (Trusted \ {"storeFingerprint"})
    BY <1>6 DEF CompareFingerprint, ReadPair, FindPair, WritePair, StorePair, SendKeys, At,
       Trusted
  <2>3. CASE GivesUp(c)
    BY <2>1, <2>2, <2>3, DialHas, DialKeepsServer DEF GivesUp, Working, Steps, Trusted
  <2>4. CASE ~GivesUp(c)
    <3>1. \E next \in Dial :
            /\ dial' = [dial EXCEPT ![c] = next] /\ next.step \in Trusted
            /\ next.server = dial[c].server /\ next.key = dial[c].key
            /\ next.agent = dial[c].agent
      <4>1. CASE \E step \in Trusted : Goto(c, step)
        <5>1. PICK step \in Trusted : Goto(c, step)
          BY <4>1
        <5>2. step \in Steps
          BY DEF Trusted, Steps
        <5> DEFINE next == [dial[c] EXCEPT !.step = step]
        <5>3. /\ next \in Dial /\ next.step = step /\ next.server = dial[c].server
              /\ next.key = dial[c].key /\ next.agent = dial[c].agent
          BY <5>2, GotoHas
        <5>4. dial' = [dial EXCEPT ![c] = next]
          BY <5>1 DEF Goto
        <5> HIDE DEF next
        <5> QED BY <5>3, <5>4
      <4>2. CASE ReadPair(c)
        <5>1. PICK step \in {"sendKeys", "findPair"}, pair \in Conns :
                dial' = [dial EXCEPT ![c].step = step, ![c].pair = pair]
          BY <4>2 DEF ReadPair, KeysType
        <5> DEFINE next == [dial[c] EXCEPT !.step = step, !.pair = pair]
        <5>2. dial[c] \in Dial /\ dial' = [dial EXCEPT ![c] = next]
          BY <5>1, DialHas
        <5>3. /\ next \in Dial /\ next.step = step /\ next.server = dial[c].server
              /\ next.key = dial[c].key /\ next.agent = dial[c].agent
          BY <5>2 DEF Dial, Steps
        <5> HIDE DEF next
        <5> QED BY <5>2, <5>3 DEF Trusted
      <4> QED BY <1>6, <2>4, <4>1, <4>2 DEF CompareFingerprint, FindPair, WritePair, SendKeys,
                 Trusted
    <3>2. s \notin mixed => row[s].fp \in {NoAgent, dial[c].agent}
      <4>1. CASE CompareFingerprint(c)
        BY <2>4, <4>1 DEF CompareFingerprint
      <4>2. CASE ~CompareFingerprint(c)
        <5>1. c \in Dialling(s) /\ dial[c].step \in Trusted
          BY <1>6, <2>2, <4>2 DEF Dialling, Trusted, ReadPair, FindPair, WritePair, StorePair,
             SendKeys, At
        <5> QED BY <1>1, <5>1 DEF ServerInv, RowAsSeen
      <4> QED BY <4>1, <4>2
    <3> QED BY <1>1, <2>1, <2>2, <3>1, <3>2, DialKeepsServer DEF Working, Steps, Trusted, Stored
  <2> QED BY <2>3, <2>4
<1> QED BY <1>2, <1>3, <1>4, <1>5, <1>6 DEF Exchange

----------------------------------------------------------------------------
(* A reset that has come to its end is forgotten.                          *)
LEMMA ResetsLess ==
  ASSUME KeysType, ServerInv, NEW r \in resets, resets' = resets \ {r}, UNCHANGED dial
  PROVE  /\ r.server \in Servers
         /\ \A t \in Servers : Dialling(t)' = Dialling(t)
         /\ \A t \in Servers \ {r.server} : Resets(t)' = Resets(t)
         /\ Resets(r.server)' = Resets(r.server) \ {r} /\ r \in Resets(r.server)
         /\ \A q \in resets' : q.alone => q.server # r.server
         /\ r.alone => Dialling(r.server) = {} /\ Resets(r.server) = {r}
         /\ r.server \notin mixed => r.alone
         /\ \A q \in resets : q.server \in Servers
<1>1. \A q \in resets : q.server \in Servers
  BY DEF KeysType, Reset
<1>2. /\ \A t \in Servers : Dialling(t)' = Dialling(t)
      /\ \A t \in Servers \ {r.server} : Resets(t)' = Resets(t)
      /\ Resets(r.server)' = Resets(r.server) \ {r} /\ r \in Resets(r.server)
  BY DEF Dialling, Server, Resets
<1>3. \A q \in resets : q.alone => Dialling(q.server) = {} /\ Resets(q.server) = {q}
  BY DEF ServerInv, WorksAlone
<1>4. \A q \in resets' : q.alone => q.server # r.server
  BY <1>2, <1>3
<1>5. r.server \notin mixed => r.alone
  BY <1>1, <1>2 DEF ServerInv, WorksAlone
<1> QED BY <1>1, <1>2, <1>3, <1>4, <1>5

LEMMA ResetUpdatesKeeps ==
  ASSUME KeysType, ServerInv, NEW r \in resets, ResetUpdates(r)
  PROVE  ServerInv'
<1> DEFINE s == r.server
           next == [r EXCEPT !.step = "unregister"]
<1>1. r \in Reset /\ s \in Servers /\ \A q \in resets : q.server \in Servers
  BY DEF KeysType, Reset
<1>2. r.step = "update" /\ UNCHANGED <<registry, dial, issued, mixed>>
  BY DEF ResetUpdates
<1>3. \A t \in Servers : Dialling(t)' = Dialling(t)
  BY <1>2 DEF Dialling, Server
<1>4. /\ s \notin mixed => r.alone
      /\ \A q \in resets : q.alone => Dialling(q.server) = {} /\ Resets(q.server) = {q}
      /\ r \in Resets(s)
  BY <1>1 DEF ServerInv, WorksAlone, Resets
<1>5. \A t \in Servers : registry[t] # NoConn => registry[t] \in Conns
  BY DEF KeysType, RegistryType
<1>6. RegisteredIsIn'
  BY <1>2 DEF ServerInv, RegisteredIsIn, Server
<1>7. CASE resets' = resets \ {r} /\ UNCHANGED <<row, holders>>
  <2>1. WorksAlone'
    <3>1. /\ \A t \in Servers \ {s} : Resets(t)' = Resets(t)
          /\ Resets(s)' = Resets(s) \ {r}
          /\ \A q \in resets' : q \in resets /\ (q.alone => q.server # s)
      BY <1>2, <1>7, ResetsLess
    <3> HIDE DEF s
    <3>2. \A t \in Servers \ mixed : (\A c, d \in Dialling(t)' : c = d) /\ \A q \in Resets(t)' : q.alone
      BY <1>3, <3>1 DEF ServerInv, WorksAlone
    <3>3. \A q \in resets' : q.alone => Dialling(q.server)' = {} /\ Resets(q.server)' = {q}
      BY <1>1, <1>3, <1>4, <3>1
    <3> QED BY <1>2, <3>2, <3>3 DEF WorksAlone
  <2>2. RowAsSeen'
    BY <1>2, <1>3, <1>7 DEF ServerInv, RowAsSeen
  <2>3. RowAsReset'
    BY <1>7 DEF ServerInv, RowAsReset
  <2>4. KeyInForce'
    <3> SUFFICES ASSUME NEW t \in Servers \ mixed, row[t].present,
                        \A q \in Resets(t)' : q.step = "update"
                 PROVE  /\ row[t].key = issued[t]
                        /\ registry[t] # NoConn => dial[registry[t]].key = issued[t]
      BY <1>2, <1>7 DEF KeyInForce
    <3>1. \A q \in Resets(t) : q.step = "update"
      BY <1>2, <1>7, ResetsLess
    <3> QED BY <3>1 DEF ServerInv, KeyInForce
  <2> QED BY <1>2, <1>6, <1>7, <2>1, <2>2, <2>3, <2>4 DEF ServerInv, FirstUseHolds
<1>8. CASE /\ row' = IF row[s].present
                     THEN [row EXCEPT ![s] = [row[s] EXCEPT !.key = r.key, !.fp = NoAgent]]
                     ELSE row
           /\ resets' = (resets \ {r}) \cup {next}
           /\ holders' = [holders EXCEPT ![s] = {}]
  <2>1. /\ next \in Reset /\ next.server = s /\ next.step = "unregister"
        /\ next.key = r.key /\ next.alone = r.alone
    BY <1>1 DEF Reset
  <2>2. /\ holders'[s] = {}
        /\ \A t \in Servers \ {s} : row'[t] = row[t] /\ holders'[t] = holders[t]
    BY <1>1, <1>8 DEF KeysType
  <2>3. row'[s].present => row'[s].key = r.key
    BY <1>1, <1>8 DEF KeysType, Row
  <2> HIDE DEF next, s
  <2>4. /\ \A t \in Servers \ {s} : Resets(t)' = Resets(t)
        /\ Resets(s)' = (Resets(s) \ {r}) \cup {next}
    BY <1>8, <2>1 DEF Resets, s
  <2>5. \A q \in resets' : q = next \/ (q \in resets /\ (q.alone => q.server # s))
    BY <1>4, <1>8 DEF Resets
  <2>6. WorksAlone'
    <3>1. \A t \in Servers \ mixed : \A c, d \in Dialling(t)' : c = d
      BY <1>3 DEF ServerInv, WorksAlone
    <3>2. \A t \in Servers \ mixed : \A q \in Resets(t)' : q.alone
      BY <1>1, <1>4, <2>1, <2>4 DEF ServerInv, WorksAlone
    <3>3. r.alone => Dialling(s)' = {} /\ Resets(s)' = {next}
      BY <1>1, <1>3, <1>4, <2>4 DEF s
    <3>4. \A q \in resets' : q.alone => Dialling(q.server)' = {} /\ Resets(q.server)' = {q}
      BY <1>1, <1>3, <1>4, <2>1, <2>4, <2>5, <3>3
    <3> QED BY <1>2, <3>1, <3>2, <3>4 DEF WorksAlone
  <2>7. RowAsSeen'
    <3>1. s \notin mixed => Dialling(s) = {}
      BY <1>4 DEF s
    <3> QED BY <1>1, <1>2, <1>3, <2>2, <3>1 DEF ServerInv, RowAsSeen
  <2>8. RowAsReset'
    BY <1>1, <2>1, <2>2, <2>3, <2>5 DEF ServerInv, RowAsReset
  <2>9. KeyInForce'
    <3> SUFFICES ASSUME NEW t \in Servers \ mixed, row'[t].present,
                        \A q \in Resets(t)' : q.step = "update"
                 PROVE  /\ row'[t].key = issued[t]
                        /\ registry[t] # NoConn => dial[registry[t]].key = issued[t]
      BY <1>2 DEF KeyInForce
    <3>1. t # s
      BY <2>1, <2>4
    <3> QED BY <2>2, <2>4, <3>1 DEF ServerInv, KeyInForce
  <2>10. FirstUseHolds'
    BY <1>2, <2>2 DEF ServerInv, FirstUseHolds
  <2> QED BY <1>6, <2>6, <2>7, <2>8, <2>9, <2>10 DEF ServerInv
<1> QED BY <1>7, <1>8 DEF ResetUpdates

LEMMA ResetUnregistersKeeps ==
  ASSUME KeysType, ServerInv, NEW r \in resets, ResetUnregisters(r)
  PROVE  ServerInv'
<1> DEFINE s == r.server
<1>1. r \in Reset /\ s \in Servers /\ \A q \in resets : q.server \in Servers
  BY DEF KeysType, Reset
<1>2. /\ r.step = "unregister" /\ resets' = resets \ {r}
      /\ issued' = [issued EXCEPT ![s] = r.key]
      /\ mixed' = IF r.alone THEN mixed \ {s} ELSE mixed
      /\ UNCHANGED <<row, dial, holders>>
  BY DEF ResetUnregisters, tables
<1>3. registry'[s] = NoConn /\ \A t \in Servers \ {s} : registry'[t] = registry[t]
  BY <1>1 DEF ResetUnregisters, Unregister, registryVars, KeysType, RegistryType
<1>4. issued'[s] = r.key /\ \A t \in Servers \ {s} : issued'[t] = issued[t]
  BY <1>1, <1>2 DEF KeysType
<1>5. /\ \A t \in Servers : Dialling(t)' = Dialling(t)
      /\ \A t \in Servers \ {s} : Resets(t)' = Resets(t)
      /\ Resets(s)' = Resets(s) \ {r}
      /\ r.alone => Dialling(s) = {} /\ Resets(s) = {r}
      /\ s \notin mixed' => r.alone
      /\ \A q \in resets' : q.alone => q.server # s
  BY <1>2, ResetsLess
<1>6. \A t \in Servers \ {s} : t \in mixed' <=> t \in mixed
  BY <1>2
<1>7. r.alone => holders[s] = {} /\ (row[s].present => row[s].key = r.key)
  BY <1>2 DEF ServerInv, RowAsReset
<1> HIDE DEF s
<1>8. WorksAlone'
  <2>1. \A t \in Servers \ mixed' : (\A c, d \in Dialling(t)' : c = d) /\ \A q \in Resets(t)' : q.alone
    BY <1>5, <1>6 DEF ServerInv, WorksAlone
  <2>2. \A q \in resets' : q.alone => Dialling(q.server)' = {} /\ Resets(q.server)' = {q}
    BY <1>1, <1>2, <1>5 DEF ServerInv, WorksAlone
  <2> QED BY <2>1, <2>2 DEF WorksAlone
<1>9. RowAsSeen'
  BY <1>2, <1>5, <1>6 DEF ServerInv, RowAsSeen
<1>10. RowAsReset'
  BY <1>2 DEF ServerInv, RowAsReset
<1>11. RegisteredIsIn'
  BY <1>2, <1>3 DEF ServerInv, RegisteredIsIn, Server
<1>12. KeyInForce'
  BY <1>2, <1>3, <1>4, <1>5, <1>6, <1>7 DEF ServerInv, KeyInForce
<1>13. FirstUseHolds'
  BY <1>2, <1>5, <1>6, <1>7 DEF ServerInv, FirstUseHolds
<1> QED BY <1>8, <1>9, <1>10, <1>11, <1>12, <1>13 DEF ServerInv

LEMMA ServerStepKeeps ==
  ASSUME KeysType, ServerInv, [KeysNext]_keysVars
  PROVE  ServerInv'
<1>1. ASSUME NEW s \in Servers, AskReset(s) PROVE ServerInv'
  <2> DEFINE new == [server |-> s, key |-> NextKey(s), step |-> "update", alone |-> ~Busy(s)]
  <2>1. /\ NextKey(s) \in Keys /\ resets' = Disturbed(s) \cup {new} /\ Begins(s)
        /\ UNCHANGED <<registry, row, dial, issued, holders>>
    BY <1>1 DEF AskReset, tables
  <2>2. Busy(s) \in BOOLEAN
    BY DEF Busy
  <2>3. /\ new \in Reset /\ new.server = s /\ new.step = "update" /\ new.alone = ~Busy(s)
    BY <2>1, <2>2 DEF Reset
  <2> HIDE DEF new
  <2>4. {new} \in SUBSET Reset
    BY <2>3
  <2> QED BY <2>1, <2>3, <2>4, BegunKeeps DEF KeysType
<1>2. ASSUME NEW s \in Servers, DeleteRow(s) PROVE ServerInv'
  <2>1. /\ row' = [row EXCEPT ![s] = [row[s] EXCEPT !.present = FALSE]]
        /\ Begins(s) /\ resets' = Disturbed(s) \cup {}
        /\ UNCHANGED <<registry, dial, issued, holders>>
    BY <1>2 DEF DeleteRow
  <2>2. /\ row' \in [Servers -> Row] /\ ~row'[s].present /\ row'[s].fp = row[s].fp
        /\ \A t \in Servers \ {s} : row'[t] = row[t]
    BY <2>1 DEF KeysType, Row
  <2>3. {} \in SUBSET Reset
    OBVIOUS
  <2> QED BY <2>1, <2>2, <2>3, BegunKeeps
<1>3. CASE UNCHANGED keysVars
  BY <1>3 DEF keysVars, tables, history, ServerInv, WorksAlone, RowAsSeen, RowAsReset,
     RegisteredIsIn, KeyInForce, FirstUseHolds, Dialling, Resets, Server
<1> QED BY <1>1, <1>2, <1>3, LookUpKeeps, ExchangeKeeps, ResetUpdatesKeeps,
        ResetUnregistersKeeps DEF KeysNext

----------------------------------------------------------------------------
(* The panel's key pair: a step that is not about it, or leaves one.       *)
LEMMA DialKeepsPair ==
  ASSUME KeysType, PairAtHand, NEW c \in Conns, NEW next \in Dial,
         dial' = [dial EXCEPT ![c] = next],
         next.step \in WithPair => next.pair \in Conns
  PROVE  PairAtHand'
BY DEF KeysType, PairAtHand

LEMMA ExchangeKeepsPair ==
  ASSUME KeysType, PairAtHand, NEW c \in Conns, Exchange(c)
  PROVE  PairAtHand'
<1>1. CASE GivesUp(c)
  BY <1>1, DialHas, DialKeepsPair DEF GivesUp, WithPair
<1>2. CASE SaveRow(c)
  <2> DEFINE next == [dial[c] EXCEPT !.step = AfterLookup(dial[c].agent), !.seen = NewRow]
  <2>1. dial' = [dial EXCEPT ![c] = next]
    BY <1>2 DEF SaveRow
  <2>2. dial[c] \in Dial /\ NewRow \in Row /\ AfterLookup(dial[c].agent) \in {"compare", "answer"}
    BY DialHas, KeysAssumption DEF AfterLookup, NewRow, Row, Keys, AnyAgent
  <2>3. next \in Dial /\ next.step = AfterLookup(dial[c].agent)
    BY <2>2 DEF Dial, Steps
  <2> HIDE DEF next
  <2> QED BY <2>1, <2>2, <2>3, DialKeepsPair DEF WithPair
<1>3. CASE ReadPair(c)
  <2>1. PICK step \in {"sendKeys", "findPair"}, pair \in Conns :
          dial' = [dial EXCEPT ![c].step = step, ![c].pair = pair]
    BY <1>3 DEF ReadPair, KeysType
  <2> DEFINE next == [dial[c] EXCEPT !.step = step, !.pair = pair]
  <2>2. next \in Dial /\ next.pair = pair
    BY DialHas DEF Dial, Steps
  <2>3. dial' = [dial EXCEPT ![c] = next]
    BY <2>1
  <2> HIDE DEF next
  <2> QED BY <2>2, <2>3, DialKeepsPair
<1>4. CASE \E step \in Steps :
             Goto(c, step) /\ (step \in WithPair => dial[c].step \in WithPair)
  <2>1. PICK step \in Steps :
          Goto(c, step) /\ (step \in WithPair => dial[c].step \in WithPair)
    BY <1>4
  <2> DEFINE next == [dial[c] EXCEPT !.step = step]
  <2>2. next \in Dial /\ next.step = step /\ next.pair = dial[c].pair
    BY GotoHas
  <2>3. dial' = [dial EXCEPT ![c] = next]
    BY <2>1 DEF Goto
  <2> HIDE DEF next
  <2> QED BY <2>1, <2>2, <2>3, DialKeepsPair DEF PairAtHand
<1>5. CASE FindPair(c) \/ WritePair(c)
  <2>1. dial[c].step \in WithPair
    BY <1>5 DEF FindPair, WritePair, StorePair, At, WithPair
  <2> QED BY <1>1, <1>4, <1>5, <2>1 DEF FindPair, WritePair, Steps
<1>6. CASE CompareFingerprint(c) \/ SendKeys(c) \/ StoreFingerprint(c) \/ Answer(c)
             \/ RegisterDialled(c) \/ Leave(c)
  BY <1>1, <1>4, <1>6 DEF CompareFingerprint, SendKeys, StoreFingerprint, Answer,
     RegisterDialled, Leave, Steps, WithPair
<1> QED BY <1>2, <1>3, <1>5, <1>6 DEF Exchange

LEMMA PairStepKeeps ==
  ASSUME KeysType, PairAtHand, [KeysNext]_keysVars
  PROVE  PairAtHand'
<1>1. ASSUME UNCHANGED dial PROVE PairAtHand'
  BY <1>1 DEF PairAtHand
<1>2. ASSUME NEW c \in Conns, NEW s \in Servers, NEW k \in Keys, NEW a \in AnyAgent,
             LookUpKey(c, s, k, a)
      PROVE  PairAtHand'
  <2>1. PICK step \in {"save", AfterLookup(a)} :
          dial' = [dial EXCEPT ![c] = [dial[c] EXCEPT
            !.step = step, !.server = s, !.key = k, !.agent = a,
            !.seen = IF step = "save" THEN row[s] ELSE NewRow]]
    BY <1>2 DEF LookUpKey
  <2> DEFINE next == [dial[c] EXCEPT
            !.step = step, !.server = s, !.key = k, !.agent = a,
            !.seen = IF step = "save" THEN row[s] ELSE NewRow]
  <2>2. /\ dial[c] \in Dial /\ row[s] \in Row /\ NewRow \in Row
        /\ step \in {"save", "compare", "answer"}
    BY <2>1, DialHas, KeysAssumption DEF AfterLookup, KeysType, NewRow, Row, Keys, AnyAgent
  <2>3. next \in Dial /\ next.step = step
    BY <2>2 DEF Dial, Steps
  <2>4. dial' = [dial EXCEPT ![c] = next]
    BY <2>1
  <2> HIDE DEF next
  <2> QED BY <2>2, <2>3, <2>4, DialKeepsPair DEF WithPair
<1>3. CASE \/ UNCHANGED keysVars
           \/ \E r \in resets : ResetUpdates(r) \/ ResetUnregisters(r)
           \/ \E s \in Servers : AskReset(s) \/ DeleteRow(s)
  BY <1>1, <1>3 DEF keysVars, ResetUpdates, ResetUnregisters, AskReset, DeleteRow
<1> QED BY <1>2, <1>3, ExchangeKeepsPair DEF KeysNext

----------------------------------------------------------------------------
LEMMA DialType ==
  ASSUME KeysType, NEW c \in Conns, Exchange(c)
  PROVE  dial' \in [Conns -> Dial]
<1> SUFFICES \E next \in Dial : dial' = [dial EXCEPT ![c] = next]
  BY DEF KeysType
<1>1. CASE GivesUp(c)
  BY <1>1, DialHas DEF GivesUp
<1>2. CASE \E step \in Steps : Goto(c, step)
  <2>1. PICK step \in Steps : Goto(c, step)
    BY <1>2
  <2> QED BY <2>1, GotoHas DEF Goto
<1>3. CASE SaveRow(c)
  <2> DEFINE next == [dial[c] EXCEPT !.step = AfterLookup(dial[c].agent), !.seen = NewRow]
  <2>1. dial[c] \in Dial /\ NewRow \in Row /\ AfterLookup(dial[c].agent) \in Steps
    BY DialHas, KeysAssumption DEF AfterLookup, NewRow, Row, Keys, AnyAgent, Steps
  <2>2. next \in Dial
    BY <2>1 DEF Dial
  <2>3. dial' = [dial EXCEPT ![c] = next]
    BY <1>3 DEF SaveRow
  <2> QED BY <2>2, <2>3
<1>4. CASE ReadPair(c)
  <2>1. PICK step \in {"sendKeys", "findPair"}, pair \in Conns :
          dial' = [dial EXCEPT ![c].step = step, ![c].pair = pair]
    BY <1>4 DEF ReadPair, KeysType
  <2> DEFINE next == [dial[c] EXCEPT !.step = step, !.pair = pair]
  <2>2. next \in Dial
    BY DialHas DEF Dial, Steps
  <2>3. dial' = [dial EXCEPT ![c] = next]
    BY <2>1
  <2> QED BY <2>2, <2>3
<1> QED BY <1>1, <1>2, <1>3, <1>4 DEF Exchange, CompareFingerprint, FindPair, WritePair, SendKeys,
        StoreFingerprint, Answer, RegisterDialled, Leave, Steps

LEMMA ExchangeType ==
  ASSUME KeysType, PairAtHand, NEW c \in Conns, Exchange(c)
  PROVE  KeysType'
<1>1. dial' \in [Conns -> Dial]
  BY DialType
<1>2. dial[c] \in Dial /\ Server(c) \in Servers /\ dial[c].agent \in AnyAgent /\ dial[c].seen \in Row
  BY DialHas
<1>3. UNCHANGED <<resets, issued>>
  BY DEF Exchange, SaveRow, CompareFingerprint, ReadPair, FindPair, WritePair, SendKeys,
     StoreFingerprint, Answer, RegisterDialled, Leave, tables, history
<1>4. RegistryType'
  BY <1>2 DEF Exchange, SaveRow, CompareFingerprint, ReadPair, FindPair, WritePair, SendKeys,
     StoreFingerprint, Answer, RegisterDialled, Leave, Register, Unregister, registryVars,
     KeysType, RegistryType
<1>5. row' \in [Servers -> Row]
  <2>1. [row[Server(c)] EXCEPT !.fp = dial[c].agent] \in Row
    BY <1>2 DEF KeysType, Row
  <2>2. \/ row' = row
        \/ row' = [row EXCEPT ![Server(c)] = dial[c].seen]
        \/ row' = [row EXCEPT ![Server(c)] = [row[Server(c)] EXCEPT !.fp = dial[c].agent]]
    BY DEF Exchange, SaveRow, CompareFingerprint, ReadPair, FindPair, WritePair, SendKeys,
       StoreFingerprint, Answer, RegisterDialled, Leave, tables
  <2> QED BY <1>2, <2>1, <2>2 DEF KeysType
<1>6. panelPair' \in Conns \cup {NoConn}
  BY DEF Exchange, SaveRow, CompareFingerprint, ReadPair, FindPair, WritePair, StorePair,
     SendKeys, StoreFingerprint, Answer, RegisterDialled, Leave, tables, KeysType
<1>7. holders' \in [Servers -> SUBSET Agents]
  <2>1. \/ holders' = holders
        \/ holders' = [holders EXCEPT ![Server(c)] = holders[Server(c)] \cup ({dial[c].agent} \ {NoAgent})]
    BY DEF Exchange, SaveRow, CompareFingerprint, ReadPair, FindPair, WritePair, SendKeys,
       StoreFingerprint, Answer, RegisterDialled, Leave, history
  <2> QED BY <1>2, <2>1 DEF KeysType, AnyAgent
<1>8. mixed' \subseteq Servers
  BY <1>2 DEF Exchange, SaveRow, CompareFingerprint, ReadPair, FindPair, WritePair, SendKeys,
     StoreFingerprint, Answer, RegisterDialled, Leave, history, KeysType
<1>9. told' \subseteq Conns
  BY <1>2 DEF Exchange, SaveRow, CompareFingerprint, ReadPair, FindPair, WritePair, SendKeys,
     StoreFingerprint, Answer, RegisterDialled, Leave, history, KeysType, PairAtHand,
     WithPair, At
<1> QED BY <1>1, <1>3, <1>4, <1>5, <1>6, <1>7, <1>8, <1>9 DEF KeysType

LEMMA KeysStepType ==
  ASSUME KeysType, PairAtHand, [KeysNext]_keysVars
  PROVE  KeysType'
<1>1. ASSUME NEW c \in Conns, NEW s \in Servers, NEW k \in Keys, NEW a \in AnyAgent,
             LookUpKey(c, s, k, a)
      PROVE  KeysType'
  <2>1. PICK step \in {"save", AfterLookup(a)} :
          dial' = [dial EXCEPT ![c] = [dial[c] EXCEPT
            !.step = step, !.server = s, !.key = k, !.agent = a,
            !.seen = IF step = "save" THEN row[s] ELSE NewRow]]
    BY <1>1 DEF LookUpKey
  <2> DEFINE next == [dial[c] EXCEPT
            !.step = step, !.server = s, !.key = k, !.agent = a,
            !.seen = IF step = "save" THEN row[s] ELSE NewRow]
  <2>2. dial[c] \in Dial /\ row[s] \in Row /\ NewRow \in Row /\ step \in Steps
    BY <2>1, DialHas, KeysAssumption DEF AfterLookup, KeysType, NewRow, Row, Keys, AnyAgent, Steps
  <2>3. next \in Dial
    BY <2>2 DEF Dial
  <2>4. dial' = [dial EXCEPT ![c] = next]
    BY <2>1
  <2> HIDE DEF next
  <2>5. resets' = Disturbed(s) \cup {} /\ {} \in SUBSET Reset
    BY <1>1 DEF LookUpKey
  <2>6. resets' \subseteq Reset
    BY <2>5, DisturbedHas
  <2> QED BY <1>1, <2>3, <2>4, <2>6 DEF LookUpKey, Begins, tables, KeysType, RegistryType
<1>2. ASSUME NEW r \in resets, ResetUpdates(r) PROVE KeysType'
  <2>1. r \in Reset
    BY DEF KeysType
  <2>2. [r EXCEPT !.step = "unregister"] \in Reset /\ r.server \in Servers /\ r.key \in Keys
    BY <2>1 DEF Reset
  <2>3. resets' \subseteq Reset
    BY <1>2, <2>2 DEF ResetUpdates, KeysType
  <2>4. row' \in [Servers -> Row]
    <3>1. [row[r.server] EXCEPT !.key = r.key, !.fp = NoAgent] \in Row
      BY <2>2 DEF KeysType, Row, AnyAgent
    <3> QED BY <1>2, <2>2, <3>1 DEF ResetUpdates, KeysType
  <2>5. holders' \in [Servers -> SUBSET Agents]
    BY <1>2 DEF ResetUpdates, KeysType
  <2> QED BY <1>2, <2>3, <2>4, <2>5 DEF ResetUpdates, KeysType, RegistryType
<1>3. ASSUME NEW r \in resets, ResetUnregisters(r) PROVE KeysType'
  <2>1. r.server \in Servers /\ r.key \in Keys
    BY DEF KeysType, Reset
  <2> QED BY <1>3, <2>1 DEF ResetUnregisters, Unregister, registryVars, tables, KeysType,
             RegistryType
<1>4. ASSUME NEW s \in Servers, AskReset(s) PROVE KeysType'
  <2> DEFINE new == [server |-> s, key |-> NextKey(s), step |-> "update", alone |-> ~Busy(s)]
  <2>1. NextKey(s) \in Keys /\ resets' = Disturbed(s) \cup {new} /\ Busy(s) \in BOOLEAN
    BY <1>4 DEF AskReset, Busy
  <2>2. new \in Reset /\ new.server = s
    BY <2>1 DEF Reset
  <2> HIDE DEF new
  <2>3. {new} \in SUBSET Reset /\ \A r \in {new} : r.server = s
    BY <2>2
  <2>4. resets' \subseteq Reset
    BY <2>1, <2>3, DisturbedHas
  <2> QED BY <1>4, <2>4 DEF AskReset, Begins, tables, KeysType, RegistryType
<1>5. ASSUME NEW s \in Servers, DeleteRow(s) PROVE KeysType'
  <2>1. row' \in [Servers -> Row]
    BY <1>5 DEF DeleteRow, KeysType, Row
  <2>2. resets' = Disturbed(s) \cup {} /\ {} \in SUBSET Reset
    BY <1>5 DEF DeleteRow
  <2>3. resets' \subseteq Reset
    BY <2>2, DisturbedHas
  <2> QED BY <1>5, <2>1, <2>3 DEF DeleteRow, Begins, KeysType, RegistryType
<1>6. CASE UNCHANGED keysVars
  BY <1>6 DEF keysVars, tables, history, KeysType, RegistryType
<1> QED BY <1>1, <1>2, <1>3, <1>4, <1>5, <1>6, ExchangeType DEF KeysNext

----------------------------------------------------------------------------
(***************************************************************************)
(* The invariant the theorems below are parts of: what works on a server   *)
(* that is not mixed works alone, so what it has read is still so.         *)
(***************************************************************************)
THEOREM KeysInvariance == KeysSpec => []KeysInv
<1>1. KeysInit => KeysInv
  <2> SUFFICES ASSUME KeysInit PROVE KeysInv
    OBVIOUS
  <2>1. Undialled \in Dial /\ NewRow \in Row /\ 1 \in Keys
    BY KeysAssumption DEF Undialled, Dial, Steps, NewRow, Row, Keys, AnyAgent
  <2>2. KeysType
    <3>1. dial \in [Conns -> Dial] /\ row \in [Servers -> Row] /\ panelPair \in Conns \cup {NoConn}
      BY <2>1 DEF KeysInit
    <3>2. issued \in [Servers -> Keys] /\ holders \in [Servers -> SUBSET Agents]
      BY <2>1 DEF KeysInit
    <3> QED BY <3>1, <3>2 DEF KeysInit, RegistryInit, KeysType, RegistryType
  <2>3. \A c \in Conns : dial[c].step = "new"
    BY DEF KeysInit, Undialled
  <2>4. \A s \in Servers : Dialling(s) = {} /\ Resets(s) = {}
    BY <2>3 DEF Dialling, Resets, KeysInit
  <2>5. ServerInv
    BY <2>3, <2>4 DEF KeysInit, RegistryInit, NewRow, ServerInv, WorksAlone, RowAsSeen,
       RowAsReset, RegisteredIsIn, KeyInForce, FirstUseHolds
  <2>6. PairAtHand
    BY <2>3 DEF PairAtHand, WithPair
  <2> QED BY <2>2, <2>5, <2>6 DEF KeysInv
<1>2. KeysInv /\ [KeysNext]_keysVars => KeysInv'
  BY KeysStepType, ServerStepKeeps, PairStepKeeps DEF KeysInv
<1> QED BY <1>1, <1>2, PTL DEF KeysSpec

(***************************************************************************)
(* The rows, the authentications and the resets keep their types.          *)
(***************************************************************************)
THEOREM KeysTypeCorrect == KeysSpec => []KeysType
<1>1. KeysInv => KeysType
  BY DEF KeysInv
<1> QED BY <1>1, KeysInvariance, PTL

(***************************************************************************)
(* One agent speaks for a server until its key is reset, whichever of its  *)
(* steps fail, unless the queries of two callers interleaved.              *)
(***************************************************************************)
THEOREM OneAgentSpeaks == KeysSpec => []FirstUseHolds
<1>1. KeysInv => FirstUseHolds
  BY DEF KeysInv, ServerInv
<1> QED BY <1>1, KeysInvariance, PTL

(***************************************************************************)
(* The key the API answered last is the one in force, in the row and for   *)
(* the agent that is connected, once no reset is at work and unless the    *)
(* queries of two callers interleaved since.                               *)
(***************************************************************************)
THEOREM ResetIsInForce == KeysSpec => []ResetTakes
<1>1. KeysInv => ResetTakes
  BY DEF KeysInv, ServerInv, KeyInForce, ResetTakes
<1> QED BY <1>1, KeysInvariance, PTL

(***************************************************************************)
(* Only a reset replaces the key or the fingerprint of a row.  What an     *)
(* authentication saves as a whole is the row as it is (RowAsSeen), and    *)
(* the fingerprint it stores is the one that is there, if one is.          *)
(***************************************************************************)
LEMMA StepReplaces ==
  ASSUME KeysInv, [KeysNext]_keysVars, NEW s \in Servers \ mixed
  PROVE  \/ \E r \in Resets(s) : ResetUpdates(r)
         \/ /\ row'[s].key = row[s].key
            /\ row[s].fp # NoAgent => row'[s].fp = row[s].fp
            /\ row'[s].present => row[s].present
<1> DEFINE Same == /\ row'[s].key = row[s].key
                   /\ row[s].fp # NoAgent => row'[s].fp = row[s].fp
                   /\ row'[s].present => row[s].present
<1>0. /\ KeysType /\ row \in [Servers -> Row]
      /\ \A c \in Dialling(s) :
           /\ dial[c].step = "save" => dial[c].seen = row[s]
           /\ dial[c].step \in Trusted => row[s].fp \in {NoAgent, dial[c].agent}
  BY DEF KeysInv, ServerInv, RowAsSeen, KeysType
<1>1. row' = row => Same
  OBVIOUS
<1>2. ASSUME NEW c \in Conns, SaveRow(c) PROVE Same
  <2>1. CASE Server(c) = s
    <3>1. c \in Dialling(s) /\ dial[c].step = "save"
      BY <1>2, <2>1 DEF SaveRow, At, Dialling
    <3> QED BY <1>0, <1>2, <2>1, <3>1 DEF SaveRow
  <2>2. CASE Server(c) # s
    BY <1>0, <1>2, <2>2 DEF SaveRow
  <2> QED BY <2>1, <2>2
<1>3. ASSUME NEW c \in Conns, StoreFingerprint(c) PROVE Same
  <2>1. CASE Server(c) = s
    <3>1. c \in Dialling(s) /\ dial[c].step \in Trusted
      BY <1>3, <2>1 DEF StoreFingerprint, At, Dialling, Trusted
    <3>2. row[s].fp \in {NoAgent, dial[c].agent} /\ row[s] \in Row
      BY <1>0, <3>1
    <3> QED BY <1>0, <1>3, <2>1, <3>2 DEF StoreFingerprint, Row
  <2>2. CASE Server(c) # s
    BY <1>0, <1>3, <2>2 DEF StoreFingerprint
  <2> QED BY <2>1, <2>2
<1>4. ASSUME NEW c \in Conns, Exchange(c) PROVE Same
  BY <1>1, <1>2, <1>3, <1>4
     DEF Exchange, CompareFingerprint, ReadPair, FindPair, WritePair, SendKeys, Answer,
         RegisterDialled, Leave, tables
<1>5. ASSUME NEW r \in resets, ResetUpdates(r), r.server # s PROVE Same
  BY <1>0, <1>5 DEF ResetUpdates
<1>6. ASSUME NEW t \in Servers, DeleteRow(t) PROVE Same
  BY <1>0, <1>6 DEF DeleteRow, Row
<1>7. ASSUME NEW c \in Conns, NEW t \in Servers, NEW k \in Keys, NEW a \in AnyAgent,
             LookUpKey(c, t, k, a)
      PROVE  Same
  BY <1>1, <1>7 DEF LookUpKey, tables
<1>8. ASSUME NEW r \in resets, ResetUnregisters(r) PROVE Same
  BY <1>1, <1>8 DEF ResetUnregisters, tables
<1>9. ASSUME NEW t \in Servers, AskReset(t) PROVE Same
  BY <1>1, <1>9 DEF AskReset, tables
<1>10. UNCHANGED keysVars => Same
  BY <1>1 DEF keysVars, tables
<1> QED
  BY <1>4, <1>5, <1>6, <1>7, <1>8, <1>9, <1>10 DEF KeysNext, Resets

(***************************************************************************)
(* Trust on first use: no authentication and no deletion changes what the  *)
(* first agent has left in the row, nor the key.                           *)
(***************************************************************************)
THEOREM FirstUseStays == KeysSpec => OnlyResetsReplace
<1>1. KeysInv /\ [KeysNext]_keysVars =>
        [\A s \in Servers \ mixed :
           \/ \E r \in Resets(s) : ResetUpdates(r)
           \/ /\ row'[s].key = row[s].key
              /\ row[s].fp # NoAgent => row'[s].fp = row[s].fp
              /\ row'[s].present => row[s].present]_keysVars
  BY StepReplaces
<1> QED BY <1>1, KeysInvariance, PTL DEF KeysSpec, OnlyResetsReplace

(***************************************************************************)
(* Authentications, resets and deletions drive the registry by its two     *)
(* operations only, each for the server it has looked up.                  *)
(***************************************************************************)
THEOREM KeysKeepRegistry == KeysSpec => RegistrySpec
<1>1. KeysInit => RegistryInit
  BY DEF KeysInit
<1>2. KeysType /\ [KeysNext]_keysVars => [RegistryNext]_registryVars
  <2> SUFFICES ASSUME KeysType, [KeysNext]_keysVars
               PROVE  RegistryNext \/ UNCHANGED registryVars
    OBVIOUS
  <2> DEFINE Drives == RegistryNext \/ UNCHANGED registryVars
  <2>0. \A s \in Servers : /\ Unregister(s) => RegistryNext
                           /\ \A c \in Conns : Register(s, c) => RegistryNext
    BY DEF RegistryNext
  <2>1. ASSUME NEW c \in Conns, Exchange(c) PROVE Drives
    <3>1. Server(c) \in Servers
      BY DialHas
    <3>2. CASE RegisterDialled(c)
      BY <2>0, <3>1, <3>2 DEF RegisterDialled
    <3>3. CASE Leave(c)
      BY <2>0, <3>1, <3>3 DEF Leave
    <3>4. CASE ~RegisterDialled(c) /\ ~Leave(c)
      BY <2>1, <3>4 DEF Exchange, SaveRow, CompareFingerprint, ReadPair, FindPair, WritePair,
         SendKeys, StoreFingerprint, Answer, registryVars
    <3> QED BY <3>2, <3>3, <3>4
  <2>2. ASSUME NEW r \in resets, ResetUpdates(r) \/ ResetUnregisters(r) PROVE Drives
    <3>1. r.server \in Servers
      BY DEF KeysType, Reset
    <3>2. CASE ResetUpdates(r)
      BY <3>2 DEF ResetUpdates, registryVars
    <3>3. CASE ResetUnregisters(r)
      BY <2>0, <3>1, <3>3 DEF ResetUnregisters
    <3> QED BY <2>2, <3>2, <3>3
  <2>3. ASSUME NEW c \in Conns, NEW s \in Servers, NEW k \in Keys, NEW a \in AnyAgent,
               LookUpKey(c, s, k, a)
        PROVE  Drives
    BY <2>3 DEF LookUpKey, registryVars
  <2>4. ASSUME NEW s \in Servers, AskReset(s) \/ DeleteRow(s) PROVE Drives
    BY <2>4 DEF AskReset, DeleteRow, registryVars
  <2>5. CASE UNCHANGED keysVars
    BY <2>5 DEF keysVars, registryVars
  <2> QED BY <2>1, <2>2, <2>3, <2>4, <2>5 DEF KeysNext
<1> QED BY <1>1, <1>2, KeysTypeCorrect, PTL DEF KeysSpec, RegistrySpec
============================================================================
