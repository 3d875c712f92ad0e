----------------------------- MODULE AgentKeys -----------------------------
(***************************************************************************)
(* Who may speak for a server.  A server has a key, which the API issues,  *)
(* and the fingerprint of the agent that used the key first.  HandleAuth   *)
(* (handler.go) looks the key up, compares and later stores the            *)
(* fingerprint, and hands the agent the panel's public key, which it       *)
(* generates if it reads none; the API resets a key or deletes the server. *)
(* Every query is a step of its own: no transaction and no lock keeps two  *)
(* of these apart.  The registry is the one of AgentRegistry.              *)
(***************************************************************************)
EXTENDS AgentRegistry, Naturals, FiniteSets

CONSTANTS
  Agents,    (* the agents that own a key pair, named by its fingerprint   *)
  NoAgent,   (* no fingerprint; an agent that shows no public key          *)
  MaxKeys,   (* bound: the keys issued for one server                      *)
  MaxDials   (* bound: the authentications of one server at a time         *)

ASSUME KeysAssumption ==
  /\ Servers # {}
  /\ NoAgent \notin Agents /\ MaxKeys \in Nat \ {0} /\ MaxDials \in Nat

VARIABLES
  row,       (* the key and the fingerprint in the servers table           *)
  panelPair, (* the first row of panel_rsa_keys, if there is one; a pair   *)
             (* is named by the connection that generated it               *)
  dial,      (* the authentication of each connection                      *)
  resets,    (* the requests ResetAgentKey is at work on                   *)
  issued,    (* history: the key of each server that the API answered last *)
  holders,   (* history: the agents let in since the key was last written  *)
  mixed,     (* history: servers whose queries of two callers interleaved, *)
             (* or failed to be stored, since a reset that ran by itself   *)
  told       (* history: the pairs agents were told the public key of      *)

tables == <<row, panelPair>>
history == <<issued, holders, mixed, told>>
keysVars == <<registry, used, tables, dial, resets, history>>

Keys == 1 .. MaxKeys
AnyAgent == Agents \cup {NoAgent}
Row == [present : BOOLEAN, key : Keys, fp : AnyAgent]

Steps == {"new", "save", "compare", "readPair", "findPair", "createPair",
          "updatePair", "sendKeys", "storeFingerprint", "answer", "register",
          "in", "out"}

Dial == [step : Steps, server : Servers, key : Keys, agent : AnyAgent,
         seen : Row, pair : Conns \cup {NoConn}]

Reset == [server : Servers, key : Keys, step : {"update", "unregister"},
          alone : BOOLEAN]

KeysType ==
  /\ RegistryType
  /\ row \in [Servers -> Row]
  /\ panelPair \in Conns \cup {NoConn}
  /\ dial \in [Conns -> Dial]
  /\ resets \subseteq Reset
  /\ issued \in [Servers -> Keys]
  /\ holders \in [Servers -> SUBSET Agents]
  /\ mixed \subseteq Servers
  /\ told \subseteq Conns

(* CreateServer has stored the servers, each with its first key; neither a *)
(* migration nor a seeder stores panel_rsa_keys.                           *)
NewRow == [present |-> TRUE, key |-> 1, fp |-> NoAgent]

Undialled ==
  [step |-> "new", server |-> CHOOSE s \in Servers : TRUE, key |-> 1,
   agent |-> NoAgent, seen |-> NewRow, pair |-> NoConn]

KeysInit ==
  /\ RegistryInit
  /\ row = [s \in Servers |-> NewRow]
  /\ panelPair = NoConn
  /\ dial = [c \in Conns |-> Undialled]
  /\ resets = {}
  /\ issued = [s \in Servers |-> 1]
  /\ holders = [s \in Servers |-> {}]
  /\ mixed = {}
  /\ told = {}

----------------------------------------------------------------------------
At(c, step) == dial[c].step = step
Server(c) == dial[c].server
Dialling(s) ==
  {c \in Conns : Server(c) = s /\ dial[c].step \notin {"new", "in", "out"}}
Resets(s) == {r \in resets : r.server = s}
Busy(s) == Dialling(s) # {} \/ Resets(s) # {}

Goto(c, step) == dial' = [dial EXCEPT ![c].step = step]

(* HandleAuth returns an error, or the connection has ended.               *)
GivesUp(c) ==
  dial' = [dial EXCEPT ![c] = [Undialled EXCEPT !.step = "out"]]

(* What begins on a server that is busy mixes with what is at work on it.  *)
Begins(s) == mixed' = IF Busy(s) THEN mixed \cup {s} ELSE mixed
Disturbed(s) ==
  {IF r.server = s THEN [r EXCEPT !.alone = FALSE] ELSE r : r \in resets}

----------------------------------------------------------------------------
(* ValidateAgentAuth looks the key up; a row with another address is to be *)
(* saved as a whole.  An agent without a key pair skips the exchange.      *)
AfterLookup(a) == IF a = NoAgent THEN "answer" ELSE "compare"

LookUpKey(c, s, k, a) ==
  /\ At(c, "new") /\ c \notin used
  /\ Cardinality(Dialling(s)) < MaxDials
  /\ row[s].present /\ row[s].key = k
  /\ \E step \in {"save", AfterLookup(a)} :
       dial' = [dial EXCEPT ![c] = [@ EXCEPT !.step = step, !.server = s,
                                    !.key = k, !.agent = a,
                                    !.seen = IF step = "save" THEN row[s] ELSE NewRow]]
  /\ Begins(s)
  /\ resets' = Disturbed(s)
  /\ UNCHANGED <<registry, used, tables, issued, holders, told>>

(* Faulty variant: the row was read without the fingerprint.               *)
SaveRowUnread(c) ==
  /\ At(c, "save")
  /\ row' = [row EXCEPT ![Server(c)] = [dial[c].seen EXCEPT !.fp = NoAgent]]
  /\ dial' = [dial EXCEPT ![c].step = AfterLookup(dial[c].agent), ![c].seen = NewRow]
  /\ UNCHANGED <<registry, used, panelPair, resets, history>>

(* Nobody looks at the error of this save; a row that is gone comes back.  *)
SaveRow(c) ==
  /\ At(c, "save")
  /\ \/ row' = [row EXCEPT ![Server(c)] = dial[c].seen]
     \/ UNCHANGED row
  /\ dial' = [dial EXCEPT ![c].step = AfterLookup(dial[c].agent), ![c].seen = NewRow]
  /\ UNCHANGED <<registry, used, panelPair, resets, history>>

(* Faulty variant: any agent that has the key is let in.                   *)
CompareNothing(c) ==
  /\ At(c, "compare")
  /\ \/ row[Server(c)].present /\ Goto(c, "readPair")
     \/ GivesUp(c)
  /\ UNCHANGED <<registry, used, tables, resets, history>>

CompareFingerprint(c) ==
  /\ At(c, "compare")
  /\ \/ /\ row[Server(c)].present
        /\ row[Server(c)].fp \in {NoAgent, dial[c].agent}
        /\ Goto(c, "readPair")
     \/ GivesUp(c)
  /\ UNCHANGED <<registry, used, tables, resets, history>>

(* Faulty variant: without the checks for empty keys, what is read of no   *)
(* row counts as a pair.                                                   *)
ReadPairEmpty(c) ==
  /\ At(c, "readPair")
  /\ dial' = [dial EXCEPT ![c].step = "sendKeys", ![c].pair = panelPair]
  /\ UNCHANGED <<registry, used, tables, resets, history>>

(* getOrGeneratePanelKeyPair: an error counts as "there is none".          *)
ReadPair(c) ==
  /\ At(c, "readPair")
  /\ \/ /\ panelPair # NoConn
        /\ dial' = [dial EXCEPT ![c].step = "sendKeys", ![c].pair = panelPair]
     \/ dial' = [dial EXCEPT ![c].step = "findPair", ![c].pair = c]
  /\ UNCHANGED <<registry, used, tables, resets, history>>

(* SetValue updates the row unless the query for it fails: First gives no  *)
(* error for a row that is not there.                                      *)
FindPair(c) ==
  /\ At(c, "findPair")
  /\ Goto(c, "updatePair") \/ Goto(c, "createPair")
  /\ UNCHANGED <<registry, used, tables, resets, history>>

(* An update of no row changes nothing and succeeds, and so does creating  *)
(* a second row, for the table has no unique index: First reads the first. *)
StorePair(c) ==
  \/ At(c, "updatePair") /\ panelPair' = IF panelPair = NoConn THEN NoConn ELSE c
  \/ At(c, "createPair") /\ panelPair' = IF panelPair = NoConn THEN c ELSE panelPair

WritePair(c) ==
  /\ \/ StorePair(c) /\ Goto(c, "sendKeys")
     \/ /\ At(c, "createPair") \/ At(c, "updatePair")
        /\ UNCHANGED panelPair
        /\ GivesUp(c)
  /\ UNCHANGED <<registry, used, row, resets, history>>

(* Two messages, each of which may fail to be written.                     *)
SendKeys(c) ==
  /\ At(c, "sendKeys")
  /\ \/ told' = told /\ GivesUp(c)
     \/ /\ told' = told \cup {dial[c].pair}
        /\ Goto(c, "storeFingerprint") \/ GivesUp(c)
  /\ UNCHANGED <<registry, used, tables, resets, issued, holders, mixed>>

(* An update that fails, or finds no row, is logged at most.               *)
StoreFingerprint(c) ==
  /\ At(c, "storeFingerprint")
  /\ Goto(c, "answer")
  /\ \/ /\ row' = IF row[Server(c)].present
                  THEN [row EXCEPT ![Server(c)].fp = dial[c].agent] ELSE row
        /\ UNCHANGED mixed
     \/ UNCHANGED row /\ mixed' = mixed \cup {Server(c)}
  /\ UNCHANGED <<registry, used, panelPair, resets, issued, holders, told>>

(* The state is set before the answer is written, whose error ends only    *)
(* HandleAuth: the connection then counts as authenticated.                *)
Answer(c) ==
  /\ At(c, "answer")
  /\ \E step \in {"register", "in"} : Goto(c, step)
  /\ holders' = [holders EXCEPT ![Server(c)] = @ \cup ({dial[c].agent} \ {NoAgent})]
  /\ UNCHANGED <<registry, used, tables, resets, issued, mixed, told>>

RegisterDialled(c) ==
  /\ At(c, "register")
  /\ Register(Server(c), c)
  /\ Goto(c, "in")
  /\ UNCHANGED <<tables, resets, history>>

(* An authenticated connection ends: its server is unregistered.           *)
Leave(c) ==
  /\ At(c, "in")
  /\ \/ Unregister(Server(c))
     \/ registry[Server(c)] = NoConn /\ UNCHANGED registryVars
  /\ GivesUp(c)
  /\ UNCHANGED <<tables, resets, history>>

Exchange(c) ==
  \/ SaveRow(c) \/ CompareFingerprint(c)
  \/ ReadPair(c) \/ FindPair(c) \/ WritePair(c)
  \/ SendKeys(c) \/ StoreFingerprint(c)
  \/ Answer(c) \/ RegisterDialled(c) \/ Leave(c)

----------------------------------------------------------------------------
(* ResetAgentKey: the server is looked up, which a missing row passes (so  *)
(* does the update), the row written, the connection unregistered, and the *)
(* new key answered.                                                       *)
NextKey(s) ==
  1 + Cardinality({k \in Keys : \/ k <= row[s].key \/ k <= issued[s]
                                \/ \E r \in Resets(s) : k <= r.key})

AskReset(s) ==
  /\ NextKey(s) \in Keys
  /\ resets' = Disturbed(s) \cup
       {[server |-> s, key |-> NextKey(s), step |-> "update", alone |-> ~Busy(s)]}
  /\ Begins(s)
  /\ UNCHANGED <<registry, used, tables, dial, issued, holders, told>>

ResetUpdates(r) ==
  /\ r.step = "update"
  /\ \/ /\ row' = IF row[r.server].present
                  THEN [row EXCEPT ![r.server] = [@ EXCEPT !.key = r.key, !.fp = NoAgent]]
                  ELSE row
        /\ resets' = (resets \ {r}) \cup {[r EXCEPT !.step = "unregister"]}
        /\ holders' = [holders EXCEPT ![r.server] = {}]
     \/ resets' = resets \ {r} /\ UNCHANGED <<row, holders>>
  /\ UNCHANGED <<registry, used, panelPair, dial, issued, mixed, told>>

(* Faulty variant of ResetUnregisters: the agent stays connected.          *)
ResetKeepsAgent(r) ==
  /\ r.step = "unregister"
  /\ resets' = resets \ {r}
  /\ issued' = [issued EXCEPT ![r.server] = r.key]
  /\ mixed' = IF r.alone THEN mixed \ {r.server} ELSE mixed
  /\ UNCHANGED <<registry, used, tables, dial, holders, told>>

ResetUnregisters(r) ==
  /\ r.step = "unregister"
  /\ \/ Unregister(r.server)
     \/ registry[r.server] = NoConn /\ UNCHANGED registryVars
  /\ resets' = resets \ {r}
  /\ issued' = [issued EXCEPT ![r.server] = r.key]
  /\ mixed' = IF r.alone THEN mixed \ {r.server} ELSE mixed
  /\ UNCHANGED <<tables, dial, holders, told>>

(* The last statement of DeleteServer.  The agent stays connected.         *)
DeleteRow(s) ==
  /\ row[s].present
  /\ row' = [row EXCEPT ![s].present = FALSE]
  /\ Begins(s)
  /\ resets' = Disturbed(s)
  /\ UNCHANGED <<registry, used, panelPair, dial, issued, holders, told>>

----------------------------------------------------------------------------
KeysNext ==
  \/ \E c \in Conns :
       \/ \E s \in Servers, k \in Keys, a \in AnyAgent : LookUpKey(c, s, k, a)
       \/ Exchange(c)
  \/ \E r \in resets : ResetUpdates(r) \/ ResetUnregisters(r)
  \/ \E s \in Servers : AskReset(s) \/ DeleteRow(s)

KeysSpec == KeysInit /\ [][KeysNext]_keysVars

----------------------------------------------------------------------------
(***************************************************************************)
(* One agent speaks for a server until its key is reset: all that were let *)
(* in with the exchange own the fingerprint in the row ("检查数据库中是否已有 *)
(* Agent 公钥指纹", handler.go:183), whatever failed in between, if the     *)
(* queries of two callers did not interleave since a reset.                *)
(***************************************************************************)
FirstUseHolds ==
  \A s \in Servers \ mixed : holders[s] \subseteq {row[s].fp}

(***************************************************************************)
(* Only a reset replaces the key or a fingerprint that is there, and       *)
(* nothing brings a deleted row back, though an authentication compares    *)
(* with one query (handler.go:184-188), stores with another, and may save  *)
(* a row it has read before either; if the queries of two callers did not  *)
(* interleave.                                                             *)
(***************************************************************************)
OnlyResetsReplace ==
  [][\A s \in Servers \ mixed :
       \/ \E r \in Resets(s) : ResetUpdates(r)
       \/ /\ row'[s].key = row[s].key
          /\ row[s].fp # NoAgent => row'[s].fp = row[s].fp
          /\ row'[s].present => row[s].present]_keysVars

(***************************************************************************)
(* A reset takes: the key the API answered is the key in the row, and the  *)
(* agent that is connected used it (server_controller.go:1413-1427).  What *)
(* interleaved with an earlier reset is put right by one that ran by       *)
(* itself.                                                                 *)
(***************************************************************************)
ResetTakes ==
  \A s \in Servers \ mixed :
    Resets(s) = {} /\ row[s].present =>
      /\ row[s].key = issued[s]
      /\ registry[s] # NoConn => dial[registry[s]].key = issued[s]

(***************************************************************************)
(* The pair whose public key an agent is told is the one that is stored:   *)
(* "保存到 system_settings" (handler.go:361).  The code does not give it.  *)
(***************************************************************************)
PanelKeyIsStored == told \subseteq {panelPair}
============================================================================
