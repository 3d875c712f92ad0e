--------------------------- MODULE ServerRecords ---------------------------
(***************************************************************************)
(* The servers, their groups and what belongs to a server in other tables, *)
(* and the requests of the API that change them (server_controller.go,     *)
(* server_group_controller.go, server_alert_controller.go).  A request is  *)
(* a list of statements.  Each is a step of its own, for no transaction    *)
(* encloses them, each may fail, and each says what its failure does.      *)
(* Beside the requests agents authenticate, which may write a whole row    *)
(* back, report data and report their configuration, which a request may   *)
(* be changing.                                                            *)
(***************************************************************************)
EXTENDS Naturals, Sequences, FiniteSets, FiniteSetsExt

CONSTANTS
  Servers,    (* ids of servers, each given out once                       *)
  Groups,     (* ids of groups, each given out once                        *)
  Requests,   (* every request ever made; it names the values it writes    *)
  None,       (* no value: no row, no group, the default configuration     *)
  Empty,      (* a configuration that was cleared                          *)
  BaseRules,  (* cpu, memory, disk: written by SaveServerRules             *)
  OtherRules, (* bandwidth, traffic, expiration: written one by one        *)
  Channels,   (* email, webhook                                            *)
  Tables,     (* the tables of agents' reports that DeleteServer names     *)
  Logs,       (* those it does not name: agent_logs                        *)
  AtOnce,     (* bound: the requests at work at a time                     *)
  Dialling    (* bound: the servers whose agents connect                   *)

ASSUME RecordsAssumption ==
  /\ None \notin Groups \cup Requests /\ Empty \notin Requests \cup {None}
  /\ AtOnce \in Nat
  /\ IsFiniteSet(BaseRules) /\ IsFiniteSet(OtherRules)
  /\ IsFiniteSet(Channels) /\ IsFiniteSet(Tables) /\ IsFiniteSet(Requests)

VARIABLES
  server,    (* the row of each server: unused, present or gone            *)
  conf,      (* the agent's configuration in the row                       *)
  group,     (* group_id in the row                                        *)
  groups,    (* the row of each group: unused, present or gone             *)
  stored,    (* the rules and channels of each server                      *)
  reported,  (* the tables that hold reports of a server's agent           *)
  req,       (* the requests                                               *)
  seen,      (* the row that the authentication of a server's agent has    *)
             (* read, and is to save as a whole                            *)
  agent,     (* servers whose agent is connected                           *)
  agentConf, (* the configuration the agent works with                     *)
  down,      (* update_config messages on their way to the agent           *)
  up,        (* agent_config messages on their way to the panel            *)
  late,      (* history: servers written to during or after their deletion,*)
             (* or a statement of whose deletion failed                    *)
  astray,    (* history: servers whose configurations crossed, or one of   *)
             (* whose configuration messages was not delivered, since the  *)
             (* last one that was written undisturbed                      *)
  torn       (* history: groups assigned during or after their deletion,   *)
             (* or a statement of whose deletion failed                    *)

rows == <<server, conf, group, groups, stored, reported>>
wire == <<seen, agent, agentConf, down, up>>
history == <<late, astray, torn>>
recordsVars == <<rows, req, wire, history>>

Rules == BaseRules \cup OtherRules
Kinds == Rules \cup Channels
Values == Requests \cup {None, Empty}

(* A failure ends the request or the loop the statement is in, skips the   *)
(* next statement, or changes nothing.                                     *)
Item == [op : {"insert", "update", "readConfig", "sendConfig", "put", "create",
               "save", "source", "target", "readRule", "delete", "purge",
               "deleteRow", "users", "clear", "deleteGroup", "insertGroup",
               "findGroup", "saveGroup"},
         on : Servers \cup Groups, what : SUBSET (Kinds \cup Tables),
         fail : {"abort", "goOn", "skip", "rules", "channels", "target"},
         val : Values \cup Groups \cup Servers]

Seen == [step : {"out", "save"}, conf : Values, group : Groups \cup {None}]

Request == [asked : BOOLEAN, group : Groups \cup {None}, todo : Seq(Item)]

RecordsType ==
  /\ server \in [Servers -> {"unused", "present", "gone"}]
  /\ conf \in [Servers -> Values]
  /\ group \in [Servers -> Groups \cup {None}]
  /\ groups \in [Groups -> {"unused", "present", "gone"}]
  /\ stored \in [Servers -> [Kinds -> Values]]
  /\ reported \in [Servers -> SUBSET (Tables \cup Logs)]
  /\ req \in [Requests -> Request]
  /\ seen \in [Servers -> Seen]
  /\ agent \subseteq Servers
  /\ agentConf \in [Servers -> Values]
  /\ down \in [Servers -> Seq(Values)]
  /\ up \in [Servers -> Seq(Values)]
  /\ late \subseteq Servers /\ astray \subseteq Servers /\ torn \subseteq Groups
  /\ \A s \in Servers : server[s] = "unused" =>
       reported[s] = {} /\ \A k \in Kinds : stored[s][k] = None

(* Nothing has been read.                                                  *)
Out == [step |-> "out", conf |-> None, group |-> None]

RecordsInit ==
  /\ server \in [Servers -> {"unused", "present"}]
  /\ conf = [s \in Servers |-> None]
  /\ group = [s \in Servers |-> None]
  /\ groups \in [Groups -> {"unused", "present"}]
  /\ stored = [s \in Servers |-> [k \in Kinds |-> None]]
  /\ reported = [s \in Servers |-> {}]
  /\ req = [r \in Requests |-> [asked |-> FALSE, group |-> None, todo |-> <<>>]]
  /\ seen = [s \in Servers |-> Out]
  /\ agent = {}
  /\ agentConf = [s \in Servers |-> None]
  /\ down = [s \in Servers |-> <<>>]
  /\ up = [s \in Servers |-> <<>>]
  /\ late = {} /\ astray = {} /\ torn = {}

----------------------------------------------------------------------------
(* The requests as lists of statements.                                    *)

Do(op, on, what, fail, val) ==
  [op |-> op, on |-> on, what |-> what, fail |-> fail, val |-> val]

(* The orders in which a Go map, or a list the client sent, is walked.     *)
Orders(S) ==
  {q \in [1 .. Cardinality(S) -> S] : \A i, j \in DOMAIN q : q[i] = q[j] => i = j}
InOrder(S) == CHOOSE q \in Orders(S) : TRUE

(* CreateOrUpdate of one row for each element.                             *)
Puts(order, s, fail, r) ==
  [i \in DOMAIN order |-> Do("put", s, {order[i]}, fail, r)]

(* Faulty variant: the channels are stored before the server is.           *)
CreateChannelsFirst(r, s, channels) ==
  Puts(channels, s, "channels", r) \o <<Do("insert", s, {}, "abort", None)>>

(* CreateServer: the row, then the channels configured for all servers.    *)
CreateProgram(r, s, channels) ==
  <<Do("insert", s, {}, "abort", None)>> \o Puts(channels, s, "channels", r)

(* UpdateServer: the row first, where a value may be cleared; what is sent *)
(* is read back from it at the end.                                        *)
Reconfigure(s) == <<Do("readConfig", s, {}, "goOn", None)>>
RowAndRules(r, s, base, other, channels, val) ==
  <<Do("update", s, {}, "abort", val)>>
    \o Puts(base, s, "rules", r)
    \o Puts(InOrder(other), s, "goOn", r)
    \o Puts(channels, s, "channels", r)

(* Faulty variant: the agent is told before the row is written.            *)
UpdateSendsFirst(r, s, base, other, channels, val) ==
  (IF val = None THEN <<>> ELSE Reconfigure(s))
    \o RowAndRules(r, s, base, other, channels, val)

UpdateProgram(r, s, base, other, channels, val) ==
  RowAndRules(r, s, base, other, channels, val)
    \o IF val = None THEN <<>> ELSE Reconfigure(s)

(* DeleteServer: what belongs to the server, table by table, then the row. *)
Purges(s) ==
  LET tables == InOrder(Tables)
  IN [i \in DOMAIN tables |-> Do("purge", s, {tables[i]}, "goOn", None)]

(* Faulty variant: the table of the channels is forgotten.                 *)
DeleteForgets(s) ==
  <<Do("delete", s, Rules, "goOn", None)>>
    \o Purges(s)
    \o <<Do("deleteRow", s, {}, "abort", None)>>

DeleteProgram(s) ==
  <<Do("delete", s, Rules, "goOn", None), Do("delete", s, Channels, "goOn", None)>>
    \o Purges(s)
    \o <<Do("deleteRow", s, {}, "abort", None)>>

(* CopyAlertRules to one server; to several it does the same in turn.      *)
CopyProgram(from, order, s) ==
  <<Do("target", s, {}, "target", None)>>
    \o [i \in DOMAIN order |-> Do("readRule", s, {order[i]}, "goOn", from)]

(* Delete of a group clears group_id where there are rows to clear.        *)
DeleteGroupProgram(g) ==
  <<Do("users", g, {}, "skip", None), Do("clear", g, {}, "abort", None),
    Do("deleteGroup", g, {}, "abort", None)>>

UpdateGroupProgram(g) ==
  <<Do("findGroup", g, {}, "abort", None), Do("saveGroup", g, {}, "abort", None)>>

----------------------------------------------------------------------------
Statements(r) == {req[r].todo[i] : i \in DOMAIN req[r].todo}
AtWork == {r \in Requests : req[r].todo # <<>>}
Doing(r, op) == req[r].todo # <<>> /\ Head(req[r].todo).op = op
This(r) == Head(req[r].todo)
Rest(r) == Tail(req[r].todo)

Some(op, on) ==
  \E r \in Requests : \E i \in Statements(r) : i.op = op /\ i.on = on
Deleting(s) == Some("deleteRow", s)
DeletingGroup(g) == Some("deleteGroup", g)

(* An update of the configuration that has not been sent yet.              *)
Configuring(s) == Some("readConfig", s) \/ Some("sendConfig", s)

Continues(r, todo) == req' = [req EXCEPT ![r].todo = todo]
Succeeds(r) == Continues(r, Rest(r))

(* What is left when the loop of the statement is.                         *)
InLoop(r, i) == i.on = This(r).on /\ This(r).fail \in {i.fail, "target"}
AfterLoop(r) ==
  LET after == {n \in DOMAIN Rest(r) : ~InLoop(r, Rest(r)[n])}
  IN IF after = {} THEN <<>> ELSE SubSeq(Rest(r), Min(after), Len(Rest(r)))

Fails(r) ==
  \/ This(r).fail = "abort" /\ Continues(r, <<>>)
  \/ This(r).fail = "goOn" /\ Succeeds(r)
  \/ This(r).fail = "skip" /\ Continues(r, Tail(Rest(r)))
  \/ This(r).fail \in {"rules", "channels", "target"} /\ Continues(r, AfterLoop(r))

----------------------------------------------------------------------------
(* The clients.  They name servers and groups that exist or did.           *)

Ask(r, g, todo) ==
  /\ req' = [req EXCEPT ![r] = [asked |-> TRUE, group |-> g, todo |-> todo]]
  /\ UNCHANGED <<rows, wire, history>>

Known(s) == server[s] # "unused"
KnownGroups == {None} \cup {g \in Groups : groups[g] # "unused"}

CreateServer(r) ==
  \E s \in Servers, g \in KnownGroups, C \in SUBSET Channels :
    /\ server[s] = "unused" /\ ~Some("insert", s)
    /\ \E channels \in Orders(C) : Ask(r, g, CreateProgram(r, s, channels))

UpdateServer(r) ==
  \E s \in Servers, g \in KnownGroups, B \in SUBSET BaseRules,
     other \in SUBSET OtherRules, C \in SUBSET Channels, val \in {r, Empty, None} :
    /\ Known(s)
    /\ \E base \in Orders(B), channels \in Orders(C) :
         Ask(r, g, UpdateProgram(r, s, base, other, channels, val))

DeleteServer(r) ==
  \E s \in Servers : Known(s) /\ Ask(r, None, DeleteProgram(s))

(* The source is looked up, and skipped where it is among the targets.     *)
CopyAlertRules(r) ==
  \E from, s \in Servers, T \in SUBSET Rules :
    /\ Known(from) /\ Known(s) /\ from # s /\ T # {}
    /\ \E order \in Orders(T) :
         Ask(r, None, <<Do("source", from, {}, "abort", None)>>
                        \o CopyProgram(from, order, s))

CreateGroup(r) ==
  \E g \in Groups :
    /\ groups[g] = "unused" /\ ~Some("insertGroup", g)
    /\ Ask(r, None, <<Do("insertGroup", g, {}, "abort", None)>>)

UpdateGroup(r) ==
  \E g \in Groups : groups[g] # "unused" /\ Ask(r, None, UpdateGroupProgram(g))

DeleteGroup(r) ==
  \E g \in Groups : groups[g] # "unused" /\ Ask(r, None, DeleteGroupProgram(g))

Asks(r) ==
  /\ ~req[r].asked
  /\ Cardinality(AtWork) < AtOnce
  /\ \/ CreateServer(r) \/ UpdateServer(r) \/ DeleteServer(r) \/ CopyAlertRules(r)
     \/ CreateGroup(r) \/ UpdateGroup(r) \/ DeleteGroup(r)

----------------------------------------------------------------------------
(* The statements.                                                         *)

(* An error in place of the statement's effect.                            *)
Fail(r) ==
  /\ req[r].todo # <<>> /\ This(r).op # "put"
  /\ Fails(r)
  /\ late' = IF This(r).op \in {"delete", "purge"} THEN late \cup {This(r).on} ELSE late
  /\ astray' = IF This(r).op \in {"readConfig", "sendConfig"}
               THEN astray \cup {This(r).on} ELSE astray
  /\ torn' = IF This(r).op = "users" THEN torn \cup {This(r).on} ELSE torn
  /\ UNCHANGED <<rows, wire>>

(* A group is written into a row.                                          *)
Tears(g) ==
  torn' = IF g # None /\ (g \notin {h \in Groups : groups[h] = "present"} \/ DeletingGroup(g))
          THEN torn \cup {g} ELSE torn

Assigns(r, s) ==
  LET g == req[r].group
  IN /\ group' = IF g = None THEN group ELSE [group EXCEPT ![s] = g]
     /\ Tears(g)

Insert(r) ==
  /\ Doing(r, "insert")
  /\ server' = [server EXCEPT ![This(r).on] = "present"]
  /\ Assigns(r, This(r).on)
  /\ Succeeds(r)
  /\ UNCHANGED <<conf, groups, stored, reported, wire, late, astray>>

(* Something of the configuration is on its way, or being written.         *)
Disturbed(s, r) ==
  \/ s \notin agent \/ down[s] # <<>> \/ up[s] # <<>>
  \/ \E q \in Requests \ {r} : \E i \in Statements(q) :
       i.op \in {"readConfig", "sendConfig"} /\ i.on = s

(* An update of a row that is gone changes nothing, without an error.      *)
Update(r) ==
  LET s == This(r).on
      val == This(r).val
  IN /\ Doing(r, "update")
     /\ Succeeds(r)
     /\ IF server[s] = "present"
        THEN /\ Assigns(r, s)
             /\ conf' = IF val = None THEN conf ELSE [conf EXCEPT ![s] = val]
        ELSE UNCHANGED <<group, torn, conf>>
     /\ astray' = IF val = None THEN astray
                  ELSE IF Disturbed(s, r) THEN astray \cup {s} ELSE astray \ {s}
     /\ UNCHANGED <<server, groups, stored, reported, wire, late>>

(* What is empty is left out of the message; a row that is gone is read as *)
(* an empty one, without an error.                                         *)
ReadConfig(r) ==
  LET s == This(r).on
      val == IF server[s] = "present" THEN conf[s] ELSE Empty
  IN /\ Doing(r, "readConfig")
     /\ Continues(r, <<Do("sendConfig", s, {}, "goOn", val)>> \o Rest(r))
     /\ UNCHANGED <<rows, wire, history>>

(* SendToAgent, to the connection the server has then.                     *)
SendConfig(r) ==
  LET s == This(r).on
  IN /\ Doing(r, "sendConfig") /\ s \in agent
     /\ down' = [down EXCEPT ![s] = Append(@, This(r).val)]
     /\ Succeeds(r)
     /\ UNCHANGED <<rows, seen, agent, agentConf, up, history>>

----------------------------------------------------------------------------
(* CreateOrUpdate looks for the row, and takes an error for its absence.   *)
Put(r) ==
  /\ Doing(r, "put")
  /\ \E op \in {"create", "save"} :
       /\ op = "save" => \E k \in This(r).what : stored[This(r).on][k] # None
       /\ Continues(r, <<[This(r) EXCEPT !.op = op]>> \o Rest(r))
  /\ UNCHANGED <<rows, wire, history>>

Writes(r) ==
  LET s == This(r).on
  IN /\ stored' = [stored EXCEPT ![s] =
                    [k \in Kinds |-> IF k \in This(r).what THEN This(r).val ELSE @[k]]]
     /\ late' = IF server[s] = "gone" \/ Deleting(s) THEN late \cup {s} ELSE late
     /\ UNCHANGED <<server, conf, group, groups, reported, wire, astray, torn>>

(* The unique index rejects a second row.                                  *)
Create(r) ==
  /\ Doing(r, "create")
  /\ \A k \in This(r).what : stored[This(r).on][k] = None
  /\ Writes(r) /\ Succeeds(r)

(* Save is an update, or an insert where the row is gone.                  *)
SaveRule(r) == Doing(r, "save") /\ Writes(r) /\ Succeeds(r)

(* CopyAlertRules: the servers are looked up, which one that is gone       *)
(* passes; a type the source has no rule of is skipped.                    *)
LookUp(r) ==
  /\ Doing(r, "source") \/ Doing(r, "target")
  /\ Succeeds(r)
  /\ UNCHANGED <<rows, wire, history>>

ReadRule(r) ==
  /\ Doing(r, "readRule")
  /\ \E k \in This(r).what :
       LET val == stored[This(r).val][k]
       IN /\ val # None
          /\ Continues(r, <<Do("put", This(r).on, {k}, "goOn", val)>> \o Rest(r))
  /\ UNCHANGED <<rows, wire, history>>

----------------------------------------------------------------------------
Delete(r) ==
  LET s == This(r).on
  IN /\ Doing(r, "delete")
     /\ stored' = [stored EXCEPT ![s] =
                     [k \in Kinds |-> IF k \in This(r).what THEN None ELSE @[k]]]
     /\ Succeeds(r)
     /\ UNCHANGED <<server, conf, group, groups, reported, wire, history>>

Purge(r) ==
  /\ Doing(r, "purge")
  /\ reported' = [reported EXCEPT ![This(r).on] = @ \ This(r).what]
  /\ Succeeds(r)
  /\ UNCHANGED <<server, conf, group, groups, stored, wire, history>>

(* The agent of the server stays connected.                                *)
DeleteRow(r) ==
  LET s == This(r).on
  IN /\ Doing(r, "deleteRow")
     /\ server' = [server EXCEPT ![s] = IF @ = "present" THEN "gone" ELSE @]
     /\ Succeeds(r)
     /\ UNCHANGED <<conf, group, groups, stored, reported, wire, history>>

----------------------------------------------------------------------------
Users(r) ==
  /\ Doing(r, "users")
  /\ Continues(r, IF \E s \in Servers : server[s] = "present" /\ group[s] = This(r).on
                  THEN Rest(r) ELSE Tail(Rest(r)))
  /\ UNCHANGED <<rows, wire, history>>

Clear(r) ==
  /\ Doing(r, "clear")
  /\ group' = [s \in Servers |-> IF group[s] = This(r).on THEN None ELSE group[s]]
  /\ Succeeds(r)
  /\ UNCHANGED <<server, conf, groups, stored, reported, wire, history>>

(* One statement each: insert, find and save, delete.                      *)
GroupRow(r) ==
  LET g == This(r).on
  IN /\ \/ Doing(r, "insertGroup") /\ groups' = [groups EXCEPT ![g] = "present"]
        \/ Doing(r, "findGroup") /\ groups[g] = "present" /\ UNCHANGED groups
        \/ Doing(r, "saveGroup") /\ groups' = [groups EXCEPT ![g] = "present"]
        \/ Doing(r, "deleteGroup") /\ groups' = [groups EXCEPT ![g] = "gone"]
     /\ Succeeds(r)
     /\ UNCHANGED <<server, conf, group, stored, reported, wire, history>>

(* A group that is gone is found as an empty one, without an error; saving *)
(* that inserts a group with an id of its own.                             *)
FindNoGroup(r) ==
  /\ Doing(r, "findGroup") /\ groups[This(r).on] = "gone"
  /\ groups' \in {groups} \cup
                {[groups EXCEPT ![g] = "present"] :
                   g \in {h \in Groups : groups[h] = "unused" /\ ~Some("insertGroup", h)}}
  /\ Continues(r, <<>>)
  /\ UNCHANGED <<server, conf, group, stored, reported, wire, history>>

Works(r) ==
  \/ Insert(r) \/ Update(r) \/ ReadConfig(r) \/ SendConfig(r)
  \/ Put(r) \/ Create(r) \/ SaveRule(r) \/ LookUp(r) \/ ReadRule(r)
  \/ Delete(r) \/ Purge(r) \/ DeleteRow(r)
  \/ Users(r) \/ Clear(r) \/ GroupRow(r) \/ FindNoGroup(r)
  \/ Fail(r)

----------------------------------------------------------------------------
(* The agents.  One whose server is deleted stays connected, but cannot    *)
(* come back.                                                              *)

(* ValidateAgentAuth: a row whose address is another is to be saved, before *)
(* the agent is let in; any other is done with when the agent is.          *)
Authenticate(s) ==
  /\ s \in Dialling \ agent /\ server[s] = "present" /\ seen[s] = Out
  /\ \/ /\ seen' = [seen EXCEPT ![s] = [step |-> "save", conf |-> conf[s], group |-> group[s]]]
        /\ UNCHANGED agent
     \/ agent' = agent \cup {s} /\ UNCHANGED seen
  /\ UNCHANGED <<rows, req, agentConf, down, up, history>>

(* The whole row, as it was read: one that is gone meanwhile comes back.   *)
(* Nobody looks at the error of this save; what is compared then lets the  *)
(* agent in, or does not.                                                  *)
SaveRow(s) ==
  LET row == seen[s]
  IN /\ row.step = "save"
     /\ seen' = [seen EXCEPT ![s] = Out]
     /\ agent' \in {agent, agent \cup {s}}
     /\ \/ /\ server' = [server EXCEPT ![s] = "present"]
           /\ conf' = [conf EXCEPT ![s] = row.conf]
           /\ group' = [group EXCEPT ![s] = row.group]
           /\ Tears(row.group)
           /\ astray' = IF server[s] = "gone" \/ conf[s] # row.conf
                        THEN astray \cup {s} ELSE astray
        \/ UNCHANGED <<server, conf, group, torn, astray>>
     /\ UNCHANGED <<groups, stored, reported, req, agentConf, down, up, late>>

(* What is on its way is lost.                                             *)
Disconnect(s) ==
  /\ s \in agent
  /\ agent' = agent \ {s}
  /\ down' = [down EXCEPT ![s] = <<>>]
  /\ up' = [up EXCEPT ![s] = <<>>]
  /\ astray' = IF down[s] # <<>> THEN astray \cup {s} ELSE astray
  /\ UNCHANGED <<rows, req, seen, agentConf, late, torn>>

(* The fields that are empty are left as they are.                         *)
Filled(new, old) == IF new = Empty THEN old ELSE new

Configure(s) ==
  /\ down[s] # <<>>
  /\ agentConf' = [agentConf EXCEPT ![s] = Filled(Head(down[s]), @)]
  /\ down' = [down EXCEPT ![s] = Tail(@)]
  /\ UNCHANGED <<rows, req, seen, agent, up, history>>

(* An agent reports its configuration, one message at a time.              *)
ReportConfig(s) ==
  /\ s \in agent /\ up[s] = <<>>
  /\ up' = [up EXCEPT ![s] = <<agentConf[s]>>]
  /\ astray' = IF Configuring(s) \/ down[s] # <<>> THEN astray \cup {s} ELSE astray
  /\ UNCHANGED <<rows, req, seen, agent, agentConf, down, late, torn>>

(* The update may fail, or find no row.                                    *)
HandleAgentConfig(s) ==
  /\ up[s] # <<>>
  /\ \/ /\ server[s] = "present"
        /\ conf' = [conf EXCEPT ![s] = Filled(Head(up[s]), @)]
     \/ UNCHANGED conf
  /\ up' = [up EXCEPT ![s] = Tail(@)]
  /\ UNCHANGED <<server, group, groups, stored, reported, req, seen, agent,
                 agentConf, down, history>>

(* A report is stored whether or not the server still exists.              *)
StoreReport(s, t) ==
  /\ s \in agent
  /\ reported' = [reported EXCEPT ![s] = @ \cup {t}]
  /\ late' = IF server[s] = "gone" \/ Deleting(s) THEN late \cup {s} ELSE late
  /\ UNCHANGED <<server, conf, group, groups, stored, req, wire, astray, torn>>

Agent(s) ==
  \/ Authenticate(s) \/ SaveRow(s) \/ Disconnect(s)
  \/ Configure(s) \/ ReportConfig(s) \/ HandleAgentConfig(s)
  \/ \E t \in Tables \cup Logs : StoreReport(s, t)

RecordsNext ==
  \/ \E r \in Requests : Asks(r) \/ Works(r)
  \/ \E s \in Servers : Agent(s)

RecordsSpec == RecordsInit /\ [][RecordsNext]_recordsVars

----------------------------------------------------------------------------
(***************************************************************************)
(* The configuration in the row is the one the agent works with, once      *)
(* nothing that concerns it is under way, although a request writes one    *)
(* and tells the agent in three statements, the agent writes it too, and   *)
(* an authentication may write an old row back: from the next change on    *)
(* that is written undisturbed, as long as none is lost and none crosses   *)
(* (server_controller.go:1239-1283, handler.go:511-553).  What was cleared *)
(* is not sent: the agent then keeps what it has.                          *)
(***************************************************************************)
ConfigAgrees ==
  \A s \in Servers \ astray :
    server[s] = "present" /\ ~Configuring(s) /\ down[s] = <<>> =>
      conf[s] \in {agentConf[s], Empty}

(***************************************************************************)
(* Nothing refers to what is gone.  Rules, channels and reports belong to  *)
(* a server that exists: DeleteServer takes them with it ("first delete    *)
(* all associated data", server_controller.go:1308) - but for the logs,    *)
(* which it has no delete for - unless one of its statements failed or     *)
(* something was written while it worked.  And a server's group exists:    *)
(* Delete frees its servers first (server_group_repository.go:46-60),      *)
(* unless it is assigned, or saved with a row read before, meanwhile.      *)
(***************************************************************************)
NoOrphans ==
  \A s \in Servers :
    /\ server[s] = "gone" /\ s \notin late =>
         reported[s] \subseteq Logs /\ \A k \in Kinds : stored[s][k] = None
    /\ server[s] = "present" =>
         group[s] \in {None} \cup torn \cup {g \in Groups : groups[g] = "present"}

=============================================================================
