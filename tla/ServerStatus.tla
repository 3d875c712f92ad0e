---------------------------- MODULE ServerStatus ---------------------------
(***************************************************************************)
(* The status column of the servers table, and what the browsers are shown *)
(* of it.  Every change of the agent registry starts a goroutine that      *)
(* reads the old status, writes the new one and, if that is a change,      *)
(* broadcasts it and calls the alert service (manager.go).  These          *)
(* goroutines take no lock and nothing orders them.  Authentication also   *)
(* writes the column: it saves the whole row it has read earlier when the  *)
(* agent's IP has changed (websocket_adapter.go).                          *)
(*                                                                         *)
(* The registry is the one of AgentRegistry; AgentConnections shows that   *)
(* the connections implement it.                                           *)
(***************************************************************************)
EXTENDS AgentRegistry

CONSTANT
  Moving     (* the servers whose agents come with another IP than before  *)

VARIABLES
  status,    (* servers.status                                             *)
  shown,     (* the status the browsers were last told                     *)
  jobs,      (* the goroutines of RegisterAgent and UnregisterAgent        *)
  saves,     (* the rows ValidateAgentAuth has read and will save          *)
  faulty,    (* history: servers with a failed query since their last      *)
             (* undisturbed change, or since the panel was started         *)
  crossed,   (* history: servers with two changes under way at once, or    *)
             (* whose status a row saved late has changed, in that time    *)
  leftover   (* history: servers the panel found stored as online when it  *)
             (* was started, and has not written since                     *)

history == <<faulty, crossed, leftover>>
statusVars == <<registry, used, status, shown, jobs, saves, history>>

Statuses == {"online", "offline"}

Job == [kind : Statuses, server : Servers, conn : Conns,
        step : {"read", "write", "announce"}, old : Statuses \cup {"unknown"},
        alone : BOOLEAN]

Save == [server : Servers, conn : Conns, status : Statuses]

StatusType ==
  /\ RegistryType
  /\ status \in [Servers -> Statuses]
  /\ shown \in [Servers -> Statuses]
  /\ jobs \subseteq Job
  /\ saves \subseteq Save
  /\ faulty \subseteq Servers
  /\ crossed \subseteq Servers
  /\ leftover \subseteq Servers

StatusInit ==
  /\ RegistryInit
  /\ status = [s \in Servers |-> "offline"]
  /\ shown = [s \in Servers |-> "offline"]
  /\ jobs = {}
  /\ saves = {}
  /\ faulty = {}
  /\ crossed = {}
  /\ leftover = {}

----------------------------------------------------------------------------
Pending(s) == {j \in jobs : j.server = s}
Idle(s) == Pending(s) = {}
InAuth(c) == \E v \in saves : v.conn = c

NewJob(kind, s, c) ==
  [kind |-> kind, server |-> s, conn |-> c, step |-> "read", old |-> "unknown",
   alone |-> Idle(s)]

(* History: none of a server's goroutines can tell any longer what the     *)
(* others do to its row.                                                   *)
Disturbed(s) == {IF j.server = s THEN [j EXCEPT !.alone = FALSE] ELSE j : j \in jobs}
Crosses(s) == crossed' = crossed \cup {s}

Begins(kind, s, c) ==
  /\ jobs' = Disturbed(s) \cup {NewJob(kind, s, c)}
  /\ IF Idle(s) THEN UNCHANGED crossed ELSE Crosses(s)

(* Faulty variant of AgentRegisters: the replaced connection is given a    *)
(* goroutine that says it went offline, and nobody takes that for another  *)
(* change.                                                                 *)
AgentRegistersTwice(s, c) ==
  /\ ~InAuth(c)
  /\ Register(s, c)
  /\ jobs' = Disturbed(s) \cup {NewJob("online", s, c)}
                  \cup {NewJob("offline", s, d) : d \in {registry[s]} \ {NoConn}}
  /\ IF Idle(s) THEN UNCHANGED crossed ELSE Crosses(s)
  /\ UNCHANGED <<status, shown, saves, faulty, leftover>>

(* RegisterAgent, once HandleAuth has come through ValidateAgentAuth.  A   *)
(* replaced connection gets no goroutine of its own.                       *)
AgentRegisters(s, c) ==
  /\ ~InAuth(c)
  /\ Register(s, c)
  /\ Begins("online", s, c)
  /\ UNCHANGED <<status, shown, saves, faulty, leftover>>

(* Faulty variant of AgentUnregisters: it does not look whether the server *)
(* has a connection.                                                       *)
AgentUnregistersAnyway(s) ==
  /\ registry' = [registry EXCEPT ![s] = NoConn]
  /\ Begins("offline", s, registry[s])
  /\ UNCHANGED <<used, status, shown, saves, faulty, leftover>>

AgentUnregisters(s) ==
  /\ Unregister(s)
  /\ Begins("offline", s, registry[s])
  /\ UNCHANGED <<status, shown, saves, faulty, leftover>>

Becomes(j, next) == jobs' = (jobs \ {j}) \cup {next}
Ends(j) == jobs' = jobs \ {j}

(* A failed query leaves the old status empty, which is not "online".      *)
ReadStatus(j) ==
  /\ j.step = "read"
  /\ \/ /\ Becomes(j, [j EXCEPT !.step = "write", !.old = status[j.server]])
        /\ UNCHANGED faulty
     \/ /\ Becomes(j, [j EXCEPT !.step = "write"])
        /\ faulty' = faulty \cup {j.server}
  /\ UNCHANGED <<registry, used, status, shown, saves, crossed, leftover>>

(* Faulty variants of IsChange: nothing is announced, everything is.       *)
IsNoChange(j) == FALSE
IsAnyChange(j) == TRUE

(* The change is announced if the status read earlier was the other one.   *)
IsChange(j) == IF j.kind = "online" THEN j.old # "online" ELSE j.old = "online"

WriteStatus(j) ==
  /\ j.step = "write"
  /\ status' = [status EXCEPT ![j.server] = j.kind]
  /\ leftover' = leftover \ {j.server}
  /\ IF IsChange(j) THEN Becomes(j, [j EXCEPT !.step = "announce"]) ELSE Ends(j)
  /\ UNCHANGED <<registry, used, shown, saves, faulty, crossed>>

WriteFails(j) ==
  /\ j.step = "write"
  /\ Ends(j)
  /\ faulty' = faulty \cup {j.server}
  /\ UNCHANGED <<registry, used, status, shown, saves, crossed, leftover>>

(* History: a goroutine that has read the status, with nobody else at work *)
(* on it from its beginning to here, leaves nothing of what went before.   *)
Undisturbed(j) == j.alone /\ j.old # "unknown"

Announce(j) ==
  /\ j.step = "announce"
  /\ shown' = [shown EXCEPT ![j.server] = j.kind]
  /\ Ends(j)
  /\ IF Undisturbed(j)
     THEN faulty' = faulty \ {j.server} /\ crossed' = crossed \ {j.server}
     ELSE UNCHANGED <<faulty, crossed>>
  /\ UNCHANGED <<registry, used, status, saves, leftover>>

(* ValidateAgentAuth, for an agent whose IP is not the one in the row: the *)
(* whole row is read and, later, saved.                                    *)
AuthReadsRow(s, c) ==
  /\ s \in Moving
  /\ c \notin used /\ ~InAuth(c)
  /\ saves' = saves \cup {[server |-> s, conn |-> c, status |-> status[s]]}
  /\ UNCHANGED <<registry, used, status, shown, jobs, history>>

(* Nobody looks at the error of the save.                                  *)
AuthSavesRow(v) ==
  /\ saves' = saves \ {v}
  /\ \/ /\ status' = [status EXCEPT ![v.server] = v.status]
        /\ IF status[v.server] = v.status THEN UNCHANGED <<jobs, crossed>>
           ELSE jobs' = Disturbed(v.server) /\ Crosses(v.server)
     \/ UNCHANGED <<status, jobs, crossed>>
  /\ UNCHANGED <<registry, used, shown, faulty, leftover>>

(* The panel dies and is started again.  Nothing resets the column; the    *)
(* browsers come back and read the table.                                  *)
Restart ==
  /\ Forget
  /\ jobs' = {}
  /\ saves' = {}
  /\ shown' = status
  /\ faulty' = {}
  /\ crossed' = {}
  /\ leftover' = {s \in Servers : status[s] = "online"}
  /\ UNCHANGED status

----------------------------------------------------------------------------
JobStep(j) == ReadStatus(j) \/ WriteStatus(j) \/ WriteFails(j) \/ Announce(j)

StatusNext ==
  \/ \E s \in Servers :
       \/ \E c \in Conns : AgentRegisters(s, c) \/ AuthReadsRow(s, c)
       \/ AgentUnregisters(s)
  \/ \E j \in jobs : JobStep(j)
  \/ \E v \in saves : AuthSavesRow(v)
  \/ Restart

StatusSpec == StatusInit /\ [][StatusNext]_statusVars

----------------------------------------------------------------------------
(***************************************************************************)
(* "update the server's status to online and push the update"              *)
(* (manager.go:115, and for offline manager.go:172): with no goroutine of  *)
(* a server at work and no query of it failed, it is stored as online      *)
(* while its agent is registered and as offline while none is.  Only a     *)
(* server that was online when the panel stopped stays so.                 *)
(***************************************************************************)
IsRight(s) ==
  IF registry[s] # NoConn THEN status[s] = "online"
  ELSE status[s] = "offline" \/ s \in leftover

(***************************************************************************)
(* That statement as it stands.  Neither two changes of a server that      *)
(* follow one another closely nor an authentication with a new IP leave it *)
(* true.                                                                   *)
(***************************************************************************)
StoredAsRegistered == \A s \in Servers \ faulty : Idle(s) => IsRight(s)

(***************************************************************************)
(* The part the code keeps: whatever the goroutines of a server did to     *)
(* each other's writes, and whatever rows were saved late, one change of   *)
(* it that nobody disturbs puts the column right, and it stays right       *)
(* through later changes until two cross again or a query fails.           *)
(***************************************************************************)
StatusFollowsRegistry ==
  \A s \in Servers \ (faulty \cup crossed) : Idle(s) => IsRight(s)

(***************************************************************************)
(* What the browsers were told of a server is what the table says, though  *)
(* the broadcast is decided on a status read before the write, and left    *)
(* out when the two agree: after two changes have crossed this too is true *)
(* again from the next undisturbed one.                                    *)
(***************************************************************************)
ShownIsStored ==
  \A s \in Servers \ (faulty \cup crossed) : Idle(s) => shown[s] = status[s]

(***************************************************************************)
(* A change is announced, and the alert service called, once: never for a  *)
(* server already shown with that status, unless changes crossed.          *)
(***************************************************************************)
AnnouncedOnce ==
  [][\A j \in jobs :
       Announce(j) /\ j.server \notin faulty \cup crossed
         => shown[j.server] # j.kind]_statusVars
============================================================================
