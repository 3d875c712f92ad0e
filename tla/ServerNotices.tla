---------------------------- MODULE ServerNotices ---------------------------
(***************************************************************************)
(* The notices by e-mail and webhook that a server went offline or came    *)
(* back (alert_service.go), put together with the changes of the stored    *)
(* status that ask for them.  The goroutine that has stored and broadcast  *)
(* a change calls the alert service (websocket_service.go), and goes on as *)
(* a notifier: it looks at the switch, at the cooldown in the cache, at    *)
(* the configuration of the channels and at the channels of the server,    *)
(* each with a query of its own, and sends.  Meanwhile the switches and    *)
(* the configuration are changed (settings_controller.go).                 *)
(***************************************************************************)
EXTENDS ServerStatus, FiniteSets, Naturals

CONSTANTS
  Channels,      (* what notices are sent by                               *)
  MaxChanges,    (* bound: how often the settings are changed              *)
  MaxAtWork      (* bound: how many goroutines are at work when another    *)
                 (* change of a server begins                              *)

ASSUME NoticesAssumption ==
  /\ Channels \subseteq {"email", "webhook"}
  /\ MaxChanges \in Nat
  /\ MaxAtWork \in Nat

VARIABLES
  switches,   (* alert_server_offline_enabled, alert_server_online_enabled *)
  config,     (* alert_notifications: the channels configured to the full  *)
  chosen,     (* server_notification_channels: those each server uses      *)
  cooling,    (* cache: the notices with a cooldown                        *)
  notifiers,  (* the goroutines inside the alert service                   *)
  request,    (* the request to change the settings that is being handled  *)
  changes,    (* bound: the requests so far                                *)
  passed,     (* history: how often a notice passed its cooldown since the *)
              (* last one expired                                          *)
  raced,      (* history: notices that were looked up by two at once       *)
  told,       (* history: the last notice of each server                   *)
  astray      (* history: servers whose last change was not told, or was   *)
              (* told while another was                                    *)

settings == <<switches, config, chosen, request, changes>>
noticeHistory == <<passed, raced, told, astray>>
noticeVars == <<settings, cooling, notifiers, noticeHistory>>
serverVars == <<statusVars, noticeVars>>

Notices == Servers \X Statuses

Notifier == [server : Servers, kind : Statuses, conn : Conns, order : {"clear", "unclear"},
             step : {"switch", "look", "mark", "config", "channels", "send"},
             ready : SUBSET Channels, to : SUBSET Channels]

Request == [step : {"none", "email", "webhook", "check", "offline", "online"},
            full : SUBSET Channels, usable : BOOLEAN, on : SUBSET Statuses]

NoRequest == [step |-> "none", full |-> {}, usable |-> FALSE, on |-> {}]

NoticesType ==
  /\ StatusType
  /\ switches \subseteq Statuses
  /\ config \subseteq Channels
  /\ chosen \in [Servers -> SUBSET Channels]
  /\ cooling \subseteq Notices
  /\ notifiers \subseteq Notifier
  /\ request \in Request
  /\ changes \in 0 .. MaxChanges
  /\ passed \in [Notices -> Nat]
  /\ raced \subseteq Notices
  /\ told \in [Servers -> Statuses]
  /\ astray \subseteq Servers

(* A server nobody has heard of is offline.  Nothing is switched on or     *)
(* configured until somebody asks for it; here somebody has, for all.      *)
NoticesInit ==
  /\ StatusInit
  /\ switches = Statuses
  /\ config = Channels
  /\ chosen = [s \in Servers |-> Channels]
  /\ cooling = {}
  /\ notifiers = {}
  /\ request = NoRequest
  /\ changes = 0
  /\ passed = [n \in Notices |-> 0]
  /\ raced = {}
  /\ told = [s \in Servers |-> "offline"]
  /\ astray = {}

----------------------------------------------------------------------------
(* The notifiers.                                                          *)
Notifying(s) == {n \in notifiers : n.server = s}
Key(n) == <<n.server, n.kind>>
At(n, step) == n \in notifiers /\ n.step = step

Moves(n, next) == notifiers' = (notifiers \ {n}) \cup {next}
Goto(n, step) == Moves(n, [n EXCEPT !.step = step])

(* The change it was about is not told to anybody.                         *)
GivesUp(n) ==
  /\ notifiers' = notifiers \ {n}
  /\ astray' = astray \cup {n.server}
  /\ UNCHANGED <<passed, told>>

(* History: whether a notice is sure to be the last one that is told.      *)
Order(s) == IF Notifying(s) = {} THEN "clear" ELSE "unclear"

(* Faulty variant of Notified: only a server that comes back is a notice.  *)
NotifiedOnline(j) ==
  IF j.kind = "offline" THEN {}
  ELSE {[server |-> j.server, kind |-> j.kind, conn |-> j.conn, step |-> "switch",
         order |-> Order(j.server), ready |-> {}, to |-> {}]}

(* onServerStatusChange: NotifyServerOnline or NotifyServerOffline.        *)
Notified(j) ==
  {[server |-> j.server, kind |-> j.kind, conn |-> j.conn, step |-> "switch",
    order |-> Order(j.server), ready |-> {}, to |-> {}]}

AnnounceAndNotify(j) ==
  /\ Announce(j)
  /\ notifiers' = Notified(j) \cup
       {[n EXCEPT !.order = IF n.server = j.server THEN "unclear" ELSE @] : n \in notifiers}
  /\ astray' = IF Notifying(j.server) = {} THEN astray ELSE astray \cup {j.server}
  /\ UNCHANGED <<settings, cooling, passed, raced, told>>

(* A switch that cannot be read is off.                                    *)
ReadSwitch(n) ==
  /\ At(n, "switch")
  /\ \/ n.kind \in switches /\ Goto(n, "look") /\ UNCHANGED <<passed, told, astray>>
     \/ GivesUp(n)
  /\ UNCHANGED <<statusVars, settings, cooling, raced>>

(* It goes on, and is in a race with whoever has looked and not yet set.   *)
Passes(n) ==
  /\ Goto(n, "mark")
  /\ raced' = IF \E m \in notifiers : At(m, "mark") /\ Key(m) = Key(n)
              THEN raced \cup {Key(n)} ELSE raced
  /\ UNCHANGED <<passed, told, astray>>

(* Faulty variant of LookAtCooldown: that of the other kind.               *)
LookAtOther(n) ==
  /\ At(n, "look")
  /\ IF \E k \in Statuses \ {n.kind} : <<n.server, k>> \in cooling
     THEN GivesUp(n) /\ UNCHANGED raced ELSE Passes(n)
  /\ UNCHANGED <<statusVars, settings, cooling>>

LookAtCooldown(n) ==
  /\ At(n, "look")
  /\ IF Key(n) \in cooling THEN GivesUp(n) /\ UNCHANGED raced ELSE Passes(n)
  /\ UNCHANGED <<statusVars, settings, cooling>>

(* The cooldown starts before it is known whether anything can be sent.    *)
SetCooldown(n) ==
  /\ At(n, "mark")
  /\ cooling' = cooling \cup {Key(n)}
  /\ passed' = [passed EXCEPT ![Key(n)] = @ + 1]
  /\ Goto(n, "config")
  /\ UNCHANGED <<statusVars, settings, raced, told, astray>>

(* getNotificationConfigs.  Whether a channel is used is decided by the    *)
(* row of the server alone: UpdateConfig stores no "enabled" with the rest *)
(* of a configuration.  A channel that is not configured may be chosen.    *)
ReadConfig(n) ==
  /\ At(n, "config")
  /\ \/ /\ Moves(n, [n EXCEPT !.step = "channels", !.ready = config])
        /\ UNCHANGED <<passed, told, astray>>
     \/ GivesUp(n)
  /\ UNCHANGED <<statusVars, settings, cooling, raced>>

ReadChannels(n) ==
  /\ At(n, "channels")
  /\ \/ /\ chosen[n.server] # {}
        /\ Moves(n, [n EXCEPT !.step = "send", !.to = chosen[n.server]])
        /\ UNCHANGED <<passed, told, astray>>
     \/ GivesUp(n)
  /\ UNCHANGED <<statusVars, settings, cooling, raced>>

(* SendAlertJob is run in place, for one channel after the other, and      *)
(* nobody looks at its error.  A notice that reaches one channel is told.  *)
Send(n) ==
  /\ At(n, "send")
  /\ \/ /\ n.ready \cap n.to # {}
        /\ notifiers' = notifiers \ {n}
        /\ told' = [told EXCEPT ![n.server] = n.kind]
        /\ astray' = IF n.order = "clear" THEN astray \ {n.server} ELSE astray
        /\ UNCHANGED passed
     \/ GivesUp(n)
  /\ UNCHANGED <<statusVars, settings, cooling, raced>>

(* Five minutes after an offline notice, two after an online one.          *)
CooldownEnds(k) ==
  /\ k \in cooling
  /\ cooling' = cooling \ {k}
  /\ passed' = [passed EXCEPT ![k] = 0]
  /\ raced' = IF \E n, m \in notifiers : n # m /\ At(n, "mark") /\ At(m, "mark")
                                          /\ Key(n) = k /\ Key(m) = k
              THEN raced ELSE raced \ {k}
  /\ UNCHANGED <<statusVars, settings, notifiers, told, astray>>

----------------------------------------------------------------------------
(* UpdateAlertsSettings, one request at a time: the channels it configures *)
(* to the full, whether it has one of them enabled, and the switches.      *)
OnlyRequest == <<statusVars, chosen, cooling, notifiers, noticeHistory>>

AskSettings(full, enabled, on) ==
  /\ request = NoRequest /\ changes < MaxChanges
  /\ request' = [step |-> "email", full |-> full, usable |-> enabled \cap full # {}, on |-> on]
  /\ changes' = changes + 1
  /\ UNCHANGED <<switches, config, OnlyRequest>>

GoesOn(step) == request' = [request EXCEPT !.step = step]
Answers == request' = NoRequest

(* UpdateConfig.  After a failed lookup a channel has a second row, and    *)
(* what is written later may not be what is read.                          *)
Configure(ch, next) ==
  /\ request.step = ch
  /\ \/ /\ config' = IF ch \in request.full THEN config \cup {ch} ELSE config \ {ch}
        /\ GoesOn(next)
     \/ GoesOn(next) /\ UNCHANGED config
     \/ Answers /\ UNCHANGED config
  /\ UNCHANGED <<switches, changes, OnlyRequest>>

(* A request without a channel is refused once its channels are written.   *)
CheckChannels ==
  /\ request.step = "check"
  /\ IF request.on # {} /\ ~request.usable THEN Answers ELSE GoesOn("offline")
  /\ UNCHANGED <<switches, config, changes, OnlyRequest>>

(* SetValue, for which the same holds.                                     *)
Switch(k) ==
  /\ request.step = k
  /\ \/ switches' = IF k \in request.on THEN switches \cup {k} ELSE switches \ {k}
     \/ UNCHANGED switches
  /\ Answers \/ (k = "offline" /\ GoesOn("online"))
  /\ UNCHANGED <<config, changes, OnlyRequest>>

(* SaveServerNotificationChannels, of which ServerRecords tells more.      *)
ChooseChannels(s, chs) ==
  /\ changes < MaxChanges
  /\ chosen' = [chosen EXCEPT ![s] = chs]
  /\ changes' = changes + 1
  /\ UNCHANGED <<statusVars, switches, config, request, cooling, notifiers, noticeHistory>>

(* With the panel go its cache and its goroutines: also when a mail server *)
(* greets it with an error on a TLS port, which Send does not survive.     *)
RestartPanel ==
  /\ Restart
  /\ cooling' = {} /\ notifiers' = {} /\ Answers
  /\ passed' = [n \in Notices |-> 0] /\ raced' = {}
  /\ astray' = astray \cup faulty \cup crossed \cup {s \in Servers : ~Idle(s) \/ Notifying(s) # {}}
  /\ UNCHANGED <<switches, config, chosen, changes, told>>

----------------------------------------------------------------------------
(* What ServerStatus does without a word to the alert service.             *)
AtWork == Cardinality(jobs) + Cardinality(notifiers)

StatusStep ==
  /\ \/ \E s \in Servers :
          /\ AtWork < MaxAtWork
          /\ (\E c \in Conns : AgentRegisters(s, c)) \/ AgentUnregisters(s)
     \/ \E s \in Servers, c \in Conns : AuthReadsRow(s, c)
     \/ \E j \in jobs : ReadStatus(j) \/ WriteStatus(j) \/ WriteFails(j)
     \/ \E v \in saves : AuthSavesRow(v)
  /\ UNCHANGED noticeVars

NotifierStep(n) ==
  \/ ReadSwitch(n) \/ LookAtCooldown(n) \/ SetCooldown(n)
  \/ ReadConfig(n) \/ ReadChannels(n) \/ Send(n)

SettingsStep ==
  \/ \E full, enabled \in SUBSET Channels, on \in SUBSET Statuses : AskSettings(full, enabled, on)
  \/ Configure("email", "webhook") \/ Configure("webhook", "check")
  \/ CheckChannels
  \/ \E k \in Statuses : Switch(k)
  \/ \E s \in Servers, chs \in SUBSET Channels : ChooseChannels(s, chs)

NoticesNext ==
  \/ StatusStep
  \/ \E j \in jobs : AnnounceAndNotify(j)
  \/ \E n \in notifiers : NotifierStep(n)
  \/ \E k \in Notices : CooldownEnds(k)
  \/ SettingsStep
  \/ RestartPanel

NoticesSpec == NoticesInit /\ [][NoticesNext]_serverVars

----------------------------------------------------------------------------
(***************************************************************************)
(* What the administrators were last told of a server is what is stored,   *)
(* like what the browsers show, once a change of it was neither crossed by *)
(* another nor hit by a failed query, and was told, and told alone.  The   *)
(* service tells of changes only ("called when a server comes back from    *)
(* offline", alert_service.go:754), so one that is lost or told twice      *)
(* leaves them with the wrong picture.                                     *)
(***************************************************************************)
LastNoticeIsTrue ==
  \A s \in Servers \ (faulty \cup crossed \cup astray) :
    Idle(s) /\ Notifying(s) = {} => told[s] = status[s]

(***************************************************************************)
(* A cooldown lets one notice of a kind pass for a server, however often   *)
(* it comes and goes meanwhile (alert_service.go:712-716), unless two      *)
(* goroutines looked before either had set it.                             *)
(***************************************************************************)
OncePerCooldown == \A k \in Notices \ raced : passed[k] <= 1
============================================================================
