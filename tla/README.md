# CloudSentinel panel: specifications, model checking and proofs

CloudSentinel is a server-monitoring panel. Agents on the monitored machines
keep a WebSocket connection to the panel and send heartbeats and metrics;
browsers keep a WebSocket connection of their own and are shown the state of the
servers; an HTTP API manages servers, rules, settings, and the update of the panel
itself. The program is written in Go (`src/main.go`, `src/app`), one process, one
SQL database, one in-memory cache. There are no tests in the repository; the
statements the specifications are held against come from the comments of the code.

Line numbers below are those of the files under `src/`.

## 1. Inventory

| Component | State | Operations | Interacts through |
|---|---|---|---|
| Agent connection handler: `websocket_controller.go:91-214`, `handler.go`, `connection.go` | per connection: `state`, `serverID`, `lastPing`, session key, the socket | upgrade, reading loop, HandleAuth with the key exchange, HandleHeartbeat, data messages, deferred cleanup | one goroutine per connection; calls the manager, the saver, the database |
| Connection manager, agents: `manager.go:91-271, 383-414` | `agentConnections`: server id to connection | RegisterAgent, UnregisterAgent, UpdateAgentPing, SendToAgent, heartbeat checker | called by handlers, API requests, its own ticker; starts goroutines |
| Server status: `manager.go:115-156, 172-212`, `websocket_adapter.go:23-34` | `servers.status`; what browsers were told | read, write, announce, in goroutines; save of the whole row at authentication | database, browser broadcast, alert callback |
| Connection manager, browsers: `manager.go:274-366`, `websocket_controller.go:217-471` | `frontendConnections`; per connection a socket, a write lock and a deadline | register, unregister, broadcast, ping, first push of the states of the servers online | changes of status are broadcast (`manager.go:145, 201`); what agents report reaches a browser in the first push and through the API only |
| Agent data: `agent_data_worker.go`, `agent_data_service.go`, `metric_buffer.go` | queue of 1000 jobs, 10 workers, buffer of metrics | Enqueue, Execute, flush by size, by time and at Stop | handlers enqueue, workers write |
| Log queue: `log_queue.go`, `log_writer.go` | bounded queue | Enqueue, flush, Stop | the log channel |
| Alerts: `alert_service.go`, `jobs/`, `utils/notification/sender.go` | rules, channels and switches in the database, cooldown keys in the cache | NotifyServerOffline, NotifyServerOnline, UpdateAlertsSettings; the expiration job and the evaluation of rules, which have no caller | called back by the status goroutines; sends mail and webhooks in place (the queue is `sync`) |
| Login: `login_lockout_service.go`, `auth_controller.go`, `auth_middleware.go` | failure counter and lock per IP in the cache, the settings of guests, tokens without state | Login, Refresh, Check, UpdatePermissionsSettings | HTTP, `generate:admin` on the command line |
| Panel update: `update_service.go`, `update_controller.go`, `commands/update.go` | update status in the cache, files, database, the binary | ExecuteUpdate in some fifteen steps with restore, Status, UpdatePanel | HTTP requests and the command line at once |
| Process control: `commands/process.go`, `start.go`, `stop.go`, `restart.go`, `reset_port.go`, `main.go` | PID file, port and address in `.env` | check, write, remove, signal, wait for exit, boot, listen | several processes |
| Agent keys: `handler.go:162-374`, `server_controller.go:1389-1439`, `rsa_key_service.go` | agent key, fingerprint, panel key pair in the database | first use, comparison, reset, generation | handlers and API |
| Settings and rules: `repositories/` | rows found or created | SetValue, CreateOrUpdate | API |
| Server and group API: `server_controller.go`, `server_group_controller.go` | rows of servers, groups, rules, channels | create, list, update, delete, copy rules, restart agent | database, manager; one statement after the other, without a transaction |
| Retention: `cleanup_service.go`, `log_cleanup_service.go` | none | delete by age | database |

What is hard here: every agent has a handler goroutine, a replacement starts
another one, each change of the registry starts one more, and the checker and the
API act on the same table. The manager's mutex protects the map and nothing
else: the state of a connection, its socket, the database and the browsers are
changed outside it or in another order than the map. The requests of the API are as
little apart: no handler uses a transaction, and what one reads another may write
before the first has written. Between processes there is a PID file, and signals.

What makes the components correct, in one line each:

- Registry: an entry is a live connection of that server; an agent that was told it
  is authenticated is the one the panel reaches; replaced and dead connections are
  released.
- Status: from a server's next change on that nothing else disturbs, the column and the
  browsers say what the registry says, and a change is announced once.
- Agent data: a metric is in one place, leaves the buffer in the end, and
  what a full queue or a failed insert costs is exactly that.
- Alerts: what was told last is so, and one notice of a kind passes in a cooldown.
- Login: an address guesses no more often than the settings say.
- Keys: one agent speaks for a server until the key is reset; a reset takes.
- API: nothing refers to a row that is gone; the agent's configuration and the row agree.
- Browsers: a change reaches everyone in the table, and nobody who has gone stays in it.
- Update: the panel ends up with a binary and a database of one version, whatever
  fails on the way, and an update that is over keeps no later one away.
- Process control: the PID file names the panel that is there, and it serves.

`PROJECT.json` lists the hazards line by line.

## 2. Plan

| Order | Module | What it covers | State |
|---|---|---|---|
| 1 | `AgentRegistry` | what the registry promises | done |
| 2 | `AgentConnections` | handlers, manager, checker, key reset; implements 1 | done |
| 3 | `AgentConnectionsProofs` | types, three safety invariants, one action property, the refinement | done |
| 4 | `ServerStatus` | the column and the browsers, on top of 1 | done |
| 5 | `ServerNoticesProofs`, first part | the invariants of 4 | done |
| 6 | `BatchBuffer`, `DataPipeline`, `ReportChannel` | metric buffer; queue, workers and shutdown around it; what they promise | done |
| 7 | `DataPipelineProofs` | conservation of reports, what Stop flushes, the refinement of `ReportChannel` | done |
| 8 | `PanelUpdate` | ExecuteUpdate, the status requests share, crash between steps | done |
| 9 | `PanelUpdateProofs` | its types and its safety properties | done |
| 10 | `AgentKeys` | key, fingerprint, reset, deletion, panel key pair; on top of 1 | done |
| 11 | `ServerRecords` | requests of the API as lists of statements, beside the agents | done |
| 12 | `PanelAccess` | Login, the count and the lock, the settings they read | done |
| 13 | `PanelProcess` | start, stop, restart, reset-port, and the panels they are about | done |
| 14 | `BrowserFeed` | the browsers' connections and the broadcast, write by write | done |
| 15 | `ServerNotices`, `ServerNoticesProofs` | the notices of 4's changes, their cooldowns and settings; types, cooldown, truth | done |
| 16 | `DataPipelineProofs`, second part; `PanelAccessProofs`, `AgentKeysProofs` | the safety of 14, of 12 and of 10 | done |
| 17 | `ServerRecordsProofs`, `PanelProcessProofs` | the safety of 11 and of 13 | done |
| 18 | `VersionCompare`, `LogQueue` | CompareVersions and ParseVersion against a reference order; the attempts of a log entry, on `BatchBuffer` | not begun |

Composition: `ServerStatus` and `AgentKeys` extend `AgentRegistry` and hang their
goroutines and queries on its two actions; `AgentConnections` implements
`AgentRegistry` (`ImplementsRegistry`), so what holds of the table there holds when the
connections drive it. `ServerNotices` extends `ServerStatus`: the goroutine that has
announced a change becomes a notifier, and `NoticesOnlyListen` proves that every
behaviour of the two together is one of `ServerStatus`. `DataPipeline` extends
`BatchBuffer`, and so will `LogQueue`; it implements `ReportChannel`. Abstract specifications worth
stating later: an all-or-nothing replacement for `PanelUpdate`, the broadcast in one step of
`ServerStatus` for `BrowserFeed`.

## 3. The modules

### AgentRegistry

The table as the rest of the panel sees it: `registry` maps a server to a connection,
`Register` enters a connection that has not been used, `Unregister` removes what
a server has. `OneServerPerConn` is its safety property. `RegistrySpec` is the table of
one process; `LastingSpec` adds `Forget`, the restart of the panel. `AgentConnections` and
`AgentKeys` implement the former, `ServerStatus` and `ServerNotices` the latter.

### AgentConnections

| Variable | Code |
|---|---|
| `pc` | where the goroutine of `HandleAgentConnection` is |
| `state`, `serverID`, `socket` | `BaseConnection.state`, `AgentConnection.serverID`, the WebSocket (open, broken for writes, closed) |
| `stale` | `now - lastPing > 60s` |
| `registry` | `agentConnections` |
| `closing` | the goroutines of `RegisterAgent` that sleep before they close the old connection |
| `todo`, `evicting` | the checker's copy of the map, and the call of `UnregisterAgent` it is about to make |
| `gone` | the agent disappeared |
| `answered` | history: the auth answer was written |

An action is one critical section of `agentMutex`, one test of a connection's
state, or one blocking read or write. `HandleAuth` is four actions: the validation
(`RejectAuth` or the start of `AcceptAuth`), the setters (`AcceptAuth`), the
write of the answer (`Respond`) and `RegisterAgent` (`Register`). The deferred
function is three: `CheckOnExit`, `UnregisterOnExit`, `CloseOnExit`. A heartbeat is
two: the test of the sender's state (`HandleHeartbeat`), and `UpdateAgentPing` with the
answer (`Ping`). `UnregisterAgent` has three callers (`UnregisterOnExit`, `Evict`,
`ResetAgentKey`) and, as in the code, takes a server and not a connection.

Abstracted: what authentication looks at (key, fingerprint, IP, key exchange) is a
choice of a server or of a rejection; encryption is left out; data messages are one
action that changes nothing here (`HandleOther`). A write may fail whenever the
socket can fail, and then the socket stays unable to write, as the WebSocket library
does after a failed write.

`Reauth` says whether an agent that has been answered sends another auth message on the
same connection. The code accepts one. The properties are checked and
proved with `Reauth = FALSE`, except types. With `Reauth = TRUE` TLC finds
`ReplacedByAnother` violated within a few steps: the connection replaces itself, is
marked closed while it is registered, and is closed two seconds later without being
unregistered, because it is no longer authenticated. The entry stays until
another connection of the server replaces it or its key is reset (the checker skips
closed connections).

### ServerStatus

| Variable | Code |
|---|---|
| `registry`, `used` | of `AgentRegistry` |
| `status` | `servers.status` |
| `shown` | the last `server_status_update` the browsers were sent, or the table if they were loaded later |
| `jobs` | the goroutines of `manager.go:116` and `:173`, each before its read, write or announcement; `alone`: nothing else was at work on its server since it began |
| `saves` | the rows `ValidateAgentAuth` has read and is going to save |
| `faulty`, `leftover` | history: a query failed; the panel found the server stored as online at its start |
| `crossed` | history: two goroutines of the server were at work at once, or a row saved late has changed its status, and no undisturbed change has come through since |

A failed read leaves the old status empty, so an online goroutine announces and an
offline goroutine does not; a failed write ends the goroutine. `Restart` loses
the goroutines and the registry and keeps the table.

Nothing orders the goroutines: a change may begin while those of earlier ones are at any
step, they overtake one another, and the row an authentication has read (of a server
in `Moving`, whose agents come with another IP) is saved at any later time over
what they have written. What crosses can leave the column wrong, and the code has
nothing that would put it right (see 4, "Promises the code does not keep"), so no
property can ask for it at once. The properties ask for what the
code does give: a server's next change that nothing disturbs, whose queries do not fail, puts
everything right *whatever went before*, and it stays right until two cross again
(`Undisturbed`, `faulty`, `crossed`). That is why the state the crossings leave is part of the
state space and is not cut off.

### ServerNotices

The goroutine that has stored and broadcast a change calls the alert service
(`websocket_service.go:51-58`) and goes on as a notifier.

| Variable | Code |
|---|---|
| `switches` | `alert_server_offline_enabled`, `alert_server_online_enabled` |
| `config` | `alert_notifications`: the channels whose configuration is complete |
| `chosen` | `server_notification_channels`: those enabled for each server |
| `cooling` | `alert_cooldown:<server>:<kind>` in the cache |
| `notifiers` | the goroutines inside `NotifyServerOffline` and `NotifyServerOnline` |
| `request`, `changes` | the `UpdateAlertsSettings` that is being handled; bound: how often |
| `passed`, `raced` | history: notices that came past the cooldown since the last one ended; notices two goroutines looked up before either had set it |
| `told`, `astray` | history: the last notice of a server; servers whose last change was not told, or was told while another was |
| `MaxAtWork` | bound: how many goroutines and notifiers are at work when another change begins |

`AnnounceAndNotify` is `Announce` of `ServerStatus` with the call. A notifier reads the
switch, looks at the cooldown, sets it (five minutes for offline, two for online),
reads the configuration, reads the server's channels and sends, each a step of its
own that may fail and then end it in silence (`GivesUp`). The cooldown is set before it is known whether
anything can be sent. `UpdateConfig` stores no "enabled", so the server's own
channels decide alone. `UpdateAlertsSettings` writes both channels before it refuses
a request that has none: `Configure` comes before `CheckChannels`, so a refused request
leaves the switches on over emptied channels. `RestartPanel` stands also for the panic
of a notifier: a TLS mail server that greets with an error leaves the client nil, because
`err` is shadowed (`sender.go:65, 72`), and nothing recovers it.

`astray` and `raced`, with `faulty` and `crossed` of `ServerStatus`, keep the properties to what the code
gives: a lost or overtaken notice is not repeated, and two goroutines that look before either has set the
cooldown both pass. A notice that is told alone, of an undisturbed change, ends all of these.
Abstracted: the contents of a configuration (complete or not), the stored
password, which an empty one keeps by a read and a write, and the lifetime of a
cooldown (it ends at any time).

### AgentKeys

| Variable | Code |
|---|---|
| `row` | `agent_key` and `agent_fingerprint` of each server's row, if it is there |
| `panelPair` | the pair in the first row of the setting `panel_rsa_keys`, named by the connection that generated it, or `NoConn`: there is no such row |
| `dial` | the authentication of each connection: its step, what it sent, the row it has read, the pair it has |
| `resets` | the requests inside `ResetAgentKey` |
| `issued`, `holders`, `told` | history: the key answered last; the agents let in since; the pairs whose public key was sent |
| `mixed` | history: queries of two callers on one server interleaved, or a fingerprint was not stored, since a reset that ran by itself |

A connection's steps are those of `HandleAuth`: look the key up, save the row if the
address changed (`SaveRow`, the whole row, which can bring a deleted one back),
compare the fingerprint, read or generate the pair (find, then create or update), send the
keys, store the fingerprint, answer, register. An agent that shows no public key
skips the exchange. `First` gives no error for a row that is not there (two repositories ask for
`ID == 0` for that reason), so the usual way through `SetValue` is the update, and an update of
no row changes nothing and succeeds: on a panel whose `panel_rsa_keys` was never stored, every exchange generates a
pair, hands it out and stores nothing (`StorePair`). Only a lookup that fails leads to `Create`, which stores a
pair where there is none, and a second row, which nobody reads, where there is one:
`system_settings` has no unique index. An unknown key is not modelled: the same
`First` then returns an empty server, whose id, "", belongs to no server.

### ServerRecords

| Variable | Code |
|---|---|
| `server`, `conf`, `group` | the row of each server, its `agent_config`, its `group_id` |
| `groups` | `server_groups` |
| `stored` | `server_alert_rules` and `server_notification_channels` |
| `reported` | the tables that hold what an agent reported |
| `req` | the requests, each with the statements it has yet to execute |
| `agent`, `agentConf`, `down`, `up` | connected agents, the configuration each works with, the messages in both directions |
| `seen` | the row that the authentication of a server's agent has read and is to save as a whole |
| `late`, `astray`, `torn` | history: a deletion that failed in part, or was crossed by a write; configurations that crossed or got lost, or were saved back, since the last one that was written undisturbed; a group whose deletion failed in part, or that was assigned meanwhile or afterwards |

A request is the list of its statements (`CreateProgram`, `UpdateProgram`,
`DeleteProgram`, `CopyProgram`, `DeleteGroupProgram`, ...), each with what its failure
does: end the request, end the loop, skip a statement, or nothing. One action
executes one statement, so requests interleave statement by statement, and with
the agents. An authentication is two steps (`Authenticate`, `SaveRow`) when the agent's IP is another
than the row's: the whole row is saved as it was read, with its old configuration and group, and comes
back if it was deleted meanwhile. A configuration is the default (`None`), one
that a request wrote, or a cleared one (`Empty`): what is empty is stored in the row and
left out of the message to the agent, which then keeps what it has, and the same the other way
(`Filled`). A row that is gone is read as an empty one. Left as the code has it: `UpdateServer` answers success when rules fail;
`DeleteServer` leaves the agent connected and `agent_logs` where they are;
monitored services are stored and never sent. A copy of the rules to several servers is modelled as a copy to
one; foreign keys depend on a pragma of the pooled connection, so any statement may
fail. `UpdateServerAlertRules` has no route and is left out. The fields of a configuration, of which
a request may change or clear some, are one value here. `Dialling` bounds whose agents connect; an
agent dials only when its connection has ended.

### PanelAccess

| Variable | Code |
|---|---|
| `stored` | `allow_guest_login`, `guest_password_enabled`, whether each password is there, `max_login_attempts` |
| `login`, `change` | the requests inside `Login` and `UpdatePermissionsSettings` |
| `attempts`, `locked` | `login_attempts:<ip>` and `login_lockout:<ip>` in the cache |
| `wrong`, `spent`, `lost` | history: wrong guesses since the count was cleared or expired, locks that ended since, addresses that got past a guess uncounted |
| `highest` | history: the highest limit that was ever in force |

A panel begins with the settings of the seeder, or with none. A name or a password is right or wrong. Every query of a setting and every access to the cache is a step,
and a setting that cannot be read has its default, which for
`guest_password_enabled` is "no". A change answered with an error has been applied up to there, and one answered with success need not have
been stored at all (`SetValue`, see `AgentKeys`). The
password check of the settings is not counted by the lockout. Every route behind
`Auth()` lets administrators and guests in alike, and tokens have no state, so there is
nothing to model behind the login. A stored limit that is not positive means
the default; the duration of the lock does not change. How guests get in is modelled
and no property speaks of it, for the code keeps none (see 4).

### PanelProcess

| Variable | Code |
|---|---|
| `proc` | the processes that are, or are to become, a panel: boot, after writing the PID file, listening, deaf (the port was taken), told to quit, leaving, a zombie |
| `pidFile`, `env` | the PID file; port and address in `.env` |
| `cmd` | the commands at work |
| `crossed`, `raced`, `stopped` | history: commands that ran beside another or beside a process on its way; a panel that started beside one that leaves; the service was said to be stopped |

`start` in the foreground while the service runs prints that it does, and `main` starts a
second panel all the same, which does not name itself in the PID file and whose failed
`listen` is only logged (`deaf`). A child that dies at once is a zombie, so
`IsProcessRunning` finds it and its failure is not reported. The PID file is never removed by
the panel. An update in a daemon starts the new process before the old one has ended;
in the foreground nothing comes back. Numbers of other programs' processes,
signals that are not permitted, and a PID file that cannot be read are left out.

### BrowserFeed

| Variable | Code |
|---|---|
| `handler` | how far the goroutine of each connection is, and the states it has yet to push |
| `table` | `frontendConnections` |
| `closed`, `broken` | connections closed by the panel; connections on which a write has failed |
| `informed` | history: the browsers in the table that know of the last change |
| `casts` | the broadcasts under way: the connections left of the copy, and the one being written to |
| `drops` | the goroutines that unregister after a failed broadcast |

`ServerStatus` takes a broadcast for one step; here it is a walk over a copy of the
table, with a write lock per connection, while browsers connect, are greeted, ping and
vanish. There is no heartbeat checker for browsers, only the read deadline, which
every message moves on. `sendError` writes without the lock and with whatever
deadline is left; a write beside another may panic (`HandlerPanics` ends the connection, `PanelPanics`
the panel). Of two broadcasts at a time no order is claimed.

### BatchBuffer, DataPipeline and ReportChannel

`BatchBuffer` is the buffer of `metric_buffer.go`: appending under a mutex, a goroutine
for a flush whenever the size is reached, a ticker's loop that flushes, and `Stop`.

| Variable | Code |
|---|---|
| `buffer` | `MetricBuffer.buffer` |
| `spawned` | goroutines `go mb.flush()` of `Enqueue` that have not had the mutex |
| `batches` | what a flush has taken and is inserting, with who flushes |
| `loop`, `stopped` | `flushLoop`, `stopChan` |
| `queue`, `hands` | `AgentDataWorker.jobQueue`, the job each worker executes |
| `phase` | `main` after a signal: running, in `Stop`, in its flush, shutting down, ended |
| `fate` | history: what has become of each report |
| `atStop` | history: the metrics in the buffer or in a batch as `Stop` was called |

`Take` is the critical section of `flush`; the insert (`Insert`) is outside it, so
that any number of batches can be on their way. `Save` is one of the five
`Save...` functions: it drops the report when the queue is full and tells the
agent nothing. Jobs other than metrics are one database operation that succeeds or
fails (`StoreOther`). `Die` is the end of the process, by `os.Exit` after a signal
or in a crash; `Restart` starts with everything empty but the table.

`ReportChannel` is what all this promises for a report: it is accepted, or refused when as
many as the queue holds are under way, and then delivered or lost, once
(`ImplementsChannel`).

The contents of reports are left out, and so is their age: that ten workers may store an
older system report after a newer one is not visible here.

### PanelUpdate

| Variable | Code |
|---|---|
| `pc` | where `ExecuteUpdate` is, for each update |
| `status` | `update_status` in the cache of the panel's process, by its step |
| `dbBackup`, `binBackup` | the files `*.backup.<time>` of each update |
| `archive`, `extracted` | the downloaded file (`CalculateSHA256`, `ReadSHA256File`: good or not) and the directory it is unpacked in, which all updates share |
| `binary`, `db` | the executable and the SQLite file: schema, and rows the panel has written |
| `up`, `running` | the panel's process, and the version it was started from |
| `attached` | its database connections have the file open that is in place now |
| `written`, `before`, `replaced`, `botched` | history: rows written, what each update began with, which have replaced the binary, which failed to restore |

Each stage of `ExecuteUpdate` is an action with its failures. A failure goes to the
deferred function, which is two actions (`RestoreDatabase`, `RestoreBinary`), each of
which may fail and is skipped where there is no copy. `CopyFile` renames a finished
copy into place, so a reader sees the old file or the new one, and a process that
has the old database open keeps the old one (`attached`, `WriteRow`). A migration
may fail, or come part of the way, without stopping the update. The panel's
process takes its cache, its connections and its updates with it when it ends
(`PanelEnds`); the update command runs in a process of its own, with a cache of
its own that is empty (`StartCommand`, `CommandEnds`).

`Polite` restricts the environment: no request comes while an update runs that
the status does not show as active, which is the case between the check and the
write of the status, while it says "migrating", "completed" or "error", and throughout
the command line. The code does not enforce it, so that two updates exclude each other is not
claimed: the properties say what one update at a time leaves behind for the next.

Abstracted: versions are old and new, of which only "new" can be downloaded; a missing
file is like a damaged one; the copy of the database is taken in one moment; the
checksum is right when the file is good. The status expires only after the end of an
update (fifteen and ten minutes from its last write; a longer silence of the download
server would let it expire earlier, which `Polite` then rules out). With a
database other than SQLite nothing is copied or restored; that case, like the
Windows branches, is left out.

## 4. What is checked

| Run | Instance | Result |
|---|---|---|
| `conn` | 2 servers, 2 connections, once-only authentication, fairness, no symmetry | 400 000 states, no error: `TypeOK`, `RegisteredIsLive`, `AuthenticatedIsReachable`, `ImplementsRegistry`, `SilentIsEvicted`, `DeadIsReleased` |
| `notices` | 1 server whose agent moves, 2 connections, at most 2 goroutines at work when a change begins, 1 channel, 1 change of the settings, symmetry | 3.1 million states, no error: `NoticesType`, `StatusFollowsRegistry`, `ShownIsStored`, `AnnouncedOnce`, `LastNoticeIsTrue`, `OncePerCooldown` |
| `pipeline` | 3 metrics, 1 other report, 2 workers, queue of 2, batches of 2, fairness | 34 000 states, no error: `TypeOK`, `OnePlace`, `StopFlushesRest`, `Settles` |
| `update` | 3 updates, one of them of the command, of which 2 are begun, 1 row, `Polite` | 250 000 states, no error: `TypeOK`, `Recoverable`, `OnlyVerified`, `NoLockout`, `ApiUpdateRestarts`, `FailureRestores` |
| `keys` | 1 server, 3 connections of which 2 authenticate at a time, 2 agents with key pairs, 2 keys, symmetry | 1.8 million states, no error: `KeysType`, `FirstUseHolds`, `ResetTakes`, `OnlyResetsReplace` |
| `records` | 2 servers, 1 group, 2 requests at a time, 1 rule, 1 channel, 1 table of reports, the agent of 1 server, symmetry | 1.6 million states, no error: `RecordsType`, `ConfigAgrees`, `NoOrphans` |
| `access` | 1 address, 2 logins, 1 change of the settings, limits 1 and 2, symmetry | 7.6 million states, no error: `AccessType`, `GuessesAreBounded` |
| `process` | 2 commands, 2 process numbers, 2 ports, symmetry | 1.6 million states, no error: `ProcessType`, `PidFileFindsPanel`, `StopIsFinal`, `PanelServes` |
| `browsers` | 2 browsers, 2 servers online, 2 broadcasts at a time, fairness, no symmetry | 240 000 states, no error: `FeedType`, `HeardAll`, `GoneIsForgotten` |
| `update_data` | 1 update of the API | violates `FailureKeepsRows` |
| `browsers_lock` | that of `browsers` | violates `WritesExclude` |
| `keys_pair` | 1 server, 2 connections, 1 agent | violates `PanelKeyIsStored` |

Bounds. Connections are never reused (but in `BrowserFeed`), so their number bounds how often agents
reconnect. Two connections are what replacement takes: the old handler, the new one,
the delayed close, the checker's copy of the old one and an API request can all be
under way at once. Two servers are there for confusion between servers. A third
connection of one server, with symmetry in both, was explored beyond three
million states without an error before it was stopped; the safety properties are
proved for any number. In `notices` two connections make four changes of one server
with a restart between any two. A change begins while as many as two goroutines or notifiers
of earlier ones are at work, so three meet; a row is saved beside them at any time. Servers share nothing
there but the switches. One channel is enough for "configured" and "chosen" to differ.
In the pipeline, three metrics and batches
of two let one flush be started while another writes and leave a rest for the
ticker or for `Stop`; four reports and a queue of two let the queue be full with both
workers busy. Two updates begun (`MaxUpdates`) are what an update takes that
finds the files, the copies and the status another one left behind; that there are
three to choose from lets the second be of either kind. In `keys` a third connection finds what
two that interleaved have left, and two keys are a reset. In `records` two requests
meet statement by statement, and a third could only meet what two have left; no value of
`OtherRules` or `Logs` is given, for they go through the same statements as the others, or through none.
In `access` the two logins pass the lock together (`AtOnce`), and limits of one and two
are a lock at once and one after a count; `MaxCount` and `MaxSpent` stop the counters.
In `process` a panel, its successor after an update, and two commands fill both numbers,
which are then used again. In `browsers` a broadcast is in the middle of its walk while
another begins.

Deadlock is checked where the system goes on for ever: the checker's tick is always enabled in
`AgentConnections`, and the restart in `ServerNotices`; in `DataPipeline` and
`PanelUpdate` a process that is there can crash, and one that has ended can be
restarted (the binary is never a damaged one, `OnlyVerified`); commands and browsers
come again. In `keys`, `records` and `access` connections, requests and changes are used
up, and the model then really stops (`CHECK_DEADLOCK FALSE`).

Fairness. Weak fairness of each handler goroutine, of each delayed close (the sleep
ends) and of the checker (the ticker fires, and the loop over the copy goes on):
the Go scheduler runs what can run, and no mutex is held
across a blocking operation except the close of a socket. No fairness for agents,
API users, read timeouts, failures of queries, or crashes. `Handler` excludes `Receive`
and `ReadGivesUp`, so a handler may be blocked in its read for ever while its agent
is there and its socket open; `DeadIsReleased` then depends on somebody
closing the socket, as it does in the code. A write ends: with `WriteTimeout`, or with
the kernel's. In the pipeline: weak fairness of each worker, of the flush goroutines,
of the loop, of the insert of each batch (a query ends) and of `main` once it has been
told to stop; none for agents that send, signals, crashes and restarts. For the
browsers: strong fairness of each handler, because `sync.Mutex` hands the write lock to
who has waited for it a millisecond, however often broadcasts ask for it in between, and
weak fairness of the write of a broadcast, which has a deadline; none for browsers. The
other runs assume none. Liveness is claimed where nothing outside has to come about:
`SilentIsEvicted`, `DeadIsReleased`, `Settles`, `GoneIsForgotten`.

### What the violations say

- `update_data`: the copy of the database is made, the copy of the binary fails
  (`update_service.go:126`), and the deferred function renames the first over the database the
  panel has open, although no file has been changed. What the panel writes afterwards goes to
  the file of before, which has no name any more, and is not in the database of that name; every other
  failure but "nothing to update" has the same end. `FailureRestores` says what does hold: the
  binary, the schema, and the rows of before.
- `keys_pair`: the first agent that exchanges keys has the panel generate a pair, which
  `SetValue` stores with an update of a row that is not there. That is no error, so the agent is
  handed the public key of a pair that is nowhere, and the next agent gets another one.
  `handler.go:361` and `:372` say that the pair is stored.
- `browsers_lock`: `sendError` answers a message that cannot be understood while a
  broadcast writes to the same browser. `connection.go:117` says that the lock is there
  because concurrent writes panic; a panic in the goroutine of a broadcast ends the panel.

### Promises the code does not keep

Each of these was found with TLC. Where a name is given it is a definition of its module, to be
named in the configuration of a run; the others are what a history variable excepts.

- `EvictsTheSilent` (`AgentConnections`): between the checker's test and
  `UnregisterAgent(serverID)` the agent may
  reconnect; the fresh connection is the one disconnected. The deferred function of a
  handler has the same window. `FailedAuthSparesOld`: `HandleAuth` marks the connection
  authenticated before it writes the answer; if the write fails, the connection was never
  registered, and its deferred function unregisters the server's healthy one.
- `StopFlushesAll` (`DataPipeline`): `Stop` waits for the loop and flushes what is in the
  buffer, but not for the goroutines `Enqueue` has started; a batch one of them is inserting
  is lost when `main` exits. `StopFlushesRest` says that nothing else is.
  `UpdateRestarts` (`PanelUpdate`): `RestartApplication` ends the process it runs in, which
  for the update command is not the service; through the API it holds (`ApiUpdateRestarts`).
- `StoredAsRegistered` (`ServerStatus`), that the column says what the registry says whenever
  nothing is at work: the goroutine of a registration can write after that of the end that followed
  it, and a server whose agent is gone stays "online", and the other way round; and a row read
  by an authentication and saved late puts back the status from before. Nothing
  repairs either until the agent comes or goes again. `StatusFollowsRegistry` says
  that this then happens, and `crossed` marks the servers it is true of meanwhile. Notices lost to
  a cooldown, or told in the wrong order, are the same thing one step further
  (`astray`).
- `OneUpdate` (`PanelUpdate`) with `Polite = FALSE`: two requests that look at the status before
  either has written it are both accepted, and so is one that comes while the status
  is "migrating", or while the command line updates. With `Polite` it would say no more
  than that the list of active steps has the steps it has, so no run claims it.
- Guests (`PanelAccess`): whether they get in and whether they need a password are two settings, written
  one after the other and read one after the other. Between the two writes, after the second has
  failed, and when a login cannot read `guest_password_enabled`, guests get in without a password
  although nobody asked for that.
- A cleared configuration field (`ServerRecords`): the comment at `server_controller.go:1247` has the agent told of an updated
  configuration, but what was cleared is left out of the message (`:1265-1282`), so the row is empty and the agent goes on
  with what it had. `ConfigAgrees` excepts `Empty` by name.
- A fingerprint or key that two first connections, or a connection and a reset, write across each other
  (`AgentKeys`): both agents are let in, or the reset is undone. `mixed` marks the server until a reset runs by
  itself. Two wrong guesses counted as one (`PanelAccess`, `lost`), two notices in one cooldown
  (`ServerNotices`, `raced`), two commands that meet (`PanelProcess`, `crossed`), a new process of an
  update that finds the port taken (`PanelProcess`, `raced`), and a row or a group that is written while it is deleted
  (`ServerRecords`, `late`, `torn`) are left out of their properties in the same way: the code has no lock there, the models
  take these steps, and the properties speak of what is left.
- "First delete all associated data" (`server_controller.go:1308`): `agent_logs` have no
  delete. `NoOrphans` excepts them by name (`Logs`).
- "Please configure a channel first" (`settings_controller.go:455`): the refused request
  has by then overwritten the channels.

Each property of a passing run is paired with a faulty variant of a definition
(the operators commented "Faulty variant" in the modules): with that definition replaced
TLC reports the property violated, so each of them does constrain the code.

## 5. What is proved

`AgentConnectionsProofs`, for any sets of servers and connections:

- `TypeCorrect`: `Spec => []TypeOK`, for both values of `Reauth`. It needs
  `IdentityIsSet`: the calls of the manager come after `SetServerID`.
- `RegistryIsLive`, `AgentIsReachable`, `ClosesOnlyReplaced`, `ClosedStaysClosed`
  under `~Reauth`. None is inductive by itself. The invariant `IInv` adds that
  a connection that has not been answered is private (`UnansweredIsPrivate`: not in
  the table, not waiting to be closed, so nobody but its handler closes it), what is known
  between the steps of authentication (`AuthStages`), and that what waits to be closed is
  marked (`ClosingIsMarked`). Privacy is the heart of it: it is why `SetState` in
  `HandleAuth` cannot revive a closed connection, and why the connection `Register`
  replaces is another one. `~Reauth` is used exactly there. The two lemmas on
  `UnregisterAgent` and `RegisterAgent` are proved part by part; the other actions
  follow from the definitions.
- `Refinement`: `~Reauth /\ Spec => ImplementsRegistry`, with `used` mapped to the
  connections that were answered and have come through `RegisterAgent`.

`ServerNoticesProofs`, about `ServerStatus`:

- `RegistryKeepsOneServer`: `OneServerPerConn` of the abstract registry over restarts, and
  `StatusKeepsRegistry`: `StatusSpec => LastingSpec`, so it holds here too.
- `StatusTypeCorrect`, for any interleaving.
- `StoredStatus`, `BrowsersShowTable`, `NoRepeatedAnnouncement`, with any number of goroutines of one server at
  work at once and rows saved at any time, from `StatusInv`: a goroutine that is still undisturbed is
  the only one of its server and about the registration as it is
  (`AloneOrCrossed`), what it has read is still so and what it has written is stored (`ReadsAreFresh`), the column
  of a server that is neither faulty nor crossed is right once it is
  written (`WrittenIsRight`), and the browsers lag by one announcement (`ShownIsRight`). What
  crossed claims nothing; the proof of `Announce` shows that an undisturbed goroutine
  establishes all of it anew from any state it finds.

and about `ServerNotices`, for any servers, connections, channels and number of changes:

- `NoticesOnlyListen`: `NoticesSpec => StatusSpec`. The alert service takes nothing away from
  the status goroutines and adds nothing to them, so the theorems above
  hold with it (`NotifiedStatus`).
- `NoticesTypeCorrect`, for any interleaving.
- `CooldownHolds`: `OncePerCooldown`, without assumption. The invariant adds that of two
  goroutines that looked and have not set the cooldown the notice is raced
  (`MarksAlone`), and that a notice that has passed cools down with nobody between look and
  mark (`PassedCools`).
- `NoticesAreTrue`: `LastNoticeIsTrue`, without assumption. The invariant says that the last
  notice agrees with what is shown (`ToldIsShown`) and that a notifier either is alone and
  about to tell what is shown, or has led its server astray (`AloneOrAstray`); that what
  is shown is stored comes from `ServerStatus`. The latter is used for a restart only, after
  which the browsers read the table.

`PanelAccessProofs`, for any addresses, limits and number of requests at a time:

- `AccessTypeCorrect`, for which a count that is about to be written fits (`CountsFit`).
- `GuessesBounded` (`GuessesAreBounded`): an address that lost no guess guesses as
  often as the highest limit says, once more for each other login at work at the same time, and
  again as often as logins are at work for each lock that ended before its count. The
  bound itself is not inductive. A guess is counted, or its login is about to count it
  (`GuessesCounted`). While the address is not locked, each guess beyond the limit belongs
  to a login that is still on its way to the lock; while it is, a guess is left to those who
  have already looked for a lock (`LockedInTime`). Both count logins in a set that each step changes
  by one member (`OneMoves`). The limit a login compares with is a limit there was
  (`LimitsKnown`), which is why the bound is in terms of the highest.

`PanelProcessProofs`, for any commands, process numbers and ports:

- `ProcessTypes`, for any interleaving. That the port `start` generates is a port rests on
  the well-ordering of the naturals (`LeastIsIn`).
- `PanelIsFound` (`PidFileFindsPanel`), `StopsForGood` (`StopIsFinal`) and
  `PanelAlwaysServes` (`PanelServes`). They speak of a history without crossing, and all
  three come from one invariant of such histories (`Apart`): one command at work (`OneCommand`) and one
  panel (`OnePanel`); no panel when a command is about to start one or has signalled the
  one it found, and the one it is about to signal is the one there is (`CommandsKnow`); a process that was told to
  quit is awaited by the command that told it (`QuitIsAwaited`), so that none is left
  behind to hold the port.

`ServerRecordsProofs`, for any servers, groups, tables, requests and agents:

- `RecordsTypes`, `NothingIsOrphaned` (`NoOrphans`) and `ConfigsAgree` (`ConfigAgrees`).
- All rest on the shape of the lists of statements (`Shaped`): which statement may follow
  which, that what belongs to a server is deleted before its row, that the servers of a group
  are freed before the group is deleted, that a configuration is read and sent after the row
  that holds it is written. Each handler's list has that shape when it is asked (`AsksStart`), and
  what a statement leaves of it, done, failed or skipped, has it too (`LaterShaped`,
  `BecomesShaped`).
- `NoOrphans` needs to know about deletions half way: what is still stored of the server is
  still in the list (`DeletionsLeft`), and when a group's row is the only thing left to delete
  no server is in it (`GroupsFreed`), unless the history says that a
  write crossed or a statement failed (`late`, `torn`).
- `ConfigAgrees` needs to know where the configuration is: the one last written is with the
  request that wrote it, or on its way down, or on its way up, or arrived, and at one of these places
  only (`ConfigTravels`), unless the history says that updates crossed, a message was
  lost, or an old row was saved back (`astray`). The next configuration that is written undisturbed
  establishes it anew. What is cleared arrives nowhere, hence `Empty`.

`AgentKeysProofs`, for any servers, agents, connections and number of keys:

- `KeysTypeCorrect`, `OneAgentSpeaks` (`FirstUseHolds`) and `ResetIsInForce` (`ResetTakes`).
  The invariant says what the absence of a lock costs: on a server that is not mixed
  one authentication or one reset works alone (`WorksAlone`), and therefore what it has read
  is still in the row when it writes (`RowAsSeen`, `RowAsReset`): the fingerprint compared is
  the one replaced, the row saved as a whole is the row read. A registered connection has
  come through its authentication (`RegisteredIsIn`), and the key answered last stays in
  force until a reset writes (`KeyInForce`), also when that reset then fails. A
  reset that nothing interrupts establishes all of it anew, which is why it unmixes a
  server.
- `FirstUseStays` (`OnlyResetsReplace`, an action property): on a server that is not mixed only
  a reset replaces the key or a fingerprint that is there, and nothing brings a deleted row
  back. It follows from `RowAsSeen`, where the row saved as a whole is the row that is there.
- `KeysKeepRegistry`: `KeysSpec => RegistrySpec`.

`DataPipelineProofs`, for any reports, workers and sizes:

- `PipelineTypes`, `Conservation` (`OnePlace`), `FullBufferIsFlushed`, and `StopFlushes`
  (`StopFlushesRest`). The invariant adds that the loop owns at most one batch and is
  writing it (`LoopOwnsBatch`), that `Stop` owns at most one and `main` waits for it
  (`StopOwnsBatch`), and where each metric that was there at `Stop` can be at each
  phase (`StopKeepsTrack`). `FullIsFlushed` (no run lists it) is inductive because the appending of an entry
  and the start of its flush are under one lock, and every flush takes everything.
- `PipelineIsChannel`: `Spec => ImplementsChannel`. That what is settled was under way, whether by a
  worker, with a batch, or by the end of the process, is `OnePlace`; so is that the queue
  holds nothing twice, hence a full one is a full channel. `SettledStays` (`SettledIsFinal`), by which
  no report is stored twice, is what the channel adds.

and, about `BrowserFeed`, for any browsers and one or two broadcasts at a time:
`FeedTypeCorrect` and `EveryoneHears` (`HeardAll`). The invariant adds that a connection that is being opened or closed is not in
the table (`OutsideIsOut`), so nobody is missed by the copy of the table a broadcast works
through, and who leaves or is thrown out need not hear.

`PanelUpdateProofs`, for any number of updates of either kind and any rows (`MaxUpdates`
is a bound of the model only: no proof uses it):

- `UpdateTypes`, without assumption on requests.
- Under `Polite`: `CopiesRemain`, `FailuresRestore`, `InstalledIsVerified`,
  `StatusLocksNobodyOut` and `ApiUpdatesTakeEffect`. The invariant has four parts.
  Two updates never run at once, because the status is the step of the one that
  runs (`StatusInv`); the command does not pass through the cache
  (`CommandsDoNotAsk`); what an update has copied is what it began with, until which
  point nothing has been touched, and what is restored is the copy (`CopiesInv`); the
  archive is verified when it is unpacked, the binary is new from the replacement to
  the restart, and stays so after an update of the API has come through (`NewInv`).
  The last two use that the step leaves at most one update running, so they are
  proved after the first. `Polite` is what the first rests on, and is no property of the code. Steps that only move on are covered by two lemmas,
  `GotoKeepsStatus` and `OnwardKeepsCopies`.

Assumptions on constants: the "none" values are not members of the sets they extend; there is a
server (`KeysAssumption`); `Reauth` and `Polite` are Booleans; sizes, limits, the number of
ports and of requests at a time are positive; the default limit is a limit; the updates of the
command line are updates; the kinds of rules and channels, the tables
and the requests of `ServerRecords` are finite sets, for a handler's list of statements is made from them;
at most two broadcasts are under way (`FeedAssumption`: a broadcast has no name in the model, only
whether it is the latest). Servers, agents, connections, browsers, addresses, processes and
reports may be any sets.

`ClosesOnlyReplaced` (`ReplacedByAnother`), `ClosedStaysClosed` (`ClosedIsFinal`),
`FullBufferIsFlushed` and `PipelineIsChannel` are proved and in no run; the
definitions in brackets can be named in the configurations of `conn` and `pipeline`.

Every safety property of a passing run is stated by one of these theorems. Only
model-checked: liveness (`SilentIsEvicted`, `DeadIsReleased`, `Settles`, `GoneIsForgotten`), which is
out of the prover's reach, and the three violations, whose traces are the evidence. `AfterLoop` of
`ServerRecords` picks the first statement after a loop by its position rather than with a
recursive filter, so that it can be reasoned about.

## 6. Not modelled

The parts of the plan that are not begun, and for good: shell scripts, the systemd
unit and the removal of an installation (`uninstall.go`), console output, layout of HTTP
answers and list queries, ciphers, the protocols of mail and webhooks (a message is sent or not),
deletion of old rows, the panel's title and retention settings.

Known from reading, and not covered by a property:

- Log queue: `writeLogEntry` recovers from a panic without setting its result, so the
  retry in `flush` (`log_queue.go:117-132`) never happens.
- Update: after an update that has come through the process exits inside
  `RestartApplication`, so the deferred removal of the copies never runs; the files stay.
- Update: `CleanupTempFiles` looks in the directory for temporary files, while downloads go to
  the working directory, so a failed update leaves its files.
- Agent data: ten workers may store an older system report over a newer one, and a batch whose
  insert fails is discarded as a whole (`fate` of `DataPipeline` counts it as settled).
- Encryption: `SendToAgent` writes plain text on a connection that has agreed on a key
  (`manager.go:255`).
- Update: the restarted binary is started without arguments. In the foreground mode,
  where the environment does not mark a server, it prints the list of commands and ends;
  `Restart` of the model then stands for a person starting the panel.
- Update: the status two minutes after the end is removed only where the cache holds
  it in serialized form (`update_controller.go:220-227`), which the memory cache
  does not; it expires.

`BroadcastToAgents`, `CheckAndAlert` with
the bandwidth, traffic and expiration checks of `alert_service.go`, the status cache of
`agent_data_worker.go` and `StartDaemon` have no caller in the program.
