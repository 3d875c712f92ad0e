---------------------------- MODULE PanelProcess ----------------------------
(***************************************************************************)
(* The panel's processes and the file that names one of them: the commands *)
(* start, stop and restart (console/commands/), main.go, which turns a     *)
(* process into a panel, the restart after an update, and reset-port.  A   *)
(* command is a process of its own; it reads the file, signals and waits,  *)
(* and nothing keeps two commands, or a command and a panel that is still  *)
(* on its way, apart.                                                      *)
(***************************************************************************)
EXTENDS Naturals, FiniteSetsExt

CONSTANTS
  Commands, (* the commands at work at a time                              *)
  Pids,     (* the process numbers panels get                              *)
  NoPid,    (* what an absent PID file names                               *)
  MaxPort   (* the ports are 1 .. MaxPort; 1 is the first that is tried    *)

ASSUME ProcessAssumption == NoPid \notin Pids /\ MaxPort \in Nat \ {0}

VARIABLES
  proc,    (* the processes that are, or were to become, a panel           *)
  pidFile, (* the process the PID file names                               *)
  env,     (* the port and the address in the file .env                    *)
  cmd,     (* the commands                                                 *)
  crossed, (* history: did a command begin beside another, or beside a     *)
           (* process on its way, or a panel beside a running one?         *)
  raced,   (* history: did a panel start beside one that leaves?           *)
  stopped  (* history: was the service said to be stopped, and nobody      *)
           (* asked for it since?                                          *)

history == <<crossed, raced, stopped>>
processVars == <<proc, pidFile, env, cmd, history>>

Ports == 1 .. MaxPort

(* boot: before the PID file is written.  init: after it.  deaf: the port  *)
(* was taken.  quit: told to.  leave: signalled itself for an update, or   *)
(* outlived a kill.  dead: ended, and its parent did not wait for it.      *)
Proc == [state : {"free", "boot", "init", "up", "deaf", "quit", "leave", "dead"},
         daemon : BOOLEAN, port : Ports]

Cmd == [op : {"none", "start", "stop", "restart", "reset"}, daemon : BOOLEAN,
        step : {"idle", "write", "spawn", "check", "signal", "wait", "kill",
                "remove", "port", "url"},
        pid : Pids \cup {NoPid}, port : Ports]

ProcessType ==
  /\ proc \in [Pids -> Proc]
  /\ pidFile \in Pids \cup {NoPid}
  /\ env \in [port : Ports, url : Ports]
  /\ cmd \in [Commands -> Cmd]
  /\ crossed \in BOOLEAN /\ raced \in BOOLEAN /\ stopped \in BOOLEAN

NoProc == [state |-> "free", daemon |-> FALSE, port |-> 1]
Idle == [op |-> "none", daemon |-> FALSE, step |-> "idle", pid |-> NoPid, port |-> 1]

ProcessInit ==
  /\ proc = [p \in Pids |-> NoProc]
  /\ pidFile = NoPid
  /\ env = [port |-> 1, url |-> 1]
  /\ cmd = [c \in Commands |-> Idle]
  /\ crossed = FALSE /\ raced = FALSE /\ stopped = FALSE

----------------------------------------------------------------------------
In(p, states) == proc[p].state \in states
Quitting(p) == In(p, {"quit", "leave"})
Alive(p) == In(p, {"boot", "init", "up", "deaf"}) \/ Quitting(p)

(* IsProcessRunning: a signal reaches a process nobody has waited for.     *)
IsProcessRunning(p) == p # NoPid /\ ~In(p, {"free"})

At(c, step) == cmd[c].step = step
Goto(c, step) == cmd' = [cmd EXCEPT ![c].step = step]
Ends(c) == cmd' = [cmd EXCEPT ![c] = Idle]

(* A process that ends stays until its parent, a start command, has ended. *)
Gone(p) ==
  IF \E c \in Commands : At(c, "check") /\ cmd[c].pid = p
  THEN [NoProc EXCEPT !.state = "dead"] ELSE NoProc

OnItsWay == \E p \in Pids : In(p, {"boot"})
Begins(c) ==
  crossed' = (crossed \/ OnItsWay \/ \E d \in Commands \ {c} : ~At(d, "idle"))

WritePID(p) == pidFile' = p
RemovePID == pidFile' \in {NoPid, pidFile}

----------------------------------------------------------------------------
(* StartCommand.Handle.  In the foreground it returns to main.go, which    *)
(* makes a panel of the process even if the service was found running.     *)
BeginStart(c, daemon) ==
  /\ At(c, "idle")
  /\ stopped' = FALSE
  /\ IF IsProcessRunning(pidFile)
     THEN IF daemon THEN UNCHANGED <<proc, cmd, crossed>>
          ELSE \E p \in Pids :
                 /\ In(p, {"free"})
                 /\ proc' = [proc EXCEPT ![p] = [state |-> "init", daemon |-> FALSE,
                                                 port |-> env.port]]
                 /\ crossed' = TRUE
                 /\ UNCHANGED cmd
     ELSE /\ cmd' = [cmd EXCEPT ![c] =
               [Idle EXCEPT !.op = "start", !.daemon = daemon,
                            !.step = IF daemon THEN "spawn" ELSE "write"]]
          /\ Begins(c)
          /\ UNCHANGED proc
  /\ UNCHANGED <<pidFile, env, raced>>

(* Faulty variant: only daemons write the PID file.                        *)
StartForegroundUnnamed(c) ==
  /\ At(c, "write")
  /\ Ends(c)
  /\ \E p \in Pids :
       /\ In(p, {"free"})
       /\ proc' = [proc EXCEPT ![p] = [state |-> "init", daemon |-> FALSE,
                                       port |-> env.port]]
  /\ UNCHANGED <<pidFile, env, history>>

(* In the foreground the process of the command becomes the panel.         *)
StartForeground(c) ==
  /\ At(c, "write")
  /\ Ends(c)
  /\ \/ UNCHANGED <<proc, pidFile>>
     \/ \E p \in Pids :
          /\ In(p, {"free"})
          /\ proc' = [proc EXCEPT ![p] = [state |-> "init", daemon |-> FALSE,
                                          port |-> env.port]]
          /\ WritePID(p)
  /\ UNCHANGED <<env, history>>

(* startDaemonService runs the program again and looks at it once.         *)
Spawn(c) ==
  /\ At(c, "spawn")
  /\ \/ Ends(c) /\ UNCHANGED proc
     \/ \E p \in Pids :
          /\ In(p, {"free"})
          /\ proc' = [proc EXCEPT ![p] = [NoProc EXCEPT !.state = "boot", !.daemon = TRUE]]
          /\ cmd' = [cmd EXCEPT ![c].step = "check", ![c].pid = p]
  /\ UNCHANGED <<pidFile, env, history>>

(* A child that has ended is still there to be signalled; it goes with us. *)
CheckChild(c) ==
  /\ At(c, "check")
  /\ Ends(c)
  /\ proc' = IF In(cmd[c].pid, {"dead"}) THEN [proc EXCEPT ![cmd[c].pid] = NoProc] ELSE proc
  /\ UNCHANGED <<pidFile, env, history>>

----------------------------------------------------------------------------
(* Faulty variant: in daemon mode the PID file is not written.             *)
BootSilently(p) ==
  /\ In(p, {"boot"})
  /\ proc' = [proc EXCEPT ![p].state = "init", ![p].port = env.port]
  /\ UNCHANGED <<pidFile, env, cmd, history>>

(* main.go: the configuration is read, then the PID file written.          *)
Boot(p) ==
  /\ In(p, {"boot"})
  /\ proc' = [proc EXCEPT ![p].state = "init", ![p].port = env.port]
  /\ WritePID(p)
  /\ UNCHANGED <<env, cmd, history>>

(* A server that cannot listen is logged: the process goes on without one. *)
Taken(port) == \E q \in Pids : (In(q, {"up"}) \/ Quitting(q)) /\ proc[q].port = port

Run(p) ==
  /\ In(p, {"init"})
  /\ proc' = [proc EXCEPT ![p].state = IF Taken(proc[p].port) THEN "deaf" ELSE "up"]
  /\ raced' = (raced \/ \E q \in Pids : In(q, {"leave"}))
  /\ UNCHANGED <<pidFile, env, cmd, crossed, stopped>>

(* The panel ends: it was told to, or could not boot, or died.  Nobody     *)
(* removes the PID file.                                                   *)
Exit(p) ==
  /\ Alive(p)
  /\ proc' = [proc EXCEPT ![p] = Gone(p)]
  /\ UNCHANGED <<pidFile, env, cmd, history>>

(* RestartApplication: the program is run again in the same environment,   *)
(* with no arguments, and the panel signals itself.  Only a panel in daemon*)
(* mode comes back: any other run without arguments lists the commands.    *)
RestartApplication(p) ==
  /\ In(p, {"up"})
  /\ \E q \in Pids :
       /\ In(q, {"free"})
       /\ proc' = [proc EXCEPT ![p].state = "leave",
                     ![q] = IF proc[p].daemon
                            THEN [NoProc EXCEPT !.state = "boot", !.daemon = TRUE]
                            ELSE NoProc]
  /\ crossed' = (crossed \/ \E c \in Commands : ~At(c, "idle"))
  /\ stopped' = FALSE
  /\ UNCHANGED <<pidFile, env, cmd, raced>>

----------------------------------------------------------------------------
(* StopCommand.Handle and the first half of RestartCommand.Handle.         *)
BeginStop(c) ==
  /\ At(c, "idle")
  /\ Begins(c)
  /\ IF IsProcessRunning(pidFile)
     THEN /\ cmd' = [cmd EXCEPT ![c] =
               [Idle EXCEPT !.op = "stop", !.step = "signal", !.pid = pidFile]]
          /\ UNCHANGED <<pidFile, stopped>>
     ELSE RemovePID /\ stopped' = TRUE /\ UNCHANGED cmd
  /\ UNCHANGED <<proc, env, raced>>

(* Where nothing runs it only starts.                                      *)
BeginRestart(c, daemon) ==
  /\ At(c, "idle")
  /\ Begins(c)
  /\ stopped' = FALSE
  /\ IF IsProcessRunning(pidFile)
     THEN cmd' = [cmd EXCEPT ![c] =
            [Idle EXCEPT !.op = "restart", !.daemon = daemon, !.step = "signal",
                         !.pid = pidFile]]
     ELSE cmd' = [cmd EXCEPT ![c] =
            IF daemon THEN [Idle EXCEPT !.op = "restart", !.daemon = TRUE, !.step = "spawn"]
            ELSE Idle]
  /\ UNCHANGED <<proc, pidFile, env, raced>>

(* Until main.go asks for the signals, SIGTERM ends a process at once.     *)
Terminated(p) ==
  IF In(p, {"boot", "init"}) THEN Gone(p)
  ELSE IF In(p, {"leave", "dead"}) THEN proc[p] ELSE [proc[p] EXCEPT !.state = "quit"]

(* Faulty variant: stop and restart do not wait for the process.           *)
SignalOnly(c) ==
  /\ At(c, "signal")
  /\ IF IsProcessRunning(cmd[c].pid)
     THEN proc' = [proc EXCEPT ![cmd[c].pid] = Terminated(cmd[c].pid)]
     ELSE UNCHANGED proc
  /\ Goto(c, "remove")
  /\ UNCHANGED <<pidFile, env, history>>

(* The signal fails if the process has gone: stop gives up, restart does   *)
(* not.                                                                    *)
SendSignal(c) ==
  LET p == cmd[c].pid
  IN /\ At(c, "signal")
     /\ \/ /\ IsProcessRunning(p)
           /\ proc' = [proc EXCEPT ![p] = Terminated(p)]
           /\ Goto(c, "wait")
        \/ /\ ~IsProcessRunning(p)
           /\ IF cmd[c].op = "restart" THEN Goto(c, "remove") ELSE Ends(c)
           /\ UNCHANGED proc
     /\ UNCHANGED <<pidFile, env, history>>

(* The wait has a limit; nobody is killed who ended in between.            *)
WaitForProcessExit(c) ==
  /\ At(c, "wait")
  /\ \/ ~IsProcessRunning(cmd[c].pid) /\ Goto(c, "remove")
     \/ IsProcessRunning(cmd[c].pid) /\ Goto(c, "kill")
  /\ UNCHANGED <<proc, pidFile, env, history>>

(* SIGKILL, and another look half a second later: the process may be there *)
(* still, or have been gone before, which stop reports and restart ignores.*)
Kill(c) ==
  LET p == cmd[c].pid
  IN /\ At(c, "kill")
     /\ \/ /\ IsProcessRunning(p)
           /\ proc' = [proc EXCEPT ![p] = Gone(p)]
           /\ Goto(c, "remove")
        \/ /\ proc' = IF Alive(p) THEN [proc EXCEPT ![p].state = "leave"] ELSE proc
           /\ IF cmd[c].op = "restart" THEN Goto(c, "remove") ELSE Ends(c)
     /\ UNCHANGED <<pidFile, env, history>>

(* The file is removed whatever it names by now.                           *)
Remove(c) ==
  /\ At(c, "remove")
  /\ RemovePID
  /\ IF cmd[c].op = "restart" /\ cmd[c].daemon THEN Goto(c, "spawn") ELSE Ends(c)
  /\ stopped' = (stopped \/ cmd[c].op = "stop")
  /\ UNCHANGED <<proc, env, crossed, raced>>

----------------------------------------------------------------------------
(* Faulty variant: the loop ends past the last port.                       *)
GenerateRandomPortBeyond ==
  LET free == {n \in Ports : ~Taken(n)} IN IF free = {} THEN MaxPort + 1 ELSE Min(free)

(* ResetPortCommand.Handle: the first port that nobody listens on, or the  *)
(* first of all; APP_PORT is written, then APP_URL.                        *)
GenerateRandomPort ==
  LET free == {n \in Ports : ~Taken(n)} IN IF free = {} THEN 1 ELSE Min(free)

BeginReset(c) ==
  /\ At(c, "idle")
  /\ cmd' = [cmd EXCEPT ![c] = [Idle EXCEPT !.op = "reset", !.step = "port",
                                            !.port = GenerateRandomPort]]
  /\ Begins(c)
  /\ UNCHANGED <<proc, pidFile, env, raced, stopped>>

UpdatePortInEnv(c) ==
  /\ \/ At(c, "port") /\ env' = [env EXCEPT !.port = cmd[c].port] /\ Goto(c, "url")
     \/ At(c, "url") /\ env' = [env EXCEPT !.url = cmd[c].port] /\ Ends(c)
     \/ (At(c, "port") \/ At(c, "url")) /\ UNCHANGED env /\ Ends(c)
  /\ UNCHANGED <<proc, pidFile, history>>

----------------------------------------------------------------------------
CommandNext(c) ==
  \/ \E daemon \in BOOLEAN : BeginStart(c, daemon) \/ BeginRestart(c, daemon)
  \/ BeginStop(c) \/ BeginReset(c)
  \/ StartForeground(c) \/ Spawn(c) \/ CheckChild(c)
  \/ SendSignal(c) \/ WaitForProcessExit(c) \/ Kill(c) \/ Remove(c)
  \/ UpdatePortInEnv(c)

ProcessNext ==
  \/ \E c \in Commands : CommandNext(c)
  \/ \E p \in Pids : Boot(p) \/ Run(p) \/ Exit(p) \/ RestartApplication(p)

ProcessSpec == ProcessInit /\ [][ProcessNext]_processVars

----------------------------------------------------------------------------
(***************************************************************************)
(* Stop and restart find the panel: the PID file names every panel that is *)
(* past its boot and was not told to quit, so there is one at most         *)
(* (process.go:41, main.go:42), through crashes, failed signals and        *)
(* updates, unless commands crossed, or one that ran in the foreground     *)
(* beside a running panel started a second one.                            *)
(***************************************************************************)
PidFileFindsPanel ==
  ~crossed => \A p \in Pids : In(p, {"init", "up", "deaf"}) => pidFile = p

(***************************************************************************)
(* Once stop has said that the service is stopped there is no panel, and   *)
(* none on its way, but one that quits (stop.go:44-87), unless commands    *)
(* crossed.                                                                *)
(***************************************************************************)
StopIsFinal ==
  stopped /\ ~crossed => \A p \in Pids : Alive(p) => Quitting(p)

(***************************************************************************)
(* A panel that has started serves: its port is free when it starts to     *)
(* listen, which it tries once (main.go:98-102), because restart waits for  *)
(* the one before; unless commands crossed, the one before outlived a kill,*)
(* or an update's new process was faster than the end of the old one       *)
(* (update_service.go:1139).                                               *)
(***************************************************************************)
PanelServes == ~crossed /\ ~raced => \A p \in Pids : ~In(p, {"deaf"})
============================================================================
