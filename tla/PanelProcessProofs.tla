------------------------- MODULE PanelProcessProofs -------------------------
(***************************************************************************)
(* The theorems about PanelProcess, for any commands, process numbers and  *)
(* ports.  Until a command has begun beside another or beside a process on *)
(* its way (crossed), one panel runs, the PID file names it, and the       *)
(* command at work knows which one it is (Apart).                          *)
(***************************************************************************)
EXTENDS PanelProcess, WellFoundedInduction, TLAPS

Running == {"init", "up", "deaf"}
Coming == {"boot"} \cup Running
NoneComing == \A p \in Pids : proc[p].state \notin Coming

(* What a command signals or looks at is a process.                        *)
PidsKnown ==
  \A c \in Commands :
    /\ cmd[c].step \in {"check", "signal", "wait", "kill"} => cmd[c].pid \in Pids
    /\ cmd[c].step = "idle" => cmd[c].op = "none"

(* One command at a time, and who starts something was asked to.           *)
OneCommand ==
  /\ \A c, d \in Commands : cmd[c].step # "idle" /\ cmd[d].step # "idle" => c = d
  /\ \A c \in Commands : cmd[c].op \in {"start", "restart"} => ~stopped
  /\ \A c \in Commands : cmd[c].step \in {"write", "spawn"} => cmd[c].op \in {"start", "restart"}

(* One panel at a time; none when a command is about to start one, or has  *)
(* signalled the one it found.                                             *)
OnePanel == \A p, q \in Pids : proc[p].state \in Coming /\ proc[q].state \in Coming => p = q

CommandsKnow ==
  \A c \in Commands, p \in Pids : proc[p].state \in Coming =>
    /\ cmd[c].step \notin {"write", "spawn", "wait", "kill", "remove"}
    /\ cmd[c].step = "signal" => p = cmd[c].pid

(* Who was told to quit is waited for.                                     *)
QuitIsAwaited ==
  \A p \in Pids : proc[p].state = "quit" =>
    \E c \in Commands : cmd[c].step \in {"wait", "kill"} /\ cmd[c].pid = p

(* What the three invariants say, while nothing has crossed.               *)
PanelFound == \A p \in Pids : proc[p].state \in Running => pidFile = p
StoppedIsStopped == stopped => NoneComing
NobodyDeaf == ~raced => \A p \in Pids : proc[p].state # "deaf"

Apart ==
  ~crossed => /\ OneCommand /\ OnePanel /\ CommandsKnow /\ QuitIsAwaited
              /\ PanelFound /\ StoppedIsStopped /\ NobodyDeaf

ProcessInv == ProcessType /\ PidsKnown /\ Apart

----------------------------------------------------------------------------
(* The first free port is one of the ports.                                *)
LEMMA LeastIsIn ==
  ASSUME NEW S \in SUBSET Nat, S # {}
  PROVE  Min(S) \in S
<1>1. \E n \in S : \A m \in S : <<m, n>> \notin OpToRel(<, Nat)
  BY NatLessThanWellFounded, WFMin
<1>2. ASSUME NEW m \in Nat, NEW n \in Nat, m < n
      PROVE  <<m, n>> \in OpToRel(<, Nat)
  BY <1>2, Zenon DEF OpToRel
<1>3. \E n \in S : \A m \in S : ~(m < n)
  BY <1>1, <1>2, Zenon
<1>4. \E n \in S : \A m \in S : n <= m
  BY <1>3
<1> QED BY <1>4 DEF Min

LEMMA PortIsGenerated == ASSUME ProcessType PROVE GenerateRandomPort \in Ports
<1> DEFINE free == {n \in Ports : ~Taken(n)}
<1>1. 1 \in Ports /\ free \in SUBSET Nat
  BY ProcessAssumption DEF Ports
<1>2. free # {} => Min(free) \in free
  BY <1>1, LeastIsIn
<1> QED BY <1>1, <1>2 DEF GenerateRandomPort

----------------------------------------------------------------------------
LEMMA ProcessHas ==
  ASSUME ProcessType
  PROVE  /\ NoProc \in Proc /\ Idle \in Cmd /\ NoPid \notin Pids
         /\ env.port \in Ports /\ env.url \in Ports
         /\ \A c \in Commands : cmd[c] \in Cmd
         /\ \A p \in Pids : proc[p] \in Proc /\ Gone(p) \in Proc
         /\ \A p \in Pids : Gone(p).state \in {"free", "dead"}
<1>1. 1 \in Ports
  BY ProcessAssumption DEF Ports
<1>2. NoProc \in Proc /\ Idle \in Cmd
  BY <1>1 DEF NoProc, Proc, Idle, Cmd
<1>3. [NoProc EXCEPT !.state = "dead"] \in Proc
  BY <1>1 DEF NoProc, Proc
<1>4. NoProc.state = "free" /\ [NoProc EXCEPT !.state = "dead"].state = "dead"
  BY DEF NoProc
<1> QED BY <1>2, <1>3, <1>4, ProcessAssumption DEF ProcessType, Gone

(* The processes a step can leave behind.                                  *)
LEMMA ProcsMade ==
  ASSUME ProcessType, NEW p \in Pids,
         NEW state \in {"free", "boot", "init", "up", "deaf", "quit", "leave", "dead"},
         NEW daemon \in BOOLEAN
  PROVE  /\ [proc[p] EXCEPT !.state = state] \in Proc
         /\ [proc[p] EXCEPT !.state = state].state = state
         /\ [state |-> state, daemon |-> daemon, port |-> env.port] \in Proc
         /\ [NoProc EXCEPT !.state = state, !.daemon = daemon] \in Proc
         /\ [NoProc EXCEPT !.state = state, !.daemon = daemon].state = state
         /\ [proc[p] EXCEPT !.state = state, !.port = env.port] \in Proc
         /\ [proc[p] EXCEPT !.state = state, !.port = env.port].state = state
<1>1. proc[p] \in Proc /\ env.port \in Ports /\ NoProc \in Proc
  BY ProcessHas
<1> QED BY <1>1 DEF Proc

(* What a command is about to do next.                                     *)
LEMMA CmdGoes ==
  ASSUME ProcessType, NEW c \in Commands,
         NEW step \in {"idle", "write", "spawn", "check", "signal", "wait", "kill",
                       "remove", "port", "url"},
         Goto(c, step)
  PROVE  \E next \in Cmd : /\ cmd' = [cmd EXCEPT ![c] = next]
                           /\ next.step = step /\ next.op = cmd[c].op
                           /\ next.pid = cmd[c].pid
<1> DEFINE next == [cmd[c] EXCEPT !.step = step]
<1>1. /\ next \in Cmd /\ next.step = step /\ next.op = cmd[c].op
      /\ next.pid = cmd[c].pid
  BY ProcessHas DEF Cmd
<1>2. cmd' = [cmd EXCEPT ![c] = next]
  BY DEF Goto
<1> HIDE DEF next
<1> QED BY <1>1, <1>2

(* The steps of a command that neither begins one nor changes a process.   *)
MovesOn(c, next) ==
  /\ next \in Cmd
  /\ cmd' = [cmd EXCEPT ![c] = next]

LEMMA EndsMoves ==
  ASSUME ProcessType, NEW c \in Commands, Ends(c)
  PROVE  MovesOn(c, Idle) /\ Idle.step = "idle" /\ Idle.op = "none"
BY ProcessHas DEF Ends, MovesOn, Idle

(***************************************************************************)
(* A step that makes no panel: processes stay, end, quit or leave, and one *)
(* command moves on, to a step that claims no more than is so.             *)
(***************************************************************************)
NoNewPanel ==
  \A p \in Pids : proc'[p].state \in Coming => proc'[p].state = proc[p].state

NobodyLeftToQuit(c, next) ==
  \A p \in Pids : proc'[p].state = "quit" =>
    \/ next.step \in {"wait", "kill"} /\ next.pid = p
    \/ proc[p].state = "quit" /\ ~(cmd[c].step \in {"wait", "kill"} /\ cmd[c].pid = p)

MayClaim(c, next) ==
  /\ next.step = "idle" \/ \A d \in Commands \ {c} : cmd[d].step = "idle"
  /\ next.op \in {"start", "restart"} => ~stopped'
  /\ next.step \in {"write", "spawn"} => next.op \in {"start", "restart"}
  /\ \A p \in Pids : proc'[p].state \in Coming =>
       /\ next.step \notin {"write", "spawn", "wait", "kill", "remove"}
       /\ next.step = "signal" => p = next.pid

(* Others do not lose what they rely on.                                   *)
OthersUndisturbed(c) ==
  /\ stopped' => stopped \/ \A d \in Commands \ {c} : cmd[d].op \notin {"start", "restart"}
  /\ stopped' => stopped \/ \A p \in Pids : proc'[p].state \notin Coming
  /\ pidFile' = pidFile \/ \A p \in Pids : proc'[p].state \notin Running

LEMMA NoNewPanelStep ==
  ASSUME Apart, NEW c \in Commands, NEW next, MovesOn(c, next), ProcessType,
         crossed \in BOOLEAN, crossed' \in BOOLEAN, crossed => crossed', raced' = raced,
         NoNewPanel,
         ~crossed' => NobodyLeftToQuit(c, next) /\ MayClaim(c, next) /\ OthersUndisturbed(c)
  PROVE  Apart'
<1> SUFFICES ASSUME ~crossed'
             PROVE  /\ OneCommand' /\ OnePanel' /\ CommandsKnow' /\ QuitIsAwaited'
                    /\ PanelFound' /\ StoppedIsStopped' /\ NobodyDeaf'
  BY DEF Apart
<1>0. /\ OneCommand /\ OnePanel /\ CommandsKnow /\ QuitIsAwaited
      /\ PanelFound /\ StoppedIsStopped /\ NobodyDeaf
      /\ NobodyLeftToQuit(c, next) /\ MayClaim(c, next) /\ OthersUndisturbed(c)
  BY DEF Apart
<1>1. cmd'[c] = next /\ \A d \in Commands \ {c} : cmd'[d] = cmd[d]
  BY DEF MovesOn, ProcessType
<1>2. OneCommand'
  BY <1>0, <1>1 DEF OneCommand, MayClaim, OthersUndisturbed
<1>3. OnePanel'
  BY <1>0 DEF OnePanel, NoNewPanel
<1>4. CommandsKnow'
  BY <1>0, <1>1 DEF CommandsKnow, NoNewPanel, MayClaim
<1>5. QuitIsAwaited'
  <2> SUFFICES ASSUME NEW p \in Pids, proc'[p].state = "quit"
               PROVE  \E d \in Commands : cmd'[d].step \in {"wait", "kill"} /\ cmd'[d].pid = p
    BY DEF QuitIsAwaited
  <2>1. CASE next.step \in {"wait", "kill"} /\ next.pid = p
    BY <1>1, <2>1
  <2>2. CASE proc[p].state = "quit" /\ ~(cmd[c].step \in {"wait", "kill"} /\ cmd[c].pid = p)
    <3>1. PICK d \in Commands : cmd[d].step \in {"wait", "kill"} /\ cmd[d].pid = p
      BY <1>0, <2>2 DEF QuitIsAwaited
    <3> QED BY <1>1, <2>2, <3>1
  <2> QED BY <1>0, <2>1, <2>2 DEF NobodyLeftToQuit
<1>6. PanelFound' /\ StoppedIsStopped' /\ NobodyDeaf'
  BY <1>0 DEF PanelFound, StoppedIsStopped, NoneComing, NobodyDeaf, NoNewPanel,
     OthersUndisturbed, Coming, Running
<1> QED BY <1>2, <1>3, <1>4, <1>5, <1>6

(* A step of the processes alone, that ends some or lets them go.          *)
LEMMA ProcessEndsStep ==
  ASSUME Apart, NoNewPanel, UNCHANGED <<pidFile, cmd, crossed, raced, stopped>>,
         \A p \in Pids : proc'[p].state = "quit" => proc[p].state = "quit"
  PROVE  Apart'
<1> SUFFICES ASSUME ~crossed'
             PROVE  /\ OneCommand' /\ OnePanel' /\ CommandsKnow' /\ QuitIsAwaited'
                    /\ PanelFound' /\ StoppedIsStopped' /\ NobodyDeaf'
  BY DEF Apart
<1>1. /\ OneCommand /\ OnePanel /\ CommandsKnow /\ QuitIsAwaited
      /\ PanelFound /\ StoppedIsStopped /\ NobodyDeaf
  BY DEF Apart
<1>2. OneCommand' /\ OnePanel' /\ CommandsKnow' /\ QuitIsAwaited'
  BY <1>1 DEF OneCommand, OnePanel, CommandsKnow, QuitIsAwaited, NoNewPanel
<1>3. PanelFound' /\ StoppedIsStopped' /\ NobodyDeaf'
  BY <1>1 DEF PanelFound, StoppedIsStopped, NoneComing, NobodyDeaf, NoNewPanel, Coming, Running
<1> QED BY <1>2, <1>3

(* A step that makes or moves a panel: there is no other, it is the one    *)
(* the file names unless it is still on its way, and nobody is after it.   *)
OnlyPanel(p) ==
  /\ \A q \in Pids : /\ proc'[q].state \in Coming => q = p
                     /\ proc'[q].state # "quit"
  /\ proc'[p].state \in Running => pidFile' = p
  /\ raced' \/ proc'[p].state # "deaf"
  /\ ~stopped'

LEMMA PanelComesStep ==
  ASSUME NEW p \in Pids,
         ~crossed' =>
           /\ OnlyPanel(p) /\ OneCommand'
           /\ \A c \in Commands :
                /\ cmd'[c].step \notin {"write", "spawn", "wait", "kill", "remove"}
                /\ cmd'[c].step = "signal" => cmd'[c].pid = p
  PROVE  Apart'
<1> SUFFICES ASSUME ~crossed'
             PROVE  /\ OneCommand' /\ OnePanel' /\ CommandsKnow' /\ QuitIsAwaited'
                    /\ PanelFound' /\ StoppedIsStopped' /\ NobodyDeaf'
  BY DEF Apart
<1>1. OnePanel' /\ CommandsKnow' /\ QuitIsAwaited'
  BY DEF OnePanel, CommandsKnow, QuitIsAwaited, OnlyPanel
<1>2. PanelFound' /\ StoppedIsStopped' /\ NobodyDeaf'
  BY DEF PanelFound, StoppedIsStopped, NobodyDeaf, OnlyPanel, Coming, Running
<1> QED BY <1>1, <1>2

----------------------------------------------------------------------------
(* A command that finds nothing running begins beside no panel.            *)
LEMMA NothingFound ==
  ASSUME Apart, ~crossed, ~OnItsWay, ~IsProcessRunning(pidFile), ProcessType
  PROVE  NoneComing
<1> SUFFICES ASSUME NEW p \in Pids, proc[p].state \in Coming PROVE FALSE
  BY DEF NoneComing
<1>1. proc[p].state # "boot"
  BY DEF OnItsWay, In
<1>2. pidFile = p /\ proc[p].state # "free"
  BY <1>1 DEF Apart, PanelFound, Coming, Running
<1> QED BY <1>2, ProcessAssumption DEF IsProcessRunning, In

LEMMA BeginsApart ==
  ASSUME NEW c \in Commands, Begins(c), ~crossed'
  PROVE  ~crossed /\ ~OnItsWay /\ \A d \in Commands \ {c} : cmd[d].step = "idle"
BY DEF Begins, At

LEMMA BeginStartStep ==
  ASSUME ProcessInv, NEW c \in Commands, NEW daemon \in BOOLEAN, BeginStart(c, daemon)
  PROVE  ProcessInv'
<1> USE DEF ProcessInv
<1>0. /\ cmd[c].step = "idle" /\ cmd[c].op = "none" /\ stopped' = FALSE
      /\ UNCHANGED <<pidFile, env, raced>>
      /\ cmd[c] \in Cmd /\ cmd = [cmd EXCEPT ![c] = cmd[c]]
  BY ProcessHas DEF BeginStart, At, PidsKnown, ProcessType
<1>1. CASE IsProcessRunning(pidFile) /\ daemon
  <2>1. UNCHANGED <<proc, cmd, crossed>>
    BY <1>1 DEF BeginStart
  <2>2. ProcessType' /\ PidsKnown'
    BY <1>0, <2>1 DEF ProcessType, PidsKnown
  <2>3. MovesOn(c, cmd[c]) /\ NoNewPanel
    BY <1>0, <2>1 DEF MovesOn, NoNewPanel
  <2>4. NobodyLeftToQuit(c, cmd[c]) /\ OthersUndisturbed(c) /\ MayClaim(c, cmd[c])
    BY <1>0, <2>1 DEF NobodyLeftToQuit, OthersUndisturbed, MayClaim
  <2>5. Apart'
    BY <1>0, <2>1, <2>3, <2>4, NoNewPanelStep DEF ProcessType
  <2> QED BY <2>2, <2>5
<1>2. CASE IsProcessRunning(pidFile) /\ ~daemon
  <2>1. PICK p \in Pids :
          /\ proc' = [proc EXCEPT ![p] = [state |-> "init", daemon |-> FALSE, port |-> env.port]]
          /\ crossed' = TRUE /\ UNCHANGED cmd
    BY <1>2 DEF BeginStart
  <2>2. ProcessType' /\ PidsKnown'
    BY <1>0, <2>1, ProcsMade DEF ProcessType, PidsKnown
  <2> QED BY <2>1, <2>2 DEF Apart
<1>3. CASE ~IsProcessRunning(pidFile)
  <2> DEFINE next == [Idle EXCEPT !.op = "start", !.daemon = daemon,
                                  !.step = IF daemon THEN "spawn" ELSE "write"]
  <2>1. /\ next \in Cmd /\ next.op = "start" /\ next.step \in {"spawn", "write"}
        /\ cmd' = [cmd EXCEPT ![c] = next] /\ Begins(c) /\ UNCHANGED proc
    BY <1>3, ProcessHas DEF BeginStart, Idle, Cmd
  <2> HIDE DEF next
  <2>2. ProcessType' /\ PidsKnown'
    BY <1>0, <2>1 DEF ProcessType, PidsKnown, Begins
  <2>3. MovesOn(c, next) /\ NoNewPanel
    BY <2>1 DEF MovesOn, NoNewPanel
  <2>4. ASSUME ~crossed'
        PROVE  NobodyLeftToQuit(c, next) /\ OthersUndisturbed(c) /\ MayClaim(c, next)
    <3>1. ~crossed /\ ~OnItsWay /\ \A d \in Commands \ {c} : cmd[d].step = "idle"
      BY <2>1, <2>4, BeginsApart
    <3>2. NoneComing
      BY <1>3, <3>1, NothingFound
    <3> QED BY <1>0, <2>1, <3>1, <3>2
           DEF NobodyLeftToQuit, OthersUndisturbed, MayClaim, NoneComing
  <2>5. crossed => crossed'
    BY <2>1 DEF Begins
  <2>6. Apart'
    BY <1>0, <2>2, <2>3, <2>4, <2>5, NoNewPanelStep DEF ProcessType
  <2> QED BY <2>2, <2>6
<1> QED BY <1>1, <1>2, <1>3

LEMMA StartForegroundStep ==
  ASSUME ProcessInv, NEW c \in Commands, StartForeground(c)
  PROVE  ProcessInv'
<1> USE DEF ProcessInv
<1>0. /\ cmd[c].step = "write" /\ MovesOn(c, Idle) /\ Idle.step = "idle" /\ Idle.op = "none"
      /\ UNCHANGED <<env, crossed, raced, stopped>>
  BY EndsMoves DEF StartForeground, At, history
<1>1. /\ cmd' \in [Commands -> Cmd] /\ PidsKnown' /\ cmd'[c] = Idle
      /\ \A d \in Commands \ {c} : cmd'[d] = cmd[d]
  BY <1>0 DEF MovesOn, ProcessType, PidsKnown
<1>2. CASE UNCHANGED <<proc, pidFile>>
  <2>1. ProcessType' /\ NoNewPanel
    BY <1>0, <1>1, <1>2 DEF ProcessType, NoNewPanel
  <2>2. NobodyLeftToQuit(c, Idle) /\ OthersUndisturbed(c) /\ MayClaim(c, Idle)
    BY <1>0, <1>2 DEF NobodyLeftToQuit, OthersUndisturbed, MayClaim
  <2>3. Apart'
    BY <1>0, <2>1, <2>2, NoNewPanelStep DEF ProcessType
  <2> QED BY <1>1, <2>1, <2>3
<1>3. CASE \E p \in Pids :
             /\ In(p, {"free"})
             /\ proc' = [proc EXCEPT ![p] = [state |-> "init", daemon |-> FALSE,
                                             port |-> env.port]]
             /\ WritePID(p)
  <2>1. PICK p \in Pids :
             /\ proc' = [proc EXCEPT ![p] = [state |-> "init", daemon |-> FALSE,
                                             port |-> env.port]]
             /\ pidFile' = p
    BY <1>3 DEF WritePID
  <2>2. ProcessType'
    BY <1>0, <1>1, <2>1, ProcsMade DEF ProcessType
  <2>3. proc'[p].state = "init" /\ \A q \in Pids \ {p} : proc'[q] = proc[q]
    BY <2>1 DEF ProcessType
  <2>4. ASSUME ~crossed'
        PROVE  /\ OnlyPanel(p) /\ OneCommand'
               /\ \A d \in Commands :
                    cmd'[d].step \notin {"write", "spawn", "wait", "kill", "remove", "signal"}
    <3>1. /\ OneCommand /\ CommandsKnow /\ QuitIsAwaited
          /\ \A d \in Commands \ {c} : cmd[d].step = "idle"
      BY <1>0, <2>4 DEF Apart, OneCommand
    <3>2. ~stopped
      BY <1>0, <3>1 DEF OneCommand
    <3>3. \A d \in Commands : cmd'[d].step = "idle" /\ cmd'[d].op = "none"
      BY <1>0, <1>1, <3>1 DEF PidsKnown
    <3>4. OneCommand'
      BY <3>3 DEF OneCommand
    <3>5. \A q \in Pids : proc[q].state \notin Coming /\ proc[q].state # "quit"
      BY <1>0, <3>1 DEF CommandsKnow, QuitIsAwaited
    <3> QED BY <1>0, <2>1, <2>3, <3>2, <3>3, <3>4, <3>5 DEF OnlyPanel
  <2>5. Apart'
    BY <2>4, PanelComesStep
  <2> QED BY <1>1, <2>2, <2>5
<1> QED BY <1>2, <1>3 DEF StartForeground

LEMMA SpawnStep ==
  ASSUME ProcessInv, NEW c \in Commands, Spawn(c)
  PROVE  ProcessInv'
<1> USE DEF ProcessInv
<1>0. cmd[c].step = "spawn" /\ UNCHANGED <<pidFile, env, crossed, raced, stopped>>
  BY DEF Spawn, At, history
<1>1. CASE Ends(c) /\ UNCHANGED proc
  <2>1. MovesOn(c, Idle) /\ Idle.step = "idle" /\ Idle.op = "none" /\ NoNewPanel
    BY <1>1, EndsMoves DEF NoNewPanel
  <2>2. ProcessType' /\ PidsKnown'
    BY <1>0, <1>1, <2>1 DEF ProcessType, PidsKnown, MovesOn
  <2>3. NobodyLeftToQuit(c, Idle) /\ OthersUndisturbed(c) /\ MayClaim(c, Idle)
    BY <1>0, <1>1, <2>1 DEF NobodyLeftToQuit, OthersUndisturbed, MayClaim
  <2>4. Apart'
    BY <1>0, <2>1, <2>3, NoNewPanelStep DEF ProcessType
  <2> QED BY <2>2, <2>4
<1>2. CASE \E p \in Pids :
             /\ In(p, {"free"})
             /\ proc' = [proc EXCEPT ![p] = [NoProc EXCEPT !.state = "boot", !.daemon = TRUE]]
             /\ cmd' = [cmd EXCEPT ![c].step = "check", ![c].pid = p]
  <2>1. PICK p \in Pids :
             /\ proc' = [proc EXCEPT ![p] = [NoProc EXCEPT !.state = "boot", !.daemon = TRUE]]
             /\ cmd' = [cmd EXCEPT ![c].step = "check", ![c].pid = p]
    BY <1>2
  <2> DEFINE next == [cmd[c] EXCEPT !.step = "check", !.pid = p]
  <2>2. /\ next \in Cmd /\ next.step = "check" /\ next.pid = p
        /\ next.op = cmd[c].op
    BY ProcessHas DEF Cmd
  <2>3. cmd' = [cmd EXCEPT ![c] = next]
    BY <2>1
  <2> HIDE DEF next
  <2>4. /\ cmd' \in [Commands -> Cmd] /\ cmd'[c] = next
        /\ \A d \in Commands \ {c} : cmd'[d] = cmd[d]
    BY <2>2, <2>3 DEF ProcessType
  <2> DEFINE made == [NoProc EXCEPT !.state = "boot", !.daemon = TRUE]
  <2>10. made \in Proc /\ made.state = "boot"
    BY ProcsMade
  <2>11. proc' = [proc EXCEPT ![p] = made]
    BY <2>1
  <2> HIDE DEF made
  <2>5. ProcessType' /\ PidsKnown'
    BY <1>0, <2>2, <2>4, <2>10, <2>11 DEF ProcessType, PidsKnown
  <2>6. proc'[p].state = "boot" /\ \A q \in Pids \ {p} : proc'[q] = proc[q]
    BY <2>10, <2>11 DEF ProcessType
  <2>7. ASSUME ~crossed'
        PROVE  /\ OnlyPanel(p) /\ OneCommand'
               /\ \A d \in Commands :
                    cmd'[d].step \notin {"write", "spawn", "wait", "kill", "remove", "signal"}
    <3>1. /\ OneCommand /\ CommandsKnow /\ QuitIsAwaited
          /\ \A d \in Commands \ {c} : cmd[d].step = "idle"
      BY <1>0, <2>7 DEF Apart, OneCommand
    <3>2. ~stopped
      BY <1>0, <3>1 DEF OneCommand
    <3>3. OneCommand'
      BY <1>0, <2>2, <2>4, <3>1, <3>2 DEF OneCommand
    <3>4. \A q \in Pids : proc[q].state \notin Coming /\ proc[q].state # "quit"
      BY <1>0, <3>1 DEF CommandsKnow, QuitIsAwaited
    <3> QED BY <1>0, <2>2, <2>4, <2>6, <3>1, <3>2, <3>3, <3>4 DEF OnlyPanel, Running
  <2>8. Apart'
    BY <2>7, PanelComesStep
  <2> QED BY <2>5, <2>8
<1> QED BY <1>1, <1>2 DEF Spawn

LEMMA CheckChildStep ==
  ASSUME ProcessInv, NEW c \in Commands, CheckChild(c)
  PROVE  ProcessInv'
<1> USE DEF ProcessInv
<1>1. /\ cmd[c].step = "check" /\ UNCHANGED <<pidFile, env, crossed, raced, stopped>>
      /\ MovesOn(c, Idle) /\ Idle.step = "idle" /\ Idle.op = "none"
      /\ proc' = proc \/ proc' = [proc EXCEPT ![cmd[c].pid] = NoProc]
      /\ cmd[c].pid \in Pids
  BY EndsMoves DEF CheckChild, At, history, PidsKnown
<1>2. NoProc \in Proc /\ NoProc.state = "free"
  BY ProcessHas DEF NoProc
<1>3. \A p \in Pids : proc'[p] = proc[p] \/ proc'[p].state = "free"
  BY <1>1, <1>2 DEF ProcessType
<1>4. ProcessType' /\ PidsKnown' /\ NoNewPanel
  <2>1. proc' \in [Pids -> Proc]
    BY <1>1, <1>2 DEF ProcessType
  <2> QED BY <1>1, <1>3, <2>1 DEF ProcessType, PidsKnown, MovesOn, NoNewPanel, Coming, Running
<1>5. NobodyLeftToQuit(c, Idle) /\ OthersUndisturbed(c) /\ MayClaim(c, Idle)
  BY <1>1, <1>3 DEF NobodyLeftToQuit, OthersUndisturbed, MayClaim
<1>6. Apart'
  BY <1>1, <1>4, <1>5, NoNewPanelStep DEF ProcessType
<1> QED BY <1>4, <1>6

----------------------------------------------------------------------------
(* The panel itself.                                                       *)
LEMMA BootStep ==
  ASSUME ProcessInv, NEW p \in Pids, Boot(p)
  PROVE  ProcessInv'
<1> USE DEF ProcessInv
<1>1. /\ proc[p].state = "boot" /\ pidFile' = p
      /\ UNCHANGED <<env, cmd, crossed, raced, stopped>>
      /\ proc' = [proc EXCEPT ![p] = [proc[p] EXCEPT !.state = "init", !.port = env.port]]
  BY DEF Boot, In, WritePID, history
<1>2. /\ proc' \in [Pids -> Proc] /\ proc'[p].state = "init"
      /\ \A q \in Pids \ {p} : proc'[q] = proc[q]
  <2> DEFINE made == [proc[p] EXCEPT !.state = "init", !.port = env.port]
  <2>1. made \in Proc /\ made.state = "init"
    BY ProcsMade
  <2>2. proc' = [proc EXCEPT ![p] = made]
    BY <1>1
  <2> HIDE DEF made
  <2> QED BY <2>1, <2>2 DEF ProcessType
<1>3. ProcessType' /\ PidsKnown'
  BY <1>1, <1>2 DEF ProcessType, PidsKnown
<1>4. ASSUME ~crossed'
      PROVE  /\ OnlyPanel(p) /\ OneCommand'
             /\ \A c \in Commands :
                  /\ cmd'[c].step \notin {"write", "spawn", "wait", "kill", "remove"}
                  /\ cmd'[c].step = "signal" => cmd'[c].pid = p
  <2>1. /\ OneCommand /\ OnePanel /\ CommandsKnow /\ QuitIsAwaited /\ StoppedIsStopped
        /\ proc[p].state \in Coming
    BY <1>1, <1>4 DEF Apart, Coming
  <2>2. ~stopped
    BY <2>1 DEF StoppedIsStopped, NoneComing
  <2>3. \A c \in Commands :
          /\ cmd[c].step \notin {"write", "spawn", "wait", "kill", "remove"}
          /\ cmd[c].step = "signal" => cmd[c].pid = p
    BY <2>1 DEF CommandsKnow
  <2>4. \A q \in Pids : proc[q].state # "quit" /\ (proc[q].state \in Coming => q = p)
    BY <2>1, <2>3 DEF OnePanel, QuitIsAwaited
  <2>5. OneCommand'
    BY <1>1, <2>1 DEF OneCommand
  <2> QED BY <1>1, <1>2, <2>2, <2>3, <2>4, <2>5 DEF OnlyPanel
<1> QED BY <1>3, <1>4, PanelComesStep

LEMMA RunStep ==
  ASSUME ProcessInv, NEW p \in Pids, Run(p)
  PROVE  ProcessInv'
<1> USE DEF ProcessInv
<1> DEFINE state == IF Taken(proc[p].port) THEN "deaf" ELSE "up"
<1>1. /\ proc[p].state = "init"
      /\ UNCHANGED <<pidFile, env, cmd, crossed, stopped>>
      /\ raced' = (raced \/ \E q \in Pids : In(q, {"leave"}))
      /\ proc' = [proc EXCEPT ![p] = [proc[p] EXCEPT !.state = state]]
  BY DEF Run, In
<1>2. state \in {"deaf", "up"}
  OBVIOUS
<1>3. state = "deaf" => Taken(proc[p].port)
  OBVIOUS
<1> HIDE DEF state
<1>4. /\ proc' \in [Pids -> Proc] /\ proc'[p].state = state
      /\ \A q \in Pids \ {p} : proc'[q] = proc[q]
  <2> DEFINE made == [proc[p] EXCEPT !.state = state]
  <2>1. made \in Proc /\ made.state = state
    <3>1. proc[p] \in Proc
      BY ProcessHas
    <3> QED BY <1>2, <3>1 DEF Proc
  <2>2. proc' = [proc EXCEPT ![p] = made]
    BY <1>1
  <2> HIDE DEF made
  <2> QED BY <2>1, <2>2 DEF ProcessType
<1>5. ProcessType' /\ PidsKnown'
  BY <1>1, <1>4 DEF ProcessType, PidsKnown
<1>6. ASSUME ~crossed'
      PROVE  /\ OnlyPanel(p) /\ OneCommand'
             /\ \A c \in Commands :
                  /\ cmd'[c].step \notin {"write", "spawn", "wait", "kill", "remove"}
                  /\ cmd'[c].step = "signal" => cmd'[c].pid = p
  <2>1. /\ OneCommand /\ OnePanel /\ CommandsKnow /\ QuitIsAwaited /\ StoppedIsStopped
        /\ PanelFound /\ proc[p].state \in Coming /\ pidFile = p
    BY <1>1, <1>6 DEF Apart, Coming, Running, PanelFound
  <2>2. ~stopped
    BY <2>1 DEF StoppedIsStopped, NoneComing
  <2>3. \A c \in Commands :
          /\ cmd[c].step \notin {"write", "spawn", "wait", "kill", "remove"}
          /\ cmd[c].step = "signal" => cmd[c].pid = p
    BY <2>1 DEF CommandsKnow
  <2>4. \A q \in Pids : proc[q].state # "quit" /\ (proc[q].state \in Coming => q = p)
    BY <2>1, <2>3 DEF OnePanel, QuitIsAwaited
  <2>5. OneCommand'
    BY <1>1, <2>1 DEF OneCommand
  (* Whoever has the port is not a panel that stays, so it leaves.         *)
  <2>6. state = "deaf" => raced'
    <3> SUFFICES ASSUME Taken(proc[p].port) PROVE \E q \in Pids : In(q, {"leave"})
      BY <1>1, <1>3
    <3>1. PICK q \in Pids : In(q, {"up"}) \/ Quitting(q)
      BY DEF Taken
    <3>2. proc[q].state # "up"
      BY <1>1, <2>4 DEF Coming, Running
    <3> QED BY <2>4, <3>1, <3>2 DEF In, Quitting
  <2> QED BY <1>1, <1>2, <1>4, <2>1, <2>2, <2>3, <2>4, <2>5, <2>6 DEF OnlyPanel
<1> QED BY <1>5, <1>6, PanelComesStep

LEMMA ExitStep ==
  ASSUME ProcessInv, NEW p \in Pids, Exit(p)
  PROVE  ProcessInv'
<1> USE DEF ProcessInv
<1>1. /\ proc' = [proc EXCEPT ![p] = Gone(p)]
      /\ UNCHANGED <<pidFile, env, cmd, crossed, raced, stopped>>
  BY DEF Exit, history
<1>2. Gone(p) \in Proc /\ Gone(p).state \in {"free", "dead"}
  BY ProcessHas
<1>3. \A q \in Pids : proc'[q] = proc[q] \/ proc'[q].state \in {"free", "dead"}
  BY <1>1, <1>2 DEF ProcessType
<1>4. ProcessType' /\ PidsKnown'
  BY <1>1, <1>2 DEF ProcessType, PidsKnown
<1>5. NoNewPanel
  BY <1>3 DEF NoNewPanel, Coming, Running
<1>6. Apart'
  BY <1>1, <1>3, <1>5, ProcessEndsStep
<1> QED BY <1>4, <1>6

LEMMA RestartApplicationStep ==
  ASSUME ProcessInv, NEW p \in Pids, RestartApplication(p)
  PROVE  ProcessInv'
<1> USE DEF ProcessInv
<1>1. PICK q \in Pids :
        /\ In(q, {"free"})
        /\ proc' = [proc EXCEPT ![p].state = "leave",
                      ![q] = IF proc[p].daemon
                             THEN [NoProc EXCEPT !.state = "boot", !.daemon = TRUE]
                             ELSE NoProc]
  BY DEF RestartApplication
<1> DEFINE made == IF proc[p].daemon THEN [NoProc EXCEPT !.state = "boot", !.daemon = TRUE]
                   ELSE NoProc
           left == [proc[p] EXCEPT !.state = "leave"]
<1>2. /\ made \in Proc /\ made.state \in {"boot", "free"}
      /\ left \in Proc /\ left.state = "leave"
  BY ProcsMade, ProcessHas DEF NoProc
<1>3. /\ proc[p].state = "up" /\ p # q /\ stopped' = FALSE
      /\ UNCHANGED <<pidFile, env, cmd, raced>>
      /\ crossed' = (crossed \/ \E c \in Commands : cmd[c].step # "idle")
  BY <1>1 DEF RestartApplication, In, At
<1>4. proc' = [[proc EXCEPT ![p] = left] EXCEPT ![q] = made]
  BY <1>1
<1> HIDE DEF made, left
<1>5. /\ proc' \in [Pids -> Proc] /\ proc'[p] = left /\ proc'[q] = made
      /\ \A r \in Pids \ {p, q} : proc'[r] = proc[r]
  BY <1>2, <1>3, <1>4 DEF ProcessType
<1>6. ProcessType' /\ PidsKnown'
  BY <1>3, <1>5 DEF ProcessType, PidsKnown
<1>7. ASSUME ~crossed'
      PROVE  /\ OnlyPanel(q) /\ OneCommand'
             /\ \A c \in Commands : cmd'[c].step = "idle"
  <2>1. /\ \A c \in Commands : cmd[c].step = "idle" /\ cmd[c].op = "none"
        /\ OnePanel /\ QuitIsAwaited
    BY <1>3, <1>7 DEF Apart, PidsKnown
  <2>2. \A r \in Pids : proc[r].state # "quit" /\ (proc[r].state \in Coming => r = p)
    BY <1>3, <2>1 DEF OnePanel, QuitIsAwaited, Coming, Running
  <2>3. OneCommand'
    BY <1>3, <2>1 DEF OneCommand
  <2> QED BY <1>2, <1>3, <1>5, <2>1, <2>2, <2>3 DEF OnlyPanel, Coming, Running
<1>8. Apart'
  BY <1>7, PanelComesStep
<1> QED BY <1>6, <1>8

----------------------------------------------------------------------------
LEMMA BeginStopStep ==
  ASSUME ProcessInv, NEW c \in Commands, BeginStop(c)
  PROVE  ProcessInv'
<1> USE DEF ProcessInv
<1>0. /\ cmd[c].step = "idle" /\ cmd[c].op = "none" /\ Begins(c)
      /\ UNCHANGED <<proc, env, raced>> /\ NoNewPanel
      /\ cmd[c] \in Cmd /\ cmd = [cmd EXCEPT ![c] = cmd[c]]
      /\ crossed' \in BOOLEAN
  BY ProcessHas DEF BeginStop, Begins, At, PidsKnown, ProcessType, NoNewPanel
<1>3. crossed => crossed'
  BY DEF BeginStop, Begins
<1>1. CASE IsProcessRunning(pidFile)
  <2> DEFINE next == [Idle EXCEPT !.op = "stop", !.step = "signal", !.pid = pidFile]
  <2>1. /\ next \in Cmd /\ next.op = "stop" /\ next.step = "signal" /\ next.pid = pidFile
        /\ cmd' = [cmd EXCEPT ![c] = next] /\ UNCHANGED <<pidFile, stopped>>
        /\ pidFile \in Pids
    BY <1>1, ProcessHas DEF BeginStop, Idle, Cmd, ProcessType, IsProcessRunning
  <2> HIDE DEF next
  <2>2. ProcessType' /\ PidsKnown' /\ MovesOn(c, next)
    <3>1. /\ cmd' \in [Commands -> Cmd] /\ cmd'[c] = next /\ stopped' \in BOOLEAN
          /\ \A d \in Commands \ {c} : cmd'[d] = cmd[d]
      BY <1>0, <2>1 DEF ProcessType
    <3>2. ProcessType'
      BY <1>0, <2>1, <3>1 DEF ProcessType
    <3>3. PidsKnown'
      BY <2>1, <3>1 DEF PidsKnown
    <3> QED BY <2>1, <3>2, <3>3 DEF MovesOn
  <2>3. ASSUME ~crossed'
        PROVE  NobodyLeftToQuit(c, next) /\ OthersUndisturbed(c) /\ MayClaim(c, next)
    <3>1. ~crossed /\ ~OnItsWay /\ \A d \in Commands \ {c} : cmd[d].step = "idle"
      BY <1>0, <2>3, BeginsApart
    <3>2. \A p \in Pids : proc[p].state \in Coming => p = pidFile
      BY <3>1 DEF OnItsWay, In, Apart, PanelFound, Coming
    <3> QED BY <1>0, <2>1, <3>1, <3>2 DEF NobodyLeftToQuit, OthersUndisturbed, MayClaim
  <2>4. Apart'
    BY <1>0, <1>3, <2>2, <2>3, NoNewPanelStep DEF ProcessType
  <2> QED BY <2>2, <2>4
<1>2. CASE ~IsProcessRunning(pidFile)
  <2>1. pidFile' \in {NoPid, pidFile} /\ stopped' = TRUE /\ UNCHANGED cmd
    BY <1>2 DEF BeginStop, RemovePID
  <2>2. ProcessType' /\ PidsKnown' /\ MovesOn(c, cmd[c])
    <3>1. pidFile' \in Pids \cup {NoPid} /\ stopped' \in BOOLEAN
      BY <2>1 DEF ProcessType
    <3>2. ProcessType'
      BY <1>0, <2>1, <3>1 DEF ProcessType
    <3>3. PidsKnown'
      BY <2>1 DEF PidsKnown
    <3> QED BY <1>0, <2>1, <3>2, <3>3 DEF MovesOn
  <2>3. ASSUME ~crossed'
        PROVE  NobodyLeftToQuit(c, cmd[c]) /\ OthersUndisturbed(c) /\ MayClaim(c, cmd[c])
    <3>1. ~crossed /\ ~OnItsWay /\ \A d \in Commands \ {c} : cmd[d].step = "idle"
      BY <1>0, <2>3, BeginsApart
    <3>2. NoneComing
      BY <1>2, <3>1, NothingFound
    <3> QED BY <1>0, <2>1, <3>1, <3>2 DEF NobodyLeftToQuit, OthersUndisturbed, MayClaim,
           NoneComing, Coming, PidsKnown
  <2>4. Apart'
    BY <1>0, <1>3, <2>2, <2>3, NoNewPanelStep DEF ProcessType
  <2> QED BY <2>2, <2>4
<1> QED BY <1>1, <1>2

LEMMA BeginRestartStep ==
  ASSUME ProcessInv, NEW c \in Commands, NEW daemon \in BOOLEAN, BeginRestart(c, daemon)
  PROVE  ProcessInv'
<1> USE DEF ProcessInv
<1>0. /\ cmd[c].step = "idle" /\ Begins(c) /\ stopped' = FALSE
      /\ UNCHANGED <<proc, pidFile, env, raced>> /\ NoNewPanel
      /\ crossed' \in BOOLEAN
  BY DEF BeginRestart, Begins, At, NoNewPanel, ProcessType
<1>3. crossed => crossed'
  BY DEF BeginRestart, Begins
<1>1. CASE IsProcessRunning(pidFile)
  <2> DEFINE next == [Idle EXCEPT !.op = "restart", !.daemon = daemon, !.step = "signal",
                                  !.pid = pidFile]
  <2>1. /\ next \in Cmd /\ next.op = "restart" /\ next.step = "signal" /\ next.pid = pidFile
        /\ cmd' = [cmd EXCEPT ![c] = next] /\ pidFile \in Pids
    BY <1>1, ProcessHas DEF BeginRestart, Idle, Cmd, ProcessType, IsProcessRunning
  <2> HIDE DEF next
  <2>2. ProcessType' /\ PidsKnown' /\ MovesOn(c, next)
    <3>1. /\ cmd' \in [Commands -> Cmd] /\ cmd'[c] = next /\ stopped' \in BOOLEAN
          /\ \A d \in Commands \ {c} : cmd'[d] = cmd[d]
      BY <1>0, <2>1 DEF ProcessType
    <3>2. ProcessType'
      BY <1>0, <2>1, <3>1 DEF ProcessType
    <3>3. PidsKnown'
      BY <2>1, <3>1 DEF PidsKnown
    <3> QED BY <2>1, <3>2, <3>3 DEF MovesOn
  <2>3. ASSUME ~crossed'
        PROVE  NobodyLeftToQuit(c, next) /\ OthersUndisturbed(c) /\ MayClaim(c, next)
    <3>1. ~crossed /\ ~OnItsWay /\ \A d \in Commands \ {c} : cmd[d].step = "idle"
      BY <1>0, <2>3, BeginsApart
    <3>2. \A p \in Pids : proc[p].state \in Coming => p = pidFile
      BY <3>1 DEF OnItsWay, In, Apart, PanelFound, Coming
    <3> QED BY <1>0, <2>1, <3>1, <3>2 DEF NobodyLeftToQuit, OthersUndisturbed, MayClaim
  <2>4. Apart'
    BY <1>0, <1>3, <2>2, <2>3, NoNewPanelStep DEF ProcessType
  <2> QED BY <2>2, <2>4
<1>2. CASE ~IsProcessRunning(pidFile)
  <2> DEFINE next == IF daemon THEN [Idle EXCEPT !.op = "restart", !.daemon = TRUE, !.step = "spawn"]
                     ELSE Idle
  <2>1. /\ next \in Cmd /\ cmd' = [cmd EXCEPT ![c] = next]
        /\ \/ next.op = "restart" /\ next.step = "spawn"
           \/ next.op = "none" /\ next.step = "idle"
    BY <1>2, ProcessHas DEF BeginRestart, Idle, Cmd
  <2> HIDE DEF next
  <2>2. ProcessType' /\ PidsKnown' /\ MovesOn(c, next)
    <3>1. /\ cmd' \in [Commands -> Cmd] /\ cmd'[c] = next /\ stopped' \in BOOLEAN
          /\ \A d \in Commands \ {c} : cmd'[d] = cmd[d]
      BY <1>0, <2>1 DEF ProcessType
    <3>2. ProcessType'
      BY <1>0, <2>1, <3>1 DEF ProcessType
    <3>3. PidsKnown'
      BY <2>1, <3>1 DEF PidsKnown
    <3> QED BY <2>1, <3>2, <3>3 DEF MovesOn
  <2>3. ASSUME ~crossed'
        PROVE  NobodyLeftToQuit(c, next) /\ OthersUndisturbed(c) /\ MayClaim(c, next)
    <3>1. ~crossed /\ ~OnItsWay /\ \A d \in Commands \ {c} : cmd[d].step = "idle"
      BY <1>0, <2>3, BeginsApart
    <3>2. NoneComing
      BY <1>2, <3>1, NothingFound
    <3> QED BY <1>0, <2>1, <3>1, <3>2 DEF NobodyLeftToQuit, OthersUndisturbed, MayClaim,
           NoneComing
  <2>4. Apart'
    BY <1>0, <1>3, <2>2, <2>3, NoNewPanelStep DEF ProcessType
  <2> QED BY <2>2, <2>4
<1> QED BY <1>1, <1>2

(* A command that goes on while nothing else is touched but the process it *)
(* deals with.                                                             *)
LEMMA SendSignalStep ==
  ASSUME ProcessInv, NEW c \in Commands, SendSignal(c)
  PROVE  ProcessInv'
<1> USE DEF ProcessInv
<1> DEFINE p == cmd[c].pid
<1>0. /\ cmd[c].step = "signal" /\ p \in Pids /\ p # NoPid
      /\ UNCHANGED <<pidFile, env, crossed, raced, stopped>>
  BY ProcessHas DEF SendSignal, At, history, PidsKnown
<1>1. CASE /\ IsProcessRunning(p)
           /\ proc' = [proc EXCEPT ![p] = Terminated(p)]
           /\ Goto(c, "wait")
  <2>1. PICK next \in Cmd : /\ cmd' = [cmd EXCEPT ![c] = next] /\ next.step = "wait"
                            /\ next.op = cmd[c].op /\ next.pid = p
    BY <1>1, CmdGoes
  <2>2. /\ Terminated(p) \in Proc
        /\ Terminated(p).state \in {"free", "quit", "leave", "dead"}
        /\ Terminated(p).state # "quit" => Terminated(p).state \notin Coming
    <3>1. /\ proc[p] \in Proc /\ Gone(p) \in Proc /\ Gone(p).state \in {"free", "dead"}
          /\ [proc[p] EXCEPT !.state = "quit"] \in Proc
          /\ [proc[p] EXCEPT !.state = "quit"].state = "quit"
      BY <1>0, ProcessHas, ProcsMade
    <3> QED BY <3>1 DEF Terminated, In, Coming, Running
  <2>3. /\ proc' \in [Pids -> Proc] /\ proc'[p].state \notin Coming
        /\ \A q \in Pids \ {p} : proc'[q] = proc[q]
    BY <1>0, <1>1, <2>2 DEF ProcessType, Coming, Running
  <2>4. ProcessType' /\ PidsKnown' /\ MovesOn(c, next) /\ NoNewPanel
    BY <1>0, <2>1, <2>3 DEF ProcessType, PidsKnown, MovesOn, NoNewPanel
  <2>5. ASSUME ~crossed'
        PROVE  NobodyLeftToQuit(c, next) /\ OthersUndisturbed(c) /\ MayClaim(c, next)
    <3>1. /\ \A d \in Commands \ {c} : cmd[d].step = "idle"
          /\ next.op \in {"start", "restart"} => ~stopped
      BY <1>0, <2>1, <2>5 DEF Apart, OneCommand
    <3>2. \A q \in Pids : proc'[q].state \notin Coming
      BY <1>0, <2>3, <2>5 DEF Apart, CommandsKnow
    <3> QED BY <1>0, <2>1, <2>3, <3>1, <3>2 DEF NobodyLeftToQuit, OthersUndisturbed, MayClaim
  <2>6. Apart'
    BY <1>0, <2>4, <2>5, NoNewPanelStep DEF ProcessType
  <2> QED BY <2>4, <2>6
<1>2. CASE /\ ~IsProcessRunning(p)
           /\ IF cmd[c].op = "restart" THEN Goto(c, "remove") ELSE Ends(c)
           /\ UNCHANGED proc
  <2>1. PICK next \in Cmd : /\ cmd' = [cmd EXCEPT ![c] = next]
                            /\ \/ next.step = "remove" /\ next.op = cmd[c].op
                               \/ next.step = "idle" /\ next.op = "none"
    BY <1>2, CmdGoes, EndsMoves DEF MovesOn
  <2>2. ProcessType' /\ PidsKnown' /\ MovesOn(c, next) /\ NoNewPanel
    BY <1>0, <1>2, <2>1 DEF ProcessType, PidsKnown, MovesOn, NoNewPanel
  <2>3. ASSUME ~crossed'
        PROVE  NobodyLeftToQuit(c, next) /\ OthersUndisturbed(c) /\ MayClaim(c, next)
    <3>1. /\ \A d \in Commands \ {c} : cmd[d].step = "idle"
          /\ next.op \in {"start", "restart"} => ~stopped
      BY <1>0, <2>1, <2>3 DEF Apart, OneCommand
    <3>2. \A q \in Pids : proc[q].state \notin Coming
      BY <1>0, <1>2, <2>3 DEF Apart, CommandsKnow, IsProcessRunning, In, Coming, Running
    <3> QED BY <1>0, <1>2, <2>1, <3>1, <3>2 DEF NobodyLeftToQuit, OthersUndisturbed, MayClaim
  <2>4. Apart'
    BY <1>0, <2>2, <2>3, NoNewPanelStep DEF ProcessType
  <2> QED BY <2>2, <2>4
<1> QED BY <1>1, <1>2 DEF SendSignal

LEMMA WaitStep ==
  ASSUME ProcessInv, NEW c \in Commands, WaitForProcessExit(c)
  PROVE  ProcessInv'
<1> USE DEF ProcessInv
<1> DEFINE p == cmd[c].pid
<1>0. /\ cmd[c].step = "wait" /\ p \in Pids /\ p # NoPid
      /\ UNCHANGED <<proc, pidFile, env, crossed, raced, stopped>>
  BY ProcessHas DEF WaitForProcessExit, At, history, PidsKnown
<1>1. PICK next \in Cmd : /\ cmd' = [cmd EXCEPT ![c] = next]
                          /\ next.op = cmd[c].op /\ next.pid = p
                          /\ \/ next.step = "remove" /\ proc[p].state = "free"
                             \/ next.step = "kill"
  <2>1. CASE ~IsProcessRunning(p) /\ Goto(c, "remove")
    BY <1>0, <2>1, CmdGoes DEF IsProcessRunning, In
  <2>2. CASE IsProcessRunning(p) /\ Goto(c, "kill")
    BY <2>2, CmdGoes
  <2> QED BY <2>1, <2>2 DEF WaitForProcessExit
<1>2. ProcessType' /\ PidsKnown' /\ MovesOn(c, next) /\ NoNewPanel
  BY <1>0, <1>1 DEF ProcessType, PidsKnown, MovesOn, NoNewPanel
<1>3. ASSUME ~crossed'
      PROVE  NobodyLeftToQuit(c, next) /\ OthersUndisturbed(c) /\ MayClaim(c, next)
  <2>1. /\ \A d \in Commands \ {c} : cmd[d].step = "idle"
        /\ next.op \in {"start", "restart"} => ~stopped
        /\ \A q \in Pids : proc[q].state \notin Coming
    BY <1>0, <1>1, <1>3 DEF Apart, OneCommand, CommandsKnow
  <2> QED BY <1>0, <1>1, <2>1 DEF NobodyLeftToQuit, OthersUndisturbed, MayClaim
<1>4. Apart'
  BY <1>0, <1>2, <1>3, NoNewPanelStep DEF ProcessType
<1> QED BY <1>2, <1>4

LEMMA KillStep ==
  ASSUME ProcessInv, NEW c \in Commands, Kill(c)
  PROVE  ProcessInv'
<1> USE DEF ProcessInv
<1> DEFINE p == cmd[c].pid
<1>0. /\ cmd[c].step = "kill" /\ p \in Pids
      /\ UNCHANGED <<pidFile, env, crossed, raced, stopped>>
  BY DEF Kill, At, history, PidsKnown
<1>1. PICK next \in Cmd : /\ cmd' = [cmd EXCEPT ![c] = next]
                          /\ \/ next.step = "remove" /\ next.op = cmd[c].op
                             \/ next.step = "idle" /\ next.op = "none"
  BY CmdGoes, EndsMoves DEF Kill, MovesOn
(* Whoever was waited for has ended, or leaves in its own time.            *)
<1>2. PICK made \in Proc : /\ proc' = [proc EXCEPT ![p] = made]
                           /\ made.state \in {"free", "leave", "dead"}
  <2>1. /\ proc[p] \in Proc /\ Gone(p) \in Proc /\ Gone(p).state \in {"free", "dead"}
        /\ [proc[p] EXCEPT !.state = "leave"] \in Proc
        /\ [proc[p] EXCEPT !.state = "leave"].state = "leave"
    BY <1>0, ProcessHas, ProcsMade
  <2>2. CASE proc' = [proc EXCEPT ![p] = Gone(p)]
    BY <2>1, <2>2
  <2>3. CASE proc' = IF Alive(p) THEN [proc EXCEPT ![p].state = "leave"] ELSE proc
    <3>1. CASE Alive(p)
      BY <2>1, <2>3, <3>1
    <3>2. CASE ~Alive(p)
      <4>1. proc[p].state \in {"free", "dead"}
        BY <2>1, <3>2 DEF Proc, Alive, Quitting, In
      <4>2. proc' = [proc EXCEPT ![p] = proc[p]]
        BY <2>3, <3>2 DEF ProcessType
      <4> QED BY <2>1, <4>1, <4>2
    <3> QED BY <3>1, <3>2
  <2> QED BY <2>2, <2>3 DEF Kill
<1>3. /\ proc' \in [Pids -> Proc] /\ proc'[p] = made
      /\ \A q \in Pids \ {p} : proc'[q] = proc[q]
  BY <1>0, <1>2 DEF ProcessType
<1>4. ProcessType' /\ PidsKnown' /\ MovesOn(c, next) /\ NoNewPanel
  BY <1>0, <1>1, <1>2, <1>3 DEF ProcessType, PidsKnown, MovesOn, NoNewPanel, Coming, Running
<1>5. ASSUME ~crossed'
      PROVE  NobodyLeftToQuit(c, next) /\ OthersUndisturbed(c) /\ MayClaim(c, next)
  <2>1. /\ \A d \in Commands \ {c} : cmd[d].step = "idle"
        /\ next.op \in {"start", "restart"} => ~stopped
    BY <1>0, <1>1, <1>5 DEF Apart, OneCommand
  <2>2. \A q \in Pids : proc'[q].state \notin Coming
    BY <1>0, <1>2, <1>3, <1>5 DEF Apart, CommandsKnow, Coming, Running
  <2> QED BY <1>0, <1>1, <1>2, <1>3, <2>1, <2>2
         DEF NobodyLeftToQuit, OthersUndisturbed, MayClaim
<1>6. Apart'
  BY <1>0, <1>4, <1>5, NoNewPanelStep DEF ProcessType
<1> QED BY <1>4, <1>6

LEMMA RemoveStep ==
  ASSUME ProcessInv, NEW c \in Commands, Remove(c)
  PROVE  ProcessInv'
<1> USE DEF ProcessInv
<1>0. /\ cmd[c].step = "remove" /\ pidFile' \in {NoPid, pidFile}
      /\ UNCHANGED <<proc, env, crossed, raced>> /\ NoNewPanel
  BY DEF Remove, At, RemovePID, NoNewPanel
<1>1. stopped' \in BOOLEAN /\ (stopped' => stopped \/ cmd[c].op = "stop")
  BY DEF Remove
<1>2. PICK next \in Cmd : /\ cmd' = [cmd EXCEPT ![c] = next]
                          /\ \/ next.step = "spawn" /\ next.op = "restart"
                                /\ cmd[c].op = "restart"
                             \/ next.step = "idle" /\ next.op = "none"
  BY CmdGoes, EndsMoves DEF Remove, MovesOn
<1>3. ProcessType' /\ PidsKnown' /\ MovesOn(c, next)
  <2>1. /\ cmd' \in [Commands -> Cmd] /\ cmd'[c] = next
        /\ \A d \in Commands \ {c} : cmd'[d] = cmd[d]
    BY <1>2 DEF ProcessType
  <2>2. ProcessType'
    BY <1>0, <1>1, <2>1 DEF ProcessType
  <2>3. PidsKnown'
    BY <1>2, <2>1 DEF PidsKnown
  <2> QED BY <1>2, <2>2, <2>3 DEF MovesOn
<1>4. ASSUME ~crossed'
      PROVE  NobodyLeftToQuit(c, next) /\ OthersUndisturbed(c) /\ MayClaim(c, next)
  <2>1. /\ \A d \in Commands \ {c} : cmd[d].step = "idle" /\ cmd[d].op = "none"
        /\ cmd[c].op = "restart" => ~stopped
        /\ \A q \in Pids : proc[q].state \notin Coming
    BY <1>0, <1>4 DEF Apart, OneCommand, CommandsKnow, PidsKnown
  <2>2. next.op \in {"start", "restart"} => ~stopped'
    BY <1>1, <1>2, <2>1
  <2>3. NobodyLeftToQuit(c, next) /\ MayClaim(c, next)
    BY <1>0, <1>2, <2>1, <2>2 DEF NobodyLeftToQuit, MayClaim
  <2>4. OthersUndisturbed(c)
    BY <1>0, <2>1 DEF OthersUndisturbed, Coming
  <2> QED BY <2>3, <2>4
<1>5. Apart'
  BY <1>0, <1>3, <1>4, NoNewPanelStep DEF ProcessType
<1> QED BY <1>3, <1>5

----------------------------------------------------------------------------
(* reset-port claims nothing: it writes what panels are told next time.    *)
LEMMA BeginResetStep ==
  ASSUME ProcessInv, NEW c \in Commands, BeginReset(c)
  PROVE  ProcessInv'
<1> USE DEF ProcessInv
<1> DEFINE next == [Idle EXCEPT !.op = "reset", !.step = "port", !.port = GenerateRandomPort]
<1>0. /\ cmd[c].step = "idle" /\ Begins(c) /\ crossed' \in BOOLEAN
      /\ UNCHANGED <<proc, pidFile, env, raced, stopped>> /\ NoNewPanel
  BY DEF BeginReset, Begins, At, NoNewPanel
<1>1. crossed => crossed'
  BY <1>0 DEF Begins
<1>2. next \in Cmd /\ next.op = "reset" /\ next.step = "port"
  BY ProcessHas, PortIsGenerated DEF Idle, Cmd
<1>3. cmd' = [cmd EXCEPT ![c] = next]
  BY DEF BeginReset
<1> HIDE DEF next
<1>4. ProcessType' /\ PidsKnown' /\ MovesOn(c, next)
  <2>1. /\ cmd' \in [Commands -> Cmd] /\ cmd'[c] = next
        /\ \A d \in Commands \ {c} : cmd'[d] = cmd[d]
    BY <1>2, <1>3 DEF ProcessType
  <2>2. ProcessType'
    BY <1>0, <2>1 DEF ProcessType
  <2>3. PidsKnown'
    BY <1>2, <2>1 DEF PidsKnown
  <2> QED BY <1>2, <1>3, <2>2, <2>3 DEF MovesOn
<1>5. ASSUME ~crossed'
      PROVE  NobodyLeftToQuit(c, next) /\ OthersUndisturbed(c) /\ MayClaim(c, next)
  <2>1. \A d \in Commands \ {c} : cmd[d].step = "idle"
    BY <1>0, <1>5, BeginsApart
  <2> QED BY <1>0, <1>2, <2>1 DEF NobodyLeftToQuit, OthersUndisturbed, MayClaim
<1>6. Apart'
  BY <1>0, <1>1, <1>4, <1>5, NoNewPanelStep DEF ProcessType
<1> QED BY <1>4, <1>6

LEMMA UpdatePortStep ==
  ASSUME ProcessInv, NEW c \in Commands, UpdatePortInEnv(c)
  PROVE  ProcessInv'
<1> USE DEF ProcessInv
<1>0. /\ cmd[c].step \in {"port", "url"} /\ NoNewPanel
      /\ UNCHANGED <<proc, pidFile, crossed, raced, stopped>>
  BY DEF UpdatePortInEnv, At, history, NoNewPanel
<1>1. env' \in [port : Ports, url : Ports]
  <2>1. cmd[c].port \in Ports
    BY ProcessHas DEF Cmd
  <2> QED BY <2>1 DEF UpdatePortInEnv, ProcessType
<1>2. PICK next \in Cmd : /\ cmd' = [cmd EXCEPT ![c] = next]
                          /\ \/ next.step = "url" /\ next.op = cmd[c].op
                             \/ next.step = "idle" /\ next.op = "none"
  BY CmdGoes, EndsMoves DEF UpdatePortInEnv, MovesOn
<1>3. ProcessType' /\ PidsKnown' /\ MovesOn(c, next)
  BY <1>0, <1>1, <1>2 DEF ProcessType, PidsKnown, MovesOn
<1>4. ASSUME ~crossed'
      PROVE  NobodyLeftToQuit(c, next) /\ OthersUndisturbed(c) /\ MayClaim(c, next)
  <2>1. /\ \A d \in Commands \ {c} : cmd[d].step = "idle"
        /\ next.op \in {"start", "restart"} => ~stopped
    BY <1>0, <1>2, <1>4 DEF Apart, OneCommand
  <2> QED BY <1>0, <1>2, <2>1 DEF NobodyLeftToQuit, OthersUndisturbed, MayClaim
<1>5. Apart'
  BY <1>0, <1>3, <1>4, NoNewPanelStep DEF ProcessType
<1> QED BY <1>3, <1>5

----------------------------------------------------------------------------
LEMMA ProcessStarts == ASSUME ProcessInit PROVE ProcessInv
<1>1. 1 \in Ports /\ NoProc \in Proc /\ Idle \in Cmd
  BY ProcessAssumption DEF Ports, NoProc, Proc, Idle, Cmd
<1>2. ProcessType
  BY <1>1 DEF ProcessInit, ProcessType
<1>3. /\ \A c \in Commands : cmd[c] = Idle
      /\ \A p \in Pids : proc[p] = NoProc
      /\ Idle.step = "idle" /\ Idle.op = "none" /\ NoProc.state = "free"
  BY DEF ProcessInit, Idle, NoProc
<1>4. PidsKnown
  BY <1>3 DEF PidsKnown
<1>5. Apart
  BY <1>3 DEF Apart, OneCommand, OnePanel, CommandsKnow, QuitIsAwaited, PanelFound,
     StoppedIsStopped, NoneComing, NobodyDeaf, Coming, Running
<1> QED BY <1>2, <1>4, <1>5 DEF ProcessInv

LEMMA ProcessSteps == ASSUME ProcessInv, [ProcessNext]_processVars PROVE ProcessInv'
<1>1. ASSUME NEW c \in Commands, CommandNext(c) PROVE ProcessInv'
  BY <1>1, BeginStartStep, BeginRestartStep, BeginStopStep, BeginResetStep,
     StartForegroundStep, SpawnStep, CheckChildStep, SendSignalStep, WaitStep,
     KillStep, RemoveStep, UpdatePortStep DEF CommandNext
<1>2. ASSUME NEW p \in Pids, Boot(p) \/ Run(p) \/ Exit(p) \/ RestartApplication(p)
      PROVE  ProcessInv'
  BY <1>2, BootStep, RunStep, ExitStep, RestartApplicationStep
<1>3. CASE UNCHANGED processVars
  <2>1. UNCHANGED <<proc, pidFile, env, cmd, crossed, raced, stopped>>
    BY <1>3 DEF processVars, history
  <2>2. ProcessType' /\ PidsKnown'
    BY <2>1 DEF ProcessInv, ProcessType, PidsKnown
  <2>3. Apart'
    BY <2>1, ProcessEndsStep DEF ProcessInv, NoNewPanel
  <2> QED BY <2>2, <2>3 DEF ProcessInv
<1> QED BY <1>1, <1>2, <1>3 DEF ProcessNext

(***************************************************************************)
(* While nothing has crossed there is one command and one panel at a time, *)
(* and whoever is about to start or remove something does so beside none.  *)
(***************************************************************************)
THEOREM ProcessInvariance == ProcessSpec => []ProcessInv
<1>1. ProcessInit => ProcessInv
  BY ProcessStarts
<1>2. ProcessInv /\ [ProcessNext]_processVars => ProcessInv'
  BY ProcessSteps
<1> QED BY <1>1, <1>2, PTL DEF ProcessSpec

(***************************************************************************)
(* Processes, files and commands have the values the code gives them; the  *)
(* generated port, too, is one of the ports, when all are taken and when   *)
(* some are free (reset_port.go).                                          *)
(***************************************************************************)
THEOREM ProcessTypes == ProcessSpec => []ProcessType
<1>1. ProcessInv => ProcessType
  BY DEF ProcessInv
<1> QED BY <1>1, ProcessInvariance, PTL

(***************************************************************************)
(* The PID file names every panel past its boot (process.go:41,            *)
(* main.go:42), whatever number of commands there is, unless they crossed. *)
(***************************************************************************)
THEOREM PanelIsFound == ProcessSpec => []PidFileFindsPanel
<1>1. ProcessInv => PidFileFindsPanel
  BY DEF ProcessInv, Apart, PanelFound, PidFileFindsPanel, In, Running
<1> QED BY <1>1, ProcessInvariance, PTL

(***************************************************************************)
(* What stop says is so: no panel is left or on its way that does not quit *)
(* (stop.go:44-87).                                                        *)
(***************************************************************************)
THEOREM StopsForGood == ProcessSpec => []StopIsFinal
<1>1. ProcessInv => StopIsFinal
  BY DEF ProcessInv, Apart, StoppedIsStopped, NoneComing, StopIsFinal, Alive, In,
     Coming, Running
<1> QED BY <1>1, ProcessInvariance, PTL

(***************************************************************************)
(* A panel that has started listens (main.go:98-102): whoever had its port *)
(* has ended before it tries.                                              *)
(***************************************************************************)
THEOREM PanelAlwaysServes == ProcessSpec => []PanelServes
<1>1. ProcessInv => PanelServes
  BY DEF ProcessInv, Apart, NobodyDeaf, PanelServes, In
<1> QED BY <1>1, ProcessInvariance, PTL
============================================================================
