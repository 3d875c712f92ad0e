------------------------------ MODULE PanelUpdate -----------------------------
(***************************************************************************)
(* The update of the panel by itself.  ExecuteUpdate (update_service.go)   *)
(* copies database and binary, downloads, verifies and unpacks a release,  *)
(* replaces the binary it runs from, has the new one migrate the database, *)
(* and restarts.  A failure on the way restores both copies.  Updates are  *)
(* asked for through the API, which keeps the step they are at in a cache  *)
(* of the panel's process (update_controller.go), or on the command line,  *)
(* in a process of their own with a cache of its own (commands/update.go). *)
(***************************************************************************)
EXTENDS Naturals, FiniteSets

CONSTANTS
  Tasks,         (* updates                                                *)
  CommandLine,   (* those run by the update command                        *)
  Rows,          (* what the panel writes to the database                  *)
  None,
  Polite,        (* nobody asks for an update while one runs unseen        *)
  MaxUpdates     (* bound: how many of the updates are begun               *)

ASSUME UpdateAssumption ==
  /\ CommandLine \subseteq Tasks
  /\ Polite \in BOOLEAN
  /\ None \notin {"old", "new", "damaged"}
  /\ None \notin [schema : {"old", "partial", "new"}, rows : SUBSET Rows]

VARIABLES
  pc,            (* the step each update takes next                        *)
  status,        (* update_status in the panel's cache                     *)
  dbBackup, binBackup,     (* the copies each update has made              *)
  archive, extracted,      (* the downloaded release, the unpacked binary  *)
  binary, db,    (* the executable file, and the database file             *)
  up, running,   (* the panel's process is there, and of which version     *)
  attached,      (* its connections have the database file of now open     *)
  written,       (* the rows it has written                                *)
  before,        (* history: binary and database as each update began      *)
  replaced,      (* history: the updates that have replaced the binary     *)
  botched        (* history: those of which a restore failed               *)

files == <<archive, extracted>>
backups == <<dbBackup, binBackup>>
installed == <<binary, db>>
panel == <<up, running, attached, written>>
history == <<before, replaced, botched>>
vars == <<pc, status, files, backups, installed, panel, history>>

(* The step the cache shows while an update is at some point of its code.  *)
StepOf ==
  [backupDb |-> "connecting", backupBinary |-> "connecting", fetch |-> "connecting",
   download |-> "downloading", verify |-> "verifying", unpack |-> "unpacking",
   replace |-> "unpacking", migrate |-> "migrating", complete |-> "completed",
   restart |-> "restarting", exit |-> "restarting",
   restoreDb |-> "error", restoreBinary |-> "error", discard |-> "error"]

Working == DOMAIN StepOf
Over == {"exited", "failed", "skipped", "killed"}
Busy(t) == pc[t] \in Working \cup {"asked"}

(* activeSteps of UpdatePanel                                              *)
ActiveSteps == {"connecting", "downloading", "verifying", "unpacking", "restarting"}

Binaries == {"old", "new", "damaged"}
Files == {"good", "damaged"}          (* missing is like damaged           *)
Databases == [schema : {"old", "partial", "new"}, rows : SUBSET Rows]

TypeOK ==
  /\ pc \in [Tasks -> Working \cup Over \cup {"idle", "asked"}]
  /\ status \in {StepOf[p] : p \in Working} \cup {"none"}
  /\ dbBackup \in [Tasks -> Databases \cup {None}]
  /\ binBackup \in [Tasks -> Binaries \cup {None}]
  /\ archive \in Files /\ extracted \in Files
  /\ binary \in Binaries /\ db \in Databases
  /\ up \in BOOLEAN /\ running \in Binaries
  /\ attached \in BOOLEAN /\ written \subseteq Rows
  /\ before \in [Tasks -> [binary : Binaries, db : Databases]]
  /\ replaced \subseteq Tasks /\ botched \subseteq Tasks

Init ==
  /\ pc = [t \in Tasks |-> "idle"]
  /\ status = "none"
  /\ dbBackup = [t \in Tasks |-> None] /\ binBackup = [t \in Tasks |-> None]
  /\ archive = "damaged" /\ extracted = "damaged"
  /\ binary = "old" /\ db = [schema |-> "old", rows |-> {}]
  /\ up = TRUE /\ running = "old"
  /\ attached = TRUE /\ written = {}
  /\ before = [t \in Tasks |-> [binary |-> binary, db |-> db]]
  /\ replaced = {} /\ botched = {}

----------------------------------------------------------------------------
(* Requests.  The steps of a running update that do not keep another one   *)
(* away: before its status is set, from "migrating" to "completed", after  *)
(* an error, and all of them on the command line.                          *)
Unseen(t) ==
  \/ t \in CommandLine
  \/ pc[t] \in {"asked", "migrate", "complete", "restoreDb", "restoreBinary", "discard"}

CanBegin(t) ==
  /\ pc[t] = "idle"
  /\ Cardinality({u \in Tasks : pc[u] # "idle"}) < MaxUpdates

Begin(t) == before' = [before EXCEPT ![t] = [binary |-> binary, db |-> db]]

(* UpdatePanel reads the status; what is over is forgotten.                *)
Ask(t) ==
  /\ up
  /\ t \notin CommandLine /\ CanBegin(t)
  /\ status \notin ActiveSteps
  /\ Polite => ~\E u \in Tasks : Busy(u) /\ Unseen(u)
  /\ pc' = [pc EXCEPT ![t] = "asked"]
  /\ status' = IF status \in {"error", "completed"} THEN "none" ELSE status
  /\ UNCHANGED <<files, backups, installed, panel, history>>

(* It writes the status, starts the goroutine, and answers.                *)
Accept(t) ==
  /\ pc[t] = "asked"
  /\ pc' = [pc EXCEPT ![t] = "backupDb"]
  /\ status' = "connecting"
  /\ Begin(t)
  /\ UNCHANGED <<files, backups, installed, panel, replaced, botched>>

(* The command looks into its own cache, in which there is nothing.        *)
StartCommand(t) ==
  /\ t \in CommandLine /\ CanBegin(t)
  /\ Polite => ~\E u \in Tasks : Busy(u)
  /\ pc' = [pc EXCEPT ![t] = "backupDb"]
  /\ Begin(t)
  /\ UNCHANGED <<status, files, backups, installed, panel, replaced, botched>>

----------------------------------------------------------------------------
(* ExecuteUpdate.  Its callback writes the cache for an update of the API, *)
(* and prints for the command.                                             *)
Show(t, step) == status' = IF t \in CommandLine THEN status ELSE step

Goto(t, point) ==
  /\ pc' = [pc EXCEPT ![t] = point]
  /\ Show(t, StepOf[point])

(* Faulty variant of Fail: needRestore is not set.                         *)
FailForgets(t) == Goto(t, "discard")

Fail(t) == Goto(t, "restoreDb")

BackupDatabase(t) ==
  /\ pc[t] = "backupDb"
  /\ \/ dbBackup' = [dbBackup EXCEPT ![t] = db] /\ Goto(t, "backupBinary")
     \/ UNCHANGED dbBackup /\ Fail(t)
  /\ UNCHANGED <<binBackup, files, installed, panel, history>>

BackupBinary(t) ==
  /\ pc[t] = "backupBinary"
  /\ \/ binBackup' = [binBackup EXCEPT ![t] = binary] /\ Goto(t, "fetch")
     \/ UNCHANGED binBackup /\ Fail(t)
  /\ UNCHANGED <<dbBackup, files, installed, panel, history>>

(* The version that the process of an update was started from.             *)
Current(t) == IF t \in CommandLine THEN before[t].binary ELSE running

(* Faulty variant of FetchRelease: finding nothing to do is not shown.     *)
FetchReleaseSilently(t) ==
  /\ pc[t] = "fetch"
  /\ \/ Current(t) = "old" /\ Goto(t, "download")
     \/ pc' = [pc EXCEPT ![t] = "discard"] /\ UNCHANGED status
     \/ Fail(t)
  /\ UNCHANGED <<files, backups, installed, panel, history>>

(* The latest release is "new", or there is none yet; --force goes on      *)
(* without looking.                                                        *)
FetchRelease(t) ==
  /\ pc[t] = "fetch"
  /\ \/ (Current(t) = "old" \/ t \in CommandLine) /\ Goto(t, "download")
     \/ Goto(t, "discard")
     \/ Fail(t)
  /\ UNCHANGED <<files, backups, installed, panel, history>>

(* Whatever the server answers is written to the file.                     *)
Download(t) ==
  /\ pc[t] = "download"
  /\ \/ archive' \in Files /\ Goto(t, "verify")
     \/ archive' = "damaged" /\ Fail(t)
  /\ UNCHANGED <<extracted, backups, installed, panel, history>>

(* Faulty variant of Verify: the checksum is not compared.                 *)
VerifyNothing(t) ==
  /\ pc[t] = "verify"
  /\ Goto(t, "unpack")
  /\ UNCHANGED <<files, backups, installed, panel, history>>

(* A file stands for its checksum, and the checksum file of a release has  *)
(* the one of the good file.                                               *)
CalculateSHA256 == archive
ReadSHA256File == "good"

(* The checksum file is downloaded and compared.                           *)
Verify(t) ==
  /\ pc[t] = "verify"
  /\ (CalculateSHA256 = ReadSHA256File /\ Goto(t, "unpack")) \/ Fail(t)
  /\ UNCHANGED <<files, backups, installed, panel, history>>

(* It unpacks what is in the file of that name by now, or stops half way.  *)
ExtractTarGz == extracted' = archive

Unpack(t) ==
  /\ pc[t] = "unpack"
  /\ \/ ExtractTarGz /\ Goto(t, "replace")
     \/ extracted' = "damaged" /\ Fail(t)
  /\ UNCHANGED <<archive, backups, installed, panel, history>>

(* It removes the files it is given: only a copy that succeeded gives it   *)
(* any.  What a failed update has downloaded is not in the directory the   *)
(* patterns look in, and stays.                                            *)
CleanupTempFiles == archive' = "damaged" /\ extracted' = "damaged"

(* CopyFile onto the executable, and the check of the copy.                *)
InstallBinary(t) ==
  /\ binary' = IF extracted = "good" THEN "new" ELSE "damaged"
  /\ replaced' = replaced \cup {t}

ReplaceBinary(t) ==
  /\ pc[t] = "replace"
  /\ \/ InstallBinary(t) /\ Goto(t, "migrate") /\ CleanupTempFiles
     \/ InstallBinary(t) /\ Fail(t) /\ UNCHANGED files
     \/ Fail(t) /\ UNCHANGED <<files, binary, replaced>>
  /\ UNCHANGED <<db, backups, panel, before, botched>>

(* The binary on disk is run to migrate.  That it fails, or only gets some *)
(* of the way, does not stop the update; --skip-migration leaves it out.   *)
RunMigrations(t) ==
  /\ pc[t] = "migrate"
  /\ \/ UNCHANGED db
     \/ /\ binary = "new" /\ db.schema # "new"
        /\ \E s \in {"partial", "new"} : db' = [db EXCEPT !.schema = s]
  /\ Goto(t, "complete")
  /\ UNCHANGED <<files, backups, binary, panel, history>>

Complete(t) ==
  /\ pc[t] = "complete"
  /\ Goto(t, "restart")
  /\ UNCHANGED <<files, backups, installed, panel, history>>

(* The shell that will start the executable is started.                    *)
RestartApplication(t) ==
  /\ pc[t] = "restart"
  /\ Goto(t, "exit") \/ Fail(t)
  /\ UNCHANGED <<files, backups, installed, panel, history>>

----------------------------------------------------------------------------
(* The deferred function: it restores both copies, or removes them.        *)
RestoreDatabase(t) ==
  /\ pc[t] = "restoreDb"
  /\ pc' = [pc EXCEPT ![t] = "restoreBinary"]
  /\ \/ dbBackup[t] = None /\ UNCHANGED <<db, attached, botched>>
     \/ /\ dbBackup[t] # None
        /\ db' = dbBackup[t]
        /\ attached' = ~up             (* the file is renamed into place   *)
        /\ UNCHANGED botched
     \/ dbBackup[t] # None /\ botched' = botched \cup {t} /\ UNCHANGED <<db, attached>>
  /\ UNCHANGED <<status, files, backups, binary, up, running, written, before, replaced>>

(* Faulty variants of RestoreBinary: a copy is taken for granted; the      *)
(* binary is left alone.                                                   *)
RestoreBinaryBlindly(t) ==
  /\ pc[t] = "restoreBinary"
  /\ pc' = [pc EXCEPT ![t] = "failed"]
  /\ Show(t, "error")
  /\ binary' = binBackup[t]
  /\ UNCHANGED <<files, backups, db, panel, history>>

RestoreBinaryNot(t) ==
  /\ pc[t] = "restoreBinary"
  /\ pc' = [pc EXCEPT ![t] = "failed"]
  /\ Show(t, "error")
  /\ UNCHANGED <<files, backups, installed, panel, history>>

(* After it the caller sets the status of the error once more.             *)
RestoreBinary(t) ==
  /\ pc[t] = "restoreBinary"
  /\ pc' = [pc EXCEPT ![t] = "failed"]
  /\ Show(t, "error")
  /\ \/ binBackup[t] = None /\ UNCHANGED <<binary, botched>>
     \/ binBackup[t] # None /\ binary' = binBackup[t] /\ UNCHANGED botched
     \/ binBackup[t] # None /\ botched' = botched \cup {t} /\ UNCHANGED binary
  /\ UNCHANGED <<files, backups, db, panel, before, replaced>>

RemoveBackups(t) ==
  /\ pc[t] = "discard"
  /\ pc' = [pc EXCEPT ![t] = "skipped"]
  /\ dbBackup' = [dbBackup EXCEPT ![t] = None]
  /\ binBackup' = [binBackup EXCEPT ![t] = None]
  /\ UNCHANGED <<status, files, installed, panel, history>>

----------------------------------------------------------------------------
(* Processes.  With the panel go its cache, its connections, and the       *)
(* updates it was running, deferred functions included.                    *)
PanelEnds(gone) ==
  /\ up
  /\ up' = FALSE
  /\ status' = "none"
  /\ attached' = TRUE
  /\ pc' = [t \in Tasks |-> IF t \in gone THEN "exited"
                            ELSE IF t \notin CommandLine /\ Busy(t) THEN "killed" ELSE pc[t]]
  /\ UNCHANGED <<files, backups, installed, running, written, history>>

CommandEnds(t, how) ==
  /\ pc' = [pc EXCEPT ![t] = how]
  /\ UNCHANGED <<status, files, backups, installed, panel, history>>

(* Faulty variant of Exit: the old process lives on.                       *)
ExitStays(t) == pc[t] = "exit" /\ CommandEnds(t, "exited")

(* RestartApplication signals the process it is in, and exits it.          *)
Exit(t) ==
  /\ pc[t] = "exit"
  /\ IF t \in CommandLine THEN CommandEnds(t, "exited") ELSE PanelEnds({t})

Crash ==
  \/ PanelEnds({})
  \/ \E t \in CommandLine : Busy(t) /\ CommandEnds(t, "killed")

(* The panel is started, by the shell or by a person.                      *)
Restart ==
  /\ ~up /\ binary # "damaged"
  /\ up' = TRUE /\ running' = binary
  /\ UNCHANGED <<pc, status, files, backups, installed, attached, written, history>>

(* What is written through a connection to a file that has been renamed    *)
(* away is lost; a connection opened since writes to the file of now.      *)
WriteRow(r) ==
  /\ up
  /\ r \notin written
  /\ written' = written \cup {r}
  /\ \/ db' = [db EXCEPT !.rows = @ \cup {r}]
     \/ ~attached /\ UNCHANGED db
  /\ UNCHANGED <<pc, status, files, backups, binary, up, running, attached, history>>

(* The status of what is over expires.                                     *)
Expire ==
  /\ status \in {"error", "completed"}
  /\ ~\E t \in Tasks \ CommandLine : Busy(t)
  /\ status' = "none"
  /\ UNCHANGED <<pc, files, backups, installed, panel, history>>

----------------------------------------------------------------------------
Execute(t) ==
  \/ BackupDatabase(t) \/ BackupBinary(t) \/ FetchRelease(t) \/ Download(t)
  \/ Verify(t) \/ Unpack(t) \/ ReplaceBinary(t) \/ RunMigrations(t)
  \/ Complete(t) \/ RestartApplication(t) \/ Exit(t)
  \/ RestoreDatabase(t) \/ RestoreBinary(t) \/ RemoveBackups(t)

Next ==
  \/ \E t \in Tasks : Ask(t) \/ Accept(t) \/ StartCommand(t) \/ Execute(t)
  \/ Crash \/ Restart \/ Expire
  \/ \E r \in Rows : WriteRow(r)

Spec == Init /\ [][Next]_vars

----------------------------------------------------------------------------
(***************************************************************************)
(* Once an update has replaced the binary, and until it has come through,  *)
(* the binary and the database it began with are there to be restored,     *)
(* even if its process has died.                                           *)
(***************************************************************************)
Recoverable ==
  \A t \in replaced : pc[t] # "exited" =>
    /\ binBackup[t] = before[t].binary
    /\ dbBackup[t] # None
    /\ dbBackup[t].schema = before[t].db.schema
    /\ before[t].db.rows \subseteq dbBackup[t].rows

(***************************************************************************)
(* "On failure restore the backups" (update_service.go:71): an update that *)
(* fails leaves the binary and the schema it began with, and the rows that *)
(* were there then, unless a restore failed as well.                       *)
(***************************************************************************)
FailureRestores ==
  [][\A t \in Tasks : pc[t] # "failed" /\ pc'[t] = "failed" /\ t \notin botched' =>
       /\ binary' = before[t].binary
       /\ db'.schema = before[t].db.schema
       /\ before[t].db.rows \subseteq db'.rows]_vars

(***************************************************************************)
(* A file that did not pass its checksum never becomes the panel's binary, *)
(* though updates and crashes leave their files behind for the next one.   *)
(***************************************************************************)
OnlyVerified == binary # "damaged"

(***************************************************************************)
(* A step that keeps new updates away is shown only while there is an      *)
(* update under way: none that has ended, in whatever way, locks the panel *)
(* out of the next one.                                                    *)
(***************************************************************************)
NoLockout == status \in ActiveSteps => \E t \in Tasks \ CommandLine : pc[t] \in Working

(***************************************************************************)
(* When an update has come to its end the panel that is there runs the new *)
(* version; of the updates asked for through the API, and of all: the      *)
(* update command says that the service is restarted (update.go:97).       *)
(***************************************************************************)
Renewed(t) == pc[t] = "exited" /\ up => running = "new"
ApiUpdateRestarts == \A t \in Tasks \ CommandLine : Renewed(t)
UpdateRestarts == \A t \in Tasks : Renewed(t)

(***************************************************************************)
(* "On failure restore the backups" (update_service.go:71) and "database   *)
(* restored" (:85): an update that fails before it has replaced the binary *)
(* leaves the panel, which has been running all the while, with its        *)
(* database: what it writes, before and afterwards, is in the file.        *)
(***************************************************************************)
FailureKeepsRows == \A t \in Tasks : pc[t] = "failed" => t \in replaced \/ written \subseteq db.rows

(***************************************************************************)
(* "Check whether an update is under way already" (update_controller.go:   *)
(* 129).  The check does not give this, which is what Polite assumes away: *)
(* two requests may both look before either has set the status, the step   *)
(* "migrating" is not among ActiveSteps, "completed" comes before the      *)
(* restart and "error" before the restore, and the command has a cache of  *)
(* its own.                                                                *)
(***************************************************************************)
OneUpdate == \A t, u \in Tasks : pc[t] \in Working /\ pc[u] \in Working => t = u
============================================================================
