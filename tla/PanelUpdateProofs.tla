--------------------------- MODULE PanelUpdateProofs --------------------------
(***************************************************************************)
(* Proofs about PanelUpdate, for any number of updates: its types, and,    *)
(* when nobody asks for an update while one runs unseen, its safety        *)
(* properties.                                                             *)
(***************************************************************************)
EXTENDS PanelUpdate, TLAPS

(* Updates exclude each other, and the cache shows the step of the one     *)
(* that runs in the panel.                                                 *)
Exclusion == \A t, u \in Tasks : Busy(t) /\ Busy(u) => t = u
StatusShown == \A t \in Tasks \ CommandLine : pc[t] \in Working => status = StepOf[pc[t]]
CommandsDoNotAsk == \A t \in CommandLine : pc[t] # "asked"

(* What an update has copied is what it began with.                        *)
DbKept(t, d) == d.schema = before[t].db.schema /\ before[t].db.rows \subseteq d.rows
DbCopied(t) == dbBackup[t] # None /\ DbKept(t, dbBackup[t])
Copied(t) == binBackup[t] = before[t].binary /\ DbCopied(t)

BeforeReplacing ==
  {"backupDb", "backupBinary", "fetch", "download", "verify", "unpack", "replace", "discard"}
AfterReplacing == {"migrate", "complete", "restart", "exit"}
Restoring == {"restoreDb", "restoreBinary"}

Untouched ==
  \A t \in Tasks :
    pc[t] \in BeforeReplacing =>
      binary = before[t].binary /\ DbKept(t, db) /\ t \notin replaced

CopiesMade ==
  \A t \in Tasks :
    /\ pc[t] \in BeforeReplacing \ {"backupDb", "discard"} => DbCopied(t)
    /\ pc[t] \in BeforeReplacing \ {"backupDb", "backupBinary", "discard"} => Copied(t)
    /\ pc[t] \in AfterReplacing => Copied(t)
    /\ t \in replaced =>
         /\ Copied(t)
         /\ pc[t] \in AfterReplacing \cup Restoring \cup {"exited", "failed", "killed"}

(* What the deferred function finds, and what it has restored.             *)
Restorable ==
  \A t \in Tasks : pc[t] \in Restoring =>
    /\ dbBackup[t] = None \/ DbCopied(t)
    /\ binBackup[t] = None \/ binBackup[t] = before[t].binary
    /\ binBackup[t] = None => binary = before[t].binary
    /\ dbBackup[t] = None \/ (pc[t] = "restoreBinary" /\ t \notin botched) => DbKept(t, db)

NotYet ==
  \A t \in Tasks :
    pc[t] \in {"idle", "asked", "backupDb"} => /\ dbBackup[t] = None
                                               /\ binBackup[t] = None
                                               /\ t \notin replaced

NoBinaryYet == \A t \in Tasks : pc[t] = "backupBinary" => binBackup[t] = None

Verified ==
  /\ OnlyVerified
  /\ \A t \in Tasks :
       /\ pc[t] = "unpack" => archive = "good"
       /\ pc[t] = "replace" => extracted = "good"
       /\ before[t].binary # "damaged"
       /\ pc[t] \in AfterReplacing => binary = "new"

Updated == \E t \in Tasks \ CommandLine : pc[t] = "exited"
StaysNew ==
  Updated => /\ binary = "new" /\ (up => running = "new")
             /\ \A t \in Tasks : pc[t] \in Working => before[t].binary = "new"

StatusInv == Exclusion /\ StatusShown /\ NoLockout
CopiesInv == Untouched /\ CopiesMade /\ Restorable /\ NotYet /\ NoBinaryYet
NewInv == Verified /\ StaysNew

IInv == TypeOK /\ StatusInv /\ CommandsDoNotAsk /\ CopiesInv /\ NewInv

----------------------------------------------------------------------------
(* The record StepOf, field by field.                                      *)
LEMMA StepFacts ==
  /\ Working = BeforeReplacing \cup AfterReplacing \cup Restoring
  /\ \A p \in {"backupDb", "backupBinary", "fetch"} : StepOf[p] = "connecting"
  /\ StepOf["download"] = "downloading" /\ StepOf["verify"] = "verifying"
  /\ StepOf["unpack"] = "unpacking" /\ StepOf["replace"] = "unpacking"
  /\ StepOf["migrate"] = "migrating" /\ StepOf["complete"] = "completed"
  /\ StepOf["restart"] = "restarting" /\ StepOf["exit"] = "restarting"
  /\ \A p \in Restoring \cup {"discard"} : StepOf[p] = "error"
  BY DEF Working, StepOf, BeforeReplacing, AfterReplacing, Restoring

(* What the cache may show.                                                *)
LEMMA StepRange ==
  {StepOf[p] : p \in Working} = {"connecting", "downloading", "verifying", "unpacking",
                                 "migrating", "completed", "restarting", "error"}
  BY StepFacts DEF Working, BeforeReplacing, AfterReplacing, Restoring

(* Types need nothing but types.                                           *)
LEMMA TypesKept ==
  ASSUME TypeOK, [Next]_vars
  PROVE  TypeOK'
<1> USE UpdateAssumption, StepFacts, StepRange DEF vars, files, backups,
        installed, panel, history, TypeOK, Over, BeforeReplacing,
        AfterReplacing, Restoring
<1>1. ASSUME NEW t \in Tasks, Ask(t) PROVE TypeOK'
  BY <1>1 DEF Ask, CanBegin
<1>2. ASSUME NEW t \in Tasks, Accept(t) PROVE TypeOK'
  BY <1>2 DEF Accept, Begin
<1>3. ASSUME NEW t \in Tasks, StartCommand(t) PROVE TypeOK'
  BY <1>3 DEF StartCommand, CanBegin, Begin
<1>4. ASSUME NEW t \in Tasks, BackupDatabase(t) PROVE TypeOK'
  BY <1>4 DEF BackupDatabase, Goto, Show, Fail, Databases
<1>5. ASSUME NEW t \in Tasks, BackupBinary(t) PROVE TypeOK'
  <2>1. pc' \in [Tasks -> Working \cup Over \cup {"idle", "asked"}]
    BY <1>5 DEF BackupBinary, Goto, Show, Fail
  <2>2. /\ binBackup' \in [Tasks -> Binaries \cup {None}]
        /\ dbBackup' \in [Tasks -> Databases \cup {None}]
    BY <1>5 DEF BackupBinary, Goto, Show, Fail
  <2>3. status' \in {StepOf[p] : p \in Working} \cup {"none"}
    BY <1>5 DEF BackupBinary, Goto, Show, Fail
  <2>4. QED
    BY <1>5, <2>1, <2>2, <2>3 DEF BackupBinary, Goto, Show, Fail
<1>6. ASSUME NEW t \in Tasks, FetchRelease(t) PROVE TypeOK'
  BY <1>6 DEF FetchRelease, Goto, Show, Fail
<1>7. ASSUME NEW t \in Tasks, Download(t) PROVE TypeOK'
  BY <1>7 DEF Download, Goto, Show, Fail, Files
<1>8. ASSUME NEW t \in Tasks, Verify(t) PROVE TypeOK'
  BY <1>8 DEF Verify, CalculateSHA256, ReadSHA256File, Goto, Show, Fail
<1>9. ASSUME NEW t \in Tasks, Unpack(t) PROVE TypeOK'
  BY <1>9 DEF Unpack, ExtractTarGz, Goto, Show, Fail, Files
<1>10. ASSUME NEW t \in Tasks, ReplaceBinary(t) PROVE TypeOK'
  BY <1>10 DEF ReplaceBinary, CleanupTempFiles, InstallBinary, Goto, Show, Fail, Files,
     Binaries
<1>11. ASSUME NEW t \in Tasks, RunMigrations(t) PROVE TypeOK'
  BY <1>11 DEF RunMigrations, Goto, Show, Databases
<1>12. ASSUME NEW t \in Tasks, Complete(t) PROVE TypeOK'
  BY <1>12 DEF Complete, Goto, Show
<1>13. ASSUME NEW t \in Tasks, RestartApplication(t) PROVE TypeOK'
  BY <1>13 DEF RestartApplication, Goto, Show, Fail
<1>14. ASSUME NEW t \in Tasks, Exit(t) PROVE TypeOK'
  <2>1. pc' \in [Tasks -> Working \cup Over \cup {"idle", "asked"}]
    BY <1>14 DEF Exit, CommandEnds, PanelEnds
  <2>2. /\ binBackup' \in [Tasks -> Binaries \cup {None}]
        /\ dbBackup' \in [Tasks -> Databases \cup {None}]
    BY <1>14 DEF Exit, CommandEnds, PanelEnds
  <2>3. status' \in {StepOf[p] : p \in Working} \cup {"none"}
    BY <1>14 DEF Exit, CommandEnds, PanelEnds
  <2>4. QED
    BY <1>14, <2>1, <2>2, <2>3 DEF Exit, CommandEnds, PanelEnds
<1>15. ASSUME NEW t \in Tasks, RestoreDatabase(t) PROVE TypeOK'
  <2>1. pc' \in [Tasks -> Working \cup Over \cup {"idle", "asked"}]
    BY <1>15 DEF RestoreDatabase
  <2>2. attached' \in BOOLEAN
    BY <1>15 DEF RestoreDatabase
  <2>3. db' \in Databases
    BY <1>15 DEF RestoreDatabase
  <2>4. QED
    BY <1>15, <2>1, <2>2, <2>3 DEF RestoreDatabase
<1>16. ASSUME NEW t \in Tasks, RestoreBinary(t) PROVE TypeOK'
  BY <1>16 DEF RestoreBinary, Show
<1>17. ASSUME NEW t \in Tasks, RemoveBackups(t) PROVE TypeOK'
  BY <1>17 DEF RemoveBackups
<1>18. ASSUME Crash PROVE TypeOK'
  <2>1. CASE PanelEnds({})
    <3>1. pc' \in [Tasks -> Working \cup Over \cup {"idle", "asked"}]
      BY <2>1 DEF PanelEnds
    <3>2. QED
      BY <2>1, <3>1 DEF PanelEnds
  <2>2. ASSUME NEW t \in CommandLine, CommandEnds(t, "killed") PROVE TypeOK'
    <3>1. pc' \in [Tasks -> Working \cup Over \cup {"idle", "asked"}]
      BY <2>2 DEF CommandEnds
    <3>2. QED
      BY <2>2, <3>1 DEF CommandEnds
  <2>3. QED
    BY <1>18, <2>1, <2>2 DEF Crash
<1>19. ASSUME Restart PROVE TypeOK'
  BY <1>19 DEF Restart
<1>20. ASSUME NEW r \in Rows, WriteRow(r) PROVE TypeOK'
  BY <1>20 DEF WriteRow, Databases
<1>21. ASSUME Expire PROVE TypeOK'
  BY <1>21 DEF Expire
<1>22. ASSUME UNCHANGED vars PROVE TypeOK'
  BY <1>22
<1>23. QED
  BY <1>1, <1>2, <1>3, <1>4, <1>5, <1>6, <1>7, <1>8, <1>9, <1>10, <1>11,
     <1>12, <1>13, <1>14, <1>15, <1>16, <1>17, <1>18, <1>19, <1>20, <1>21,
     <1>22 DEF Next, Execute

(* The command does not look at the cache of the panel.                    *)
LEMMA CommandsKept ==
  ASSUME TypeOK, CommandsDoNotAsk, [Next]_vars
  PROVE  CommandsDoNotAsk'
<1> USE UpdateAssumption DEF TypeOK, CommandsDoNotAsk
<1>1. ASSUME NEW t \in Tasks, Ask(t) \/ Accept(t) \/ StartCommand(t) PROVE CommandsDoNotAsk'
  BY <1>1 DEF Ask, Accept, StartCommand
<1>2. ASSUME NEW t \in Tasks, Execute(t) PROVE CommandsDoNotAsk'
  <2>1. \/ pc' = pc
        \/ \E p \in Working \cup Over : pc' = [pc EXCEPT ![t] = p]
        \/ PanelEnds({t})
    BY <1>2, StepFacts DEF Execute, BackupDatabase, BackupBinary, FetchRelease, Download, Verify,
       Unpack, ReplaceBinary, RunMigrations, Complete, RestartApplication, Exit, RestoreDatabase,
       RestoreBinary, RemoveBackups, CommandEnds, Goto, Fail, BeforeReplacing, AfterReplacing,
       Restoring, Over
  <2>2. QED
    BY <2>1, StepFacts DEF PanelEnds, BeforeReplacing, AfterReplacing, Restoring, Over
<1>3. ASSUME Crash \/ Restart \/ Expire \/ \E r \in Rows : WriteRow(r) PROVE CommandsDoNotAsk'
  BY <1>3 DEF Crash, PanelEnds, CommandEnds, Restart, Expire, WriteRow
<1>4. ASSUME UNCHANGED vars PROVE CommandsDoNotAsk'
  BY <1>4 DEF vars
<1>5. QED
  BY <1>1, <1>2, <1>3, <1>4 DEF Next

(* A step of ExecuteUpdate shows where it goes.                            *)
LEMMA GotoKeepsStatus ==
  ASSUME TypeOK, CommandsDoNotAsk, StatusInv,
         NEW t \in Tasks, pc[t] \in Working,
         NEW p \in Working, Goto(t, p)
  PROVE  StatusInv'
<1> USE DEF TypeOK, CommandsDoNotAsk, StatusInv, Exclusion, StatusShown,
        NoLockout, Goto, Show, Busy
<1>1. Exclusion'
  OBVIOUS
<1>2. StatusShown'
  OBVIOUS
<1>3. NoLockout'
  OBVIOUS
<1>4. QED
  BY <1>1, <1>2, <1>3

(* The check of UpdatePanel keeps updates apart, because the status of the *)
(* one that runs is there to be seen.                                      *)
LEMMA StatusKept ==
  ASSUME Polite, TypeOK, CommandsDoNotAsk, StatusInv, [Next]_vars
  PROVE  StatusInv'
<1> USE StepFacts DEF vars, files, backups, installed, panel, history,
        TypeOK, Busy, Unseen, StatusInv, Exclusion, StatusShown, CommandsDoNotAsk,
        NoLockout, ActiveSteps, BeforeReplacing, AfterReplacing, Restoring
<1>1. ASSUME NEW t \in Tasks, Ask(t) PROVE StatusInv'
  BY <1>1 DEF Ask, CanBegin
<1>2. ASSUME NEW t \in Tasks, Accept(t) PROVE StatusInv'
  <2>1. Exclusion'
    BY <1>2 DEF Accept, Begin
  <2>2. StatusShown'
    BY <1>2 DEF Accept, Begin
  <2>3. NoLockout'
    BY <1>2 DEF Accept, Begin
  <2>4. QED
    BY <2>1, <2>2, <2>3
<1>3. ASSUME NEW t \in Tasks, StartCommand(t) PROVE StatusInv'
  BY <1>3 DEF StartCommand, CanBegin, Begin
<1>4. ASSUME NEW t \in Tasks, BackupDatabase(t) PROVE StatusInv'
  BY <1>4, GotoKeepsStatus DEF BackupDatabase, Fail
<1>5. ASSUME NEW t \in Tasks, BackupBinary(t) PROVE StatusInv'
  BY <1>5, GotoKeepsStatus DEF BackupBinary, Fail
<1>6. ASSUME NEW t \in Tasks, FetchRelease(t) PROVE StatusInv'
  BY <1>6, GotoKeepsStatus DEF FetchRelease, Fail
<1>7. ASSUME NEW t \in Tasks, Download(t) PROVE StatusInv'
  BY <1>7, GotoKeepsStatus DEF Download, Fail
<1>8. ASSUME NEW t \in Tasks, Verify(t) PROVE StatusInv'
  BY <1>8, GotoKeepsStatus DEF Verify, Fail
<1>9. ASSUME NEW t \in Tasks, Unpack(t) PROVE StatusInv'
  BY <1>9, GotoKeepsStatus DEF Unpack, Fail
<1>10. ASSUME NEW t \in Tasks, ReplaceBinary(t) PROVE StatusInv'
  BY <1>10, GotoKeepsStatus DEF ReplaceBinary, Fail
<1>11. ASSUME NEW t \in Tasks, RunMigrations(t) PROVE StatusInv'
  BY <1>11, GotoKeepsStatus DEF RunMigrations
<1>12. ASSUME NEW t \in Tasks, Complete(t) PROVE StatusInv'
  BY <1>12, GotoKeepsStatus DEF Complete
<1>13. ASSUME NEW t \in Tasks, RestartApplication(t) PROVE StatusInv'
  BY <1>13, GotoKeepsStatus DEF RestartApplication, Fail
<1>14. ASSUME NEW t \in Tasks, Exit(t) PROVE StatusInv'
  BY <1>14 DEF Exit, CommandEnds, PanelEnds
<1>15. ASSUME NEW t \in Tasks, RestoreDatabase(t) PROVE StatusInv'
  BY <1>15 DEF RestoreDatabase
<1>16. ASSUME NEW t \in Tasks, RestoreBinary(t) PROVE StatusInv'
  BY <1>16 DEF RestoreBinary, Show
<1>17. ASSUME NEW t \in Tasks, RemoveBackups(t) PROVE StatusInv'
  BY <1>17 DEF RemoveBackups
<1>18. ASSUME Crash PROVE StatusInv'
  BY <1>18 DEF Crash, CommandEnds, PanelEnds
<1>19. ASSUME Restart PROVE StatusInv'
  BY <1>19 DEF Restart
<1>20. ASSUME NEW r \in Rows, WriteRow(r) PROVE StatusInv'
  BY <1>20 DEF WriteRow
<1>21. ASSUME Expire PROVE StatusInv'
  BY <1>21 DEF Expire
<1>22. ASSUME UNCHANGED vars PROVE StatusInv'
  BY <1>22
<1>23. QED
  BY <1>1, <1>2, <1>3, <1>4, <1>5, <1>6, <1>7, <1>8, <1>9, <1>10, <1>11,
     <1>12, <1>13, <1>14, <1>15, <1>16, <1>17, <1>18, <1>19, <1>20, <1>21,
     <1>22 DEF Next, Execute

(* A step that only moves on, where the next one asks for no more than     *)
(* this one, disturbs nothing that was copied.                             *)
Onward(p, q) ==
  \/ /\ p \in {"fetch", "download", "verify", "unpack"}
     /\ q \in {"download", "verify", "unpack", "replace", "discard", "restoreDb"}
  \/ /\ p \in {"complete", "restart"}
     /\ q \in {"restart", "exit", "restoreDb"}

LEMMA OnwardKeepsCopies ==
  ASSUME TypeOK, CopiesInv, NEW t \in Tasks, NEW q, Onward(pc[t], q),
         pc' = [pc EXCEPT ![t] = q], UNCHANGED <<backups, installed, history>>
  PROVE  CopiesInv'
<1> USE UpdateAssumption DEF backups, installed, history, TypeOK, CopiesInv,
        Onward, BeforeReplacing, AfterReplacing, Restoring, Copied, DbCopied, DbKept
<1>1. Untouched'
  BY DEF Untouched
<1>2. CopiesMade'
  BY DEF CopiesMade
<1>3. Restorable'
  BY DEF Untouched, CopiesMade, Restorable, Databases, Binaries
<1>4. NotYet' /\ NoBinaryYet'
  BY DEF NotYet, NoBinaryYet
<1>5. QED
  BY <1>1, <1>2, <1>3, <1>4 DEF CopiesInv

(* No other update changes what one has copied or begun with.              *)
LEMMA CopiesKept ==
  ASSUME Polite, IInv, Exclusion', [Next]_vars
  PROVE  CopiesInv'
<1> USE UpdateAssumption, StepFacts DEF vars, files, backups, installed,
        panel, history, IInv, StatusInv, CopiesInv, TypeOK, Busy, Exclusion,
        Untouched, CopiesMade,
        Restorable, NotYet, NoBinaryYet, Copied, DbCopied, DbKept,
        BeforeReplacing, AfterReplacing, Restoring, Databases
<1>1. ASSUME NEW t \in Tasks, Ask(t) PROVE CopiesInv'
  BY <1>1 DEF Ask, CanBegin
<1>2. ASSUME NEW t \in Tasks, Accept(t) PROVE CopiesInv'
  BY <1>2 DEF Accept, Begin
<1>3. ASSUME NEW t \in Tasks, StartCommand(t) PROVE CopiesInv'
  BY <1>3 DEF StartCommand, CanBegin, Begin
<1>4. ASSUME NEW t \in Tasks, BackupDatabase(t) PROVE CopiesInv'
  BY <1>4 DEF BackupDatabase, Goto, Show, Fail
<1>5. ASSUME NEW t \in Tasks, BackupBinary(t) PROVE CopiesInv'
  BY <1>5 DEF BackupBinary, Goto, Show, Fail
<1>6. ASSUME NEW t \in Tasks, FetchRelease(t) PROVE CopiesInv'
  BY <1>6, OnwardKeepsCopies DEF FetchRelease, Goto, Fail, Onward
<1>7. ASSUME NEW t \in Tasks, Download(t) PROVE CopiesInv'
  BY <1>7, OnwardKeepsCopies DEF Download, Goto, Fail, Onward
<1>8. ASSUME NEW t \in Tasks, Verify(t) PROVE CopiesInv'
  BY <1>8, OnwardKeepsCopies DEF Verify, CalculateSHA256, ReadSHA256File, Goto, Fail, Onward
<1>9. ASSUME NEW t \in Tasks, Unpack(t) PROVE CopiesInv'
  BY <1>9, OnwardKeepsCopies DEF Unpack, ExtractTarGz, Goto, Fail, Onward
<1>10. ASSUME NEW t \in Tasks, ReplaceBinary(t) PROVE CopiesInv'
  <2>1. Untouched'
    BY <1>10 DEF ReplaceBinary, CleanupTempFiles, InstallBinary, Goto, Show, Fail
  <2>2. CopiesMade'
    BY <1>10 DEF ReplaceBinary, CleanupTempFiles, InstallBinary, Goto, Show, Fail
  <2>3. Restorable'
    BY <1>10 DEF ReplaceBinary, CleanupTempFiles, InstallBinary, Goto, Show, Fail, Binaries
  <2>4. NotYet' /\ NoBinaryYet'
    BY <1>10 DEF ReplaceBinary, CleanupTempFiles, InstallBinary, Goto, Show, Fail
  <2>5. QED
    BY <2>1, <2>2, <2>3, <2>4
<1>11. ASSUME NEW t \in Tasks, RunMigrations(t) PROVE CopiesInv'
  BY <1>11 DEF RunMigrations, Goto, Show
<1>12. ASSUME NEW t \in Tasks, Complete(t) PROVE CopiesInv'
  BY <1>12, OnwardKeepsCopies DEF Complete, Goto, Fail, Onward
<1>13. ASSUME NEW t \in Tasks, RestartApplication(t) PROVE CopiesInv'
  BY <1>13, OnwardKeepsCopies DEF RestartApplication, Goto, Fail, Onward
<1>14. ASSUME NEW t \in Tasks, Exit(t) PROVE CopiesInv'
  <2>1. CASE CommandEnds(t, "exited")
    <3>1. Untouched' /\ Restorable'
      BY <1>14, <2>1 DEF Exit, CommandEnds, Binaries
    <3>2. CopiesMade'
      BY <1>14, <2>1 DEF Exit, CommandEnds
    <3>3. NotYet' /\ NoBinaryYet'
      BY <1>14, <2>1 DEF Exit, CommandEnds
    <3>4. QED
      BY <3>1, <3>2, <3>3
  <2>2. CASE PanelEnds({t})
    <3>1. Untouched' /\ Restorable'
      BY <1>14, <2>2 DEF Exit, PanelEnds, Binaries
    <3>2. CopiesMade'
      BY <1>14, <2>2 DEF Exit, PanelEnds
    <3>3. NotYet' /\ NoBinaryYet'
      BY <1>14, <2>2 DEF Exit, PanelEnds
    <3>4. QED
      BY <3>1, <3>2, <3>3
  <2>3. QED
    BY <1>14, <2>1, <2>2 DEF Exit
<1>15. ASSUME NEW t \in Tasks, RestoreDatabase(t) PROVE CopiesInv'
  BY <1>15 DEF RestoreDatabase
<1>16. ASSUME NEW t \in Tasks, RestoreBinary(t) PROVE CopiesInv'
  BY <1>16 DEF RestoreBinary, Show
<1>17. ASSUME NEW t \in Tasks, RemoveBackups(t) PROVE CopiesInv'
  BY <1>17 DEF RemoveBackups
<1>18. ASSUME Crash PROVE CopiesInv'
  BY <1>18 DEF Crash, CommandEnds, PanelEnds
<1>19. ASSUME Restart PROVE CopiesInv'
  BY <1>19 DEF Restart
<1>20. ASSUME NEW r \in Rows, WriteRow(r) PROVE CopiesInv'
  BY <1>20 DEF WriteRow
<1>21. ASSUME Expire PROVE CopiesInv'
  BY <1>21 DEF Expire
<1>22. ASSUME UNCHANGED vars PROVE CopiesInv'
  BY <1>22
<1>23. QED
  BY <1>1, <1>2, <1>3, <1>4, <1>5, <1>6, <1>7, <1>8, <1>9, <1>10, <1>11,
     <1>12, <1>13, <1>14, <1>15, <1>16, <1>17, <1>18, <1>19, <1>20, <1>21,
     <1>22 DEF Next, Execute

(* A verified file stays the one that is installed, and the new version    *)
(* is not given up.                                                        *)
LEMMA NewKept ==
  ASSUME Polite, IInv, Exclusion', [Next]_vars
  PROVE  NewInv'
<1> USE UpdateAssumption, StepFacts DEF vars, files, backups, installed,
        panel, history, IInv, StatusInv, CopiesInv, NewInv, TypeOK, Busy,
        Exclusion, Untouched, CopiesMade, Restorable, Copied, Verified, OnlyVerified, StaysNew, Updated,
        Binaries, Files, BeforeReplacing, AfterReplacing, Restoring
<1>1. ASSUME NEW t \in Tasks, Ask(t) PROVE NewInv'
  BY <1>1 DEF Ask, CanBegin
<1>2. ASSUME NEW t \in Tasks, Accept(t) PROVE NewInv'
  BY <1>2 DEF Accept, Begin
<1>3. ASSUME NEW t \in Tasks, StartCommand(t) PROVE NewInv'
  BY <1>3 DEF StartCommand, CanBegin, Begin
<1>4. ASSUME NEW t \in Tasks, BackupDatabase(t) PROVE NewInv'
  BY <1>4 DEF BackupDatabase, Goto, Show, Fail
<1>5. ASSUME NEW t \in Tasks, BackupBinary(t) PROVE NewInv'
  BY <1>5 DEF BackupBinary, Goto, Show, Fail
<1>6. ASSUME NEW t \in Tasks, FetchRelease(t) PROVE NewInv'
  BY <1>6 DEF FetchRelease, Goto, Show, Fail
<1>7. ASSUME NEW t \in Tasks, Download(t) PROVE NewInv'
  BY <1>7 DEF Download, Goto, Show, Fail
<1>8. ASSUME NEW t \in Tasks, Verify(t) PROVE NewInv'
  BY <1>8 DEF Verify, CalculateSHA256, ReadSHA256File, Goto, Show, Fail
<1>9. ASSUME NEW t \in Tasks, Unpack(t) PROVE NewInv'
  BY <1>9 DEF Unpack, ExtractTarGz, Goto, Show, Fail
<1>10. ASSUME NEW t \in Tasks, ReplaceBinary(t) PROVE NewInv'
  BY <1>10 DEF ReplaceBinary, CleanupTempFiles, InstallBinary, Goto, Show, Fail
<1>11. ASSUME NEW t \in Tasks, RunMigrations(t) PROVE NewInv'
  BY <1>11 DEF RunMigrations, Goto, Show
<1>12. ASSUME NEW t \in Tasks, Complete(t) PROVE NewInv'
  BY <1>12 DEF Complete, Goto, Show
<1>13. ASSUME NEW t \in Tasks, RestartApplication(t) PROVE NewInv'
  BY <1>13 DEF RestartApplication, Goto, Show, Fail
<1>14. ASSUME NEW t \in Tasks, Exit(t) PROVE NewInv'
  BY <1>14 DEF Exit, CommandEnds, PanelEnds
<1>15. ASSUME NEW t \in Tasks, RestoreDatabase(t) PROVE NewInv'
  BY <1>15 DEF RestoreDatabase
<1>16. ASSUME NEW t \in Tasks, RestoreBinary(t) PROVE NewInv'
  BY <1>16 DEF RestoreBinary, Show
<1>17. ASSUME NEW t \in Tasks, RemoveBackups(t) PROVE NewInv'
  BY <1>17 DEF RemoveBackups
<1>18. ASSUME Crash PROVE NewInv'
  BY <1>18 DEF Crash, CommandEnds, PanelEnds
<1>19. ASSUME Restart PROVE NewInv'
  BY <1>19 DEF Restart
<1>20. ASSUME NEW r \in Rows, WriteRow(r) PROVE NewInv'
  BY <1>20 DEF WriteRow
<1>21. ASSUME Expire PROVE NewInv'
  BY <1>21 DEF Expire
<1>22. ASSUME UNCHANGED vars PROVE NewInv'
  BY <1>22
<1>23. QED
  BY <1>1, <1>2, <1>3, <1>4, <1>5, <1>6, <1>7, <1>8, <1>9, <1>10, <1>11,
     <1>12, <1>13, <1>14, <1>15, <1>16, <1>17, <1>18, <1>19, <1>20, <1>21,
     <1>22 DEF Next, Execute

----------------------------------------------------------------------------
(* The panel starts in a state of the right types, where the invariant     *)
(* holds because there is no update.                                       *)
LEMMA InitTypes == Init => TypeOK
<1> SUFFICES ASSUME Init PROVE TypeOK
  OBVIOUS
<1>1. [schema |-> "old", rows |-> {}] \in Databases
  BY DEF Databases
<1>2. QED
  BY <1>1, StepRange DEF Init, TypeOK, Binaries, Files

LEMMA InitInvariant == Init => IInv
<1> SUFFICES ASSUME Init PROVE IInv
  OBVIOUS
<1> USE DEF Init
<1>1. TypeOK
  BY InitTypes
<1>2. StatusInv /\ CommandsDoNotAsk
  <2>1. \A t \in Tasks : pc[t] = "idle"
    OBVIOUS
  <2>2. \A t \in Tasks : pc[t] \notin Working \cup {"asked"}
    BY <2>1, StepFacts DEF BeforeReplacing, AfterReplacing, Restoring
  <2>3. QED
    BY <2>2, UpdateAssumption DEF StatusInv, Exclusion, StatusShown, CommandsDoNotAsk,
       NoLockout, Busy, ActiveSteps
<1>3. CopiesInv
  BY DEF CopiesInv, Untouched, CopiesMade, Restorable, NotYet, NoBinaryYet, BeforeReplacing,
     AfterReplacing, Restoring
<1>4. NewInv
  BY StepFacts DEF NewInv, Verified, OnlyVerified, StaysNew, Updated, AfterReplacing
<1>5. QED
  BY <1>1, <1>2, <1>3, <1>4 DEF IInv

(* The parts together.  What is copied and what is new depends on updates  *)
(* excluding each other after the step.                                    *)
LEMMA NextKeeps ==
  ASSUME Polite, IInv, [Next]_vars
  PROVE  IInv'
<1>1. TypeOK'
  BY TypesKept DEF IInv
<1>2. StatusInv'
  BY StatusKept DEF IInv, StatusInv
<1>3. CommandsDoNotAsk'
  BY CommandsKept DEF IInv
<1>4. CopiesInv'
  BY <1>2, CopiesKept DEF StatusInv
<1>5. NewInv'
  BY <1>2, NewKept DEF StatusInv
<1>6. QED
  BY <1>1, <1>2, <1>3, <1>4, <1>5 DEF IInv

(* Where nobody asks unseen, the invariant holds throughout.               *)
LEMMA Invariance == Polite /\ Spec => []IInv
<1> SUFFICES ASSUME Polite PROVE Spec => []IInv
  OBVIOUS
<1>1. IInv /\ [Next]_vars => IInv'
  BY NextKeeps
<1>2. QED
  BY <1>1, InitInvariant, PTL DEF Spec

(***************************************************************************)
(* Every variable keeps its type: nothing is restored from a copy that was *)
(* never made, however requests, failures and crashes interleave.          *)
(***************************************************************************)
THEOREM UpdateTypes == Spec => []TypeOK
<1>1. TypeOK /\ [Next]_vars => TypeOK'
  BY TypesKept
<1>2. QED
  BY <1>1, InitTypes, PTL DEF Spec

(***************************************************************************)
(* What an update has replaced can be restored until it has come through,  *)
(* from copies of what it began with.                                      *)
(***************************************************************************)
THEOREM CopiesRemain == Polite /\ Spec => []Recoverable
<1>1. IInv => Recoverable
  BY DEF IInv, CopiesInv, TypeOK, CopiesMade, Copied, DbCopied, DbKept, Recoverable
<1>2. QED
  BY <1>1, Invariance, PTL

(***************************************************************************)
(* An update that fails leaves the binary, the schema and the rows it      *)
(* began with, unless a restore has failed.                                *)
(***************************************************************************)
THEOREM FailuresRestore == Polite /\ Spec => FailureRestores
<1> DEFINE Restores ==
      \A t \in Tasks : pc[t] # "failed" /\ pc'[t] = "failed" /\ t \notin botched' =>
        /\ binary' = before[t].binary
        /\ db'.schema = before[t].db.schema
        /\ before[t].db.rows \subseteq db'.rows
<1>1. ASSUME IInv, [Next]_vars PROVE [Restores]_vars
  <2> SUFFICES ASSUME NEW t \in Tasks, pc[t] # "failed", pc'[t] = "failed", t \notin botched'
               PROVE  binary' = before[t].binary /\ DbKept(t, db')
    BY DEF DbKept
  <2>1. RestoreBinary(t)
    <3> USE <1>1, StepFacts DEF IInv, TypeOK
    <3>1. ASSUME NEW u \in Tasks, Ask(u) \/ Accept(u) \/ StartCommand(u) PROVE FALSE
      BY <3>1 DEF Ask, Accept, StartCommand
    <3>2. ASSUME NEW u \in Tasks, Execute(u), ~RestoreBinary(u) PROVE FALSE
      <4>1. \/ pc' = pc
            \/ \E p \in Working \cup {"exited", "skipped"} : pc' = [pc EXCEPT ![u] = p]
            \/ PanelEnds({u})
        BY <3>2 DEF Execute, BackupDatabase, BackupBinary, FetchRelease, Download, Verify, Unpack,
           ReplaceBinary, RunMigrations, Complete, RestartApplication, Exit, RestoreDatabase,
           RemoveBackups, CommandEnds, Goto, Fail, BeforeReplacing, AfterReplacing, Restoring
      <4>2. QED
        BY <4>1 DEF PanelEnds, BeforeReplacing, AfterReplacing, Restoring
    <3>3. ASSUME Crash \/ Restart \/ Expire \/ \E r \in Rows : WriteRow(r) PROVE FALSE
      BY <3>3, UpdateAssumption DEF Crash, PanelEnds, CommandEnds, Restart, Expire, WriteRow
    <3>4. ASSUME NEW u \in Tasks, RestoreBinary(u) PROVE u = t
      BY <3>4 DEF RestoreBinary
    <3>5. QED
      BY <3>1, <3>2, <3>3, <3>4 DEF Next, vars
  <2>2. t \notin botched /\ db' = db
    BY <1>1, <2>1 DEF RestoreBinary, history
  <2>3. DbKept(t, db)
    BY <1>1, <2>1, <2>2 DEF RestoreBinary, IInv, CopiesInv, Restorable, Restoring
  <2>4. binary' = before[t].binary
    BY <1>1, <2>1 DEF RestoreBinary, IInv, CopiesInv, TypeOK, Restorable, Restoring
  <2>5. QED
    BY <2>2, <2>3, <2>4
<1>2. Polite /\ Spec => [][Restores]_vars
  BY <1>1, Invariance, PTL DEF Spec
<1>3. QED
  BY <1>2 DEF FailureRestores

(***************************************************************************)
(* Only what passed its checksum becomes the panel's binary.               *)
(***************************************************************************)
THEOREM InstalledIsVerified == Polite /\ Spec => []OnlyVerified
<1>1. IInv => OnlyVerified
  BY DEF IInv, NewInv, Verified
<1>2. QED
  BY <1>1, Invariance, PTL

(***************************************************************************)
(* No update that has ended keeps the next one away.                       *)
(***************************************************************************)
THEOREM StatusLocksNobodyOut == Polite /\ Spec => []NoLockout
<1>1. IInv => NoLockout
  BY DEF IInv, StatusInv
<1>2. QED
  BY <1>1, Invariance, PTL

(***************************************************************************)
(* After an update through the API the panel runs the new version.         *)
(***************************************************************************)
THEOREM ApiUpdatesTakeEffect == Polite /\ Spec => []ApiUpdateRestarts
<1>1. IInv => ApiUpdateRestarts
  BY DEF IInv, NewInv, StaysNew, Updated, ApiUpdateRestarts, Renewed
<1>2. QED
  BY <1>1, Invariance, PTL
============================================================================
