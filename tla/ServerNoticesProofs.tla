------------------------ MODULE ServerNoticesProofs ------------------------
(***************************************************************************)
(* The theorems about ServerStatus, and those about ServerNotices, which   *)
(* adds the alert service to it and inherits them.                         *)
(***************************************************************************)
EXTENDS ServerNotices, TLAPS

(***************************************************************************)
(* The registry: a connection answers for one server only, also when the   *)
(* panel is restarted.  One that is in the table is among those used, so   *)
(* the guard of Register keeps it from a second entry.                     *)
(***************************************************************************)
EnteredIsUsed == \A s \in Servers : registry[s] # NoConn => registry[s] \in used

THEOREM RegistryKeepsOneServer == LastingSpec => []OneServerPerConn
<1> DEFINE Inv == RegistryType /\ EnteredIsUsed /\ OneServerPerConn
<1> USE RegistryAssumption DEF RegistryType, EnteredIsUsed, OneServerPerConn
<1>1. RegistryInit => Inv
  BY DEF RegistryInit
<1>2. Inv /\ [RegistryNext \/ Forget]_registryVars => Inv'
  <2> SUFFICES ASSUME Inv, [RegistryNext \/ Forget]_registryVars PROVE Inv'
    OBVIOUS
  <2>1. ASSUME NEW s \in Servers, Unregister(s) PROVE Inv'
    BY <2>1 DEF Unregister
  <2>2. ASSUME NEW s \in Servers, NEW c \in Conns, Register(s, c) PROVE Inv'
    BY <2>2 DEF Register
  <2>3. CASE Forget
    BY <2>3 DEF Forget
  <2>4. CASE UNCHANGED registryVars
    BY <2>4 DEF registryVars
  <2> QED BY <2>1, <2>2, <2>3, <2>4 DEF RegistryNext
<1>3. Inv => OneServerPerConn
  OBVIOUS
<1> QED BY <1>1, <1>2, <1>3, PTL DEF LastingSpec

(***************************************************************************)
(* The goroutines that store and announce a change take part in the        *)
(* registry's steps and take none of their own.                            *)
(***************************************************************************)
THEOREM StatusKeepsRegistry == StatusSpec => LastingSpec
<1>1. StatusInit => RegistryInit
  BY DEF StatusInit
<1>2. [StatusNext]_statusVars => [RegistryNext \/ Forget]_registryVars
  <2> SUFFICES ASSUME [StatusNext]_statusVars
               PROVE  RegistryNext \/ Forget \/ UNCHANGED <<registry, used>>
    BY DEF registryVars
  <2>1. ASSUME NEW s \in Servers, NEW c \in Conns, AgentRegisters(s, c)
        PROVE  RegistryNext
    BY <2>1 DEF AgentRegisters, RegistryNext
  <2>2. ASSUME NEW s \in Servers, AgentUnregisters(s) PROVE RegistryNext
    BY <2>2 DEF AgentUnregisters, RegistryNext
  <2>3. ASSUME NEW s \in Servers, NEW c \in Conns, AuthReadsRow(s, c)
        PROVE  UNCHANGED <<registry, used>>
    BY <2>3 DEF AuthReadsRow
  <2>4. ASSUME NEW j \in jobs, JobStep(j) PROVE UNCHANGED <<registry, used>>
    BY <2>4 DEF JobStep, ReadStatus, WriteStatus, WriteFails, Announce
  <2>5. ASSUME NEW v \in saves, AuthSavesRow(v) PROVE UNCHANGED <<registry, used>>
    BY <2>5 DEF AuthSavesRow
  <2>6. CASE Restart
    BY <2>6 DEF Restart
  <2>7. CASE UNCHANGED statusVars
    BY <2>7 DEF statusVars
  <2> QED BY <2>1, <2>2, <2>3, <2>4, <2>5, <2>6, <2>7 DEF StatusNext
<1> QED BY <1>1, <1>2, PTL DEF StatusSpec, LastingSpec

----------------------------------------------------------------------------
(***************************************************************************)
(* The inductive invariant.  Goroutines of one server may be at work at    *)
(* once and rows may be saved late; then nothing is said of the server     *)
(* until one of its goroutines has come through undisturbed.               *)
(***************************************************************************)

(* A goroutine nobody has disturbed is the only one of its server, and it  *)
(* is about the registration as it is now.                                 *)
AloneOrCrossed ==
  \A j \in jobs :
    IF j.alone
    THEN /\ \A k \in jobs : k.server = j.server => k = j
         /\ j.kind = "online" <=> registry[j.server] # NoConn
    ELSE j.server \in crossed

(* What it has read is still so, or the read failed; what it has written   *)
(* is stored.                                                              *)
ReadsAreFresh ==
  \A j \in jobs : j.alone =>
    /\ j.step = "read" => j.old = "unknown"
    /\ j.step # "read" /\ j.old = "unknown" => j.server \in faulty
    /\ j.step = "write" /\ j.old # "unknown" => j.old = status[j.server]
    /\ j.step = "announce" => status[j.server] = j.kind

Before(s, steps) == \E j \in jobs : j.server = s /\ j.step \in steps
Known(s) == s \notin faulty \cup crossed

(* The column is right once the goroutine of the last change has written.  *)
WrittenIsRight ==
  \A s \in Servers : Known(s) /\ ~Before(s, {"read", "write"}) => IsRight(s)

(* The browsers lag behind by an announcement that will change what they   *)
(* are shown.                                                              *)
ShownIsRight ==
  /\ \A s \in Servers : Known(s) /\ ~Before(s, {"announce"}) => shown[s] = status[s]
  /\ \A j \in jobs : j.step = "announce" /\ Known(j.server) => shown[j.server] # j.kind

StatusInv ==
  /\ StatusType
  /\ AloneOrCrossed
  /\ ReadsAreFresh
  /\ WrittenIsRight
  /\ ShownIsRight

----------------------------------------------------------------------------
LEMMA StatusInitInv == StatusInit => StatusInv
  BY DEF StatusInit, StatusInv, StatusType, AloneOrCrossed, ReadsAreFresh, WrittenIsRight,
         ShownIsRight, Before, Known, IsRight, RegistryInit, RegistryType, Statuses

(* Whoever is disturbed keeps all but being alone.                         *)
LEMMA DisturbedJobs ==
  ASSUME StatusType, NEW s \in Servers
  PROVE  /\ Disturbed(s) \subseteq Job
         /\ \A k \in Disturbed(s) : k.server # s => k \in jobs
         /\ \A k \in Disturbed(s) : k.server = s => ~k.alone
         /\ \A j \in jobs : j.server # s => j \in Disturbed(s)
         /\ \A j \in jobs : \E k \in Disturbed(s) : k.server = j.server /\ k.step = j.step
         /\ Idle(s) => Disturbed(s) = jobs
<1> DEFINE now(j) == IF j.server = s THEN [j EXCEPT !.alone = FALSE] ELSE j
<1>1. \A j \in jobs : j \in Job
  BY DEF StatusType
<1>2. \A j \in jobs :
        /\ now(j) \in Job
        /\ now(j).server = j.server /\ now(j).step = j.step
        /\ j.server = s => ~now(j).alone
        /\ j.server # s => now(j) = j
  BY <1>1 DEF Job
<1>3. Disturbed(s) = {now(j) : j \in jobs}
  BY DEF Disturbed
<1>4. Idle(s) => \A j \in jobs : j.server # s
  BY DEF Idle, Pending
<1> HIDE DEF now
<1> QED BY <1>2, <1>3, <1>4

(***************************************************************************)
(* The types do not depend on how changes are spaced.                      *)
(***************************************************************************)
LEMMA StatusStepType == ASSUME StatusType, [StatusNext]_statusVars PROVE StatusType'
<1> USE DEF StatusType, RegistryType, Statuses, Job, Becomes, Ends
<1>1. ASSUME NEW kind \in Statuses, NEW s \in Servers, NEW c \in Conns, Begins(kind, s, c)
      PROVE  jobs' \subseteq Job /\ crossed' \subseteq Servers
  <2>1. NewJob(kind, s, c) \in Job
    <3>1. \A b \in BOOLEAN :
            [kind |-> kind, server |-> s, conn |-> c, step |-> "read", old |-> "unknown",
             alone |-> b] \in Job
      OBVIOUS
    <3>2. Idle(s) \in BOOLEAN
      BY DEF Idle
    <3> HIDE DEF Job
    <3> QED BY <3>1, <3>2, Zenon DEF NewJob
  <2> HIDE DEF Job
  <2> QED BY <1>1, <2>1, DisturbedJobs DEF Begins, Crosses
<1>2. ASSUME NEW s \in Servers, NEW c \in Conns, AgentRegisters(s, c) PROVE StatusType'
  BY <1>1, <1>2 DEF AgentRegisters, Register
<1>3. ASSUME NEW s \in Servers, AgentUnregisters(s) PROVE StatusType'
  BY <1>1, <1>3 DEF AgentUnregisters, Unregister
<1>4a. ASSUME NEW s \in Servers, NEW c \in Conns, AuthReadsRow(s, c) PROVE StatusType'
  BY <1>4a DEF AuthReadsRow, Save, history
<1>4. ASSUME NEW v \in saves, AuthSavesRow(v) PROVE StatusType'
  <2>1. v.server \in Servers /\ v.status \in Statuses
    BY DEF Save
  <2>2. jobs' \subseteq Job /\ crossed' \subseteq Servers
    BY <1>4, <2>1, DisturbedJobs DEF AuthSavesRow, Crosses
  <2>3. status' \in [Servers -> Statuses]
    BY <1>4, <2>1 DEF AuthSavesRow
  <2> HIDE DEF Job
  <2> QED BY <1>4, <2>2, <2>3 DEF AuthSavesRow
<1>5. ASSUME NEW j \in jobs, ReadStatus(j) PROVE StatusType'
  <2>1. /\ j.server \in Servers
        /\ [j EXCEPT !.step = "write"] \in Job
        /\ [j EXCEPT !.step = "write", !.old = status[j.server]] \in Job
    OBVIOUS
  <2> HIDE DEF Job
  <2> QED BY <1>5, <2>1 DEF ReadStatus
<1>6. ASSUME NEW j \in jobs, WriteStatus(j) PROVE StatusType'
  BY <1>6 DEF WriteStatus
<1>7. ASSUME NEW j \in jobs, WriteFails(j) \/ Announce(j) PROVE StatusType'
  BY <1>7 DEF WriteFails, Announce
<1>8. CASE Restart
  BY <1>8 DEF Restart, Forget
<1>9. CASE UNCHANGED statusVars
  BY <1>9 DEF statusVars, history
<1> QED
  BY <1>2, <1>3, <1>4, <1>4a, <1>5, <1>6, <1>7, <1>8, <1>9 DEF StatusNext, JobStep

(* A goroutine begins.                                                     *)
LEMMA BeginsKeepsInv ==
  ASSUME StatusInv, StatusType', NEW kind \in Statuses, NEW s \in Servers, NEW c,
         Begins(kind, s, c),
         UNCHANGED <<status, shown, faulty, leftover>>,
         kind = "online" <=> registry'[s] # NoConn,
         \A t \in Servers \ {s} : registry'[t] = registry[t]
  PROVE  StatusInv'
<1> DEFINE k == NewJob(kind, s, c)
<1>1. /\ k.server = s /\ k.kind = kind /\ k.step = "read" /\ k.old = "unknown"
      /\ k.alone = Idle(s)
  BY DEF NewJob
<1>2. jobs' = Disturbed(s) \cup {k}
  BY DEF Begins
<1>3. crossed' = IF Idle(s) THEN crossed ELSE crossed \cup {s}
  BY DEF Begins, Crosses
<1>4. StatusType /\ \A j \in jobs : j \in Job
  BY DEF StatusInv, StatusType
<1>4a. \A j \in jobs' : j \in Job
  BY DEF StatusType
<1>5. /\ \A j \in Disturbed(s) : j.server # s => j \in jobs
      /\ \A j \in Disturbed(s) : j.server = s => ~j.alone
      /\ \A j \in jobs : j.server # s => j \in Disturbed(s)
      /\ \A j \in jobs : \E i \in Disturbed(s) : i.server = j.server /\ i.step = j.step
  BY <1>4, DisturbedJobs
<1>6. Idle(s) => \A j \in Disturbed(s) : j.server # s
  BY <1>4, DisturbedJobs DEF Idle, Pending
<1> HIDE DEF k
<1>7. AloneOrCrossed'
  BY <1>1, <1>2, <1>3, <1>4a, <1>5, <1>6 DEF StatusInv, AloneOrCrossed, Job
<1>8. ReadsAreFresh'
  BY <1>1, <1>2, <1>5 DEF StatusInv, ReadsAreFresh
<1>9. Before(s, {"read", "write"})'
  BY <1>1, <1>2 DEF Before
<1>10. \A t \in Servers \ {s}, steps \in SUBSET {"read", "write", "announce"} :
          Before(t, steps)' = Before(t, steps)
  BY <1>1, <1>2, <1>5 DEF Before
<1>11. \A t \in Servers : Known(t)' => Known(t) /\ (t = s => Idle(s))
  BY <1>3 DEF Known
<1>12. WrittenIsRight'
  <2> SUFFICES ASSUME NEW t \in Servers, Known(t)', ~Before(t, {"read", "write"})'
               PROVE  IsRight(t)'
    BY DEF WrittenIsRight
  <2>1. t # s
    BY <1>9
  <2>2. Known(t) /\ ~Before(t, {"read", "write"})
    BY <1>10, <1>11, <2>1
  <2>3. IsRight(t)
    BY <2>2 DEF StatusInv, WrittenIsRight
  <2> QED BY <2>1, <2>3 DEF IsRight
<1>13. ShownIsRight'
  <2>1. ASSUME NEW t \in Servers, Known(t)', ~Before(t, {"announce"})' PROVE shown[t] = status[t]
    <3>1. CASE t = s
      <4>1. ~Before(s, {"announce"})
        BY <1>11, <2>1, <3>1 DEF Before, Idle, Pending
      <4> QED BY <1>11, <2>1, <3>1, <4>1 DEF StatusInv, ShownIsRight
    <3>2. CASE t # s
      BY <1>10, <1>11, <2>1, <3>2 DEF StatusInv, ShownIsRight
    <3> QED BY <3>1, <3>2
  <2>2. ASSUME NEW j \in jobs', j.step = "announce", Known(j.server)' PROVE shown[j.server] # j.kind
    <3>1. j.server \in Servers /\ j \in Disturbed(s)
      BY <1>1, <1>2, <1>4a, <2>2 DEF Job
    <3>2. j.server # s
      BY <1>6, <1>11, <2>2, <3>1
    <3> QED BY <1>5, <1>11, <2>2, <3>1, <3>2 DEF StatusInv, ShownIsRight
  <2> QED BY <2>1, <2>2 DEF ShownIsRight
<1> QED BY <1>7, <1>8, <1>12, <1>13 DEF StatusInv

(* A row that was read earlier is saved.  Only the server whose status it  *)
(* changes notices.                                                        *)
LEMMA SaveKeepsInv ==
  ASSUME StatusInv, StatusType', NEW v \in saves, AuthSavesRow(v) PROVE StatusInv'
<1> DEFINE s == v.server
<1>0. s \in Servers /\ StatusType
  BY DEF StatusInv, StatusType, Save
<1>1. CASE UNCHANGED <<status, jobs, crossed>>
  BY <1>1 DEF AuthSavesRow, StatusInv, AloneOrCrossed, ReadsAreFresh, WrittenIsRight, ShownIsRight,
     Before, Known, IsRight
<1>2. CASE status' = [status EXCEPT ![s] = v.status] /\ status[s] = v.status
  <2>1. UNCHANGED status
    BY <1>0, <1>2 DEF StatusType
  <2>2. UNCHANGED <<jobs, crossed>>
    BY <1>2 DEF AuthSavesRow
  <2> QED BY <1>1, <2>1, <2>2
<1>3. CASE status' = [status EXCEPT ![s] = v.status] /\ jobs' = Disturbed(s) /\ Crosses(s)
  <2>1. UNCHANGED <<registry, shown, faulty, leftover>>
    BY DEF AuthSavesRow
  <2>2. crossed' = crossed \cup {s}
    BY <1>3 DEF Crosses
  <2>3. /\ \A j \in jobs' : j.server # s => j \in jobs
        /\ \A j \in jobs' : j.server = s => ~j.alone
        /\ \A j \in jobs : j.server # s => j \in jobs'
    BY <1>0, <1>3, DisturbedJobs
  <2>4. \A t \in Servers \ {s} : status'[t] = status[t]
    BY <1>0, <1>3 DEF StatusType
  <2>5. \A j \in jobs' : j.server \in Servers
    BY DEF StatusType, Job
  <2>6. \A t \in Servers : Known(t)' => Known(t) /\ t # s
    BY <2>1, <2>2 DEF Known
  <2>7. \A t \in Servers \ {s}, steps \in SUBSET {"read", "write", "announce"} :
            Before(t, steps)' = Before(t, steps)
    BY <2>3 DEF Before
  <2> HIDE DEF s
  <2>8. AloneOrCrossed'
    BY <2>1, <2>2, <2>3 DEF StatusInv, AloneOrCrossed
  <2>9. ReadsAreFresh'
    BY <2>1, <2>3, <2>4, <2>5 DEF StatusInv, ReadsAreFresh
  <2>10. WrittenIsRight'
    <3> SUFFICES ASSUME NEW t \in Servers, Known(t)', ~Before(t, {"read", "write"})'
                 PROVE  IsRight(t)'
      BY DEF WrittenIsRight
    <3>1. IsRight(t) /\ t # s
      BY <2>6, <2>7 DEF StatusInv, WrittenIsRight
    <3> QED BY <2>1, <2>4, <3>1 DEF IsRight
  <2>11. ShownIsRight'
    BY <2>1, <2>3, <2>4, <2>5, <2>6, <2>7 DEF StatusInv, ShownIsRight
  <2> QED BY <2>8, <2>9, <2>10, <2>11 DEF StatusInv
<1> QED BY <1>1, <1>2, <1>3 DEF AuthSavesRow

(***************************************************************************)
(* No step breaks the invariant.                                           *)
(***************************************************************************)
LEMMA StatusStepInv ==
  ASSUME StatusInv, [StatusNext]_statusVars PROVE StatusInv'
<1>0. StatusType'
  BY StatusStepType DEF StatusInv
<1>1. ASSUME NEW s \in Servers, NEW c \in Conns, AgentRegisters(s, c) PROVE StatusInv'
  BY <1>0, <1>1, BeginsKeepsInv, RegistryAssumption
  DEF AgentRegisters, Register, Statuses, StatusInv, StatusType, RegistryType
<1>2. ASSUME NEW s \in Servers, AgentUnregisters(s) PROVE StatusInv'
  BY <1>0, <1>2, BeginsKeepsInv
  DEF AgentUnregisters, Unregister, Statuses, StatusInv, StatusType, RegistryType
<1> USE RegistryAssumption
    DEF StatusInv, StatusType, RegistryType, Statuses, Job, AloneOrCrossed, ReadsAreFresh,
        WrittenIsRight, ShownIsRight, Before, Known, IsRight, Becomes, Ends
<1>3. ASSUME NEW s \in Servers, NEW c \in Conns, AuthReadsRow(s, c) PROVE StatusInv'
  BY <1>0, <1>3 DEF AuthReadsRow, history
<1>4. ASSUME NEW v \in saves, AuthSavesRow(v) PROVE StatusInv'
  BY <1>0, <1>4, SaveKeepsInv
<1>5. ASSUME NEW j \in jobs, ReadStatus(j) PROVE StatusInv'
  <2>1. PICK k : /\ Becomes(j, k)
                 /\ k.server = j.server /\ k.kind = j.kind /\ k.step = "write"
                 /\ k.alone = j.alone
                 /\ \/ k.old = status[j.server] /\ UNCHANGED faulty
                    \/ k.old = j.old /\ faulty' = faulty \cup {j.server}
    <3> DEFINE read == [j EXCEPT !.step = "write", !.old = status[j.server]]
               failed == [j EXCEPT !.step = "write"]
    <3>1. /\ read.server = j.server /\ read.kind = j.kind /\ read.step = "write"
          /\ read.old = status[j.server] /\ read.alone = j.alone
      OBVIOUS
    <3>2. /\ failed.server = j.server /\ failed.kind = j.kind /\ failed.step = "write"
          /\ failed.old = j.old /\ failed.alone = j.alone
      OBVIOUS
    <3>3. \/ Becomes(j, read) /\ UNCHANGED faulty
          \/ Becomes(j, failed) /\ faulty' = faulty \cup {j.server}
      BY <1>5 DEF ReadStatus
    <3> HIDE DEF read, failed
    <3> QED BY <3>1, <3>2, <3>3
  <2>2. /\ j.step = "read" /\ (j.alone => j.old = "unknown")
        /\ UNCHANGED <<registry, used, status, shown, saves, crossed, leftover>>
    BY <1>5 DEF ReadStatus
  <2>3. AloneOrCrossed'
    BY <1>0, <2>1, <2>2
  <2>4. ReadsAreFresh'
    BY <1>0, <2>1, <2>2
  <2>5. WrittenIsRight'
    BY <1>0, <2>1, <2>2
  <2>6. ShownIsRight'
    BY <1>0, <2>1, <2>2
  <2> QED BY <1>0, <2>3, <2>4, <2>5, <2>6
<1>6. ASSUME NEW j \in jobs, WriteStatus(j) PROVE StatusInv'
  <2>1. /\ j.step = "write"
        /\ status' = [status EXCEPT ![j.server] = j.kind]
        /\ leftover' = leftover \ {j.server}
        /\ UNCHANGED <<registry, used, shown, saves, faulty, crossed>>
    BY <1>6 DEF WriteStatus
  <2>1a. \A k \in jobs : k.server = j.server /\ k.alone => k = j
    OBVIOUS
  <2>2. CASE IsChange(j)
    <3> DEFINE k == [j EXCEPT !.step = "announce"]
    <3>1. /\ k.server = j.server /\ k.kind = j.kind /\ k.step = "announce"
          /\ k.old = j.old /\ k.alone = j.alone
      OBVIOUS
    <3>2. jobs' = (jobs \ {j}) \cup {k}
      BY <1>6, <2>2 DEF WriteStatus
    <3>3. Known(j.server) => j.alone /\ j.old = status[j.server] /\ j.old # j.kind
      BY <2>1, <2>2 DEF IsChange
    <3> HIDE DEF k
    <3>4. AloneOrCrossed'
      BY <1>0, <2>1, <3>1, <3>2
    <3>5. ReadsAreFresh'
      BY <1>0, <2>1, <2>1a, <3>1, <3>2
    <3>6. WrittenIsRight'
      BY <1>0, <2>1, <3>1, <3>2, <3>3
    <3>7. ShownIsRight'
      BY <1>0, <2>1, <3>1, <3>2, <3>3
    <3> QED BY <1>0, <3>4, <3>5, <3>6, <3>7
  <2>3. CASE ~IsChange(j)
    <3>1. jobs' = jobs \ {j}
      BY <1>6, <2>3 DEF WriteStatus
    <3>2. Known(j.server) => j.alone /\ status[j.server] = j.kind
      BY <2>1, <2>3 DEF IsChange
    <3>3. AloneOrCrossed' /\ ReadsAreFresh'
      BY <1>0, <2>1, <2>1a, <3>1
    <3>4. WrittenIsRight' /\ ShownIsRight'
      BY <1>0, <2>1, <3>1, <3>2
    <3> QED BY <1>0, <3>3, <3>4
  <2> QED BY <2>2, <2>3
<1>7. ASSUME NEW j \in jobs, WriteFails(j) PROVE StatusInv'
  BY <1>0, <1>7 DEF WriteFails
<1>8. ASSUME NEW j \in jobs, Announce(j) PROVE StatusInv'
  <2>1. /\ j.step = "announce"
        /\ shown' = [shown EXCEPT ![j.server] = j.kind]
        /\ jobs' = jobs \ {j}
        /\ UNCHANGED <<registry, used, status, saves, leftover>>
    BY <1>8 DEF Announce
  <2>2. CASE Undisturbed(j)
    <3>1. faulty' = faulty \ {j.server} /\ crossed' = crossed \ {j.server}
      BY <1>8, <2>2 DEF Announce
    <3>2. /\ j.alone /\ status[j.server] = j.kind
          /\ \A k \in jobs' : k.server # j.server
      BY <2>1, <2>2 DEF Undisturbed
    <3>3. AloneOrCrossed' /\ ReadsAreFresh'
      BY <1>0, <2>1, <3>1, <3>2
    <3>4. WrittenIsRight' /\ ShownIsRight'
      BY <1>0, <2>1, <3>1, <3>2
    <3> QED BY <1>0, <3>3, <3>4
  <2>3. CASE ~Undisturbed(j)
    <3>1. UNCHANGED <<faulty, crossed>>
      BY <1>8, <2>3 DEF Announce
    <3>2. ~Known(j.server)
      BY <2>1, <2>3 DEF Undisturbed
    <3> QED BY <1>0, <2>1, <3>1, <3>2
  <2> QED BY <2>2, <2>3
<1>9. CASE Restart
  BY <1>0, <1>9 DEF Restart, Forget
<1>10. CASE UNCHANGED statusVars
  BY <1>10 DEF statusVars, history
<1> QED
  BY <1>1, <1>2, <1>3, <1>4, <1>5, <1>6, <1>7, <1>8, <1>9, <1>10
  DEF StatusNext, JobStep
----------------------------------------------------------------------------
(***************************************************************************)
(* The goroutines keep every variable in its type, however they interleave *)
(***************************************************************************)
THEOREM StatusTypeCorrect == StatusSpec => []StatusType
<1>1. StatusInit => StatusType
  BY StatusInitInv DEF StatusInv
<1> QED BY <1>1, StatusStepType, PTL DEF StatusSpec

THEOREM StatusInvariance == StatusSpec => []StatusInv
<1>1. StatusInv /\ [StatusNext]_statusVars => StatusInv'
  BY StatusStepInv
<1> QED BY <1>1, StatusInitInv, PTL DEF StatusSpec

(***************************************************************************)
(* However the goroutines of a server have crossed and whatever rows were  *)
(* saved late: from its next undisturbed change on a server with nobody at *)
(* work on it is stored as its agent is.                                   *)
(***************************************************************************)
THEOREM StoredStatus == StatusSpec => []StatusFollowsRegistry
<1>1. StatusInv => StatusFollowsRegistry
  BY DEF StatusInv, WrittenIsRight, Before, Known, Idle, Pending, StatusFollowsRegistry
<1> QED BY <1>1, StatusInvariance, PTL

(***************************************************************************)
(* From then on the browsers show what the table says, too.                *)
(***************************************************************************)
THEOREM BrowsersShowTable == StatusSpec => []ShownIsStored
<1>1. StatusInv => ShownIsStored
  BY DEF StatusInv, ShownIsRight, Before, Known, Idle, Pending, ShownIsStored
<1> QED BY <1>1, StatusInvariance, PTL

(***************************************************************************)
(* And no status is announced for a server that is shown with it already.  *)
(***************************************************************************)
THEOREM NoRepeatedAnnouncement == StatusSpec => AnnouncedOnce
<1> DEFINE Once == \A j \in jobs :
             Announce(j) /\ j.server \notin faulty \cup crossed => shown[j.server] # j.kind
<1>1. StatusInv => Once
  BY DEF StatusInv, ShownIsRight, Known, Announce
<1>2. StatusSpec => [][Once]_statusVars
  BY <1>1, StatusInvariance, PTL
<1> QED BY <1>2 DEF AnnouncedOnce

----------------------------------------------------------------------------
(***************************************************************************)
(* The alert service only listens: a step of this module is a step of      *)
(* ServerStatus or leaves its variables alone, so what is proved there     *)
(* holds here.                                                             *)
(***************************************************************************)
LEMMA StepIsStatusStep == [NoticesNext]_serverVars => [StatusNext]_statusVars
<1> SUFFICES ASSUME [NoticesNext]_serverVars PROVE [StatusNext]_statusVars
  OBVIOUS
<1>1. CASE StatusStep
  BY <1>1 DEF StatusStep, StatusNext, JobStep
<1>2. ASSUME NEW j \in jobs, AnnounceAndNotify(j) PROVE StatusNext
  BY <1>2 DEF AnnounceAndNotify, StatusNext, JobStep
<1>3. ASSUME NEW n \in notifiers, NotifierStep(n) PROVE UNCHANGED statusVars
  BY <1>3 DEF NotifierStep, ReadSwitch, LookAtCooldown, SetCooldown, ReadConfig, ReadChannels, Send
<1>4. ASSUME NEW k \in Notices, CooldownEnds(k) PROVE UNCHANGED statusVars
  BY <1>4 DEF CooldownEnds
<1>5. CASE SettingsStep
  BY <1>5 DEF SettingsStep, AskSettings, Configure, CheckChannels, Switch, ChooseChannels, OnlyRequest
<1>6. CASE RestartPanel
  BY <1>6 DEF RestartPanel, StatusNext
<1>7. CASE UNCHANGED serverVars
  BY <1>7 DEF serverVars
<1> QED BY <1>1, <1>2, <1>3, <1>4, <1>5, <1>6, <1>7 DEF NoticesNext

THEOREM NoticesOnlyListen == NoticesSpec => StatusSpec
<1>1. NoticesInit => StatusInit
  BY DEF NoticesInit
<1> QED BY <1>1, StepIsStatusStep, PTL DEF NoticesSpec, StatusSpec

(***************************************************************************)
(* With the alert service at work a server is stored as its agent is, and  *)
(* shown as it is stored, from its next undisturbed change on.             *)
(***************************************************************************)
THEOREM NotifiedStatus ==
  NoticesSpec => [](StatusFollowsRegistry /\ ShownIsStored)
BY NoticesOnlyListen, StoredStatus, BrowsersShowTable, PTL

----------------------------------------------------------------------------
(***************************************************************************)
(* The types.                                                              *)
(***************************************************************************)
LEMMA MovesKeepType ==
  ASSUME NoticesType, NEW n \in notifiers, NEW next \in Notifier, Moves(n, next)
  PROVE  notifiers' \subseteq Notifier
BY DEF NoticesType, Moves

LEMMA NoticesInitType == NoticesInit => NoticesType
<1>1. StatusInit => StatusType
  BY StatusInitInv DEF StatusInv
<1> QED BY <1>1, NoticesAssumption DEF NoticesInit, NoticesType, NoRequest, Request, Statuses

LEMMA NoticesStepType == ASSUME NoticesType, [NoticesNext]_serverVars PROVE NoticesType'
<1>0. StatusType'
  BY StepIsStatusStep, StatusStepType DEF NoticesType
<1> USE <1>0 DEF NoticesType
<1>1. CASE StatusStep
  BY <1>1 DEF StatusStep, noticeVars, noticeHistory, settings
<1>2. ASSUME NEW j \in jobs, AnnounceAndNotify(j) PROVE NoticesType'
  <2>1. j \in Job
    BY DEF StatusType
  <2>1a. j.server \in Servers
    BY <2>1 DEF Job
  <2>2. Notified(j) \subseteq Notifier
    BY <2>1 DEF Job, Notified, Notifier, Order
  <2>3. \A n \in notifiers :
          [n EXCEPT !.order = IF n.server = j.server THEN "unclear" ELSE @] \in Notifier
    BY DEF Notifier
  <2> QED BY <1>2, <2>1a, <2>2, <2>3 DEF AnnounceAndNotify, settings
<1>3. ASSUME NEW n \in notifiers, NotifierStep(n) PROVE NoticesType'
  <2>1. n \in Notifier /\ Key(n) \in Notices
    BY DEF Notifier, Key, Notices
  <2>2. CASE ReadSwitch(n)
    BY <2>1, <2>2 DEF ReadSwitch, settings, Goto, Moves, GivesUp, Notifier
  <2>3. CASE LookAtCooldown(n)
    BY <2>1, <2>3 DEF LookAtCooldown, settings, Passes, Goto, Moves, GivesUp, Notifier
  <2>4. CASE SetCooldown(n)
    BY <2>1, <2>4 DEF SetCooldown, settings, Goto, Moves, Notifier
  <2>5. CASE ReadConfig(n)
    BY <2>1, <2>5 DEF ReadConfig, settings, Moves, GivesUp, Notifier
  <2>6. CASE ReadChannels(n)
    BY <2>1, <2>6 DEF ReadChannels, settings, Moves, GivesUp, Notifier
  <2>7. CASE Send(n)
    BY <2>1, <2>7 DEF Send, settings, GivesUp, Notifier
  <2> QED BY <1>3, <2>2, <2>3, <2>4, <2>5, <2>6, <2>7 DEF NotifierStep
<1>4. ASSUME NEW k \in Notices, CooldownEnds(k) PROVE NoticesType'
  BY <1>4 DEF CooldownEnds, settings
<1>5. CASE SettingsStep
  <2>1. NoRequest \in Request
    BY DEF NoRequest, Request, Statuses
  <2>2. ASSUME NEW full \in SUBSET Channels, NEW enabled \in SUBSET Channels,
               NEW on \in SUBSET Statuses, AskSettings(full, enabled, on)
        PROVE  NoticesType'
    BY <2>2, NoticesAssumption DEF AskSettings, OnlyRequest, noticeHistory, Request
  <2>3. ASSUME NEW ch, NEW next \in {"webhook", "check"}, Configure(ch, next)
        PROVE  NoticesType'
    BY <2>1, <2>3 DEF Configure, GoesOn, Answers, OnlyRequest, noticeHistory, Request
  <2>4. CASE CheckChannels
    BY <2>1, <2>4 DEF CheckChannels, GoesOn, Answers, OnlyRequest, noticeHistory, Request
  <2>5. ASSUME NEW k \in Statuses, Switch(k) PROVE NoticesType'
    BY <2>1, <2>5 DEF Switch, GoesOn, Answers, OnlyRequest, noticeHistory, Request
  <2>6. ASSUME NEW s \in Servers, NEW chs \in SUBSET Channels, ChooseChannels(s, chs)
        PROVE  NoticesType'
    BY <2>6, NoticesAssumption DEF ChooseChannels, noticeHistory
  <2> QED BY <1>5, <2>2, <2>3, <2>4, <2>5, <2>6 DEF SettingsStep
<1>6. CASE RestartPanel
  BY <1>6 DEF RestartPanel, Answers, NoRequest, Request, Statuses, StatusType
<1>7. CASE UNCHANGED serverVars
  BY <1>7 DEF serverVars, noticeVars, noticeHistory, settings
<1> QED BY <1>1, <1>2, <1>3, <1>4, <1>5, <1>6, <1>7 DEF NoticesNext

(***************************************************************************)
(* The types of the alert service's state, whatever the goroutines do.     *)
(***************************************************************************)
THEOREM NoticesTypeCorrect == NoticesSpec => []NoticesType
BY NoticesInitType, NoticesStepType, PTL DEF NoticesSpec

----------------------------------------------------------------------------
(***************************************************************************)
(* The cooldown.  Of two goroutines that both looked and have not set it   *)
(* yet the notice is raced; a notice that has passed cools down, so nobody *)
(* else who looks gets past.                                               *)
(***************************************************************************)
MarksAlone ==
  \A n, m \in notifiers :
    At(n, "mark") /\ At(m, "mark") /\ Key(n) = Key(m) /\ Key(n) \notin raced => n = m

PassedCools ==
  \A k \in Notices \ raced :
    /\ passed[k] <= 1
    /\ passed[k] > 0 => k \in cooling /\ \A n \in notifiers : At(n, "mark") => Key(n) # k

CooldownInv == NoticesType /\ MarksAlone /\ PassedCools

(* A step in which nobody comes past the cooldown and none is set.         *)
LEMMA NobodyPasses ==
  ASSUME CooldownInv, NoticesType', UNCHANGED <<cooling, passed, raced>>,
         \A n \in notifiers' : n.step = "mark" => n \in notifiers
  PROVE  CooldownInv'
BY DEF CooldownInv, MarksAlone, PassedCools, At, Key

LEMMA CooldownStepInv == ASSUME CooldownInv, [NoticesNext]_serverVars PROVE CooldownInv'
<1>0. NoticesType /\ NoticesType'
  BY NoticesStepType DEF CooldownInv
<1>1. CASE StatusStep
  BY <1>0, <1>1, NobodyPasses DEF StatusStep, noticeVars, noticeHistory
<1>2. ASSUME NEW j \in jobs, AnnounceAndNotify(j) PROVE CooldownInv'
  <2> DEFINE told1(n) == [n EXCEPT !.order = IF n.server = j.server THEN "unclear" ELSE @]
  <2>1. /\ notifiers' = Notified(j) \cup {told1(n) : n \in notifiers}
        /\ UNCHANGED <<cooling, passed, raced>>
    BY <1>2 DEF AnnounceAndNotify
  <2>2. \A n \in Notified(j) : n.step = "switch"
    BY DEF Notified
  <2>3. \A n \in notifiers : told1(n).step = n.step /\ Key(told1(n)) = Key(n)
    BY <1>0 DEF NoticesType, Notifier, Key
  <2> HIDE DEF told1
  <2>4. \A n \in notifiers' :
          At(n, "mark")' => \E m \in notifiers : At(m, "mark") /\ Key(m) = Key(n) /\ n = told1(m)
    BY <2>1, <2>2, <2>3 DEF At
  <2>5. MarksAlone'
    BY <2>1, <2>4 DEF CooldownInv, MarksAlone, Key
  <2>6. PassedCools'
    BY <2>1, <2>4 DEF CooldownInv, PassedCools, Key
  <2> QED BY <1>0, <2>5, <2>6 DEF CooldownInv
<1>3. ASSUME NEW n \in notifiers, NotifierStep(n) PROVE CooldownInv'
  <2>1. n \in Notifier /\ Key(n) \in Notices
    BY <1>0 DEF NoticesType, Notifier, Key, Notices
  <2>2. CASE ReadSwitch(n) \/ ReadConfig(n) \/ ReadChannels(n) \/ Send(n)
    <3>1. UNCHANGED <<cooling, passed, raced>>
      BY <2>2 DEF ReadSwitch, ReadConfig, ReadChannels, Send, GivesUp
    <3>2. \A m \in notifiers' : m.step = "mark" => m \in notifiers
      BY <2>1, <2>2 DEF ReadSwitch, ReadConfig, ReadChannels, Send, GivesUp, Goto, Moves, Notifier
    <3> QED BY <1>0, <3>1, <3>2, NobodyPasses
  <2>3. CASE LookAtCooldown(n) /\ Key(n) \in cooling
    <3>1. GivesUp(n) /\ UNCHANGED <<cooling, passed, raced>>
      BY <2>3 DEF LookAtCooldown, GivesUp
    <3> QED BY <1>0, <3>1, NobodyPasses DEF GivesUp
  <2>4. CASE LookAtCooldown(n) /\ Key(n) \notin cooling
    <3> DEFINE next == [n EXCEPT !.step = "mark"]
    <3>1. /\ notifiers' = (notifiers \ {n}) \cup {next}
          /\ UNCHANGED <<cooling, passed>>
          /\ raced' = IF \E m \in notifiers : At(m, "mark") /\ Key(m) = Key(n)
                      THEN raced \cup {Key(n)} ELSE raced
      BY <2>4 DEF LookAtCooldown, Passes, Goto, Moves
    <3>2. Key(next) = Key(n) /\ n.step = "look"
      BY <2>1, <2>4 DEF Notifier, Key, LookAtCooldown, At
    <3> HIDE DEF next
    <3>3. MarksAlone'
      BY <3>1, <3>2 DEF CooldownInv, MarksAlone, At, Key
    <3>4. PassedCools'
      BY <2>4, <3>1, <3>2 DEF CooldownInv, PassedCools, At, Key
    <3> QED BY <1>0, <3>3, <3>4 DEF CooldownInv
  <2>5. CASE SetCooldown(n)
    <3> DEFINE next == [n EXCEPT !.step = "config"]
               k == Key(n)
    <3>1. /\ At(n, "mark")
          /\ notifiers' = (notifiers \ {n}) \cup {next}
          /\ cooling' = cooling \cup {k}
          /\ passed' = [passed EXCEPT ![k] = @ + 1]
          /\ UNCHANGED raced
      BY <2>5 DEF SetCooldown, Goto, Moves
    <3>2. next.step = "config"
      BY <2>1 DEF Notifier
    <3> HIDE DEF next
    <3>3. MarksAlone'
      BY <3>1, <3>2 DEF CooldownInv, MarksAlone, At, Key
    <3>4. k \notin raced => passed[k] = 0
      BY <1>0, <2>1, <3>1 DEF CooldownInv, PassedCools, NoticesType
    <3>5. \A m \in notifiers : At(m, "mark") /\ Key(m) = k /\ k \notin raced => m = n
      BY <3>1 DEF CooldownInv, MarksAlone
    <3>6. PassedCools'
      <4> SUFFICES ASSUME NEW q \in Notices \ raced
                   PROVE  /\ passed'[q] <= 1
                          /\ passed'[q] > 0 => /\ q \in cooling'
                                               /\ \A m \in notifiers' : m.step = "mark" => Key(m) # q
        BY <3>1 DEF PassedCools, At, Key
      <4>1. CASE q = k
        <5>1. passed'[q] = 1
          BY <1>0, <2>1, <3>1, <3>4, <4>1 DEF NoticesType
        <5>2. \A m \in notifiers' : m.step = "mark" => Key(m) # q
          BY <3>1, <3>2, <3>5, <4>1 DEF At
        <5> QED BY <3>1, <4>1, <5>1, <5>2
      <4>2. CASE q # k
        <5>1. passed'[q] = passed[q]
          BY <1>0, <2>1, <3>1, <4>2 DEF NoticesType
        <5> QED BY <3>1, <3>2, <5>1 DEF CooldownInv, PassedCools, At
      <4> QED BY <4>1, <4>2
    <3> QED BY <1>0, <3>3, <3>6 DEF CooldownInv
  <2> QED BY <1>3, <2>2, <2>3, <2>4, <2>5 DEF NotifierStep
<1>4. ASSUME NEW k \in Notices, CooldownEnds(k) PROVE CooldownInv'
  <2>1. /\ UNCHANGED notifiers
        /\ cooling' = cooling \ {k}
        /\ passed' = [passed EXCEPT ![k] = 0]
        /\ raced' = raced \ {k} \/ UNCHANGED raced
    BY <1>4 DEF CooldownEnds
  <2>2. MarksAlone'
    BY <1>4, <2>1 DEF CooldownEnds, CooldownInv, MarksAlone, At, Key
  <2>3. PassedCools'
    BY <1>0, <2>1 DEF CooldownInv, PassedCools, At, Key, NoticesType
  <2> QED BY <1>0, <2>2, <2>3 DEF CooldownInv
<1>5. CASE SettingsStep
  BY <1>0, <1>5, NobodyPasses DEF SettingsStep, AskSettings, Configure, CheckChannels, Switch,
     ChooseChannels, OnlyRequest, noticeHistory
<1>6. CASE RestartPanel
  BY <1>0, <1>6 DEF RestartPanel, CooldownInv, MarksAlone, PassedCools, At
<1>7. CASE UNCHANGED serverVars
  BY <1>0, <1>7, NobodyPasses DEF serverVars, noticeVars, noticeHistory
<1> QED BY <1>1, <1>2, <1>3, <1>4, <1>5, <1>6, <1>7 DEF NoticesNext

(***************************************************************************)
(* Within a cooldown one notice of a kind passes for a server, unless two  *)
(* goroutines looked before either had set it.                             *)
(***************************************************************************)
THEOREM CooldownHolds == NoticesSpec => []OncePerCooldown
<1>1. NoticesInit => CooldownInv
  BY NoticesInitType DEF NoticesInit, CooldownInv, MarksAlone, PassedCools
<1>2. CooldownInv => OncePerCooldown
  BY DEF CooldownInv, PassedCools, OncePerCooldown
<1> QED BY <1>1, <1>2, CooldownStepInv, PTL DEF NoticesSpec

----------------------------------------------------------------------------
(***************************************************************************)
(* The last notice.  A goroutine that is alone tells what is shown; one    *)
(* that is not has led its server astray.                                  *)
(***************************************************************************)
ToldIsShown == \A s \in Servers \ astray : Notifying(s) = {} => told[s] = shown[s]

AloneOrAstray ==
  \A n \in notifiers :
    IF n.order = "clear"
    THEN n.kind = shown[n.server] /\ \A m \in notifiers : m.server = n.server => m = n
    ELSE n.server \in astray

TellInv == NoticesType /\ ToldIsShown /\ AloneOrAstray

(* A step of a notifier that neither ends nor tells.                       *)
LEMMA GoingOnTellsNothing ==
  ASSUME TellInv, NoticesType', UNCHANGED <<told, shown, astray>>,
         NEW n \in notifiers, NEW next, Moves(n, next),
         next.server = n.server, next.kind = n.kind, next.order = n.order
  PROVE  TellInv'
BY DEF TellInv, ToldIsShown, AloneOrAstray, Moves, Notifying

LEMMA GivingUpGoesAstray ==
  ASSUME TellInv, NoticesType', UNCHANGED shown, NEW n \in notifiers, GivesUp(n)
  PROVE  TellInv'
BY DEF TellInv, ToldIsShown, AloneOrAstray, GivesUp, Notifying

LEMMA TellStepInv ==
  ASSUME TellInv, ShownIsStored, [NoticesNext]_serverVars PROVE TellInv'
<1>0. NoticesType /\ NoticesType'
  BY NoticesStepType DEF TellInv
<1> USE DEF TellInv, ToldIsShown, AloneOrAstray, Notifying
<1>1. CASE StatusStep
  <2>1. UNCHANGED <<shown, told, astray, notifiers>>
    BY <1>1 DEF StatusStep, noticeVars, noticeHistory, AgentRegisters, AuthReadsRow,
       AgentUnregisters, ReadStatus, WriteStatus, WriteFails, AuthSavesRow
  <2> QED BY <1>0, <2>1
<1>2. ASSUME NEW j \in jobs, AnnounceAndNotify(j) PROVE TellInv'
  <2> DEFINE unsure(n) == [n EXCEPT !.order = IF n.server = j.server THEN "unclear" ELSE @]
  <2>1. /\ notifiers' = Notified(j) \cup {unsure(n) : n \in notifiers}
        /\ astray' = IF Notifying(j.server) = {} THEN astray ELSE astray \cup {j.server}
        /\ shown' = [shown EXCEPT ![j.server] = j.kind]
        /\ UNCHANGED told
    BY <1>2 DEF AnnounceAndNotify, Announce
  <2>2. j.server \in Servers
    BY <1>0 DEF NoticesType, StatusType, Job
  <2>3. PICK new : /\ Notified(j) = {new}
                   /\ new.server = j.server /\ new.kind = j.kind
                   /\ new.order = IF Notifying(j.server) = {} THEN "clear" ELSE "unclear"
    <3> DEFINE r == [server |-> j.server, kind |-> j.kind, conn |-> j.conn, step |-> "switch",
                     order |-> Order(j.server), ready |-> {}, to |-> {}]
    <3>1. Notified(j) = {r}
      BY DEF Notified
    <3>2. r.server = j.server /\ r.kind = j.kind /\ r.order = Order(j.server)
      OBVIOUS
    <3> HIDE DEF r
    <3> QED BY <3>1, <3>2 DEF Order
  <2>4. \A n \in notifiers :
          /\ unsure(n).server = n.server /\ unsure(n).kind = n.kind
          /\ IF n.server = j.server THEN unsure(n).order = "unclear" ELSE unsure(n) = n
    BY <1>0 DEF NoticesType, Notifier
  <2>5. shown'[j.server] = j.kind /\ \A s \in Servers \ {j.server} : shown'[s] = shown[s]
    BY <1>0, <2>1, <2>2 DEF NoticesType, StatusType
  <2>6. \A n \in notifiers : n.server \in Servers
    BY <1>0 DEF NoticesType, Notifier
  <2> HIDE DEF unsure
  <2>7. ToldIsShown'
    BY <2>1, <2>3, <2>4, <2>5
  <2>8. AloneOrAstray'
    BY <2>1, <2>3, <2>4, <2>5, <2>6
  <2> QED BY <1>0, <2>7, <2>8
<1>3. ASSUME NEW n \in notifiers, NotifierStep(n) PROVE TellInv'
  <2>1. n \in Notifier /\ n.server \in Servers
    BY <1>0 DEF NoticesType, Notifier
  <2>2. UNCHANGED shown
    BY <1>3 DEF NotifierStep, ReadSwitch, LookAtCooldown, SetCooldown, ReadConfig, ReadChannels,
       Send, statusVars
  <2>3. CASE GivesUp(n)
    BY <1>0, <2>2, <2>3, GivingUpGoesAstray
  <2>4. CASE \E next : /\ Moves(n, next) /\ UNCHANGED <<told, astray>>
                       /\ next.server = n.server /\ next.kind = n.kind /\ next.order = n.order
    BY <1>0, <2>2, <2>4, GoingOnTellsNothing
  <2>5. CASE Send(n) /\ ~GivesUp(n)
    <3>1. /\ notifiers' = notifiers \ {n}
          /\ told' = [told EXCEPT ![n.server] = n.kind]
          /\ astray' = IF n.order = "clear" THEN astray \ {n.server} ELSE astray
      BY <2>5 DEF Send
    <3>2. told'[n.server] = n.kind /\ \A s \in Servers \ {n.server} : told'[s] = told[s]
      BY <1>0, <2>1, <3>1 DEF NoticesType
    <3>3. ToldIsShown'
      BY <2>1, <2>2, <3>1, <3>2
    <3>4. AloneOrAstray'
      BY <2>1, <2>2, <3>1
    <3> QED BY <1>0, <3>3, <3>4
  <2>6. \A step : [n EXCEPT !.step = step].server = n.server
              /\ [n EXCEPT !.step = step].kind = n.kind
              /\ [n EXCEPT !.step = step].order = n.order
    BY <2>1 DEF Notifier
  <2>7. CASE ~GivesUp(n) /\ (ReadSwitch(n) \/ LookAtCooldown(n) \/ SetCooldown(n))
    <3>1. PICK step : Goto(n, step) /\ UNCHANGED <<told, astray>>
      BY <2>7 DEF ReadSwitch, LookAtCooldown, Passes, SetCooldown
    <3> QED BY <2>4, <2>6, <3>1 DEF Goto
  <2>8. CASE ~GivesUp(n) /\ (ReadConfig(n) \/ ReadChannels(n))
    <3>1. UNCHANGED <<told, astray>>
      BY <2>8 DEF ReadConfig, ReadChannels
    <3> DEFINE configured == [n EXCEPT !.step = "channels", !.ready = config]
               addressed == [n EXCEPT !.step = "send", !.to = chosen[n.server]]
    <3>2. Moves(n, configured) \/ Moves(n, addressed)
      BY <2>8 DEF ReadConfig, ReadChannels
    <3>3. /\ configured.server = n.server /\ configured.kind = n.kind
          /\ configured.order = n.order
          /\ addressed.server = n.server /\ addressed.kind = n.kind
          /\ addressed.order = n.order
      BY <2>1 DEF Notifier
    <3> HIDE DEF configured, addressed
    <3> QED BY <2>4, <3>1, <3>2, <3>3
  <2> QED BY <1>3, <2>3, <2>5, <2>7, <2>8 DEF NotifierStep
<1>4. ASSUME NEW k \in Notices, CooldownEnds(k) PROVE TellInv'
  BY <1>0, <1>4 DEF CooldownEnds, statusVars
<1>5. CASE SettingsStep
  <2>1. UNCHANGED <<shown, told, astray, notifiers>>
    BY <1>5 DEF SettingsStep, AskSettings, Configure, CheckChannels, Switch, ChooseChannels,
       OnlyRequest, noticeHistory, statusVars
  <2> QED BY <1>0, <2>1
<1>6. CASE RestartPanel
  <2>1. /\ notifiers' = {} /\ UNCHANGED told /\ shown' = status
        /\ astray' = astray \cup faulty \cup crossed \cup {s \in Servers : ~Idle(s) \/ Notifying(s) # {}}
    BY <1>6 DEF RestartPanel, Restart, Forget
  <2> QED BY <1>0, <2>1 DEF ShownIsStored
<1>7. CASE UNCHANGED serverVars
  BY <1>0, <1>7 DEF serverVars, noticeVars, noticeHistory, statusVars
<1> QED BY <1>1, <1>2, <1>3, <1>4, <1>5, <1>6, <1>7 DEF NoticesNext

(***************************************************************************)
(* What the administrators were last told of a server is what is stored,   *)
(* from the first change on that neither another change nor a failed query *)
(* disturbed and whose notice was neither lost nor overtaken.              *)
(***************************************************************************)
THEOREM NoticesAreTrue == NoticesSpec => []LastNoticeIsTrue
<1>1. NoticesInit => TellInv
  <2>1. NoticesInit => NoticesType
    BY NoticesInitType
  <2> QED BY <2>1 DEF NoticesInit, StatusInit, TellInv, ToldIsShown, AloneOrAstray
<1>2. TellInv /\ ShownIsStored => LastNoticeIsTrue
  BY DEF TellInv, ToldIsShown, ShownIsStored, LastNoticeIsTrue
<1>3. NoticesSpec => []ShownIsStored
  BY NotifiedStatus, PTL
<1>4. TellInv /\ ShownIsStored /\ [NoticesNext]_serverVars => TellInv'
  BY TellStepInv
<1> QED BY <1>1, <1>2, <1>3, <1>4, PTL DEF NoticesSpec

============================================================================
