---------------------------- MODULE PanelAccess ----------------------------
(***************************************************************************)
(* Who is let into the panel: Login of the administrator and of guests     *)
(* (auth_controller.go), the counting of failures and the lock of an       *)
(* address (login_lockout_service.go), and what changes the settings they  *)
(* read (settings_controller.go, generate_admin.go).  Names and passwords  *)
(* are not told apart: what a client gives is right or wrong.  A query of  *)
(* the settings and an access to the cache are steps of their own; nothing *)
(* keeps two requests apart.                                               *)
(***************************************************************************)
EXTENDS Naturals, FiniteSets

CONSTANTS
  Addresses,    (* the addresses requests come from                        *)
  Logins,       (* the login requests, each idle or at work                *)
  Changes,      (* the changes of the settings, each made once             *)
  Limits,       (* the values of max_login_attempts                        *)
  DefaultLimit, (* the value used when it cannot be read: 5                *)
  AtOnce,       (* bound: the logins of one address at a time              *)
  MaxCount,     (* bound: the failures of an address that are counted      *)
  MaxSpent      (* bound: the locks of an address that end before its count*)

ASSUME AccessAssumption ==
  /\ Limits \subseteq Nat \ {0} /\ DefaultLimit \in Limits
  /\ AtOnce \in Nat \ {0} /\ MaxCount \in Nat /\ MaxSpent \in Nat

VARIABLES
  stored,    (* the settings: are guests let in, do they need a password,  *)
             (* is there one for them and one for the administrator, and   *)
             (* the limit                                                  *)
  login,     (* the logins                                                 *)
  change,    (* the changes                                                *)
  attempts,  (* cache: login_attempts of each address                      *)
  locked,    (* cache: login_lockout of each address                       *)
  wrong,     (* history: wrong guesses of an address since its count was   *)
             (* cleared or expired                                         *)
  spent,     (* history: the locks of an address that ended since then     *)
  lost,      (* history: addresses whose count or lock missed a guess      *)
  highest    (* history: the highest limit in force so far                 *)

cache == <<attempts, locked>>
counts == <<wrong, spent, lost>>
accessVars == <<stored, login, change, cache, counts, highest>>

Settings == [allow : BOOLEAN, protect : BOOLEAN, guest : BOOLEAN,
             admin : BOOLEAN, limit : Limits]
Login == [step : {"idle", "lock", "name", "password", "allow", "protect",
                  "guest", "token", "clear", "count", "put", "putLock"},
          ip : Addresses, admin : BOOLEAN, named : BOOLEAN, checked : BOOLEAN,
          count : Nat, limit : Limits]
Change == [step : {"new", "allow", "protect", "limit", "guest", "credentials", "done"},
           set : Settings]

AccessType ==
  /\ stored \in Settings
  /\ login \in [Logins -> Login]
  /\ change \in [Changes -> Change]
  /\ attempts \in [Addresses -> 0 .. MaxCount]
  /\ locked \in [Addresses -> BOOLEAN]
  /\ wrong \in [Addresses -> Nat]
  /\ spent \in [Addresses -> 0 .. MaxSpent]
  /\ lost \subseteq Addresses
  /\ highest \in Limits

Idle(i) == [step |-> "idle", ip |-> i, admin |-> FALSE, named |-> FALSE,
            checked |-> FALSE, count |-> 0, limit |-> DefaultLimit]

Unset == [allow |-> FALSE, protect |-> FALSE, guest |-> FALSE, admin |-> FALSE,
          limit |-> DefaultLimit]

(* What the seeder writes: guests are not let in, and need a password.     *)
Seeded == [allow |-> FALSE, protect |-> TRUE, guest |-> TRUE, admin |-> TRUE,
           limit |-> DefaultLimit]

(* The tables of a new panel are empty until they are seeded.              *)
AccessInit ==
  /\ stored \in {Unset, Seeded}
  /\ \E i \in Addresses : login = [l \in Logins |-> Idle(i)]
  /\ change = [x \in Changes |-> [step |-> "new", set |-> Unset]]
  /\ attempts = [i \in Addresses |-> 0]
  /\ locked = [i \in Addresses |-> FALSE]
  /\ wrong = [i \in Addresses |-> 0]
  /\ spent = [i \in Addresses |-> 0]
  /\ lost = {}
  /\ highest = DefaultLimit

----------------------------------------------------------------------------
At(l, step) == login[l].step = step
Ip(l) == login[l].ip
AtWork(i) == {l \in Logins : ~At(l, "idle") /\ Ip(l) = i}
Goto(l, step) == login' = [login EXCEPT ![l].step = step]
Answered(l) == login' = [login EXCEPT ![l] = Idle(Ip(l))]

(* A setting that cannot be read has its default: FALSE.                   *)
Read(flag) == {flag, FALSE}

(* The lock is looked at for the administrator, and for guests while they  *)
(* need a password.                                                        *)
Begin(l, i, admin) ==
  /\ At(l, "idle")
  /\ Cardinality(AtWork(i)) < AtOnce
  /\ \E protect \in Read(stored.protect) :
       login' = [login EXCEPT ![l] =
         [Idle(i) EXCEPT !.admin = admin, !.checked = admin \/ protect,
                         !.step = IF admin \/ protect THEN "lock" ELSE "allow"]]
  /\ UNCHANGED <<stored, change, cache, counts, highest>>

AfterLock(l) == Goto(l, IF login[l].admin THEN "name" ELSE "allow")

(* Faulty variant: the lock is looked at and not obeyed.                   *)
CheckNoLock(l) ==
  /\ At(l, "lock")
  /\ AfterLock(l)
  /\ UNCHANGED <<stored, change, cache, counts, highest>>

CheckLock(l) ==
  /\ At(l, "lock")
  /\ IF locked[Ip(l)] THEN Answered(l) ELSE AfterLock(l)
  /\ UNCHANGED <<stored, change, cache, counts, highest>>

(* A wrong guess will be counted.  One that slipped past a lock, because   *)
(* the password was asked for only after the lock was, is set apart.       *)
Guess(l, right) ==
  IF right THEN Goto(l, "token") /\ UNCHANGED <<wrong, lost>>
  ELSE /\ Goto(l, "count")
       /\ lost' = IF login[l].checked THEN lost ELSE lost \cup {Ip(l)}
       /\ wrong' = IF Ip(l) \in lost' THEN wrong ELSE [wrong EXCEPT ![Ip(l)] = @ + 1]

(* The name is read before the password, and compared after it.            *)
ReadName(l) ==
  /\ At(l, "name")
  /\ \E right \in BOOLEAN :
       login' = [login EXCEPT ![l].step = "password", ![l].named = right]
  /\ UNCHANGED <<stored, change, cache, counts, highest>>

ReadPassword(l) ==
  /\ At(l, "password")
  /\ \/ Answered(l) /\ UNCHANGED <<wrong, lost>>
     \/ /\ stored.admin
        /\ \E right \in BOOLEAN : Guess(l, login[l].named /\ right)
  /\ UNCHANGED <<stored, change, cache, spent, highest>>

ReadAllow(l) ==
  /\ At(l, "allow")
  /\ \E allow \in Read(stored.allow) : IF allow THEN Goto(l, "protect") ELSE Answered(l)
  /\ UNCHANGED <<stored, change, cache, counts, highest>>

(* The setting is read a second time.  No password is a wrong one.         *)
ReadProtect(l) ==
  /\ At(l, "protect")
  /\ \E protect \in Read(stored.protect) :
       IF protect THEN \/ Goto(l, "guest") /\ UNCHANGED <<wrong, lost>>
                       \/ Guess(l, FALSE)
       ELSE Goto(l, "token") /\ UNCHANGED <<wrong, lost>>
  /\ UNCHANGED <<stored, change, cache, spent, highest>>

ReadGuestPassword(l) ==
  /\ At(l, "guest")
  /\ \/ Answered(l) /\ UNCHANGED <<wrong, lost>>
     \/ stored.guest /\ \E right \in BOOLEAN : Guess(l, right)
  /\ UNCHANGED <<stored, change, cache, spent, highest>>

(* The token may fail to be made; the count is cleared where it counts.    *)
MakeToken(l) ==
  /\ At(l, "token")
  /\ \/ Answered(l)
     \/ login[l].checked /\ Goto(l, "clear")
  /\ UNCHANGED <<stored, change, cache, counts, highest>>

Forgets(i) ==
  /\ attempts' = [attempts EXCEPT ![i] = 0]
  /\ wrong' = [wrong EXCEPT ![i] = 0]
  /\ spent' = [spent EXCEPT ![i] = 0]

ClearFailedAttempts(l) ==
  /\ At(l, "clear")
  /\ Forgets(Ip(l))
  /\ Answered(l)
  /\ UNCHANGED <<stored, change, locked, lost, highest>>

----------------------------------------------------------------------------
(* Faulty variant of ReadCount: a limit that cannot be read is used as 0.  *)
ReadCountUnset(l) ==
  /\ At(l, "count") /\ attempts[Ip(l)] < MaxCount
  /\ \E limit \in {stored.limit, 0} :
       login' = [login EXCEPT ![l].step = "put", ![l].limit = limit,
                              ![l].count = attempts[Ip(l)] + 1]
  /\ UNCHANGED <<stored, change, cache, counts, highest>>

(* IncrementFailedAttempts: the limit and the count are read, then the     *)
(* count is written, then the lock.                                        *)
ReadCount(l) ==
  /\ At(l, "count") /\ attempts[Ip(l)] < MaxCount
  /\ \E limit \in {stored.limit, DefaultLimit} :
       login' = [login EXCEPT ![l].step = "put", ![l].limit = limit,
                              ![l].count = attempts[Ip(l)] + 1]
  /\ UNCHANGED <<stored, change, cache, counts, highest>>

(* Faulty variant: the limit itself is still allowed.                      *)
PutCountLate(l) ==
  LET i == Ip(l)
      n == login[l].count
  IN /\ At(l, "put")
     /\ attempts' = [attempts EXCEPT ![i] = n]
     /\ lost' = IF attempts[i] >= n THEN lost \cup {i} ELSE lost
     /\ IF n > login[l].limit + 1 THEN Goto(l, "putLock") ELSE Answered(l)
     /\ UNCHANGED <<stored, change, locked, wrong, spent, highest>>

(* The write may fail, or undo one made since the count was read.          *)
PutCount(l) ==
  LET i == Ip(l)
      n == login[l].count
  IN /\ At(l, "put")
     /\ \/ /\ attempts' = [attempts EXCEPT ![i] = n]
           /\ lost' = IF attempts[i] >= n THEN lost \cup {i} ELSE lost
           /\ IF n >= login[l].limit THEN Goto(l, "putLock") ELSE Answered(l)
        \/ /\ lost' = lost \cup {i}
           /\ Answered(l)
           /\ UNCHANGED attempts
     /\ UNCHANGED <<stored, change, locked, wrong, spent, highest>>

PutLock(l) ==
  /\ At(l, "putLock")
  /\ \/ locked' = [locked EXCEPT ![Ip(l)] = TRUE] /\ UNCHANGED lost
     \/ lost' = lost \cup {Ip(l)} /\ UNCHANGED locked
  /\ Answered(l)
  /\ UNCHANGED <<stored, change, attempts, wrong, spent, highest>>

(* A count is kept twice as long as the lock written right after it.       *)
LockExpires(i) ==
  /\ locked[i] /\ spent[i] < MaxSpent
  /\ locked' = [locked EXCEPT ![i] = FALSE]
  /\ spent' = [spent EXCEPT ![i] = @ + 1]
  /\ UNCHANGED <<stored, login, change, attempts, wrong, lost, highest>>

CountExpires(i) ==
  /\ attempts[i] > 0 /\ ~locked[i]
  /\ Forgets(i)
  /\ UNCHANGED <<stored, login, change, locked, lost, highest>>

----------------------------------------------------------------------------
Changing(x) == change[x].step \notin {"new", "done"}
ChangeGoto(x, step) == change' = [change EXCEPT ![x].step = step]
Over(x) == change' = [change EXCEPT ![x] = [step |-> "done", set |-> Unset]]

(* UpdatePermissionsSettings: one setting after another, each of which may *)
(* fail to be written; then the passwords.                                 *)
BeginChange(x, set) ==
  /\ change[x].step = "new"
  /\ change' = [change EXCEPT ![x] = [step |-> "allow", set |-> set]]
  /\ UNCHANGED <<stored, login, cache, counts, highest>>

ChangeFails(x) ==
  /\ Changing(x)
  /\ Over(x)
  /\ UNCHANGED <<stored, login, cache, counts, highest>>

(* SetValue stores nothing, and gives no error, where there is no row; and *)
(* where a lookup fails it creates a second one, which is not read.        *)
SetValue(new) == stored' \in {stored, new}

WriteAllow(x) ==
  /\ change[x].step = "allow"
  /\ SetValue([stored EXCEPT !.allow = change[x].set.allow])
  /\ ChangeGoto(x, "protect")
  /\ UNCHANGED <<login, cache, counts, highest>>

WriteProtect(x) ==
  /\ change[x].step = "protect"
  /\ SetValue([stored EXCEPT !.protect = change[x].set.protect])
  /\ ChangeGoto(x, "limit")
  /\ UNCHANGED <<login, cache, counts, highest>>

WriteLimit(x) ==
  /\ change[x].step = "limit"
  /\ SetValue([stored EXCEPT !.limit = change[x].set.limit])
  /\ highest' = IF stored'.limit > highest THEN stored'.limit ELSE highest
  /\ ChangeGoto(x, IF change[x].set.protect /\ change[x].set.guest
                   THEN "guest" ELSE "credentials")
  /\ UNCHANGED <<login, cache, counts>>

WriteGuestPassword(x) ==
  /\ change[x].step = "guest"
  /\ SetValue([stored EXCEPT !.guest = TRUE])
  /\ ChangeGoto(x, "credentials")
  /\ UNCHANGED <<login, cache, counts, highest>>

(* A new name or password takes the current one.                           *)
WriteCredentials(x) ==
  /\ change[x].step = "credentials"
  /\ Over(x)
  /\ UNCHANGED <<stored, login, cache, counts, highest>>

(* The command generate:admin.                                             *)
GenerateAdmin ==
  /\ stored' = [stored EXCEPT !.admin = TRUE]
  /\ UNCHANGED <<login, change, cache, counts, highest>>

----------------------------------------------------------------------------
LoginNext(l) ==
  \/ \E i \in Addresses, admin \in BOOLEAN : Begin(l, i, admin)
  \/ CheckLock(l)
  \/ ReadName(l) \/ ReadPassword(l)
  \/ ReadAllow(l) \/ ReadProtect(l) \/ ReadGuestPassword(l)
  \/ MakeToken(l) \/ ClearFailedAttempts(l)
  \/ ReadCount(l) \/ PutCount(l) \/ PutLock(l)

ChangeNext(x) ==
  \/ \E set \in {t \in Settings : ~t.admin} : BeginChange(x, set)
  \/ WriteAllow(x) \/ WriteProtect(x) \/ WriteLimit(x)
  \/ WriteGuestPassword(x) \/ WriteCredentials(x)
  \/ ChangeFails(x)

AccessNext ==
  \/ \E l \in Logins : LoginNext(l)
  \/ \E x \in Changes : ChangeNext(x)
  \/ GenerateAdmin
  \/ \E i \in Addresses : LockExpires(i) \/ CountExpires(i)

AccessSpec == AccessInit /\ [][AccessNext]_accessVars

----------------------------------------------------------------------------
(***************************************************************************)
(* An address guesses wrong no more often than the limit says, but for the *)
(* requests that were already past the look at the lock, and for as many   *)
(* again each time a lock has ended before the count has; unless a failure *)
(* was not counted: two were at the same time, the cache failed, or the    *)
(* lock was not looked at (login_lockout_service.go:78-106).               *)
(***************************************************************************)
GuessesAreBounded ==
  \A i \in Addresses \ lost :
    wrong[i] <= highest + (AtOnce - 1) + AtOnce * spent[i]
============================================================================
