------------------------- MODULE PanelAccessProofs -------------------------
EXTENDS PanelAccess, FiniteSetTheorems, TLAPS

(* What a login is about to write is a count that is within the bound.     *)
CountsFit == \A l \in Logins : At(l, "put") => login[l].count <= MaxCount

AccessInv == AccessType /\ CountsFit

----------------------------------------------------------------------------
LEMMA LoginHas ==
  ASSUME AccessType, NEW l \in Logins
  PROVE  /\ login[l] \in Login
         /\ Ip(l) \in Addresses /\ login[l].count \in Nat /\ login[l].limit \in Limits
         /\ Idle(Ip(l)) \in Login
         /\ attempts[Ip(l)] \in 0 .. MaxCount
BY AccessAssumption DEF AccessType, Login, Ip, Idle

(* A login takes a step and the cache is changed at its address.           *)
LEMMA LoginStep ==
  ASSUME AccessType, CountsFit, NEW l \in Logins, NEW next \in Login,
         login' = [login EXCEPT ![l] = next],
         next.step = "put" => next.count <= MaxCount,
         UNCHANGED <<stored, change, highest>>,
         attempts' \in [Addresses -> 0 .. MaxCount],
         locked' \in [Addresses -> BOOLEAN],
         wrong' \in [Addresses -> Nat],
         spent' \in [Addresses -> 0 .. MaxSpent],
         lost' \subseteq Addresses
  PROVE  AccessType' /\ CountsFit'
BY DEF AccessType, CountsFit, At

LEMMA GotoIsLogin ==
  ASSUME AccessType, NEW l \in Logins,
         NEW step \in {"idle", "lock", "name", "password", "allow", "protect",
                       "guest", "token", "clear", "count", "putLock"},
         Goto(l, step)
  PROVE  \E next \in Login : /\ login' = [login EXCEPT ![l] = next]
                             /\ next.step # "put"
<1> DEFINE next == [login[l] EXCEPT !.step = step]
<1>1. next \in Login /\ next.step # "put"
  BY LoginHas DEF Login
<1>2. login' = [login EXCEPT ![l] = next]
  BY DEF Goto
<1> HIDE DEF next
<1> QED BY <1>1, <1>2

LEMMA AnsweredIsLogin ==
  ASSUME AccessType, NEW l \in Logins, Answered(l)
  PROVE  \E next \in Login : /\ login' = [login EXCEPT ![l] = next]
                             /\ next.step # "put"
<1>1. Idle(Ip(l)).step # "put"
  BY DEF Idle
<1> QED BY <1>1, LoginHas DEF Answered

LEMMA GuessKeeps ==
  ASSUME AccessType, NEW l \in Logins, NEW right \in BOOLEAN, Guess(l, right)
  PROVE  /\ \E step \in {"token", "count"} : Goto(l, step)
         /\ wrong' \in [Addresses -> Nat] /\ lost' \subseteq Addresses
<1>1. CASE right
  BY <1>1 DEF Guess, AccessType
<1>2. CASE ~right
  <2>1. /\ Goto(l, "count")
        /\ lost' = IF login[l].checked THEN lost ELSE lost \cup {Ip(l)}
        /\ wrong' = IF Ip(l) \in lost' THEN wrong ELSE [wrong EXCEPT ![Ip(l)] = @ + 1]
    BY <1>2 DEF Guess
  <2> QED BY <2>1, LoginHas DEF AccessType
<1> QED BY <1>1, <1>2

LEMMA ForgetsKeeps ==
  ASSUME AccessType, NEW i \in Addresses, Forgets(i)
  PROVE  /\ attempts' \in [Addresses -> 0 .. MaxCount]
         /\ wrong' \in [Addresses -> Nat]
         /\ spent' \in [Addresses -> 0 .. MaxSpent]
BY AccessAssumption DEF Forgets, AccessType

----------------------------------------------------------------------------
(* A login leaves the settings alone, and counts as far as the bound.      *)
LEMMA LoginKeeps ==
  ASSUME AccessType, CountsFit, NEW l \in Logins, LoginNext(l)
  PROVE  AccessType' /\ CountsFit'
<1> DEFINE Stepped == \E next \in Login : /\ login' = [login EXCEPT ![l] = next]
                                          /\ next.step # "put"
           CacheKept == /\ attempts' \in [Addresses -> 0 .. MaxCount]
                        /\ locked' \in [Addresses -> BOOLEAN]
                        /\ wrong' \in [Addresses -> Nat]
                        /\ spent' \in [Addresses -> 0 .. MaxSpent]
                        /\ lost' \subseteq Addresses
<1>1. UNCHANGED <<stored, change, highest>>
  BY DEF LoginNext, Begin, CheckLock, ReadName, ReadPassword, ReadAllow, ReadProtect,
     ReadGuestPassword, MakeToken, ClearFailedAttempts, ReadCount, PutCount, PutLock
<1>2. ASSUME Stepped, CacheKept PROVE AccessType' /\ CountsFit'
  BY <1>1, <1>2, LoginStep
<1>3. ASSUME NEW i \in Addresses, NEW admin \in BOOLEAN, Begin(l, i, admin)
      PROVE  Stepped /\ CacheKept
  <2>1. PICK protect \in BOOLEAN :
          login' = [login EXCEPT ![l] =
            [Idle(i) EXCEPT !.admin = admin, !.checked = admin \/ protect,
                            !.step = IF admin \/ protect THEN "lock" ELSE "allow"]]
    BY <1>3 DEF Begin, Read, AccessType, Settings
  <2> DEFINE next == [Idle(i) EXCEPT !.admin = admin, !.checked = admin \/ protect,
                                     !.step = IF admin \/ protect THEN "lock" ELSE "allow"]
  <2>2. next \in Login /\ next.step # "put"
    BY AccessAssumption DEF Idle, Login
  <2> HIDE DEF next
  <2> QED BY <1>3, <2>1, <2>2 DEF Begin, cache, counts, AccessType, next
<1>4. CASE ReadName(l)
  <2>1. PICK right \in BOOLEAN :
          login' = [login EXCEPT ![l].step = "password", ![l].named = right]
    BY <1>4 DEF ReadName
  <2> DEFINE next == [login[l] EXCEPT !.step = "password", !.named = right]
  <2>2. next \in Login /\ next.step # "put"
    BY LoginHas DEF Login
  <2>3. login' = [login EXCEPT ![l] = next]
    BY <2>1
  <2> HIDE DEF next
  <2>4. Stepped /\ CacheKept
    BY <1>4, <2>2, <2>3 DEF ReadName, cache, counts, AccessType
  <2> QED BY <1>2, <2>4
<1>5. CASE CheckLock(l) \/ ReadAllow(l) \/ MakeToken(l)
  <2>1. Answered(l) \/ \E step \in {"name", "allow", "protect", "clear"} : Goto(l, step)
    BY <1>5 DEF CheckLock, AfterLock, ReadAllow, MakeToken
  <2>2. Stepped /\ CacheKept
    BY <1>5, <2>1, GotoIsLogin, AnsweredIsLogin
       DEF CheckLock, ReadAllow, MakeToken, cache, counts, AccessType
  <2> QED BY <1>2, <2>2
<1>6. CASE ReadPassword(l) \/ ReadProtect(l) \/ ReadGuestPassword(l)
  <2>1. \/ /\ Answered(l) \/ \E step \in {"guest", "token"} : Goto(l, step)
           /\ UNCHANGED <<wrong, lost>>
        \/ \E right \in BOOLEAN : Guess(l, right)
    BY <1>6, LoginHas DEF ReadPassword, ReadProtect, ReadGuestPassword, Login
  <2>2. UNCHANGED <<cache, spent>>
    BY <1>6 DEF ReadPassword, ReadProtect, ReadGuestPassword
  <2>3. Stepped /\ wrong' \in [Addresses -> Nat] /\ lost' \subseteq Addresses
    BY <2>1, GuessKeeps, GotoIsLogin, AnsweredIsLogin DEF AccessType
  <2>4. CacheKept
    BY <2>2, <2>3 DEF cache, AccessType
  <2> QED BY <1>2, <2>3, <2>4
<1>7. CASE ClearFailedAttempts(l)
  <2>1. Answered(l) /\ Forgets(Ip(l)) /\ UNCHANGED <<locked, lost>>
    BY <1>7 DEF ClearFailedAttempts
  <2>2. Stepped
    BY <2>1, AnsweredIsLogin
  <2>3. CacheKept
    BY <2>1, ForgetsKeeps, LoginHas DEF AccessType
  <2> QED BY <1>2, <2>2, <2>3
<1>8. CASE ReadCount(l)
  <2>1. PICK limit \in Limits :
          login' = [login EXCEPT ![l].step = "put", ![l].limit = limit,
                                 ![l].count = attempts[Ip(l)] + 1]
    BY <1>8, AccessAssumption DEF ReadCount, AccessType, Settings
  <2> DEFINE next == [login[l] EXCEPT !.step = "put", !.limit = limit,
                                      !.count = attempts[Ip(l)] + 1]
  <2>2. next \in Login /\ next.count <= MaxCount
    <3>1. attempts[Ip(l)] + 1 \in Nat /\ attempts[Ip(l)] + 1 <= MaxCount
      BY <1>8, LoginHas, AccessAssumption DEF ReadCount
    <3>2. login[l] \in Login
      BY LoginHas
    <3> QED BY <3>1, <3>2 DEF Login
  <2>3. login' = [login EXCEPT ![l] = next]
    BY <2>1
  <2> HIDE DEF next
  <2>4. CacheKept
    BY <1>8 DEF ReadCount, cache, counts, AccessType
  <2>5. AccessType' /\ CountsFit'
    BY <1>1, <2>2, <2>3, <2>4, LoginStep
  <2> QED BY <2>5
<1>9. CASE PutCount(l)
  <2>1. Answered(l) \/ Goto(l, "putLock")
    BY <1>9 DEF PutCount
  <2>2. Stepped
    BY <2>1, GotoIsLogin, AnsweredIsLogin
  <2>3. login[l].count \in 0 .. MaxCount
    BY <1>9, LoginHas, AccessAssumption DEF CountsFit, PutCount
  <2>4. CacheKept
    BY <1>9, <2>3, LoginHas DEF PutCount, AccessType
  <2> QED BY <1>2, <2>2, <2>4
<1>10. CASE PutLock(l)
  <2>1. Stepped
    BY <1>10, AnsweredIsLogin DEF PutLock
  <2>2. CacheKept
    BY <1>10, LoginHas DEF PutLock, AccessType
  <2> QED BY <1>2, <2>1, <2>2
<1> QED BY <1>2, <1>3, <1>4, <1>5, <1>6, <1>7, <1>8, <1>9, <1>10 DEF LoginNext

----------------------------------------------------------------------------
LEMMA ChangeHas ==
  ASSUME AccessType, NEW x \in Changes
  PROVE  /\ change[x] \in Change /\ change[x].set \in Settings
         /\ stored \in Settings /\ Unset \in Settings
         /\ [step |-> "done", set |-> Unset] \in Change
         /\ \A step \in {"protect", "limit", "guest", "credentials"} :
              [change[x] EXCEPT !.step = step] \in Change
BY AccessAssumption DEF AccessType, Change, Settings, Unset

LEMMA ChangeKeepsType ==
  ASSUME AccessType, CountsFit, NEW x \in Changes, ChangeNext(x)
  PROVE  AccessType' /\ CountsFit'
<1>1. UNCHANGED <<login, cache, counts>>
  BY DEF ChangeNext, BeginChange, ChangeFails, WriteAllow, WriteProtect, WriteLimit,
     WriteGuestPassword, WriteCredentials, SetValue
<1>3. stored' \in Settings
  <2>1. /\ change[x].set.allow \in BOOLEAN /\ change[x].set.protect \in BOOLEAN
        /\ change[x].set.limit \in Limits /\ stored \in Settings
    BY ChangeHas DEF Settings
  <2>2. \/ stored' = stored
        \/ stored' = [stored EXCEPT !.allow = change[x].set.allow]
        \/ stored' = [stored EXCEPT !.protect = change[x].set.protect]
        \/ stored' = [stored EXCEPT !.limit = change[x].set.limit]
        \/ stored' = [stored EXCEPT !.guest = TRUE]
    BY DEF ChangeNext, BeginChange, ChangeFails, WriteAllow, WriteProtect, WriteLimit,
       WriteGuestPassword, WriteCredentials, SetValue
  <2> QED BY <2>1, <2>2 DEF Settings
<1>4. highest' \in Limits
  <2>1. highest' \in {highest, stored'.limit}
    BY DEF ChangeNext, BeginChange, ChangeFails, WriteAllow, WriteProtect, WriteLimit,
       WriteGuestPassword, WriteCredentials
  <2> QED BY <1>3, <2>1 DEF AccessType, Settings
<1>5. change' \in [Changes -> Change]
  <2>1. \E next \in Change : change' = [change EXCEPT ![x] = next]
    <3>1. CASE \E set \in Settings : BeginChange(x, set)
      BY <3>1 DEF BeginChange, Change
    <3>2. CASE Over(x)
      BY <3>2, ChangeHas DEF Over
    <3>3. CASE \E step \in {"protect", "limit", "guest", "credentials"} : ChangeGoto(x, step)
      BY <3>3, ChangeHas DEF ChangeGoto
    <3> QED BY <3>1, <3>2, <3>3 DEF ChangeNext, ChangeFails, WriteAllow, WriteProtect,
           WriteLimit, WriteGuestPassword, WriteCredentials
  <2> QED BY <2>1 DEF AccessType
<1> QED BY <1>1, <1>3, <1>4, <1>5 DEF AccessType, CountsFit, At, cache, counts

----------------------------------------------------------------------------
LEMMA AccessStepInv == ASSUME AccessInv, [AccessNext]_accessVars PROVE AccessInv'
<1> USE DEF AccessInv
<1>1. ASSUME NEW l \in Logins, LoginNext(l) PROVE AccessInv'
  BY <1>1, LoginKeeps
<1>2. ASSUME NEW x \in Changes, ChangeNext(x) PROVE AccessInv'
  BY <1>2, ChangeKeepsType
<1>3. CASE GenerateAdmin
  BY <1>3 DEF GenerateAdmin, cache, counts, AccessType, Settings, CountsFit, At
<1>4. ASSUME NEW i \in Addresses, LockExpires(i) \/ CountExpires(i) PROVE AccessInv'
  <2>1. spent[i] \in 0 .. MaxSpent /\ MaxSpent \in Nat
    BY AccessAssumption DEF AccessType
  <2>2. AccessType'
    <3>1. CASE LockExpires(i)
      BY <2>1, <3>1 DEF LockExpires, AccessType
    <3>2. CASE CountExpires(i)
      BY <3>2, ForgetsKeeps DEF CountExpires, AccessType
    <3> QED BY <1>4, <3>1, <3>2
  <2>3. CountsFit'
    BY <1>4 DEF LockExpires, CountExpires, CountsFit, At
  <2> QED BY <2>2, <2>3
<1>5. CASE UNCHANGED accessVars
  BY <1>5 DEF accessVars, cache, counts, AccessType, CountsFit, At
<1> QED BY <1>1, <1>2, <1>3, <1>4, <1>5 DEF AccessNext

(***************************************************************************)
(* The invariant the types are a part of: a login about to write a count   *)
(* writes one that is within the bound.                                    *)
(***************************************************************************)
THEOREM AccessInvariance == AccessSpec => []AccessInv
<1>1. AccessInit => AccessInv
  <2> SUFFICES ASSUME AccessInit PROVE AccessInv
    OBVIOUS
  <2>1. Unset \in Settings /\ Seeded \in Settings
    BY AccessAssumption DEF Unset, Seeded, Settings
  <2>2. login \in [Logins -> Login] /\ \A l \in Logins : login[l].step = "idle"
    BY AccessAssumption DEF AccessInit, Idle, Login
  <2>3. AccessType
    <3>1. 0 \in 0 .. MaxCount /\ 0 \in 0 .. MaxSpent /\ DefaultLimit \in Limits
      BY AccessAssumption
    <3>2. [step |-> "new", set |-> Unset] \in Change
      BY <2>1 DEF Change
    <3>3. change \in [Changes -> Change]
      BY <3>2 DEF AccessInit
    <3> QED BY <2>1, <2>2, <3>1, <3>3 DEF AccessInit, AccessType
  <2>4. CountsFit
    BY <2>2 DEF CountsFit, At
  <2> QED BY <2>3, <2>4 DEF AccessInv
<1> QED BY <1>1, AccessStepInv, PTL DEF AccessSpec

(***************************************************************************)
(* The settings, the logins and what the cache counts keep their types.    *)
(***************************************************************************)
THEOREM AccessTypeCorrect == AccessSpec => []AccessType
<1>1. AccessInv => AccessType
  BY DEF AccessInv
<1> QED BY <1>1, AccessInvariance, PTL

----------------------------------------------------------------------------
(***************************************************************************)
(* The bound on guesses.  The logins of an address at work are counted by  *)
(* what they have yet to do: guess, be counted, or write the lock.         *)
(***************************************************************************)
Works(r, i) == r.ip = i /\ r.step # "idle"
Pends(r, i) == r.ip = i /\ r.step \in {"count", "put"}
Fails(r, i) == r.ip = i /\ r.step \in {"count", "put", "putLock"}
MayGuess(r, i) ==
  r.ip = i /\ r.checked /\ r.step \in {"name", "password", "allow", "protect", "guest"}

Pending(i) == {l \in Logins : Pends(login[l], i)}
Failing(i) == {l \in Logins : Fails(login[l], i)}
PastLook(i) == {l \in Logins : MayGuess(login[l], i)}

(* No limit that is in force, or was read by a login, is above the highest.*)
LimitsKnown ==
  /\ stored.limit <= highest /\ DefaultLimit <= highest
  /\ \A l \in Logins : At(l, "put") => login[l].limit <= highest

FewAtWork ==
  \A i \in Addresses : IsFiniteSet(AtWork(i)) /\ Cardinality(AtWork(i)) <= AtOnce

(* A guess of an address that lost none is counted, or is about to be.     *)
GuessesCounted ==
  \A i \in Addresses \ lost : wrong[i] <= attempts[i] + Cardinality(Pending(i))

(* While an address is not locked, each guess beyond the limit is of a     *)
(* login that is still on its way to the lock; and a lock leaves a guess   *)
(* to those who are past the look at it.                                   *)
LockedInTime ==
  \A i \in Addresses \ lost :
    wrong[i] + (IF locked[i] THEN Cardinality(PastLook(i)) ELSE 0)
      <= (highest - 1) + AtOnce * spent[i]
         + (IF locked[i] THEN AtOnce ELSE Cardinality(Failing(i)))

GuessInv == LimitsKnown /\ FewAtWork /\ GuessesCounted /\ LockedInTime

Bit(b) == IF b THEN 1 ELSE 0

(* The cardinality of a set that one element may join or leave.            *)
LEMMA OneMoves ==
  ASSUME NEW S, IsFiniteSet(S), NEW T, NEW x, T \ {x} = S \ {x}
  PROVE  /\ IsFiniteSet(T)
         /\ Cardinality(T) + Bit(x \in S) = Cardinality(S) + Bit(x \in T)
<1>1. /\ IsFiniteSet(S \ {x}) /\ Cardinality(S \ {x}) = Cardinality(S) - Bit(x \in S)
      /\ Cardinality(S) \in Nat
  BY FS_RemoveElement, FS_CardinalityType DEF Bit
<1>2. T = IF x \in T THEN (S \ {x}) \cup {x} ELSE S \ {x}
  OBVIOUS
<1>3. CASE x \in T
  <2>1. T = (S \ {x}) \cup {x} /\ x \notin S \ {x}
    BY <1>2, <1>3
  <2>2. IsFiniteSet(T) /\ Cardinality(T) = Cardinality(S \ {x}) + 1
    BY <1>1, <2>1, FS_AddElement
  <2> QED BY <1>1, <1>3, <2>2 DEF Bit
<1>4. CASE x \notin T
  <2>1. T = S \ {x}
    BY <1>4
  <2> QED BY <1>1, <1>4, <2>1 DEF Bit
<1> QED BY <1>3, <1>4

(* The sets the invariant counts are finite parts of the logins at work,   *)
(* and those past the look and those that failed are not the same ones.    *)
LEMMA CountedSets ==
  ASSUME FewAtWork, NEW i \in Addresses
  PROVE  /\ Cardinality(AtWork(i)) \in Nat
         /\ IsFiniteSet(Pending(i)) /\ Cardinality(Pending(i)) \in Nat
         /\ IsFiniteSet(Failing(i)) /\ Cardinality(Failing(i)) \in Nat
         /\ IsFiniteSet(PastLook(i)) /\ Cardinality(PastLook(i)) \in Nat
         /\ Cardinality(PastLook(i)) + Cardinality(Failing(i)) <= Cardinality(AtWork(i))
         /\ Cardinality(Pending(i)) <= Cardinality(Failing(i))
<1> DEFINE Both == PastLook(i) \cup Failing(i)
<1>1. IsFiniteSet(AtWork(i))
  BY DEF FewAtWork
<1>2. /\ Pending(i) \in SUBSET AtWork(i) /\ Failing(i) \in SUBSET AtWork(i)
      /\ PastLook(i) \in SUBSET AtWork(i) /\ Both \in SUBSET AtWork(i)
  BY DEF Pending, Failing, PastLook, Pends, Fails, MayGuess, AtWork, At, Ip
<1>3. PastLook(i) \cap Failing(i) = {}
  BY DEF Failing, PastLook, Fails, MayGuess
<1>4. /\ IsFiniteSet(Pending(i)) /\ IsFiniteSet(Failing(i)) /\ IsFiniteSet(PastLook(i))
      /\ Cardinality(Both) <= Cardinality(AtWork(i))
  BY <1>1, <1>2, FS_Subset
<1>5. Cardinality(Both) = Cardinality(PastLook(i)) + Cardinality(Failing(i))
                            - Cardinality(PastLook(i) \cap Failing(i))
  BY <1>4, FS_Union
<1>6. Cardinality(PastLook(i) \cap Failing(i)) = 0
  BY <1>3, FS_EmptySet
<1>7. /\ Cardinality(AtWork(i)) \in Nat /\ Cardinality(Pending(i)) \in Nat
      /\ Cardinality(Failing(i)) \in Nat /\ Cardinality(PastLook(i)) \in Nat
  BY <1>1, <1>4, FS_CardinalityType
<1>8. Cardinality(Pending(i)) <= Cardinality(Failing(i))
  <2>1. Pending(i) \in SUBSET Failing(i)
    BY DEF Pending, Failing, Pends, Fails
  <2> QED BY <1>4, <2>1, FS_Subset
<1> QED BY <1>4, <1>5, <1>6, <1>7, <1>8

(* What one login's step does to those counts.                             *)
CountsMove(l, next, i) ==
  /\ IsFiniteSet(AtWork(i)') /\ Cardinality(AtWork(i)') \in Nat
  /\ Cardinality(AtWork(i)') + Bit(Works(login[l], i))
       = Cardinality(AtWork(i)) + Bit(Works(next, i))
  /\ Cardinality(Pending(i)') \in Nat
  /\ Cardinality(Pending(i)') + Bit(Pends(login[l], i))
       = Cardinality(Pending(i)) + Bit(Pends(next, i))
  /\ Cardinality(Failing(i)') \in Nat
  /\ Cardinality(Failing(i)') + Bit(Fails(login[l], i))
       = Cardinality(Failing(i)) + Bit(Fails(next, i))
  /\ Cardinality(PastLook(i)') \in Nat
  /\ Cardinality(PastLook(i)') + Bit(MayGuess(login[l], i))
       = Cardinality(PastLook(i)) + Bit(MayGuess(next, i))

LEMMA OneLoginMoves ==
  ASSUME AccessType, FewAtWork, NEW l \in Logins, NEW next \in Login,
         login' = [login EXCEPT ![l] = next], NEW i \in Addresses
  PROVE  CountsMove(l, next, i)
<1>1. /\ IsFiniteSet(AtWork(i)) /\ IsFiniteSet(Pending(i))
      /\ IsFiniteSet(Failing(i)) /\ IsFiniteSet(PastLook(i))
  BY CountedSets DEF FewAtWork
<1>2. login'[l] = next /\ \A m \in Logins \ {l} : login'[m] = login[m]
  BY DEF AccessType
<1>3. AtWork(i)' \ {l} = AtWork(i) \ {l}
  BY <1>2 DEF AtWork, At, Ip
<1>4. Pending(i)' \ {l} = Pending(i) \ {l}
  BY <1>2 DEF Pending
<1>5. Failing(i)' \ {l} = Failing(i) \ {l}
  BY <1>2 DEF Failing
<1>6. PastLook(i)' \ {l} = PastLook(i) \ {l}
  BY <1>2 DEF PastLook
<1>7. /\ l \in AtWork(i) <=> Works(login[l], i)
      /\ l \in AtWork(i)' <=> Works(next, i)
      /\ l \in Pending(i) <=> Pends(login[l], i)
      /\ l \in Pending(i)' <=> Pends(next, i)
      /\ l \in Failing(i) <=> Fails(login[l], i)
      /\ l \in Failing(i)' <=> Fails(next, i)
      /\ l \in PastLook(i) <=> MayGuess(login[l], i)
      /\ l \in PastLook(i)' <=> MayGuess(next, i)
  BY <1>2 DEF AtWork, Works, Pending, Failing, PastLook, At, Ip
<1>8. /\ IsFiniteSet(AtWork(i)')
      /\ Cardinality(AtWork(i)') + Bit(Works(login[l], i))
           = Cardinality(AtWork(i)) + Bit(Works(next, i))
  BY <1>1, <1>3, <1>7, OneMoves DEF Bit
<1>9. /\ IsFiniteSet(Pending(i)')
      /\ Cardinality(Pending(i)') + Bit(Pends(login[l], i))
           = Cardinality(Pending(i)) + Bit(Pends(next, i))
  BY <1>1, <1>4, <1>7, OneMoves DEF Bit
<1>10. /\ IsFiniteSet(Failing(i)')
       /\ Cardinality(Failing(i)') + Bit(Fails(login[l], i))
            = Cardinality(Failing(i)) + Bit(Fails(next, i))
  BY <1>1, <1>5, <1>7, OneMoves DEF Bit
<1>11. /\ IsFiniteSet(PastLook(i)')
       /\ Cardinality(PastLook(i)') + Bit(MayGuess(login[l], i))
            = Cardinality(PastLook(i)) + Bit(MayGuess(next, i))
  BY <1>1, <1>6, <1>7, OneMoves DEF Bit
<1> QED BY <1>8, <1>9, <1>10, <1>11, FS_CardinalityType DEF CountsMove

LEMMA GuessHas ==
  ASSUME AccessType, NEW i \in Addresses
  PROVE  /\ attempts[i] \in Nat /\ wrong[i] \in Nat /\ spent[i] \in Nat
         /\ locked[i] \in BOOLEAN
         /\ highest \in Nat /\ highest >= 1
         /\ AtOnce \in Nat /\ AtOnce >= 1
         /\ AtOnce * spent[i] \in Nat
<1>1. /\ attempts[i] \in Nat /\ wrong[i] \in Nat /\ spent[i] \in Nat
      /\ highest \in Nat \ {0} /\ AtOnce \in Nat \ {0}
      /\ locked[i] \in BOOLEAN
  BY AccessAssumption DEF AccessType
<1>2. \A m, n \in Nat : m * n \in Nat
  OBVIOUS
<1> QED BY <1>1, <1>2

(* A login that takes a step is at work at most where there was room.      *)
LEMMA LoginAtWork ==
  ASSUME AccessType, LimitsKnown, FewAtWork, NEW l \in Logins, NEW next \in Login,
         login' = [login EXCEPT ![l] = next], UNCHANGED <<stored, highest>>,
         next.step = "put" => next.limit <= highest,
         \A i \in Addresses : \/ Works(next, i) => Works(login[l], i)
                             \/ Cardinality(AtWork(i)) < AtOnce
  PROVE  LimitsKnown' /\ FewAtWork'
<1>1. LimitsKnown'
  BY DEF AccessType, LimitsKnown, At
<1>2. ASSUME NEW i \in Addresses
      PROVE  IsFiniteSet(AtWork(i)') /\ Cardinality(AtWork(i)') <= AtOnce
  <2>1. /\ IsFiniteSet(AtWork(i)') /\ Cardinality(AtWork(i)') \in Nat
        /\ Cardinality(AtWork(i)') + Bit(Works(login[l], i))
              = Cardinality(AtWork(i)) + Bit(Works(next, i))
    BY OneLoginMoves DEF CountsMove
  <2>2. Cardinality(AtWork(i)) \in Nat /\ Cardinality(AtWork(i)) <= AtOnce
    BY CountedSets DEF FewAtWork
  <2> QED BY <2>1, <2>2, GuessHas DEF Bit
<1> QED BY <1>1, <1>2 DEF FewAtWork

(* A step that leaves the counts alone, and does not pass a lock.          *)
LEMMA QuietStep ==
  ASSUME AccessType, GuessInv, NEW l \in Logins, NEW next \in Login,
         login' = [login EXCEPT ![l] = next],
         UNCHANGED <<stored, attempts, locked, wrong, spent, lost, highest>>,
         next.step = "put" => next.limit <= highest,
         \A i \in Addresses :
           /\ \/ Works(next, i) => Works(login[l], i)
              \/ Cardinality(AtWork(i)) < AtOnce
           /\ Pends(next, i) <=> Pends(login[l], i)
           /\ Fails(next, i) <=> Fails(login[l], i)
           /\ locked[i] /\ MayGuess(next, i) => MayGuess(login[l], i)
  PROVE  GuessInv'
<1> USE DEF GuessInv
<1>1. LimitsKnown' /\ FewAtWork'
  BY LoginAtWork
<1>2. ASSUME NEW i \in Addresses \ lost
      PROVE  /\ Cardinality(Pending(i)') = Cardinality(Pending(i))
             /\ Cardinality(Failing(i)') = Cardinality(Failing(i))
             /\ locked[i] => Cardinality(PastLook(i)') <= Cardinality(PastLook(i))
             /\ Cardinality(PastLook(i)') \in Nat
  <2>1. CountsMove(l, next, i)
    BY OneLoginMoves
  <2> QED BY <2>1, CountedSets DEF CountsMove, Bit
<1>3. GuessesCounted'
  BY <1>2 DEF GuessesCounted
<1>4. ASSUME NEW i \in Addresses \ lost
      PROVE  wrong[i] + (IF locked[i] THEN Cardinality(PastLook(i)') ELSE 0)
               <= (highest - 1) + AtOnce * spent[i]
                  + (IF locked[i] THEN AtOnce ELSE Cardinality(Failing(i)'))
  BY <1>2, GuessHas, CountedSets DEF LockedInTime
<1>5. LockedInTime'
  BY <1>4 DEF LockedInTime
<1> QED BY <1>1, <1>3, <1>5

(* A wrong guess, after the look at the lock or else set apart.            *)
LEMMA GuessStep ==
  ASSUME AccessType, GuessInv, NEW l \in Logins,
         At(l, "password") \/ At(l, "protect") \/ At(l, "guest"),
         Guess(l, FALSE), UNCHANGED <<stored, attempts, locked, spent, highest>>
  PROVE  GuessInv'
<1> USE DEF GuessInv
<1> DEFINE next == [login[l] EXCEPT !.step = "count"]
           here == login[l].ip
<1>1. /\ login[l] \in Login /\ here \in Addresses
      /\ next \in Login /\ next.step = "count" /\ next.ip = here
      /\ next.checked = login[l].checked
  BY LoginHas DEF Login
<1>2. /\ login' = [login EXCEPT ![l] = next]
      /\ lost' = IF login[l].checked THEN lost ELSE lost \cup {here}
      /\ wrong' = IF here \in lost' THEN wrong ELSE [wrong EXCEPT ![here] = @ + 1]
  BY DEF Guess, Goto, Ip
<1> HIDE DEF next, here
<1>3. LimitsKnown' /\ FewAtWork'
  BY <1>1, <1>2, LoginAtWork DEF Works, At, here
<1>4. ASSUME NEW i \in Addresses \ lost'
      PROVE  /\ i \in Addresses \ lost
             /\ wrong'[i] = wrong[i] + (IF i = here THEN 1 ELSE 0)
             /\ Cardinality(Pending(i)') = Cardinality(Pending(i)) + (IF i = here THEN 1 ELSE 0)
             /\ Cardinality(Failing(i)') = Cardinality(Failing(i)) + (IF i = here THEN 1 ELSE 0)
             /\ Cardinality(PastLook(i)') = Cardinality(PastLook(i)) - (IF i = here THEN 1 ELSE 0)
  <2>1. i \in Addresses \ lost /\ (i = here => login[l].checked)
    BY <1>2, <1>4
  <2>2. wrong'[i] = wrong[i] + (IF i = here THEN 1 ELSE 0)
    BY <1>1, <1>2, <1>4, GuessHas DEF AccessType
  <2>3. /\ Pends(next, i) <=> i = here
        /\ Fails(next, i) <=> i = here
        /\ ~MayGuess(next, i)
        /\ ~Pends(login[l], i) /\ ~Fails(login[l], i)
        /\ MayGuess(login[l], i) <=> i = here
    BY <1>1, <2>1 DEF Pends, Fails, MayGuess, At, here
  <2>4. CountsMove(l, next, i)
    BY <1>1, <1>2, OneLoginMoves
  <2> QED BY <2>1, <2>2, <2>3, <2>4, CountedSets DEF CountsMove, Bit
<1>5. GuessesCounted'
  <2> SUFFICES ASSUME NEW i \in Addresses \ lost'
               PROVE  wrong'[i] <= attempts[i] + Cardinality(Pending(i)')
    BY DEF GuessesCounted
  <2> QED BY <1>4, GuessHas, CountedSets DEF GuessesCounted
<1>6. LockedInTime'
  <2> SUFFICES ASSUME NEW i \in Addresses \ lost'
               PROVE  wrong'[i] + (IF locked[i] THEN Cardinality(PastLook(i)') ELSE 0)
                        <= (highest - 1) + AtOnce * spent[i]
                           + (IF locked[i] THEN AtOnce ELSE Cardinality(Failing(i)'))
    BY DEF LockedInTime
  <2> QED BY <1>4, GuessHas, CountedSets DEF LockedInTime
<1> QED BY <1>3, <1>5, <1>6

(* A count that is cleared, by a login that got in or by time.             *)
LEMMA ForgottenStep ==
  ASSUME AccessType, GuessInv, LimitsKnown', FewAtWork', NEW i \in Addresses, Forgets(i),
         UNCHANGED <<locked, lost, highest>>,
         \A j \in Addresses :
           /\ Cardinality(Pending(j)') = Cardinality(Pending(j))
           /\ Cardinality(Failing(j)') = Cardinality(Failing(j))
           /\ Cardinality(PastLook(j)') = Cardinality(PastLook(j))
  PROVE  GuessInv'
<1> USE DEF GuessInv
<1>1. ASSUME NEW j \in Addresses
      PROVE  /\ wrong'[j] = IF i = j THEN 0 ELSE wrong[j]
             /\ attempts'[j] = IF i = j THEN 0 ELSE attempts[j]
             /\ spent'[j] = IF i = j THEN 0 ELSE spent[j]
  BY DEF Forgets, AccessType
<1>2. ASSUME NEW j \in Addresses \ lost
      PROVE  wrong'[j] <= attempts'[j] + Cardinality(Pending(j)')
  BY <1>1, GuessHas, CountedSets DEF GuessesCounted
<1>3. ASSUME NEW j \in Addresses \ lost
      PROVE  wrong'[j] + (IF locked[j] THEN Cardinality(PastLook(j)') ELSE 0)
               <= (highest - 1) + AtOnce * spent'[j]
                  + (IF locked[j] THEN AtOnce ELSE Cardinality(Failing(j)'))
  <2>1. CASE i = j
    <3>1. wrong'[j] = 0 /\ AtOnce * spent'[j] = 0
      BY <1>1, <2>1, GuessHas
    <3>2. Cardinality(PastLook(j)) <= AtOnce
      BY CountedSets, GuessHas DEF FewAtWork
    <3> QED BY <3>1, <3>2, GuessHas, CountedSets
  <2>2. CASE i # j
    BY <1>1, <2>2, GuessHas, CountedSets DEF LockedInTime
  <2> QED BY <2>1, <2>2
<1>4. GuessesCounted' /\ LockedInTime'
  BY <1>2, <1>3 DEF GuessesCounted, LockedInTime
<1> QED BY <1>4

LEMMA ClearStep ==
  ASSUME AccessType, GuessInv, NEW l \in Logins, ClearFailedAttempts(l)
  PROVE  GuessInv'
<1> DEFINE next == Idle(Ip(l))
<1>1. next \in Login /\ next.step = "idle" /\ Ip(l) \in Addresses
  BY LoginHas DEF Idle
<1>2. /\ login' = [login EXCEPT ![l] = next] /\ login[l].step = "clear"
      /\ Forgets(Ip(l)) /\ UNCHANGED <<stored, locked, lost, highest>>
  BY DEF ClearFailedAttempts, Answered, At
<1> HIDE DEF next
<1>3. LimitsKnown' /\ FewAtWork'
  BY <1>1, <1>2, LoginAtWork DEF Works, GuessInv
<1>4. ASSUME NEW j \in Addresses
      PROVE  /\ Cardinality(Pending(j)') = Cardinality(Pending(j))
             /\ Cardinality(Failing(j)') = Cardinality(Failing(j))
             /\ Cardinality(PastLook(j)') = Cardinality(PastLook(j))
  <2>1. CountsMove(l, next, j)
    BY <1>1, <1>2, OneLoginMoves DEF GuessInv
  <2>2. /\ ~Pends(next, j) /\ ~Fails(next, j) /\ ~MayGuess(next, j)
        /\ ~Pends(login[l], j) /\ ~Fails(login[l], j) /\ ~MayGuess(login[l], j)
    BY <1>1, <1>2 DEF Pends, Fails, MayGuess
  <2> QED BY <2>1, <2>2, CountedSets DEF CountsMove, Bit, GuessInv
<1> QED BY <1>1, <1>2, <1>3, <1>4, ForgottenStep

(* The count is written: one fewer is pending, and who reaches the limit   *)
(* goes on to the lock.  A count that undoes another sets the address apart*)
LEMMA PutCountStep ==
  ASSUME AccessType, GuessInv, NEW l \in Logins, PutCount(l)
  PROVE  GuessInv'
<1> USE DEF GuessInv
<1> DEFINE here == Ip(l)
           n == login[l].count
           next == IF Goto(l, "putLock") THEN [login[l] EXCEPT !.step = "putLock"]
                   ELSE Idle(here)
<1>0. /\ login[l] \in Login /\ here \in Addresses /\ n \in Nat /\ login[l].step = "put"
      /\ login[l].ip = here /\ login[l].limit \in Nat /\ login[l].limit <= highest
  BY LoginHas, AccessAssumption DEF PutCount, At, Ip, LimitsKnown
<1>1. /\ next \in Login /\ next.ip = here
      /\ next.step = IF Goto(l, "putLock") THEN "putLock" ELSE "idle"
  BY <1>0, LoginHas DEF Login, Idle
<1>2. /\ login' = [login EXCEPT ![l] = next]
      /\ UNCHANGED <<stored, locked, wrong, spent, highest>>
  BY DEF PutCount, Goto, Answered
<1>3. ASSUME here \notin lost'
      PROVE  /\ lost' = lost
             /\ attempts' = [attempts EXCEPT ![here] = n]
             /\ attempts[here] < n
             /\ n >= highest => next.step = "putLock"
  <2>1. /\ attempts' = [attempts EXCEPT ![here] = n]
        /\ lost' = IF attempts[here] >= n THEN lost \cup {here} ELSE lost
        /\ IF n >= login[l].limit THEN Goto(l, "putLock") ELSE Answered(l)
    BY <1>3 DEF PutCount
  <2> QED BY <1>0, <1>1, <1>3, <2>1, GuessHas
<1>4. lost \subseteq lost' /\ lost' \subseteq lost \cup {here}
  BY DEF PutCount
<1>5. \A i \in Addresses \ {here} : attempts'[i] = attempts[i]
  BY <1>0 DEF PutCount, AccessType
<1> HIDE DEF next, here, n
<1>6. LimitsKnown' /\ FewAtWork'
  BY <1>0, <1>1, <1>2, LoginAtWork DEF Works
<1>7. ASSUME NEW i \in Addresses
      PROVE  /\ Cardinality(Pending(i)') = Cardinality(Pending(i)) - (IF i = here THEN 1 ELSE 0)
             /\ Cardinality(Failing(i)') = Cardinality(Failing(i))
                  - (IF i = here /\ next.step = "idle" THEN 1 ELSE 0)
             /\ Cardinality(PastLook(i)') = Cardinality(PastLook(i))
  <2>1. CountsMove(l, next, i)
    BY <1>1, <1>2, OneLoginMoves
  <2>2. /\ ~Pends(next, i) /\ ~MayGuess(next, i) /\ ~MayGuess(login[l], i)
        /\ Fails(next, i) <=> i = here /\ next.step # "idle"
        /\ Pends(login[l], i) <=> i = here
        /\ Fails(login[l], i) <=> i = here
    BY <1>0, <1>1 DEF Pends, Fails, MayGuess
  <2>3. CASE i = here
    BY <2>1, <2>2, <2>3, CountedSets DEF CountsMove, Bit
  <2>4. CASE i # here
    BY <2>1, <2>2, <2>4, CountedSets DEF CountsMove, Bit
  <2> QED BY <2>3, <2>4
<1>8. GuessesCounted'
  <2> SUFFICES ASSUME NEW i \in Addresses \ lost'
               PROVE  wrong[i] <= attempts'[i] + Cardinality(Pending(i)')
    BY <1>2 DEF GuessesCounted
  <2>1. wrong[i] <= attempts[i] + Cardinality(Pending(i))
    BY <1>4 DEF GuessesCounted
  <2>2. CASE i = here
    <3>1. attempts'[i] \in Nat /\ attempts'[i] >= attempts[i] + 1
      BY <1>0, <1>3, <2>2, GuessHas DEF AccessType
    <3> QED BY <1>7, <2>1, <2>2, <3>1, GuessHas, CountedSets
  <2>3. CASE i # here
    BY <1>5, <1>7, <2>1, <2>3, GuessHas, CountedSets
  <2> QED BY <2>2, <2>3
<1>9. LockedInTime'
  <2> SUFFICES ASSUME NEW i \in Addresses \ lost'
               PROVE  wrong[i] + (IF locked[i] THEN Cardinality(PastLook(i)') ELSE 0)
                        <= (highest - 1) + AtOnce * spent[i]
                           + (IF locked[i] THEN AtOnce ELSE Cardinality(Failing(i)'))
    BY <1>2 DEF LockedInTime
  <2>1. wrong[i] + (IF locked[i] THEN Cardinality(PastLook(i)) ELSE 0)
          <= (highest - 1) + AtOnce * spent[i]
             + (IF locked[i] THEN AtOnce ELSE Cardinality(Failing(i)))
    BY <1>4 DEF LockedInTime
  <2>2. CASE locked[i] \/ i # here \/ next.step # "idle"
    BY <1>7, <2>1, <2>2, GuessHas, CountedSets
  <2>3. CASE ~locked[i] /\ i = here /\ next.step = "idle"
    <3>1. n < highest /\ attempts'[i] = n
      BY <1>0, <1>3, <2>3, GuessHas DEF AccessType
    <3>2. wrong[i] <= n + Cardinality(Pending(i)')
      BY <1>2, <1>8, <3>1 DEF GuessesCounted
    <3>3. Cardinality(Pending(i)') <= Cardinality(Failing(i)')
      BY <1>7, <2>3, CountedSets
    <3> QED BY <1>0, <1>7, <2>3, <3>1, <3>2, <3>3, GuessHas, CountedSets
  <2> QED BY <2>2, <2>3
<1> QED BY <1>6, <1>8, <1>9

(* The lock is written: those past the look at it are as many as there was *)
(* room for beside those on their way to it.                               *)
LEMMA PutLockStep ==
  ASSUME AccessType, GuessInv, NEW l \in Logins, PutLock(l)
  PROVE  GuessInv'
<1> USE DEF GuessInv
<1> DEFINE here == Ip(l)
           next == Idle(here)
<1>0. /\ login[l].step = "putLock" /\ login[l].ip = here /\ here \in Addresses
      /\ next \in Login /\ next.ip = here /\ next.step = "idle"
  BY LoginHas DEF PutLock, At, Ip, Idle
<1>1. /\ login' = [login EXCEPT ![l] = next]
      /\ UNCHANGED <<stored, attempts, wrong, spent, highest>>
      /\ \/ locked' = [locked EXCEPT ![here] = TRUE] /\ lost' = lost
         \/ locked' = locked /\ lost' = lost \cup {here}
  BY DEF PutLock, Answered
<1> HIDE DEF next, here
<1>2. LimitsKnown' /\ FewAtWork'
  BY <1>0, <1>1, LoginAtWork DEF Works
<1>3. ASSUME NEW i \in Addresses
      PROVE  /\ Cardinality(Pending(i)') = Cardinality(Pending(i))
             /\ Cardinality(Failing(i)') = Cardinality(Failing(i)) - (IF i = here THEN 1 ELSE 0)
             /\ Cardinality(PastLook(i)') = Cardinality(PastLook(i))
  <2>1. CountsMove(l, next, i)
    BY <1>0, <1>1, OneLoginMoves
  <2>2. /\ ~Pends(next, i) /\ ~MayGuess(next, i) /\ ~MayGuess(login[l], i)
        /\ ~Fails(next, i) /\ ~Pends(login[l], i)
        /\ Fails(login[l], i) <=> i = here
    BY <1>0 DEF Pends, Fails, MayGuess
  <2> QED BY <2>1, <2>2, CountedSets DEF CountsMove, Bit
<1>4. GuessesCounted'
  BY <1>1, <1>3 DEF GuessesCounted
<1>5. LockedInTime'
  <2> SUFFICES ASSUME NEW i \in Addresses \ lost'
               PROVE  wrong[i] + (IF locked'[i] THEN Cardinality(PastLook(i)') ELSE 0)
                        <= (highest - 1) + AtOnce * spent[i]
                           + (IF locked'[i] THEN AtOnce ELSE Cardinality(Failing(i)'))
    BY <1>1 DEF LockedInTime
  <2>1. /\ i \in Addresses \ lost
        /\ wrong[i] + (IF locked[i] THEN Cardinality(PastLook(i)) ELSE 0)
             <= (highest - 1) + AtOnce * spent[i]
                + (IF locked[i] THEN AtOnce ELSE Cardinality(Failing(i)))
    BY <1>1 DEF LockedInTime
  <2>2. CASE i = here
    <3>1. locked'[i] = TRUE
      BY <1>0, <1>1, <2>2 DEF AccessType
    <3>2. Cardinality(PastLook(i)) + Cardinality(Failing(i)) <= AtOnce
      BY CountedSets, GuessHas DEF FewAtWork
    <3> QED BY <1>3, <2>1, <3>1, <3>2, GuessHas, CountedSets
  <2>3. CASE i # here
    <3>1. locked'[i] = locked[i]
      BY <1>1, <2>3 DEF AccessType
    <3> QED BY <1>3, <2>1, <2>3, <3>1, GuessHas, CountedSets
  <2> QED BY <2>2, <2>3
<1> QED BY <1>2, <1>4, <1>5

LEMMA LoginGuesses ==
  ASSUME AccessType, GuessInv, NEW l \in Logins, LoginNext(l)
  PROVE  GuessInv'
<1> DEFINE Quiet(next) ==
             /\ login' = [login EXCEPT ![l] = next]
             /\ next.step = "put" => next.limit <= highest
             /\ \A i \in Addresses :
                  /\ \/ Works(next, i) => Works(login[l], i)
                     \/ Cardinality(AtWork(i)) < AtOnce
                  /\ Pends(next, i) <=> Pends(login[l], i)
                  /\ Fails(next, i) <=> Fails(login[l], i)
                  /\ locked[i] /\ MayGuess(next, i) => MayGuess(login[l], i)
<1>0. /\ login[l] \in Login /\ Idle(Ip(l)) \in Login
      /\ Idle(Ip(l)).step = "idle"
  BY LoginHas DEF Idle
<1>1. ASSUME NEW next \in Login, Quiet(next), UNCHANGED <<stored, cache, counts, highest>>
      PROVE  GuessInv'
  BY <1>1, QuietStep DEF cache, counts
<1>2. ASSUME Answered(l), login[l].step \notin {"count", "put", "putLock"},
             UNCHANGED <<stored, cache, counts, highest>>
      PROVE  GuessInv'
  <2>1. Quiet(Idle(Ip(l)))
    BY <1>0, <1>2 DEF Answered, Works, Pends, Fails, MayGuess
  <2> QED BY <1>0, <1>1, <1>2, <2>1
<1>3. ASSUME NEW step \in {"name", "allow", "protect", "guest", "token", "clear"},
             Goto(l, step), UNCHANGED <<stored, cache, counts, highest>>,
             login[l].step \in {"lock", "password", "allow", "protect", "guest", "token"},
             step \in {"token", "clear"} \/ login[l].step # "lock" \/ ~locked[Ip(l)],
             login[l].step = "token" => step = "clear"
      PROVE  GuessInv'
  <2> DEFINE next == [login[l] EXCEPT !.step = step]
  <2>1. /\ next \in Login /\ next.step = step /\ next.ip = login[l].ip
        /\ next.checked = login[l].checked
    BY <1>0 DEF Login
  <2>2. login' = [login EXCEPT ![l] = next]
    BY <1>3 DEF Goto
  <2> HIDE DEF next
  <2>3. Quiet(next)
    BY <1>3, <2>1, <2>2 DEF Works, Pends, Fails, MayGuess, Ip
  <2> QED BY <1>1, <1>3, <2>1, <2>3
<1>4. ASSUME NEW i \in Addresses, NEW admin \in BOOLEAN, Begin(l, i, admin)
      PROVE  GuessInv'
  <2>1. PICK protect \in BOOLEAN :
          login' = [login EXCEPT ![l] =
            [Idle(i) EXCEPT !.admin = admin, !.checked = admin \/ protect,
                            !.step = IF admin \/ protect THEN "lock" ELSE "allow"]]
    BY <1>4 DEF Begin, Read, AccessType, Settings
  <2> DEFINE next == [Idle(i) EXCEPT !.admin = admin, !.checked = admin \/ protect,
                                     !.step = IF admin \/ protect THEN "lock" ELSE "allow"]
  <2>2. /\ next \in Login /\ next.ip = i /\ next.checked = (admin \/ protect)
        /\ next.step = IF admin \/ protect THEN "lock" ELSE "allow"
    BY AccessAssumption DEF Idle, Login
  <2>3. login' = [login EXCEPT ![l] = next]
    BY <2>1
  <2> HIDE DEF next
  <2>4. Quiet(next)
    BY <1>4, <2>2, <2>3 DEF Begin, At, Works, Pends, Fails, MayGuess
  <2> QED BY <1>1, <1>4, <2>2, <2>4 DEF Begin
<1>5. CASE CheckLock(l)
  <2>1. login[l].step = "lock" /\ UNCHANGED <<stored, cache, counts, highest>>
    BY <1>5 DEF CheckLock, At
  <2>2. \/ Answered(l)
        \/ ~locked[Ip(l)] /\ \E step \in {"name", "allow"} : Goto(l, step)
    BY <1>5 DEF CheckLock, AfterLock
  <2> QED BY <1>2, <1>3, <2>1, <2>2
<1>6. CASE ReadName(l)
  <2>1. PICK right \in BOOLEAN :
          login' = [login EXCEPT ![l].step = "password", ![l].named = right]
    BY <1>6 DEF ReadName
  <2> DEFINE next == [login[l] EXCEPT !.step = "password", !.named = right]
  <2>2. /\ next \in Login /\ next.step = "password" /\ next.ip = login[l].ip
        /\ next.checked = login[l].checked
    BY <1>0 DEF Login
  <2>3. login' = [login EXCEPT ![l] = next]
    BY <2>1
  <2> HIDE DEF next
  <2>4. Quiet(next)
    BY <1>6, <2>2, <2>3 DEF ReadName, At, Works, Pends, Fails, MayGuess
  <2> QED BY <1>1, <1>6, <2>2, <2>4 DEF ReadName
<1>7. CASE ReadAllow(l)
  <2>1. login[l].step = "allow" /\ UNCHANGED <<stored, cache, counts, highest>>
    BY <1>7 DEF ReadAllow, At
  <2>2. Answered(l) \/ Goto(l, "protect")
    BY <1>7 DEF ReadAllow
  <2> QED BY <1>2, <1>3, <2>1, <2>2
<1>8. CASE MakeToken(l)
  <2>1. login[l].step = "token" /\ UNCHANGED <<stored, cache, counts, highest>>
    BY <1>8 DEF MakeToken, At
  <2>2. Answered(l) \/ Goto(l, "clear")
    BY <1>8 DEF MakeToken
  <2> QED BY <1>2, <1>3, <2>1, <2>2
<1>9. CASE ReadPassword(l) \/ ReadProtect(l) \/ ReadGuestPassword(l)
  <2>1. /\ login[l].step \in {"password", "protect", "guest"}
        /\ UNCHANGED <<stored, cache, spent, highest>>
    BY <1>9 DEF ReadPassword, ReadProtect, ReadGuestPassword, At
  <2>2. \/ Guess(l, FALSE)
        \/ /\ Answered(l) \/ \E step \in {"guest", "token"} : Goto(l, step)
           /\ UNCHANGED <<wrong, lost>>
    BY <1>9, <1>0 DEF ReadPassword, ReadProtect, ReadGuestPassword, Guess, Login
  <2>3. CASE Guess(l, FALSE)
    BY <2>1, <2>3, GuessStep DEF cache, At
  <2>4. CASE /\ Answered(l) \/ \E step \in {"guest", "token"} : Goto(l, step)
             /\ UNCHANGED <<wrong, lost>>
    BY <1>2, <1>3, <2>1, <2>4 DEF counts
  <2> QED BY <2>2, <2>3, <2>4
<1>10. CASE ReadCount(l)
  <2>1. PICK limit \in {stored.limit, DefaultLimit} :
          login' = [login EXCEPT ![l].step = "put", ![l].limit = limit,
                                 ![l].count = attempts[Ip(l)] + 1]
    BY <1>10 DEF ReadCount
  <2> DEFINE next == [login[l] EXCEPT !.step = "put", !.limit = limit,
                                      !.count = attempts[Ip(l)] + 1]
  <2>2. /\ next \in Login /\ next.step = "put" /\ next.ip = login[l].ip
        /\ next.checked = login[l].checked /\ next.limit = limit
    <3>1. attempts[Ip(l)] + 1 \in Nat /\ limit \in Limits
      BY LoginHas, AccessAssumption DEF AccessType, Settings
    <3> QED BY <1>0, <3>1 DEF Login
  <2>3. login' = [login EXCEPT ![l] = next]
    BY <2>1
  <2> HIDE DEF next
  <2>4. Quiet(next)
    <3>1. limit <= highest
      BY DEF GuessInv, LimitsKnown
    <3> QED BY <1>10, <2>2, <2>3, <3>1 DEF ReadCount, At, Works, Pends, Fails, MayGuess
  <2> QED BY <1>1, <1>10, <2>2, <2>4 DEF ReadCount
<1> QED BY <1>4, <1>5, <1>6, <1>7, <1>8, <1>9, <1>10, ClearStep, PutCountStep, PutLockStep
       DEF LoginNext

(* Settings that change leave the counts alone, and a higher limit only    *)
(* makes room.                                                             *)
LEMMA LimitStep ==
  ASSUME AccessType, GuessInv, UNCHANGED <<login, cache, counts>>,
         highest' \in Limits, highest' >= highest, stored'.limit <= highest'
  PROVE  GuessInv'
<1> USE DEF GuessInv
<1>1. /\ highest \in Nat /\ highest' \in Nat /\ DefaultLimit \in Nat
      /\ \A l \in Logins : login[l].limit \in Nat
  BY AccessAssumption, LoginHas DEF AccessType
<1>2. LimitsKnown'
  BY <1>1 DEF LimitsKnown, At
<1>3. \A i \in Addresses : /\ AtWork(i)' = AtWork(i) /\ Pending(i)' = Pending(i)
                          /\ Failing(i)' = Failing(i) /\ PastLook(i)' = PastLook(i)
  BY DEF AtWork, At, Ip, Pending, Failing, PastLook
<1>4. FewAtWork' /\ GuessesCounted'
  BY <1>3 DEF FewAtWork, GuessesCounted, cache, counts
<1>5. ASSUME NEW i \in Addresses \ lost
      PROVE  wrong[i] + (IF locked[i] THEN Cardinality(PastLook(i)) ELSE 0)
               <= (highest' - 1) + AtOnce * spent[i]
                  + (IF locked[i] THEN AtOnce ELSE Cardinality(Failing(i)))
  BY <1>1, GuessHas, CountedSets DEF LockedInTime
<1>6. LockedInTime'
  BY <1>3, <1>5 DEF LockedInTime, cache, counts
<1> QED BY <1>2, <1>4, <1>6

LEMMA ChangeGuesses ==
  ASSUME AccessType, GuessInv, NEW x \in Changes, ChangeNext(x)
  PROVE  GuessInv'
<1>1. UNCHANGED <<login, cache, counts>>
  BY DEF ChangeNext, BeginChange, ChangeFails, WriteAllow, WriteProtect, WriteLimit,
     WriteGuestPassword, WriteCredentials, SetValue
<1>2. \/ stored'.limit = stored.limit /\ highest' = highest
      \/ /\ stored'.limit \in {stored.limit, change[x].set.limit}
         /\ highest' = IF stored'.limit > highest THEN stored'.limit ELSE highest
  BY DEF ChangeNext, BeginChange, ChangeFails, WriteAllow, WriteProtect, WriteLimit,
     WriteGuestPassword, WriteCredentials, SetValue, AccessType, Settings
<1>3. /\ change[x].set.limit \in Limits /\ highest \in Limits
      /\ change[x].set.limit \in Nat /\ highest \in Nat
      /\ stored.limit \in Limits /\ stored.limit \in Nat /\ stored.limit <= highest
  BY ChangeHas, AccessAssumption DEF Settings, AccessType, GuessInv, LimitsKnown
<1>4. highest' \in Limits /\ highest' >= highest /\ stored'.limit <= highest'
  <2>1. CASE stored'.limit = stored.limit /\ highest' = highest
    BY <1>3, <2>1
  <2>2. CASE /\ stored'.limit \in {stored.limit, change[x].set.limit}
             /\ highest' = IF stored'.limit > highest THEN stored'.limit ELSE highest
    <3> QED BY <1>3, <2>2
  <2> QED BY <1>2, <2>1, <2>2
<1> QED BY <1>1, <1>4, LimitStep

(* A lock that ends lets as many guess as may be at work at once.          *)
LEMMA LockExpiresStep ==
  ASSUME AccessType, GuessInv, NEW i \in Addresses, LockExpires(i)
  PROVE  GuessInv'
<1> USE DEF GuessInv
<1>1. /\ locked[i] /\ UNCHANGED <<stored, login, attempts, wrong, lost, highest>>
      /\ locked' = [locked EXCEPT ![i] = FALSE]
      /\ spent' = [spent EXCEPT ![i] = @ + 1]
  BY DEF LockExpires
<1>2. \A j \in Addresses : /\ AtWork(j)' = AtWork(j) /\ Pending(j)' = Pending(j)
                          /\ Failing(j)' = Failing(j) /\ PastLook(j)' = PastLook(j)
  BY <1>1 DEF AtWork, At, Ip, Pending, Failing, PastLook
<1>3. LimitsKnown' /\ FewAtWork' /\ GuessesCounted'
  BY <1>1, <1>2 DEF LimitsKnown, At, FewAtWork, GuessesCounted
<1>4. ASSUME NEW j \in Addresses \ lost
      PROVE  wrong[j] + (IF locked'[j] THEN Cardinality(PastLook(j)) ELSE 0)
               <= (highest - 1) + AtOnce * spent'[j]
                  + (IF locked'[j] THEN AtOnce ELSE Cardinality(Failing(j)))
  <2>1. CASE i = j
    <3>1. locked'[j] = FALSE /\ spent'[j] = spent[j] + 1
      BY <1>1, <2>1 DEF AccessType
    <3>2. AtOnce * spent'[j] = AtOnce * spent[j] + AtOnce
      BY <3>1, GuessHas
    <3>3. wrong[j] + Cardinality(PastLook(j)) <= (highest - 1) + AtOnce * spent[j] + AtOnce
      BY <1>1, <2>1 DEF LockedInTime
    <3> QED BY <3>1, <3>2, <3>3, GuessHas, CountedSets
  <2>2. CASE i # j
    <3>1. locked'[j] = locked[j] /\ spent'[j] = spent[j]
      BY <1>1, <2>2 DEF AccessType
    <3> QED BY <3>1 DEF LockedInTime
  <2> QED BY <2>1, <2>2
<1>5. LockedInTime'
  BY <1>1, <1>2, <1>4 DEF LockedInTime
<1> QED BY <1>3, <1>5

LEMMA GuessStepInv ==
  ASSUME AccessType, GuessInv, [AccessNext]_accessVars PROVE GuessInv'
<1>1. ASSUME NEW x \in Changes, ChangeNext(x) PROVE GuessInv'
  BY <1>1, ChangeGuesses
<1>2. CASE GenerateAdmin \/ UNCHANGED accessVars
  <2>1. /\ UNCHANGED <<login, cache, counts>> /\ highest' = highest
        /\ stored'.limit = stored.limit
    BY <1>2 DEF GenerateAdmin, accessVars, AccessType, Settings
  <2>2. highest \in Limits /\ highest \in Nat /\ stored.limit <= highest
    BY AccessAssumption DEF AccessType, GuessInv, LimitsKnown
  <2> QED BY <2>1, <2>2, LimitStep
<1>3. ASSUME NEW i \in Addresses, CountExpires(i) PROVE GuessInv'
  <2>1. Forgets(i) /\ UNCHANGED <<stored, login, locked, lost, highest>>
    BY <1>3 DEF CountExpires
  <2>2. \A j \in Addresses : /\ AtWork(j)' = AtWork(j) /\ Pending(j)' = Pending(j)
                            /\ Failing(j)' = Failing(j) /\ PastLook(j)' = PastLook(j)
    BY <2>1 DEF AtWork, At, Ip, Pending, Failing, PastLook
  <2>3. LimitsKnown' /\ FewAtWork'
    BY <2>1, <2>2 DEF GuessInv, LimitsKnown, At, FewAtWork
  <2> QED BY <2>1, <2>2, <2>3, ForgottenStep
<1> QED BY <1>1, <1>2, <1>3, LoginGuesses, LockExpiresStep DEF AccessNext

(***************************************************************************)
(* An address guesses wrong at most as often as the limit says, and AtOnce *)
(* less one times beyond it, and AtOnce times more for each lock that      *)
(* ended before the count did: for any number of logins, any limits and    *)
(* any change of them, unless a failure of the address was not counted.    *)
(***************************************************************************)
THEOREM GuessesBounded == AccessSpec => []GuessesAreBounded
<1>1. AccessInit => GuessInv
  <2> SUFFICES ASSUME AccessInit PROVE GuessInv
    OBVIOUS
  <2>1. \A l \in Logins : login[l].step = "idle"
    BY DEF AccessInit, Idle
  <2>2. /\ stored.limit = DefaultLimit /\ highest = DefaultLimit /\ lost = {}
        /\ DefaultLimit \in Nat \ {0} /\ AtOnce \in Nat
    <3>1. Unset.limit = DefaultLimit /\ Seeded.limit = DefaultLimit
      BY DEF Unset, Seeded
    <3>2. stored = Unset \/ stored = Seeded
      BY DEF AccessInit
    <3>3. highest = DefaultLimit /\ lost = {}
      BY DEF AccessInit
    <3>4. DefaultLimit \in Nat \ {0} /\ AtOnce \in Nat
      BY AccessAssumption
    <3> QED BY <3>1, <3>2, <3>3, <3>4
  <2>3. \A i \in Addresses : /\ AtWork(i) = {} /\ Pending(i) = {} /\ Failing(i) = {}
                            /\ wrong[i] = 0 /\ attempts[i] = 0 /\ spent[i] = 0
                            /\ locked[i] = FALSE
    BY <2>1 DEF AccessInit, AtWork, At, Pending, Failing, Pends, Fails
  <2>4. LimitsKnown
    BY <2>1, <2>2 DEF LimitsKnown, At
  <2>5. FewAtWork /\ GuessesCounted
    BY <2>2, <2>3, FS_EmptySet DEF FewAtWork, GuessesCounted
  <2>6. LockedInTime
    <3> SUFFICES ASSUME NEW i \in Addresses
                 PROVE  0 <= (highest - 1) + AtOnce * 0 + 0
      BY <2>3, FS_EmptySet DEF LockedInTime
    <3> QED BY <2>2
  <2> QED BY <2>4, <2>5, <2>6 DEF GuessInv
<1>2. AccessType /\ GuessInv => GuessesAreBounded
  <2> SUFFICES ASSUME AccessType, GuessInv, NEW i \in Addresses \ lost
               PROVE  wrong[i] <= highest + (AtOnce - 1) + AtOnce * spent[i]
    BY DEF GuessesAreBounded
  <2>1. /\ Cardinality(Failing(i)) <= AtOnce /\ Cardinality(Failing(i)) \in Nat
        /\ Cardinality(PastLook(i)) \in Nat
    BY CountedSets, GuessHas DEF GuessInv, FewAtWork
  <2> QED BY <2>1, GuessHas DEF GuessInv, LockedInTime
<1>3. AccessType /\ GuessInv /\ [AccessNext]_accessVars => GuessInv'
  BY GuessStepInv
<1> QED BY <1>1, <1>2, <1>3, AccessTypeCorrect, PTL DEF AccessSpec
============================================================================
