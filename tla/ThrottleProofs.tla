--------------------------- MODULE ThrottleProofs ---------------------------
(* Proofs about Throttle, for any number of accounts, attempts and addresses and for *)
(* any thresholds and windows.                                                       *)
EXTENDS Throttle, FiniteSetTheorems, TLAPS

-----------------------------------------------------------------------------
(* Type correctness *)

LogInv == log \in [Source -> [Times -> Nat]]

AccountsInv ==
    /\ now \in Times
    /\ accounts \in [User -> Account]
    /\ \A u \in User : \A t \in accounts[u].last : t <= now
    /\ streak \in [User -> Nat] /\ failed \in [User -> Nat] /\ torn \subseteq User

AttemptsInv ==
    /\ pc \in [Attempt -> {"idle", "verify", "hash"}]
    /\ target \in [Attempt -> User \cup {Nobody}]
    /\ row \in [Attempt -> SUBSET Row]
    /\ \A r \in Attempt : row[r] # {} <=> pc[r] # "idle" /\ target[r] # Nobody
    /\ \A r \in Attempt : pc[r] = "hash" => target[r] \in User

TypeInv ==
    /\ LogInv /\ AccountsInv /\ AttemptsInv
    /\ begun \in 0 .. MaxAttempts /\ faults \in FaultSets

LEMMA ConstantsAreNat ==
    /\ LockAt \in Nat \ {0} /\ Cap \in Nat \ {0} /\ Window \in Nat \ {0}
    /\ MaxTime \in Nat /\ MaxAttempts \in Nat /\ Nobody \notin User
    /\ From \in [Attempt -> Source]
BY ThrottleAssumption

\* The table of attempts keeps its type whatever is recorded.
LEMMA LogTyped ==
    ASSUME LogInv, now \in Times,
           RecordSuccess \/ (\E s \in Source : RecordFailedAttempt(s)) \/ UNCHANGED log
    PROVE  LogInv'
<1>1. ASSUME NEW table \in [Source -> [Times -> Nat]]
      PROVE  Pruned(table) \in [Source -> [Times -> Nat]]
  BY <1>1 DEF Pruned
<1>2. ASSUME NEW s \in Source PROVE [log EXCEPT ![s][now] = @ + 1] \in [Source -> [Times -> Nat]]
  <2>1. log[s] \in [Times -> Nat] /\ log[s][now] + 1 \in Nat
    BY DEF LogInv
  <2>2. [log[s] EXCEPT ![now] = @ + 1] \in [Times -> Nat]
    BY <2>1
  <2> QED
    BY <2>2 DEF LogInv
<1>3. CASE UNCHANGED log
  BY <1>3 DEF LogInv
<1>4. CASE RecordSuccess
  BY <1>1, <1>4 DEF LogInv, RecordSuccess
<1>5. ASSUME NEW s \in Source, RecordFailedAttempt(s) PROVE LogInv'
  <2> DEFINE table == [log EXCEPT ![s][now] = @ + 1]
  <2>1. table \in [Source -> [Times -> Nat]]
    BY <1>2
  <2>2. log' = Pruned(table)
    BY <1>5 DEF RecordFailedAttempt
  <2> HIDE DEF table
  <2> QED
    BY <1>1, <2>1, <2>2 DEF LogInv
<1> QED
  BY <1>3, <1>4, <1>5

LEMMA OverTyped ==
    ASSUME AttemptsInv, NEW r \in Attempt, Over(r)
    PROVE  /\ AttemptsInv'
           /\ pc'[r] = "idle" /\ row'[r] = {}
           /\ \A q \in Attempt \ {r} : pc'[q] = pc[q] /\ target'[q] = target[q] /\ row'[q] = row[q]
BY DEF AttemptsInv, Over

LEMMA AccountStateTyped ==
    ASSUME NEW account \in Account
    PROVE  AccountLockState(account) \in Row
BY DEF AccountLockState, Account, Row, Locked

LEMMA ClearedTyped ==
    ASSUME NEW account \in Account
    PROVE  /\ Cleared(account) \in Account
           /\ Cleared(account).count = 0 /\ Cleared(account).last = {}
           /\ Cleared(account).until = 0
           /\ Cleared(account).lifetime = account.lifetime
           /\ Cleared(account).active = account.active
BY DEF Cleared, Account

LEMMA WithActiveTyped ==
    ASSUME NEW account \in Account, NEW active \in BOOLEAN
    PROVE  /\ WithActive(account, active) \in Account
           /\ WithActive(account, active).count = 0 /\ WithActive(account, active).last = {}
           /\ WithActive(account, active).until = 0
           /\ WithActive(account, active).lifetime = IF active THEN 0 ELSE account.lifetime
           /\ WithActive(account, active).active = active
BY ClearedTyped DEF WithActive, Cleared, Account

LEMMA CountedTyped ==
    ASSUME NEW account \in Account, NEW prior \in Nat, now \in Times
    PROVE  /\ Counted(account, prior) \in Account
           /\ Counted(account, prior).count = prior + 1
           /\ Counted(account, prior).last = {now}
           /\ Counted(account, prior).until
                = IF prior + 1 >= LockAt THEN now + Window ELSE account.until
           /\ Counted(account, prior).lifetime = account.lifetime + 1
           /\ Counted(account, prior).active = account.active
<1> DEFINE count == prior + 1
           lifetime == account.lifetime + 1
           until == IF count >= LockAt THEN now + Window ELSE account.until
           a == [account EXCEPT !.count = count, !.last = {now}, !.lifetime = lifetime,
                                !.until = until]
<1>1. count \in Nat /\ lifetime \in Nat /\ until \in Nat /\ {now} \in SUBSET Times
  BY ConstantsAreNat DEF Account, Times
<1>2. Counted(account, prior) = a
  BY DEF Counted
<1> HIDE DEF count, lifetime, until
<1>3. /\ a \in Account
      /\ a.count = count /\ a.last = {now} /\ a.lifetime = lifetime
      /\ a.until = until /\ a.active = account.active
  BY <1>1 DEF Account
<1> QED
  BY <1>2, <1>3 DEF count, lifetime, until

\* The second statement only turns active off.
LEMMA WithFailureTyped ==
    ASSUME NEW account \in Account, NEW prior \in Nat, now \in Times
    PROVE  /\ WithFailure(account, prior) \in Account
           /\ WithFailure(account, prior).count = prior + 1
           /\ WithFailure(account, prior).last = {now}
           /\ WithFailure(account, prior).until
                = IF prior + 1 >= LockAt THEN now + Window ELSE account.until
           /\ WithFailure(account, prior).lifetime = account.lifetime + 1
           /\ WithFailure(account, prior).active
                <=> account.active /\ account.lifetime + 1 < Cap
<1> DEFINE counted == Counted(account, prior)
           active == counted.active /\ counted.lifetime < Cap
<1>1. /\ counted \in Account
      /\ counted.count = prior + 1 /\ counted.last = {now}
      /\ counted.until = IF prior + 1 >= LockAt THEN now + Window ELSE account.until
      /\ counted.lifetime = account.lifetime + 1 /\ counted.active = account.active
  BY CountedTyped
<1>2. active \in BOOLEAN
  OBVIOUS
<1>3. WithFailure(account, prior) = [counted EXCEPT !.active = active]
  BY DEF WithFailure
<1>4. active <=> account.active /\ account.lifetime + 1 < Cap
  BY <1>1
<1> HIDE DEF counted, active
<1>5. /\ [counted EXCEPT !.active = active] \in Account
      /\ [counted EXCEPT !.active = active].count = counted.count
      /\ [counted EXCEPT !.active = active].last = counted.last
      /\ [counted EXCEPT !.active = active].until = counted.until
      /\ [counted EXCEPT !.active = active].lifetime = counted.lifetime
      /\ [counted EXCEPT !.active = active].active = active
  BY <1>1, <1>2 DEF Account
<1> QED
  BY <1>1, <1>3, <1>4, <1>5

-----------------------------------------------------------------------------
(* What a step does to the account of an attempt *)

\* Everything about accounts but u's.
OnlyAccount(u) ==
    /\ u \in User
    /\ accounts' \in [User -> Account]
    /\ streak' \in [User -> Nat] /\ failed' \in [User -> Nat] /\ torn' \subseteq User
    /\ \A v \in User \ {u} : /\ accounts'[v] = accounts[v]
                             /\ streak'[v] = streak[v] /\ failed'[v] = failed[v]
                             /\ v \in torn' <=> v \in torn

Fails(u, prior) ==
    /\ OnlyAccount(u) /\ prior \in Nat
    /\ \/ accounts'[u] = WithFailure(accounts[u], prior)
       \/ accounts'[u] = Counted(accounts[u], prior) /\ u \in torn'
    /\ streak'[u] = streak[u] + 1 /\ failed'[u] = failed[u] + 1

Clears(u) ==
    /\ OnlyAccount(u)
    /\ accounts'[u] = Cleared(accounts[u])
    /\ streak'[u] = 0 /\ failed'[u] = failed[u] /\ torn' = torn

Activates(u, active) ==
    /\ OnlyAccount(u) /\ active \in BOOLEAN
    /\ accounts'[u] = WithActive(accounts[u], active)
    /\ streak'[u] = 0 /\ failed'[u] = IF active THEN 0 ELSE failed[u]

LEMMA FailureFails ==
    ASSUME TypeInv, NEW r \in Attempt, WrongPassword(r) \/ CrashRecording(r)
    PROVE  /\ pc[r] = "verify" /\ target[r] \in User /\ UNCHANGED now
           /\ \E read \in row[r] : Fails(target[r], read.failures)
<1>1. PICK read \in row[r] :
         \/ /\ accounts' = [accounts EXCEPT ![target[r]] = WithFailure(@, read.failures)]
            /\ torn' = torn \ {target[r]}
         \/ /\ accounts' = [accounts EXCEPT ![target[r]] = Counted(@, read.failures)]
            /\ torn' = torn \cup {target[r]}
  BY DEF WrongPassword, CrashRecording
<1>2. target[r] \in User /\ read.failures \in Nat
  BY <1>1 DEF WrongPassword, CrashRecording, TypeInv, AttemptsInv, Row
<1>3. /\ WithFailure(accounts[target[r]], read.failures) \in Account
      /\ Counted(accounts[target[r]], read.failures) \in Account
  BY <1>2, WithFailureTyped, CountedTyped DEF TypeInv, AccountsInv
<1>4. OnlyAccount(target[r])
  BY <1>1, <1>2, <1>3 DEF WrongPassword, CrashRecording, OnlyAccount, TypeInv, AccountsInv
<1>5. /\ \/ accounts'[target[r]] = WithFailure(accounts[target[r]], read.failures)
         \/ /\ accounts'[target[r]] = Counted(accounts[target[r]], read.failures)
            /\ target[r] \in torn'
      /\ streak'[target[r]] = streak[target[r]] + 1
      /\ failed'[target[r]] = failed[target[r]] + 1
  BY <1>1, <1>2 DEF WrongPassword, CrashRecording, TypeInv, AccountsInv
<1> QED
  BY <1>2, <1>4, <1>5 DEF WrongPassword, CrashRecording, Fails

LEMMA SucceedsClears ==
    ASSUME TypeInv, NEW r \in Attempt, target[r] \in User, Succeeds(r)
    PROVE  Clears(target[r])
<1>1. Cleared(accounts[target[r]]) \in Account
  BY ClearedTyped DEF TypeInv, AccountsInv
<1> QED
  BY <1>1 DEF Succeeds, Clears, OnlyAccount, TypeInv, AccountsInv

LEMMA ResetClears ==
    ASSUME TypeInv, NEW u \in User, ResetPassword(u)
    PROVE  Clears(u)
<1>1. Cleared(accounts[u]) \in Account
  BY ClearedTyped DEF TypeInv, AccountsInv
<1> QED
  BY <1>1 DEF ResetPassword, Clears, OnlyAccount, TypeInv, AccountsInv

LEMMA SetUserActivates ==
    ASSUME TypeInv, NEW u \in User, NEW active \in BOOLEAN, SetUserActive(u, active)
    PROVE  Activates(u, active)
<1>1. WithActive(accounts[u], active) \in Account
  BY WithActiveTyped DEF TypeInv, AccountsInv
<1> QED
  BY <1>1 DEF SetUserActive, Activates, OnlyAccount, TypeInv, AccountsInv

\* No account remembers a failure that is still to come.
LEMMA AccountsTyped ==
    ASSUME TypeInv, UNCHANGED now, NEW u \in User,
           \/ \E prior \in Nat : Fails(u, prior)
           \/ Clears(u)
           \/ \E active \in BOOLEAN : Activates(u, active)
    PROVE  AccountsInv'
<1>1. accounts[u] \in Account /\ now \in Times
  BY DEF TypeInv, AccountsInv
<1>2. OnlyAccount(u)
  BY DEF Fails, Clears, Activates
<1>3. \A t \in accounts'[u].last : t <= now
  <2>1. ASSUME NEW prior \in Nat, Fails(u, prior)
        PROVE  accounts'[u].last = {now}
    BY <1>1, <2>1, WithFailureTyped, CountedTyped DEF Fails
  <2>2. Clears(u) => accounts'[u].last = {}
    BY <1>1, ClearedTyped DEF Clears
  <2>3. ASSUME NEW active \in BOOLEAN, Activates(u, active)
        PROVE  accounts'[u].last = {}
    BY <1>1, <2>3, WithActiveTyped DEF Activates
  <2> QED
    BY <1>1, <2>1, <2>2, <2>3 DEF Times
<1> QED
  BY <1>2, <1>3 DEF OnlyAccount, TypeInv, AccountsInv

LEMMA BeginTyped ==
    ASSUME TypeInv, NEW r \in Attempt, NEW u \in User \cup {Nobody}, Begin(r, u)
    PROVE  /\ TypeInv'
           /\ pc'[r] = "verify" /\ target'[r] = u
           /\ u \in User => row'[r] = {AccountLockState(accounts[u])}
           /\ \A q \in Attempt \ {r} : pc'[q] = pc[q] /\ target'[q] = target[q] /\ row'[q] = row[q]
<1> DEFINE read == {AccountLockState(accounts[v]) : v \in User \cap {u}}
<1>1. read \in SUBSET Row
  BY AccountStateTyped DEF TypeInv, AccountsInv
<1>2. read # {} <=> u # Nobody
  BY ConstantsAreNat
<1>3. u \in User => read = {AccountLockState(accounts[u])}
  OBVIOUS
<1>4. row' = [row EXCEPT ![r] = read]
  BY DEF Begin
<1> HIDE DEF read
<1>5. AttemptsInv'
  BY <1>1, <1>2, <1>4 DEF Begin, TypeInv, AttemptsInv
<1>6. AccountsInv'
  BY DEF Begin, TypeInv, AccountsInv
<1>7. LogInv' /\ (begun \in 0 .. MaxAttempts)' /\ (faults \in FaultSets)'
  BY ConstantsAreNat DEF Begin, TypeInv, LogInv
<1> QED
  BY <1>3, <1>4, <1>5, <1>6, <1>7 DEF Begin, TypeInv, AttemptsInv

LEMMA NextTyped ==
    ASSUME TypeInv, [Next]_vars
    PROVE  TypeInv'
<1>1. LogInv /\ AccountsInv /\ AttemptsInv /\ now \in Times
  BY DEF TypeInv, AccountsInv
<1>2. CASE UNCHANGED vars
  BY <1>2 DEF vars, attempts, history, TypeInv, LogInv, AccountsInv, AttemptsInv
<1>3. ASSUME NEW r \in Attempt, NEW u \in User \cup {Nobody}, Begin(r, u) PROVE TypeInv'
  BY <1>3, BeginTyped
<1>4. ASSUME NEW r \in Attempt, UnknownAccount(r) \/ Refused(r) PROVE TypeInv'
  <2>1. LogInv' /\ AttemptsInv'
    BY <1>1, <1>4, LogTyped, OverTyped, ConstantsAreNat DEF UnknownAccount, Refused
  <2> QED
    BY <1>4, <2>1 DEF UnknownAccount, Refused, history, TypeInv, AccountsInv
<1>5. ASSUME NEW r \in Attempt, WrongPassword(r) \/ CrashRecording(r) PROVE TypeInv'
  <2>1. LogInv' /\ AttemptsInv'
    <3>1. CASE WrongPassword(r)
      BY <1>1, <3>1, LogTyped, OverTyped, ConstantsAreNat DEF WrongPassword
    <3>2. CASE CrashRecording(r)
      BY <1>1, <3>2 DEF CrashRecording, NobodyInFlight, LogInv, AttemptsInv
    <3> QED
      BY <1>5, <3>1, <3>2
  <2>2. PICK read \in row[r] : Fails(target[r], read.failures)
    BY <1>5, FailureFails
  <2>3. target[r] \in User /\ read.failures \in Nat
    BY <2>2 DEF Fails, OnlyAccount
  <2>4. AccountsInv'
    BY <1>5, <2>2, <2>3, FailureFails, AccountsTyped
  <2> QED
    BY <1>5, <2>1, <2>4 DEF WrongPassword, CrashRecording, TypeInv
<1>6. ASSUME NEW r \in Attempt, target[r] \in User, Succeeds(r) PROVE TypeInv'
  <2>1. LogInv' /\ AttemptsInv'
    BY <1>1, <1>6, LogTyped, OverTyped DEF Succeeds
  <2>2. AccountsInv'
    BY <1>6, SucceedsClears, AccountsTyped DEF Succeeds
  <2> QED
    BY <1>6, <2>1, <2>2 DEF Succeeds, TypeInv
<1>7. ASSUME NEW r \in Attempt, Verified(r) \/ Rehashed(r) PROVE TypeInv'
  <2>1. target[r] \in User
    BY <1>1, <1>7 DEF Verified, Rehashed, AttemptsInv
  <2> QED
    BY <1>6, <1>7, <2>1 DEF Verified, Rehashed
<1>8. ASSUME NEW r \in Attempt, StartRehash(r) PROVE TypeInv'
  BY <1>8 DEF StartRehash, history, TypeInv, LogInv, AccountsInv, AttemptsInv
<1>9. ASSUME NEW u \in User, ResetPassword(u) PROVE TypeInv'
  <2>1. AccountsInv'
    BY <1>9, ResetClears, AccountsTyped DEF ResetPassword
  <2> QED
    BY <1>9, <2>1 DEF ResetPassword, attempts, TypeInv, LogInv, AttemptsInv
<1>10. ASSUME NEW u \in User, NEW active \in BOOLEAN, SetUserActive(u, active) PROVE TypeInv'
  <2>1. AccountsInv'
    BY <1>10, SetUserActivates, AccountsTyped DEF SetUserActive
  <2> QED
    BY <1>10, <2>1 DEF SetUserActive, attempts, TypeInv, LogInv, AttemptsInv
<1>11. CASE Tick
  <2>1. AccountsInv'
    BY <1>11, ConstantsAreNat DEF Tick, history, TypeInv, AccountsInv, Account, Times
  <2> QED
    BY <1>11, <2>1 DEF Tick, attempts, history, TypeInv, LogInv, AttemptsInv
<1>12. CASE Crash
  BY <1>12 DEF Crash, NobodyInFlight, history, TypeInv, LogInv, AccountsInv, AttemptsInv
<1> QED
  BY <1>2, <1>3, <1>4, <1>5, <1>7, <1>8, <1>9, <1>10, <1>11, <1>12 DEF Next, Step

LEMMA InitTyped ==
    ASSUME Init
    PROVE  TypeInv
<1>1. 0 \in Times /\ 0 \in 0 .. MaxAttempts
  BY ConstantsAreNat DEF Times
<1>2. [count |-> 0, last |-> {}, until |-> 0, lifetime |-> 0, active |-> TRUE] \in Account
  BY DEF Account
<1>3. AccountsInv
  BY <1>1, <1>2 DEF Init, AccountsInv
<1> QED
  BY <1>1, <1>3 DEF Init, TypeInv, LogInv, AttemptsInv

\* Every state of every behaviour is typed.
THEOREM TypeCorrect == Spec => []TypeOK
<1>1. Init => TypeInv
  BY InitTyped
<1>2. TypeInv /\ [Next]_vars => TypeInv'
  BY NextTyped
<1>3. TypeInv => TypeOK
  BY DEF TypeInv, LogInv, AccountsInv, AttemptsInv, TypeOK
<1> QED
  BY <1>1, <1>2, <1>3, PTL DEF Spec

-----------------------------------------------------------------------------
(* The lifetime cap *)

\* The lifetime count misses no failure, and an active account has reached the cap only
\* by one that was cut off.
CapInv ==
    \A u \in User :
        /\ accounts[u].lifetime = failed[u]
        /\ accounts[u].active => failed[u] < Cap \/ u \in torn

\* What the steps do to accounts.
AccountStep ==
    \/ UNCHANGED <<accounts, failed, torn>>
    \/ \E u \in User :
          \/ \E prior \in Nat : Fails(u, prior)
          \/ Clears(u)
          \/ \E active \in BOOLEAN : Activates(u, active)

LEMMA NextAccountStep ==
    ASSUME TypeInv, [Next]_vars
    PROVE  AccountStep
<1>1. ASSUME NEW r \in Attempt, Step(r) PROVE AccountStep
  <2>1. CASE WrongPassword(r) \/ CrashRecording(r)
    <3>1. PICK read \in row[r] : Fails(target[r], read.failures)
      BY <2>1, FailureFails
    <3>2. target[r] \in User /\ read.failures \in Nat
      BY <3>1 DEF Fails, OnlyAccount
    <3> QED
      BY <3>1, <3>2 DEF AccountStep
  <2>2. CASE Verified(r) \/ Rehashed(r)
    <3>1. target[r] \in User
      BY <2>2 DEF Verified, Rehashed, TypeInv, AttemptsInv
    <3> QED
      BY <2>2, <3>1, SucceedsClears DEF Verified, Rehashed, AccountStep
  <2>3. CASE \/ \E u \in User \cup {Nobody} : Begin(r, u)
             \/ UnknownAccount(r) \/ Refused(r) \/ StartRehash(r)
    BY <2>3 DEF Begin, UnknownAccount, Refused, StartRehash, history, AccountStep
  <2> QED
    BY <1>1, <2>1, <2>2, <2>3 DEF Step
<1>2. ASSUME NEW u \in User, ResetPassword(u) \/ \E active \in BOOLEAN : SetUserActive(u, active)
      PROVE  AccountStep
  BY <1>2, ResetClears, SetUserActivates DEF AccountStep
<1>3. CASE UNCHANGED vars \/ Tick \/ Crash
  BY <1>3 DEF vars, history, Tick, Crash, AccountStep
<1> QED
  BY <1>1, <1>2, <1>3 DEF Next

LEMMA CapStep ==
    ASSUME TypeInv, CapInv, [Next]_vars
    PROVE  CapInv'
<1>1. /\ now \in Times /\ Cap \in Nat \ {0}
      /\ \A u \in User : accounts[u] \in Account /\ failed[u] \in Nat
  BY ConstantsAreNat DEF TypeInv, AccountsInv
<1>2. CASE UNCHANGED <<accounts, failed, torn>>
  BY <1>2 DEF CapInv
<1>3. ASSUME NEW u \in User, NEW prior \in Nat, Fails(u, prior) PROVE CapInv'
  <2> DEFINE whole == WithFailure(accounts[u], prior)
             counted == Counted(accounts[u], prior)
  <2>1. accounts[u] \in Account /\ u \in User
    BY <1>1
  <2>2. /\ whole.lifetime = accounts[u].lifetime + 1
        /\ whole.active <=> accounts[u].active /\ accounts[u].lifetime + 1 < Cap
    BY <1>1, <2>1, WithFailureTyped, Zenon
  <2>3. counted.lifetime = accounts[u].lifetime + 1
    BY <1>1, <2>1, CountedTyped, Zenon
  <2>4. accounts'[u] = whole \/ (accounts'[u] = counted /\ u \in torn')
    BY <1>3 DEF Fails
  <2> HIDE DEF whole, counted
  <2>5. /\ accounts'[u].lifetime = failed'[u]
        /\ accounts'[u].active => failed'[u] < Cap \/ u \in torn'
    BY <1>3, <2>2, <2>3, <2>4 DEF Fails, CapInv
  <2> QED
    BY <1>3, <2>5 DEF Fails, OnlyAccount, CapInv
<1>4. ASSUME NEW u \in User, Clears(u) PROVE CapInv'
  <2>1. /\ accounts'[u].lifetime = accounts[u].lifetime
        /\ accounts'[u].active = accounts[u].active
    BY <1>1, <1>4, ClearedTyped DEF Clears
  <2> QED
    BY <1>4, <2>1 DEF Clears, OnlyAccount, CapInv
<1>5. ASSUME NEW u \in User, NEW active \in BOOLEAN, Activates(u, active) PROVE CapInv'
  <2>1. /\ accounts'[u].lifetime = IF active THEN 0 ELSE accounts[u].lifetime
        /\ accounts'[u].active = active
    BY <1>1, <1>5, WithActiveTyped DEF Activates
  <2> QED
    BY <1>1, <1>5, <2>1 DEF Activates, OnlyAccount, CapInv
<1> QED
  BY <1>2, <1>3, <1>4, <1>5, NextAccountStep DEF AccountStep

\* ratelimit.js: whatever attempts overlap, an active account has failed fewer than Cap
\* times since it was last activated.
THEOREM CapIsKept == Spec => []CapDisables
<1>1. Init => TypeInv /\ CapInv
  BY InitTyped, ConstantsAreNat DEF Init, CapInv
<1>2. TypeInv /\ CapInv /\ [Next]_vars => (TypeInv /\ CapInv)'
  BY NextTyped, CapStep
<1>3. CapInv => CapDisables
  BY DEF CapInv, CapDisables
<1> QED
  BY <1>1, <1>2, <1>3, PTL DEF Spec

-----------------------------------------------------------------------------
(* The timed lock *)

\* The count of an account is its streak, or old.
CountInv(u) ==
    \/ accounts[u].count = streak[u]
    \/ Decayed(accounts[u]) /\ streak[u] = 0

\* It is locked only by a count at the threshold, and then until Window after the failure.
UntilInv(u) ==
    /\ \A s, t \in accounts[u].last : s = t
    /\ accounts[u].until > now => accounts[u].count >= LockAt
    /\ accounts[u].count >= LockAt =>
          \E t \in accounts[u].last : accounts[u].until = t + Window

\* One attempt at a time, and what it read is still so.
ReadInv(r) ==
    /\ \A read \in row[r] :
          /\ read.failures = streak[target[r]]
          /\ ~read.locked => ~Locked(accounts[target[r]])
    /\ pc[r] = "hash" => ~Locked(accounts[target[r]])

AloneInv == \A q, r \in Attempt :
               pc[q] # "idle" /\ pc[r] # "idle" /\ target[q] = target[r] /\ target[r] \in User
                  => q = r

LadderInv ==
    /\ AloneInv
    /\ \A u \in User : CountInv(u) /\ UntilInv(u)
    /\ \A r \in Attempt : target[r] \in User /\ pc[r] # "idle" => ReadInv(r)

\* UntilInv and CountInv are what LockedAtThreshold says.
LEMMA LockExact ==
    ASSUME TypeInv, NEW u \in User, CountInv(u), UntilInv(u)
    PROVE  Locked(accounts[u]) <=>
             streak[u] >= LockAt /\ \E t \in accounts[u].last : t + Window > now
<1>1. /\ accounts[u].count \in Nat /\ accounts[u].until \in Nat
      /\ accounts[u].last \subseteq Nat /\ now \in Nat /\ streak[u] \in Nat
      /\ LockAt \in Nat \ {0} /\ Window \in Nat \ {0}
  BY ConstantsAreNat DEF TypeInv, AccountsInv, Account, Times
<1>2. ASSUME Locked(accounts[u])
      PROVE  streak[u] >= LockAt /\ \E t \in accounts[u].last : t + Window > now
  <2>1. accounts[u].count >= LockAt
    BY <1>2 DEF Locked, UntilInv
  <2>2. PICK t \in accounts[u].last : accounts[u].until = t + Window
    BY <2>1 DEF UntilInv
  <2>3. t + Window > now
    BY <1>2, <2>2 DEF Locked
  <2>4. ~Decayed(accounts[u])
    BY <1>1, <2>3 DEF Decayed, UntilInv
  <2> QED
    BY <2>1, <2>3, <2>4 DEF CountInv
<1>3. ASSUME streak[u] >= LockAt, NEW t \in accounts[u].last, t + Window > now
      PROVE  Locked(accounts[u])
  <2>1. accounts[u].count >= LockAt
    BY <1>1, <1>3 DEF CountInv
  <2>2. accounts[u].until = t + Window
    BY <2>1 DEF UntilInv
  <2> QED
    BY <1>3, <2>2 DEF Locked
<1> QED
  BY <1>2, <1>3

\* What a failure, a success or an administrator does to the ladder of an account.
LadderAccounts ==
    \E u \in User : \/ Fails(u, streak[u])
                   \/ Clears(u)
                   \/ \E active \in BOOLEAN : Activates(u, active)

LEMMA LadderAccountStep ==
    ASSUME TypeInv, NEW v \in User, CountInv(v), UntilInv(v),
           UNCHANGED now, LadderAccounts
    PROVE  CountInv(v)' /\ UntilInv(v)'
<1>1. /\ accounts[v] \in Account /\ now \in Times /\ now \in Nat
      /\ accounts[v].count \in Nat /\ accounts[v].until \in Nat
      /\ accounts[v].last \subseteq Nat /\ streak[v] \in Nat
      /\ LockAt \in Nat \ {0} /\ Window \in Nat \ {0}
  BY ConstantsAreNat DEF TypeInv, AccountsInv, Account, Times
<1>2. PICK u \in User : \/ Fails(u, streak[u])
                       \/ Clears(u)
                       \/ \E active \in BOOLEAN : Activates(u, active)
  BY DEF LadderAccounts
<1>3. CASE u # v
  <2>1. accounts'[v] = accounts[v] /\ streak'[v] = streak[v]
    BY <1>2, <1>3 DEF Fails, Clears, Activates, OnlyAccount
  <2> QED
    BY <2>1 DEF CountInv, UntilInv, Decayed
<1>4. CASE u = v /\ Fails(v, streak[v])
  <2>1. /\ accounts'[v].count = streak[v] + 1 /\ accounts'[v].last = {now}
        /\ accounts'[v].until = IF streak[v] + 1 >= LockAt THEN now + Window
                                                       ELSE accounts[v].until
        /\ streak'[v] = streak[v] + 1
    <3>1. /\ \/ accounts'[v] = WithFailure(accounts[v], streak[v])
             \/ accounts'[v] = Counted(accounts[v], streak[v])
          /\ streak'[v] = streak[v] + 1
      BY <1>4 DEF Fails
    <3>2. /\ WithFailure(accounts[v], streak[v]).count = streak[v] + 1
          /\ WithFailure(accounts[v], streak[v]).last = {now}
          /\ WithFailure(accounts[v], streak[v]).until
               = IF streak[v] + 1 >= LockAt THEN now + Window ELSE accounts[v].until
      BY <1>1, WithFailureTyped, Zenon
    <3>3. /\ Counted(accounts[v], streak[v]).count = streak[v] + 1
          /\ Counted(accounts[v], streak[v]).last = {now}
          /\ Counted(accounts[v], streak[v]).until
               = IF streak[v] + 1 >= LockAt THEN now + Window ELSE accounts[v].until
      BY <1>1, CountedTyped, Zenon
    <3> QED
      BY <3>1, <3>2, <3>3
  <2>2. streak[v] + 1 < LockAt => accounts[v].until <= now
    <3>1. ASSUME streak[v] + 1 < LockAt, accounts[v].until > now PROVE FALSE
      <4>1. accounts[v].count >= LockAt
        BY <3>1 DEF UntilInv
      <4>2. PICK t \in accounts[v].last : accounts[v].until = t + Window
        BY <4>1 DEF UntilInv
      <4>3. Decayed(accounts[v])
        BY <1>1, <3>1, <4>1 DEF CountInv
      <4>4. t + Window <= now
        BY <4>2, <4>3 DEF Decayed, UntilInv
      <4> QED
        BY <1>1, <3>1, <4>2, <4>4
    <3> QED
      BY <1>1, <3>1
  <2> QED
    BY <1>1, <2>1, <2>2 DEF CountInv, UntilInv
<1>5. CASE u = v /\ ~Fails(v, streak[v])
  <2>1. /\ accounts'[v].count = 0 /\ accounts'[v].last = {} /\ accounts'[v].until = 0
        /\ streak'[v] = 0
    BY <1>1, <1>2, <1>5, ClearedTyped, WithActiveTyped DEF Clears, Activates
  <2> QED
    BY <1>1, <2>1 DEF CountInv, UntilInv
<1> QED
  BY <1>2, <1>3, <1>4, <1>5

\* An attempt that waits while other accounts change.
LEMMA ReadStays ==
    ASSUME NEW q \in Attempt, ReadInv(q), UNCHANGED now,
           pc'[q] = pc[q], target'[q] = target[q], row'[q] = row[q],
           accounts'[target[q]] = accounts[target[q]], streak'[target[q]] = streak[target[q]]
    PROVE  ReadInv(q)'
BY DEF ReadInv, Locked

\* An attempt that ends, with what it does to its account if it names one.
LEMMA LadderOver ==
    ASSUME TypeInv, LadderInv, NEW r \in Attempt, pc[r] # "idle", Over(r), UNCHANGED now,
           \/ UNCHANGED <<accounts, streak>>
           \/ /\ LadderAccounts
              /\ target[r] \in User /\ OnlyAccount(target[r])
    PROVE  LadderInv'
<1>1. /\ pc'[r] = "idle" /\ row'[r] = {}
      /\ \A q \in Attempt \ {r} : pc'[q] = pc[q] /\ target'[q] = target[q] /\ row'[q] = row[q]
  BY OverTyped DEF TypeInv
<1>2. AloneInv'
  BY <1>1 DEF LadderInv, AloneInv
<1>3. ASSUME NEW v \in User PROVE CountInv(v)' /\ UntilInv(v)'
  <2>1. CASE UNCHANGED <<accounts, streak>>
    BY <2>1 DEF LadderInv, CountInv, UntilInv, Decayed
  <2> QED
    BY <2>1, LadderAccountStep DEF LadderInv
<1>4. ASSUME NEW q \in Attempt, target'[q] \in User, pc'[q] # "idle" PROVE ReadInv(q)'
  <2>1. q # r /\ pc'[q] = pc[q] /\ target'[q] = target[q] /\ row'[q] = row[q]
    BY <1>1, <1>4
  <2>2. ReadInv(q)
    BY <1>4, <2>1 DEF LadderInv
  <2>3. target[r] \in User => target[q] # target[r]
    BY <1>4, <2>1 DEF LadderInv, AloneInv
  <2>4. accounts'[target[q]] = accounts[target[q]] /\ streak'[target[q]] = streak[target[q]]
    BY <1>4, <2>1, <2>3 DEF OnlyAccount
  <2> QED
    BY <2>1, <2>2, <2>4, ReadStays
<1> QED
  BY <1>2, <1>3, <1>4 DEF LadderInv

\* An administrator changes an account that nobody is signing in to.
LEMMA LadderAdministered ==
    ASSUME TypeInv, LadderInv, NEW u \in User, InFlight(u) = {}, UNCHANGED <<now, attempts>>,
           Clears(u) \/ \E active \in BOOLEAN : Activates(u, active)
    PROVE  LadderInv'
<1>1. LadderAccounts /\ OnlyAccount(u)
  BY DEF LadderAccounts, Clears, Activates
<1>2. AloneInv'
  BY DEF LadderInv, AloneInv, attempts
<1>3. ASSUME NEW v \in User PROVE CountInv(v)' /\ UntilInv(v)'
  BY <1>1, LadderAccountStep DEF LadderInv
<1>4. ASSUME NEW q \in Attempt, target'[q] \in User, pc'[q] # "idle" PROVE ReadInv(q)'
  <2>1. pc'[q] = pc[q] /\ target'[q] = target[q] /\ row'[q] = row[q]
    BY DEF attempts
  <2>2. target[q] # u
    BY <1>4, <2>1 DEF InFlight
  <2>3. accounts'[target[q]] = accounts[target[q]] /\ streak'[target[q]] = streak[target[q]]
    BY <1>1, <1>4, <2>1, <2>2 DEF OnlyAccount
  <2>4. ReadInv(q)
    BY <1>4, <2>1 DEF LadderInv
  <2> QED
    BY <2>1, <2>3, <2>4, ReadStays
<1> QED
  BY <1>2, <1>3, <1>4 DEF LadderInv

LEMMA LadderBegin ==
    ASSUME TypeInv, LadderInv, "overlap" \notin faults,
           NEW r \in Attempt, NEW u \in User \cup {Nobody}, Begin(r, u)
    PROVE  LadderInv'
<1>1. /\ pc'[r] = "verify" /\ target'[r] = u /\ UNCHANGED <<now, accounts>>
      /\ u \in User => row'[r] = {AccountLockState(accounts[u])} /\ InFlight(u) = {}
      /\ \A q \in Attempt \ {r} : pc'[q] = pc[q] /\ target'[q] = target[q] /\ row'[q] = row[q]
      /\ \A v \in User :
            streak'[v] = IF v = u /\ Decayed(accounts[v]) THEN 0 ELSE streak[v]
  BY BeginTyped DEF Begin, Undisturbed
<1>2. \A q \in Attempt : u \in User /\ pc[q] # "idle" => target[q] # u
  BY <1>1 DEF InFlight
<1>3. AloneInv'
  BY <1>1, <1>2 DEF LadderInv, AloneInv
<1>4. ASSUME NEW v \in User PROVE CountInv(v)' /\ UntilInv(v)'
  <2>1. CountInv(v)'
    BY <1>1 DEF LadderInv, CountInv, Decayed
  <2>2. UntilInv(v)'
    BY <1>1 DEF LadderInv, UntilInv
  <2> QED
    BY <2>1, <2>2
<1>5. ASSUME NEW q \in Attempt, target'[q] \in User, pc'[q] # "idle" PROVE ReadInv(q)'
  <2>1. CASE q = r
    <3>1. /\ u \in User /\ target'[r] = u /\ row'[r] = {AccountLockState(accounts[u])}
          /\ CountInv(u)
      BY <1>1, <1>5, <2>1 DEF LadderInv
    <3>2. AccountLockState(accounts[u]).failures = streak'[u]
      BY <1>1, <3>1 DEF AccountLockState, CountInv
    <3>3. ~AccountLockState(accounts[u]).locked => ~Locked(accounts[u])
      BY DEF AccountLockState
    <3>4. Locked(accounts[u])' <=> Locked(accounts[u])
      BY <1>1 DEF Locked
    <3> QED
      BY <1>1, <2>1, <3>1, <3>2, <3>3, <3>4 DEF ReadInv, Locked
  <2>2. CASE q # r
    <3>1. /\ pc'[q] = pc[q] /\ target'[q] = target[q] /\ row'[q] = row[q]
          /\ ReadInv(q) /\ target[q] # u
      BY <1>1, <1>2, <1>5, <2>2 DEF LadderInv
    <3>2. streak'[target[q]] = streak[target[q]]
      BY <1>1, <1>5, <3>1
    <3> QED
      BY <1>1, <3>1, <3>2, ReadStays
  <2> QED
    BY <2>1, <2>2
<1> QED
  BY <1>3, <1>4, <1>5 DEF LadderInv

LEMMA LadderRehash ==
    ASSUME TypeInv, LadderInv, NEW r \in Attempt, StartRehash(r)
    PROVE  LadderInv'
<1>1. /\ UNCHANGED <<now, accounts, target, row, streak>>
      /\ pc[r] = "verify" /\ pc'[r] = "hash"
      /\ \A q \in Attempt \ {r} : pc'[q] = pc[q]
  BY DEF StartRehash, history, TypeInv, AttemptsInv
<1>2. AloneInv'
  BY <1>1 DEF LadderInv, AloneInv
<1>3. ASSUME NEW v \in User PROVE CountInv(v)' /\ UntilInv(v)'
  BY <1>1 DEF LadderInv, CountInv, UntilInv, Decayed
<1>4. ASSUME NEW q \in Attempt, target'[q] \in User, pc'[q] # "idle" PROVE ReadInv(q)'
  <2>1. ReadInv(q)
    BY <1>1, <1>4 DEF LadderInv
  <2>2. CASE q = r
    <3>1. ~Locked(accounts[target[r]])
      BY <2>1, <2>2 DEF StartRehash, Admits, ReadInv
    <3> QED
      BY <1>1, <2>1, <2>2, <3>1 DEF ReadInv, Locked
  <2>3. CASE q # r
    BY <1>1, <2>1, <2>3, ReadStays
  <2> QED
    BY <2>2, <2>3
<1> QED
  BY <1>2, <1>3, <1>4 DEF LadderInv

\* A lock runs out, and never begins, with time; a quiet window only grows.
LEMMA LadderTick ==
    ASSUME TypeInv, LadderInv, Tick
    PROVE  LadderInv'
<1>1. /\ UNCHANGED <<accounts, pc, target, row, streak>>
      /\ now' = now + 1 /\ now \in Nat /\ Window \in Nat
      /\ \A u \in User : accounts[u].until \in Nat /\ accounts[u].last \subseteq Nat
  BY ConstantsAreNat DEF Tick, attempts, history, TypeInv, AccountsInv, Account, Times
<1>2. AloneInv'
  BY <1>1 DEF LadderInv, AloneInv
<1>3. ASSUME NEW v \in User PROVE CountInv(v)' /\ UntilInv(v)'
  <2>1. Decayed(accounts[v]) => Decayed(accounts[v])'
    BY <1>1 DEF Decayed
  <2>2. CountInv(v)'
    BY <1>1, <2>1 DEF LadderInv, CountInv
  <2>3. UntilInv(v)'
    BY <1>1 DEF LadderInv, UntilInv
  <2> QED
    BY <2>2, <2>3
<1>4. ASSUME NEW q \in Attempt, target'[q] \in User, pc'[q] # "idle" PROVE ReadInv(q)'
  <2>1. ReadInv(q) /\ target[q] \in User
    BY <1>1, <1>4 DEF LadderInv
  <2>2. ~Locked(accounts[target[q]]) => ~Locked(accounts[target[q]])'
    BY <1>1, <2>1 DEF Locked
  <2> QED
    BY <1>1, <2>1, <2>2 DEF ReadInv
<1> QED
  BY <1>2, <1>3, <1>4 DEF LadderInv

LEMMA LadderStep ==
    ASSUME TypeInv, LadderInv, "overlap" \notin faults, [Next]_vars
    PROVE  LadderInv'
<1>1. ASSUME NEW r \in Attempt, WrongPassword(r) \/ CrashRecording(r) PROVE LadderInv'
  <2>1. PICK read \in row[r] : Fails(target[r], read.failures)
    BY <1>1, FailureFails
  <2>2. pc[r] = "verify" /\ target[r] \in User /\ UNCHANGED now
    BY <1>1, FailureFails
  <2>3. read.failures = streak[target[r]]
    BY <2>1, <2>2 DEF LadderInv, ReadInv
  <2>4. LadderAccounts /\ OnlyAccount(target[r])
    BY <2>1, <2>2, <2>3 DEF LadderAccounts, Fails
  <2>5. CASE WrongPassword(r)
    BY <2>2, <2>4, <2>5, LadderOver DEF WrongPassword
  <2>6. CASE CrashRecording(r)
    <3>1. \A q \in Attempt : pc'[q] = "idle"
      BY <2>6 DEF CrashRecording, NobodyInFlight
    <3>2. \A v \in User : CountInv(v)' /\ UntilInv(v)'
      BY <2>2, <2>4, LadderAccountStep DEF LadderInv
    <3> QED
      BY <3>1, <3>2 DEF LadderInv, AloneInv
  <2> QED
    BY <1>1, <2>5, <2>6
<1>2. ASSUME NEW r \in Attempt, Verified(r) \/ Rehashed(r) PROVE LadderInv'
  <2>1. /\ pc[r] # "idle" /\ target[r] \in User /\ Succeeds(r)
        /\ Over(r) /\ UNCHANGED now
    BY <1>2 DEF Verified, Rehashed, Succeeds, TypeInv, AttemptsInv
  <2>2. LadderAccounts /\ OnlyAccount(target[r])
    BY <2>1, SucceedsClears DEF LadderAccounts, Clears
  <2> QED
    BY <2>1, <2>2, LadderOver
<1>3. ASSUME NEW r \in Attempt, UnknownAccount(r) \/ Refused(r) PROVE LadderInv'
  BY <1>3, LadderOver DEF UnknownAccount, Refused, history
<1>4. ASSUME NEW u \in User,
             ResetPassword(u) \/ \E active \in BOOLEAN : SetUserActive(u, active)
      PROVE  LadderInv'
  <2>1. InFlight(u) = {} /\ UNCHANGED <<now, attempts>>
    BY <1>4 DEF ResetPassword, SetUserActive, Undisturbed
  <2> QED
    BY <1>4, <2>1, ResetClears, SetUserActivates, LadderAdministered
<1>5. CASE UNCHANGED vars
  <2>1. UNCHANGED <<now, accounts, pc, target, row, streak>>
    BY <1>5 DEF vars, attempts, history
  <2> QED
    BY <2>1 DEF LadderInv, AloneInv, CountInv, UntilInv, ReadInv, Decayed, Locked
<1>6. CASE Crash
  <2>1. /\ UNCHANGED <<now, accounts, streak>>
        /\ \A q \in Attempt : pc'[q] = "idle"
    BY <1>6 DEF Crash, NobodyInFlight, history
  <2> QED
    BY <2>1 DEF LadderInv, AloneInv, CountInv, UntilInv, ReadInv, Decayed, Locked
<1> QED
  BY <1>1, <1>2, <1>3, <1>4, <1>5, <1>6, LadderBegin, LadderRehash, LadderTick
  DEF Next, Step

\* Either attempts overlap, or the ladder of every account is exact.
LadderOk == "overlap" \in faults \/ LadderInv

LEMMA LadderOkStep ==
    ASSUME TypeInv, LadderOk, [Next]_vars
    PROVE  LadderOk'
<1>1. UNCHANGED faults
  BY DEF Next, Step, Begin, UnknownAccount, WrongPassword, Refused, Verified, StartRehash,
         Rehashed, Succeeds, ResetPassword, SetUserActive, Tick, Crash,
         CrashRecording, vars
<1> QED
  BY <1>1, LadderStep DEF LadderOk

LEMMA LadderOkInit ==
    ASSUME Init
    PROVE  LadderOk
BY ConstantsAreNat DEF Init, LadderOk, LadderInv, AloneInv, CountInv, UntilInv, ReadInv

\* ratelimit.js: when attempts on an account do not overlap, it is locked from its
\* LockAt-th consecutive failure until Window after the latest, and at no other time.
THEOREM LockIsExact == Spec => []LockedAtThreshold
<1>1. Init => TypeInv /\ LadderOk
  BY InitTyped, LadderOkInit
<1>2. TypeInv /\ LadderOk /\ [Next]_vars => (TypeInv /\ LadderOk)'
  BY NextTyped, LadderOkStep
<1>3. TypeInv /\ LadderOk => LockedAtThreshold
  BY LockExact DEF LadderOk, LadderInv, LockedAtThreshold
<1> QED
  BY <1>1, <1>2, <1>3, PTL DEF Spec

\* users.js: nobody signs in to such an account while it is locked.
THEOREM LockIsHeld == Spec => LockHolds
<1>1. Init => TypeInv /\ LadderOk
  BY InitTyped, LadderOkInit
<1>2. TypeInv /\ LadderOk /\ [Next]_vars => (TypeInv /\ LadderOk)'
  BY NextTyped, LadderOkStep
<1> DEFINE Held == \A r \in Attempt : Verified(r) \/ Rehashed(r) =>
                      "overlap" \in faults \/ ~Locked(accounts[target[r]])
<1>3. TypeInv /\ LadderOk => Held
  <2> SUFFICES ASSUME TypeInv, LadderInv, NEW r \in Attempt, Verified(r) \/ Rehashed(r)
               PROVE  ~Locked(accounts[target[r]])
    BY DEF LadderOk
  <2>1. ReadInv(r)
    BY DEF LadderInv, Verified, Rehashed, TypeInv, AttemptsInv
  <2> QED
    BY <2>1 DEF Verified, Rehashed, Admits, ReadInv
<1>4. TypeInv /\ LadderOk => [Held]_vars
  BY <1>3
<1> QED
  BY <1>1, <1>2, <1>4, PTL DEF Spec, LockHolds

-----------------------------------------------------------------------------
(* The failure window of an address *)

AtSource(s)   == {r \in Attempt : From[r] = s}
OnTheWay(s)   == {r \in Attempt : From[r] = s /\ pc[r] # "idle"}

LEMMA AttemptsAreFinite ==
    ASSUME NEW s
    PROVE  /\ IsFiniteSet(OnTheWay(s)) /\ Cardinality(OnTheWay(s)) \in Nat
           /\ Cardinality(AtSource(s)) \in Nat
           /\ Cardinality(OnTheWay(s)) <= Cardinality(AtSource(s))
<1>1. IsFiniteSet(AtSource(s))
  BY ThrottleAssumption, FS_Subset DEF AtSource
<1>2. OnTheWay(s) \in SUBSET AtSource(s)
  BY DEF AtSource, OnTheWay
<1> QED
  BY <1>1, <1>2, FS_Subset, FS_CardinalityType

\* The window holds finitely many rows, for the clock has only come so far.
LEMMA RowsAreFinite ==
    ASSUME LogInv, NEW s \in Source
    PROVE  IsFiniteSet(RecentRows(s)) /\ RecentFailures(s) \in Nat
<1> DEFINE T == {t \in Times : t + Window > now}
           rows == [t \in T |-> {t} \X (1 .. log[s][t])]
           all == {rows[t] : t \in T}
<1>1. IsFiniteSet(Times)
  BY ConstantsAreNat, FS_Interval DEF Times
<1>2. IsFiniteSet(T)
  BY <1>1, FS_Subset
<1>3. rows \in Surjection(T, all)
  BY DEF Surjection
<1>4. IsFiniteSet(all)
  BY <1>2, <1>3, FS_Surjection
<1>5. ASSUME NEW t \in T PROVE IsFiniteSet({t} \X (1 .. log[s][t]))
  <2>1. log[s][t] \in Nat
    BY DEF LogInv
  <2>2. IsFiniteSet(1 .. log[s][t])
    BY <2>1, FS_Interval
  <2>3. IsFiniteSet({t})
    BY FS_Singleton
  <2> QED
    BY <2>2, <2>3, FS_Product
<1>6. \A R \in all : IsFiniteSet(R)
  BY <1>5
<1>7. RecentRows(s) = UNION all
  BY DEF RecentRows
<1> HIDE DEF all
<1>8. IsFiniteSet(UNION all)
  BY <1>4, <1>6, FS_UNION
<1> QED
  BY <1>7, <1>8, FS_CardinalityType DEF RecentFailures

\* Rows are only dropped when they have left the window.
LEMMA NoRowAppears ==
    ASSUME LogInv, now \in Times, NEW s \in Source,
           \/ UNCHANGED log /\ now' \in Times /\ now' >= now
           \/ RecordSuccess /\ UNCHANGED now
    PROVE  RecentRows(s)' \subseteq RecentRows(s)
<1>1. ASSUME NEW t \in Times, t + Window > now' PROVE t + Window > now
  BY <1>1, ConstantsAreNat DEF Times
<1>2. ASSUME NEW t \in Times, t + Window > now' PROVE log'[s][t] \in {0, log[s][t]}
  BY <1>2 DEF RecordSuccess, Pruned
<1>3. ASSUME NEW t \in Times, t + Window > now', NEW i \in 1 .. log'[s][t]
      PROVE  i \in 1 .. log[s][t]
  BY <1>2, <1>3 DEF LogInv
<1> QED
  BY <1>1, <1>3 DEF RecentRows

LEMMA OneRowAppears ==
    ASSUME LogInv, now \in Times, UNCHANGED now, NEW s \in Source, NEW o \in Source,
           RecordFailedAttempt(o)
    PROVE  RecentRows(s)' \subseteq
               RecentRows(s) \cup (IF s = o THEN {<<now, log[s][now] + 1>>} ELSE {})
<1> DEFINE table == [log EXCEPT ![o][now] = @ + 1]
<1>1. ASSUME NEW t \in Times
      PROVE  table[s][t] = IF s = o /\ t = now THEN log[s][t] + 1 ELSE log[s][t]
  BY DEF LogInv
<1>2. ASSUME NEW t \in Times PROVE log'[s][t] \in {0, table[s][t]}
  BY DEF RecordFailedAttempt, Pruned
<1> HIDE DEF table
<1>3. ASSUME NEW t \in Times, NEW i \in 1 .. log'[s][t]
      PROVE  i \in 1 .. log[s][t] \/ (s = o /\ t = now /\ i = log[s][now] + 1)
  BY <1>1, <1>2 DEF LogInv
<1> QED
  BY <1>3 DEF RecentRows

\* What is let in is counted against the limit before its outcome is known; an outcome
\* adds one row at most and takes one attempt off the way.
LEMMA SourceStep ==
    ASSUME TypeInv, SourceBounded, [Next]_vars
    PROVE  SourceBounded'
<1>1. /\ LogInv /\ now \in Times /\ LogInv'
      /\ pc \in [Attempt -> {"idle", "verify", "hash"}]
  BY NextTyped DEF TypeInv, AccountsInv, AttemptsInv
<1> SUFFICES ASSUME NEW s \in Source
             PROVE  RecentFailures(s)' + Cardinality(OnTheWay(s))'
                        < SourceLimit + Cardinality(AtSource(s))
  BY DEF SourceBounded, OnTheWay, AtSource
<1>2. /\ RecentFailures(s) \in Nat /\ Cardinality(OnTheWay(s)) \in Nat
      /\ Cardinality(AtSource(s)) \in Nat /\ SourceLimit \in Nat
      /\ IsFiniteSet(RecentRows(s)) /\ IsFiniteSet(OnTheWay(s))
      /\ RecentFailures(s) + Cardinality(OnTheWay(s)) < SourceLimit + Cardinality(AtSource(s))
  BY <1>1, RowsAreFinite, AttemptsAreFinite, ThrottleAssumption
     DEF SourceBounded, OnTheWay, AtSource
<1>3. RecentRows(s)' \subseteq RecentRows(s)
        => RecentFailures(s)' \in Nat /\ RecentFailures(s)' <= RecentFailures(s)
  BY <1>2, FS_Subset, FS_CardinalityType DEF RecentFailures
<1>4. OnTheWay(s)' \subseteq OnTheWay(s)
        => /\ Cardinality(OnTheWay(s))' \in Nat
           /\ Cardinality(OnTheWay(s))' <= Cardinality(OnTheWay(s))
  BY <1>2, FS_Subset, FS_CardinalityType
<1>5. CASE OnTheWay(s)' \subseteq OnTheWay(s) /\ RecentRows(s)' \subseteq RecentRows(s)
  BY <1>2, <1>3, <1>4, <1>5
<1>6. ASSUME NEW r \in Attempt, NEW u \in User \cup {Nobody}, Begin(r, u)
      PROVE  RecentFailures(s)' + Cardinality(OnTheWay(s))'
                 < SourceLimit + Cardinality(AtSource(s))
  <2>1. RecentFailures(s)' = RecentFailures(s)
    BY <1>6 DEF Begin, RecentFailures, RecentRows
  <2>2. CASE From[r] = s
    <3>1. RecentFailures(s) < SourceLimit
      BY <1>6, <2>2 DEF Begin, IpAllowed
    <3>2. OnTheWay(s)' \in SUBSET AtSource(s) /\ IsFiniteSet(AtSource(s))
      BY ThrottleAssumption, FS_Subset DEF OnTheWay, AtSource
    <3>3. /\ Cardinality(OnTheWay(s)') \in Nat
          /\ Cardinality(OnTheWay(s)') <= Cardinality(AtSource(s))
      BY <3>2, FS_Subset, FS_CardinalityType
    <3> QED
      BY <1>2, <2>1, <3>1, <3>3
  <2>3. CASE From[r] # s
    <3>1. OnTheWay(s)' = OnTheWay(s)
      BY <1>1, <1>6, <2>3 DEF Begin, OnTheWay
    <3> QED
      BY <1>2, <2>1, <3>1
  <2> QED
    BY <2>2, <2>3
<1>7. ASSUME NEW r \in Attempt, pc[r] # "idle", Over(r), RecordFailedAttempt(From[r]),
             UNCHANGED now
      PROVE  RecentFailures(s)' + Cardinality(OnTheWay(s))'
                 < SourceLimit + Cardinality(AtSource(s))
  <2>1. From[r] \in Source
    BY ConstantsAreNat
  <2>2. CASE From[r] = s
    <3> DEFINE row1 == <<now, log[s][now] + 1>>
    <3>1. RecentRows(s)' \subseteq RecentRows(s) \cup {row1}
      BY <1>1, <1>7, <2>1, <2>2, OneRowAppears
    <3> HIDE DEF row1
    <3>2. /\ IsFiniteSet(RecentRows(s) \cup {row1})
          /\ Cardinality(RecentRows(s) \cup {row1}) \in
                 {Cardinality(RecentRows(s)), Cardinality(RecentRows(s)) + 1}
      <4> QED
        BY <1>2, FS_AddElement
    <3>3. RecentFailures(s)' \in Nat /\ RecentFailures(s)' <= RecentFailures(s) + 1
      BY <1>2, <3>1, <3>2, FS_Subset, FS_CardinalityType DEF RecentFailures
    <3>4. OnTheWay(s)' = OnTheWay(s) \ {r} /\ r \in OnTheWay(s)
      BY <1>1, <1>7, <2>2 DEF Over, OnTheWay
    <3>5. Cardinality(OnTheWay(s) \ {r}) = Cardinality(OnTheWay(s)) - 1
      BY <1>2, <3>4, FS_RemoveElement
    <3> QED
      BY <1>2, <3>3, <3>4, <3>5
  <2>3. CASE From[r] # s
    <3>1. RecentRows(s)' \subseteq RecentRows(s)
      BY <1>1, <1>7, <2>1, <2>3, OneRowAppears
    <3>2. OnTheWay(s)' \subseteq OnTheWay(s)
      BY <1>1, <1>7 DEF Over, OnTheWay
    <3> QED
      BY <1>5, <3>1, <3>2
  <2> QED
    BY <2>2, <2>3
<1>8. ASSUME NEW r \in Attempt, Succeeds(r)
      PROVE  OnTheWay(s)' \subseteq OnTheWay(s) /\ RecentRows(s)' \subseteq RecentRows(s)
  BY <1>1, <1>8, NoRowAppears DEF Succeeds, Over, OnTheWay
<1>9. ASSUME NEW r \in Attempt, Step(r)
      PROVE  RecentFailures(s)' + Cardinality(OnTheWay(s))'
                 < SourceLimit + Cardinality(AtSource(s))
  <2>1. CASE UnknownAccount(r) \/ WrongPassword(r) \/ Refused(r)
    BY <1>7, <2>1 DEF UnknownAccount, WrongPassword, Refused
  <2>2. CASE Verified(r) \/ Rehashed(r)
    BY <1>5, <1>8, <2>2 DEF Verified, Rehashed
  <2>3. CASE StartRehash(r)
    <3>1. OnTheWay(s)' \subseteq OnTheWay(s)
      BY <1>1, <2>3 DEF StartRehash, OnTheWay
    <3>2. RecentRows(s)' \subseteq RecentRows(s)
      BY <2>3 DEF StartRehash, RecentRows
    <3> QED
      BY <1>5, <3>1, <3>2
  <2>4. CASE CrashRecording(r)
    <3>1. OnTheWay(s)' \subseteq OnTheWay(s)
      BY <2>4 DEF CrashRecording, NobodyInFlight, OnTheWay
    <3>2. RecentRows(s)' \subseteq RecentRows(s)
      BY <2>4 DEF CrashRecording, RecentRows
    <3> QED
      BY <1>5, <3>1, <3>2
  <2> QED
    BY <1>6, <1>9, <2>1, <2>2, <2>3, <2>4 DEF Step
<1>10. CASE Tick
  <2>1. now' \in Times /\ now' >= now /\ UNCHANGED <<log, pc>>
    BY <1>1, <1>10, ConstantsAreNat DEF Tick, Times, attempts
  <2>2. OnTheWay(s)' \subseteq OnTheWay(s)
    BY <2>1 DEF OnTheWay
  <2> QED
    BY <1>1, <1>5, <2>1, <2>2, NoRowAppears
<1>11. CASE Crash
  <2>1. OnTheWay(s)' \subseteq OnTheWay(s)
    BY <1>11 DEF Crash, NobodyInFlight, OnTheWay
  <2>2. RecentRows(s)' \subseteq RecentRows(s)
    BY <1>11 DEF Crash, RecentRows
  <2> QED
    BY <1>5, <2>1, <2>2
<1>12. ASSUME \/ UNCHANGED vars
              \/ \E u \in User : ResetPassword(u) \/ \E active \in BOOLEAN : SetUserActive(u, active)
       PROVE  OnTheWay(s)' \subseteq OnTheWay(s) /\ RecentRows(s)' \subseteq RecentRows(s)
  BY <1>12 DEF vars, attempts, ResetPassword, SetUserActive, OnTheWay, RecentRows
<1> QED
  BY <1>5, <1>9, <1>10, <1>11, <1>12 DEF Next

\* However many sign-ins of an address are in flight together, checkIpThrottle lets its
\* recent failures exceed IP_FAILURE_LIMIT by no more than one for each of them.
THEOREM SourceStaysBounded == Spec => []SourceBounded
<1>1. Init => SourceBounded
  <2> SUFFICES ASSUME Init, NEW s \in Source
               PROVE  RecentFailures(s) + Cardinality(OnTheWay(s))
                          < SourceLimit + Cardinality(AtSource(s))
    BY DEF SourceBounded, OnTheWay, AtSource
  <2>1. OnTheWay(s) = {} /\ RecentRows(s) = {}
    BY DEF Init, OnTheWay, RecentRows
  <2>2. Cardinality({}) = 0 /\ Cardinality(AtSource(s)) \in Nat /\ SourceLimit \in Nat \ {0}
    BY FS_EmptySet, AttemptsAreFinite, ThrottleAssumption
  <2> QED
    BY <2>1, <2>2 DEF RecentFailures
<1>2. TypeInv /\ SourceBounded /\ [Next]_vars => TypeInv' /\ SourceBounded'
  BY NextTyped, SourceStep
<1> QED
  BY <1>1, <1>2, InitTyped, PTL DEF Spec
=============================================================================
