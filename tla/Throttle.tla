------------------------------ MODULE Throttle ------------------------------
(***************************************************************************)
(* Login throttling: the failure ladder and timed lock of an account, its  *)
(* lifetime cap, and the failure window of a source address.               *)
(*                                                                         *)
(* authenticate reads the address window and the account, waits for the    *)
(* KDF, and then writes what it computed from that reading.  An action is  *)
(* what one attempt does between two waits.  The stall before a refusal    *)
(* (delay) holds back only the attempt's own reply and is left out.        *)
(*                                                                         *)
(* The decay window, the duration of a lock and the address window are one *)
(* number of seconds, here Window; a tick is one second of nowIso().       *)
(***************************************************************************)
EXTENDS Naturals, FiniteSets

CONSTANTS
    User,         \* accounts
    Nobody,       \* an email address without an account
    Attempt,      \* sign-ins that can be in flight, each used again and again
    Source,       \* client addresses
    From,         \* the address each of them comes from
    LockAt,       \* LOCK_THRESHOLD
    Cap,          \* LIFETIME_FAILURE_CAP
    SourceLimit,  \* IP_FAILURE_LIMIT
    Window,       \* the three windows of fifteen minutes
    KeepFor,      \* how long login_attempts keeps a row
    MaxTime,      \* bound: the clock stops here
    MaxAttempts,  \* bound: how many sign-ins there are in all
    FaultSets     \* what the environment may do, one set for each behaviour

FaultKinds ==
    { "overlap",  \* an account is used or administered while one is in flight
      "crash" }   \* the server process dies; the tables survive

ASSUME ThrottleAssumption ==
    /\ Nobody \notin User
    /\ IsFiniteSet(Attempt) /\ From \in [Attempt -> Source]
    /\ {LockAt, Cap, SourceLimit, Window} \subseteq Nat \ {0}
    /\ KeepFor \in Nat /\ KeepFor >= Window
    /\ MaxTime \in Nat /\ MaxAttempts \in Nat
    /\ FaultSets \subseteq SUBSET FaultKinds

VARIABLES
    now,       \* the clock
    accounts,  \* the throttling columns of users
    log,       \* login_attempts: failures of each address at each second
    pc,        \* what each attempt waits for
    target,    \* the account it names
    row,       \* what it read of it, {} for null
    streak,    \* history: consecutive failures, as they come in
    failed,    \* history: failures since the account was last activated
    torn,      \* history: accounts whose latest failure was cut off by a crash
    begun,     \* how many attempts there have been
    faults     \* what the environment may do in this behaviour

attempts == <<pc, target, row>>
history  == <<streak, failed, torn, begun>>
vars     == <<now, accounts, log, attempts, history, faults>>

Times == 0 .. MaxTime

\* failed_login_count, last_failed_login_at (a set for NULL), locked_until (0 for NULL),
\* lifetime_failed_logins, is_active.
Account == [count : Nat, last : SUBSET Times, until : Nat, lifetime : Nat, active : BOOLEAN]

\* What accountLockState makes of a row, and is_active.
Row == [failures : Nat, locked : BOOLEAN, active : BOOLEAN]

InFlight(u) == {r \in Attempt : pc[r] # "idle" /\ target[r] = u}
Undisturbed(u) == "overlap" \in faults \/ InFlight(u) = {}

Init ==
    /\ now = 0
    /\ accounts = [u \in User |-> [count |-> 0, last |-> {}, until |-> 0,
                                   lifetime |-> 0, active |-> TRUE]]
    /\ log = [s \in Source |-> [t \in Times |-> 0]]
    /\ pc = [r \in Attempt |-> "idle"]
    /\ target = [r \in Attempt |-> Nobody]
    /\ row = [r \in Attempt |-> {}]
    /\ streak = [u \in User |-> 0]
    /\ failed = [u \in User |-> 0]
    /\ torn = {}
    /\ begun = 0
    /\ faults \in FaultSets

-----------------------------------------------------------------------------
(* The counters *)

Locked(account) == account.until > now
Decayed(account) == \E t \in account.last : t + Window <= now

\* Mutant: old failures count for ever.
AccountLockState_NoDecay(account) ==
    [failures |-> account.count, locked |-> Locked(account), active |-> account.active]

AccountLockState(account) ==
    [failures |-> IF Decayed(account) THEN 0 ELSE account.count,
     locked   |-> Locked(account),
     active   |-> account.active]

\* The first statement of recordAccountFailure.  The consecutive count is written from
\* what was read, the lifetime count is incremented in place.
Counted(account, prior) ==
    LET count == prior + 1 IN
    [account EXCEPT !.count = count, !.last = {now}, !.lifetime = @ + 1,
                    !.until = IF count >= LockAt THEN now + Window ELSE @]

\* Mutant: the lifetime counter, too, is written from what was read.
WithFailure_StaleLifetime(account, prior) ==
    [Counted(account, prior) EXCEPT !.lifetime = prior + 1,
                                    !.active = @ /\ prior + 1 < Cap]

\* recordAccountFailure: past the cap, a second statement deactivates the account.
WithFailure(account, prior) ==
    LET counted == Counted(account, prior)
    IN  [counted EXCEPT !.active = @ /\ counted.lifetime < Cap]

Cleared(account) == [account EXCEPT !.count = 0, !.last = {}, !.until = 0]

\* setUserActive.
WithActive(account, active) ==
    [Cleared(account) EXCEPT !.active = active, !.lifetime = IF active THEN 0 ELSE @]

\* Every insert deletes the rows that are KeepFor old.
Pruned(table) ==
    [s \in Source |-> [t \in Times |-> IF t + KeepFor <= now THEN 0 ELSE table[s][t]]]

RecordFailedAttempt(s) == log' = Pruned([log EXCEPT ![s][now] = @ + 1])
RecordSuccess == log' = Pruned(log)

\* SELECT COUNT(*) of the address's rows younger than the window: at each second, as
\* many as the table holds of it.
RecentRows(s)     == UNION {{t} \X (1 .. log[s][t]) : t \in {t \in Times : t + Window > now}}
RecentFailures(s) == Cardinality(RecentRows(s))

\* Mutant: off by one.
IpAllowed_OneMore(s) == RecentFailures(s) <= SourceLimit

\* checkIpThrottle.
IpAllowed(s) == RecentFailures(s) < SourceLimit

-----------------------------------------------------------------------------
(* An attempt *)

\* Mutant: what was read is kept.
Over_RowKept(r) ==
    /\ pc' = [pc EXCEPT ![r] = "idle"]
    /\ target' = [target EXCEPT ![r] = Nobody]
    /\ UNCHANGED row

Over(r) ==
    /\ pc' = [pc EXCEPT ![r] = "idle"]
    /\ target' = [target EXCEPT ![r] = Nobody]
    /\ row' = [row EXCEPT ![r] = {}]

\* checkIpThrottle, findUserByEmail and accountLockState, then verifyPassword or
\* verifyDummyPassword.  An address over its limit is turned away here.
Begin(r, u) ==
    /\ pc[r] = "idle"
    /\ begun < MaxAttempts
    /\ u \in User => Undisturbed(u)
    /\ IpAllowed(From[r])
    /\ pc' = [pc EXCEPT ![r] = "verify"]
    /\ target' = [target EXCEPT ![r] = u]
    /\ row' = [row EXCEPT ![r] = {AccountLockState(accounts[v]) : v \in User \cap {u}}]
    /\ streak' = [v \in User |-> IF v = u /\ Decayed(accounts[v]) THEN 0 ELSE streak[v]]
    /\ begun' = begun + 1
    /\ UNCHANGED <<now, accounts, log, failed, torn, faults>>

UnknownAccount(r) ==
    /\ pc[r] = "verify" /\ target[r] = Nobody
    /\ RecordFailedAttempt(From[r])
    /\ Over(r)
    /\ UNCHANGED <<now, accounts, history, faults>>

WrongPassword(r) ==
    LET u == target[r] IN
    /\ pc[r] = "verify"
    /\ \E read \in row[r] :
          accounts' = [accounts EXCEPT ![u] = WithFailure(@, read.failures)]
    /\ RecordFailedAttempt(From[r])
    /\ streak' = [streak EXCEPT ![u] = @ + 1]
    /\ failed' = [failed EXCEPT ![u] = @ + 1]
    /\ torn' = torn \ {u}
    /\ Over(r)
    /\ UNCHANGED <<now, begun, faults>>

\* The right password for an account that was deactivated or locked when it was read,
\* or an expired one-time password.
Refused(r) ==
    /\ pc[r] = "verify" /\ row[r] # {}
    /\ RecordFailedAttempt(From[r])
    /\ Over(r)
    /\ UNCHANGED <<now, accounts, history, faults>>

Succeeds(r) ==
    /\ accounts' = [accounts EXCEPT ![target[r]] = Cleared(@)]
    /\ RecordSuccess
    /\ streak' = [streak EXCEPT ![target[r]] = 0]
    /\ Over(r)
    /\ UNCHANGED <<now, failed, torn, begun, faults>>

\* Mutant: the lock is not asked for.
Admits_NoLock(read) == read.active

Admits(read) == read.active /\ ~read.locked

Verified(r) ==
    /\ pc[r] = "verify"
    /\ \E read \in row[r] : Admits(read)
    /\ Succeeds(r)

\* The stored hash is upgraded before the counters are cleared.
StartRehash(r) ==
    /\ pc[r] = "verify"
    /\ \E read \in row[r] : Admits(read)
    /\ pc' = [pc EXCEPT ![r] = "hash"]
    /\ UNCHANGED <<now, accounts, log, target, row, history, faults>>

Rehashed(r) == pc[r] = "hash" /\ Succeeds(r)

-----------------------------------------------------------------------------
(* Administrators, the clock, a crash *)

\* resetPassword and setChosenPassword.
ResetPassword(u) ==
    /\ Undisturbed(u)
    /\ accounts' = [accounts EXCEPT ![u] = Cleared(@)]
    /\ streak' = [streak EXCEPT ![u] = 0]
    /\ UNCHANGED <<now, log, attempts, failed, torn, begun, faults>>

SetUserActive(u, active) ==
    /\ Undisturbed(u)
    /\ accounts' = [accounts EXCEPT ![u] = WithActive(@, active)]
    /\ streak' = [streak EXCEPT ![u] = 0]
    /\ failed' = [failed EXCEPT ![u] = IF active THEN 0 ELSE @]
    /\ torn' = IF active THEN torn \ {u} ELSE torn
    /\ UNCHANGED <<now, log, attempts, begun, faults>>

Tick ==
    /\ now < MaxTime
    /\ now' = now + 1
    /\ UNCHANGED <<accounts, log, attempts, history, faults>>

NobodyInFlight ==
    /\ pc' = [r \in Attempt |-> "idle"]
    /\ target' = [r \in Attempt |-> Nobody]
    /\ row' = [r \in Attempt |-> {}]

Crash ==
    /\ "crash" \in faults
    /\ NobodyInFlight
    /\ UNCHANGED <<now, accounts, log, history, faults>>

\* A crash while a failure is recorded: after the first statement of recordAccountFailure
\* or after its second, but before recordAttempt.  One between other statements
\* only leaves rows in login_attempts that are too old to be read.
CrashRecording(r) ==
    LET u == target[r] IN
    /\ "crash" \in faults
    /\ pc[r] = "verify"
    /\ \E read \in row[r] :
          \/ /\ accounts' = [accounts EXCEPT ![u] = Counted(@, read.failures)]
             /\ torn' = torn \cup {u}
          \/ /\ accounts' = [accounts EXCEPT ![u] = WithFailure(@, read.failures)]
             /\ torn' = torn \ {u}
    /\ streak' = [streak EXCEPT ![u] = @ + 1]
    /\ failed' = [failed EXCEPT ![u] = @ + 1]
    /\ NobodyInFlight
    /\ UNCHANGED <<now, log, begun, faults>>

-----------------------------------------------------------------------------
Step(r) ==
    \/ \E u \in User \cup {Nobody} : Begin(r, u)
    \/ UnknownAccount(r) \/ WrongPassword(r) \/ Refused(r)
    \/ Verified(r) \/ StartRehash(r) \/ Rehashed(r) \/ CrashRecording(r)

Next ==
    \/ \E r \in Attempt : Step(r)
    \/ \E u \in User : ResetPassword(u) \/ \E active \in BOOLEAN : SetUserActive(u, active)
    \/ Tick \/ Crash

Spec == Init /\ [][Next]_vars

-----------------------------------------------------------------------------
(* Properties *)

\* An account row is only held by an attempt in flight, and a failure that is
\* remembered is not in the future.
TypeOK ==
    /\ now \in Times
    /\ accounts \in [User -> Account]
    /\ \A u \in User : \A t \in accounts[u].last : t <= now
    /\ log \in [Source -> [Times -> Nat]]
    /\ pc \in [Attempt -> {"idle", "verify", "hash"}]
    /\ target \in [Attempt -> User \cup {Nobody}]
    /\ row \in [Attempt -> SUBSET Row]
    /\ \A r \in Attempt : row[r] # {} <=> pc[r] # "idle" /\ target[r] # Nobody
    /\ streak \in [User -> Nat] /\ failed \in [User -> Nat] /\ torn \subseteq User
    /\ begun \in 0 .. MaxAttempts
    /\ faults \in FaultSets

\* NIST SP 800-63B 3.2.2: however the attempts interleave, an account has been disabled
\* by the time its failures since the last activation reach the cap; if a crash came
\* between counting and disabling, then by the end of the next failure.
CapDisables == \A u \in User : accounts[u].active => failed[u] < Cap \/ u \in torn

\* However many attempts are in flight together, an address gets at most one failure
\* beyond its limit for each of them: those in flight were let in under the limit.
SourceBounded ==
    \A s \in Source :
        RecentFailures(s) + Cardinality({r \in Attempt : From[r] = s /\ pc[r] # "idle"})
            < SourceLimit + Cardinality({r \in Attempt : From[r] = s})

\* An account whose attempts and administration do not overlap is locked from its
\* LockAt-th consecutive failure until Window seconds after the latest one, and at no
\* other time: no success, quiet window, reset or crash leaves a count behind.
LockedAtThreshold ==
    "overlap" \notin faults =>
        \A u \in User :
            Locked(accounts[u]) <=>
                streak[u] >= LockAt /\ \E t \in accounts[u].last : t + Window > now

\* Nobody signs in to such an account while it is locked.
LockHolds ==
    [][\A r \in Attempt : Verified(r) \/ Rehashed(r) =>
          "overlap" \in faults \/ ~Locked(accounts[target[r]])]_vars

\* docs/security-decisions.md: a lock at LockAt consecutive failures, whoever makes them.
LockedAtConsecutiveFailures ==
    \A u \in User : streak[u] >= LockAt /\ (\E t \in accounts[u].last : t + Window > now)
                        => Locked(accounts[u])
=============================================================================
