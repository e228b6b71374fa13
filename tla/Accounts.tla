------------------------------ MODULE Accounts ------------------------------
(***************************************************************************)
(* Accounts, credentials and sessions: sign-in, the password change, and   *)
(* what administrators and the operator's scripts do to an account.        *)
(*                                                                         *)
(* A step of a request runs from one wait to the next: the wait for the    *)
(* body of a POST (csrfGuard, after attachSession has read the session) or *)
(* for a KDF on the thread pool.  Between two waits only promise           *)
(* continuations of the same request run, and SQLite is synchronous, so    *)
(* everything in such a stretch is one action.                             *)
(*                                                                         *)
(* The passwords of an account are numbered as they are stored.  Counting  *)
(* failures is the subject of Throttle and the clock is left out: a failed *)
(* sign-in may reach the lifetime cap ("cap"), a timed lock or an expired  *)
(* one-time password may refuse a sign-in, and a session may expire at any *)
(* moment.                                                                 *)
(***************************************************************************)
EXTENDS Naturals, Sequences, FiniteSets, Functions

CONSTANTS
    User,         \* email addresses
    Nobody,       \* no account
    Request,      \* requests, each handled once
    MaxSessions,  \* bound: how many sessions are ever created
    FaultSets     \* what the environment may do, one set for each behaviour

FaultKinds ==
    { "oldHash",  \* stored hashes were made with weaker parameters
      "cap",      \* failed sign-ins reach the lifetime cap
      "script",   \* create-user and reset-password run beside the server
      "crash" }   \* the server process dies

ASSUME AccountsAssumption ==
    /\ IsFiniteSet(User)
    /\ Nobody \notin User
    /\ MaxSessions \in Nat
    /\ FaultSets \subseteq SUBSET FaultKinds

VARIABLES
    users,      \* the users table: a function on the accounts that exist
    sessions,   \* the sessions table: a function on the live tokens
    passwords,  \* what every password of an account was: "chosen" or "oneTime"
    tokens,     \* how many session tokens have been drawn
    pc,         \* what each request waits for
    op,         \* its route
    target,     \* the account it is about
    actor,      \* c.get('session') and c.get('user'), {} for null
    row,        \* the row it read before it began to verify, {} before
    clean,      \* history: see Sever
    faults      \* what the environment may do in this behaviour

tables   == <<users, sessions, passwords, tokens>>
requests == <<pc, op, target, actor, row>>
vars     == <<tables, requests, clean, faults>>

Roles == {"admin", "collector"}
AdminOps   == {"reset", "create", "activate", "deactivate", "promote", "demote"}
SessionOps == AdminOps \cup {"logout", "change"}

Account == [password : Nat, old : BOOLEAN, role : Roles, active : BOOLEAN,
            mustChange : BOOLEAN]

\* password and role are history: the password whose owner the session was made
\* for, and the role of the account at that moment.
Session == [user : User, password : Nat, role : Roles]

Actor == [session : Nat, user : User, role : Roles, mustChange : BOOLEAN]

Exists(u) == u \in DOMAIN users
Goto(r, label) == pc' = [pc EXCEPT ![r] = label]
\* The handler is over and its variables with it.
Over(r) ==
    /\ Goto(r, "over")
    /\ op' = [op EXCEPT ![r] = "none"]
    /\ target' = [target EXCEPT ![r] = Nobody]
    /\ actor' = [actor EXCEPT ![r] = {}]
    /\ row' = [row EXCEPT ![r] = {}]

Init ==
    /\ faults \in FaultSets
    /\ passwords \in [User -> {<<>>, <<"chosen">>, <<"oneTime">>}]
    /\ \E role \in [User -> Roles], old \in SUBSET User :
          /\ old # {} => "oldHash" \in faults
          /\ users = [u \in {v \in User : passwords[v] # <<>>} |->
                        [password |-> 1, old |-> u \in old, role |-> role[u],
                         active |-> TRUE, mustChange |-> passwords[u][1] = "oneTime"]]
    /\ \E u \in DOMAIN users : users[u].role = "admin"
    /\ sessions = <<>> /\ tokens = 0
    /\ pc = [r \in Request |-> "idle"]
    /\ op = [r \in Request |-> "none"]
    /\ target = [r \in Request |-> Nobody]
    /\ actor = [r \in Request |-> {}]
    /\ row = [r \in Request |-> {}]
    /\ clean = User

-----------------------------------------------------------------------------
(* The tables *)

SessionsOf(u) == {t \in DOMAIN sessions : sessions[t].user = u}
Without(ts) == Restrict(sessions, DOMAIN sessions \ ts)

\* Mutant: the sessions stay.
DestroyUserSessions_None(u) == sessions

DestroyUserSessions(u) == Without(SessionsOf(u))

\* randomToken never draws a token twice.
WithNewSession(table, u, password) ==
    [t \in DOMAIN table \cup {tokens + 1} |->
        IF t = tokens + 1
        THEN [user |-> u, password |-> password, role |-> users[u].role]
        ELSE table[t]]

ActiveAdmins == {u \in DOMAIN users : users[u].role = "admin" /\ users[u].active}

\* Mutant: off by one.
LastAdmin_OffByOne(u) == users[u].role = "admin" /\ Cardinality(ActiveAdmins) < 1

LastAdmin(u) == users[u].role = "admin" /\ Cardinality(ActiveAdmins) <= 1

\* Requests that will make a session for u if they succeed.
Authenticating(u) ==
    {r \in Request : /\ pc[r] \in {"body", "verify", "hash"}
                     /\ op[r] \in {"login", "change"}
                     /\ target[r] = u}

\* History: u's password was replaced, or u was deactivated, by r; clean if nobody
\* else was authenticating as u at that moment.  (A change that outlives the
\* deactivation of its account was authenticating when that happened.)
Sever(u, r) ==
    clean' = IF Authenticating(u) \subseteq {r} THEN clean \cup {u} ELSE clean \ {u}

\* The statement that stores a password, and what it is stored as.
StorePassword(u, kind) ==
    /\ passwords' = [passwords EXCEPT ![u] = Append(@, kind)]
    /\ users' = [users EXCEPT ![u].password = Len(passwords[u]) + 1,
                              ![u].old = FALSE,
                              ![u].mustChange = (kind = "oneTime")]

ResetPassword(u) ==
    /\ StorePassword(u, "oneTime")
    /\ sessions' = DestroyUserSessions(u)

\* What setUserActive and the lifetime cap do alike.
Deactivate(u) ==
    /\ users' = [users EXCEPT ![u].active = FALSE]
    /\ sessions' = DestroyUserSessions(u)

-----------------------------------------------------------------------------
(* Requests on a session *)

\* attachSession and loadSession: the user is read now, however long the request
\* then takes.
Attached(t) ==
    LET u == sessions[t].user IN
    {[session |-> t, user |-> u, role |-> users[u].role,
      mustChange |-> users[u].mustChange]}

\* loadSession refuses the session of a deactivated account and drops all of the
\* account's sessions.
DropSessionsOfDeactivated(t) ==
    /\ ~users[sessions[t].user].active
    /\ sessions' = DestroyUserSessions(sessions[t].user)

\* A POST on a session, with the session's CSRF token in the body that is still to
\* come.  Accounts are never deleted, so the id in an administrator's form exists.
Arrive(r, t, o, u) ==
    /\ pc[r] = "idle"
    /\ CASE o = "create" -> TRUE
         [] o \in AdminOps \ {"create"} -> Exists(u)
         [] OTHER -> u = sessions[t].user
    /\ users[sessions[t].user].active
    /\ Goto(r, "body")
    /\ op' = [op EXCEPT ![r] = o]
    /\ target' = [target EXCEPT ![r] = u]
    /\ actor' = [actor EXCEPT ![r] = Attached(t)]
    /\ UNCHANGED <<tables, row, clean, faults>>

ArriveDeactivated(r, t) ==
    /\ pc[r] = "idle"
    /\ DropSessionsOfDeactivated(t)
    /\ Over(r)
    /\ UNCHANGED <<users, passwords, tokens, clean, faults>>

\* Mutant: requirePasswordChanged is not mounted.
MayProceed_NoGate(r) ==
    \A a \in actor[r] : op[r] \in AdminOps => a.role = "admin"

\* requirePasswordChanged and requireAdmin, on the user attachSession read.
MayProceed(r) ==
    \A a \in actor[r] :
        /\ a.mustChange => op[r] \in {"logout", "change"}
        /\ op[r] \in AdminOps => a.role = "admin"

Handling(r, ops) == pc[r] = "body" /\ op[r] \in ops /\ MayProceed(r)

Refused(r) ==
    /\ pc[r] = "body"
    /\ ~MayProceed(r)
    /\ Over(r)
    /\ UNCHANGED <<tables, clean, faults>>

SignOut(r) ==
    /\ Handling(r, {"logout"})
    /\ sessions' = Without({a.session : a \in actor[r]})
    /\ Over(r)
    /\ UNCHANGED <<users, passwords, tokens, clean, faults>>

SetActive(r) ==
    LET u == target[r] IN
    /\ Handling(r, {"activate", "deactivate"})
    /\ \/ /\ op[r] = "deactivate" /\ LastAdmin(u)
          /\ UNCHANGED <<users, sessions, clean>>
       \/ /\ op[r] = "deactivate" /\ ~LastAdmin(u)
          /\ Deactivate(u)
          /\ Sever(u, r)
       \/ /\ op[r] = "activate"
          /\ users' = [users EXCEPT ![u].active = TRUE]
          /\ UNCHANGED <<sessions, clean>>
    /\ Over(r)
    /\ UNCHANGED <<passwords, tokens, faults>>

SetRole(r) ==
    LET u == target[r]
        role == IF op[r] = "promote" THEN "admin" ELSE "collector"
    IN
    /\ Handling(r, {"promote", "demote"})
    /\ IF role # "admin" /\ LastAdmin(u)
       THEN UNCHANGED <<users, sessions>>
       ELSE /\ users' = [users EXCEPT ![u].role = role]
            /\ sessions' = DestroyUserSessions(u)
    /\ Over(r)
    /\ UNCHANGED <<passwords, tokens, clean, faults>>

\* The one-time password is hashed first; the tables are not looked at again.
StartHash(r) ==
    /\ Handling(r, {"reset", "create"})
    /\ Goto(r, "hash")
    /\ UNCHANGED <<tables, op, target, actor, row, clean, faults>>

EndReset(r) ==
    /\ pc[r] = "hash" /\ op[r] = "reset"
    /\ ResetPassword(target[r])
    /\ Sever(target[r], r)
    /\ Over(r)
    /\ UNCHANGED <<tokens, faults>>

\* The UNIQUE index refuses an address that has an account by now.
EndCreate(r) ==
    LET u == target[r] IN
    /\ pc[r] = "hash" /\ op[r] = "create"
    /\ \/ Exists(u) /\ UNCHANGED <<users, passwords>>
       \/ /\ ~Exists(u)
          /\ passwords' = [passwords EXCEPT ![u] = <<"oneTime">>]
          /\ \E role \in Roles :
                users' = [v \in DOMAIN users \cup {u} |->
                   IF v = u
                   THEN [password |-> 1, old |-> FALSE, role |-> role,
                         active |-> TRUE, mustChange |-> TRUE]
                   ELSE users[v]]
    /\ Over(r)
    /\ UNCHANGED <<sessions, tokens, clean, faults>>

-----------------------------------------------------------------------------
(* The password change *)

\* findUserByEmail reads the row again, and verifyPassword begins.
StartChange(r) ==
    /\ Handling(r, {"change"})
    /\ row' = [row EXCEPT ![r] = {users[target[r]]}]
    /\ Goto(r, "verify")
    /\ UNCHANGED <<tables, op, target, actor, clean, faults>>

\* A wrong current password, or a new one the policy refuses, ends the request.
ChangeVerified(r) ==
    /\ pc[r] = "verify" /\ op[r] = "change"
    /\ \/ Over(r)
       \/ Goto(r, "hash") /\ UNCHANGED <<op, target, actor, row>>
    /\ UNCHANGED <<tables, clean, faults>>

\* Mutant: only the session of this browser is replaced.
EndChange_RotateOnly(r) ==
    LET u == target[r]
        left == Without({a.session : a \in actor[r]})
    IN
    /\ pc[r] = "hash" /\ op[r] = "change"
    /\ tokens < MaxSessions
    /\ StorePassword(u, "chosen")
    /\ sessions' = WithNewSession(left, u, Len(passwords[u]) + 1)
    /\ tokens' = tokens + 1
    /\ IF users[u].active THEN Sever(u, r) ELSE clean' = clean \ {u}
    /\ Over(r)
    /\ UNCHANGED faults

\* setChosenPassword stores the new password, then every session of the account is
\* replaced by a new one.
EndChange(r) ==
    LET u == target[r]
        left == DestroyUserSessions(u)
    IN
    /\ pc[r] = "hash" /\ op[r] = "change"
    /\ tokens < MaxSessions
    /\ StorePassword(u, "chosen")
    /\ sessions' = WithNewSession(left, u, Len(passwords[u]) + 1)
    /\ tokens' = tokens + 1
    /\ IF users[u].active THEN Sever(u, r) ELSE clean' = clean \ {u}
    /\ Over(r)
    /\ UNCHANGED faults

-----------------------------------------------------------------------------
(* Sign-in *)

\* authenticate reads the row, once, and verifies against it.  The browser may
\* still have a session, which attachSession looked up; nothing else is read while
\* the body arrives, so that wait is left out.
StartLogin(r, u) ==
    /\ pc[r] = "idle"
    /\ Exists(u)
    /\ \/ UNCHANGED <<actor, sessions>>
       \/ \E t \in DOMAIN sessions :
             /\ users[sessions[t].user].active
             /\ actor' = [actor EXCEPT ![r] = Attached(t)]
             /\ UNCHANGED sessions
       \/ \E t \in DOMAIN sessions :
             /\ DropSessionsOfDeactivated(t)
             /\ UNCHANGED actor
    /\ Goto(r, "verify")
    /\ op' = [op EXCEPT ![r] = "login"]
    /\ target' = [target EXCEPT ![r] = u]
    /\ row' = [row EXCEPT ![r] = {users[u]}]
    /\ UNCHANGED <<users, passwords, tokens, clean, faults>>

\* Mutant: the new session is not counted as a draw, so its token comes again.
RotateSession_TokenDrawnTwice(r, account) ==
    /\ tokens < MaxSessions
    /\ sessions' = WithNewSession(Without({a.session : a \in actor[r]}),
                                  target[r], account.password)
    /\ UNCHANGED tokens

\* rotateSession: the browser's old session goes, a new one is there.
RotateSession(r, account) ==
    /\ tokens < MaxSessions
    /\ sessions' = WithNewSession(Without({a.session : a \in actor[r]}),
                                  target[r], account.password)
    /\ tokens' = tokens + 1

\* A refusal that changes none of these tables (a wrong password, a deactivated or
\* locked account, an expired one-time password), or the wrong password that reaches
\* the lifetime cap and disables the account.
LoginFails(r) ==
    /\ pc[r] = "verify" /\ op[r] = "login"
    /\ \/ UNCHANGED <<users, sessions, clean>>
       \/ /\ "cap" \in faults
          /\ Deactivate(target[r])
          /\ Sever(target[r], r)
    /\ Over(r)
    /\ UNCHANGED <<passwords, tokens, faults>>

\* The right password, and a row that lets its owner in.  Whether it does is asked
\* of the row that was read before the KDF.
LoginVerified(r) ==
    /\ pc[r] = "verify" /\ op[r] = "login"
    /\ \E account \in row[r] :
          /\ account.active
          /\ IF account.old
             THEN /\ Goto(r, "hash")
                  /\ UNCHANGED <<sessions, tokens, op, target, actor, row>>
             ELSE RotateSession(r, account) /\ Over(r)
    /\ UNCHANGED <<users, passwords, clean, faults>>

\* The upgraded hash is stored over whatever hash the row has by now; a KDF error
\* leaves the row alone.
LoginRehashed(r) ==
    /\ pc[r] = "hash" /\ op[r] = "login"
    /\ \E account \in row[r] :
          /\ \/ UNCHANGED users
             \/ users' = [users EXCEPT ![target[r]].password = account.password,
                                       ![target[r]].old = FALSE]
          /\ RotateSession(r, account)
    /\ Over(r)
    /\ UNCHANGED <<passwords, clean, faults>>

-----------------------------------------------------------------------------
(* The operator's scripts, a session's end, a crash *)

\* reset-password [--activate]: a process of its own, which then hashes and resets.
ScriptReset(r, u) ==
    /\ "script" \in faults
    /\ pc[r] = "idle"
    /\ Exists(u)
    /\ \/ UNCHANGED users
       \/ ~users[u].active /\ users' = [users EXCEPT ![u].active = TRUE]
    /\ Goto(r, "hash")
    /\ op' = [op EXCEPT ![r] = "reset"]
    /\ target' = [target EXCEPT ![r] = u]
    /\ UNCHANGED <<sessions, passwords, tokens, actor, row, clean, faults>>

ScriptCreate(r, u) ==
    /\ "script" \in faults
    /\ pc[r] = "idle"
    /\ Goto(r, "hash")
    /\ op' = [op EXCEPT ![r] = "create"]
    /\ target' = [target EXCEPT ![r] = u]
    /\ UNCHANGED <<tables, actor, row, clean, faults>>

\* loadSession and pruneExpired delete a session that is idle or too old.
Expire(t) ==
    /\ t \in DOMAIN sessions
    /\ sessions' = Without({t})
    /\ UNCHANGED <<users, passwords, tokens, requests, clean, faults>>

\* The process dies, and with it every request; or it dies inside the password
\* change r, whose three statements are three transactions.
Crash ==
    /\ "crash" \in faults
    /\ \/ UNCHANGED <<users, sessions, passwords, clean>>
       \/ \E r \in Request :
             /\ pc[r] = "hash" /\ op[r] = "change"
             /\ StorePassword(target[r], "chosen")
             /\ sessions' \in {sessions, DestroyUserSessions(target[r])}
             /\ clean' = clean \ {target[r]}
    /\ pc' = [r \in Request |-> IF pc[r] = "idle" THEN "idle" ELSE "over"]
    /\ op' = [r \in Request |-> "none"]
    /\ target' = [r \in Request |-> Nobody]
    /\ actor' = [r \in Request |-> {}]
    /\ row' = [r \in Request |-> {}]
    /\ UNCHANGED <<tokens, faults>>

-----------------------------------------------------------------------------
SessionStep(r) ==
    \/ \E t \in DOMAIN sessions, o \in SessionOps, u \in User : Arrive(r, t, o, u)
    \/ \E t \in DOMAIN sessions : ArriveDeactivated(r, t)
    \/ Refused(r) \/ SignOut(r) \/ SetActive(r) \/ SetRole(r)
    \/ StartHash(r) \/ EndReset(r) \/ EndCreate(r)
    \/ StartChange(r) \/ ChangeVerified(r) \/ EndChange(r)

LoginStep(r) ==
    \/ \E u \in User : StartLogin(r, u)
    \/ LoginFails(r) \/ LoginVerified(r) \/ LoginRehashed(r)

ScriptStep(r) == \E u \in User : ScriptReset(r, u) \/ ScriptCreate(r, u)

Next ==
    \/ \E r \in Request : SessionStep(r) \/ LoginStep(r) \/ ScriptStep(r)
    \/ \E t \in DOMAIN sessions : Expire(t)
    \/ Crash

Spec == Init /\ [][Next]_vars

-----------------------------------------------------------------------------
(* Properties *)

\* Rows name what exists, an account has the password it was last given, and no
\* session is older than the token counter.
TypeOK ==
    /\ DOMAIN users \subseteq User
    /\ \A u \in DOMAIN users :
          users[u] \in Account /\ users[u].password \in 1 .. Len(passwords[u])
    /\ passwords \in [User -> Seq({"chosen", "oneTime"})]
    /\ tokens \in 0 .. MaxSessions
    /\ DOMAIN sessions \subseteq 1 .. tokens
    /\ \A t \in DOMAIN sessions : sessions[t] \in Session /\ Exists(sessions[t].user)
    /\ pc \in [Request -> {"idle", "body", "verify", "hash", "over"}]
    /\ op \in [Request -> SessionOps \cup {"none", "login"}]
    /\ target \in [Request -> User \cup {Nobody}]
    /\ \A r \in Request : actor[r] \subseteq Actor /\ row[r] \subseteq Account
    /\ clean \subseteq User
    /\ faults \in FaultSets

\* admin.routes.js: no sequence of requests, of however many administrators at once,
\* leaves the service without an active administrator.  (The lifetime cap may.)
AdministratorRemains == "cap" \notin faults => ActiveAdmins # {}

\* users.js: a role is never exercised on a session established under another one.
NoSessionFromOldRole ==
    \A t \in DOMAIN sessions : sessions[t].role = users[sessions[t].user].role

\* When a password was replaced or an account deactivated, and nobody was just then
\* authenticating to the account, no session of before remains, now or later: every
\* session was made for the current password, and a deactivated account has none.
SeveredSessionsAreGone ==
    \A u \in clean \cap DOMAIN users :
        /\ \A t \in SessionsOf(u) : sessions[t].password = users[u].password
        /\ ~users[u].active => SessionsOf(u) = {}

\* As long as no hash is upgraded and nobody was authenticating when the password
\* was last replaced, nobody does an administrator's work on a session that was
\* opened with a one-time password, which somebody else has seen.
HandoverOpensNothing ==
    [][\A r \in Request : SetActive(r) \/ SetRole(r) \/ StartHash(r) =>
          \A a \in actor[r] :
             "oldHash" \notin faults /\ a.user \in clean /\ a.session \in DOMAIN sessions
             => passwords[a.user][sessions[a.session].password] = "chosen"]_vars

\* auth.routes.js: a password change ends every session on the account; users.js: so
\* does a reset.
NoSessionFromReplacedPassword ==
    \A t \in DOMAIN sessions :
        sessions[t].password = users[sessions[t].user].password

\* A replaced password never opens the account again.
ReplacedPasswordStaysDead ==
    [][\A u \in DOMAIN users : users'[u].password >= users[u].password]_vars
=============================================================================
