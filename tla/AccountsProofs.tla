--------------------------- MODULE AccountsProofs ---------------------------
(* Proofs about Accounts, for any number of addresses and requests. *)
EXTENDS Accounts, FiniteSetTheorems, SequenceTheorems, TLAPS

-----------------------------------------------------------------------------
(* Types, and which requests know which accounts *)

PCs == {"idle", "body", "verify", "hash", "over"}
Ops == SessionOps \cup {"none", "login"}

TableInv ==
    /\ users \in [DOMAIN users -> Account]
    /\ DOMAIN users \subseteq User
    /\ sessions \in [DOMAIN sessions -> Session]
    /\ tokens \in Nat
    /\ DOMAIN sessions \subseteq 1 .. tokens
    /\ \A t \in DOMAIN sessions : Exists(sessions[t].user)
    /\ passwords \in [User -> Seq({"chosen", "oneTime"})]

RequestInv ==
    /\ pc \in [Request -> PCs]
    /\ op \in [Request -> Ops]
    /\ target \in [Request -> User \cup {Nobody}]
    /\ actor \in [Request -> SUBSET Actor]
    /\ row \in [Request -> SUBSET Account]

\* Whoever a request is about exists, except in a creation.
Knows(r) ==
    /\ pc[r] = "body" => op[r] \in SessionOps
    /\ pc[r] = "verify" => op[r] \in {"login", "change"}
    /\ pc[r] \in {"body", "verify", "hash"} /\ op[r] # "create" => Exists(target[r])
    /\ pc[r] \in {"body", "hash"} /\ op[r] = "create" => target[r] \in User
    /\ pc[r] = "hash" /\ op[r] = "login" => \A a \in row[r] : a.active
    /\ row[r] # {} => pc[r] \in {"verify", "hash"} /\ op[r] \in {"login", "change"}
    /\ \A a, b \in row[r] : a = b

TargetInv == \A r \in Request : Knows(r)

\* A row has the password that was stored last, or one stored before it.
PasswordInv ==
    /\ \A u \in DOMAIN users : users[u].password \in 1 .. Len(passwords[u])
    /\ \A r \in Request : \A a \in row[r] :
          a.password \in 1 .. Len(passwords[target[r]])

TypeInv ==
    /\ TableInv /\ RequestInv /\ TargetInv /\ PasswordInv
    /\ tokens <= MaxSessions /\ clean \subseteq User /\ faults \in FaultSets

LEMMA AccountFields ==
    ASSUME NEW a
    PROVE  a \in Account <=>
              /\ a = [password |-> a.password, old |-> a.old, role |-> a.role,
                      active |-> a.active, mustChange |-> a.mustChange]
              /\ a.password \in Nat /\ a.old \in BOOLEAN /\ a.role \in Roles
              /\ a.active \in BOOLEAN /\ a.mustChange \in BOOLEAN
BY DEF Account

\* Dropping sessions.
LEMMA WithoutTable ==
    ASSUME TableInv, NEW ts
    PROVE  /\ DOMAIN Without(ts) = DOMAIN sessions \ ts
           /\ Without(ts) \in [DOMAIN sessions \ ts -> Session]
           /\ \A t \in DOMAIN sessions \ ts : Without(ts)[t] = sessions[t]
BY DEF TableInv, Without, Restrict

LEMMA DestroyTable ==
    ASSUME TableInv, NEW u
    PROVE  /\ DOMAIN DestroyUserSessions(u) \subseteq DOMAIN sessions
           /\ \A t \in DOMAIN sessions :
                 t \in DOMAIN DestroyUserSessions(u) <=> sessions[t].user # u
           /\ DestroyUserSessions(u) \in [DOMAIN DestroyUserSessions(u) -> Session]
           /\ \A t \in DOMAIN DestroyUserSessions(u) :
                 DestroyUserSessions(u)[t] = sessions[t]
<1> DEFINE ts == SessionsOf(u)
<1>1. DestroyUserSessions(u) = Without(ts)
  BY DEF DestroyUserSessions
<1>2. \A t \in DOMAIN sessions : t \in DOMAIN sessions \ ts <=> sessions[t].user # u
  BY DEF SessionsOf
<1> HIDE DEF ts
<1>3. /\ DOMAIN Without(ts) = DOMAIN sessions \ ts
      /\ Without(ts) \in [DOMAIN sessions \ ts -> Session]
      /\ \A t \in DOMAIN sessions \ ts : Without(ts)[t] = sessions[t]
  BY WithoutTable
<1> QED
  BY <1>1, <1>2, <1>3

\* Adding a session to some of those there are.
LEMMA NewSessionTable ==
    ASSUME TableInv, NEW u \in DOMAIN users, NEW p \in Nat,
           NEW left, left \in [DOMAIN left -> Session], DOMAIN left \subseteq DOMAIN sessions
    PROVE  /\ DOMAIN WithNewSession(left, u, p) = DOMAIN left \cup {tokens + 1}
           /\ WithNewSession(left, u, p) \in [DOMAIN left \cup {tokens + 1} -> Session]
           /\ \A t \in DOMAIN left : WithNewSession(left, u, p)[t] = left[t]
           /\ WithNewSession(left, u, p)[tokens + 1]
                = [user |-> u, password |-> p, role |-> users[u].role]
           /\ tokens + 1 \in 1 .. tokens + 1 /\ tokens + 1 \notin DOMAIN left
           /\ 1 .. tokens \subseteq 1 .. tokens + 1
<1>1. [user |-> u, password |-> p, role |-> users[u].role] \in Session
  BY AccountFields DEF TableInv, Session, Account
<1>2. tokens \in Nat /\ \A t \in DOMAIN left : t # tokens + 1
  BY DEF TableInv
<1> QED
  BY <1>1, <1>2 DEF WithNewSession

\* Storing a password touches the one row.
LEMMA StoredPassword ==
    ASSUME TableInv, NEW u \in DOMAIN users, NEW kind \in {"chosen", "oneTime"},
           StorePassword(u, kind)
    PROVE  /\ DOMAIN users' = DOMAIN users
           /\ users' \in [DOMAIN users -> Account]
           /\ \A v \in DOMAIN users \ {u} : users'[v] = users[v]
           /\ users'[u].password = Len(passwords[u]) + 1
           /\ users'[u].role = users[u].role
           /\ users'[u].active = users[u].active
           /\ passwords' \in [User -> Seq({"chosen", "oneTime"})]
           /\ Len(passwords[u]) + 1 \in Nat
<1>1. passwords[u] \in Seq({"chosen", "oneTime"}) /\ u \in User
  BY DEF TableInv
<1>2. Len(passwords[u]) + 1 \in Nat /\ Append(passwords[u], kind) \in Seq({"chosen", "oneTime"})
  BY <1>1
<1>3. passwords' \in [User -> Seq({"chosen", "oneTime"})]
  BY <1>1, <1>2 DEF TableInv, StorePassword
<1>4. users[u] \in Account
  BY DEF TableInv
<1>5. /\ DOMAIN users' = DOMAIN users
      /\ \A v \in DOMAIN users \ {u} : users'[v] = users[v]
      /\ users'[u] = [users[u] EXCEPT !.password = Len(passwords[u]) + 1, !.old = FALSE,
                                      !.mustChange = (kind = "oneTime")]
      /\ users' \in [DOMAIN users -> Account]
  <2> DEFINE new == [users[u] EXCEPT !.password = Len(passwords[u]) + 1, !.old = FALSE,
                                     !.mustChange = (kind = "oneTime")]
  <2>1. new \in Account
    BY <1>2, <1>4 DEF Account
  <2>2. users' = [users EXCEPT ![u] = new]
    BY DEF StorePassword
  <2> HIDE DEF new
  <2>3. /\ DOMAIN users' = DOMAIN users
        /\ \A v \in DOMAIN users \ {u} : users'[v] = users[v]
        /\ users'[u] = new
        /\ users' \in [DOMAIN users -> Account]
    BY <2>1, <2>2 DEF TableInv
  <2> QED
    BY <2>3 DEF new
<1> QED
  BY <1>2, <1>3, <1>4, <1>5 DEF Account

\* Writing one account.
LEMMA OneAccount ==
    ASSUME TableInv, NEW u \in DOMAIN users, NEW a \in Account,
           users' = [users EXCEPT ![u] = a]
    PROVE  /\ DOMAIN users' = DOMAIN users
           /\ users' \in [DOMAIN users -> Account]
           /\ \A v \in DOMAIN users \ {u} : users'[v] = users[v]
           /\ users'[u] = a
BY DEF TableInv

LEMMA SetActiveTable ==
    ASSUME TableInv, NEW u \in DOMAIN users, NEW b \in BOOLEAN,
           users' = [users EXCEPT ![u].active = b]
    PROVE  /\ DOMAIN users' = DOMAIN users
           /\ users' \in [DOMAIN users -> Account]
           /\ \A v \in DOMAIN users \ {u} : users'[v] = users[v]
           /\ users'[u].password = users[u].password
           /\ users'[u].role = users[u].role
           /\ users'[u].active = b
<1> DEFINE a == [users[u] EXCEPT !.active = b]
<1>1. users[u] \in Account
  BY DEF TableInv
<1>2. a \in Account /\ a.password = users[u].password /\ a.role = users[u].role /\ a.active = b
  BY <1>1 DEF Account
<1>3. users' = [users EXCEPT ![u] = a]
  OBVIOUS
<1> HIDE DEF a
<1> QED
  BY <1>2, <1>3, OneAccount

LEMMA SetRoleTable ==
    ASSUME TableInv, NEW u \in DOMAIN users, NEW role \in Roles,
           users' = [users EXCEPT ![u].role = role]
    PROVE  /\ DOMAIN users' = DOMAIN users
           /\ users' \in [DOMAIN users -> Account]
           /\ \A v \in DOMAIN users \ {u} : users'[v] = users[v]
           /\ users'[u].password = users[u].password
           /\ users'[u].role = role
           /\ users'[u].active = users[u].active
<1> DEFINE a == [users[u] EXCEPT !.role = role]
<1>1. users[u] \in Account
  BY DEF TableInv
<1>2. a \in Account /\ a.password = users[u].password /\ a.role = role
      /\ a.active = users[u].active
  BY <1>1 DEF Account
<1>3. users' = [users EXCEPT ![u] = a]
  OBVIOUS
<1> HIDE DEF a
<1> QED
  BY <1>2, <1>3, OneAccount

LEMMA RehashTable ==
    ASSUME TableInv, NEW u \in DOMAIN users, NEW p \in Nat,
           users' = [users EXCEPT ![u].password = p, ![u].old = FALSE]
    PROVE  /\ DOMAIN users' = DOMAIN users
           /\ users' \in [DOMAIN users -> Account]
           /\ \A v \in DOMAIN users \ {u} : users'[v] = users[v]
           /\ users'[u].password = p
           /\ users'[u].role = users[u].role
           /\ users'[u].active = users[u].active
<1> DEFINE a == [users[u] EXCEPT !.password = p, !.old = FALSE]
<1>1. users[u] \in Account
  BY DEF TableInv
<1>2. a \in Account /\ a.password = p /\ a.role = users[u].role
      /\ a.active = users[u].active
  BY <1>1 DEF Account
<1>3. users' = [users EXCEPT ![u] = a]
  BY DEF TableInv
<1> HIDE DEF a
<1> QED
  BY <1>2, <1>3, OneAccount

-----------------------------------------------------------------------------
(* What a step does to the sessions *)

\* Some sessions end, the others stay as they are.
Shrink ==
    /\ DOMAIN sessions' \subseteq DOMAIN sessions
    /\ sessions' \in [DOMAIN sessions' -> Session]
    /\ \A t \in DOMAIN sessions' : sessions'[t] = sessions[t]

\* One is added besides, for u's password p.
Rotate(u, p) ==
    /\ tokens' = tokens + 1
    /\ DOMAIN sessions' \subseteq DOMAIN sessions \cup {tokens + 1}
    /\ sessions' \in [DOMAIN sessions' -> Session]
    /\ \A t \in DOMAIN sessions' \ {tokens + 1} : sessions'[t] = sessions[t]
    /\ tokens + 1 \in DOMAIN sessions'
    /\ sessions'[tokens + 1] = [user |-> u, password |-> p, role |-> users[u].role]

LEMMA ShrinkWithout ==
    ASSUME TableInv, NEW ts, sessions' = Without(ts)
    PROVE  Shrink
<1>1. /\ DOMAIN Without(ts) = DOMAIN sessions \ ts
      /\ Without(ts) \in [DOMAIN sessions \ ts -> Session]
      /\ \A t \in DOMAIN sessions \ ts : Without(ts)[t] = sessions[t]
  BY WithoutTable
<1> QED
  BY <1>1 DEF Shrink

LEMMA ShrinkDestroy ==
    ASSUME TableInv, NEW u, sessions' = DestroyUserSessions(u)
    PROVE  Shrink /\ \A t \in DOMAIN sessions' : sessions[t].user # u
<1>1. /\ DOMAIN DestroyUserSessions(u) \subseteq DOMAIN sessions
      /\ \A t \in DOMAIN sessions :
            t \in DOMAIN DestroyUserSessions(u) <=> sessions[t].user # u
      /\ DestroyUserSessions(u) \in [DOMAIN DestroyUserSessions(u) -> Session]
      /\ \A t \in DOMAIN DestroyUserSessions(u) :
            DestroyUserSessions(u)[t] = sessions[t]
  BY DestroyTable
<1> QED
  BY <1>1 DEF Shrink

LEMMA ShrinkUnchanged ==
    ASSUME TableInv, UNCHANGED sessions
    PROVE  Shrink
BY DEF TableInv, Shrink

LEMMA RotateLeft ==
    ASSUME TableInv, NEW u \in DOMAIN users, NEW p \in Nat,
           NEW left, left \in [DOMAIN left -> Session], DOMAIN left \subseteq DOMAIN sessions,
           \A t \in DOMAIN left : left[t] = sessions[t],
           sessions' = WithNewSession(left, u, p), tokens' = tokens + 1
    PROVE  Rotate(u, p) /\ DOMAIN sessions' = DOMAIN left \cup {tokens + 1}
<1>1. /\ DOMAIN WithNewSession(left, u, p) = DOMAIN left \cup {tokens + 1}
      /\ WithNewSession(left, u, p) \in [DOMAIN left \cup {tokens + 1} -> Session]
      /\ \A t \in DOMAIN left : WithNewSession(left, u, p)[t] = left[t]
      /\ WithNewSession(left, u, p)[tokens + 1]
           = [user |-> u, password |-> p, role |-> users[u].role]
  BY NewSessionTable
<1> QED
  BY <1>1 DEF Rotate

LEMMA RotateWithout ==
    ASSUME TableInv, NEW u \in DOMAIN users, NEW p \in Nat, NEW ts,
           sessions' = WithNewSession(Without(ts), u, p), tokens' = tokens + 1
    PROVE  Rotate(u, p)
<1> DEFINE left == Without(ts)
<1>1. /\ DOMAIN left = DOMAIN sessions \ ts
      /\ left \in [DOMAIN sessions \ ts -> Session]
      /\ \A t \in DOMAIN sessions \ ts : left[t] = sessions[t]
  BY WithoutTable
<1>2. sessions' = WithNewSession(left, u, p)
  OBVIOUS
<1> HIDE DEF left
<1> QED
  BY <1>1, <1>2, RotateLeft

LEMMA RotateDestroy ==
    ASSUME TableInv, NEW u \in DOMAIN users, NEW p \in Nat,
           sessions' = WithNewSession(DestroyUserSessions(u), u, p),
           tokens' = tokens + 1
    PROVE  /\ Rotate(u, p)
           /\ \A t \in DOMAIN sessions' \ {tokens + 1} : sessions[t].user # u
<1> DEFINE left == DestroyUserSessions(u)
<1>1. /\ DOMAIN left \subseteq DOMAIN sessions
      /\ \A t \in DOMAIN sessions : t \in DOMAIN left <=> sessions[t].user # u
      /\ left \in [DOMAIN left -> Session]
      /\ \A t \in DOMAIN left : left[t] = sessions[t]
  BY DestroyTable
<1>2. sessions' = WithNewSession(left, u, p)
  OBVIOUS
<1> HIDE DEF left
<1>3. Rotate(u, p) /\ DOMAIN sessions' = DOMAIN left \cup {tokens + 1}
  BY <1>1, <1>2, RotateLeft
<1> QED
  BY <1>1, <1>3

-----------------------------------------------------------------------------
(* What a step does to the requests *)

\* Accounts stay and passwords are only added.
Grow ==
    /\ DOMAIN users \subseteq DOMAIN users'
    /\ \A u \in DOMAIN users : Len(passwords[u]) <= Len(passwords'[u])
    /\ \A u \in User : Len(passwords'[u]) \in Nat

RequestsOK ==
    /\ RequestInv /\ TargetInv
    /\ \A r \in Request : \A a \in row[r] : a.password \in 1 .. Len(passwords[target[r]])

LEMMA RowTarget ==
    ASSUME TypeInv, NEW r \in Request, row[r] # {}
    PROVE  target[r] \in DOMAIN users
BY DEF TypeInv, TargetInv, Knows, Exists

LEMMA LengthsAreNat ==
    ASSUME TypeInv, NEW u \in User
    PROVE  Len(passwords[u]) \in Nat
BY DEF TypeInv, TableInv

LEMMA RowsGrow ==
    ASSUME TypeInv, Grow, NEW r \in Request, NEW a \in row[r]
    PROVE  a.password \in 1 .. Len(passwords'[target[r]])
<1>1. target[r] \in DOMAIN users /\ target[r] \in User
  BY RowTarget DEF TypeInv, TableInv
<1>2. a.password \in 1 .. Len(passwords[target[r]])
  BY DEF TypeInv, PasswordInv
<1>3. Len(passwords[target[r]]) \in Nat
  BY <1>1, LengthsAreNat
<1> QED
  BY <1>1, <1>2, <1>3 DEF Grow

\* A request that is over knows nothing.
LEMMA OverIsTyped ==
    ASSUME TypeInv, Grow, NEW r \in Request, Over(r)
    PROVE  RequestsOK'
<1>1. RequestInv'
  BY DEF TypeInv, RequestInv, Over, Goto, PCs, Ops
<1>2. TargetInv'
  <2> SUFFICES ASSUME NEW q \in Request
               PROVE  Knows(q)'
    BY DEF TargetInv
  <2>1. CASE q = r
    BY <2>1 DEF TypeInv, RequestInv, Over, Goto, Knows
  <2>2. CASE q # r
    BY <2>2 DEF TypeInv, RequestInv, TargetInv, Knows, Over, Goto, Grow, Exists
  <2> QED
    BY <2>1, <2>2
<1>3. \A q \in Request : \A a \in row'[q] : a.password \in 1 .. Len(passwords'[target'[q]])
  <2> SUFFICES ASSUME NEW q \in Request, NEW a \in row'[q]
               PROVE  a.password \in 1 .. Len(passwords'[target'[q]])
    OBVIOUS
  <2>1. q # r /\ row'[q] = row[q] /\ target'[q] = target[q]
    BY DEF TypeInv, RequestInv, Over
  <2> QED
    BY <2>1, RowsGrow
<1> QED
  BY <1>1, <1>2, <1>3 DEF RequestsOK

OnlyRequest(r) ==
    \A q \in Request \ {r} :
        /\ pc'[q] = pc[q] /\ op'[q] = op[q] /\ target'[q] = target[q]
        /\ actor'[q] = actor[q] /\ row'[q] = row[q]

LEMMA MoveIsTyped ==
    ASSUME TypeInv, Grow, NEW r \in Request, OnlyRequest(r), RequestInv', Knows(r)',
           \A a \in row'[r] : a.password \in 1 .. Len(passwords'[target'[r]])
    PROVE  RequestsOK'
<1>1. \A q \in Request \ {r} : Knows(q)'
  BY DEF TypeInv, TargetInv, Knows, OnlyRequest, Grow, Exists
<1>2. TargetInv'
  BY <1>1 DEF TargetInv
<1>3. \A q \in Request : \A a \in row'[q] : a.password \in 1 .. Len(passwords'[target'[q]])
  <2> SUFFICES ASSUME NEW q \in Request \ {r}, NEW a \in row'[q]
               PROVE  a.password \in 1 .. Len(passwords'[target'[q]])
    OBVIOUS
  <2> QED
    BY RowsGrow DEF OnlyRequest
<1> QED
  BY <1>2, <1>3 DEF RequestsOK

LEMMA GrowUnchanged ==
    ASSUME TypeInv, UNCHANGED passwords, DOMAIN users \subseteq DOMAIN users'
    PROVE  Grow
<1>1. \A u \in User : Len(passwords[u]) \in Nat
  BY LengthsAreNat
<1> QED
  BY <1>1 DEF Grow, TypeInv, TableInv

LEMMA ShrinkIsTyped ==
    ASSUME TypeInv, Shrink, UNCHANGED tokens, users' \in [DOMAIN users' -> Account],
           DOMAIN users \subseteq DOMAIN users', DOMAIN users' \subseteq User,
           passwords' \in [User -> Seq({"chosen", "oneTime"})]
    PROVE  TableInv' /\ (tokens <= MaxSessions)'
BY DEF TypeInv, TableInv, Shrink, Exists

LEMMA RotateIsTyped ==
    ASSUME TypeInv, NEW u \in DOMAIN users, NEW p \in Nat, Rotate(u, p),
           tokens < MaxSessions, users' \in [DOMAIN users' -> Account],
           DOMAIN users \subseteq DOMAIN users', DOMAIN users' \subseteq User,
           passwords' \in [User -> Seq({"chosen", "oneTime"})]
    PROVE  TableInv' /\ (tokens <= MaxSessions)'
<1>1. tokens \in Nat /\ tokens' = tokens + 1 /\ MaxSessions \in Nat
  BY AccountsAssumption DEF TypeInv, TableInv, Rotate
<1>2. DOMAIN sessions' \subseteq 1 .. tokens'
  BY <1>1 DEF TypeInv, TableInv, Rotate
<1>3. \A t \in DOMAIN sessions' : sessions'[t].user \in DOMAIN users'
  <2> SUFFICES ASSUME NEW t \in DOMAIN sessions' PROVE sessions'[t].user \in DOMAIN users'
    OBVIOUS
  <2>1. CASE t = tokens + 1
    BY <2>1 DEF Rotate
  <2>2. CASE t # tokens + 1
    <3>1. t \in DOMAIN sessions /\ sessions'[t] = sessions[t]
      BY <2>2 DEF Rotate
    <3> QED
      BY <3>1 DEF TypeInv, TableInv, Exists
  <2> QED
    BY <2>1, <2>2
<1>4. sessions' \in [DOMAIN sessions' -> Session]
  BY DEF Rotate
<1> QED
  BY <1>1, <1>2, <1>3, <1>4 DEF TableInv, Exists

\* A step that writes neither accounts nor passwords is typed if its request is, and
\* if it ends sessions or adds one.
LEMMA SameAccounts ==
    ASSUME TypeInv, UNCHANGED <<users, passwords, faults>>, clean' \subseteq User, RequestsOK',
           \/ Shrink /\ UNCHANGED tokens
           \/ /\ tokens < MaxSessions
              /\ \E u \in DOMAIN users, p \in Nat : Rotate(u, p)
    PROVE  TypeInv'
<1>1. /\ users' \in [DOMAIN users' -> Account] /\ DOMAIN users' = DOMAIN users
      /\ DOMAIN users \subseteq User /\ passwords' \in [User -> Seq({"chosen", "oneTime"})]
  BY DEF TypeInv, TableInv
<1>2. TableInv' /\ (tokens <= MaxSessions)'
  BY <1>1, ShrinkIsTyped, RotateIsTyped
<1>3. PasswordInv'
  BY DEF TypeInv, PasswordInv, RequestsOK
<1> QED
  BY <1>2, <1>3 DEF TypeInv, RequestsOK

LEMMA SameIsGrow ==
    ASSUME TypeInv, UNCHANGED <<users, passwords>>
    PROVE  Grow
BY GrowUnchanged

LEMMA AttachedTyped ==
    ASSUME TypeInv, NEW t \in DOMAIN sessions
    PROVE  Attached(t) \subseteq Actor
<1>1. /\ sessions[t].user \in DOMAIN users /\ sessions[t].user \in User
      /\ t \in Nat /\ users[sessions[t].user] \in Account
  BY DEF TypeInv, TableInv, Exists
<1> QED
  BY <1>1 DEF Attached, Actor, Account

LEMMA ArriveIsTyped ==
    ASSUME TypeInv, NEW r \in Request, NEW t \in DOMAIN sessions,
           NEW o \in SessionOps, NEW u \in User, Arrive(r, t, o, u)
    PROVE  TypeInv'
<1>1. Grow /\ Shrink
  BY SameIsGrow, ShrinkUnchanged DEF Arrive, tables, TypeInv
<1>2. Attached(t) \subseteq Actor
  BY AttachedTyped
<1>3. RequestInv' /\ OnlyRequest(r)
  BY <1>2 DEF Arrive, TypeInv, RequestInv, Goto, PCs, Ops, OnlyRequest
<1>4. o # "create" => Exists(u)
  BY DEF Arrive, TypeInv, TableInv, Exists, SessionOps, AdminOps
<1>5. row[r] = {}
  BY DEF Arrive, TypeInv, TargetInv, Knows
<1>6. pc'[r] = "body" /\ op'[r] = o /\ target'[r] = u /\ row'[r] = {} /\ users' = users
  BY <1>5 DEF Arrive, TypeInv, RequestInv, Goto, tables
<1>7. Knows(r)'
  BY <1>4, <1>6 DEF Knows, Exists
<1>8. RequestsOK'
  BY <1>1, <1>3, <1>6, <1>7, MoveIsTyped
<1> QED
  BY <1>1, <1>8, SameAccounts DEF Arrive, tables, TypeInv

LEMMA StartLoginIsTyped ==
    ASSUME TypeInv, NEW r \in Request, NEW u \in User, StartLogin(r, u)
    PROVE  TypeInv'
<1>1. Grow /\ Shrink
  BY SameIsGrow, ShrinkUnchanged, ShrinkDestroy DEF StartLogin, TypeInv, DropSessionsOfDeactivated
<1>2. actor' \in [Request -> SUBSET Actor]
  BY AttachedTyped DEF StartLogin, TypeInv, RequestInv
<1>3. users[u] \in Account /\ u \in DOMAIN users
  BY DEF StartLogin, TypeInv, TableInv, Exists
<1>4. \A q \in Request \ {r} : actor'[q] = actor[q]
  BY DEF StartLogin, TypeInv, RequestInv
<1>5. RequestInv' /\ OnlyRequest(r)
  BY <1>2, <1>3, <1>4 DEF StartLogin, TypeInv, RequestInv, Goto, PCs, Ops, OnlyRequest
<1>6. /\ pc'[r] = "verify" /\ op'[r] = "login" /\ target'[r] = u /\ row'[r] = {users[u]}
      /\ users' = users /\ passwords' = passwords
  BY DEF StartLogin, TypeInv, RequestInv, Goto
<1>7. Knows(r)'
  BY <1>3, <1>6 DEF Knows, Exists
<1>8. users[u].password \in 1 .. Len(passwords[u])
  BY <1>3 DEF TypeInv, PasswordInv
<1>9. RequestsOK'
  BY <1>1, <1>5, <1>6, <1>7, <1>8, MoveIsTyped
<1> QED
  BY <1>1, <1>9, SameAccounts DEF StartLogin, TypeInv

\* A request that goes on to its KDF with what it knows.
LEMMA HashIsTyped ==
    ASSUME TypeInv, Grow, NEW r \in Request, pc[r] \in {"body", "verify"},
           Goto(r, "hash"), UNCHANGED <<op, target, actor, row>>,
           op[r] = "login" => \A a \in row[r] : a.active
    PROVE  RequestsOK'
<1>1. RequestInv' /\ OnlyRequest(r) /\ pc'[r] = "hash"
  BY DEF Goto, TypeInv, RequestInv, PCs, OnlyRequest
<1>2. Knows(r)
  BY DEF TypeInv, TargetInv
<1>3. Knows(r)'
  BY <1>1, <1>2 DEF Knows, Grow, Exists
<1>4. \A a \in row'[r] : a.password \in 1 .. Len(passwords'[target'[r]])
  BY RowsGrow
<1> QED
  BY <1>1, <1>3, <1>4, MoveIsTyped

LEMMA StartChangeIsTyped ==
    ASSUME TypeInv, NEW r \in Request, StartChange(r)
    PROVE  TypeInv'
<1>1. Grow /\ Shrink
  BY SameIsGrow, ShrinkUnchanged DEF StartChange, tables, TypeInv
<1>2. Knows(r) /\ pc[r] = "body" /\ op[r] = "change"
  BY DEF StartChange, Handling, TypeInv, TargetInv
<1>3. target[r] \in DOMAIN users /\ users[target[r]] \in Account
  BY <1>2 DEF Knows, Exists, TypeInv, TableInv
<1>4. RequestInv' /\ OnlyRequest(r)
  BY <1>3 DEF StartChange, TypeInv, RequestInv, Goto, PCs, Ops, OnlyRequest
<1>5. /\ pc'[r] = "verify" /\ op'[r] = "change" /\ target'[r] = target[r]
      /\ row'[r] = {users[target[r]]} /\ users' = users /\ passwords' = passwords
  BY <1>2 DEF StartChange, TypeInv, RequestInv, Goto, tables
<1>6. Knows(r)'
  BY <1>3, <1>5 DEF Knows, Exists
<1>7. users[target[r]].password \in 1 .. Len(passwords[target[r]])
  BY <1>3 DEF TypeInv, PasswordInv
<1>8. RequestsOK'
  BY <1>1, <1>4, <1>5, <1>6, <1>7, MoveIsTyped
<1> QED
  BY <1>1, <1>8, SameAccounts DEF StartChange, tables, TypeInv

LEMMA ScriptCreateIsTyped ==
    ASSUME TypeInv, NEW r \in Request, NEW u \in User, ScriptCreate(r, u)
    PROVE  TypeInv'
<1>1. Grow /\ Shrink
  BY SameIsGrow, ShrinkUnchanged DEF ScriptCreate, tables, TypeInv
<1>2. RequestInv' /\ OnlyRequest(r)
  BY DEF ScriptCreate, TypeInv, RequestInv, Goto, PCs, Ops, SessionOps, AdminOps, OnlyRequest
<1>3. row[r] = {}
  BY DEF ScriptCreate, TypeInv, TargetInv, Knows
<1>4. pc'[r] = "hash" /\ op'[r] = "create" /\ target'[r] = u /\ row'[r] = {}
  BY <1>3 DEF ScriptCreate, TypeInv, RequestInv, Goto
<1>5. Knows(r)'
  BY <1>4 DEF Knows
<1>6. RequestsOK'
  BY <1>1, <1>2, <1>4, <1>5, MoveIsTyped
<1> QED
  BY <1>1, <1>6, SameAccounts DEF ScriptCreate, tables, TypeInv

\* The other steps that leave accounts and passwords alone.
LEMMA QuietStepsAreTyped ==
    ASSUME TypeInv, NEW r \in Request,
           \/ \E t \in DOMAIN sessions : ArriveDeactivated(r, t)
           \/ Refused(r) \/ SignOut(r) \/ StartHash(r) \/ ChangeVerified(r)
           \/ LoginVerified(r)
    PROVE  TypeInv'
<1>1. Grow /\ UNCHANGED <<users, passwords, clean, faults>>
  BY SameIsGrow
     DEF ArriveDeactivated, Refused, SignOut, StartHash, ChangeVerified, LoginVerified, tables
<1>2. TableInv /\ clean \subseteq User
  BY DEF TypeInv
<1>3. ASSUME NEW t \in DOMAIN sessions, ArriveDeactivated(r, t) PROVE TypeInv'
  <2>1. Shrink /\ UNCHANGED tokens
    BY <1>2, <1>3, ShrinkDestroy DEF ArriveDeactivated, DropSessionsOfDeactivated
  <2> QED
    BY <1>1, <1>2, <1>3, <2>1, OverIsTyped, SameAccounts DEF ArriveDeactivated
<1>4. CASE Refused(r)
  <2>1. Shrink /\ UNCHANGED tokens
    BY <1>2, <1>4, ShrinkUnchanged DEF Refused, tables
  <2> QED
    BY <1>1, <1>2, <1>4, <2>1, OverIsTyped, SameAccounts DEF Refused
<1>5. CASE SignOut(r)
  <2>1. Shrink /\ UNCHANGED tokens
    BY <1>2, <1>5, ShrinkWithout DEF SignOut
  <2> QED
    BY <1>1, <1>2, <1>5, <2>1, OverIsTyped, SameAccounts DEF SignOut
<1>6. CASE StartHash(r)
  <2>1. Shrink /\ UNCHANGED tokens
    BY <1>2, <1>6, ShrinkUnchanged DEF StartHash, tables
  <2>2. RequestsOK'
    BY <1>1, <1>6, HashIsTyped DEF StartHash, Handling
  <2> QED
    BY <1>1, <1>2, <2>1, <2>2, SameAccounts
<1>7. CASE ChangeVerified(r)
  <2>1. Shrink /\ UNCHANGED tokens
    BY <1>2, <1>7, ShrinkUnchanged DEF ChangeVerified, tables
  <2>2. RequestsOK'
    BY <1>1, <1>7, HashIsTyped, OverIsTyped DEF ChangeVerified
  <2> QED
    BY <1>1, <1>2, <2>1, <2>2, SameAccounts
<1>8. CASE LoginVerified(r)
  <2>1. PICK account \in row[r] :
           /\ account.active
           /\ IF account.old
              THEN /\ Goto(r, "hash")
                   /\ UNCHANGED <<sessions, tokens, op, target, actor, row>>
              ELSE RotateSession(r, account) /\ Over(r)
    BY <1>8 DEF LoginVerified
  <2>2. pc[r] = "verify" /\ op[r] = "login"
    BY <1>8 DEF LoginVerified
  <2>3. target[r] \in DOMAIN users /\ account.password \in Nat
    BY RowTarget DEF TypeInv, RequestInv, Account
  <2>4. CASE account.old
    <3>1. \A a \in row[r] : a.active
      BY <2>1 DEF TypeInv, TargetInv, Knows
    <3>2. Shrink /\ UNCHANGED tokens
      BY <1>2, <2>1, <2>4, ShrinkUnchanged
    <3>3. RequestsOK'
      BY <1>1, <2>1, <2>2, <2>4, <3>1, HashIsTyped
    <3> QED
      BY <1>1, <1>2, <3>2, <3>3, SameAccounts
  <2>5. CASE ~account.old
    <3>1. tokens < MaxSessions /\ Rotate(target[r], account.password)
      BY <1>2, <2>1, <2>3, <2>5, RotateWithout DEF RotateSession
    <3>2. RequestsOK'
      BY <1>1, <2>1, <2>5, OverIsTyped
    <3> QED
      BY <1>1, <1>2, <2>3, <3>1, <3>2, SameAccounts
  <2> QED
    BY <2>4, <2>5
<1> QED
  BY <1>3, <1>4, <1>5, <1>6, <1>7, <1>8

-----------------------------------------------------------------------------
(* What a step does to the tables *)

OnlyAccount(u) ==
    /\ u \in DOMAIN users
    /\ DOMAIN users' = DOMAIN users
    /\ users' \in [DOMAIN users -> Account]
    /\ \A v \in DOMAIN users \ {u} : users'[v] = users[v]

SessionsEnd(u) == Shrink /\ \A t \in DOMAIN sessions' : sessions[t].user # u

\* Some sessions end.
Quiet == Shrink /\ UNCHANGED <<users, passwords, tokens, clean>>

\* u is deactivated by r.
Unseat(u, r) ==
    /\ OnlyAccount(u) /\ SessionsEnd(u) /\ Sever(u, r) /\ Over(r)
    /\ UNCHANGED <<passwords, tokens>>
    /\ users'[u].password = users[u].password
    /\ users'[u].role = users[u].role
    /\ users'[u].active = FALSE
    /\ "cap" \notin faults => ~LastAdmin(u)

\* u is activated.
Seat(u) ==
    /\ OnlyAccount(u) /\ UNCHANGED <<sessions, passwords, tokens, clean>>
    /\ users'[u].password = users[u].password
    /\ users'[u].role = users[u].role
    /\ users'[u].active = TRUE

\* u is given a role.
Rerole(u, role) ==
    /\ OnlyAccount(u) /\ SessionsEnd(u) /\ UNCHANGED <<passwords, tokens, clean>>
    /\ users'[u].password = users[u].password
    /\ users'[u].role = role /\ (role # "admin" => ~LastAdmin(u))
    /\ users'[u].active = users[u].active

\* u has a new password.
Stored(u) ==
    /\ OnlyAccount(u)
    /\ \E kind \in {"chosen", "oneTime"} :
          passwords' = [passwords EXCEPT ![u] = Append(@, kind)]
    /\ users'[u].password = Len(passwords[u]) + 1
    /\ users'[u].role = users[u].role
    /\ users'[u].active = users[u].active

Reset(u, r) == Stored(u) /\ SessionsEnd(u) /\ Sever(u, r) /\ Over(r) /\ UNCHANGED tokens

\* u's owner has chosen a password in r.
Changed(u, r) ==
    /\ Stored(u) /\ tokens < MaxSessions /\ Over(r)
    /\ Rotate(u, Len(passwords[u]) + 1)
    /\ \A t \in DOMAIN sessions' \ {tokens + 1} : sessions[t].user # u
    /\ IF users[u].active THEN Sever(u, r) ELSE clean' = clean \ {u}

\* Or the process died while u's owner was choosing one.
HalfChanged(u) ==
    Stored(u) /\ Shrink /\ clean' = clean \ {u} /\ UNCHANGED tokens

\* u is a new account.
Created(u) ==
    /\ u \in User \ DOMAIN users
    /\ DOMAIN users' = DOMAIN users \cup {u}
    /\ users' \in [DOMAIN users \cup {u} -> Account]
    /\ \A v \in DOMAIN users : users'[v] = users[v]
    /\ users'[u].password = 1
    /\ passwords' = [passwords EXCEPT ![u] = <<"oneTime">>]
    /\ UNCHANGED <<sessions, tokens, clean>>

\* u has signed in with the row account.
SignedIn(u, account) ==
    /\ tokens < MaxSessions /\ account.active /\ account.password \in Nat
    /\ Rotate(u, account.password)
    /\ OnlyAccount(u)
    /\ users'[u].password \in {users[u].password, account.password}
    /\ users'[u].role = users[u].role
    /\ users'[u].active = users[u].active
    /\ UNCHANGED <<passwords, clean>>

Effect(r) ==
    \/ Quiet
    \/ Unseat(target[r], r)
    \/ \E u \in DOMAIN users : Seat(u)
    \/ \E role \in Roles : Rerole(target[r], role)
    \/ Reset(target[r], r)
    \/ Changed(target[r], r)
    \/ Created(target[r])
    \/ op[r] = "login" /\ \E account \in row[r] : SignedIn(target[r], account)

LEMMA SetActiveEffect ==
    ASSUME TypeInv, NEW r \in Request, SetActive(r)
    PROVE  Effect(r) /\ Over(r) /\ UNCHANGED faults /\ Grow
<1> DEFINE u == target[r]
<1>1. Knows(r) /\ pc[r] = "body" /\ op[r] \in {"activate", "deactivate"} /\ TableInv
  BY DEF SetActive, Handling, TypeInv, TargetInv
<1>2. u \in DOMAIN users
  BY <1>1 DEF Knows, Exists
<1>3. Over(r) /\ UNCHANGED <<passwords, tokens, faults>>
  BY DEF SetActive
<1>4. CASE UNCHANGED <<users, sessions, clean>>
  BY <1>1, <1>3, <1>4, ShrinkUnchanged, SameIsGrow DEF Effect, Quiet
<1>5. CASE ~LastAdmin(u) /\ Deactivate(u) /\ Sever(u, r)
  <2>1. users' = [users EXCEPT ![u].active = FALSE] /\ sessions' = DestroyUserSessions(u)
    BY <1>5 DEF Deactivate
  <2>2. SessionsEnd(u)
    BY <1>1, <2>1, ShrinkDestroy DEF SessionsEnd
  <2> HIDE DEF u
  <2>3. /\ OnlyAccount(u)
        /\ users'[u].password = users[u].password
        /\ users'[u].role = users[u].role
        /\ users'[u].active = FALSE
    BY <1>1, <1>2, <2>1, SetActiveTable DEF OnlyAccount
  <2>4. Unseat(u, r)
    BY <1>3, <1>5, <2>2, <2>3 DEF Unseat
  <2> QED
    BY <1>3, <2>3, <2>4, GrowUnchanged DEF Effect, u, OnlyAccount
<1>6. CASE users' = [users EXCEPT ![u].active = TRUE] /\ UNCHANGED <<sessions, clean>>
  <2> HIDE DEF u
  <2>1. /\ OnlyAccount(u)
        /\ users'[u].password = users[u].password
        /\ users'[u].role = users[u].role
        /\ users'[u].active = TRUE
    BY <1>1, <1>2, <1>6, SetActiveTable DEF OnlyAccount
  <2>2. Seat(u)
    BY <1>3, <1>6, <2>1 DEF Seat
  <2> QED
    BY <1>2, <1>3, <2>1, <2>2, GrowUnchanged DEF Effect, OnlyAccount
<1> QED
  BY <1>4, <1>5, <1>6 DEF SetActive

LEMMA SetRoleEffect ==
    ASSUME TypeInv, NEW r \in Request, SetRole(r)
    PROVE  Effect(r) /\ Over(r) /\ UNCHANGED faults /\ Grow
<1> DEFINE u == target[r]
           role == IF op[r] = "promote" THEN "admin" ELSE "collector"
<1>1. Knows(r) /\ pc[r] = "body" /\ op[r] \in {"promote", "demote"} /\ TableInv
  BY DEF SetRole, Handling, TypeInv, TargetInv
<1>2. u \in DOMAIN users /\ role \in Roles
  BY <1>1 DEF Knows, Exists, Roles
<1>3. Over(r) /\ UNCHANGED <<passwords, tokens, clean, faults>>
  BY DEF SetRole
<1>4. CASE UNCHANGED <<users, sessions>>
  BY <1>1, <1>3, <1>4, ShrinkUnchanged, SameIsGrow DEF Effect, Quiet
<1>5. CASE /\ ~(role # "admin" /\ LastAdmin(u))
           /\ users' = [users EXCEPT ![u].role = role]
           /\ sessions' = DestroyUserSessions(u)
  <2>1. SessionsEnd(u)
    BY <1>1, <1>5, ShrinkDestroy DEF SessionsEnd
  <2> HIDE DEF u, role
  <2>2. /\ OnlyAccount(u)
        /\ users'[u].password = users[u].password
        /\ users'[u].role = role
        /\ users'[u].active = users[u].active
    BY <1>1, <1>2, <1>5, SetRoleTable DEF OnlyAccount
  <2>3. Rerole(u, role)
    BY <1>3, <1>5, <2>1, <2>2 DEF Rerole
  <2> QED
    BY <1>2, <1>3, <2>2, <2>3, GrowUnchanged DEF Effect, u, OnlyAccount
<1> QED
  BY <1>4, <1>5 DEF SetRole

\* The lifetime cap, or no more than a refusal.
LEMMA LoginFailsEffect ==
    ASSUME TypeInv, NEW r \in Request, LoginFails(r)
    PROVE  Effect(r) /\ Over(r) /\ UNCHANGED faults /\ Grow
<1> DEFINE u == target[r]
<1>1. Knows(r) /\ pc[r] = "verify" /\ op[r] = "login" /\ TableInv
  BY DEF LoginFails, TypeInv, TargetInv
<1>2. u \in DOMAIN users
  BY <1>1 DEF Knows, Exists
<1>3. Over(r) /\ UNCHANGED <<passwords, tokens, faults>>
  BY DEF LoginFails
<1>4. CASE UNCHANGED <<users, sessions, clean>>
  BY <1>1, <1>3, <1>4, ShrinkUnchanged, SameIsGrow DEF Effect, Quiet
<1>5. CASE "cap" \in faults /\ Deactivate(u) /\ Sever(u, r)
  <2>1. users' = [users EXCEPT ![u].active = FALSE] /\ sessions' = DestroyUserSessions(u)
    BY <1>5 DEF Deactivate
  <2>2. SessionsEnd(u)
    BY <1>1, <2>1, ShrinkDestroy DEF SessionsEnd
  <2> HIDE DEF u
  <2>3. /\ OnlyAccount(u)
        /\ users'[u].password = users[u].password
        /\ users'[u].role = users[u].role
        /\ users'[u].active = FALSE
    BY <1>1, <1>2, <2>1, SetActiveTable DEF OnlyAccount
  <2>4. Unseat(u, r)
    BY <1>3, <1>5, <2>2, <2>3 DEF Unseat
  <2> QED
    BY <1>3, <2>3, <2>4, GrowUnchanged DEF Effect, u, OnlyAccount
<1> QED
  BY <1>4, <1>5 DEF LoginFails

LEMMA StoredEffect ==
    ASSUME TypeInv, NEW u \in DOMAIN users, NEW kind \in {"chosen", "oneTime"},
           StorePassword(u, kind)
    PROVE  Stored(u) /\ Grow
<1>1. TableInv
  BY DEF TypeInv
<1>2. /\ OnlyAccount(u)
      /\ users'[u].password = Len(passwords[u]) + 1
      /\ users'[u].role = users[u].role
      /\ users'[u].active = users[u].active
      /\ passwords' \in [User -> Seq({"chosen", "oneTime"})]
  BY <1>1, StoredPassword DEF OnlyAccount
<1>3. passwords' = [passwords EXCEPT ![u] = Append(@, kind)]
  BY DEF StorePassword
<1>4. \A v \in User : Len(passwords'[v]) \in Nat
  BY <1>2
<1>5. ASSUME NEW v \in DOMAIN users PROVE Len(passwords[v]) <= Len(passwords'[v])
  <2>1. v \in User /\ passwords \in [User -> Seq({"chosen", "oneTime"})]
    BY <1>1 DEF TableInv
  <2>2. CASE v = u
    BY <1>3, <2>1, <2>2
  <2>3. CASE v # u
    BY <1>3, <2>1, <2>3
  <2> QED
    BY <2>2, <2>3
<1> QED
  BY <1>2, <1>3, <1>4, <1>5 DEF Stored, Grow, OnlyAccount

LEMMA EndResetEffect ==
    ASSUME TypeInv, NEW r \in Request, EndReset(r)
    PROVE  Effect(r) /\ Over(r) /\ UNCHANGED faults /\ Grow
<1> DEFINE u == target[r]
<1>1. Knows(r) /\ pc[r] = "hash" /\ op[r] = "reset" /\ TableInv
  BY DEF EndReset, TypeInv, TargetInv
<1>2. u \in DOMAIN users
  BY <1>1 DEF Knows, Exists
<1>3. StorePassword(u, "oneTime") /\ sessions' = DestroyUserSessions(u)
  BY DEF EndReset, ResetPassword
<1>4. Stored(u) /\ Grow
  BY <1>2, <1>3, StoredEffect
<1>5. SessionsEnd(u)
  BY <1>1, <1>3, ShrinkDestroy DEF SessionsEnd
<1> QED
  BY <1>4, <1>5 DEF EndReset, Reset, Effect

LEMMA EndChangeEffect ==
    ASSUME TypeInv, NEW r \in Request, EndChange(r)
    PROVE  Effect(r) /\ Over(r) /\ UNCHANGED faults /\ Grow
<1> DEFINE u == target[r]
<1>1. Knows(r) /\ pc[r] = "hash" /\ op[r] = "change" /\ TableInv
  BY DEF EndChange, TypeInv, TargetInv
<1>2. u \in DOMAIN users /\ Len(passwords[u]) + 1 \in Nat
  BY <1>1, LengthsAreNat DEF Knows, Exists, TableInv
<1>3. /\ StorePassword(u, "chosen") /\ tokens' = tokens + 1
      /\ sessions' = WithNewSession(DestroyUserSessions(u), u, Len(passwords[u]) + 1)
  BY DEF EndChange
<1>4. Stored(u) /\ Grow
  BY <1>2, <1>3, StoredEffect
<1>5. /\ Rotate(u, Len(passwords[u]) + 1)
      /\ \A t \in DOMAIN sessions' \ {tokens + 1} : sessions[t].user # u
  BY <1>1, <1>2, <1>3, RotateDestroy
<1>6. Changed(u, r)
  BY <1>4, <1>5 DEF EndChange, Changed
<1> QED
  BY <1>4, <1>6 DEF EndChange, Effect

LEMMA EndCreateEffect ==
    ASSUME TypeInv, NEW r \in Request, EndCreate(r)
    PROVE  Effect(r) /\ Over(r) /\ UNCHANGED faults /\ Grow
<1> DEFINE u == target[r]
<1>1. Knows(r) /\ pc[r] = "hash" /\ op[r] = "create" /\ TableInv
  BY DEF EndCreate, TypeInv, TargetInv
<1>2. u \in User
  BY <1>1 DEF Knows
<1>3. Over(r) /\ UNCHANGED <<sessions, tokens, clean, faults>>
  BY DEF EndCreate
<1>4. CASE UNCHANGED <<users, passwords>>
  BY <1>1, <1>3, <1>4, ShrinkUnchanged, SameIsGrow DEF Effect, Quiet
<1>5. ASSUME u \notin DOMAIN users, passwords' = [passwords EXCEPT ![u] = <<"oneTime">>],
             NEW role \in Roles,
             users' = [v \in DOMAIN users \cup {u} |->
                         IF v = u
                         THEN [password |-> 1, old |-> FALSE, role |-> role,
                               active |-> TRUE, mustChange |-> TRUE]
                         ELSE users[v]]
      PROVE  Created(u) /\ Grow
  <2> DEFINE a == [password |-> 1, old |-> FALSE, role |-> role,
                   active |-> TRUE, mustChange |-> TRUE]
  <2> HIDE DEF u
  <2>1. a \in Account /\ a.password = 1
    BY DEF Account
  <2>2. users' = [v \in DOMAIN users \cup {u} |-> IF v = u THEN a ELSE users[v]]
    BY <1>5
  <2> HIDE DEF a
  <2>3. /\ DOMAIN users' = DOMAIN users \cup {u}
        /\ users' \in [DOMAIN users \cup {u} -> Account]
        /\ \A v \in DOMAIN users : users'[v] = users[v]
        /\ users'[u].password = 1
    BY <1>1, <1>5, <2>1, <2>2 DEF TableInv
  <2>4. Created(u)
    BY <1>2, <1>3, <1>5, <2>3 DEF Created
  <2>5. /\ \A v \in User : passwords[v] \in Seq({"chosen", "oneTime"}) /\ Len(passwords[v]) \in Nat
        /\ \A v \in User : passwords'[v] = IF v = u THEN <<"oneTime">> ELSE passwords[v]
    BY <1>1, <1>5, LengthsAreNat DEF TableInv
  <2>6. \A v \in DOMAIN users : v \in User /\ v # u
    BY <1>1, <1>5 DEF TableInv
  <2>7. Grow
    BY <2>3, <2>5, <2>6 DEF Grow
  <2> QED
    BY <2>4, <2>7
<1>6. CASE /\ u \notin DOMAIN users /\ passwords' = [passwords EXCEPT ![u] = <<"oneTime">>]
           /\ \E role \in Roles :
                users' = [v \in DOMAIN users \cup {u} |->
                            IF v = u
                            THEN [password |-> 1, old |-> FALSE, role |-> role,
                                  active |-> TRUE, mustChange |-> TRUE]
                            ELSE users[v]]
  BY <1>3, <1>5, <1>6 DEF Effect
<1> QED
  BY <1>4, <1>6 DEF EndCreate, Exists

LEMMA SignedInEffect ==
    ASSUME TypeInv, NEW r \in Request, NEW account \in row[r], account.active,
           RotateSession(r, account), UNCHANGED <<passwords, clean>>,
           \/ UNCHANGED users
           \/ users' = [users EXCEPT ![target[r]].password = account.password,
                                     ![target[r]].old = FALSE]
    PROVE  SignedIn(target[r], account) /\ Grow
<1> DEFINE u == target[r]
<1>1. TableInv /\ u \in DOMAIN users /\ account.password \in Nat
  BY RowTarget DEF TypeInv, RequestInv, Account
<1>2. tokens < MaxSessions /\ Rotate(u, account.password)
  BY <1>1, RotateWithout DEF RotateSession
<1> HIDE DEF u
<1>3. /\ OnlyAccount(u)
      /\ users'[u].password \in {users[u].password, account.password}
      /\ users'[u].role = users[u].role
      /\ users'[u].active = users[u].active
  <2>1. CASE UNCHANGED users
    BY <1>1, <2>1 DEF OnlyAccount, TableInv
  <2>2. CASE users' = [users EXCEPT ![u].password = account.password, ![u].old = FALSE]
    BY <1>1, <2>2, RehashTable DEF OnlyAccount
  <2> QED
    BY <2>1, <2>2 DEF u
<1>4. Grow
  BY <1>3, GrowUnchanged DEF OnlyAccount
<1> QED
  BY <1>1, <1>2, <1>3, <1>4 DEF SignedIn, u

LEMMA LoginRehashedEffect ==
    ASSUME TypeInv, NEW r \in Request, LoginRehashed(r)
    PROVE  Effect(r) /\ Over(r) /\ UNCHANGED faults /\ Grow
<1>1. PICK account \in row[r] :
         /\ \/ UNCHANGED users
            \/ users' = [users EXCEPT ![target[r]].password = account.password,
                                      ![target[r]].old = FALSE]
         /\ RotateSession(r, account)
  BY DEF LoginRehashed
<1>2. Knows(r) /\ pc[r] = "hash" /\ op[r] = "login"
  BY DEF LoginRehashed, TypeInv, TargetInv
<1>3. account.active /\ Over(r) /\ UNCHANGED <<passwords, clean, faults>>
  BY <1>2 DEF LoginRehashed, Knows
<1>4. SignedIn(target[r], account) /\ Grow
  BY <1>1, <1>3, SignedInEffect
<1> QED
  BY <1>2, <1>3, <1>4 DEF Effect

LEMMA LoginVerifiedEffect ==
    ASSUME TypeInv, NEW r \in Request, LoginVerified(r)
    PROVE  Effect(r)
<1>1. PICK account \in row[r] :
         /\ account.active
         /\ IF account.old
            THEN /\ Goto(r, "hash")
                 /\ UNCHANGED <<sessions, tokens, op, target, actor, row>>
            ELSE RotateSession(r, account) /\ Over(r)
  BY DEF LoginVerified
<1>2. UNCHANGED <<users, passwords, clean>> /\ TableInv /\ op[r] = "login"
  BY DEF LoginVerified, TypeInv
<1>3. CASE account.old
  BY <1>1, <1>2, <1>3, ShrinkUnchanged DEF Effect, Quiet
<1>4. CASE ~account.old
  BY <1>1, <1>2, <1>4, SignedInEffect DEF Effect
<1> QED
  BY <1>3, <1>4

LEMMA ScriptResetEffect ==
    ASSUME TypeInv, NEW r \in Request, NEW u \in User, ScriptReset(r, u)
    PROVE  Effect(r) /\ UNCHANGED faults /\ Grow
<1>1. u \in DOMAIN users /\ TableInv /\ UNCHANGED <<sessions, passwords, tokens, clean, faults>>
  BY DEF ScriptReset, Exists, TypeInv
<1>2. CASE UNCHANGED users
  BY <1>1, <1>2, ShrinkUnchanged, SameIsGrow DEF Effect, Quiet
<1>3. CASE users' = [users EXCEPT ![u].active = TRUE]
  <2>1. /\ OnlyAccount(u)
        /\ users'[u].password = users[u].password
        /\ users'[u].role = users[u].role
        /\ users'[u].active = TRUE
    BY <1>1, <1>3, SetActiveTable DEF OnlyAccount
  <2> QED
    BY <1>1, <2>1, GrowUnchanged DEF Effect, Seat, OnlyAccount
<1> QED
  BY <1>2, <1>3 DEF ScriptReset

\* The rest leave accounts and passwords alone.
LEMMA QuietEffect ==
    ASSUME TypeInv, NEW r \in Request,
           \/ \E t \in DOMAIN sessions, o \in SessionOps, u \in User : Arrive(r, t, o, u)
           \/ \E t \in DOMAIN sessions : ArriveDeactivated(r, t)
           \/ Refused(r) \/ SignOut(r) \/ StartHash(r) \/ StartChange(r)
           \/ ChangeVerified(r)
           \/ \E u \in User : StartLogin(r, u) \/ ScriptCreate(r, u)
    PROVE  Quiet
<1>1. TableInv
  BY DEF TypeInv
<1>2. UNCHANGED <<users, passwords, tokens, clean>>
  BY DEF Arrive, ArriveDeactivated, Refused, SignOut, StartHash, StartChange,
         ChangeVerified, StartLogin, ScriptCreate, tables
<1>3. \/ UNCHANGED sessions
      \/ \E u : sessions' = DestroyUserSessions(u)
      \/ \E ts : sessions' = Without(ts)
  BY DEF Arrive, ArriveDeactivated, DropSessionsOfDeactivated, Refused, SignOut, StartHash,
         StartChange, ChangeVerified, StartLogin, ScriptCreate, tables
<1>4. Shrink
  BY <1>1, <1>3, ShrinkUnchanged, ShrinkDestroy, ShrinkWithout
<1> QED
  BY <1>2, <1>4 DEF Quiet

\* A crash in the middle of a password change.
LEMMA CrashEffect ==
    ASSUME TypeInv, Crash
    PROVE  /\ Quiet \/ \E r \in Request : HalfChanged(target[r]) /\ target[r] \in DOMAIN users
           /\ Grow
<1>1. TableInv /\ UNCHANGED <<tokens, faults>>
  BY DEF Crash, TypeInv
<1>2. CASE UNCHANGED <<users, sessions, passwords, clean>>
  BY <1>1, <1>2, ShrinkUnchanged, SameIsGrow DEF Quiet
<1>3. ASSUME NEW r \in Request, pc[r] = "hash", op[r] = "change",
             StorePassword(target[r], "chosen"),
             sessions' \in {sessions, DestroyUserSessions(target[r])},
             clean' = clean \ {target[r]}
      PROVE  target[r] \in DOMAIN users /\ HalfChanged(target[r]) /\ Grow
  <2>1. target[r] \in DOMAIN users
    BY <1>3 DEF TypeInv, TargetInv, Knows, Exists
  <2>2. Stored(target[r]) /\ Grow
    BY <1>3, <2>1, StoredEffect
  <2>3. Shrink
    BY <1>1, <1>3, ShrinkUnchanged, ShrinkDestroy
  <2> QED
    BY <1>1, <1>3, <2>1, <2>2, <2>3 DEF HalfChanged
<1> QED
  BY <1>2, <1>3 DEF Crash

-----------------------------------------------------------------------------
(* Type correctness *)

LEMMA PasswordsTyped ==
    ASSUME TypeInv, NEW u \in DOMAIN users, Stored(u)
    PROVE  /\ passwords' \in [User -> Seq({"chosen", "oneTime"})]
           /\ Len(passwords'[u]) = Len(passwords[u]) + 1
           /\ \A v \in User \ {u} : passwords'[v] = passwords[v]
<1>1. u \in User /\ passwords \in [User -> Seq({"chosen", "oneTime"})]
  BY DEF TypeInv, TableInv
<1>2. PICK kind \in {"chosen", "oneTime"} :
         passwords' = [passwords EXCEPT ![u] = Append(@, kind)]
  BY DEF Stored
<1>3. /\ Append(passwords[u], kind) \in Seq({"chosen", "oneTime"})
      /\ Len(Append(passwords[u], kind)) = Len(passwords[u]) + 1
  BY <1>1
<1> QED
  BY <1>1, <1>2, <1>3

LEMMA StoredPasswords ==
    ASSUME TypeInv, NEW u \in DOMAIN users, Stored(u)
    PROVE  \A v \in DOMAIN users' : users'[v].password \in 1 .. Len(passwords'[v])
<1>1. u \in User /\ DOMAIN users \subseteq User /\ Len(passwords[u]) \in Nat
  BY LengthsAreNat DEF TypeInv, TableInv
<1>2. users'[u].password \in 1 .. Len(passwords'[u])
  <2>1. Len(passwords'[u]) = Len(passwords[u]) + 1
    BY PasswordsTyped
  <2>2. users'[u].password = Len(passwords[u]) + 1
    BY DEF Stored
  <2> QED
    BY <1>1, <2>1, <2>2
<1>3. ASSUME NEW v \in DOMAIN users \ {u} PROVE users'[v].password \in 1 .. Len(passwords'[v])
  BY <1>1, PasswordsTyped DEF Stored, OnlyAccount, TypeInv, PasswordInv
<1> QED
  BY <1>2, <1>3 DEF Stored, OnlyAccount

LEMMA SeverTyped ==
    ASSUME TypeInv, NEW u \in DOMAIN users, NEW r, Sever(u, r)
    PROVE  clean' \subseteq User
BY DEF Sever, TypeInv, TableInv

\* A step that leaves the passwords of the one account it writes.
LEMMA KeptPasswords ==
    ASSUME TypeInv, NEW u \in DOMAIN users, OnlyAccount(u), UNCHANGED passwords,
           users'[u].password \in 1 .. Len(passwords[u])
    PROVE  \A v \in DOMAIN users' : users'[v].password \in 1 .. Len(passwords'[v])
BY DEF OnlyAccount, TypeInv, PasswordInv

\* Whatever a step writes, it is typed if what it leaves behind is.
LEMMA Assemble ==
    ASSUME TypeInv, RequestsOK', UNCHANGED faults, clean' \subseteq User,
           users' \in [DOMAIN users' -> Account],
           DOMAIN users \subseteq DOMAIN users', DOMAIN users' \subseteq User,
           passwords' \in [User -> Seq({"chosen", "oneTime"})],
           \A v \in DOMAIN users' : users'[v].password \in 1 .. Len(passwords'[v]),
           \/ Shrink /\ UNCHANGED tokens
           \/ /\ tokens < MaxSessions
              /\ \E u \in DOMAIN users, p \in Nat : Rotate(u, p)
    PROVE  TypeInv'
<1>1. TableInv' /\ (tokens <= MaxSessions)'
  BY ShrinkIsTyped, RotateIsTyped
<1>2. PasswordInv'
  BY DEF PasswordInv, RequestsOK
<1> QED
  BY <1>1, <1>2 DEF TypeInv, RequestsOK

LEMMA EffectIsTyped ==
    ASSUME TypeInv, NEW r \in Request, RequestsOK', UNCHANGED faults,
           Effect(r) \/ \E u \in DOMAIN users : HalfChanged(u)
    PROVE  TypeInv'
<1>1. /\ TableInv /\ PasswordInv /\ clean \subseteq User /\ DOMAIN users \subseteq User
      /\ users \in [DOMAIN users -> Account]
      /\ passwords \in [User -> Seq({"chosen", "oneTime"})]
  BY DEF TypeInv, TableInv
<1>2. CASE Quiet
  BY <1>1, <1>2, Assemble DEF Quiet, PasswordInv
<1>3. CASE Unseat(target[r], r)
  <2> DEFINE u == target[r]
  <2>1. u \in DOMAIN users /\ OnlyAccount(u) /\ UNCHANGED <<passwords, tokens>>
        /\ Shrink /\ Sever(u, r) /\ users'[u].password = users[u].password
    BY <1>3 DEF Unseat, OnlyAccount, SessionsEnd
  <2> HIDE DEF u
  <2>2. users'[u].password \in 1 .. Len(passwords[u])
    BY <1>1, <2>1 DEF PasswordInv
  <2> QED
    BY <1>1, <2>1, <2>2, KeptPasswords, SeverTyped, Assemble DEF OnlyAccount
<1>4. ASSUME NEW u \in DOMAIN users, Seat(u) PROVE TypeInv'
  <2>1. OnlyAccount(u) /\ Shrink /\ users'[u].password \in 1 .. Len(passwords[u])
    BY <1>1, <1>4, ShrinkUnchanged DEF Seat, PasswordInv
  <2> QED
    BY <1>1, <1>4, <2>1, KeptPasswords, Assemble DEF OnlyAccount, Seat
<1>5. ASSUME NEW role \in Roles, Rerole(target[r], role) PROVE TypeInv'
  <2> DEFINE u == target[r]
  <2>1. u \in DOMAIN users /\ OnlyAccount(u) /\ UNCHANGED <<passwords, tokens, clean>>
        /\ Shrink /\ users'[u].password = users[u].password
    BY <1>5 DEF Rerole, OnlyAccount, SessionsEnd
  <2> HIDE DEF u
  <2>2. users'[u].password \in 1 .. Len(passwords[u])
    BY <1>1, <2>1 DEF PasswordInv
  <2> QED
    BY <1>1, <2>1, <2>2, KeptPasswords, Assemble DEF OnlyAccount
<1>6. CASE Reset(target[r], r)
  <2> DEFINE u == target[r]
  <2>1. u \in DOMAIN users /\ Stored(u) /\ Shrink /\ Sever(u, r) /\ UNCHANGED tokens
    BY <1>6 DEF Reset, Stored, OnlyAccount, SessionsEnd
  <2> HIDE DEF u
  <2> QED
    BY <1>1, <2>1, PasswordsTyped, StoredPasswords, SeverTyped, Assemble DEF Stored, OnlyAccount
<1>7. CASE Changed(target[r], r)
  <2> DEFINE u == target[r]
  <2>1. u \in DOMAIN users /\ Stored(u) /\ tokens < MaxSessions
        /\ Rotate(u, Len(passwords[u]) + 1) /\ (Sever(u, r) \/ clean' = clean \ {u})
    BY <1>7 DEF Changed, Stored, OnlyAccount
  <2> HIDE DEF u
  <2>2. Len(passwords[u]) + 1 \in Nat /\ clean' \subseteq User
    BY <1>1, <2>1, LengthsAreNat, SeverTyped
  <2> QED
    BY <1>1, <2>1, <2>2, PasswordsTyped, StoredPasswords, Assemble DEF Stored, OnlyAccount
<1>8. ASSUME NEW u \in DOMAIN users, HalfChanged(u) PROVE TypeInv'
  <2>1. Stored(u) /\ Shrink /\ clean' \subseteq User /\ UNCHANGED tokens
    BY <1>1, <1>8 DEF HalfChanged
  <2> QED
    BY <1>1, <2>1, PasswordsTyped, StoredPasswords, Assemble DEF Stored, OnlyAccount
<1>9. CASE Created(target[r])
  <2> DEFINE u == target[r]
  <2>1. Created(u)
    BY <1>9
  <2> HIDE DEF u
  <2>2. /\ u \in User /\ DOMAIN users' = DOMAIN users \cup {u}
        /\ users' \in [DOMAIN users' -> Account] /\ UNCHANGED <<sessions, tokens, clean>>
    BY <2>1 DEF Created
  <2>3. <<"oneTime">> \in Seq({"chosen", "oneTime"}) /\ Len(<<"oneTime">>) = 1
    OBVIOUS
  <2>4. /\ passwords' \in [User -> Seq({"chosen", "oneTime"})]
        /\ Len(passwords'[u]) = 1
        /\ \A v \in User \ {u} : passwords'[v] = passwords[v]
    BY <1>1, <2>1, <2>2, <2>3 DEF Created
  <2>5. \A v \in DOMAIN users' : users'[v].password \in 1 .. Len(passwords'[v])
    <3>1. users'[u].password \in 1 .. Len(passwords'[u])
      BY <2>1, <2>4 DEF Created
    <3>2. ASSUME NEW v \in DOMAIN users PROVE users'[v].password \in 1 .. Len(passwords'[v])
      <4>1. v \in User \ {u} /\ users'[v] = users[v]
        BY <1>1, <2>1 DEF Created
      <4> QED
        BY <1>1, <2>4, <4>1 DEF PasswordInv
    <3> QED
      BY <2>2, <3>1, <3>2
  <2>6. Shrink
    BY <1>1, <2>2, ShrinkUnchanged
  <2> QED
    BY <1>1, <2>2, <2>4, <2>5, <2>6, Assemble
<1>10. ASSUME NEW account \in row[r], SignedIn(target[r], account) PROVE TypeInv'
  <2> DEFINE u == target[r]
  <2>1. /\ u \in DOMAIN users /\ OnlyAccount(u) /\ tokens < MaxSessions
        /\ Rotate(u, account.password) /\ UNCHANGED <<passwords, clean>>
        /\ users'[u].password \in {users[u].password, account.password}
        /\ account.password \in Nat
        /\ account.password \in 1 .. Len(passwords[u])
    BY <1>1, <1>10 DEF SignedIn, OnlyAccount, PasswordInv
  <2> HIDE DEF u
  <2>2. users'[u].password \in 1 .. Len(passwords[u])
    BY <1>1, <2>1 DEF PasswordInv
  <2> QED
    BY <1>1, <2>1, <2>2, KeptPasswords, Assemble DEF OnlyAccount
<1> QED
  BY <1>2, <1>3, <1>4, <1>5, <1>6, <1>7, <1>8, <1>9, <1>10 DEF Effect

LEMMA ScriptResetIsTyped ==
    ASSUME TypeInv, NEW r \in Request, NEW u \in User, ScriptReset(r, u)
    PROVE  TypeInv'
<1>1. Effect(r) /\ UNCHANGED faults /\ Grow
  BY ScriptResetEffect
<1>2. RequestInv' /\ OnlyRequest(r)
  BY DEF ScriptReset, TypeInv, RequestInv, Goto, PCs, Ops, SessionOps, AdminOps, OnlyRequest
<1>3. row[r] = {} /\ u \in DOMAIN users'
  BY <1>1 DEF ScriptReset, TypeInv, TargetInv, Knows, Exists, Grow
<1>4. pc'[r] = "hash" /\ op'[r] = "reset" /\ target'[r] = u /\ row'[r] = {}
  BY <1>3 DEF ScriptReset, TypeInv, RequestInv, Goto
<1>5. Knows(r)'
  BY <1>3, <1>4 DEF Knows, Exists
<1>6. RequestsOK'
  BY <1>1, <1>2, <1>4, <1>5, MoveIsTyped
<1> QED
  BY <1>1, <1>6, EffectIsTyped

LEMMA CrashIsTyped ==
    ASSUME TypeInv, Crash
    PROVE  TypeInv'
<1>1. Quiet \/ \E r \in Request : HalfChanged(target[r]) /\ target[r] \in DOMAIN users
  BY CrashEffect
<1>2. UNCHANGED faults
  BY DEF Crash
<1>3. RequestsOK'
  BY DEF Crash, RequestsOK, RequestInv, TargetInv, Knows, TypeInv, PCs, Ops
<1>4. CASE Quiet
  BY <1>2, <1>3, <1>4, SameAccounts DEF Quiet, TypeInv
<1>5. CASE \E r \in Request : HalfChanged(target[r]) /\ target[r] \in DOMAIN users
  BY <1>2, <1>3, <1>5, EffectIsTyped
<1> QED
  BY <1>1, <1>4, <1>5

LEMMA ExpireEffect ==
    ASSUME TypeInv, NEW t \in DOMAIN sessions, Expire(t)
    PROVE  Quiet
BY ShrinkWithout DEF Expire, Quiet, TypeInv

\* The session expires under whatever requests there are.
LEMMA ExpireIsTyped ==
    ASSUME TypeInv, NEW t \in DOMAIN sessions, Expire(t)
    PROVE  TypeInv'
<1>1. Quiet /\ UNCHANGED <<requests, faults>>
  BY ExpireEffect DEF Expire
<1>2. RequestsOK'
  BY <1>1 DEF Quiet, TypeInv, PasswordInv, RequestsOK, RequestInv, TargetInv, Knows,
         Exists, requests
<1> QED
  BY <1>1, <1>2, SameAccounts DEF Quiet, TypeInv

\* A request's step: what it does to the tables, and that it leaves types.
LEMMA RequestStep ==
    ASSUME TypeInv, NEW r \in Request, SessionStep(r) \/ LoginStep(r) \/ ScriptStep(r)
    PROVE  Effect(r) /\ TypeInv' /\ UNCHANGED faults
<1>1. CASE \/ SetActive(r) \/ SetRole(r) \/ EndReset(r) \/ EndChange(r) \/ EndCreate(r)
           \/ LoginFails(r) \/ LoginRehashed(r)
  <2>1. Effect(r) /\ Over(r) /\ UNCHANGED faults /\ Grow
    BY <1>1, SetActiveEffect, SetRoleEffect, EndResetEffect, EndChangeEffect,
       EndCreateEffect, LoginFailsEffect, LoginRehashedEffect
  <2> QED
    BY <2>1, OverIsTyped, EffectIsTyped
<1>2. ASSUME NEW t \in DOMAIN sessions, NEW o \in SessionOps, NEW u \in User,
             Arrive(r, t, o, u)
      PROVE  Effect(r) /\ TypeInv' /\ UNCHANGED faults
  BY <1>2, QuietEffect, ArriveIsTyped DEF Arrive, Effect
<1>3. ASSUME NEW u \in User, StartLogin(r, u)
      PROVE  Effect(r) /\ TypeInv' /\ UNCHANGED faults
  BY <1>3, QuietEffect, StartLoginIsTyped DEF StartLogin, Effect
<1>4. ASSUME NEW u \in User, ScriptCreate(r, u)
      PROVE  Effect(r) /\ TypeInv' /\ UNCHANGED faults
  BY <1>4, QuietEffect, ScriptCreateIsTyped DEF ScriptCreate, Effect
<1>5. ASSUME NEW u \in User, ScriptReset(r, u)
      PROVE  Effect(r) /\ TypeInv' /\ UNCHANGED faults
  BY <1>5, ScriptResetEffect, ScriptResetIsTyped
<1>6. ASSUME \/ \E t \in DOMAIN sessions : ArriveDeactivated(r, t)
             \/ Refused(r) \/ SignOut(r) \/ StartHash(r) \/ ChangeVerified(r)
      PROVE  Effect(r) /\ TypeInv' /\ UNCHANGED faults
  <2>1. Quiet /\ TypeInv'
    BY <1>6, QuietEffect, QuietStepsAreTyped
  <2> QED
    BY <1>6, <2>1
       DEF Effect, ArriveDeactivated, Refused, SignOut, StartHash, ChangeVerified
<1>7. CASE StartChange(r)
  BY <1>7, QuietEffect, StartChangeIsTyped DEF Effect, StartChange
<1>8. CASE LoginVerified(r)
  BY <1>8, LoginVerifiedEffect, QuietStepsAreTyped DEF LoginVerified
<1> QED
  BY <1>1, <1>2, <1>3, <1>4, <1>5, <1>6, <1>7, <1>8
     DEF SessionStep, LoginStep, ScriptStep

LEMMA InitTyped ==
    ASSUME Init
    PROVE  TypeInv
<1> DEFINE There == {v \in User : passwords[v] # <<>>}
<1>1. PICK role \in [User -> Roles], old \in SUBSET User :
         users = [u \in There |->
                    [password |-> 1, old |-> u \in old, role |-> role[u],
                     active |-> TRUE, mustChange |-> passwords[u][1] = "oneTime"]]
  BY DEF Init
<1>2. /\ <<>> \in Seq({"chosen", "oneTime"})
      /\ <<"chosen">> \in Seq({"chosen", "oneTime"}) /\ Len(<<"chosen">>) = 1
      /\ <<"oneTime">> \in Seq({"chosen", "oneTime"}) /\ Len(<<"oneTime">>) = 1
  OBVIOUS
<1>3. /\ passwords \in [User -> Seq({"chosen", "oneTime"})]
      /\ \A u \in There : Len(passwords[u]) = 1
  BY <1>2 DEF Init
<1>4. DOMAIN users = There /\ There \subseteq User
  BY <1>1
<1>5. \A u \in There : users[u] \in Account /\ users[u].password = 1
  <2> TAKE u \in There
  <2>1. users[u] = [password |-> 1, old |-> u \in old, role |-> role[u],
                    active |-> TRUE, mustChange |-> passwords[u][1] = "oneTime"]
    BY <1>1
  <2> QED
    BY <1>1, <2>1 DEF Account
<1>6. users \in [DOMAIN users -> Account]
  BY <1>1, <1>4, <1>5
<1> HIDE DEF There
<1>7. /\ sessions = <<>> /\ DOMAIN sessions = {} /\ tokens = 0 /\ clean = User
      /\ faults \in FaultSets
  BY DEF Init
<1>8. sessions \in [DOMAIN sessions -> Session]
  BY <1>7
<1>9. TableInv
  BY <1>3, <1>4, <1>6, <1>7, <1>8 DEF TableInv
<1>10. RequestInv /\ TargetInv
  BY DEF Init, RequestInv, TargetInv, Knows, PCs, Ops
<1>11. PasswordInv
  <2>1. \A u \in DOMAIN users : users[u].password \in 1 .. Len(passwords[u])
    <3> TAKE u \in DOMAIN users
    <3>1. users[u].password = 1 /\ Len(passwords[u]) = 1
      BY <1>3, <1>4, <1>5
    <3> QED
      BY <3>1
  <2>2. \A r \in Request : row[r] = {}
    BY DEF Init
  <2> QED
    BY <2>1, <2>2 DEF PasswordInv
<1> QED
  BY <1>7, <1>9, <1>10, <1>11, AccountsAssumption DEF TypeInv

LEMMA NextTyped ==
    ASSUME TypeInv, [Next]_vars
    PROVE  TypeInv'
<1>1. CASE UNCHANGED vars
  BY <1>1 DEF vars, tables, requests, TypeInv, TableInv, RequestInv, TargetInv, Knows,
              PasswordInv, Exists
<1>2. CASE \E r \in Request : SessionStep(r) \/ LoginStep(r) \/ ScriptStep(r)
  BY <1>2, RequestStep
<1>3. CASE \E t \in DOMAIN sessions : Expire(t)
  BY <1>3, ExpireIsTyped
<1>4. CASE Crash
  BY <1>4, CrashIsTyped
<1> QED
  BY <1>1, <1>2, <1>3, <1>4 DEF Next

LEMMA TypeInvIsTypeOK ==
    ASSUME TypeInv
    PROVE  TypeOK
<1>1. \A u \in DOMAIN users : users[u] \in Account /\ users[u].password \in 1 .. Len(passwords[u])
  BY DEF TypeInv, TableInv, PasswordInv
<1>2. \A t \in DOMAIN sessions : sessions[t] \in Session /\ Exists(sessions[t].user)
  BY DEF TypeInv, TableInv
<1>3. tokens \in 0 .. MaxSessions
  BY AccountsAssumption DEF TypeInv, TableInv
<1>4. \A r \in Request : actor[r] \subseteq Actor /\ row[r] \subseteq Account
  BY DEF TypeInv, RequestInv
<1> QED
  BY <1>1, <1>2, <1>3, <1>4 DEF TypeInv, TableInv, RequestInv, TypeOK, PCs, Ops

\* Every state of every behaviour is typed.
THEOREM TypeCorrect == Spec => []TypeOK
<1>1. Init => TypeInv
  BY InitTyped
<1>2. TypeInv /\ [Next]_vars => TypeInv'
  BY NextTyped
<1>3. TypeInv => TypeOK
  BY TypeInvIsTypeOK
<1> QED
  BY <1>1, <1>2, <1>3, PTL DEF Spec

-----------------------------------------------------------------------------
(* No session outlives the role it was made under *)

\* Sessions end, and nobody who keeps one has another role.
LEMMA RolesKept ==
    ASSUME TypeInv, NoSessionFromOldRole, Shrink,
           \A t \in DOMAIN sessions' : users'[sessions[t].user].role = users[sessions[t].user].role
    PROVE  NoSessionFromOldRole'
BY DEF Shrink, NoSessionFromOldRole

\* The same, with a new session made for its owner's role.
LEMMA RolesRotated ==
    ASSUME TypeInv, NoSessionFromOldRole, NEW u \in DOMAIN users, NEW p, Rotate(u, p),
           \A v \in DOMAIN users : users'[v].role = users[v].role
    PROVE  NoSessionFromOldRole'
<1> SUFFICES ASSUME NEW t \in DOMAIN sessions'
             PROVE  sessions'[t].role = users'[sessions'[t].user].role
  BY DEF NoSessionFromOldRole
<1>1. CASE t = tokens + 1
  BY <1>1 DEF Rotate
<1>2. CASE t # tokens + 1
  <2>1. t \in DOMAIN sessions /\ sessions'[t] = sessions[t]
    BY <1>2 DEF Rotate
  <2>2. sessions[t].user \in DOMAIN users
    BY <2>1 DEF TypeInv, TableInv, Exists
  <2> QED
    BY <2>1, <2>2 DEF NoSessionFromOldRole
<1> QED
  BY <1>1, <1>2

LEMMA RolesStored ==
    ASSUME NEW u \in DOMAIN users, OnlyAccount(u), users'[u].role = users[u].role
    PROVE  \A v \in DOMAIN users : users'[v].role = users[v].role
BY DEF OnlyAccount

LEMMA RoleEffect ==
    ASSUME TypeInv, NoSessionFromOldRole, NEW r \in Request,
           Effect(r) \/ \E u \in DOMAIN users : HalfChanged(u)
    PROVE  NoSessionFromOldRole'
<1>1. \A t \in DOMAIN sessions : sessions[t].user \in DOMAIN users
  BY DEF TypeInv, TableInv, Exists
<1>2. CASE Quiet
  BY <1>1, <1>2, RolesKept DEF Quiet, Shrink
<1>3. CASE Unseat(target[r], r)
  <2> DEFINE u == target[r]
  <2>1. u \in DOMAIN users /\ OnlyAccount(u) /\ users'[u].role = users[u].role /\ Shrink
    BY <1>3 DEF Unseat, OnlyAccount, SessionsEnd
  <2> QED
    BY <1>1, <2>1, RolesStored, RolesKept DEF Shrink
<1>4. ASSUME NEW u \in DOMAIN users, Seat(u) PROVE NoSessionFromOldRole'
  <2>1. OnlyAccount(u) /\ users'[u].role = users[u].role /\ Shrink
    BY <1>4, ShrinkUnchanged DEF Seat, TypeInv
  <2> QED
    BY <1>1, <2>1, RolesStored, RolesKept DEF Shrink
<1>5. ASSUME NEW role \in Roles, Rerole(target[r], role) PROVE NoSessionFromOldRole'
  <2>1. /\ OnlyAccount(target[r]) /\ Shrink
        /\ \A t \in DOMAIN sessions' : sessions[t].user # target[r]
    BY <1>5 DEF Rerole, SessionsEnd
  <2>2. \A t \in DOMAIN sessions' : users'[sessions[t].user] = users[sessions[t].user]
    BY <1>1, <2>1 DEF OnlyAccount, Shrink
  <2> QED
    BY <2>1, <2>2, RolesKept
<1>6. CASE Reset(target[r], r)
  <2> DEFINE u == target[r]
  <2>1. u \in DOMAIN users /\ OnlyAccount(u) /\ users'[u].role = users[u].role /\ Shrink
    BY <1>6 DEF Reset, Stored, OnlyAccount, SessionsEnd
  <2> QED
    BY <1>1, <2>1, RolesStored, RolesKept DEF Shrink
<1>7. CASE Changed(target[r], r)
  <2> DEFINE u == target[r]
  <2>1. /\ u \in DOMAIN users /\ OnlyAccount(u) /\ users'[u].role = users[u].role
        /\ Rotate(u, Len(passwords[u]) + 1)
    BY <1>7 DEF Changed, Stored, OnlyAccount
  <2> QED
    BY <2>1, RolesStored, RolesRotated
<1>8. ASSUME NEW u \in DOMAIN users, HalfChanged(u) PROVE NoSessionFromOldRole'
  <2>1. OnlyAccount(u) /\ users'[u].role = users[u].role /\ Shrink
    BY <1>8 DEF HalfChanged, Stored
  <2> QED
    BY <1>1, <2>1, RolesStored, RolesKept DEF Shrink
<1>9. CASE Created(target[r])
  <2>1. UNCHANGED sessions /\ \A v \in DOMAIN users : users'[v] = users[v]
    BY <1>9 DEF Created
  <2>2. Shrink
    BY <2>1, ShrinkUnchanged DEF TypeInv
  <2> QED
    BY <1>1, <2>1, <2>2, RolesKept
<1>10. ASSUME NEW account \in row[r], SignedIn(target[r], account)
       PROVE  NoSessionFromOldRole'
  <2> DEFINE u == target[r]
  <2>1. /\ u \in DOMAIN users /\ OnlyAccount(u) /\ users'[u].role = users[u].role
        /\ Rotate(u, account.password)
    BY <1>10 DEF SignedIn, OnlyAccount
  <2> QED
    BY <2>1, RolesStored, RolesRotated
<1> QED
  BY <1>2, <1>3, <1>4, <1>5, <1>6, <1>7, <1>8, <1>9, <1>10 DEF Effect

-----------------------------------------------------------------------------
(* An administrator remains *)

\* An administrator who is not the last one leaves another.
LEMMA AnotherAdmin ==
    ASSUME TypeInv, NEW u \in DOMAIN users, ~LastAdmin(u), ActiveAdmins # {}
    PROVE  \E v \in ActiveAdmins : v # u
<1>1. CASE users[u].role # "admin"
  BY <1>1 DEF ActiveAdmins
<1>2. CASE ~(Cardinality(ActiveAdmins) <= 1)
  <2> SUFFICES ASSUME ActiveAdmins \subseteq {u} PROVE FALSE
    OBVIOUS
  <2>1. IsFiniteSet({u}) /\ Cardinality({u}) = 1
    BY FS_Singleton
  <2>2. Cardinality(ActiveAdmins) <= Cardinality({u})
    BY <2>1, FS_Subset
  <2> QED
    BY <1>2, <2>1, <2>2
<1> QED
  BY <1>1, <1>2 DEF LastAdmin

LEMMA AdminEffect ==
    ASSUME TypeInv, AdministratorRemains, NEW r \in Request, UNCHANGED faults,
           Effect(r) \/ \E u \in DOMAIN users : HalfChanged(u)
    PROVE  AdministratorRemains'
<1> SUFFICES ASSUME "cap" \notin faults
             PROVE  ActiveAdmins' # {}
  BY DEF AdministratorRemains
<1>1. ActiveAdmins # {}
  BY DEF AdministratorRemains
<1>2. ASSUME NEW u \in DOMAIN users, OnlyAccount(u), users'[u].role = users[u].role,
             users'[u].active = users[u].active
      PROVE  ActiveAdmins' # {}
  BY <1>1, <1>2 DEF OnlyAccount, ActiveAdmins
<1>3. ASSUME NEW u \in DOMAIN users, OnlyAccount(u), ~LastAdmin(u)
      PROVE  ActiveAdmins' # {}
  <2>1. PICK v \in ActiveAdmins : v # u
    BY <1>1, <1>3, AnotherAdmin
  <2>2. v \in ActiveAdmins'
    BY <1>3, <2>1 DEF OnlyAccount, ActiveAdmins
  <2> QED
    BY <2>2
<1>4. CASE Quiet
  BY <1>1, <1>4 DEF Quiet, ActiveAdmins
<1>5. CASE Unseat(target[r], r)
  BY <1>3, <1>5 DEF Unseat, OnlyAccount
<1>6. ASSUME NEW u \in DOMAIN users, Seat(u) PROVE ActiveAdmins' # {}
  BY <1>1, <1>6 DEF Seat, OnlyAccount, ActiveAdmins
<1>7. ASSUME NEW role \in Roles, Rerole(target[r], role) PROVE ActiveAdmins' # {}
  <2> DEFINE u == target[r]
  <2>1. u \in DOMAIN users /\ OnlyAccount(u) /\ users'[u].role = role
        /\ users'[u].active = users[u].active /\ (role # "admin" => ~LastAdmin(u))
    BY <1>7 DEF Rerole, OnlyAccount
  <2> HIDE DEF u
  <2>2. CASE role = "admin"
    BY <1>1, <2>1, <2>2 DEF OnlyAccount, ActiveAdmins
  <2>3. CASE role # "admin"
    BY <1>3, <2>1, <2>3
  <2> QED
    BY <2>2, <2>3
<1>8. CASE Reset(target[r], r)
  BY <1>2, <1>8 DEF Reset, Stored, OnlyAccount
<1>9. CASE Changed(target[r], r)
  BY <1>2, <1>9 DEF Changed, Stored, OnlyAccount
<1>10. ASSUME NEW u \in DOMAIN users, HalfChanged(u) PROVE ActiveAdmins' # {}
  BY <1>2, <1>10 DEF HalfChanged, Stored
<1>11. CASE Created(target[r])
  BY <1>1, <1>11 DEF Created, ActiveAdmins
<1>12. ASSUME NEW account \in row[r], SignedIn(target[r], account)
       PROVE  ActiveAdmins' # {}
  BY <1>2, <1>12 DEF SignedIn, OnlyAccount
<1> QED
  BY <1>4, <1>5, <1>6, <1>7, <1>8, <1>9, <1>10, <1>11, <1>12 DEF Effect

-----------------------------------------------------------------------------
(* No session survives what ends sessions *)

\* While an account is clean, whoever is about to sign in to it read the row it has.
RowsCurrent ==
    \A r \in Request : \A a \in row[r] :
        op[r] = "login" /\ target[r] \in clean =>
            /\ a.password = users[target[r]].password
            /\ a.active => users[target[r]].active

SeverInv == SeveredSessionsAreGone /\ RowsCurrent

\* No sign-in reads its row in this step.
RowsFollow ==
    \A q \in Request : row'[q] # {} /\ op'[q] = "login" =>
        row'[q] = row[q] /\ op'[q] = op[q] /\ target'[q] = target[q]

LEMMA OverFollows ==
    ASSUME TypeInv, NEW r \in Request, Over(r)
    PROVE  RowsFollow /\ row'[r] = {} /\ OnlyRequest(r)
BY DEF TypeInv, RequestInv, Over, Goto, RowsFollow, OnlyRequest

LEMMA StepFollows ==
    ASSUME TypeInv, NEW r \in Request,
           \/ SessionStep(r) \/ ScriptStep(r)
           \/ LoginFails(r) \/ LoginVerified(r) \/ LoginRehashed(r)
    PROVE  RowsFollow
<1>1. \/ Over(r)
      \/ UNCHANGED <<op, target, row>>
      \/ \E t \in DOMAIN sessions, o \in SessionOps, u \in User : Arrive(r, t, o, u)
      \/ \E u \in User : ScriptReset(r, u) \/ ScriptCreate(r, u)
      \/ StartChange(r)
  BY DEF SessionStep, ScriptStep, ArriveDeactivated, Refused, SignOut, SetActive, SetRole,
         StartHash, EndReset, EndCreate, ChangeVerified, EndChange, LoginFails,
         LoginVerified, LoginRehashed
<1>2. ASSUME NEW t \in DOMAIN sessions, NEW o \in SessionOps, NEW u \in User,
             Arrive(r, t, o, u)
      PROVE  RowsFollow
  BY <1>2 DEF Arrive, TypeInv, TargetInv, Knows, RequestInv, RowsFollow
<1>3. ASSUME NEW u \in User, ScriptReset(r, u) \/ ScriptCreate(r, u)
      PROVE  RowsFollow
  BY <1>3 DEF ScriptReset, ScriptCreate, TypeInv, TargetInv, Knows, RequestInv, RowsFollow
<1>4. CASE StartChange(r)
  BY <1>4 DEF StartChange, Handling, TypeInv, RequestInv, RowsFollow
<1>5. CASE UNCHANGED <<op, target, row>>
  BY <1>5 DEF RowsFollow
<1> QED
  BY <1>1, <1>2, <1>3, <1>4, <1>5, OverFollows

\* A step that leaves an account's password alone, and does not deactivate it.
SameDoor(v) ==
    /\ v \in DOMAIN users'
    /\ users'[v].password = users[v].password
    /\ users[v].active => users'[v].active

\* Rows stay current where nobody touches the door.
LEMMA RowsKept ==
    ASSUME TypeInv, RowsCurrent, RowsFollow,
           \A v \in clean' \cap DOMAIN users : (v \in clean /\ SameDoor(v))
               \/ \A q \in Request : ~(row'[q] # {} /\ op'[q] = "login" /\ target'[q] = v)
    PROVE  RowsCurrent'
<1> SUFFICES ASSUME NEW q \in Request, NEW a \in row'[q],
                    op'[q] = "login", target'[q] \in clean'
             PROVE  /\ a.password = users'[target'[q]].password
                    /\ a.active => users'[target'[q]].active
  BY DEF RowsCurrent
<1>1. row'[q] = row[q] /\ op'[q] = op[q] /\ target'[q] = target[q]
  BY DEF RowsFollow
<1>2. target[q] \in DOMAIN users
  BY <1>1, RowTarget
<1>3. target[q] \in clean /\ SameDoor(target[q])
  BY <1>1, <1>2
<1>4. a.password = users[target[q]].password /\ (a.active => users[target[q]].active)
  BY <1>1, <1>3 DEF RowsCurrent
<1> QED
  BY <1>1, <1>3, <1>4 DEF SameDoor

\* When r severs u and is over, nobody is left who read u's row.
LEMMA SeverCutsRows ==
    ASSUME TypeInv, NEW u \in DOMAIN users, NEW r \in Request, Sever(u, r), Over(r),
           u \in clean'
    PROVE  \A q \in Request : ~(row'[q] # {} /\ op'[q] = "login" /\ target'[q] = u)
<1>1. Authenticating(u) \subseteq {r}
  BY DEF Sever
<1>2. RowsFollow /\ row'[r] = {}
  BY OverFollows
<1>3. ASSUME NEW q \in Request, row'[q] # {}, op'[q] = "login", target'[q] = u
      PROVE  FALSE
  <2>1. q # r /\ row[q] # {} /\ op[q] = "login" /\ target[q] = u
    BY <1>2, <1>3 DEF RowsFollow
  <2>2. pc[q] \in {"verify", "hash"}
    BY <2>1 DEF TypeInv, TargetInv, Knows
  <2>3. q \in Authenticating(u)
    BY <2>1, <2>2 DEF Authenticating
  <2> QED
    BY <1>1, <2>1, <2>3
<1> QED
  BY <1>3

\* What SeveredSessionsAreGone says of one account.
Shut(v) ==
    /\ \A t \in SessionsOf(v) : sessions[t].password = users[v].password
    /\ ~users[v].active => SessionsOf(v) = {}

LEMMA ShutSessions ==
    SeveredSessionsAreGone <=> \A v \in clean \cap DOMAIN users : Shut(v)
BY DEF SeveredSessionsAreGone, Shut

LEMMA ShutKept ==
    ASSUME TypeInv, NEW v \in DOMAIN users, Shut(v), Shrink, SameDoor(v)
    PROVE  Shut(v)'
BY DEF Shut, SessionsOf, Shrink, SameDoor

LEMMA ShutEmpty ==
    ASSUME NEW v, SessionsEnd(v)
    PROVE  Shut(v)'
BY DEF Shut, SessionsOf, Shrink, SessionsEnd

\* Of the sessions after a rotation, those of another account were there.
LEMMA ShutOther ==
    ASSUME TypeInv, NEW v \in DOMAIN users, Shut(v), NEW u, NEW p, Rotate(u, p), v # u,
           users'[v] = users[v]
    PROVE  Shut(v)'
<1>1. ASSUME NEW t \in DOMAIN sessions', sessions'[t].user = v
      PROVE  t \in SessionsOf(v) /\ sessions'[t] = sessions[t]
  <2>1. t # tokens + 1
    BY <1>1 DEF Rotate
  <2> QED
    BY <1>1, <2>1 DEF Rotate, SessionsOf
<1> QED
  BY <1>1 DEF Shut, SessionsOf

LEMMA ShutAnew ==
    ASSUME NEW u, NEW p, Rotate(u, p), users'[u].password = p, users'[u].active,
           \A t \in DOMAIN sessions' \ {tokens + 1} :
               sessions[t].user = u => sessions[t].password = p
    PROVE  Shut(u)'
<1>1. ASSUME NEW t \in DOMAIN sessions', sessions'[t].user = u
      PROVE  sessions'[t].password = p
  <2>1. CASE t = tokens + 1
    BY <2>1 DEF Rotate
  <2>2. CASE t # tokens + 1
    BY <1>1, <2>2 DEF Rotate
  <2> QED
    BY <2>1, <2>2
<1> QED
  BY <1>1 DEF Shut, SessionsOf

\* A step after which each clean account has kept its door, or shut it.
LEMMA SeverStep ==
    ASSUME TypeInv, SeverInv, RowsFollow,
           \A v \in clean' \cap DOMAIN users :
               /\ \/ v \in clean /\ SameDoor(v)
                  \/ \A q \in Request : ~(row'[q] # {} /\ op'[q] = "login" /\ target'[q] = v)
               /\ Shut(v)',
           \A v \in (clean' \cap DOMAIN users') \ DOMAIN users : Shut(v)'
    PROVE  SeverInv'
BY RowsKept, ShutSessions DEF SeverInv, SeveredSessionsAreGone, Shut

LEMMA SameDoorElsewhere ==
    ASSUME TypeInv, NEW u \in DOMAIN users, OnlyAccount(u), NEW v \in DOMAIN users, v # u
    PROVE  SameDoor(v) /\ users'[v] = users[v]
BY DEF OnlyAccount, SameDoor

LEMMA SeverEffect ==
    ASSUME TypeInv, SeverInv, RowsFollow, NEW r \in Request,
           Effect(r) \/ \E u \in DOMAIN users : HalfChanged(u)
    PROVE  SeverInv'
<1>1. \A v \in clean \cap DOMAIN users : Shut(v)
  BY ShutSessions DEF SeverInv
<1>2. CASE Quiet
  <2>1. \A v \in DOMAIN users : SameDoor(v)
    BY <1>2 DEF Quiet, SameDoor
  <2> QED
    BY <1>1, <1>2, <2>1, ShutKept, SeverStep DEF Quiet
<1>3. ASSUME NEW u \in DOMAIN users, OnlyAccount(u), Sever(u, r), SessionsEnd(u), Over(r)
      PROVE  SeverInv'
  <2>1. ASSUME NEW v \in clean' \cap DOMAIN users, v # u
        PROVE  v \in clean /\ SameDoor(v) /\ Shut(v)'
    <3>1. v \in clean /\ SameDoor(v)
      BY <1>3, <2>1, SameDoorElsewhere DEF Sever
    <3> QED
      BY <1>1, <1>3, <3>1, ShutKept DEF SessionsEnd
  <2>2. ASSUME u \in clean'
        PROVE  /\ \A q \in Request : ~(row'[q] # {} /\ op'[q] = "login" /\ target'[q] = u)
               /\ Shut(u)'
    BY <1>3, <2>2, SeverCutsRows, ShutEmpty
  <2>3. DOMAIN users' = DOMAIN users
    BY <1>3 DEF OnlyAccount
  <2> QED
    BY <2>1, <2>2, <2>3, SeverStep
<1>4. CASE Unseat(target[r], r)
  BY <1>3, <1>4 DEF Unseat, OnlyAccount
<1>5. CASE Reset(target[r], r)
  BY <1>3, <1>5 DEF Reset, Stored, OnlyAccount
<1>6. ASSUME NEW u \in DOMAIN users, OnlyAccount(u), Shrink, SameDoor(u), clean' = clean
      PROVE  SeverInv'
  <2>1. \A v \in DOMAIN users : SameDoor(v)
    BY <1>6, SameDoorElsewhere
  <2>2. DOMAIN users' = DOMAIN users
    BY <1>6 DEF OnlyAccount
  <2> QED
    BY <1>1, <1>6, <2>1, <2>2, ShutKept, SeverStep
<1>7. ASSUME NEW u \in DOMAIN users, Seat(u) PROVE SeverInv'
  <2>1. Shrink
    BY <1>7, ShrinkUnchanged DEF Seat, TypeInv
  <2> QED
    BY <1>6, <1>7, <2>1 DEF Seat, SameDoor, OnlyAccount
<1>8. ASSUME NEW role \in Roles, Rerole(target[r], role) PROVE SeverInv'
  BY <1>6, <1>8 DEF Rerole, SessionsEnd, SameDoor, OnlyAccount
<1>9. ASSUME NEW u \in DOMAIN users, OnlyAccount(u), NEW p, Rotate(u, p),
             users'[u].password = p, clean' \subseteq clean \cup {u},
             u \in clean' =>
               /\ \/ SameDoor(u) /\ u \in clean
                  \/ \A q \in Request : ~(row'[q] # {} /\ op'[q] = "login" /\ target'[q] = u)
               /\ users'[u].active
               /\ \A t \in DOMAIN sessions' \ {tokens + 1} :
                     sessions[t].user = u => sessions[t].password = p
      PROVE  SeverInv'
  <2>1. ASSUME NEW v \in clean' \cap DOMAIN users, v # u
        PROVE  v \in clean /\ SameDoor(v) /\ Shut(v)'
    <3>1. v \in clean /\ SameDoor(v) /\ users'[v] = users[v]
      BY <1>9, <2>1, SameDoorElsewhere
    <3> QED
      BY <1>1, <1>9, <2>1, <3>1, ShutOther
  <2>2. u \in clean' => Shut(u)'
    BY <1>9, ShutAnew
  <2>3. DOMAIN users' = DOMAIN users
    BY <1>9 DEF OnlyAccount
  <2> QED
    BY <1>9, <2>1, <2>2, <2>3, SeverStep
<1>10. CASE Changed(target[r], r)
  <2> DEFINE u == target[r]
  <2>1. /\ u \in DOMAIN users /\ OnlyAccount(u) /\ Over(r)
        /\ Rotate(u, Len(passwords[u]) + 1)
        /\ users'[u].password = Len(passwords[u]) + 1
        /\ users'[u].active = users[u].active
        /\ \A t \in DOMAIN sessions' \ {tokens + 1} : sessions[t].user # u
        /\ IF users[u].active THEN Sever(u, r) ELSE clean' = clean \ {u}
    BY <1>10 DEF Changed, Stored, OnlyAccount
  <2> HIDE DEF u
  <2>2. clean' \subseteq clean \cup {u}
    BY <2>1 DEF Sever
  <2>3. ASSUME u \in clean'
        PROVE  /\ users'[u].active
               /\ \A q \in Request : ~(row'[q] # {} /\ op'[q] = "login" /\ target'[q] = u)
    <3>1. users[u].active /\ Sever(u, r)
      BY <2>1, <2>3
    <3> QED
      BY <2>1, <2>3, <3>1, SeverCutsRows
  <2> QED
    BY <1>9, <2>1, <2>2, <2>3
<1>11. ASSUME NEW u \in DOMAIN users, HalfChanged(u) PROVE SeverInv'
  <2>1. OnlyAccount(u) /\ Shrink /\ clean' = clean \ {u} /\ DOMAIN users' = DOMAIN users
    BY <1>11 DEF HalfChanged, Stored, OnlyAccount
  <2>2. ASSUME NEW v \in clean' \cap DOMAIN users
        PROVE  v \in clean /\ SameDoor(v) /\ Shut(v)'
    <3>1. v \in clean /\ SameDoor(v)
      BY <2>1, SameDoorElsewhere
    <3> QED
      BY <1>1, <2>1, <3>1, ShutKept
  <2> QED
    BY <2>1, <2>2, SeverStep
<1>12. ASSUME NEW u, Created(u) PROVE SeverInv'
  <2>1. /\ u \notin DOMAIN users /\ DOMAIN users' = DOMAIN users \cup {u}
        /\ \A v \in DOMAIN users : users'[v] = users[v]
        /\ UNCHANGED <<sessions, clean>>
    BY <1>12 DEF Created
  <2>2. Shrink
    BY <2>1, ShrinkUnchanged DEF TypeInv
  <2>3. \A t \in DOMAIN sessions' : sessions[t].user # u
    BY <2>1 DEF TypeInv, TableInv, Exists
  <2>4. Shut(u)'
    BY <2>2, <2>3, ShutEmpty DEF SessionsEnd
  <2>5. \A v \in DOMAIN users : SameDoor(v)
    BY <2>1 DEF SameDoor
  <2>6. ASSUME NEW v \in DOMAIN users, v \in clean' PROVE v \in clean /\ SameDoor(v) /\ Shut(v)'
    BY <1>1, <2>1, <2>2, <2>5, <2>6, ShutKept
  <2> QED
    BY <2>1, <2>4, <2>6, SeverStep
<1>13. ASSUME op[r] = "login", NEW account \in row[r], SignedIn(target[r], account)
       PROVE  SeverInv'
  <2> DEFINE u == target[r]
             p == account.password
  <2>1. /\ u \in DOMAIN users /\ OnlyAccount(u) /\ Rotate(u, p) /\ clean' = clean
        /\ users'[u].password \in {users[u].password, p}
        /\ users'[u].active = users[u].active /\ account.active
    BY <1>13 DEF SignedIn, OnlyAccount
  <2>2. u \in clean => p = users[u].password /\ users[u].active
    BY <1>13, <2>1 DEF SeverInv, RowsCurrent
  <2> HIDE DEF u, p
  <2>3. CASE u \in clean
    <3>1. users'[u].password = p /\ users'[u].active /\ SameDoor(u)
      BY <2>1, <2>2, <2>3 DEF SameDoor, OnlyAccount
    <3>2. \A t \in DOMAIN sessions' \ {tokens + 1} :
             sessions[t].user = u => sessions[t].password = p
      BY <1>1, <2>1, <2>2, <2>3 DEF Shut, SessionsOf, Rotate
    <3> QED
      BY <1>9, <2>1, <2>3, <3>1, <3>2
  <2>4. CASE u \notin clean
    <3>1. ASSUME NEW v \in clean' \cap DOMAIN users
          PROVE  v \in clean /\ SameDoor(v) /\ Shut(v)'
      <4>1. v \in clean /\ v # u
        BY <2>1, <2>4
      <4>2. SameDoor(v) /\ users'[v] = users[v]
        BY <2>1, <4>1, SameDoorElsewhere
      <4> QED
        BY <1>1, <2>1, <4>1, <4>2, ShutOther
    <3>2. DOMAIN users' = DOMAIN users
      BY <2>1 DEF OnlyAccount
    <3> QED
      BY <3>1, <3>2, SeverStep
  <2> QED
    BY <2>3, <2>4
<1> QED
  BY <1>2, <1>4, <1>5, <1>7, <1>8, <1>10, <1>11, <1>12, <1>13 DEF Effect

LEMMA StartLoginSever ==
    ASSUME TypeInv, SeverInv, NEW r \in Request, NEW u \in User, StartLogin(r, u)
    PROVE  SeverInv'
<1>1. Quiet
  BY QuietEffect
<1>2. ASSUME NEW v \in clean' \cap DOMAIN users' PROVE Shut(v)'
  <2>1. v \in clean \cap DOMAIN users /\ SameDoor(v)
    BY <1>1, <1>2 DEF Quiet, SameDoor
  <2>2. Shut(v)
    BY <2>1, ShutSessions DEF SeverInv
  <2> QED
    BY <1>1, <2>1, <2>2, ShutKept DEF Quiet
<1>3. RowsCurrent'
  <2> SUFFICES ASSUME NEW q \in Request, NEW a \in row'[q],
                      op'[q] = "login", target'[q] \in clean'
               PROVE  /\ a.password = users'[target'[q]].password
                      /\ a.active => users'[target'[q]].active
    BY DEF RowsCurrent
  <2>1. users' = users /\ clean' = clean
    BY <1>1 DEF Quiet
  <2>2. CASE q = r
    <3>1. a = users[u] /\ target'[q] = u
      BY <2>2 DEF StartLogin, TypeInv, RequestInv
    <3> QED
      BY <2>1, <3>1
  <2>3. CASE q # r
    <3>1. a \in row[q] /\ op[q] = "login" /\ target'[q] = target[q]
      BY <2>3 DEF StartLogin, TypeInv, RequestInv
    <3> QED
      BY <2>1, <3>1 DEF SeverInv, RowsCurrent
  <2> QED
    BY <2>2, <2>3
<1> QED
  BY <1>2, <1>3 DEF SeverInv, SeveredSessionsAreGone, Shut

LEMMA NextSever ==
    ASSUME TypeInv, SeverInv, [Next]_vars
    PROVE  SeverInv'
<1>1. CASE UNCHANGED vars
  BY <1>1 DEF vars, tables, requests, SeverInv, SeveredSessionsAreGone, SessionsOf, RowsCurrent
<1>2. ASSUME NEW r \in Request, SessionStep(r) \/ LoginStep(r) \/ ScriptStep(r)
      PROVE  SeverInv'
  <2>1. Effect(r)
    BY <1>2, RequestStep
  <2>2. CASE \E u \in User : StartLogin(r, u)
    BY <2>2, StartLoginSever
  <2>3. CASE ~\E u \in User : StartLogin(r, u)
    <3>1. RowsFollow
      BY <1>2, <2>3, StepFollows DEF LoginStep
    <3> QED
      BY <2>1, <3>1, SeverEffect
  <2> QED
    BY <2>2, <2>3
<1>3. ASSUME NEW t \in DOMAIN sessions, Expire(t)
      PROVE  SeverInv'
  <2>1. Quiet /\ UNCHANGED <<users, clean, requests>>
    BY <1>3, ExpireEffect DEF Expire
  <2>2. RowsFollow
    BY <2>1 DEF RowsFollow, requests
  <2>3. ASSUME NEW v \in clean' \cap DOMAIN users' PROVE v \in clean /\ SameDoor(v) /\ Shut(v)'
    <3>1. v \in clean \cap DOMAIN users /\ SameDoor(v)
      BY <2>1 DEF SameDoor
    <3> QED
      BY <2>1, <3>1, ShutKept, ShutSessions DEF SeverInv, Quiet
  <2> QED
    BY <2>1, <2>2, <2>3, SeverStep
<1>4. CASE Crash
  <2>1. RowsFollow /\ \A q \in Request : row'[q] = {}
    BY <1>4 DEF Crash, RowsFollow
  <2>2. CASE Quiet
    <3>1. ASSUME NEW v \in clean' \cap DOMAIN users'
          PROVE  v \in clean /\ v \in DOMAIN users /\ SameDoor(v) /\ Shut(v)'
      <4>1. v \in clean \cap DOMAIN users /\ SameDoor(v)
        BY <2>2 DEF Quiet, SameDoor
      <4> QED
        BY <2>2, <4>1, ShutKept, ShutSessions DEF SeverInv, Quiet
    <3> QED
      BY <2>1, <2>2, <3>1, SeverStep DEF Quiet
  <2>3. CASE \E r \in Request : HalfChanged(target[r]) /\ target[r] \in DOMAIN users
    BY <2>1, <2>3, SeverEffect
  <2> QED
    BY <1>4, <2>2, <2>3, CrashEffect
<1> QED
  BY <1>1, <1>2, <1>3, <1>4 DEF Next

LEMMA NextRolesAndAdmins ==
    ASSUME TypeInv, NoSessionFromOldRole, AdministratorRemains, [Next]_vars
    PROVE  NoSessionFromOldRole' /\ AdministratorRemains'
<1>1. CASE UNCHANGED vars
  BY <1>1 DEF vars, tables, NoSessionFromOldRole, AdministratorRemains, ActiveAdmins
<1>2. ASSUME NEW r \in Request, SessionStep(r) \/ LoginStep(r) \/ ScriptStep(r)
      PROVE  NoSessionFromOldRole' /\ AdministratorRemains'
  BY <1>2, RequestStep, RoleEffect, AdminEffect
<1>3. ASSUME Quiet, UNCHANGED faults
      PROVE  NoSessionFromOldRole' /\ AdministratorRemains'
  BY <1>3, RolesKept DEF Quiet, Shrink, AdministratorRemains, ActiveAdmins
<1>4. ASSUME NEW t \in DOMAIN sessions, Expire(t)
      PROVE  NoSessionFromOldRole' /\ AdministratorRemains'
  BY <1>3, <1>4, ExpireEffect DEF Expire
<1>5. CASE Crash
  <2>1. UNCHANGED faults
    BY <1>5 DEF Crash
  <2>2. CASE \E r \in Request : HalfChanged(target[r]) /\ target[r] \in DOMAIN users
    BY <2>1, <2>2, RoleEffect, AdminEffect
  <2> QED
    BY <1>3, <1>5, <2>1, <2>2, CrashEffect
<1> QED
  BY <1>1, <1>2, <1>4, <1>5 DEF Next

\* The inductive invariant.
IInv == TypeInv /\ NoSessionFromOldRole /\ AdministratorRemains /\ SeverInv

LEMMA InitInv ==
    ASSUME Init
    PROVE  IInv
<1>1. TypeInv
  BY InitTyped
<1>2. sessions = <<>> /\ DOMAIN sessions = {} /\ \A r \in Request : row[r] = {}
  BY DEF Init
<1>3. NoSessionFromOldRole /\ SeverInv
  BY <1>2 DEF NoSessionFromOldRole, SeverInv, SeveredSessionsAreGone, SessionsOf, RowsCurrent
<1>4. ActiveAdmins # {}
  <2>1. \A u \in DOMAIN users : users[u].active
    BY DEF Init
  <2>2. PICK u \in DOMAIN users : users[u].role = "admin"
    BY DEF Init
  <2> QED
    BY <2>1, <2>2 DEF ActiveAdmins
<1> QED
  BY <1>1, <1>3, <1>4 DEF IInv, AdministratorRemains

LEMMA SpecInv == Spec => []IInv
<1>1. Init => IInv
  BY InitInv
<1>2. IInv /\ [Next]_vars => IInv'
  BY NextTyped, NextRolesAndAdmins, NextSever DEF IInv
<1> QED
  BY <1>1, <1>2, PTL DEF Spec

\* admin.routes.js, LAST_ADMIN: without the lifetime cap, some active administrator is
\* always left, whatever requests interleave.
THEOREM AnAdministratorRemains == Spec => []AdministratorRemains
BY SpecInv, PTL DEF IInv

\* users.js: no role is exercised on a session made under another.
THEOREM RolesAreFresh == Spec => []NoSessionFromOldRole
BY SpecInv, PTL DEF IInv

\* destroyUserSessions: a password replaced, or an account deactivated, while nobody is
\* authenticating to it leaves no session of before, now or later.
THEOREM SessionsAreSevered == Spec => []SeveredSessionsAreGone
<1>1. IInv => SeveredSessionsAreGone
  BY DEF IInv, SeverInv
<1> QED
  BY <1>1, SpecInv, PTL

-----------------------------------------------------------------------------
(* What a session's password was for                                       *)

\* Without weaker hashes nothing is upgraded.
NoOldHash ==
    /\ \A u \in DOMAIN users : ~users[u].old
    /\ \A r \in Request : /\ \A a \in row[r] : ~a.old
                          /\ ~(pc[r] = "hash" /\ op[r] = "login")

\* Whoever need not choose a password has chosen the one he has.
KindsKnown ==
    \A u \in DOMAIN users :
        ~users[u].mustChange => passwords[u][users[u].password] = "chosen"

\* A request that passed the gate holds a session opened with a chosen password, as
\* long as it is there and its account clean.
ActorKnown(a) ==
    /\ a.session <= tokens
    /\ a.session \in DOMAIN sessions =>
          /\ sessions[a.session].user = a.user
          /\ a.user \in clean /\ ~a.mustChange =>
                passwords[a.user][sessions[a.session].password] = "chosen"

HandInv ==
    "oldHash" \notin faults =>
        /\ NoOldHash /\ KindsKnown
        /\ \A r \in Request : \A a \in actor[r] : ActorKnown(a)

\* What a step does to the flags of the accounts, and to the passwords stored.
SameFlags(v) ==
    /\ v \in DOMAIN users
    /\ users'[v].password = users[v].password
    /\ users'[v].mustChange = users[v].mustChange
    /\ users'[v].old = users[v].old
NewFlags(v) ==
    /\ ~users'[v].old
    /\ ~users'[v].mustChange => passwords'[v][users'[v].password] = "chosen"

PrefixKept ==
    \A v \in DOMAIN users : \A i \in 1 .. Len(passwords[v]) :
        passwords'[v][i] = passwords[v][i]

FlagsStep == PrefixKept /\ \A v \in DOMAIN users' : SameFlags(v) \/ NewFlags(v)

\* To the sessions: an account becomes clean only when none of before is left.
SessionsStep ==
    /\ tokens <= tokens'
    /\ \A t \in DOMAIN sessions' : t <= tokens =>
          /\ t \in DOMAIN sessions /\ sessions'[t] = sessions[t]
          /\ sessions[t].user \in clean' => sessions[t].user \in clean

\* And to the requests.
ActorsStep ==
    \A q \in Request : \A a \in actor'[q] :
        \/ a \in actor[q]
        \/ /\ UNCHANGED <<users, passwords, tokens, clean>>
           /\ \E t \in DOMAIN sessions : a \in Attached(t)

RowsStep ==
    \A q \in Request :
        /\ \A a \in row'[q] : a \in row[q] \/ \E u \in DOMAIN users : a = users[u]
        /\ pc'[q] = "hash" /\ op'[q] = "login" =>
              \/ pc[q] = "hash" /\ op[q] = "login"
              \/ \E a \in row[q] : a.old

LEMMA HandStep ==
    ASSUME TypeInv, TypeInv', SeverInv, HandInv, UNCHANGED faults,
           "oldHash" \notin faults => FlagsStep,
           SessionsStep, ActorsStep, RowsStep
    PROVE  HandInv'
<1> SUFFICES ASSUME "oldHash" \notin faults
             PROVE  /\ NoOldHash' /\ KindsKnown'
                    /\ \A r \in Request : \A a \in actor'[r] : ActorKnown(a)'
  BY DEF HandInv
<1>1. NoOldHash /\ KindsKnown /\ \A r \in Request : \A a \in actor[r] : ActorKnown(a)
  BY DEF HandInv
<1>2. NoOldHash'
  BY <1>1 DEF NoOldHash, FlagsStep, SameFlags, NewFlags, RowsStep
<1>3. ASSUME NEW u \in DOMAIN users, NEW p \in 1 .. Len(passwords[u]),
             passwords[u][p] = "chosen"
      PROVE  passwords'[u][p] = "chosen"
  BY <1>3 DEF FlagsStep, PrefixKept
<1>4. KindsKnown'
  <2> SUFFICES ASSUME NEW v \in DOMAIN users', ~users'[v].mustChange
               PROVE  passwords'[v][users'[v].password] = "chosen"
    BY DEF KindsKnown
  <2>1. CASE NewFlags(v)
    BY <2>1 DEF NewFlags
  <2>2. CASE SameFlags(v)
    <3>1. /\ v \in DOMAIN users /\ users'[v].password = users[v].password
          /\ passwords[v][users[v].password] = "chosen"
      BY <1>1, <2>2 DEF SameFlags, KindsKnown
    <3>2. users[v].password \in 1 .. Len(passwords[v])
      BY <3>1 DEF TypeInv, PasswordInv
    <3> QED
      BY <1>3, <3>1, <3>2
  <2> QED
    BY <2>1, <2>2 DEF FlagsStep
<1>5. ASSUME NEW t \in DOMAIN sessions, sessions[t].user \in clean
      PROVE  LET u == sessions[t].user IN
             /\ u \in DOMAIN users
             /\ sessions[t].password = users[u].password
             /\ users[u].password \in 1 .. Len(passwords[u])
  <2>1. sessions[t].user \in DOMAIN users
    BY DEF TypeInv, TableInv, Exists
  <2>2. t \in SessionsOf(sessions[t].user)
    BY DEF SessionsOf
  <2>3. sessions[t].password = users[sessions[t].user].password
    BY <1>5, <2>1, <2>2 DEF SeverInv, SeveredSessionsAreGone
  <2> QED
    BY <2>1, <2>3 DEF TypeInv, PasswordInv
<1>6. tokens \in Nat /\ tokens' \in Nat /\ tokens <= tokens'
  BY DEF TypeInv, TableInv, SessionsStep
<1>7. ASSUME NEW r \in Request, NEW a \in actor[r]
      PROVE  ActorKnown(a)'
  <2>1. ActorKnown(a) /\ a.session \in Nat /\ a.session <= tokens
    BY <1>1 DEF TypeInv, RequestInv, Actor, ActorKnown
  <2>2. a.session <= tokens'
    BY <1>6, <2>1
  <2>3. ASSUME a.session \in DOMAIN sessions'
        PROVE  /\ a.session \in DOMAIN sessions
               /\ sessions'[a.session] = sessions[a.session]
               /\ sessions[a.session].user = a.user
               /\ a.user \in clean' => a.user \in clean
    BY <2>1, <2>3 DEF SessionsStep, ActorKnown
  <2>4. ASSUME a.session \in DOMAIN sessions', a.user \in clean', ~a.mustChange
        PROVE  passwords'[a.user][sessions'[a.session].password] = "chosen"
    <3>1. /\ a.session \in DOMAIN sessions /\ sessions[a.session].user \in clean
          /\ sessions[a.session].user = a.user
          /\ passwords[a.user][sessions[a.session].password] = "chosen"
      BY <2>1, <2>3, <2>4 DEF ActorKnown
    <3>2. /\ a.user \in DOMAIN users
          /\ sessions[a.session].password \in 1 .. Len(passwords[a.user])
      BY <1>5, <3>1
    <3> QED
      BY <1>3, <2>3, <2>4, <3>1, <3>2
  <2> QED
    BY <2>2, <2>3, <2>4 DEF ActorKnown
<1>8. ASSUME NEW t \in DOMAIN sessions, NEW a \in Attached(t),
             UNCHANGED <<users, passwords, tokens, clean>>
      PROVE  ActorKnown(a)'
  <2>1. /\ a.session = t /\ a.user = sessions[t].user
        /\ a.mustChange = users[a.user].mustChange
    BY <1>8 DEF Attached
  <2>2. t <= tokens /\ t \in Nat
    BY DEF TypeInv, TableInv
  <2>3. ASSUME t \in DOMAIN sessions' PROVE sessions'[t] = sessions[t]
    BY <2>2, <2>3 DEF SessionsStep
  <2>4. ASSUME a.user \in clean, ~a.mustChange
        PROVE  passwords[a.user][sessions[t].password] = "chosen"
    <3>1. a.user \in DOMAIN users /\ sessions[t].password = users[a.user].password
      BY <1>5, <2>1, <2>4
    <3> QED
      BY <1>1, <2>1, <2>4, <3>1 DEF KindsKnown
  <2> QED
    BY <1>8, <2>1, <2>2, <2>3, <2>4 DEF ActorKnown
<1>9. \A r \in Request : \A a \in actor'[r] : ActorKnown(a)'
  BY <1>7, <1>8 DEF ActorsStep
<1> QED
  BY <1>2, <1>4, <1>9

-----------------------------------------------------------------------------
(* The sessions of a step *)

LEMMA ShrunkSessions ==
    ASSUME TypeInv, Shrink, UNCHANGED tokens,
           \A t \in DOMAIN sessions' : sessions[t].user \in clean' => sessions[t].user \in clean
    PROVE  SessionsStep
BY DEF TypeInv, TableInv, Shrink, SessionsStep

LEMMA RotatedSessions ==
    ASSUME TypeInv, NEW u, NEW p, Rotate(u, p),
           \A t \in DOMAIN sessions' \ {tokens + 1} :
               sessions[t].user \in clean' => sessions[t].user \in clean
    PROVE  SessionsStep
<1>1. tokens \in Nat
  BY DEF TypeInv, TableInv
<1>2. ASSUME NEW t \in DOMAIN sessions', t <= tokens
      PROVE  t \in DOMAIN sessions' \ {tokens + 1}
  BY <1>1, <1>2
<1>3. tokens <= tokens'
  BY <1>1 DEF Rotate
<1> QED
  BY <1>2, <1>3 DEF Rotate, SessionsStep

LEMMA EffectOnSessions ==
    ASSUME TypeInv, NEW r \in Request,
           Effect(r) \/ \E u \in DOMAIN users : HalfChanged(u)
    PROVE  SessionsStep
<1>1. CASE Quiet
  BY <1>1, ShrunkSessions DEF Quiet
<1>2. ASSUME NEW u, SessionsEnd(u), Sever(u, r), UNCHANGED tokens
      PROVE  SessionsStep
  <2>1. \A t \in DOMAIN sessions' : sessions[t].user # u
    BY <1>2 DEF SessionsEnd
  <2>2. clean' \subseteq clean \cup {u}
    BY <1>2 DEF Sever
  <2> QED
    BY <1>2, <2>1, <2>2, ShrunkSessions DEF SessionsEnd
<1>3. CASE Unseat(target[r], r)
  BY <1>2, <1>3 DEF Unseat
<1>4. ASSUME NEW u \in DOMAIN users, Seat(u) PROVE SessionsStep
  BY <1>4, ShrinkUnchanged, ShrunkSessions DEF Seat, TypeInv
<1>5. ASSUME NEW role \in Roles, Rerole(target[r], role) PROVE SessionsStep
  BY <1>5, ShrunkSessions DEF Rerole, SessionsEnd
<1>6. CASE Reset(target[r], r)
  BY <1>2, <1>6 DEF Reset
<1>7. CASE Changed(target[r], r)
  <2>1. clean' \subseteq clean \cup {target[r]}
    BY <1>7 DEF Changed, Sever
  <2> QED
    BY <1>7, <2>1, RotatedSessions DEF Changed
<1>8. CASE Created(target[r])
  BY <1>8, ShrinkUnchanged, ShrunkSessions DEF Created, TypeInv
<1>9. ASSUME NEW account \in row[r], SignedIn(target[r], account) PROVE SessionsStep
  BY <1>9, RotatedSessions DEF SignedIn
<1>10. ASSUME NEW u \in DOMAIN users, HalfChanged(u) PROVE SessionsStep
  BY <1>10, ShrunkSessions DEF HalfChanged
<1> QED
  BY <1>1, <1>3, <1>4, <1>5, <1>6, <1>7, <1>8, <1>9, <1>10 DEF Effect

-----------------------------------------------------------------------------
(* The flags of a step *)

LEMMA FlagsUntouched ==
    ASSUME UNCHANGED <<users, passwords>>
    PROVE  FlagsStep
BY DEF FlagsStep, PrefixKept, SameFlags

LEMMA FlagsBeside ==
    ASSUME TypeInv, NEW u \in DOMAIN users, UNCHANGED passwords,
           \/ \E b \in BOOLEAN : users' = [users EXCEPT ![u].active = b]
           \/ \E role \in Roles : users' = [users EXCEPT ![u].role = role]
    PROVE  FlagsStep
<1>1. PICK a \in Account :
         /\ users' = [users EXCEPT ![u] = a]
         /\ a.password = users[u].password /\ a.mustChange = users[u].mustChange
         /\ a.old = users[u].old
  <2>1. users[u] \in Account
    BY DEF TypeInv, TableInv
  <2>2. ASSUME NEW b \in BOOLEAN, users' = [users EXCEPT ![u].active = b]
        PROVE  \E a \in Account :
                 /\ users' = [users EXCEPT ![u] = a]
                 /\ a.password = users[u].password /\ a.mustChange = users[u].mustChange
                 /\ a.old = users[u].old
    <3> DEFINE a == [users[u] EXCEPT !.active = b]
    <3>1. a \in Account /\ a.password = users[u].password
          /\ a.mustChange = users[u].mustChange /\ a.old = users[u].old
      BY <2>1 DEF Account
    <3>2. users' = [users EXCEPT ![u] = a]
      BY <2>2
    <3> HIDE DEF a
    <3> QED
      BY <3>1, <3>2
  <2>3. ASSUME NEW role \in Roles, users' = [users EXCEPT ![u].role = role]
        PROVE  \E a \in Account :
                 /\ users' = [users EXCEPT ![u] = a]
                 /\ a.password = users[u].password /\ a.mustChange = users[u].mustChange
                 /\ a.old = users[u].old
    <3> DEFINE a == [users[u] EXCEPT !.role = role]
    <3>1. a \in Account /\ a.password = users[u].password
          /\ a.mustChange = users[u].mustChange /\ a.old = users[u].old
      BY <2>1 DEF Account
    <3>2. users' = [users EXCEPT ![u] = a]
      BY <2>3
    <3> HIDE DEF a
    <3> QED
      BY <3>1, <3>2
  <2> QED
    BY <2>2, <2>3
<1>2. /\ DOMAIN users' = DOMAIN users /\ users'[u] = a
      /\ \A v \in DOMAIN users \ {u} : users'[v] = users[v]
  BY <1>1, OneAccount DEF TypeInv
<1>3. \A v \in DOMAIN users' : SameFlags(v)
  BY <1>1, <1>2 DEF SameFlags
<1> QED
  BY <1>3 DEF FlagsStep, PrefixKept

LEMMA FlagsOfAStore ==
    ASSUME TypeInv, NEW u \in DOMAIN users, NEW kind \in {"chosen", "oneTime"},
           StorePassword(u, kind)
    PROVE  FlagsStep
<1> DEFINE n == Len(passwords[u]) + 1
           new == [users[u] EXCEPT !.password = n, !.old = FALSE,
                                   !.mustChange = (kind = "oneTime")]
<1>1. u \in User /\ passwords[u] \in Seq({"chosen", "oneTime"}) /\ users[u] \in Account
      /\ passwords \in [User -> Seq({"chosen", "oneTime"})] /\ DOMAIN users \subseteq User
  BY DEF TypeInv, TableInv
<1>2. /\ Append(passwords[u], kind)[n] = kind
      /\ \A i \in 1 .. Len(passwords[u]) : Append(passwords[u], kind)[i] = passwords[u][i]
      /\ n \in Nat
  BY <1>1, AppendProperties
<1>3. /\ passwords'[u] = Append(passwords[u], kind)
      /\ \A v \in User \ {u} : passwords'[v] = passwords[v]
  BY <1>1 DEF StorePassword
<1>4. PrefixKept
  BY <1>1, <1>2, <1>3 DEF PrefixKept
<1>5. /\ new \in Account /\ new.password = n /\ ~new.old
      /\ ~new.mustChange => kind = "chosen"
  BY <1>1, <1>2 DEF Account
<1>6. users' = [users EXCEPT ![u] = new]
  BY DEF StorePassword
<1> HIDE DEF new, n
<1>7. /\ DOMAIN users' = DOMAIN users /\ users'[u] = new
      /\ \A v \in DOMAIN users \ {u} : users'[v] = users[v]
  BY <1>5, <1>6, OneAccount DEF TypeInv
<1>8. NewFlags(u)
  BY <1>2, <1>3, <1>5, <1>7 DEF NewFlags
<1>9. \A v \in DOMAIN users \ {u} : SameFlags(v)
  BY <1>7 DEF SameFlags
<1> QED
  BY <1>4, <1>7, <1>8, <1>9 DEF FlagsStep

LEMMA FlagsOfACreation ==
    ASSUME TypeInv, NEW r \in Request, EndCreate(r)
    PROVE  FlagsStep
<1> DEFINE u == target[r]
<1>1. u \in User /\ passwords \in [User -> Seq({"chosen", "oneTime"})]
      /\ DOMAIN users \subseteq User
  BY DEF EndCreate, TypeInv, TargetInv, Knows, TableInv
<1> HIDE DEF u
<1>2. CASE UNCHANGED <<users, passwords>>
  BY <1>2, FlagsUntouched
<1>3. ASSUME u \notin DOMAIN users, passwords' = [passwords EXCEPT ![u] = <<"oneTime">>],
             NEW role \in Roles,
             users' = [v \in DOMAIN users \cup {u} |->
                         IF v = u
                         THEN [password |-> 1, old |-> FALSE, role |-> role,
                               active |-> TRUE, mustChange |-> TRUE]
                         ELSE users[v]]
      PROVE  FlagsStep
  <2>1. NewFlags(u)
    BY <1>3 DEF NewFlags
  <2>2. \A v \in DOMAIN users : SameFlags(v)
    BY <1>3 DEF SameFlags
  <2>3. PrefixKept
    BY <1>1, <1>3 DEF PrefixKept
  <2>4. DOMAIN users' = DOMAIN users \cup {u}
    BY <1>3
  <2> QED
    BY <2>1, <2>2, <2>3, <2>4 DEF FlagsStep
<1> QED
  BY <1>2, <1>3 DEF EndCreate, Exists, u

LEMMA StepFlags ==
    ASSUME TypeInv, NoOldHash, NEW r \in Request,
           SessionStep(r) \/ LoginStep(r) \/ ScriptStep(r)
    PROVE  FlagsStep
<1>1. CASE UNCHANGED <<users, passwords>>
  BY <1>1, FlagsUntouched
<1>2. CASE SetActive(r)
  <2>1. target[r] \in DOMAIN users
    BY <1>2 DEF SetActive, Handling, TypeInv, TargetInv, Knows, Exists
  <2>2. \/ UNCHANGED users
        \/ \E b \in BOOLEAN : users' = [users EXCEPT ![target[r]].active = b]
    BY <1>2 DEF SetActive, Deactivate
  <2> QED
    BY <1>1, <1>2, <2>1, <2>2, FlagsBeside DEF SetActive
<1>3. CASE SetRole(r)
  <2>1. target[r] \in DOMAIN users
    BY <1>3 DEF SetRole, Handling, TypeInv, TargetInv, Knows, Exists
  <2>2. \/ UNCHANGED users
        \/ \E role \in Roles : users' = [users EXCEPT ![target[r]].role = role]
    BY <1>3 DEF SetRole, Roles
  <2> QED
    BY <1>1, <1>3, <2>1, <2>2, FlagsBeside DEF SetRole
<1>4. CASE EndReset(r)
  <2>1. target[r] \in DOMAIN users
    BY <1>4 DEF EndReset, TypeInv, TargetInv, Knows, Exists
  <2> QED
    BY <1>4, <2>1, FlagsOfAStore DEF EndReset, ResetPassword
<1>5. CASE EndChange(r)
  <2>1. target[r] \in DOMAIN users
    BY <1>5 DEF EndChange, TypeInv, TargetInv, Knows, Exists
  <2> QED
    BY <1>5, <2>1, FlagsOfAStore DEF EndChange
<1>6. CASE EndCreate(r)
  BY <1>6, FlagsOfACreation
<1>7. CASE LoginFails(r)
  <2>1. target[r] \in DOMAIN users
    BY <1>7 DEF LoginFails, TypeInv, TargetInv, Knows, Exists
  <2>2. \/ UNCHANGED users
        \/ \E b \in BOOLEAN : users' = [users EXCEPT ![target[r]].active = b]
    BY <1>7 DEF LoginFails, Deactivate
  <2> QED
    BY <1>1, <1>7, <2>1, <2>2, FlagsBeside DEF LoginFails
<1>8. CASE LoginRehashed(r)
  BY <1>8 DEF LoginRehashed, NoOldHash
<1>9. ASSUME NEW u \in User, ScriptReset(r, u) PROVE FlagsStep
  BY <1>1, <1>9, FlagsBeside DEF ScriptReset, Exists
<1>10. CASE LoginVerified(r)
  BY <1>1, <1>10 DEF LoginVerified
<1>11. CASE \/ \E t \in DOMAIN sessions, o \in SessionOps, u \in User : Arrive(r, t, o, u)
            \/ \E t \in DOMAIN sessions : ArriveDeactivated(r, t)
            \/ Refused(r) \/ SignOut(r) \/ StartHash(r) \/ StartChange(r)
            \/ ChangeVerified(r)
            \/ \E u \in User : StartLogin(r, u) \/ ScriptCreate(r, u)
  BY <1>1, <1>11, QuietEffect DEF Quiet
<1> QED
  BY <1>2, <1>3, <1>4, <1>5, <1>6, <1>7, <1>8, <1>9, <1>10, <1>11
     DEF SessionStep, LoginStep, ScriptStep

-----------------------------------------------------------------------------
(* The requests of a step *)

LEMMA StepActors ==
    ASSUME TypeInv, NEW r \in Request, SessionStep(r) \/ LoginStep(r) \/ ScriptStep(r)
    PROVE  ActorsStep
<1>1. CASE Over(r)
  BY <1>1 DEF Over, TypeInv, RequestInv, ActorsStep
<1>2. CASE UNCHANGED actor
  BY <1>2 DEF ActorsStep
<1>3. ASSUME NEW t \in DOMAIN sessions, actor' = [actor EXCEPT ![r] = Attached(t)],
             UNCHANGED <<users, passwords, tokens, clean>>
      PROVE  ActorsStep
  BY <1>3 DEF TypeInv, RequestInv, ActorsStep
<1>4. ASSUME NEW t \in DOMAIN sessions, NEW o \in SessionOps, NEW u \in User,
             Arrive(r, t, o, u)
      PROVE  ActorsStep
  BY <1>3, <1>4 DEF Arrive, tables
<1>5. ASSUME NEW u \in User, StartLogin(r, u) PROVE ActorsStep
  BY <1>2, <1>3, <1>5 DEF StartLogin
<1>6. \/ Over(r) \/ UNCHANGED actor
      \/ \E t \in DOMAIN sessions, o \in SessionOps, u \in User : Arrive(r, t, o, u)
      \/ \E u \in User : StartLogin(r, u)
  BY DEF SessionStep, LoginStep, ScriptStep, ArriveDeactivated, Refused, SignOut,
         SetActive, SetRole, StartHash, EndReset, EndCreate, StartChange, ChangeVerified,
         EndChange, LoginFails, LoginVerified, LoginRehashed, ScriptReset, ScriptCreate
<1> QED
  BY <1>1, <1>2, <1>4, <1>5, <1>6

LEMMA StepRows ==
    ASSUME TypeInv, NEW r \in Request, SessionStep(r) \/ LoginStep(r) \/ ScriptStep(r)
    PROVE  RowsStep
<1> USE DEF TypeInv, RequestInv
<1>1. CASE Over(r)
  BY <1>1 DEF Over, Goto, RowsStep
<1>2. CASE \/ \E t \in DOMAIN sessions, o \in SessionOps, u \in User : Arrive(r, t, o, u)
           \/ \E u \in User : ScriptReset(r, u) \/ ScriptCreate(r, u)
           \/ StartHash(r)
  BY <1>2 DEF Arrive, ScriptReset, ScriptCreate, StartHash, Handling, Goto, RowsStep
<1>3. CASE StartChange(r)
  <2>1. target[r] \in DOMAIN users
    BY <1>3 DEF StartChange, Handling, TargetInv, Knows, Exists
  <2> QED
    BY <1>3, <2>1 DEF StartChange, Goto, RowsStep
<1>4. CASE ChangeVerified(r)
  BY <1>1, <1>4 DEF ChangeVerified, Goto, RowsStep
<1>5. CASE \E u \in User : StartLogin(r, u)
  BY <1>5 DEF StartLogin, Exists, Goto, RowsStep
<1>6. CASE LoginVerified(r)
  BY <1>1, <1>6 DEF LoginVerified, Goto, RowsStep
<1> QED
  BY <1>1, <1>2, <1>3, <1>4, <1>5, <1>6
     DEF SessionStep, LoginStep, ScriptStep, ArriveDeactivated, Refused, SignOut,
         SetActive, SetRole, EndReset, EndCreate, EndChange, LoginFails, LoginRehashed

LEMMA NextHand ==
    ASSUME TypeInv, SeverInv, HandInv, [Next]_vars
    PROVE  HandInv'
<1>1. TypeInv'
  BY NextTyped
<1>2. CASE UNCHANGED vars
  BY <1>2 DEF vars, tables, requests, HandInv, NoOldHash, KindsKnown, ActorKnown
<1>3. ASSUME NEW r \in Request, SessionStep(r) \/ LoginStep(r) \/ ScriptStep(r)
      PROVE  HandInv'
  <2>1. Effect(r) /\ UNCHANGED faults
    BY <1>3, RequestStep
  <2>2. SessionsStep
    BY <2>1, EffectOnSessions
  <2>3. ActorsStep /\ RowsStep
    BY <1>3, StepActors, StepRows
  <2>4. "oldHash" \notin faults => FlagsStep
    BY <1>3, StepFlags DEF HandInv
  <2> QED
    BY <1>1, <2>1, <2>2, <2>3, <2>4, HandStep
<1>4. ASSUME NEW t \in DOMAIN sessions, Expire(t)
      PROVE  HandInv'
  <2>1. Quiet /\ UNCHANGED <<requests, faults>>
    BY <1>4, ExpireEffect DEF Expire
  <2>2. SessionsStep /\ FlagsStep
    BY <2>1, ShrunkSessions, FlagsUntouched DEF Quiet
  <2>3. ActorsStep /\ RowsStep
    BY <2>1 DEF requests, ActorsStep, RowsStep
  <2> QED
    BY <1>1, <2>1, <2>2, <2>3, HandStep
<1>5. CASE Crash
  <2>1. UNCHANGED faults /\ \A q \in Request : actor'[q] = {} /\ row'[q] = {} /\ op'[q] = "none"
    BY <1>5 DEF Crash
  <2>2. ActorsStep /\ RowsStep
    BY <2>1 DEF ActorsStep, RowsStep
  <2>3. FlagsStep
    <3>1. CASE UNCHANGED <<users, passwords>>
      BY <3>1, FlagsUntouched
    <3>2. ASSUME NEW r \in Request, pc[r] = "hash", op[r] = "change",
                 StorePassword(target[r], "chosen")
          PROVE  FlagsStep
      <4>1. target[r] \in DOMAIN users
        BY <3>2 DEF TypeInv, TargetInv, Knows, Exists
      <4> QED
        BY <3>2, <4>1, FlagsOfAStore
    <3> QED
      BY <1>5, <3>1, <3>2 DEF Crash
  <2>4. SessionsStep
    <3>1. CASE Quiet
      BY <3>1, ShrunkSessions DEF Quiet
    <3>2. ASSUME NEW u \in DOMAIN users, HalfChanged(u) PROVE SessionsStep
      BY <3>2, ShrunkSessions DEF HalfChanged
    <3>3. Quiet \/ \E u \in DOMAIN users : HalfChanged(u)
      BY <1>5, CrashEffect
    <3> QED
      BY <3>1, <3>2, <3>3
  <2> QED
    BY <1>1, <2>1, <2>2, <2>3, <2>4, HandStep
<1> QED
  BY <1>2, <1>3, <1>4, <1>5 DEF Next

LEMMA InitHand ==
    ASSUME Init
    PROVE  HandInv
<1>1. TypeInv
  BY InitTyped
<1>2. PICK role \in [User -> Roles], old \in SUBSET User :
         /\ old # {} => "oldHash" \in faults
         /\ users = [u \in {v \in User : passwords[v] # <<>>} |->
                        [password |-> 1, old |-> u \in old, role |-> role[u],
                         active |-> TRUE, mustChange |-> passwords[u][1] = "oneTime"]]
  BY DEF Init
<1>3. \A r \in Request : row[r] = {} /\ actor[r] = {} /\ op[r] = "none"
  BY DEF Init
<1> SUFFICES ASSUME "oldHash" \notin faults
             PROVE  NoOldHash /\ KindsKnown
  BY <1>3 DEF HandInv
<1>4. \A u \in DOMAIN users : ~users[u].old
  BY <1>2
<1>5. ASSUME NEW u \in DOMAIN users, ~users[u].mustChange
      PROVE  passwords[u][users[u].password] = "chosen"
  <2>1. /\ u \in User /\ passwords[u] # <<>> /\ users[u].password = 1
        /\ users[u].mustChange = (passwords[u][1] = "oneTime")
    BY <1>2
  <2>2. passwords[u] \in {<<>>, <<"chosen">>, <<"oneTime">>}
    BY <2>1 DEF Init
  <2>3. passwords[u] # <<"oneTime">>
    <3>1. <<"oneTime">>[1] = "oneTime"
      OBVIOUS
    <3> QED
      BY <1>5, <2>1, <3>1, Zenon
  <2>4. passwords[u] = <<"chosen">>
    BY <2>1, <2>2, <2>3
  <2> QED
    BY <2>1, <2>4
<1> QED
  BY <1>3, <1>4, <1>5 DEF NoOldHash, KindsKnown

\* admin.routes.js, requirePasswordChanged: while no hash is upgraded, whoever does an
\* administrator's work on a session that still exists opened it with a password he
\* chose himself, unless someone was authenticating when it was last replaced.
THEOREM HandoverIsClosed == Spec => HandoverOpensNothing
<1>1. ASSUME TypeInv, HandInv, [Next]_vars
      PROVE  [\A r \in Request : SetActive(r) \/ SetRole(r) \/ StartHash(r) =>
                \A a \in actor[r] :
                   "oldHash" \notin faults /\ a.user \in clean
                   /\ a.session \in DOMAIN sessions
                   => passwords[a.user][sessions[a.session].password] = "chosen"]_vars
  <2> SUFFICES ASSUME NEW r \in Request, SetActive(r) \/ SetRole(r) \/ StartHash(r),
                      NEW a \in actor[r],
                      "oldHash" \notin faults, a.user \in clean,
                      a.session \in DOMAIN sessions
               PROVE  passwords[a.user][sessions[a.session].password] = "chosen"
    OBVIOUS
  <2>1. ~a.mustChange
    BY DEF SetActive, SetRole, StartHash, Handling, MayProceed
  <2> QED
    BY <1>1, <2>1 DEF HandInv, ActorKnown
<1>2. Init => HandInv
  BY InitHand
<1>3. IInv /\ HandInv /\ [Next]_vars => HandInv'
  BY NextHand DEF IInv
<1>4. IInv => TypeInv
  BY DEF IInv
<1> QED
  BY <1>1, <1>2, <1>3, <1>4, SpecInv, PTL DEF Spec, HandoverOpensNothing
=============================================================================
