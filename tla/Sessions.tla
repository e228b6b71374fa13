---------------------------- MODULE Sessions ----------------------------
(* One browser with several tabs, its two cookies, and the server's two      *)
(* tables behind them: the sessions (auth/sessions.js) and the pre-auth      *)
(* tokens of the sign-in form (auth/preauth.js). A request carries the       *)
(* cookies the browser held when it was SENT and the CSRF token of the page  *)
(* it was made from; the session is looked up when it ARRIVES, before the    *)
(* body is read; the guard or the route CHECKs the token when the body is    *)
(* in; a sign-in or a password change FINISHes after the slow hash; and the  *)
(* answer's cookies change the browser's only when it RECEIVEs them.         *)
(*                                                                           *)
(* The clock counts half seconds and timestamps are stored as whole seconds, *)
(* as toISOString() without its milliseconds does. Accounts has what happens *)
(* to users and passwords; here a user is a name. A session's CSRF token and *)
(* a pre-auth row's are random values of their own: each is named by the     *)
(* number of its row.                                                        *)
EXTENDS Integers, Sequences, Functions

CONSTANTS
    Users,     \* who may sign in
    Tabs,      \* the browser's tabs
    Plans,     \* what the browser does: [tabs, kinds, overlap, loses, jumps, until, tokens]
    Idle,      \* IDLE_TIMEOUT_MS, in half seconds
    Refresh,   \* LAST_SEEN_REFRESH_MS
    Absolute,  \* ABSOLUTE_TIMEOUT_MS
    Ttl        \* TTL_MS of a pre-auth token

\* The clock's resolution: two ticks to a second.
Second == 2

ASSUME TimesAssumption ==
    /\ Refresh \in Nat /\ Refresh >= Second
    /\ Idle \in Nat /\ Idle > Refresh
    /\ Absolute \in Nat /\ Ttl \in Nat
ASSUME NamesAssumption == "nobody" \notin Users
ASSUME PlansAssumption == \A p \in Plans : p.jumps \subseteq Nat

VARIABLES
    plan,      \* the plan this behaviour follows
    now,       \* Date.now(), in half seconds
    cookie,    \* the browser's session cookie, 0 when it has none
    pa,        \* its pre-auth cookie
    tabs,      \* each tab's page, and the request it waits for
    sessions,  \* the sessions table: token -> [user, seen, ends, used]
    preAuth,   \* the pre_auth_tokens table: cookie value -> expires_at
    born,      \* [at, user] of each token issued (history); its length numbers the next
    spent      \* the pre-auth tokens a sign-in has used (history only)

browser == <<cookie, pa>>
tables  == <<sessions, preAuth, born, spent>>
vars    == <<plan, now, cookie, pa, tabs, sessions, preAuth, born, spent>>

Floor(t) == t - (t % Second)
Without(f, gone) == Restrict(f, DOMAIN f \ gone)
Extend(f, x, v) == [y \in DOMAIN f \cup {x} |-> IF y = x THEN v ELSE f[y]]

---------------------------------------------------------------------------
(* Pages, requests and answers.                                             *)

Kinds == {"app", "login", "signin", "survey", "change", "logout"}
NoPage   == [kind |-> "none", csrf |-> 0, user |-> "nobody"]
AppPage(s, u)  == [kind |-> "app", csrf |-> s, user |-> u]
LoginPage(p)   == [kind |-> "login", csrf |-> p, user |-> "nobody"]

\* What a tab waits for. `session` and `user` are what attachSession put in
\* the context, `clears` that it also clears the browser's cookie.
Quiet == [stage |-> "quiet", kind |-> "none", cookie |-> 0, pa |-> 0,
          session |-> 0, user |-> "nobody", clears |-> FALSE]

\* An answer: the page it shows, the cookies it sets (-1 leaves one alone, 0
\* clears it), and what was done, for whom.
Keep == -1
Answered(id, p, page, did, by) ==
    [stage |-> "answered", id |-> id, pa |-> p, page |-> page, did |-> did, by |-> by]

Answer(t, id, p, page, did, by) ==
    tabs' = [tabs EXCEPT ![t].req = Answered(id, p, page, did, by)]

\* The cookie operation attachSession leaves on every answer of the request.
Kept(r) == IF r.clears THEN 0 ELSE Keep

Init ==
    /\ plan \in Plans /\ now = 0
    /\ cookie = 0 /\ pa = 0
    /\ tabs = [t \in Tabs |-> [page |-> NoPage, req |-> Quiet]]
    /\ sessions = <<>> /\ preAuth = <<>>
    /\ born = <<>> /\ spent = {}

---------------------------------------------------------------------------
(* auth/sessions.js and auth/preauth.js.                                    *)

Room == Len(born) < plan.tokens
Fresh == Len(born) + 1
Issued(u) == Append(born, [at |-> now, user |-> u])

Expired(s) ==
    \/ sessions[s].ends <= now
    \/ sessions[s].seen + Idle <= now

\* loadSession: the session a cookie names, and the table it leaves behind.
Loaded(c) == IF c \in DOMAIN sessions /\ ~Expired(c) THEN c ELSE 0

\* Mutant: last_seen_at is written only when it is a whole idle period old.
AfterLoad_RarelySeen(c) ==
    IF c \notin DOMAIN sessions THEN sessions
    ELSE IF Expired(c) THEN Without(sessions, {c})
    ELSE [sessions EXCEPT ![c].used = now,
                          ![c].seen = IF @ + Idle <= now THEN Floor(now) ELSE @]

AfterLoad(c) ==
    IF c \notin DOMAIN sessions THEN sessions
    ELSE IF Expired(c) THEN Without(sessions, {c})
    ELSE [sessions EXCEPT ![c].used = now,
                          ![c].seen = IF @ + Refresh <= now THEN Floor(now) ELSE @]

NewSession(u) ==
    [user |-> u, seen |-> Floor(now), ends |-> Floor(now + Absolute), used |-> now]

\* preAuthCsrfToken: the token a pre-auth cookie stands for, if it still does.
Valid(p) == p \in DOMAIN preAuth /\ preAuth[p] > now

\* The rows a lookup of p leaves, and those a write or a prune leaves.
Looked(p) == IF Valid(p) THEN preAuth ELSE Without(preAuth, {p})
Unexpired(f) == Without(f, {p \in DOMAIN f : f[p] <= Floor(now)})

\* Mutant: every visit of the sign-in page issues a token of its own.
EnsurePreAuth_AlwaysFresh(t, p, did, clear) ==
    /\ Room
    /\ preAuth' = Unexpired(Extend(Looked(p), Fresh, Floor(now + Ttl)))
    /\ born' = Issued("nobody")
    /\ Answer(t, clear, Fresh, LoginPage(Fresh), did, "nobody")

\* ensurePreAuthCsrfToken, and the sign-in page that holds its token.
EnsurePreAuth(t, p, did, clear) ==
    \/ /\ Valid(p)
       /\ UNCHANGED <<preAuth, born>>
       /\ Answer(t, clear, Keep, LoginPage(p), did, "nobody")
    \/ /\ ~Valid(p) /\ Room
       /\ preAuth' = Unexpired(Extend(Looked(p), Fresh, Floor(now + Ttl)))
       /\ born' = Issued("nobody")
       /\ Answer(t, clear, Fresh, LoginPage(Fresh), did, "nobody")

\* pruneExpired and prunePreAuthTokens, on the server's timer.
Prune ==
    /\ sessions' = Without(sessions, {s \in DOMAIN sessions : sessions[s].ends <= Floor(now)})
    /\ preAuth' = Unexpired(preAuth)
    /\ UNCHANGED <<plan, now, cookie, pa, tabs, born, spent>>

---------------------------------------------------------------------------
(* A request, from the tab to the answer.                                   *)

\* What each request needs on the page it is made from: the address bar needs
\* nothing, a form must be there.
Offers(page, kind) ==
    \/ kind \in {"app", "login"}
    \/ kind = "signin" /\ page.kind = "login"
    \/ kind \in {"survey", "change", "logout"} /\ page.kind = "app"

\* The browser sends a request with the cookies it holds now.
Send(t, kind) ==
    /\ t \in plan.tabs /\ kind \in plan.kinds
    /\ tabs[t].req.stage = "quiet"
    /\ plan.overlap \/ \A other \in Tabs : tabs[other].req.stage = "quiet"
    /\ Offers(tabs[t].page, kind)
    /\ tabs' = [tabs EXCEPT ![t].req =
                   [Quiet EXCEPT !.stage = "sent", !.kind = kind, !.cookie = cookie, !.pa = pa]]
    /\ UNCHANGED <<plan, now, tables, browser>>

\* attachSession, then a GET's whole handler.
ArriveGet(t) ==
    /\ tabs[t].req.stage = "sent" /\ tabs[t].req.kind \in {"app", "login"}
    /\ LET r == tabs[t].req
           s == Loaded(r.cookie)
           clear == IF r.cookie # 0 /\ s = 0 THEN 0 ELSE Keep
       IN /\ sessions' = AfterLoad(r.cookie)
          /\ \/ /\ r.kind = "login" /\ s = 0
                /\ EnsurePreAuth(t, r.pa, "shown", clear)
             \/ /\ r.kind = "app" /\ s # 0
                /\ Answer(t, Keep, Keep, AppPage(s, sessions[s].user), "shown", "nobody")
                /\ UNCHANGED <<preAuth, born>>
             \/ /\ (r.kind = "app") = (s = 0)
                /\ Answer(t, clear, Keep, NoPage, "moved", "nobody")
                /\ UNCHANGED <<preAuth, born>>
    /\ UNCHANGED <<plan, now, spent, browser>>

\* attachSession, for a POST: its body is still to be read. A survey without a
\* session is refused at once by requireAuth, and the multipart branch of
\* csrfGuard, finding csrfVerified unset, turns that answer into an error page.
ArrivePost(t) ==
    /\ tabs[t].req.stage = "sent" /\ tabs[t].req.kind \notin {"app", "login"}
    /\ LET r == tabs[t].req
           s == Loaded(r.cookie)
           clears == r.cookie # 0 /\ s = 0
       IN /\ sessions' = AfterLoad(r.cookie)
          /\ \/ /\ r.kind = "survey" /\ s = 0
                /\ Answer(t, IF clears THEN 0 ELSE Keep, Keep, NoPage, "error", "nobody")
             \/ /\ r.kind # "survey" \/ s # 0
                /\ tabs' = [tabs EXCEPT ![t].req =
                       [r EXCEPT !.stage = "arrived", !.session = s, !.clears = clears,
                                 !.user = IF s = 0 THEN "nobody" ELSE sessions[s].user]]
    /\ UNCHANGED <<plan, now, preAuth, born, spent, browser>>

\* The token a form must carry: the session's, or for a request without one
\* the pre-auth cookie's. POST /surveys looks at the session's alone.
Expected(r) ==
    IF r.session # 0 THEN r.session
    ELSE IF r.kind # "survey" /\ Valid(r.pa) THEN r.pa ELSE 0

\* Mutant: any session will do, whatever page the form came from.
TokensMatch_AnySession(r, page) ==
    \/ r.session # 0
    \/ Expected(r) # 0 /\ page.csrf = Expected(r)

\* verifyCsrf (its Origin check passes: the pages are the site's own).
TokensMatch(r, page) == Expected(r) # 0 /\ page.csrf = Expected(r)

\* csrfGuard looks a pre-auth cookie up only when there is no session.
GuardLooks(r) == r.session = 0 /\ r.kind # "survey"

Refuse(t) ==
    /\ tabs[t].req.stage = "arrived"
    /\ ~TokensMatch(tabs[t].req, tabs[t].page)
    /\ LET r == tabs[t].req IN
       /\ preAuth' = IF GuardLooks(r) THEN Looked(r.pa) ELSE preAuth
       /\ Answer(t, Kept(r), Keep, NoPage, IF r.kind = "survey" THEN "error" ELSE "stale", "nobody")
    /\ UNCHANGED <<plan, now, sessions, born, spent, browser>>

\* POST /surveys: the survey is stored for the user the context holds, or the
\* form comes back to be corrected.
StoreSurvey(t) ==
    /\ tabs[t].req.stage = "arrived" /\ tabs[t].req.kind = "survey"
    /\ TokensMatch(tabs[t].req, tabs[t].page)
    /\ LET r == tabs[t].req IN
       \/ Answer(t, Keep, Keep, NoPage, "stored", r.user)
       \/ Answer(t, Keep, Keep, AppPage(r.session, r.user), "shown", "nobody")
    /\ UNCHANGED <<plan, now, tables, browser>>

\* Mutant: signing out clears the browser's cookie and leaves the row.
SignOut_CookieOnly(r) == sessions

\* signOut's destroySession.
SignOut(r) == Without(sessions, {r.session})

\* POST /logout. The answer clears the session cookie, and over HTTPS its
\* Clear-Site-Data the other one too.
Logout(t) ==
    /\ tabs[t].req.stage = "arrived" /\ tabs[t].req.kind = "logout"
    /\ TokensMatch(tabs[t].req, tabs[t].page)
    /\ sessions' = SignOut(tabs[t].req)
    /\ \E p \in {0, Keep} : Answer(t, 0, p, NoPage, "left", tabs[t].req.user)
    /\ UNCHANGED <<plan, now, preAuth, born, spent, browser>>

\* POST /login and POST /account/password pass the guard and start to hash.
\* The route of the second answers a visitor without a user at once.
StartHashing(t) ==
    /\ tabs[t].req.stage = "arrived" /\ tabs[t].req.kind \in {"signin", "change"}
    /\ TokensMatch(tabs[t].req, tabs[t].page)
    /\ IF tabs[t].req.kind = "change" /\ tabs[t].req.session = 0
       THEN Answer(t, Kept(tabs[t].req), Keep, NoPage, "moved", "nobody")
       ELSE tabs' = [tabs EXCEPT ![t].req = [@ EXCEPT !.stage = "hashing"]]
    /\ UNCHANGED <<plan, now, tables, browser>>

\* A sign-in that fails shows the form again, with a token that is still good.
SignInFails(t) ==
    /\ tabs[t].req.stage = "hashing" /\ tabs[t].req.kind = "signin"
    /\ EnsurePreAuth(t, tabs[t].req.pa, "failed", Kept(tabs[t].req))
    /\ UNCHANGED <<plan, now, sessions, spent, browser>>

\* rotateSession, then discardPreAuthToken and both cookies.
SignInSucceeds(t, u) ==
    /\ tabs[t].req.stage = "hashing" /\ tabs[t].req.kind = "signin" /\ Room
    /\ sessions' = Extend(Without(sessions, {tabs[t].req.session}), Fresh, NewSession(u))
    /\ born' = Issued(u)
    /\ preAuth' = Without(preAuth, {tabs[t].req.pa})
    /\ spent' = spent \cup {tabs[t].req.pa}
    /\ Answer(t, Fresh, 0, NoPage, "entered", u)
    /\ UNCHANGED <<plan, now, browser>>

\* destroyUserSessions.
OthersThan(u) == Without(sessions, {s \in DOMAIN sessions : sessions[s].user = u})

\* A change of password: accepted, or shown again with its problems.
ChangeEnds(t) ==
    /\ tabs[t].req.stage = "hashing" /\ tabs[t].req.kind = "change"
    /\ LET r == tabs[t].req IN
       \/ /\ Room
          /\ sessions' = Extend(OthersThan(r.user), Fresh, NewSession(r.user))
          /\ born' = Issued(r.user)
          /\ Answer(t, Fresh, Keep, NoPage, "changed", r.user)
       \/ /\ Answer(t, Keep, Keep, AppPage(r.session, r.user), "shown", "nobody")
          /\ UNCHANGED <<sessions, born>>
    /\ UNCHANGED <<plan, now, preAuth, spent, browser>>

\* The browser takes the answer in: its cookies, then its page.
Receive(t) ==
    /\ tabs[t].req.stage = "answered"
    /\ LET a == tabs[t].req IN
       /\ cookie' = IF a.id = Keep THEN cookie ELSE a.id
       /\ pa' = IF a.pa = Keep THEN pa ELSE a.pa
       /\ tabs' = [tabs EXCEPT ![t] = [page |-> a.page, req |-> Quiet]]
    /\ UNCHANGED <<plan, now, tables>>

\* The tab is closed, or the connection drops, before the answer is there.
Lose(t) ==
    /\ plan.loses /\ tabs[t].req.stage = "answered"
    /\ tabs' = [tabs EXCEPT ![t] = [page |-> NoPage, req |-> Quiet]]
    /\ UNCHANGED <<plan, now, tables, browser>>

Tick ==
    /\ \E jump \in plan.jumps : now + jump <= plan.until /\ now' = now + jump
    /\ UNCHANGED <<plan, tabs, tables, browser>>

Serve(t) ==
    \/ ArriveGet(t)
    \/ ArrivePost(t)
    \/ Refuse(t)
    \/ StoreSurvey(t)
    \/ Logout(t)
    \/ StartHashing(t)
    \/ SignInFails(t)
    \/ \E u \in Users : SignInSucceeds(t, u)
    \/ ChangeEnds(t)

Next ==
    \/ \E t \in Tabs :
         \/ \E kind \in Kinds : Send(t, kind)
         \/ Serve(t)
         \/ Receive(t)
         \/ Lose(t)
    \/ Prune
    \/ Tick

Spec == Init /\ [][Next]_vars

---------------------------------------------------------------------------
(* Properties.                                                              *)

Anyone == Users \cup {"nobody"}
Row  == [user : Users, seen : Nat, ends : Nat, used : Nat]
Page == [kind : {"none", "app", "login"}, csrf : Nat, user : Anyone]
Request ==
    [stage : {"quiet", "sent", "arrived", "hashing"}, kind : Kinds \cup {"none"},
     cookie : Nat, pa : Nat, session : Nat, user : Anyone, clears : BOOLEAN]
Reply ==
    [stage : {"answered"}, id : Nat \cup {Keep}, pa : Nat \cup {Keep}, page : Page,
     did : {"shown", "moved", "error", "stale", "stored", "left", "failed", "entered", "changed"},
     by : Anyone]

\* Every row of both tables is of a token that was issued, and each of its
\* times is what the lookups can have written: last_seen_at at most the last
\* use and less than a refresh behind it, the end a whole life after the
\* sign-in less what the whole seconds cut off (sessions.js:78-79, 155-159).
TypeOK ==
    /\ plan \in Plans /\ now \in Nat /\ cookie \in Nat /\ pa \in Nat
    /\ tabs \in [Tabs -> [page : Page, req : Request \cup Reply]]
    /\ born \in Seq([at : Nat, user : Anyone])
    /\ DOMAIN sessions \subseteq 1..Len(born)
    /\ DOMAIN preAuth \subseteq 1..Len(born)
    /\ \A s \in DOMAIN sessions :
          /\ sessions[s] \in Row
          /\ sessions[s].used <= now
          /\ sessions[s].seen <= sessions[s].used
          /\ sessions[s].used < sessions[s].seen + Refresh
          /\ born[s].at <= sessions[s].used
          /\ sessions[s].ends <= born[s].at + Absolute
          /\ born[s].at + Absolute < sessions[s].ends + Second

\* The tab's request was just let in on session s.
LetIn(t, s) ==
    /\ tabs[t].req.stage = "sent" /\ tabs'[t].req.stage # "sent"
    /\ tabs[t].req.cookie = s
    /\ s \in DOMAIN sessions /\ s \in DOMAIN sessions'

\* The tab's request just ended sessions of its own accord.
Ends(t) ==
    /\ tabs[t].req # tabs'[t].req
    /\ tabs'[t].req.stage = "answered"
    /\ tabs'[t].req.did \in {"left", "entered", "changed"}

\* A session lets a request in only within the idle time of its last use and
\* within the absolute time of its sign-in; and it goes away on its own no
\* sooner than a refresh short of the one or a second short of the other. A
\* last_seen_at written once a minute, in whole seconds, must not let an idle
\* browser in nor throw a working one out (sessions.js:137-159, 219-224).
SessionsLastAsLong ==
    [][/\ \A t \in Tabs : \A s \in DOMAIN sessions :
             LetIn(t, s) =>
                /\ now < sessions[s].used + Idle
                /\ now < born[s].at + Absolute
       /\ \A s \in DOMAIN sessions \ DOMAIN sessions' :
             \/ \E t \in Tabs : Ends(t)
             \/ now + Refresh > sessions[s].used + Idle
             \/ now + Second > born[s].at + Absolute]_vars

\* What a form does is done for the user its page was made for: a page left
\* open in one tab while somebody else signs in in another is refused, and
\* never files its survey, signs out or changes a password as the other
\* (middleware.js:260-327, survey.routes.js:112-125).
ActsForItsPage ==
    \A t \in Tabs :
       LET a == tabs[t].req IN
       a.stage = "answered" /\ a.did \in {"stored", "left", "changed"} =>
          a.by = tabs[t].page.user

Sequential == ~plan.overlap /\ ~plan.loses
AllQuiet == \A t \in Tabs : tabs[t].req.stage = "quiet"

\* A browser that does one thing at a time leaves no session behind it:
\* between its requests the table holds its cookie's session at most, however
\* often it signed in, changed its password, signed out or let one lapse.
\* (Two answers that cross can leave a session without a cookie.)
NoSessionLeftBehind ==
    Sequential /\ AllQuiet => DOMAIN sessions \subseteq {cookie}

\* A sign-in form of such a browser is refused only when its token has been
\* used by a sign-in or its hour is over: opening the page in a second tab,
\* failing to sign in or a prune never takes a form's token away
\* (preauth.js:65-73, middleware.js:34-36).
LoginFormsKeepWorking ==
    [][Sequential =>
         \A t \in Tabs :
            ( /\ tabs[t].req.stage = "arrived" /\ tabs[t].req.kind = "signin"
              /\ tabs'[t].req.stage = "answered" /\ tabs'[t].req.did = "stale" )
            => \/ tabs[t].page.csrf \in spent
               \/ now + Second > born[tabs[t].page.csrf].at + Ttl]_vars
===========================================================================
