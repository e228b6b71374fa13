-------------------------- MODULE SessionsProofs --------------------------
(* Proofs about Sessions, for any users, tabs and plans and for any          *)
(* lifetimes. The invariant Inv has three parts. RowsInv: each row's times are   *)
(* what the lookups can have written, and the row's user is the one its      *)
(* token was issued to. TokensInv: a pre-auth token was issued to nobody.    *)
(* TabsInv: whatever a page, a request or an answer says of a session agrees *)
(* with whom its token was issued to, though the row may long be gone.       *)
EXTENDS Sessions, TLAPS

RowsInv ==
    /\ now \in Nat
    /\ born \in Seq([at : Nat, user : Anyone])
    /\ DOMAIN sessions \subseteq 1..Len(born)
    /\ \A s \in DOMAIN sessions :
          /\ sessions[s] \in Row
          /\ sessions[s].user = born[s].user
          /\ sessions[s].used <= now
          /\ sessions[s].seen <= sessions[s].used
          /\ sessions[s].used < sessions[s].seen + Refresh
          /\ born[s].at <= sessions[s].used
          /\ sessions[s].ends <= born[s].at + Absolute
          /\ born[s].at + Absolute < sessions[s].ends + Second

TokensInv ==
    /\ DOMAIN preAuth \subseteq 1..Len(born)
    /\ \A p \in DOMAIN preAuth : born[p].user = "nobody"

\* A page of the application was made for the user of its session.
PageTrue(page) ==
    page.kind = "app" =>
        /\ page.csrf \in 1..Len(born)
        /\ page.user = born[page.csrf].user
        /\ page.user \in Users

FormKinds == {"survey", "change", "logout"}

RequestTrue(r, page) ==
    /\ r.stage \in {"sent", "arrived", "hashing"} /\ r.kind \in FormKinds => page.kind = "app"
    /\ r.stage \in {"arrived", "hashing"} /\ r.session # 0 =>
          /\ r.session \in 1..Len(born)
          /\ r.user = born[r.session].user
          /\ r.user \in Users
    /\ r.stage = "arrived" /\ r.kind = "survey" => r.session # 0
    /\ r.stage = "hashing" /\ r.kind = "change" =>
          r.session # 0 /\ page.csrf = r.session
    /\ r.stage = "answered" =>
          /\ PageTrue(r.page)
          /\ r.did \in {"stored", "left", "changed"} => r.by = page.user

TabsInv ==
    /\ plan \in Plans /\ cookie \in Nat /\ pa \in Nat
    /\ tabs \in [Tabs -> [page : Page, req : Request \cup Reply]]
    /\ \A t \in Tabs : PageTrue(tabs[t].page) /\ RequestTrue(tabs[t].req, tabs[t].page)

Inv == RowsInv /\ TokensInv /\ TabsInv

---------------------------------------------------------------------------
(* Times.                                                                   *)

LEMMA FloorLaw ==
    ASSUME NEW x \in Nat
    PROVE  Floor(x) \in Nat /\ Floor(x) <= x /\ x < Floor(x) + Second
BY DEF Floor, Second

LEMMA NewRow ==
    ASSUME now \in Nat, NEW u \in Users
    PROVE  /\ NewSession(u) \in Row
           /\ NewSession(u).user = u /\ NewSession(u).used = now
           /\ NewSession(u).seen <= now /\ now < NewSession(u).seen + Refresh
           /\ NewSession(u).ends <= now + Absolute
           /\ now + Absolute < NewSession(u).ends + Second
<1>1. now + Absolute \in Nat
  BY TimesAssumption
<1>2. Floor(now) \in Nat /\ Floor(now) <= now /\ now < Floor(now) + Second
  BY FloorLaw
<1>3. /\ Floor(now + Absolute) \in Nat /\ Floor(now + Absolute) <= now + Absolute
      /\ now + Absolute < Floor(now + Absolute) + Second
  BY <1>1, FloorLaw
<1>4. now < Floor(now) + Refresh
  BY <1>2, TimesAssumption DEF Second
<1> QED
  BY <1>2, <1>3, <1>4 DEF NewSession, Row

---------------------------------------------------------------------------
(* The sessions table, by what a step does to it.                           *)

LEMMA EntryLaw ==
    ASSUME NEW S, NEW q \in Seq(S), NEW n \in 1..Len(q)
    PROVE  q[n] \in S
OBVIOUS

\* Rows only go.
LEMMA RowsGo ==
    ASSUME RowsInv, NEW gone, sessions' = Without(sessions, gone),
           born' = born, now' = now
    PROVE  RowsInv'
BY DEF RowsInv, Without, Restrict

LEMMA RowsStay ==
    ASSUME RowsInv, sessions' = sessions, born' = born, now' \in Nat, now <= now'
    PROVE  RowsInv'
BY DEF RowsInv, Row

\* A lookup: at most the looked-up row goes, or its last use is now.
LEMMA RowsLooked ==
    ASSUME RowsInv, NEW c, sessions' = AfterLoad(c), born' = born, now' = now
    PROVE  RowsInv'
<1>1. CASE c \notin DOMAIN sessions
  BY <1>1, RowsStay DEF AfterLoad, RowsInv
<1>2. CASE c \in DOMAIN sessions /\ Expired(c)
  BY <1>2, RowsGo DEF AfterLoad
<1>3. CASE c \in DOMAIN sessions /\ ~Expired(c)
  <2> DEFINE row == sessions[c]
             seen == IF row.seen + Refresh <= now THEN Floor(now) ELSE row.seen
  <2>1. sessions' = [sessions EXCEPT ![c].used = now, ![c].seen = seen]
    BY <1>3 DEF AfterLoad
  <2>2. row \in Row /\ row.used <= now /\ born[c].at <= row.used /\ now \in Nat
    BY <1>3 DEF RowsInv
  <2>3. Floor(now) \in Nat /\ Floor(now) <= now /\ now < Floor(now) + Second
    BY <2>2, FloorLaw
  <2>4. seen \in Nat /\ seen <= now /\ now < seen + Refresh
    BY <2>2, <2>3, <1>3, TimesAssumption DEF RowsInv, Row, Second
  <2> HIDE DEF seen
  <2>5. DOMAIN sessions' = DOMAIN sessions
    BY <2>1
  <2>6. /\ sessions'[c] = [row EXCEPT !.used = now, !.seen = seen]
        /\ \A s \in DOMAIN sessions \ {c} : sessions'[s] = sessions[s]
    BY <2>1, <1>3
  <2>7. /\ sessions'[c] \in Row /\ sessions'[c].user = row.user
        /\ sessions'[c].ends = row.ends
        /\ sessions'[c].used = now /\ sessions'[c].seen = seen
    BY <2>2, <2>4, <2>6 DEF Row
  <2>8. ASSUME NEW s \in DOMAIN sessions'
        PROVE  /\ sessions'[s] \in Row
               /\ sessions'[s].user = born[s].user
               /\ sessions'[s].used <= now
               /\ sessions'[s].seen <= sessions'[s].used
               /\ sessions'[s].used < sessions'[s].seen + Refresh
               /\ born[s].at <= sessions'[s].used
               /\ sessions'[s].ends <= born[s].at + Absolute
               /\ born[s].at + Absolute < sessions'[s].ends + Second
    <3>1. s \in DOMAIN sessions /\ s \in 1..Len(born)
      BY <2>5 DEF RowsInv
    <3>2. born[s] \in [at : Nat, user : Anyone]
      <4>1. born \in Seq([at : Nat, user : Anyone])
        BY DEF RowsInv
      <4> QED
        BY <3>1, <4>1, EntryLaw
    <3>3. /\ sessions[s] \in Row /\ sessions[s].user = born[s].user
          /\ sessions[s].used <= now
          /\ sessions[s].seen <= sessions[s].used
          /\ sessions[s].used < sessions[s].seen + Refresh
          /\ born[s].at <= sessions[s].used
          /\ sessions[s].ends <= born[s].at + Absolute
          /\ born[s].at + Absolute < sessions[s].ends + Second
      BY <3>1 DEF RowsInv
    <3>4. CASE s = c
      <4>1. born[s].at <= now
        BY <3>2, <3>3, <2>2 DEF Row
      <4> QED
        BY <4>1, <3>3, <3>4, <2>2, <2>4, <2>7
    <3>5. CASE s # c
      <4>1. sessions'[s] = sessions[s]
        BY <3>1, <3>5, <2>6
      <4> QED
        BY <4>1, <3>3
    <3> QED
      BY <3>4, <3>5
  <2>9. /\ now' \in Nat /\ born' \in Seq([at : Nat, user : Anyone])
        /\ DOMAIN sessions' \subseteq 1..Len(born')
    BY <2>5 DEF RowsInv
  <2> QED
    BY <2>8, <2>9 DEF RowsInv
<1> QED
  BY <1>1, <1>2, <1>3

LEMMA IssuedLaw ==
    ASSUME RowsInv, NEW u \in Anyone, born' = Issued(u)
    PROVE  /\ born' \in Seq([at : Nat, user : Anyone])
           /\ Len(born') = Len(born) + 1 /\ Len(born) \in Nat
           /\ \A n \in 1..Len(born) : born'[n] = born[n]
           /\ born'[Fresh].at = now /\ born'[Fresh].user = u
BY DEF RowsInv, Issued, Fresh

\* A token is issued for a form; the sessions stay, or rows go.
LEMMA RowsIssued ==
    ASSUME RowsInv, NEW u \in Anyone, born' = Issued(u), now' = now,
           NEW gone, sessions' = sessions \/ sessions' = Without(sessions, gone)
    PROVE  RowsInv'
<1>1. /\ born' \in Seq([at : Nat, user : Anyone]) /\ Len(born') = Len(born) + 1
      /\ Len(born) \in Nat /\ \A n \in 1..Len(born) : born'[n] = born[n]
  BY IssuedLaw
<1>2. DOMAIN sessions \subseteq 1..Len(born) /\ 1..Len(born) \subseteq 1..Len(born')
  BY <1>1 DEF RowsInv
<1>3. /\ DOMAIN sessions' \subseteq DOMAIN sessions
      /\ \A s \in DOMAIN sessions' : sessions'[s] = sessions[s]
  BY DEF Without, Restrict
<1>4. ASSUME NEW s \in DOMAIN sessions'
      PROVE  s \in DOMAIN sessions /\ sessions'[s] = sessions[s] /\ born'[s] = born[s]
  BY <1>1, <1>2, <1>3
<1>5. DOMAIN sessions' \subseteq 1..Len(born')
  BY <1>2, <1>3
<1> QED
  BY <1>1, <1>4, <1>5 DEF RowsInv

\* A session is opened, whichever rows go for it.
LEMMA RowsOpened ==
    ASSUME RowsInv, NEW u \in Users, NEW gone, born' = Issued(u), now' = now,
           sessions' = Extend(Without(sessions, gone), Fresh, NewSession(u))
    PROVE  RowsInv'
<1>1. /\ born' \in Seq([at : Nat, user : Anyone]) /\ Len(born') = Len(born) + 1
      /\ Len(born) \in Nat /\ \A n \in 1..Len(born) : born'[n] = born[n]
      /\ born'[Fresh].at = now /\ born'[Fresh].user = u
  BY IssuedLaw DEF Anyone
<1>2. DOMAIN sessions' = (DOMAIN sessions \ gone) \cup {Fresh} /\ Fresh \in 1..Len(born')
  BY <1>1 DEF Extend, Without, Restrict, Fresh
<1>3. Fresh \notin DOMAIN sessions /\ DOMAIN sessions \subseteq 1..Len(born)
  BY <1>1 DEF RowsInv, Fresh
<1>4. sessions'[Fresh] = NewSession(u) /\ \A s \in DOMAIN sessions \ gone : sessions'[s] = sessions[s]
  BY <1>3 DEF Extend, Without, Restrict
<1>5. 1..Len(born) \subseteq 1..Len(born')
  BY <1>1
<1>6. ASSUME NEW s \in DOMAIN sessions \ gone
      PROVE  /\ s \in DOMAIN sessions /\ sessions'[s] = sessions[s] /\ born'[s] = born[s]
  BY <1>1, <1>3, <1>4
<1>7. /\ NewSession(u) \in Row /\ NewSession(u).user = u /\ NewSession(u).used = now
      /\ NewSession(u).seen <= now /\ now < NewSession(u).seen + Refresh
      /\ NewSession(u).ends <= now + Absolute
      /\ now + Absolute < NewSession(u).ends + Second
  BY NewRow DEF RowsInv
<1>8. now' \in Nat /\ DOMAIN sessions' \subseteq 1..Len(born')
  BY <1>2, <1>3, <1>5 DEF RowsInv
<1>9. ASSUME NEW s \in DOMAIN sessions'
      PROVE  /\ sessions'[s] \in Row
             /\ sessions'[s].user = born'[s].user
             /\ sessions'[s].used <= now'
             /\ sessions'[s].seen <= sessions'[s].used
             /\ sessions'[s].used < sessions'[s].seen + Refresh
             /\ born'[s].at <= sessions'[s].used
             /\ sessions'[s].ends <= born'[s].at + Absolute
             /\ born'[s].at + Absolute < sessions'[s].ends + Second
  <2>1. CASE s = Fresh
    BY <2>1, <1>1, <1>4, <1>7 DEF RowsInv
  <2>2. CASE s \in DOMAIN sessions \ gone
    BY <2>2, <1>6 DEF RowsInv
  <2> QED
    BY <2>1, <2>2, <1>2
<1> QED
  BY <1>1, <1>8, <1>9 DEF RowsInv

---------------------------------------------------------------------------
(* Tokens, pages and requests.                                              *)

\* The pre-auth rows a lookup, a prune or a sign-in leaves.
LEMMA TokensGo ==
    ASSUME TokensInv, NEW gone, preAuth' = Without(preAuth, gone), born' = born
    PROVE  TokensInv'
BY DEF TokensInv, Without, Restrict

LEMMA TokensLooked ==
    ASSUME TokensInv, NEW p, preAuth' = Looked(p) \/ preAuth' = preAuth, born' = born
    PROVE  TokensInv'
<1>1. CASE preAuth' = preAuth
  BY <1>1 DEF TokensInv
<1>2. CASE preAuth' = Without(preAuth, {p})
  BY <1>2, TokensGo
<1> QED
  BY <1>1, <1>2 DEF Looked

\* Whatever was said of older tokens stays true when one is issued.
LEMMA Issuing ==
    ASSUME RowsInv, NEW u \in Anyone, born' = Issued(u)
    PROVE  /\ \A page : PageTrue(page) => PageTrue(page)'
           /\ \A r, page : RequestTrue(r, page) => RequestTrue(r, page)'
<1>1. /\ Len(born') = Len(born) + 1 /\ Len(born) \in Nat
      /\ \A n \in 1..Len(born) : born'[n] = born[n]
  BY IssuedLaw
<1>2. 1..Len(born) \subseteq 1..Len(born')
  BY <1>1
<1>3. ASSUME NEW page, PageTrue(page) PROVE PageTrue(page)'
  BY <1>1, <1>2, <1>3 DEF PageTrue
<1> QED
  BY <1>1, <1>2, <1>3 DEF RequestTrue

LEMMA Standing ==
    ASSUME born' = born
    PROVE  /\ \A page : PageTrue(page) => PageTrue(page)'
           /\ \A r, page : RequestTrue(r, page) => RequestTrue(r, page)'
BY DEF PageTrue, RequestTrue

\* A step that changes one tab leaves what the others say true.
LEMMA TabStep ==
    ASSUME TabsInv, NEW t \in Tabs, NEW q \in [page : Page, req : Request \cup Reply],
           tabs' = [tabs EXCEPT ![t] = q],
           PageTrue(q.page)', RequestTrue(q.req, q.page)',
           born' = born \/ (RowsInv /\ \E u \in Anyone : born' = Issued(u)),
           plan' = plan, cookie' \in Nat, pa' \in Nat
    PROVE  TabsInv'
<1>1. /\ \A page : PageTrue(page) => PageTrue(page)'
      /\ \A r, page : RequestTrue(r, page) => RequestTrue(r, page)'
  BY Standing, Issuing
<1>2. tabs' \in [Tabs -> [page : Page, req : Request \cup Reply]]
  BY DEF TabsInv
<1>3. ASSUME NEW o \in Tabs
      PROVE  (PageTrue(tabs[o].page) /\ RequestTrue(tabs[o].req, tabs[o].page))'
  <2>1. CASE o = t
    <3>1. tabs'[o] = q
      BY <2>1 DEF TabsInv
    <3> QED
      BY <3>1
  <2>2. CASE o # t
    <3>1. tabs'[o] = tabs[o]
      BY <2>2 DEF TabsInv
    <3>2. PageTrue(tabs[o].page) /\ RequestTrue(tabs[o].req, tabs[o].page)
      BY DEF TabsInv
    <3> QED
      BY <1>1, <3>1, <3>2
  <2> QED
    BY <2>1, <2>2
<1> QED
  BY <1>2, <1>3 DEF TabsInv

\* A step that changes what one tab waits for.
LEMMA RequestStep ==
    ASSUME TabsInv, NEW t \in Tabs, NEW r \in Request \cup Reply,
           NEW page, page = tabs[t].page,
           tabs' = [tabs EXCEPT ![t].req = r],
           RequestTrue(r, page)',
           born' = born \/ (RowsInv /\ \E u \in Anyone : born' = Issued(u)),
           plan' = plan, cookie' \in Nat, pa' \in Nat
    PROVE  TabsInv'
<1>1. tabs[t] \in [page : Page, req : Request \cup Reply] /\ PageTrue(page)
  BY DEF TabsInv
<1>2. PICK q \in [page : Page, req : Request \cup Reply] : q.page = page /\ q.req = r /\ q = [tabs[t] EXCEPT !.req = r]
  BY <1>1
<1>3. tabs' = [tabs EXCEPT ![t] = q]
  BY <1>2 DEF TabsInv
<1>4. PageTrue(page)'
  BY <1>1, Standing, Issuing
<1>5. PageTrue(q.page)' /\ RequestTrue(q.req, q.page)'
  BY <1>2, <1>4
<1> QED
  BY <1>3, <1>5, TabStep

Deeds == {"shown", "moved", "error", "stale", "stored", "left", "failed", "entered", "changed"}

\* An answer that shows a true page and was done for the page's user, if at all.
LEMMA AnswerStep ==
    ASSUME TabsInv, NEW t \in Tabs, NEW id \in Nat \cup {Keep}, NEW p \in Nat \cup {Keep},
           NEW page \in Page, NEW did \in Deeds, NEW by \in Anyone,
           Answer(t, id, p, page, did, by), PageTrue(page)',
           did \in {"stored", "left", "changed"} => by = tabs[t].page.user,
           born' = born \/ (RowsInv /\ \E u \in Anyone : born' = Issued(u)),
           plan' = plan, cookie' = cookie, pa' = pa
    PROVE  TabsInv'
<1> DEFINE a == [stage |-> "answered", id |-> id, pa |-> p, page |-> page, did |-> did, by |-> by]
<1>1. a \in Reply
  BY DEF Reply, Deeds
<1>2. tabs' = [tabs EXCEPT ![t].req = a]
  BY DEF Answer, Answered
<1>3. PICK shown : shown = tabs[t].page
  OBVIOUS
<1>4. a.stage = "answered" /\ a.page = page /\ a.did = did /\ a.by = by
  OBVIOUS
<1> HIDE DEF a
<1>5. RequestTrue(a, shown)'
  BY <1>3, <1>4 DEF RequestTrue
<1>6. cookie' \in Nat /\ pa' \in Nat
  BY DEF TabsInv
<1> QED
  BY <1>1, <1>2, <1>3, <1>5, <1>6, RequestStep

LEMMA NoPageTrue == NoPage \in Page /\ PageTrue(NoPage) /\ PageTrue(NoPage)'
BY DEF NoPage, Page, PageTrue, Anyone

LEMMA LoginPageTrue ==
    ASSUME NEW p \in Nat
    PROVE  LoginPage(p) \in Page /\ PageTrue(LoginPage(p)) /\ PageTrue(LoginPage(p))'
BY DEF LoginPage, Page, PageTrue, Anyone

LEMMA KeepLaw == Keep \in Nat \cup {Keep} /\ 0 \in Nat \cup {Keep} /\ "nobody" \in Anyone
BY DEF Anyone

\* The session a lookup finds, and the page shown with it.
LEMMA LoadedLaw ==
    ASSUME RowsInv, NEW c
    PROVE  /\ Loaded(c) = 0 \/ (Loaded(c) = c /\ c \in DOMAIN sessions)
           /\ Loaded(c) \in Nat
           /\ Loaded(c) # 0 =>
                /\ Loaded(c) \in 1..Len(born)
                /\ sessions[Loaded(c)].user \in Users
                /\ sessions[Loaded(c)].user = born[Loaded(c)].user
<1>1. Loaded(c) = 0 \/ (Loaded(c) = c /\ c \in DOMAIN sessions)
  BY DEF Loaded
<1>2. DOMAIN sessions \subseteq 1..Len(born) /\ Len(born) \in Nat
  BY DEF RowsInv
<1>3. ASSUME NEW s \in DOMAIN sessions
      PROVE  sessions[s].user \in Users /\ sessions[s].user = born[s].user
  BY DEF RowsInv, Row
<1> QED
  BY <1>1, <1>2, <1>3

LEMMA AppPageTrue ==
    ASSUME NEW s \in Nat, NEW u \in Users, s \in 1..Len(born), u = born[s].user, born' = born
    PROVE  AppPage(s, u) \in Page /\ PageTrue(AppPage(s, u))'
BY DEF AppPage, Page, PageTrue, Anyone

\* A request in flight is a request, not an answer.
LEMMA InFlight ==
    ASSUME TabsInv, NEW t \in Tabs, tabs[t].req.stage # "answered"
    PROVE  /\ tabs[t].req \in Request
           /\ tabs[t].page \in Page
           /\ PageTrue(tabs[t].page) /\ RequestTrue(tabs[t].req, tabs[t].page)
<1>1. tabs[t] \in [page : Page, req : Request \cup Reply]
  BY DEF TabsInv
<1>2. tabs[t].req \notin Reply
  BY DEF Reply
<1> QED
  BY <1>1, <1>2 DEF TabsInv

\* The sign-in page: its token is one that holds, or a new one.
LEMMA EnsuredStep ==
    ASSUME RowsInv, TokensInv, TabsInv, NEW t \in Tabs, NEW p, NEW did \in {"shown", "failed"},
           NEW clear \in {0, Keep}, EnsurePreAuth(t, p, did, clear),
           now' = now, plan' = plan, cookie' = cookie, pa' = pa
    PROVE  /\ TokensInv' /\ TabsInv'
           /\ born' = born \/ born' = Issued("nobody")
<1>1. /\ "nobody" \in Anyone /\ did \in Deeds
      /\ ~(did \in {"stored", "left", "changed"})
      /\ clear \in Nat \cup {Keep} /\ Keep \in Nat \cup {Keep}
  BY DEF Anyone, Deeds
<1>2. Len(born) \in Nat
  BY DEF RowsInv
<1>3. CASE Valid(p)
  <2>1. born' = born /\ preAuth' = preAuth /\ Answer(t, clear, Keep, LoginPage(p), did, "nobody")
    BY <1>3 DEF EnsurePreAuth
  <2>2. p \in Nat
    BY <1>2, <1>3 DEF Valid, TokensInv
  <2>3. LoginPage(p) \in Page /\ PageTrue(LoginPage(p))'
    BY <2>2, LoginPageTrue
  <2>4. TabsInv'
    BY <1>1, <2>1, <2>3, AnswerStep
  <2> QED
    BY <2>1, <2>4 DEF TokensInv
<1>4. CASE ~Valid(p)
  <2>1. /\ born' = Issued("nobody")
        /\ preAuth' = Unexpired(Extend(Looked(p), Fresh, Floor(now + Ttl)))
        /\ Answer(t, clear, Fresh, LoginPage(Fresh), did, "nobody")
    BY <1>4 DEF EnsurePreAuth
  <2>2. PICK n \in Nat : n = Fresh
    BY <1>2 DEF Fresh
  <2>3. Answer(t, clear, n, LoginPage(n), did, "nobody") /\ n \in Nat \cup {Keep}
    BY <2>1, <2>2
  <2>4. LoginPage(n) \in Page /\ PageTrue(LoginPage(n))'
    BY LoginPageTrue
  <2>5. born' = born \/ (RowsInv /\ \E u \in Anyone : born' = Issued(u))
    BY <1>1, <2>1
  <2>6. TabsInv'
    BY <1>1, <2>3, <2>4, <2>5, AnswerStep
  <2>7. DOMAIN preAuth' \subseteq DOMAIN preAuth \cup {Fresh}
    BY <2>1 DEF Unexpired, Extend, Looked, Without, Restrict
  <2>8. /\ Len(born') = Len(born) + 1
        /\ \A m \in 1..Len(born) : born'[m] = born[m]
        /\ born'[Fresh].user = "nobody"
    BY <1>1, <2>1, IssuedLaw
  <2>9. TokensInv'
    BY <1>2, <2>7, <2>8 DEF TokensInv, Fresh
  <2> QED
    BY <2>1, <2>6, <2>9
<1> QED
  BY <1>3, <1>4

---------------------------------------------------------------------------
(* Every step keeps the invariant.                                          *)

LEMMA SendKeeps ==
    ASSUME Inv, NEW t \in Tabs, NEW kind \in Kinds, Send(t, kind)
    PROVE  Inv'
<1>1. RowsInv' /\ TokensInv'
  BY RowsStay DEF Inv, Send, tables, RowsInv, TokensInv
<1> DEFINE r == [Quiet EXCEPT !.stage = "sent", !.kind = kind, !.cookie = cookie, !.pa = pa]
<1>2. PICK sent : sent = r
  OBVIOUS
<1>3. /\ sent \in Request /\ sent.stage = "sent" /\ sent.kind = kind
  BY <1>2 DEF Inv, TabsInv, Quiet, Request, Anyone
<1>4. tabs' = [tabs EXCEPT ![t].req = sent]
  BY <1>2 DEF Send
<1>5. PICK page : page = tabs[t].page
  OBVIOUS
<1>6. kind \in FormKinds => page.kind = "app"
  BY <1>5 DEF Send, Offers, FormKinds
<1>7. RequestTrue(sent, page)'
  BY <1>3, <1>6 DEF RequestTrue
<1>8. born' = born /\ plan' = plan /\ cookie' \in Nat /\ pa' \in Nat
  BY DEF Send, tables, browser, Inv, TabsInv
<1>9. TabsInv'
  BY <1>3, <1>4, <1>5, <1>7, <1>8, RequestStep DEF Inv
<1> QED
  BY <1>1, <1>9 DEF Inv

LEMMA ArriveGetKeeps ==
    ASSUME Inv, NEW t \in Tabs, ArriveGet(t)
    PROVE  Inv'
<1>1. PICK r : r = tabs[t].req
  OBVIOUS
<1>2. PICK s : s = Loaded(r.cookie)
  OBVIOUS
<1>3. PICK clear \in {0, Keep} : clear = IF r.cookie # 0 /\ s = 0 THEN 0 ELSE Keep
  OBVIOUS
<1>4. /\ s = 0 \/ (s = r.cookie /\ s \in DOMAIN sessions)
      /\ s \in Nat
      /\ s # 0 => s \in 1..Len(born) /\ sessions[s].user \in Users /\ sessions[s].user = born[s].user
  BY <1>2, LoadedLaw DEF Inv
<1>5. /\ sessions' = AfterLoad(r.cookie)
      /\ now' = now /\ plan' = plan /\ cookie' = cookie /\ pa' = pa
  BY <1>1 DEF ArriveGet, browser
<1>6. \/ r.kind = "login" /\ s = 0 /\ EnsurePreAuth(t, r.pa, "shown", clear)
      \/ s # 0 /\ Answer(t, Keep, Keep, AppPage(s, sessions[s].user), "shown", "nobody")
            /\ preAuth' = preAuth /\ born' = born
      \/ Answer(t, clear, Keep, NoPage, "moved", "nobody") /\ preAuth' = preAuth /\ born' = born
  BY <1>1, <1>2, <1>3 DEF ArriveGet
<1>7. /\ clear \in Nat \cup {Keep} /\ Keep \in Nat \cup {Keep} /\ "nobody" \in Anyone
      /\ "shown" \in Deeds /\ "moved" \in Deeds
      /\ ~("shown" \in {"stored", "left", "changed"}) /\ ~("moved" \in {"stored", "left", "changed"})
  BY DEF Anyone, Deeds
<1>8. CASE s = 0 /\ EnsurePreAuth(t, r.pa, "shown", clear)
  <2>1. TokensInv' /\ TabsInv' /\ (born' = born \/ born' = Issued("nobody"))
    BY <1>5, <1>8, EnsuredStep DEF Inv
  <2>2. sessions' = sessions \/ sessions' = Without(sessions, {r.cookie})
    BY <1>2, <1>5, <1>8, <1>4 DEF AfterLoad, Loaded, Inv, RowsInv
  <2>3. RowsInv'
    BY <1>5, <1>7, <2>1, <2>2, RowsLooked, RowsIssued DEF Inv
  <2> QED
    BY <2>1, <2>3 DEF Inv
<1>9. CASE s # 0 /\ Answer(t, Keep, Keep, AppPage(s, sessions[s].user), "shown", "nobody")
            /\ preAuth' = preAuth /\ born' = born
  <2>1. PICK u \in Users : u = sessions[s].user
    BY <1>4, <1>9
  <2>2. AppPage(s, u) \in Page /\ PageTrue(AppPage(s, u))'
    BY <1>4, <1>9, <2>1, AppPageTrue
  <2>3. Answer(t, Keep, Keep, AppPage(s, u), "shown", "nobody")
    BY <1>9, <2>1
  <2>4. TabsInv'
    BY <1>5, <1>7, <1>9, <2>2, <2>3, AnswerStep DEF Inv
  <2>5. RowsInv' /\ TokensInv'
    BY <1>5, <1>9, RowsLooked DEF Inv, TokensInv
  <2> QED
    BY <2>4, <2>5 DEF Inv
<1>10. CASE Answer(t, clear, Keep, NoPage, "moved", "nobody") /\ preAuth' = preAuth /\ born' = born
  <2>1. TabsInv'
    BY <1>5, <1>7, <1>10, NoPageTrue, AnswerStep DEF Inv
  <2>2. RowsInv' /\ TokensInv'
    BY <1>5, <1>10, RowsLooked DEF Inv, TokensInv
  <2> QED
    BY <2>1, <2>2 DEF Inv
<1> QED
  BY <1>6, <1>8, <1>9, <1>10

LEMMA ArrivePostKeeps ==
    ASSUME Inv, NEW t \in Tabs, ArrivePost(t)
    PROVE  Inv'
<1>1. PICK r : r = tabs[t].req
  OBVIOUS
<1>2. PICK s : s = Loaded(r.cookie)
  OBVIOUS
<1>3. PICK clears \in BOOLEAN : clears = (r.cookie # 0 /\ s = 0)
  OBVIOUS
<1>4. PICK page : page = tabs[t].page
  OBVIOUS
<1>5. /\ r \in Request /\ RequestTrue(r, page) /\ r.stage = "sent"
  BY <1>1, <1>4, InFlight DEF Inv, ArrivePost
<1>6. /\ s \in Nat
      /\ s # 0 => s \in 1..Len(born) /\ sessions[s].user \in Users /\ sessions[s].user = born[s].user
  BY <1>2, LoadedLaw DEF Inv
<1>7. /\ sessions' = AfterLoad(r.cookie) /\ preAuth' = preAuth /\ born' = born
      /\ now' = now /\ plan' = plan /\ cookie' = cookie /\ pa' = pa
  BY <1>1 DEF ArrivePost, browser
<1>8. RowsInv' /\ TokensInv'
  BY <1>7, RowsLooked DEF Inv, TokensInv
<1>9. CASE Answer(t, IF clears THEN 0 ELSE Keep, Keep, NoPage, "error", "nobody")
  <2>1. /\ (IF clears THEN 0 ELSE Keep) \in Nat \cup {Keep} /\ Keep \in Nat \cup {Keep}
        /\ "nobody" \in Anyone /\ "error" \in Deeds /\ ~("error" \in {"stored", "left", "changed"})
    BY DEF Anyone, Deeds
  <2>2. PICK id \in Nat \cup {Keep} : id = IF clears THEN 0 ELSE Keep
    BY <2>1
  <2>3. Answer(t, id, Keep, NoPage, "error", "nobody")
    BY <1>9, <2>2
  <2>4. TabsInv'
    BY <1>7, <2>1, <2>3, NoPageTrue, AnswerStep DEF Inv
  <2> QED
    BY <1>8, <2>4 DEF Inv
<1>10. CASE /\ r.kind # "survey" \/ s # 0
            /\ tabs' = [tabs EXCEPT ![t].req =
                  [r EXCEPT !.stage = "arrived", !.session = s, !.clears = clears,
                            !.user = IF s = 0 THEN "nobody" ELSE sessions[s].user]]
  <2>1. PICK u : u = IF s = 0 THEN "nobody" ELSE sessions[s].user
    OBVIOUS
  <2>2. u \in Anyone /\ (s # 0 => u \in Users /\ u = born[s].user)
    BY <1>6, <2>1 DEF Anyone
  <2>3. PICK a : a = [r EXCEPT !.stage = "arrived", !.session = s, !.clears = clears, !.user = u]
    OBVIOUS
  <2>4. /\ a \in Request /\ a.stage = "arrived" /\ a.session = s /\ a.user = u
        /\ a.kind = r.kind
    BY <1>5, <1>6, <2>2, <2>3 DEF Request
  <2>5. tabs' = [tabs EXCEPT ![t].req = a]
    BY <1>10, <2>1, <2>3
  <2>6. RequestTrue(a, page)'
    BY <1>5, <1>6, <1>7, <1>10, <2>2, <2>4 DEF RequestTrue
  <2>7. a \in Request \cup Reply /\ cookie' \in Nat /\ pa' \in Nat
    BY <1>7, <2>4 DEF Inv, TabsInv
  <2>8. TabsInv'
    BY <1>4, <1>7, <2>5, <2>6, <2>7, RequestStep DEF Inv
  <2> QED
    BY <1>8, <2>8 DEF Inv
<1> QED
  BY <1>1, <1>2, <1>3, <1>9, <1>10 DEF ArrivePost

LEMMA RefuseKeeps ==
    ASSUME Inv, NEW t \in Tabs, Refuse(t)
    PROVE  Inv'
<1>1. PICK r : r = tabs[t].req
  OBVIOUS
<1>2. PICK id \in Nat \cup {Keep} : id = Kept(r)
  BY DEF Kept
<1>3. PICK did \in {"error", "stale"} : did = IF r.kind = "survey" THEN "error" ELSE "stale"
  OBVIOUS
<1>4. /\ Answer(t, id, Keep, NoPage, did, "nobody")
      /\ preAuth' = Looked(r.pa) \/ preAuth' = preAuth
      /\ now' = now /\ plan' = plan /\ cookie' = cookie /\ pa' = pa
      /\ sessions' = sessions /\ born' = born
  BY <1>1, <1>2, <1>3 DEF Refuse, browser
<1>5. RowsInv' /\ TokensInv'
  BY <1>4, RowsStay, TokensLooked DEF Inv, RowsInv
<1>6. /\ Keep \in Nat \cup {Keep} /\ "nobody" \in Anyone /\ did \in Deeds
      /\ ~(did \in {"stored", "left", "changed"})
  BY DEF Anyone, Deeds
<1>7. TabsInv'
  BY <1>4, <1>6, NoPageTrue, AnswerStep DEF Inv
<1> QED
  BY <1>5, <1>7 DEF Inv

\* A form whose token matches was made for the user of the request's session,
\* and has a session: no pre-auth token was issued to a user.
LEMMA MatchLaw ==
    ASSUME Inv, NEW t \in Tabs, tabs[t].req.stage = "arrived", tabs[t].req.kind \in FormKinds,
           TokensMatch(tabs[t].req, tabs[t].page)
    PROVE  /\ tabs[t].req.session # 0
           /\ tabs[t].page.csrf = tabs[t].req.session
           /\ tabs[t].req.user = tabs[t].page.user
           /\ tabs[t].req.user \in Users
           /\ tabs[t].req.session \in 1..Len(born)
           /\ tabs[t].req.user = born[tabs[t].req.session].user
<1>1. PICK r : r = tabs[t].req
  OBVIOUS
<1>2. PICK page : page = tabs[t].page
  OBVIOUS
<1>3. PageTrue(page) /\ RequestTrue(r, page) /\ page.kind = "app"
  BY <1>1, <1>2, InFlight DEF Inv, RequestTrue
<1>4. page.csrf = Expected(r) /\ Expected(r) # 0
  BY <1>1, <1>2 DEF TokensMatch
<1>5. page.user \in Users /\ page.user = born[page.csrf].user
  BY <1>3 DEF PageTrue
<1>6. CASE r.session = 0
  <2>1. Valid(r.pa) /\ page.csrf = r.pa
    BY <1>4, <1>6 DEF Expected
  <2>2. born[page.csrf].user = "nobody"
    BY <2>1 DEF Valid, Inv, TokensInv
  <2> QED
    BY <1>5, <2>2, NamesAssumption
<1>7. CASE r.session # 0
  <2>1. page.csrf = r.session
    BY <1>4, <1>7 DEF Expected
  <2>2. r.session \in 1..Len(born) /\ r.user = born[r.session].user /\ r.user \in Users
    BY <1>1, <1>3, <1>7 DEF RequestTrue
  <2> QED
    BY <1>1, <1>2, <1>5, <1>7, <2>1, <2>2
<1> QED
  BY <1>6, <1>7

LEMMA StoreSurveyKeeps ==
    ASSUME Inv, NEW t \in Tabs, StoreSurvey(t)
    PROVE  Inv'
<1>1. /\ now' = now /\ plan' = plan /\ cookie' = cookie /\ pa' = pa
      /\ sessions' = sessions /\ born' = born /\ preAuth' = preAuth
  BY DEF StoreSurvey, tables, browser
<1>2. RowsInv' /\ TokensInv'
  BY <1>1, RowsStay DEF Inv, RowsInv, TokensInv
<1>3. PICK s, u : s = tabs[t].req.session /\ u = tabs[t].req.user
  OBVIOUS
<1>4. /\ s \in 1..Len(born) /\ u = born[s].user /\ u \in Users /\ u = tabs[t].page.user
  BY <1>3, MatchLaw DEF StoreSurvey, FormKinds
<1>5. s \in Nat /\ u \in Anyone
  BY <1>4 DEF Inv, RowsInv, Anyone
<1>6. /\ Keep \in Nat \cup {Keep} /\ "nobody" \in Anyone /\ "stored" \in Deeds /\ "shown" \in Deeds
      /\ ~("shown" \in {"stored", "left", "changed"})
  BY DEF Anyone, Deeds
<1>7. CASE Answer(t, Keep, Keep, NoPage, "stored", u)
  <2>1. TabsInv'
    BY <1>1, <1>4, <1>5, <1>6, <1>7, NoPageTrue, AnswerStep DEF Inv
  <2> QED
    BY <1>2, <2>1 DEF Inv
<1>8. CASE Answer(t, Keep, Keep, AppPage(s, u), "shown", "nobody")
  <2>1. AppPage(s, u) \in Page /\ PageTrue(AppPage(s, u))'
    BY <1>1, <1>4, <1>5, AppPageTrue
  <2>2. TabsInv'
    BY <1>1, <1>6, <1>8, <2>1, AnswerStep DEF Inv
  <2> QED
    BY <1>2, <2>2 DEF Inv
<1> QED
  BY <1>3, <1>7, <1>8 DEF StoreSurvey

LEMMA LogoutKeeps ==
    ASSUME Inv, NEW t \in Tabs, Logout(t)
    PROVE  Inv'
<1>1. /\ now' = now /\ plan' = plan /\ cookie' = cookie /\ pa' = pa
      /\ born' = born /\ preAuth' = preAuth
      /\ sessions' = Without(sessions, {tabs[t].req.session})
  BY DEF Logout, SignOut, browser
<1>2. PICK gone : gone = {tabs[t].req.session}
  OBVIOUS
<1>3. RowsInv'
  BY <1>1, <1>2, RowsGo DEF Inv
<1>4. TokensInv'
  BY <1>1 DEF Inv, TokensInv
<1>5. PICK u : u = tabs[t].req.user
  OBVIOUS
<1>6. u \in Anyone /\ u = tabs[t].page.user
  BY <1>5, MatchLaw DEF Logout, FormKinds, Anyone
<1>7. PICK p \in {0, Keep} : Answer(t, 0, p, NoPage, "left", u)
  BY <1>5 DEF Logout
<1>8. p \in Nat \cup {Keep} /\ 0 \in Nat \cup {Keep} /\ "left" \in Deeds
  BY DEF Deeds
<1>9. TabsInv'
  BY <1>1, <1>6, <1>7, <1>8, NoPageTrue, AnswerStep DEF Inv
<1> QED
  BY <1>3, <1>4, <1>9 DEF Inv

LEMMA StartHashingKeeps ==
    ASSUME Inv, NEW t \in Tabs, StartHashing(t)
    PROVE  Inv'
<1>1. /\ now' = now /\ plan' = plan /\ cookie' = cookie /\ pa' = pa
      /\ sessions' = sessions /\ born' = born /\ preAuth' = preAuth
  BY DEF StartHashing, tables, browser
<1>2. RowsInv' /\ TokensInv'
  BY <1>1, RowsStay DEF Inv, RowsInv, TokensInv
<1>3. PICK r, page : r = tabs[t].req /\ page = tabs[t].page
  OBVIOUS
<1>4. r \in Request /\ RequestTrue(r, page) /\ r.stage = "arrived" /\ r.kind \in {"signin", "change"}
  BY <1>3, InFlight DEF Inv, StartHashing
<1>5. CASE Answer(t, Kept(r), Keep, NoPage, "moved", "nobody")
  <2>1. PICK id \in Nat \cup {Keep} : id = Kept(r)
    BY DEF Kept
  <2>2. Answer(t, id, Keep, NoPage, "moved", "nobody")
    BY <1>5, <2>1
  <2>3. /\ Keep \in Nat \cup {Keep} /\ "nobody" \in Anyone /\ "moved" \in Deeds
        /\ ~("moved" \in {"stored", "left", "changed"})
    BY DEF Anyone, Deeds
  <2>4. TabsInv'
    BY <1>1, <2>2, <2>3, NoPageTrue, AnswerStep DEF Inv
  <2> QED
    BY <1>2, <2>4 DEF Inv
<1>6. CASE tabs' = [tabs EXCEPT ![t].req = [@ EXCEPT !.stage = "hashing"]]
  <2>1. PICK a : a = [r EXCEPT !.stage = "hashing"]
    OBVIOUS
  <2>2. /\ a \in Request /\ a.stage = "hashing" /\ a.kind = r.kind
        /\ a.session = r.session /\ a.user = r.user
    BY <1>4, <2>1 DEF Request
  <2>3. tabs' = [tabs EXCEPT ![t].req = a]
    BY <1>3, <1>6, <2>1 DEF Inv, TabsInv
  <2>4. r.kind = "change" => r.session # 0 /\ page.csrf = r.session
    BY <1>3, <1>4, MatchLaw DEF StartHashing, FormKinds
  <2>5. RequestTrue(a, page)'
    BY <1>1, <1>4, <2>2, <2>4 DEF RequestTrue
  <2>6. a \in Request \cup Reply /\ cookie' \in Nat /\ pa' \in Nat
    BY <1>1, <2>2 DEF Inv, TabsInv
  <2>7. TabsInv'
    BY <1>1, <1>3, <2>3, <2>5, <2>6, RequestStep DEF Inv
  <2> QED
    BY <1>2, <2>7 DEF Inv
<1> QED
  BY <1>3, <1>5, <1>6 DEF StartHashing

LEMMA SignInFailsKeeps ==
    ASSUME Inv, NEW t \in Tabs, SignInFails(t)
    PROVE  Inv'
<1>1. PICK p, clear : p = tabs[t].req.pa /\ clear = Kept(tabs[t].req)
  OBVIOUS
<1>2. /\ EnsurePreAuth(t, p, "failed", clear) /\ clear \in {0, Keep}
      /\ now' = now /\ plan' = plan /\ cookie' = cookie /\ pa' = pa /\ sessions' = sessions
  BY <1>1 DEF SignInFails, browser, Kept
<1>3. TokensInv' /\ TabsInv' /\ (born' = born \/ born' = Issued("nobody"))
  BY <1>2, EnsuredStep DEF Inv
<1>4. "nobody" \in Anyone
  BY DEF Anyone
<1>5. RowsInv'
  BY <1>2, <1>3, <1>4, RowsStay, RowsIssued DEF Inv, RowsInv
<1> QED
  BY <1>3, <1>5 DEF Inv

LEMMA SignInSucceedsKeeps ==
    ASSUME Inv, NEW t \in Tabs, NEW u \in Users, SignInSucceeds(t, u)
    PROVE  Inv'
<1>1. PICK gone, left : gone = {tabs[t].req.session} /\ left = {tabs[t].req.pa}
  OBVIOUS
<1>2. PICK n \in Nat : n = Fresh
  BY DEF Fresh, Inv, RowsInv
<1>3. /\ now' = now /\ plan' = plan /\ cookie' = cookie /\ pa' = pa
      /\ sessions' = Extend(Without(sessions, gone), Fresh, NewSession(u))
      /\ born' = Issued(u) /\ preAuth' = Without(preAuth, left)
      /\ Answer(t, n, 0, NoPage, "entered", u)
  BY <1>1, <1>2 DEF SignInSucceeds, browser
<1>4. RowsInv'
  BY <1>3, RowsOpened DEF Inv
<1>5. /\ u \in Anyone /\ n \in Nat \cup {Keep} /\ 0 \in Nat \cup {Keep} /\ "entered" \in Deeds
      /\ ~("entered" \in {"stored", "left", "changed"})
  BY DEF Anyone, Deeds
<1>6. born' = born \/ (RowsInv /\ \E v \in Anyone : born' = Issued(v))
  BY <1>3, <1>5 DEF Inv
<1>7. TabsInv'
  BY <1>3, <1>5, <1>6, NoPageTrue, AnswerStep DEF Inv
<1>8. /\ Len(born') = Len(born) + 1 /\ Len(born) \in Nat
      /\ \A m \in 1..Len(born) : born'[m] = born[m]
  BY <1>3, <1>5, IssuedLaw DEF Inv
<1>9. /\ DOMAIN preAuth' \subseteq DOMAIN preAuth /\ DOMAIN preAuth \subseteq 1..Len(born)
      /\ \A p \in DOMAIN preAuth : born[p].user = "nobody"
  BY <1>3 DEF Inv, TokensInv, Without, Restrict
<1>10. TokensInv'
  BY <1>8, <1>9 DEF TokensInv
<1> QED
  BY <1>4, <1>7, <1>10 DEF Inv

LEMMA ChangeEndsKeeps ==
    ASSUME Inv, NEW t \in Tabs, ChangeEnds(t)
    PROVE  Inv'
<1>1. PICK r, page : r = tabs[t].req /\ page = tabs[t].page
  OBVIOUS
<1>2. /\ r \in Request /\ RequestTrue(r, page) /\ PageTrue(page)
      /\ r.stage = "hashing" /\ r.kind = "change"
  BY <1>1, InFlight DEF Inv, ChangeEnds
<1>3. /\ r.session # 0 /\ page.csrf = r.session /\ page.kind = "app"
      /\ r.session \in 1..Len(born) /\ r.user = born[r.session].user /\ r.user \in Users
  BY <1>2 DEF RequestTrue, FormKinds
<1>4. r.user = page.user
  BY <1>2, <1>3 DEF PageTrue
<1>5. PICK s \in Nat, u \in Users : s = r.session /\ u = r.user
  BY <1>2, <1>3 DEF Request
<1>6. /\ now' = now /\ plan' = plan /\ cookie' = cookie /\ pa' = pa /\ preAuth' = preAuth
  BY DEF ChangeEnds, browser
<1>7. /\ u \in Anyone /\ Keep \in Nat \cup {Keep} /\ "changed" \in Deeds /\ "shown" \in Deeds
      /\ "nobody" \in Anyone /\ ~("shown" \in {"stored", "left", "changed"})
  BY DEF Anyone, Deeds
<1>8. CASE /\ sessions' = Extend(OthersThan(u), Fresh, NewSession(u))
           /\ born' = Issued(u)
           /\ Answer(t, Fresh, Keep, NoPage, "changed", u)
  <2>1. PICK gone : gone = {k \in DOMAIN sessions : sessions[k].user = u}
    OBVIOUS
  <2>2. sessions' = Extend(Without(sessions, gone), Fresh, NewSession(u))
    BY <1>8, <2>1 DEF OthersThan
  <2>3. RowsInv'
    BY <1>6, <1>8, <2>2, RowsOpened DEF Inv
  <2>4. PICK n \in Nat : n = Fresh
    BY DEF Fresh, Inv, RowsInv
  <2>5. Answer(t, n, Keep, NoPage, "changed", u) /\ n \in Nat \cup {Keep}
    BY <1>8, <2>4
  <2>6. born' = born \/ (RowsInv /\ \E v \in Anyone : born' = Issued(v))
    BY <1>7, <1>8 DEF Inv
  <2>7. u = tabs[t].page.user
    BY <1>1, <1>4, <1>5
  <2>8. TabsInv'
    BY <1>6, <1>7, <2>5, <2>6, <2>7, NoPageTrue, AnswerStep DEF Inv
  <2>9. /\ Len(born') = Len(born) + 1 /\ Len(born) \in Nat
        /\ \A m \in 1..Len(born) : born'[m] = born[m]
    BY <1>7, <1>8, IssuedLaw DEF Inv
  <2>10. TokensInv'
    BY <1>6, <2>9 DEF Inv, TokensInv
  <2> QED
    BY <2>3, <2>8, <2>10 DEF Inv
<1>9. CASE /\ Answer(t, Keep, Keep, AppPage(s, u), "shown", "nobody")
           /\ sessions' = sessions /\ born' = born
  <2>1. AppPage(s, u) \in Page /\ PageTrue(AppPage(s, u))'
    BY <1>3, <1>5, <1>9, AppPageTrue
  <2>2. TabsInv'
    BY <1>6, <1>7, <1>9, <2>1, AnswerStep DEF Inv
  <2>3. RowsInv' /\ TokensInv'
    BY <1>6, <1>9, RowsStay DEF Inv, RowsInv, TokensInv
  <2> QED
    BY <2>2, <2>3 DEF Inv
<1> QED
  BY <1>1, <1>5, <1>8, <1>9 DEF ChangeEnds

LEMMA ReceiveKeeps ==
    ASSUME Inv, NEW t \in Tabs, Receive(t) \/ Lose(t)
    PROVE  Inv'
<1>1. PICK a : a = tabs[t].req
  OBVIOUS
<1>2. a.stage = "answered" /\ tabs[t] \in [page : Page, req : Request \cup Reply]
  BY <1>1 DEF Receive, Lose, Inv, TabsInv
<1>3. a \in Reply /\ PageTrue(a.page) /\ a.page \in Page
  BY <1>1, <1>2 DEF Inv, TabsInv, RequestTrue, Request, Reply
<1>4. /\ now' = now /\ plan' = plan /\ born' = born /\ sessions' = sessions /\ preAuth' = preAuth
  BY DEF Receive, Lose, tables
<1>5. RowsInv' /\ TokensInv'
  BY <1>4, RowsStay DEF Inv, RowsInv, TokensInv
<1>6. a.id # Keep => a.id \in Nat
  BY <1>3 DEF Reply
<1>7. a.pa # Keep => a.pa \in Nat
  BY <1>3 DEF Reply
<1>8. cookie' \in Nat /\ pa' \in Nat
  BY <1>1, <1>6, <1>7 DEF Receive, Lose, browser, Inv, TabsInv
<1>9. PICK shown \in Page : /\ PageTrue(shown) /\ shown \in {a.page, NoPage}
                            /\ tabs' = [tabs EXCEPT ![t] = [page |-> shown, req |-> Quiet]]
  BY <1>1, <1>3, NoPageTrue DEF Receive, Lose
<1>10. Quiet \in Request /\ Quiet.stage = "quiet"
  BY DEF Quiet, Request, Anyone
<1>11. PICK q : q = [page |-> shown, req |-> Quiet]
  OBVIOUS
<1>12. q \in [page : Page, req : Request \cup Reply] /\ q.page = shown /\ q.req.stage = "quiet"
  BY <1>10, <1>11
<1>13. PageTrue(q.page)' /\ RequestTrue(q.req, q.page)'
  BY <1>4, <1>9, <1>12 DEF PageTrue, RequestTrue
<1>14. TabsInv'
  BY <1>4, <1>8, <1>9, <1>11, <1>12, <1>13, TabStep DEF Inv
<1> QED
  BY <1>5, <1>14 DEF Inv

LEMMA ClockKeeps ==
    ASSUME Inv, Prune \/ Tick \/ UNCHANGED vars
    PROVE  Inv'
<1>1. /\ plan' = plan /\ cookie' = cookie /\ pa' = pa /\ tabs' = tabs /\ born' = born
  BY DEF Prune, Tick, vars, tables, browser
<1>2. TabsInv'
  BY <1>1, Standing DEF Inv, TabsInv
<1>3. CASE Prune
  <2>1. PICK gone : sessions' = Without(sessions, gone)
    BY <1>3 DEF Prune
  <2>2. RowsInv'
    BY <1>1, <1>3, <2>1, RowsGo DEF Inv, Prune
  <2>3. PICK left : preAuth' = Without(preAuth, left)
    BY <1>3 DEF Prune, Unexpired
  <2>4. TokensInv'
    BY <1>1, <2>3, TokensGo DEF Inv
  <2> QED
    BY <1>2, <2>2, <2>4 DEF Inv
<1>4. CASE Tick \/ UNCHANGED vars
  <2>1. sessions' = sessions /\ preAuth' = preAuth
    BY <1>4 DEF Tick, vars, tables
  <2>2. plan.jumps \subseteq Nat /\ now \in Nat
    BY PlansAssumption DEF Inv, TabsInv, RowsInv
  <2>3. now' \in Nat /\ now <= now'
    BY <1>4, <2>2 DEF Tick, vars
  <2>4. RowsInv'
    BY <1>1, <2>1, <2>3, RowsStay DEF Inv
  <2> QED
    BY <1>1, <1>2, <2>1, <2>4 DEF Inv, TokensInv
<1> QED
  BY <1>3, <1>4

LEMMA InitHolds == Init => Inv
<1> SUFFICES ASSUME Init PROVE Inv
  OBVIOUS
<1>1. RowsInv
  BY DEF Init, RowsInv
<1>2. TokensInv
  BY DEF Init, TokensInv
<1>3. /\ Quiet \in Request /\ Quiet.stage = "quiet"
  BY DEF Quiet, Request, Anyone
<1>4. TabsInv
  BY <1>3, NoPageTrue DEF Init, TabsInv, RequestTrue
<1> QED
  BY <1>1, <1>2, <1>4 DEF Inv

LEMMA StepKeeps ==
    ASSUME Inv, [Next]_vars
    PROVE  Inv'
<1>1. CASE \E t \in Tabs, kind \in Kinds : Send(t, kind)
  BY <1>1, SendKeeps
<1>2. CASE \E t \in Tabs : Serve(t)
  <2>1. PICK t \in Tabs : Serve(t)
    BY <1>2
  <2> QED
    BY <2>1, ArriveGetKeeps, ArrivePostKeeps, RefuseKeeps, StoreSurveyKeeps, LogoutKeeps,
       StartHashingKeeps, SignInFailsKeeps, SignInSucceedsKeeps, ChangeEndsKeeps DEF Serve
<1>3. CASE \E t \in Tabs : Receive(t) \/ Lose(t)
  BY <1>3, ReceiveKeeps
<1>4. CASE Prune \/ Tick \/ UNCHANGED vars
  BY <1>4, ClockKeeps
<1> QED
  BY <1>1, <1>2, <1>3, <1>4 DEF Next

LEMMA InvHolds == Spec => []Inv
<1>1. Init => Inv
  BY InitHolds
<1>2. Inv /\ [Next]_vars => Inv'
  BY StepKeeps
<1> QED
  BY <1>1, <1>2, PTL DEF Spec

---------------------------------------------------------------------------
(* The theorems.                                                            *)

\* Every variable has its type, and every row's times are what its lookups
\* can have written (sessions.js:68-174).
THEOREM TypeCorrect == Spec => []TypeOK
<1>1. Inv => TypeOK
  BY DEF Inv, RowsInv, TokensInv, TabsInv, TypeOK
<1> QED
  BY <1>1, InvHolds, PTL

\* No form is ever carried out for another user than its page's, however many
\* tabs and users share the browser and however their requests cross
\* (middleware.js:260-327).
THEOREM PageActsForItsUser == Spec => []ActsForItsPage
<1>1. Inv => ActsForItsPage
  BY DEF Inv, TabsInv, RequestTrue, ActsForItsPage
<1> QED
  BY <1>1, InvHolds, PTL

\* A row's own times bound its last use and its sign-in.
LEMMA RowLaw ==
    ASSUME RowsInv, NEW s \in DOMAIN sessions
    PROVE  /\ now \in Nat /\ born[s].at \in Nat /\ sessions[s] \in Row
           /\ sessions[s].seen <= sessions[s].used
           /\ sessions[s].used < sessions[s].seen + Refresh
           /\ sessions[s].ends <= born[s].at + Absolute
           /\ born[s].at + Absolute < sessions[s].ends + Second
<1>1. s \in 1..Len(born) /\ born \in Seq([at : Nat, user : Anyone])
  BY DEF RowsInv
<1>2. born[s] \in [at : Nat, user : Anyone]
  BY <1>1, EntryLaw
<1> QED
  BY <1>2 DEF RowsInv

LEMMA LateLaw ==
    ASSUME RowsInv, NEW s \in DOMAIN sessions, Expired(s) \/ sessions[s].ends <= Floor(now)
    PROVE  now + Refresh > sessions[s].used + Idle \/ now + Second > born[s].at + Absolute
<1>1. Floor(now) \in Nat /\ Floor(now) <= now
  BY FloorLaw DEF RowsInv
<1> QED
  BY <1>1, RowLaw, TimesAssumption DEF Expired, Row, Second

LEMMA InTimeLaw ==
    ASSUME RowsInv, NEW s \in DOMAIN sessions, ~Expired(s)
    PROVE  now < sessions[s].used + Idle /\ now < born[s].at + Absolute
BY RowLaw, TimesAssumption DEF Expired, Row, Second

\* What a tab's answer and its request's other steps make of the stage.
LEMMA StageLaw ==
    ASSUME Inv, NEW t \in Tabs, tabs[t].req.stage = "sent", tabs'[t].req.stage # "sent", Next
    PROVE  sessions' = AfterLoad(tabs[t].req.cookie)
<1>0. tabs \in [Tabs -> [page : Page, req : Request \cup Reply]]
  BY DEF Inv, TabsInv
<1>1. ASSUME NEW o \in Tabs, NEW kind \in Kinds, Send(o, kind) PROVE FALSE
  BY <1>0, <1>1 DEF Send
<1>2. ASSUME NEW o \in Tabs, Receive(o) \/ Lose(o) PROVE FALSE
  BY <1>0, <1>2 DEF Receive, Lose
<1>3. ASSUME Prune \/ Tick PROVE FALSE
  BY <1>3 DEF Prune, Tick
<1>4. ASSUME NEW o \in Tabs, o # t, Serve(o) PROVE FALSE
  BY <1>0, <1>4 DEF Serve, ArriveGet, ArrivePost, Refuse, StoreSurvey, Logout, StartHashing,
     SignInFails, SignInSucceeds, ChangeEnds, EnsurePreAuth, Answer
<1>5. CASE Serve(t)
  <2>1. ArriveGet(t) \/ ArrivePost(t)
    BY <1>5 DEF Serve, Refuse, StoreSurvey, Logout, StartHashing, SignInFails, SignInSucceeds, ChangeEnds
  <2> QED
    BY <2>1 DEF ArriveGet, ArrivePost
<1> QED
  BY <1>1, <1>2, <1>3, <1>4, <1>5 DEF Next

LEMMA EndsLaw ==
    ASSUME Inv, NEW t \in Tabs, NEW id, NEW p, NEW page, NEW by,
           NEW did \in {"left", "entered", "changed"},
           tabs[t].req.stage # "answered", Answer(t, id, p, page, did, by)
    PROVE  Ends(t)
<1>1. tabs'[t].req = Answered(id, p, page, did, by)
  BY DEF Inv, TabsInv, Answer
<1>2. tabs'[t].req.stage = "answered" /\ tabs'[t].req.did = did
  BY <1>1 DEF Answered
<1> QED
  BY <1>2 DEF Ends

\* A row goes with a sign-out, a sign-in, a password change, or when its time is over.
LEMMA GoneLaw ==
    ASSUME Inv, Next, NEW s \in DOMAIN sessions, s \notin DOMAIN sessions'
    PROVE  (\E t \in Tabs : Ends(t)) \/ Expired(s) \/ sessions[s].ends <= Floor(now)
<1>1. ASSUME NEW t \in Tabs, ArriveGet(t) \/ ArrivePost(t) PROVE Expired(s)
  <2>1. sessions' = AfterLoad(tabs[t].req.cookie)
    BY <1>1 DEF ArriveGet, ArrivePost
  <2> QED
    BY <2>1 DEF AfterLoad, Without, Restrict
<1>2. ASSUME NEW t \in Tabs, Logout(t) PROVE Ends(t)
  BY <1>2, EndsLaw DEF Logout
<1>3. ASSUME NEW t \in Tabs, NEW u \in Users, SignInSucceeds(t, u) PROVE Ends(t)
  BY <1>3, EndsLaw DEF SignInSucceeds
<1>4. ASSUME NEW t \in Tabs, ChangeEnds(t) PROVE Ends(t)
  <2>1. PICK u : Answer(t, Fresh, Keep, NoPage, "changed", u) /\ tabs[t].req.stage = "hashing"
    BY <1>4 DEF ChangeEnds
  <2> QED
    BY <2>1, EndsLaw
<1>5. ASSUME Prune PROVE sessions[s].ends <= Floor(now)
  BY <1>5 DEF Prune, Without, Restrict
<1>6. ASSUME NEW t \in Tabs,
             (\E kind \in Kinds : Send(t, kind)) \/ Refuse(t) \/ StoreSurvey(t) \/ StartHashing(t)
             \/ SignInFails(t) \/ Receive(t) \/ Lose(t) \/ Tick
      PROVE  FALSE
  BY <1>6 DEF Send, Refuse, StoreSurvey, StartHashing, SignInFails, Receive, Lose, Tick, tables
<1>7. ~Tick
  BY DEF Tick, tables
<1> QED
  BY <1>1, <1>2, <1>3, <1>4, <1>5, <1>6, <1>7 DEF Next, Serve

\* A session lets nobody in after its time and ends on its own no sooner than
\* a refresh or a second before it, for all lifetimes (sessions.js:109-174).
THEOREM SessionLifetime == Spec => SessionsLastAsLong
<1> DEFINE Step ==
      /\ \A t \in Tabs : \A s \in DOMAIN sessions :
            LetIn(t, s) =>
               /\ now < sessions[s].used + Idle
               /\ now < born[s].at + Absolute
      /\ \A s \in DOMAIN sessions \ DOMAIN sessions' :
            \/ \E t \in Tabs : Ends(t)
            \/ now + Refresh > sessions[s].used + Idle
            \/ now + Second > born[s].at + Absolute
<1>1. ASSUME Inv, Next PROVE Step
  <2>1. ASSUME NEW t \in Tabs, NEW s \in DOMAIN sessions, LetIn(t, s)
        PROVE  now < sessions[s].used + Idle /\ now < born[s].at + Absolute
    <3>1. sessions' = AfterLoad(s)
      BY <1>1, <2>1, StageLaw DEF LetIn
    <3>2. ~Expired(s)
      BY <2>1, <3>1 DEF LetIn, AfterLoad, Without, Restrict
    <3> QED
      BY <1>1, <3>2, InTimeLaw DEF Inv
  <2>2. ASSUME NEW s \in DOMAIN sessions \ DOMAIN sessions', ~ \E t \in Tabs : Ends(t)
        PROVE  now + Refresh > sessions[s].used + Idle \/ now + Second > born[s].at + Absolute
    BY <1>1, <2>2, GoneLaw, LateLaw DEF Inv
  <2> QED
    BY <2>1, <2>2
<1>2. Inv /\ [Next]_vars => [Step]_vars
  BY <1>1
<1> QED
  BY <1>2, InvHolds, PTL DEF Spec, SessionsLastAsLong

---------------------------------------------------------------------------
(* A browser that does one thing at a time. TurnsInv: one tab at most waits  *)
(* for an answer, and the sessions table holds nothing but the session that  *)
(* tab's request or answer stands for, or between requests the cookie's.     *)
(* FormsInv: each token a sign-in form holds is used, or over, or it is      *)
(* stored and the browser's own; and while somebody is signed in, none of    *)
(* the last kind is left.                                                    *)

Busy(t) == tabs[t].req.stage # "quiet"

\* The one cookie whose session may be in the table while r is under way: what
\* it was sent with, then what was looked up, then what the answer leaves.
Holder(r) ==
    IF r.stage \in {"arrived", "hashing"} THEN r.session
    ELSE IF r.stage = "answered" /\ r.id # Keep THEN r.id ELSE cookie

OwnSession(r) ==
    /\ r.stage = "sent" => r.cookie = cookie
    /\ r.stage \in {"arrived", "hashing"} =>
          r.session \in {0, cookie} /\ (r.clears => r.session = 0)
    /\ DOMAIN sessions \subseteq {Holder(r)}

TurnsInv ==
    Sequential =>
        /\ \A t, o \in Tabs : Busy(t) /\ Busy(o) => t = o
        /\ AllQuiet => DOMAIN sessions \subseteq {cookie}
        /\ \A t \in Tabs : Busy(t) => OwnSession(tabs[t].req)

\* A step of the busy tab's request.
LEMMA TurnStep ==
    ASSUME TabsInv, TurnsInv, Sequential, NEW t \in Tabs, Busy(t), NEW r,
           tabs' = [tabs EXCEPT ![t].req = r], r.stage # "quiet",
           plan' = plan, OwnSession(r)'
    PROVE  TurnsInv'
<1>1. \A o \in Tabs : o # t => tabs[o].req.stage = "quiet"
  BY DEF TurnsInv, Busy
<1>2. tabs'[t].req = r /\ \A o \in Tabs : o # t => tabs'[o] = tabs[o]
  BY DEF TabsInv
<1>3. \A o \in Tabs : Busy(o)' => o = t
  BY <1>1, <1>2 DEF Busy
<1>4. ~AllQuiet'
  BY <1>2 DEF AllQuiet
<1> QED
  BY <1>2, <1>3, <1>4 DEF TurnsInv

LEMMA TurnAnswer ==
    ASSUME TabsInv, TurnsInv, Sequential, NEW t \in Tabs, Busy(t),
           NEW id, NEW p, NEW page, NEW did, NEW by, Answer(t, id, p, page, did, by),
           plan' = plan, cookie' = cookie,
           DOMAIN sessions' \subseteq {IF id = Keep THEN cookie ELSE id}
    PROVE  TurnsInv'
<1>1. PICK a : a = Answered(id, p, page, did, by)
  OBVIOUS
<1>2. a.stage = "answered" /\ a.id = id
  BY <1>1 DEF Answered
<1>3. OwnSession(a)'
  BY <1>2 DEF OwnSession, Holder
<1> QED
  BY <1>1, <1>2, <1>3, TurnStep DEF Answer

\* What a lookup leaves when the table holds the looked-up session at most.
LEMMA LookedUp ==
    ASSUME NEW c, DOMAIN sessions \subseteq {c}, sessions' = AfterLoad(c)
    PROVE  DOMAIN sessions' \subseteq {Loaded(c)} /\ Loaded(c) \in {0, c}
BY DEF AfterLoad, Loaded, Without, Restrict

LEMMA TurnArrives ==
    ASSUME Inv, TurnsInv, Sequential, NEW t \in Tabs, ArriveGet(t) \/ ArrivePost(t)
    PROVE  TurnsInv'
<1>1. PICK r, s : r = tabs[t].req /\ s = Loaded(r.cookie)
  OBVIOUS
<1>2. r.stage = "sent" /\ Busy(t)
  BY <1>1 DEF ArriveGet, ArrivePost, Busy
<1>3. r.cookie = cookie /\ DOMAIN sessions \subseteq {cookie}
  BY <1>1, <1>2 DEF TurnsInv, OwnSession, Holder
<1>4. sessions' = AfterLoad(cookie) /\ plan' = plan /\ cookie' = cookie /\ TabsInv
  BY <1>1, <1>3 DEF ArriveGet, ArrivePost, Inv, browser
<1>5. DOMAIN sessions' \subseteq {s} /\ s \in {0, cookie}
  BY <1>1, <1>3, <1>4, LookedUp
<1>6. 0 \notin DOMAIN sessions'
  BY <1>4 DEF Inv, RowsInv, AfterLoad, Without, Restrict
<1>7. DOMAIN sessions' \subseteq {cookie} /\ (s = 0 => DOMAIN sessions' = {})
  BY <1>5, <1>6
<1>8. ASSUME NEW id \in {0, Keep}, id = 0 => s = 0,
             NEW p, NEW page, NEW did, NEW by, Answer(t, id, p, page, did, by)
      PROVE  TurnsInv'
  BY <1>2, <1>4, <1>7, <1>8, TurnAnswer DEF Keep
<1>9. CASE ArriveGet(t)
  <2>1. PICK clear \in {0, Keep} : clear = IF r.cookie # 0 /\ s = 0 THEN 0 ELSE Keep
    OBVIOUS
  <2>2. clear = 0 => s = 0
    BY <2>1 DEF Keep
  <2>3. \/ EnsurePreAuth(t, r.pa, "shown", clear)
        \/ Answer(t, Keep, Keep, AppPage(s, sessions[s].user), "shown", "nobody")
        \/ Answer(t, clear, Keep, NoPage, "moved", "nobody")
    BY <1>1, <1>9, <2>1 DEF ArriveGet
  <2>4. CASE EnsurePreAuth(t, r.pa, "shown", clear)
    BY <1>8, <2>2, <2>4 DEF EnsurePreAuth
  <2> QED
    BY <1>8, <2>2, <2>3, <2>4 DEF Keep
<1>10. CASE ArrivePost(t)
  <2>1. CASE \E id \in {0, Keep} : (id = 0 => s = 0) /\ Answer(t, id, Keep, NoPage, "error", "nobody")
    BY <1>8, <2>1
  <2>2. CASE \E clears : clears = (r.cookie # 0 /\ s = 0) /\ tabs' = [tabs EXCEPT ![t].req =
                       [r EXCEPT !.stage = "arrived", !.session = s, !.clears = clears,
                                 !.user = IF s = 0 THEN "nobody" ELSE sessions[s].user]]
    <3>1. PICK clears : clears = (r.cookie # 0 /\ s = 0) /\ tabs' = [tabs EXCEPT ![t].req =
                       [r EXCEPT !.stage = "arrived", !.session = s, !.clears = clears,
                                 !.user = IF s = 0 THEN "nobody" ELSE sessions[s].user]]
      BY <2>2
    <3>2. PICK q : q = [r EXCEPT !.stage = "arrived", !.session = s, !.clears = clears,
                                 !.user = IF s = 0 THEN "nobody" ELSE sessions[s].user]
      OBVIOUS
    <3>3. r \in Request
      BY <1>1, <1>2, InFlight DEF Inv
    <3>4. q.stage = "arrived" /\ q.session = s /\ (q.clears => s = 0)
      BY <3>1, <3>2, <3>3 DEF Request
    <3>5. OwnSession(q)'
      BY <1>4, <1>5, <3>4 DEF OwnSession, Holder
    <3> QED
      BY <1>2, <1>4, <3>1, <3>2, <3>4, <3>5, TurnStep
  <2>3. (IF r.cookie # 0 /\ s = 0 THEN 0 ELSE Keep) \in {0, Keep}
        /\ ((IF r.cookie # 0 /\ s = 0 THEN 0 ELSE Keep) = 0 => s = 0)
    BY DEF Keep
  <2> QED
    BY <1>1, <1>10, <2>1, <2>2, <2>3 DEF ArrivePost
<1> QED
  BY <1>9, <1>10

\* A POST that has arrived, or hashes: its session is the table's, if any.
LEMMA TurnHeld ==
    ASSUME Inv, TurnsInv, Sequential, NEW t \in Tabs, tabs[t].req.stage \in {"arrived", "hashing"}
    PROVE  /\ Busy(t) /\ TabsInv
           /\ DOMAIN sessions \subseteq {tabs[t].req.session} /\ 0 \notin DOMAIN sessions
           /\ DOMAIN sessions \subseteq {cookie}
           /\ tabs[t].req.session = 0 \/ tabs[t].req.clears => DOMAIN sessions = {}
<1>1. Busy(t) /\ TabsInv
  BY DEF Busy, Inv
<1>2. OwnSession(tabs[t].req)
  BY <1>1 DEF TurnsInv
<1>3. 0 \notin DOMAIN sessions
  BY DEF Inv, RowsInv
<1> QED
  BY <1>1, <1>2, <1>3 DEF OwnSession, Holder

LEMMA TurnRefused ==
    ASSUME Inv, TurnsInv, Sequential, NEW t \in Tabs,
           Refuse(t) \/ StoreSurvey(t) \/ SignInFails(t)
    PROVE  TurnsInv'
<1>1. /\ tabs[t].req.stage \in {"arrived", "hashing"}
      /\ plan' = plan /\ cookie' = cookie /\ sessions' = sessions
  BY DEF Refuse, StoreSurvey, SignInFails, browser, tables
<1>2. /\ Busy(t) /\ TabsInv /\ DOMAIN sessions \subseteq {cookie}
      /\ tabs[t].req.clears => DOMAIN sessions = {}
  BY <1>1, TurnHeld
<1>3. PICK id, p, page, did, by :
         id \in {Keep, Kept(tabs[t].req)} /\ Answer(t, id, p, page, did, by)
  <2>1. CASE Refuse(t)
    BY <2>1 DEF Refuse
  <2>2. CASE StoreSurvey(t)
    BY <2>2 DEF StoreSurvey
  <2>3. CASE SignInFails(t)
    BY <2>3 DEF SignInFails, EnsurePreAuth
  <2> QED
    BY <2>1, <2>2, <2>3
<1>4. DOMAIN sessions' \subseteq {IF id = Keep THEN cookie ELSE id}
  BY <1>1, <1>2, <1>3 DEF Kept, Keep
<1> QED
  BY <1>1, <1>2, <1>3, <1>4, TurnAnswer

LEMMA TurnLogout ==
    ASSUME Inv, TurnsInv, Sequential, NEW t \in Tabs, Logout(t)
    PROVE  TurnsInv'
<1>1. /\ Busy(t) /\ TabsInv /\ DOMAIN sessions \subseteq {tabs[t].req.session}
  BY TurnHeld DEF Logout
<1>2. /\ plan' = plan /\ cookie' = cookie /\ DOMAIN sessions' = {}
      /\ \E p : Answer(t, 0, p, NoPage, "left", tabs[t].req.user)
  BY <1>1 DEF Logout, SignOut, Without, Restrict, browser
<1> QED
  BY <1>1, <1>2, TurnAnswer DEF Keep

LEMMA TurnHashes ==
    ASSUME Inv, TurnsInv, Sequential, NEW t \in Tabs, StartHashing(t)
    PROVE  TurnsInv'
<1>1. PICK r : r = tabs[t].req
  OBVIOUS
<1>2. /\ Busy(t) /\ TabsInv /\ DOMAIN sessions \subseteq {cookie} /\ r.stage = "arrived"
      /\ r.session = 0 \/ r.clears => DOMAIN sessions = {}
      /\ plan' = plan /\ cookie' = cookie /\ sessions' = sessions
  BY <1>1, TurnHeld DEF StartHashing, browser, tables
<1>3. CASE Answer(t, Kept(r), Keep, NoPage, "moved", "nobody")
  <2>1. DOMAIN sessions' \subseteq {IF Kept(r) = Keep THEN cookie ELSE Kept(r)}
    BY <1>2 DEF Kept, Keep
  <2> QED
    BY <1>2, <1>3, <2>1, TurnAnswer
<1>4. CASE tabs' = [tabs EXCEPT ![t].req = [r EXCEPT !.stage = "hashing"]]
  <2>1. PICK q : q = [r EXCEPT !.stage = "hashing"]
    OBVIOUS
  <2>2. r \in Request
    BY <1>1, <1>2, InFlight DEF Inv
  <2>3. q.stage = "hashing" /\ q.session = r.session /\ q.clears = r.clears
    BY <2>1, <2>2 DEF Request
  <2>4. OwnSession(r)
    BY <1>1, <1>2 DEF TurnsInv
  <2>5. OwnSession(q)'
    BY <1>2, <2>3, <2>4 DEF OwnSession, Holder
  <2> QED
    BY <1>2, <1>4, <2>1, <2>3, <2>5, TurnStep
<1> QED
  BY <1>1, <1>3, <1>4 DEF StartHashing

\* A sign-in and a changed password replace the one session there was.
LEMMA TurnEnters ==
    ASSUME Inv, TurnsInv, Sequential, NEW t \in Tabs,
           (\E u \in Users : SignInSucceeds(t, u)) \/ ChangeEnds(t)
    PROVE  TurnsInv'
<1>1. PICK r : r = tabs[t].req
  OBVIOUS
<1>2. /\ Busy(t) /\ TabsInv /\ DOMAIN sessions \subseteq {r.session} /\ r.stage = "hashing"
      /\ DOMAIN sessions \subseteq {cookie}
      /\ plan' = plan /\ cookie' = cookie
  BY <1>1, TurnHeld DEF SignInSucceeds, ChangeEnds, browser
<1>3. Fresh # Keep
  BY DEF Fresh, Keep, Inv, RowsInv
<1>4. ASSUME NEW u, NEW gone, DOMAIN sessions \subseteq gone,
             sessions' = Extend(Without(sessions, gone), Fresh, NewSession(u)),
             NEW p, NEW page, NEW did, NEW by, Answer(t, Fresh, p, page, did, by)
      PROVE  TurnsInv'
  <2>1. DOMAIN sessions' \subseteq {Fresh}
    BY <1>4 DEF Extend, Without, Restrict
  <2> QED
    BY <1>2, <1>3, <1>4, <2>1, TurnAnswer
<1>5. CASE \E u \in Users : SignInSucceeds(t, u)
  <2>1. PICK u \in Users : SignInSucceeds(t, u)
    BY <1>5
  <2>2. PICK gone : gone = {r.session}
    OBVIOUS
  <2>3. /\ DOMAIN sessions \subseteq gone
        /\ sessions' = Extend(Without(sessions, gone), Fresh, NewSession(u))
        /\ Answer(t, Fresh, 0, NoPage, "entered", u)
    BY <1>1, <1>2, <2>1, <2>2 DEF SignInSucceeds
  <2> QED
    BY <1>4, <2>3
<1>6. CASE /\ sessions' = Extend(OthersThan(r.user), Fresh, NewSession(r.user))
           /\ Answer(t, Fresh, Keep, NoPage, "changed", r.user)
           /\ r.kind = "change"
  <2>1. RequestTrue(r, tabs[t].page) /\ RowsInv
    BY <1>1 DEF Inv, TabsInv
  <2>2. \A s \in DOMAIN sessions : sessions[s].user = r.user
    BY <1>2, <1>6, <2>1 DEF RequestTrue, RowsInv
  <2>3. PICK gone : gone = {s \in DOMAIN sessions : sessions[s].user = r.user}
    OBVIOUS
  <2>4. DOMAIN sessions \subseteq gone
    BY <2>2, <2>3
  <2>5. sessions' = Extend(Without(sessions, gone), Fresh, NewSession(r.user))
    BY <1>6, <2>3 DEF OthersThan
  <2> QED
    BY <1>4, <1>6, <2>4, <2>5
<1>7. CASE \E page : Answer(t, Keep, Keep, page, "shown", "nobody") /\ sessions' = sessions
  BY <1>2, <1>7, TurnAnswer
<1> QED
  BY <1>1, <1>5, <1>6, <1>7 DEF ChangeEnds

LEMMA TurnEdges ==
    ASSUME Inv, TurnsInv, Sequential, NEW t \in Tabs,
           (\E kind \in Kinds : Send(t, kind)) \/ Receive(t) \/ Lose(t)
    PROVE  TurnsInv'
<1>1. ~Lose(t) /\ TabsInv /\ plan' = plan
  BY DEF Lose, Sequential, Inv, Send, Receive
<1>2. CASE \E kind \in Kinds : Send(t, kind)
  <2>1. PICK kind \in Kinds : Send(t, kind)
    BY <1>2
  <2>2. PICK r : r = [Quiet EXCEPT !.stage = "sent", !.kind = kind, !.cookie = cookie, !.pa = pa]
    OBVIOUS
  <2>3. /\ r.stage = "sent" /\ r.cookie = cookie
        /\ tabs' = [tabs EXCEPT ![t].req = r] /\ cookie' = cookie /\ sessions' = sessions
    BY <2>1, <2>2 DEF Quiet, Send, tables, browser
  <2>4. AllQuiet
    BY <2>1 DEF Send, Sequential, AllQuiet
  <2>5. DOMAIN sessions' \subseteq {cookie}
    BY <2>3, <2>4 DEF TurnsInv
  <2>6. tabs'[t].req = r /\ \A o \in Tabs : o # t => tabs'[o] = tabs[o]
    BY <1>1, <2>3 DEF TabsInv
  <2>7. OwnSession(r)'
    BY <2>3, <2>5 DEF OwnSession, Holder
  <2>8. \A o \in Tabs : Busy(o)' => o = t
    BY <2>4, <2>6 DEF Busy, AllQuiet
  <2>9. ~AllQuiet'
    BY <2>3, <2>6 DEF AllQuiet
  <2> QED
    BY <2>6, <2>7, <2>8, <2>9 DEF TurnsInv
<1>3. CASE Receive(t)
  <2>1. PICK a, q : a = tabs[t].req /\ q = [page |-> a.page, req |-> Quiet]
    OBVIOUS
  <2>2. /\ a.stage = "answered" /\ sessions' = sessions
        /\ cookie' = IF a.id = Keep THEN cookie ELSE a.id
        /\ tabs' = [tabs EXCEPT ![t] = q]
    BY <1>3, <2>1 DEF Receive, tables
  <2>3. Busy(t)
    BY <2>1, <2>2 DEF Busy
  <2>4. DOMAIN sessions' \subseteq {cookie'}
    BY <2>1, <2>2, <2>3 DEF TurnsInv, OwnSession, Holder
  <2>5. q.req.stage = "quiet"
    BY <2>1 DEF Quiet
  <2>6. tabs'[t] = q /\ \A o \in Tabs : o # t => tabs'[o] = tabs[o]
    BY <1>1, <2>2 DEF TabsInv
  <2>7. \A o \in Tabs : ~Busy(o)'
    BY <2>3, <2>5, <2>6 DEF TurnsInv, Busy
  <2> QED
    BY <2>4, <2>7 DEF TurnsInv
<1> QED
  BY <1>1, <1>2, <1>3

\* The timer, the clock: rows only go.
LEMMA TurnClock ==
    ASSUME TurnsInv, Prune \/ Tick \/ UNCHANGED vars
    PROVE  TurnsInv'
<1>1. plan' = plan /\ cookie' = cookie /\ tabs' = tabs
  BY DEF Prune, Tick, vars, tables, browser
<1>2. DOMAIN sessions' \subseteq DOMAIN sessions
  BY DEF Prune, Tick, vars, tables, Without, Restrict
<1>3. \A r : OwnSession(r) => OwnSession(r)'
  BY <1>1, <1>2 DEF OwnSession, Holder
<1> QED
  BY <1>1, <1>2, <1>3 DEF TurnsInv, Sequential, Busy, AllQuiet

LEMMA TurnInit == Init => TurnsInv
BY DEF Init, TurnsInv, Busy, Quiet

LEMMA TurnKeeps ==
    ASSUME Inv, TurnsInv, [Next]_vars
    PROVE  TurnsInv'
<1>1. CASE Prune \/ Tick \/ UNCHANGED vars
  BY <1>1, TurnClock
<1>2. CASE \E t \in Tabs : (\E kind \in Kinds : Send(t, kind)) \/ Serve(t) \/ Receive(t) \/ Lose(t)
  <2>1. PICK t \in Tabs : (\E kind \in Kinds : Send(t, kind)) \/ Serve(t) \/ Receive(t) \/ Lose(t)
    BY <1>2
  <2>2. plan' = plan
    BY <2>1 DEF Send, Serve, Receive, Lose, ArriveGet, ArrivePost, Refuse, StoreSurvey, Logout,
       StartHashing, SignInFails, SignInSucceeds, ChangeEnds
  <2>3. CASE Sequential
    BY <2>1, <2>3, TurnArrives, TurnRefused, TurnLogout, TurnHashes, TurnEnters, TurnEdges DEF Serve
  <2>4. CASE ~Sequential
    BY <2>2, <2>4 DEF TurnsInv, Sequential
  <2> QED
    BY <2>3, <2>4
<1> QED
  BY <1>1, <1>2 DEF Next

LEMMA TurnsHold == Spec => [](Inv /\ TurnsInv)
<1>1. Init => Inv /\ TurnsInv
  BY InitHolds, TurnInit
<1>2. Inv /\ TurnsInv /\ [Next]_vars => (Inv /\ TurnsInv)'
  BY StepKeeps, TurnKeeps
<1> QED
  BY <1>1, <1>2, PTL DEF Spec

\* A browser that does one thing at a time has between its requests the
\* session of its cookie in the table at most (sessions.js:176-217).
THEOREM OneSessionAtMost == Spec => []NoSessionLeftBehind
<1>1. Inv /\ TurnsInv => NoSessionLeftBehind
  BY DEF TurnsInv, NoSessionLeftBehind
<1> QED
  BY <1>1, TurnsHold, PTL

---------------------------------------------------------------------------
(* The sign-in forms of such a browser.                                     *)

\* Used by a sign-in, or its hour over but for the second cut off.
Dead(p) == p \in spent \/ now + Second > born[p].at + Ttl

PreTimes == \A p \in DOMAIN preAuth : preAuth[p] = Floor(born[p].at + Ttl)

\* A token of a form was issued to nobody.
LoginTrue(page) ==
    page.kind = "login" => page.csrf \in 1..Len(born) /\ born[page.csrf].user = "nobody"

FormTrue(r, page) ==
    /\ r.stage \in {"sent", "arrived", "hashing"} => r.pa = pa
    /\ r.stage \in {"sent", "arrived", "hashing"} /\ r.kind = "signin" => page.kind = "login"
    /\ r.stage = "hashing" /\ r.kind = "signin" => r.session = 0 /\ page.csrf = r.pa
    /\ r.stage = "answered" => LoginTrue(r.page)

Showing(p) ==
    \E t \in Tabs :
       \/ tabs[t].page.kind = "login" /\ tabs[t].page.csrf = p
       \/ /\ tabs[t].req.stage = "answered"
          /\ tabs[t].req.page.kind = "login" /\ tabs[t].req.page.csrf = p

\* The pre-auth cookie the browser has, or will have with the answer.
Coming(r) == IF r.stage = "answered" /\ r.pa # Keep THEN r.pa ELSE pa
IsNextPa(p) ==
    /\ AllQuiet => p = pa
    /\ \A t \in Tabs : Busy(t) => p = Coming(tabs[t].req)

Occupied ==
    \/ DOMAIN sessions # {}
    \/ \E t \in Tabs : tabs[t].req.stage \in {"arrived", "hashing"} /\ tabs[t].req.session # 0

\* Every token a form holds is dead, or is the browser's one and stored; and
\* while somebody is signed in they are all dead.
FormsInv ==
    Sequential =>
       /\ PreTimes
       /\ \A t \in Tabs : LoginTrue(tabs[t].page) /\ FormTrue(tabs[t].req, tabs[t].page)
       /\ \A p : Showing(p) => Dead(p) \/ (p \in DOMAIN preAuth /\ IsNextPa(p) /\ ~Occupied)

Grown ==
    /\ born' \in Seq([at : Nat, user : Anyone]) /\ Len(born) <= Len(born')
    /\ \A n \in 1..Len(born) : born'[n] = born[n]
    /\ now' \in Nat /\ now <= now' /\ spent \subseteq spent'

LEMMA BornLaw ==
    ASSUME RowsInv, NEW p \in 1..Len(born)
    PROVE  born[p] \in [at : Nat, user : Anyone] /\ born[p].at \in Nat /\ now \in Nat
<1>1. born \in Seq([at : Nat, user : Anyone]) /\ now \in Nat
  BY DEF RowsInv
<1>2. born[p] \in [at : Nat, user : Anyone]
  BY <1>1, EntryLaw
<1> QED
  BY <1>1, <1>2

LEMMA DeadStays ==
    ASSUME RowsInv, Grown, NEW p \in 1..Len(born), Dead(p)
    PROVE  Dead(p)'
<1>1. born'[p] = born[p] /\ born[p].at \in Nat /\ now \in Nat
  BY BornLaw DEF Grown
<1> QED
  BY <1>1, TimesAssumption DEF Dead, Grown, Second

LEMMA LoginStays ==
    ASSUME RowsInv, Grown, NEW page, LoginTrue(page)
    PROVE  LoginTrue(page)'
BY DEF LoginTrue, Grown, RowsInv

LEMMA ShownLaw ==
    ASSUME FormsInv, Sequential, NEW p, Showing(p)
    PROVE  p \in 1..Len(born) /\ born[p].user = "nobody"
BY DEF FormsInv, Showing, LoginTrue, FormTrue

\* A row a lookup or a prune removes is of a dead token.
LEMMA LateRow ==
    ASSUME Inv, PreTimes, NEW p \in DOMAIN preAuth, preAuth[p] <= now \/ preAuth[p] <= Floor(now)
    PROVE  Dead(p)
<1>1. p \in 1..Len(born) /\ RowsInv
  BY DEF Inv, TokensInv
<1>2. born[p].at \in Nat /\ now \in Nat
  BY <1>1, BornLaw
<1>3. born[p].at + Ttl \in Nat /\ preAuth[p] = Floor(born[p].at + Ttl)
  BY <1>2, TimesAssumption DEF PreTimes
<1>4. /\ Floor(born[p].at + Ttl) \in Nat /\ born[p].at + Ttl < Floor(born[p].at + Ttl) + Second
      /\ Floor(now) \in Nat /\ Floor(now) <= now
  BY <1>2, <1>3, FloorLaw
<1> QED
  BY <1>2, <1>3, <1>4, TimesAssumption DEF Dead, Second

LEMMA TimesStay ==
    ASSUME Inv, PreTimes, Grown, NEW gone,
           preAuth' = preAuth \/ preAuth' = Without(preAuth, gone)
    PROVE  PreTimes'
<1>1. ASSUME NEW p \in DOMAIN preAuth'
      PROVE  preAuth'[p] = Floor(born'[p].at + Ttl)
  <2>1. p \in DOMAIN preAuth /\ preAuth'[p] = preAuth[p]
    BY <1>1 DEF Without, Restrict
  <2>2. born'[p] = born[p]
    BY <2>1 DEF Inv, TokensInv, Grown
  <2> QED
    BY <2>1, <2>2 DEF PreTimes
<1> QED
  BY <1>1 DEF PreTimes, Floor

LEMMA Standstill ==
    ASSUME Inv, born' = born, now' \in Nat, now <= now', spent' = spent
    PROVE  Grown
BY DEF Grown, Inv, RowsInv

\* Before the answer of the busy tab: what a shown token is.
LEMMA FormBefore ==
    ASSUME Inv, FormsInv, Sequential, NEW t \in Tabs,
           tabs[t].req.stage \in {"sent", "arrived", "hashing"}, NEW p, Showing(p)
    PROVE  /\ p \in 1..Len(born) /\ born[p].user = "nobody"
           /\ Dead(p) \/ (p \in DOMAIN preAuth /\ p = pa /\ ~Occupied)
<1>1. Busy(t) /\ Coming(tabs[t].req) = pa
  BY DEF Busy, Coming
<1> QED
  BY <1>1, ShownLaw DEF FormsInv, IsNextPa

\* The answer of the busy tab, where every token shown is dead or the next one.
LEMMA FormAnswer ==
    ASSUME Inv, TurnsInv, FormsInv, Sequential, NEW t \in Tabs,
           tabs[t].req.stage \in {"sent", "arrived", "hashing"},
           NEW id, NEW pp, NEW page, NEW did, NEW by, Answer(t, id, pp, page, did, by),
           Grown, PreTimes', LoginTrue(page)', pa' = pa,
           NEW new, new = IF pp = Keep THEN pa ELSE pp,
           \A p : Showing(p) \/ (page.kind = "login" /\ page.csrf = p) =>
                     Dead(p)' \/ (p \in DOMAIN preAuth' /\ p = new /\ DOMAIN sessions' = {})
    PROVE  FormsInv'
<1>1. PICK a : a = Answered(id, pp, page, did, by)
  OBVIOUS
<1>2. a.stage = "answered" /\ a.pa = pp /\ a.page = page
  BY <1>1 DEF Answered
<1>3. /\ tabs'[t].req = a /\ tabs'[t].page = tabs[t].page
      /\ \A o \in Tabs : o # t => tabs'[o] = tabs[o]
  BY <1>1 DEF Answer, Inv, TabsInv
<1>4. \A o \in Tabs : o # t => tabs[o].req.stage = "quiet"
  BY DEF TurnsInv, Busy
<1>5. ASSUME NEW o \in Tabs
      PROVE  (LoginTrue(tabs[o].page) /\ FormTrue(tabs[o].req, tabs[o].page))'
  <2>1. LoginTrue(tabs[o].page)
    BY DEF FormsInv
  <2>2. LoginTrue(tabs[o].page)'
    <3>1. PICK shown : shown = tabs[o].page /\ shown = tabs'[o].page
      BY <1>3
    <3> QED
      BY <2>1, <3>1, LoginStays DEF Inv
  <2>3. CASE o = t
    BY <1>2, <1>3, <2>2, <2>3 DEF FormTrue
  <2>4. CASE o # t
    BY <1>3, <1>4, <2>2, <2>4 DEF FormTrue
  <2> QED
    BY <2>3, <2>4
<1>6. ASSUME NEW p, Showing(p)'
      PROVE  Dead(p)' \/ (p \in DOMAIN preAuth' /\ IsNextPa(p)' /\ ~Occupied')
  <2>1. Showing(p) \/ (page.kind = "login" /\ page.csrf = p)
    BY <1>2, <1>3, <1>4, <1>6 DEF Showing
  <2>2. CASE p \in DOMAIN preAuth' /\ p = new /\ DOMAIN sessions' = {}
    <3>1. Coming(tabs[t].req)' = new
      BY <1>2, <1>3 DEF Coming
    <3>2. IsNextPa(p)'
      BY <1>2, <1>3, <1>4, <2>2, <3>1 DEF IsNextPa, Busy, AllQuiet
    <3>3. ~Occupied'
      BY <1>2, <1>3, <1>4, <2>2 DEF Occupied
    <3> QED
      BY <2>2, <3>2, <3>3
  <2> QED
    BY <2>1, <2>2
<1> QED
  BY <1>5, <1>6 DEF FormsInv

\* The busy tab's request goes on; the tables stay, or rows of sessions go.
LEMMA FormMove ==
    ASSUME Inv, TurnsInv, FormsInv, Sequential, NEW t \in Tabs,
           tabs[t].req.stage \in {"sent", "arrived", "hashing"},
           NEW r, tabs' = [tabs EXCEPT ![t].req = r],
           r.stage \in {"arrived", "hashing"}, r.pa = pa,
           r.kind = "signin" => tabs[t].page.kind = "login",
           r.kind = "signin" /\ r.stage = "hashing" => r.session = 0 /\ tabs[t].page.csrf = r.pa,
           r.session # 0 => Occupied,
           DOMAIN sessions' \subseteq DOMAIN sessions,
           preAuth' = preAuth, born' = born, spent' = spent, now' = now, pa' = pa
    PROVE  FormsInv'
<1>1. /\ tabs'[t].req = r /\ tabs'[t].page = tabs[t].page
      /\ \A o \in Tabs : o # t => tabs'[o] = tabs[o]
  BY DEF Inv, TabsInv
<1>2. \A o \in Tabs : o # t => tabs[o].req.stage = "quiet"
  BY DEF TurnsInv, Busy
<1>3. ASSUME NEW o \in Tabs
      PROVE  (LoginTrue(tabs[o].page) /\ FormTrue(tabs[o].req, tabs[o].page))'
  <2>1. LoginTrue(tabs[o].page)'
    BY <1>1 DEF FormsInv, LoginTrue
  <2>2. CASE o = t
    BY <1>1, <2>1, <2>2 DEF FormTrue
  <2>3. CASE o # t
    BY <1>1, <1>2, <2>1, <2>3 DEF FormTrue
  <2> QED
    BY <2>2, <2>3
<1>4. ASSUME NEW p, Showing(p)'
      PROVE  Dead(p)' \/ (p \in DOMAIN preAuth' /\ IsNextPa(p)' /\ ~Occupied')
  <2>1. Showing(p)
    BY <1>1, <1>4 DEF Showing
  <2>2. Dead(p) \/ (p \in DOMAIN preAuth /\ p = pa /\ ~Occupied)
    BY <2>1, FormBefore
  <2>3. CASE Dead(p)
    BY <2>3 DEF Dead
  <2>4. CASE p \in DOMAIN preAuth /\ p = pa /\ ~Occupied
    <3>1. r.session = 0 /\ DOMAIN sessions' = {}
      BY <2>4 DEF Occupied
    <3>2. ~Occupied'
      BY <1>1, <1>2, <3>1 DEF Occupied
    <3>3. Coming(tabs[t].req)' = pa
      BY <1>1 DEF Coming
    <3>4. IsNextPa(p)'
      BY <1>1, <1>2, <2>4, <3>3 DEF IsNextPa, Busy, AllQuiet
    <3> QED
      BY <2>4, <3>2, <3>4
  <2> QED
    BY <2>2, <2>3, <2>4
<1>5. PreTimes'
  BY DEF FormsInv, PreTimes
<1> QED
  BY <1>3, <1>4, <1>5 DEF FormsInv

\* An answer without a sign-in form that leaves tokens and cookie alone.
LEMMA FormPlain ==
    ASSUME Inv, TurnsInv, FormsInv, Sequential, NEW t \in Tabs,
           tabs[t].req.stage \in {"sent", "arrived", "hashing"},
           NEW id, NEW page, NEW did, NEW by, Answer(t, id, Keep, page, did, by),
           page.kind # "login", DOMAIN sessions' \subseteq DOMAIN sessions,
           preAuth' = preAuth, born' = born, spent' = spent, now' = now, pa' = pa
    PROVE  FormsInv'
<1>1. Grown
  BY Standstill DEF Inv, RowsInv
<1>2. PreTimes' /\ LoginTrue(page)'
  BY DEF FormsInv, PreTimes, LoginTrue
<1>3. ASSUME NEW p, Showing(p)
      PROVE  Dead(p)' \/ (p \in DOMAIN preAuth' /\ p = pa /\ DOMAIN sessions' = {})
  <2>1. p \in 1..Len(born) /\ (Dead(p) \/ (p \in DOMAIN preAuth /\ p = pa /\ ~Occupied))
    BY <1>3, FormBefore
  <2> QED
    BY <1>1, <2>1, DeadStays DEF Occupied, Inv
<1> QED
  BY <1>1, <1>2, <1>3, FormAnswer

\* An answer while all forms are dead.
LEMMA FormOver ==
    ASSUME Inv, TurnsInv, FormsInv, Sequential, NEW t \in Tabs,
           tabs[t].req.stage \in {"sent", "arrived", "hashing"},
           NEW id, NEW pp, NEW page, NEW did, NEW by, Answer(t, id, pp, page, did, by),
           page.kind # "login", Grown, PreTimes', pa' = pa,
           \A p : Showing(p) => Dead(p)'
    PROVE  FormsInv'
<1>1. LoginTrue(page)'
  BY DEF LoginTrue
<1>2. PICK new : new = IF pp = Keep THEN pa ELSE pp
  OBVIOUS
<1> QED
  BY <1>1, <1>2, FormAnswer

LEMMA GrownBy ==
    ASSUME Inv, NEW u \in Anyone, born' = Issued(u), now' = now, spent \subseteq spent'
    PROVE  /\ Grown /\ Len(born) \in Nat /\ Fresh = Len(born) + 1 /\ Fresh \in 1..Len(born')
           /\ born'[Fresh].at = now /\ born'[Fresh].user = u
<1>1. /\ born' \in Seq([at : Nat, user : Anyone]) /\ Len(born') = Len(born) + 1
      /\ Len(born) \in Nat /\ \A n \in 1..Len(born) : born'[n] = born[n]
      /\ born'[Fresh].at = now /\ born'[Fresh].user = u
  BY IssuedLaw DEF Inv
<1> QED
  BY <1>1 DEF Grown, Fresh, Inv, RowsInv

\* The sign-in page, given to a browser without a session.
LEMMA FormEnsured ==
    ASSUME Inv, TurnsInv, FormsInv, Sequential, NEW t \in Tabs,
           tabs[t].req.stage \in {"sent", "arrived", "hashing"},
           NEW did, NEW clear, EnsurePreAuth(t, pa, did, clear),
           DOMAIN sessions' = {}, spent' = spent, now' = now, pa' = pa
    PROVE  FormsInv'
<1>1. PreTimes /\ now \in Nat /\ TokensInv
  BY DEF FormsInv, Inv, RowsInv
<1>2. CASE Valid(pa)
  <2>1. /\ born' = born /\ preAuth' = preAuth
        /\ Answer(t, clear, Keep, LoginPage(pa), did, "nobody")
    BY <1>2 DEF EnsurePreAuth
  <2>2. Grown
    BY <1>1, <2>1, Standstill
  <2>3. PreTimes'
    BY <1>1, <2>1 DEF PreTimes
  <2>4. pa \in DOMAIN preAuth /\ pa \in 1..Len(born) /\ born[pa].user = "nobody"
    BY <1>1, <1>2 DEF Valid, TokensInv
  <2>5. LoginTrue(LoginPage(pa))' /\ LoginPage(pa).csrf = pa
    BY <2>1, <2>4 DEF LoginTrue, LoginPage
  <2>6. ASSUME NEW p, Showing(p) \/ p = pa
        PROVE  Dead(p)' \/ (p \in DOMAIN preAuth' /\ p = pa /\ DOMAIN sessions' = {})
    <3>1. CASE p = pa
      BY <3>1, <2>1, <2>4
    <3>2. CASE Showing(p) /\ p # pa
      BY <3>2, <2>2, FormBefore, DeadStays DEF Inv
    <3> QED
      BY <2>6, <3>1, <3>2
  <2> QED
    BY <2>1, <2>2, <2>3, <2>5, <2>6, FormAnswer
<1>3. CASE ~Valid(pa)
  <2>0. PICK n : n = Fresh
    OBVIOUS
  <2>1. /\ born' = Issued("nobody")
        /\ preAuth' = Unexpired(Extend(Looked(pa), n, Floor(now + Ttl)))
        /\ Answer(t, clear, n, LoginPage(n), did, "nobody")
    BY <1>3, <2>0 DEF EnsurePreAuth
  <2>2. /\ Grown /\ Len(born) \in Nat /\ n = Len(born) + 1 /\ n \in 1..Len(born')
        /\ born'[n].at = now /\ born'[n].user = "nobody"
    BY <2>0, <2>1, GrownBy DEF Anyone
  <2>3. PICK ext, looked : /\ looked = Looked(pa)
                           /\ ext = Extend(looked, n, Floor(now + Ttl))
    OBVIOUS
  <2>4. /\ DOMAIN looked \subseteq DOMAIN preAuth
        /\ \A p \in DOMAIN looked : looked[p] = preAuth[p]
    BY <2>3 DEF Looked, Without, Restrict
  <2>5. n \notin DOMAIN preAuth
    BY <1>1, <2>2 DEF TokensInv
  <2>6. /\ DOMAIN ext = DOMAIN looked \cup {n} /\ ext[n] = Floor(now + Ttl)
        /\ \A p \in DOMAIN looked : ext[p] = looked[p]
    BY <2>3, <2>4, <2>5 DEF Extend
  <2>7. /\ DOMAIN preAuth' = {p \in DOMAIN ext : ~(ext[p] <= Floor(now))}
        /\ \A p \in DOMAIN preAuth' : preAuth'[p] = ext[p]
    BY <2>1, <2>3 DEF Unexpired, Without, Restrict
  <2>8. ASSUME NEW p \in DOMAIN preAuth'
        PROVE  preAuth'[p] = Floor(born'[p].at + Ttl)
    <3>1. CASE p = n
      BY <2>2, <2>6, <2>7, <3>1
    <3>2. CASE p # n
      <4>1. p \in DOMAIN preAuth /\ preAuth'[p] = preAuth[p]
        BY <2>4, <2>6, <2>7, <3>2
      <4>2. born'[p] = born[p]
        BY <1>1, <2>2, <4>1 DEF TokensInv, Grown
      <4> QED
        BY <1>1, <4>1, <4>2 DEF PreTimes
    <3> QED
      BY <3>1, <3>2
  <2>9. PreTimes'
    BY <2>8 DEF PreTimes, Floor
  <2>10. LoginTrue(LoginPage(n))' /\ LoginPage(n).csrf = n
    BY <2>2 DEF LoginTrue, LoginPage
  <2>11. n # Keep
    BY <2>2 DEF Keep
  <2>12. Dead(n)' \/ n \in DOMAIN preAuth'
    <3>1. CASE ~(Floor(now + Ttl) <= Floor(now))
      BY <2>6, <2>7, <3>1
    <3>2. CASE Floor(now + Ttl) <= Floor(now)
      <4>1. now + Ttl \in Nat
        BY <1>1, TimesAssumption
      <4>2. /\ Floor(now + Ttl) \in Nat /\ now + Ttl < Floor(now + Ttl) + Second
            /\ Floor(now) \in Nat /\ Floor(now) <= now
        BY <1>1, <4>1, FloorLaw
      <4>3. now + Second > now + Ttl
        BY <1>1, <3>2, <4>1, <4>2 DEF Second
      <4> QED
        BY <2>2, <4>3 DEF Dead
    <3> QED
      BY <3>1, <3>2
  <2>13. ASSUME NEW p, Showing(p) \/ p = n
         PROVE  Dead(p)' \/ (p \in DOMAIN preAuth' /\ p = n /\ DOMAIN sessions' = {})
    <3>1. CASE p = n
      BY <3>1, <2>12
    <3>2. CASE Showing(p)
      <4>1. p \in 1..Len(born) /\ (Dead(p) \/ (p \in DOMAIN preAuth /\ p = pa))
        BY <3>2, FormBefore
      <4>2. CASE p \in DOMAIN preAuth /\ p = pa
        <5>1. born[p].at \in Nat
          BY <4>1, BornLaw DEF Inv
        <5>2. born[p].at + Ttl \in Nat /\ preAuth[p] = Floor(born[p].at + Ttl)
          BY <1>1, <4>2, <5>1, TimesAssumption DEF PreTimes
        <5>3. preAuth[p] \in Nat
          BY <5>2, FloorLaw
        <5>4. preAuth[p] <= now
          BY <1>1, <1>3, <4>2, <5>3 DEF Valid
        <5> QED
          BY <1>1, <2>2, <4>1, <4>2, <5>4, LateRow, DeadStays DEF Inv
      <4> QED
        BY <2>2, <4>1, <4>2, DeadStays DEF Inv
    <3> QED
      BY <2>13, <3>1, <3>2
  <2> QED
    BY <2>1, <2>2, <2>9, <2>10, <2>11, <2>13, FormAnswer
<1> QED
  BY <1>2, <1>3

\* While somebody is signed in every form is dead, and stays so.
LEMMA FormsOver ==
    ASSUME Inv, FormsInv, Sequential, Occupied, Grown, NEW p, Showing(p)
    PROVE  Dead(p)'
<1>1. p \in 1..Len(born) /\ Dead(p)
  BY ShownLaw DEF FormsInv
<1> QED
  BY <1>1, DeadStays DEF Inv

LEMMA PlainPages == NoPage.kind # "login" /\ \A s, u : AppPage(s, u).kind # "login"
BY DEF NoPage, AppPage

LEMMA FormArriveGet ==
    ASSUME Inv, TurnsInv, FormsInv, Sequential, NEW t \in Tabs, ArriveGet(t)
    PROVE  FormsInv'
<1>1. PICK r, s : r = tabs[t].req /\ s = Loaded(r.cookie)
  OBVIOUS
<1>2. PICK clear : clear = IF r.cookie # 0 /\ s = 0 THEN 0 ELSE Keep
  OBVIOUS
<1>3. /\ r.stage = "sent" /\ tabs[t].req.stage \in {"sent", "arrived", "hashing"} /\ Busy(t)
      /\ sessions' = AfterLoad(r.cookie)
      /\ now' = now /\ spent' = spent /\ pa' = pa
  BY <1>1 DEF ArriveGet, Busy, browser
<1>4. r.pa = pa /\ DOMAIN sessions \subseteq {r.cookie}
  BY <1>1, <1>3 DEF FormsInv, FormTrue, TurnsInv, OwnSession, Holder
<1>5. DOMAIN sessions' \subseteq DOMAIN sessions /\ DOMAIN sessions' \subseteq {s}
  BY <1>1, <1>3, <1>4, LookedUp DEF AfterLoad, Without, Restrict
<1>6. s = 0 => DOMAIN sessions' = {}
  <2>1. 0 \notin DOMAIN sessions
    BY DEF Inv, RowsInv
  <2> QED
    BY <1>5, <2>1
<1>7. \/ s = 0 /\ EnsurePreAuth(t, r.pa, "shown", clear)
      \/ /\ Answer(t, Keep, Keep, AppPage(s, sessions[s].user), "shown", "nobody")
         /\ preAuth' = preAuth /\ born' = born
      \/ /\ Answer(t, clear, Keep, NoPage, "moved", "nobody")
         /\ preAuth' = preAuth /\ born' = born
  BY <1>1, <1>2 DEF ArriveGet
<1>8. CASE s = 0 /\ EnsurePreAuth(t, r.pa, "shown", clear)
  BY <1>3, <1>4, <1>6, <1>8, FormEnsured
<1>9. CASE /\ Answer(t, Keep, Keep, AppPage(s, sessions[s].user), "shown", "nobody")
           /\ preAuth' = preAuth /\ born' = born
  <2>1. PICK page : page = AppPage(s, sessions[s].user)
    OBVIOUS
  <2> QED
    BY <1>3, <1>5, <1>9, <2>1, PlainPages, FormPlain
<1>10. CASE /\ Answer(t, clear, Keep, NoPage, "moved", "nobody")
            /\ preAuth' = preAuth /\ born' = born
  BY <1>3, <1>5, <1>10, PlainPages, FormPlain
<1> QED
  BY <1>7, <1>8, <1>9, <1>10

LEMMA FormArrivePost ==
    ASSUME Inv, TurnsInv, FormsInv, Sequential, NEW t \in Tabs, ArrivePost(t)
    PROVE  FormsInv'
<1>1. PICK r, s : r = tabs[t].req /\ s = Loaded(r.cookie)
  OBVIOUS
<1>2. /\ r.stage = "sent" /\ tabs[t].req.stage \in {"sent", "arrived", "hashing"}
      /\ sessions' = AfterLoad(r.cookie) /\ preAuth' = preAuth /\ born' = born
      /\ now' = now /\ spent' = spent /\ pa' = pa
  BY <1>1 DEF ArrivePost, browser
<1>3. /\ r \in Request /\ r.pa = pa /\ (r.kind = "signin" => tabs[t].page.kind = "login")
  BY <1>1, <1>2, InFlight DEF FormsInv, FormTrue, Inv
<1>4. DOMAIN sessions' \subseteq DOMAIN sessions
  BY <1>2 DEF AfterLoad, Without, Restrict
<1>5. s # 0 => Occupied
  BY <1>1 DEF Loaded, Occupied
<1>6. CASE \E id : Answer(t, id, Keep, NoPage, "error", "nobody")
  BY <1>2, <1>4, <1>6, PlainPages, FormPlain
<1>7. CASE \E clears, user : tabs' = [tabs EXCEPT ![t].req =
               [r EXCEPT !.stage = "arrived", !.session = s, !.clears = clears, !.user = user]]
  <2>1. PICK clears, user : tabs' = [tabs EXCEPT ![t].req =
               [r EXCEPT !.stage = "arrived", !.session = s, !.clears = clears, !.user = user]]
    BY <1>7
  <2>2. PICK q : q = [r EXCEPT !.stage = "arrived", !.session = s, !.clears = clears, !.user = user]
    OBVIOUS
  <2>3. q.stage = "arrived" /\ q.session = s /\ q.kind = r.kind /\ q.pa = r.pa
    BY <1>3, <2>2 DEF Request
  <2> QED
    BY <1>2, <1>3, <1>4, <1>5, <2>1, <2>2, <2>3, FormMove
<1> QED
  BY <1>1, <1>6, <1>7 DEF ArrivePost

LEMMA FormRefuse ==
    ASSUME Inv, TurnsInv, FormsInv, Sequential, NEW t \in Tabs, Refuse(t)
    PROVE  FormsInv'
<1>1. PICK r, id, did : r = tabs[t].req /\ id = Kept(r) /\ Answer(t, id, Keep, NoPage, did, "nobody")
  BY DEF Refuse
<1>2. /\ tabs[t].req.stage \in {"sent", "arrived", "hashing"}
      /\ preAuth' = Looked(r.pa) \/ preAuth' = preAuth
      /\ sessions' = sessions /\ born' = born
      /\ now' = now /\ spent' = spent /\ pa' = pa
  BY <1>1 DEF Refuse, browser
<1>3. Grown /\ PreTimes /\ now \in Nat
  BY <1>2, Standstill DEF FormsInv, Inv, RowsInv
<1>4. PreTimes'
  BY <1>2, <1>3, TimesStay DEF Looked
<1>5. LoginTrue(NoPage)'
  BY DEF LoginTrue, NoPage
<1>6. ASSUME NEW p, Showing(p)
      PROVE  Dead(p)' \/ (p \in DOMAIN preAuth' /\ p = pa /\ DOMAIN sessions' = {})
  <2>1. p \in 1..Len(born) /\ (Dead(p) \/ (p \in DOMAIN preAuth /\ p = pa /\ ~Occupied))
    BY <1>2, <1>6, FormBefore
  <2>2. CASE p \in DOMAIN preAuth /\ p \notin DOMAIN preAuth'
    <3>1. ~Valid(p)
      BY <1>2, <2>2 DEF Looked, Without, Restrict
    <3>2. born[p].at \in Nat
      BY <2>1, BornLaw DEF Inv
    <3>3. born[p].at + Ttl \in Nat /\ preAuth[p] = Floor(born[p].at + Ttl)
      BY <1>3, <2>2, <3>2, TimesAssumption DEF PreTimes
    <3>4. preAuth[p] \in Nat
      BY <3>3, FloorLaw
    <3>5. preAuth[p] <= now
      BY <1>3, <2>2, <3>1, <3>4 DEF Valid
    <3> QED
      BY <1>3, <2>1, <2>2, <3>5, LateRow, DeadStays DEF Inv
  <2>3. CASE Dead(p)
    BY <1>3, <2>1, <2>3, DeadStays DEF Inv
  <2> QED
    BY <1>2, <2>1, <2>2, <2>3 DEF Occupied
<1>7. NoPage.kind # "login"
  BY PlainPages
<1>8. pa = IF Keep = Keep THEN pa ELSE Keep
  OBVIOUS
<1> QED
  BY <1>1, <1>2, <1>3, <1>4, <1>5, <1>6, <1>7, <1>8, FormAnswer

LEMMA FormStoreSurvey ==
    ASSUME Inv, TurnsInv, FormsInv, Sequential, NEW t \in Tabs, StoreSurvey(t)
    PROVE  FormsInv'
<1>1. /\ tabs[t].req.stage \in {"sent", "arrived", "hashing"}
      /\ sessions' = sessions /\ preAuth' = preAuth /\ born' = born
      /\ now' = now /\ spent' = spent /\ pa' = pa
  BY DEF StoreSurvey, tables, browser
<1>2. PICK id, page, did, by : Answer(t, id, Keep, page, did, by) /\ page.kind # "login"
  BY PlainPages DEF StoreSurvey
<1> QED
  BY <1>1, <1>2, FormPlain

LEMMA FormLogout ==
    ASSUME Inv, TurnsInv, FormsInv, Sequential, NEW t \in Tabs, Logout(t)
    PROVE  FormsInv'
<1>1. /\ tabs[t].req.stage \in {"sent", "arrived", "hashing"} /\ tabs[t].req.stage = "arrived"
      /\ preAuth' = preAuth /\ born' = born /\ now' = now /\ spent' = spent /\ pa' = pa
  BY DEF Logout, browser
<1>2. PICK p, by : Answer(t, 0, p, NoPage, "left", by)
  BY DEF Logout
<1>3. tabs[t].req.session # 0
  BY <1>1, MatchLaw DEF Logout, FormKinds
<1>4. Occupied
  BY <1>1, <1>3 DEF Occupied
<1>5. Grown /\ PreTimes
  BY <1>1, Standstill DEF FormsInv, Inv, RowsInv
<1>6. PreTimes'
  BY <1>1, <1>5 DEF PreTimes
<1> QED
  BY <1>1, <1>2, <1>4, <1>5, <1>6, FormsOver, PlainPages, FormOver

\* The guard lets a sign-in through only without a session, on the cookie's token.
LEMMA SignInMatch ==
    ASSUME Inv, FormsInv, Sequential, NEW t \in Tabs,
           tabs[t].req.stage = "arrived", tabs[t].req.kind = "signin",
           TokensMatch(tabs[t].req, tabs[t].page)
    PROVE  tabs[t].req.session = 0 /\ tabs[t].page.csrf = tabs[t].req.pa
<1>1. PICK r, page : r = tabs[t].req /\ page = tabs[t].page
  OBVIOUS
<1>2. page.csrf \in 1..Len(born) /\ born[page.csrf].user = "nobody"
  BY <1>1 DEF FormsInv, FormTrue, LoginTrue
<1>3. RequestTrue(r, page)
  BY <1>1 DEF Inv, TabsInv
<1>4. CASE r.session # 0
  <2>1. page.csrf = r.session
    BY <1>1, <1>4 DEF TokensMatch, Expected
  <2>2. born[r.session].user \in Users
    BY <1>1, <1>3, <1>4 DEF RequestTrue
  <2> QED
    BY <1>2, <2>1, <2>2, NamesAssumption
<1>5. CASE r.session = 0
  BY <1>1, <1>5 DEF TokensMatch, Expected
<1> QED
  BY <1>1, <1>4, <1>5

LEMMA FormHashes ==
    ASSUME Inv, TurnsInv, FormsInv, Sequential, NEW t \in Tabs, StartHashing(t)
    PROVE  FormsInv'
<1>1. PICK r : r = tabs[t].req
  OBVIOUS
<1>2. /\ r.stage = "arrived" /\ tabs[t].req.stage \in {"sent", "arrived", "hashing"}
      /\ TokensMatch(r, tabs[t].page)
      /\ sessions' = sessions /\ preAuth' = preAuth /\ born' = born
      /\ now' = now /\ spent' = spent /\ pa' = pa
  BY <1>1 DEF StartHashing, tables, browser
<1>3. /\ r \in Request /\ r.pa = pa /\ (r.kind = "signin" => tabs[t].page.kind = "login")
  BY <1>1, <1>2, InFlight DEF FormsInv, FormTrue, Inv
<1>4. r.session # 0 => Occupied
  BY <1>1, <1>2 DEF Occupied
<1>5. r.kind = "signin" => r.session = 0 /\ tabs[t].page.csrf = r.pa
  BY <1>1, <1>2, SignInMatch
<1>6. CASE \E id : Answer(t, id, Keep, NoPage, "moved", "nobody")
  BY <1>2, <1>6, PlainPages, FormPlain
<1>7. CASE tabs' = [tabs EXCEPT ![t].req = [r EXCEPT !.stage = "hashing"]]
  <2>1. PICK q : q = [r EXCEPT !.stage = "hashing"]
    OBVIOUS
  <2>2. q.stage = "hashing" /\ q.session = r.session /\ q.kind = r.kind /\ q.pa = r.pa
    BY <1>3, <2>1 DEF Request
  <2> QED
    BY <1>2, <1>3, <1>4, <1>5, <1>7, <2>1, <2>2, FormMove
<1> QED
  BY <1>1, <1>6, <1>7 DEF StartHashing

LEMMA FormFails ==
    ASSUME Inv, TurnsInv, FormsInv, Sequential, NEW t \in Tabs, SignInFails(t)
    PROVE  FormsInv'
<1>1. PICK r, clear : r = tabs[t].req /\ clear = Kept(r)
  OBVIOUS
<1>2. /\ r.stage = "hashing" /\ tabs[t].req.stage \in {"sent", "arrived", "hashing"}
      /\ r.kind = "signin" /\ EnsurePreAuth(t, r.pa, "failed", clear)
      /\ sessions' = sessions /\ now' = now /\ spent' = spent /\ pa' = pa
  BY <1>1 DEF SignInFails, browser
<1>3. r.pa = pa /\ r.session = 0
  BY <1>1, <1>2 DEF FormsInv, FormTrue
<1>4. DOMAIN sessions = {}
  BY <1>1, <1>2, <1>3, TurnHeld
<1> QED
  BY <1>1, <1>2, <1>3, <1>4, FormEnsured

LEMMA FormEnters ==
    ASSUME Inv, TurnsInv, FormsInv, Sequential, NEW t \in Tabs, NEW u \in Users, SignInSucceeds(t, u)
    PROVE  FormsInv'
<1>1. PICK r : r = tabs[t].req
  OBVIOUS
<1>2. /\ r.stage = "hashing" /\ tabs[t].req.stage \in {"sent", "arrived", "hashing"}
      /\ born' = Issued(u) /\ now' = now /\ pa' = pa
      /\ preAuth' = Without(preAuth, {r.pa}) /\ spent' = spent \cup {r.pa}
  BY <1>1 DEF SignInSucceeds, browser
<1>3. PICK id : Answer(t, id, 0, NoPage, "entered", u)
  BY DEF SignInSucceeds
<1>4. r.pa = pa /\ PreTimes
  BY <1>1, <1>2 DEF FormsInv, FormTrue
<1>5. Grown
  BY <1>2, GrownBy DEF Anyone
<1>6. PICK gone : gone = {r.pa}
  OBVIOUS
<1>7. PreTimes'
  BY <1>2, <1>4, <1>5, <1>6, TimesStay
<1>8. ASSUME NEW p, Showing(p)
      PROVE  Dead(p)'
  <2>1. p \in 1..Len(born) /\ (Dead(p) \/ p = pa)
    BY <1>2, <1>8, FormBefore
  <2>2. CASE p = pa
    BY <1>2, <1>4, <2>2 DEF Dead
  <2> QED
    BY <1>5, <2>1, <2>2, DeadStays DEF Inv
<1> QED
  BY <1>2, <1>3, <1>5, <1>7, <1>8, PlainPages, FormOver

LEMMA FormChanges ==
    ASSUME Inv, TurnsInv, FormsInv, Sequential, NEW t \in Tabs, ChangeEnds(t)
    PROVE  FormsInv'
<1>1. PICK r : r = tabs[t].req
  OBVIOUS
<1>2. /\ r.stage = "hashing" /\ tabs[t].req.stage \in {"sent", "arrived", "hashing"}
      /\ r.kind = "change" /\ preAuth' = preAuth /\ now' = now /\ spent' = spent /\ pa' = pa
  BY <1>1 DEF ChangeEnds, browser
<1>3. r.session # 0 /\ r.user \in Users
  BY <1>1, <1>2 DEF Inv, TabsInv, RequestTrue
<1>4. Occupied /\ PreTimes
  BY <1>1, <1>2, <1>3 DEF Occupied, FormsInv
<1>5. CASE born' = Issued(r.user) /\ \E id : Answer(t, id, Keep, NoPage, "changed", r.user)
  <2>1. PICK id, u : u = r.user /\ Answer(t, id, Keep, NoPage, "changed", u)
    BY <1>5
  <2>2. Grown
    BY <1>2, <1>3, <1>5, GrownBy DEF Anyone
  <2>3. PreTimes'
    BY <1>2, <1>4, <2>2, TimesStay
  <2> QED
    BY <1>2, <1>4, <2>1, <2>2, <2>3, FormsOver, PlainPages, FormOver
<1>6. CASE /\ sessions' = sessions /\ born' = born
           /\ Answer(t, Keep, Keep, AppPage(r.session, r.user), "shown", "nobody")
  <2>1. PICK page : page = AppPage(r.session, r.user)
    OBVIOUS
  <2> QED
    BY <1>2, <1>6, <2>1, PlainPages, FormPlain
<1> QED
  BY <1>1, <1>5, <1>6 DEF ChangeEnds

LEMMA FormSend ==
    ASSUME Inv, TurnsInv, FormsInv, Sequential, NEW t \in Tabs, NEW kind \in Kinds, Send(t, kind)
    PROVE  FormsInv'
<1>1. PICK r : r = [Quiet EXCEPT !.stage = "sent", !.kind = kind, !.cookie = cookie, !.pa = pa]
  OBVIOUS
<1>2. /\ r.stage = "sent" /\ r.kind = kind /\ r.pa = pa
      /\ tabs' = [tabs EXCEPT ![t].req = r] /\ pa' = pa
      /\ sessions' = sessions /\ preAuth' = preAuth /\ born' = born /\ now' = now /\ spent' = spent
  BY <1>1 DEF Quiet, Send, tables, browser
<1>3. AllQuiet /\ (kind = "signin" => tabs[t].page.kind = "login")
  BY DEF Send, Sequential, AllQuiet, Offers
<1>4. /\ tabs'[t].req = r /\ tabs'[t].page = tabs[t].page
      /\ \A o \in Tabs : o # t => tabs'[o] = tabs[o]
  BY <1>2 DEF Inv, TabsInv
<1>5. ASSUME NEW o \in Tabs
      PROVE  (LoginTrue(tabs[o].page) /\ FormTrue(tabs[o].req, tabs[o].page))'
  <2>1. LoginTrue(tabs[o].page)'
    BY <1>2, <1>4 DEF FormsInv, LoginTrue
  <2>2. CASE o = t
    BY <1>2, <1>3, <1>4, <2>1, <2>2 DEF FormTrue
  <2>3. CASE o # t
    BY <1>3, <1>4, <2>1, <2>3 DEF FormTrue, AllQuiet
  <2> QED
    BY <2>2, <2>3
<1>6. ASSUME NEW p, Showing(p)'
      PROVE  Dead(p)' \/ (p \in DOMAIN preAuth' /\ IsNextPa(p)' /\ ~Occupied')
  <2>1. Showing(p)
    BY <1>2, <1>3, <1>4, <1>6 DEF Showing
  <2>2. Dead(p) \/ (p \in DOMAIN preAuth /\ p = pa /\ ~Occupied)
    BY <1>3, <2>1 DEF FormsInv, IsNextPa
  <2>3. CASE Dead(p)
    BY <1>2, <2>3 DEF Dead
  <2>4. CASE p \in DOMAIN preAuth /\ p = pa /\ ~Occupied
    <3>1. ~Occupied'
      BY <1>2, <1>3, <1>4, <2>4 DEF Occupied, AllQuiet
    <3>2. Coming(tabs[t].req)' = pa
      BY <1>2, <1>4 DEF Coming
    <3>3. IsNextPa(p)'
      BY <1>2, <1>3, <1>4, <2>4, <3>2 DEF IsNextPa, Busy, AllQuiet
    <3> QED
      BY <1>2, <2>4, <3>1, <3>3
  <2> QED
    BY <2>2, <2>3, <2>4
<1>7. PreTimes'
  BY <1>2 DEF FormsInv, PreTimes
<1> QED
  BY <1>5, <1>6, <1>7 DEF FormsInv

LEMMA FormReceive ==
    ASSUME Inv, TurnsInv, FormsInv, Sequential, NEW t \in Tabs, Receive(t)
    PROVE  FormsInv'
<1>1. PICK a, q : a = tabs[t].req /\ q = [page |-> a.page, req |-> Quiet]
  OBVIOUS
<1>2. /\ a.stage = "answered" /\ tabs' = [tabs EXCEPT ![t] = q]
      /\ pa' = IF a.pa = Keep THEN pa ELSE a.pa
      /\ sessions' = sessions /\ preAuth' = preAuth /\ born' = born /\ now' = now /\ spent' = spent
  BY <1>1 DEF Receive, tables
<1>3. q.page = a.page /\ q.req.stage = "quiet"
  BY <1>1 DEF Quiet
<1>4. tabs'[t] = q /\ \A o \in Tabs : o # t => tabs'[o] = tabs[o]
  BY <1>2 DEF Inv, TabsInv
<1>5. \A o \in Tabs : tabs'[o].req.stage = "quiet"
  BY <1>1, <1>2, <1>3, <1>4 DEF TurnsInv, Busy
<1>6. ASSUME NEW o \in Tabs
      PROVE  (LoginTrue(tabs[o].page) /\ FormTrue(tabs[o].req, tabs[o].page))'
  <2>1. CASE o = t
    <3>1. LoginTrue(a.page)
      BY <1>1, <1>2 DEF FormsInv, FormTrue
    <3>2. LoginTrue(tabs[o].page)'
      BY <1>2, <1>3, <1>4, <2>1, <3>1 DEF LoginTrue
    <3> QED
      BY <1>5, <3>2 DEF FormTrue
  <2>2. CASE o # t
    <3>1. LoginTrue(tabs[o].page)'
      BY <1>2, <1>4, <2>2 DEF FormsInv, LoginTrue
    <3> QED
      BY <1>5, <3>1 DEF FormTrue
  <2> QED
    BY <2>1, <2>2
<1>7. ASSUME NEW p, Showing(p)'
      PROVE  Dead(p)' \/ (p \in DOMAIN preAuth' /\ IsNextPa(p)' /\ ~Occupied')
  <2>1. Showing(p)
    BY <1>1, <1>2, <1>3, <1>4, <1>5, <1>7 DEF Showing
  <2>2. Dead(p) \/ (p \in DOMAIN preAuth /\ IsNextPa(p) /\ ~Occupied)
    BY <2>1 DEF FormsInv
  <2>3. CASE Dead(p)
    BY <1>2, <2>3 DEF Dead
  <2>4. CASE p \in DOMAIN preAuth /\ IsNextPa(p) /\ ~Occupied
    <3>1. p = pa'
      BY <1>1, <1>2, <2>4 DEF IsNextPa, Busy, Coming
    <3>2. IsNextPa(p)'
      BY <1>5, <3>1 DEF IsNextPa, Busy
    <3>3. ~Occupied'
      BY <1>2, <1>5, <2>4 DEF Occupied
    <3> QED
      BY <1>2, <2>4, <3>2, <3>3
  <2> QED
    BY <2>2, <2>3, <2>4
<1>8. PreTimes'
  BY <1>2 DEF FormsInv, PreTimes
<1> QED
  BY <1>6, <1>7, <1>8 DEF FormsInv

\* The timer and the clock.
LEMMA FormClock ==
    ASSUME Inv, FormsInv, Sequential, Prune \/ Tick \/ UNCHANGED vars
    PROVE  FormsInv'
<1>1. /\ plan' = plan /\ pa' = pa /\ tabs' = tabs /\ born' = born /\ spent' = spent
      /\ DOMAIN sessions' \subseteq DOMAIN sessions
  BY DEF Prune, Tick, vars, tables, browser, Without, Restrict
<1>2. /\ now \in Nat /\ now' \in Nat /\ now <= now'
  <2>1. plan.jumps \subseteq Nat /\ now \in Nat
    BY PlansAssumption DEF Inv, TabsInv, RowsInv
  <2> QED
    BY <2>1 DEF Prune, Tick, vars
<1>3. Grown /\ PreTimes
  BY <1>1, <1>2, Standstill DEF FormsInv
<1>4. PICK gone : /\ preAuth' = preAuth \/ preAuth' = Without(preAuth, gone)
                  /\ \A p \in DOMAIN preAuth : p \in gone => preAuth[p] <= Floor(now)
  <2>1. CASE Prune
    BY <2>1 DEF Prune, Unexpired
  <2>2. CASE Tick \/ UNCHANGED vars
    <3>1. PICK none : none = {}
      OBVIOUS
    <3>2. preAuth' = preAuth
      BY <2>2 DEF Tick, vars, tables
    <3>3. \A p \in DOMAIN preAuth : p \in none => preAuth[p] <= Floor(now)
      BY <3>1
    <3> QED
      BY <3>2, <3>3
  <2> QED
    BY <2>1, <2>2
<1>5. PreTimes'
  BY <1>3, <1>4, TimesStay
<1>6. ASSUME NEW p, Showing(p)'
      PROVE  Dead(p)' \/ (p \in DOMAIN preAuth' /\ IsNextPa(p)' /\ ~Occupied')
  <2>1. Showing(p)
    BY <1>1, <1>6 DEF Showing
  <2>2. p \in 1..Len(born) /\ (Dead(p) \/ (p \in DOMAIN preAuth /\ IsNextPa(p) /\ ~Occupied))
    BY <2>1, ShownLaw DEF FormsInv
  <2>3. IsNextPa(p) => IsNextPa(p)'
    BY <1>1 DEF IsNextPa, AllQuiet, Busy, Coming
  <2>4. ~Occupied => ~Occupied'
    BY <1>1 DEF Occupied
  <2>5. p \in DOMAIN preAuth => p \in DOMAIN preAuth' \/ Dead(p)
    BY <1>3, <1>4, LateRow DEF Without, Restrict
  <2> QED
    BY <1>3, <2>2, <2>3, <2>4, <2>5, DeadStays DEF Inv
<1>7. ASSUME NEW o \in Tabs
      PROVE  (LoginTrue(tabs[o].page) /\ FormTrue(tabs[o].req, tabs[o].page))'
  BY <1>1 DEF FormsInv, FormTrue, LoginTrue
<1> QED
  BY <1>5, <1>6, <1>7 DEF FormsInv

LEMMA FormInit == Init => FormsInv
<1> SUFFICES ASSUME Init PROVE FormsInv
  OBVIOUS
<1>1. PreTimes
  BY DEF Init, PreTimes
<1>2. \A t \in Tabs : tabs[t].page = NoPage /\ tabs[t].req.stage = "quiet"
  BY DEF Init, Quiet
<1>3. NoPage.kind = "none"
  BY DEF NoPage
<1> QED
  BY <1>1, <1>2, <1>3 DEF FormsInv, LoginTrue, FormTrue, Showing

LEMMA FormKeeps ==
    ASSUME Inv, TurnsInv, FormsInv, [Next]_vars
    PROVE  FormsInv'
<1>1. plan' = plan
  BY DEF Next, vars, Prune, Tick, Send, Serve, Receive, Lose, ArriveGet, ArrivePost, Refuse,
     StoreSurvey, Logout, StartHashing, SignInFails, SignInSucceeds, ChangeEnds
<1>2. CASE ~Sequential
  BY <1>1, <1>2 DEF FormsInv, Sequential
<1>3. CASE Sequential /\ (Prune \/ Tick \/ UNCHANGED vars)
  BY <1>3, FormClock
<1>4. ASSUME Sequential, NEW t \in Tabs, Lose(t) PROVE FALSE
  BY <1>4 DEF Lose, Sequential
<1>5. ASSUME Sequential, NEW t \in Tabs,
             (\E kind \in Kinds : Send(t, kind)) \/ Serve(t) \/ Receive(t)
      PROVE  FormsInv'
  BY <1>5, FormSend, FormArriveGet, FormArrivePost, FormRefuse, FormStoreSurvey, FormLogout,
     FormHashes, FormFails, FormEnters, FormChanges, FormReceive DEF Serve
<1> QED
  BY <1>2, <1>3, <1>4, <1>5 DEF Next

\* A sign-in form of such a browser is refused only when its token was used by
\* a sign-in or its time is over, whatever other tabs show and do
\* (preauth.js:65-73, middleware.js:34-36).
THEOREM FormsStayGood == Spec => LoginFormsKeepWorking
<1> DEFINE Refused(t) ==
             /\ tabs[t].req.stage = "arrived" /\ tabs[t].req.kind = "signin"
             /\ tabs'[t].req.stage = "answered" /\ tabs'[t].req.did = "stale"
           Over(t) == \/ tabs[t].page.csrf \in spent
                      \/ now + Second > born[tabs[t].page.csrf].at + Ttl
           Step == Sequential => \A t \in Tabs : Refused(t) => Over(t)
<1>1. ASSUME Inv, TurnsInv, FormsInv, Next, Sequential, NEW t \in Tabs, Refused(t)
      PROVE  Over(t)
  <2>1. PICK r, page : r = tabs[t].req /\ page = tabs[t].page
    OBVIOUS
  <2>2. ~TokensMatch(r, page)
    <3>1. tabs[t] # tabs'[t]
      BY <1>1
    <3>2. ASSUME NEW o \in Tabs, (\E kind \in Kinds : Send(o, kind)) \/ Receive(o) \/ Lose(o)
          PROVE  FALSE
      BY <1>1, <3>2 DEF Send, Receive, Lose, Quiet, Inv, TabsInv
    <3>3. ~Prune /\ ~Tick
      BY <1>1 DEF Prune, Tick
    <3>4. PICK o \in Tabs : Serve(o)
      BY <1>1, <3>2, <3>3 DEF Next
    <3>5. Busy(o) /\ Busy(t)
      BY <1>1, <3>4 DEF Busy, Serve, ArriveGet, ArrivePost, Refuse, StoreSurvey, Logout,
         StartHashing, SignInFails, SignInSucceeds, ChangeEnds
    <3>6. o = t
      BY <1>1, <3>5 DEF TurnsInv
    <3>7. ASSUME StartHashing(t) PROVE FALSE
      <4>1. r \in Request /\ r.stage = "arrived"
        BY <1>1, <2>1, InFlight DEF Inv
      <4>2. CASE tabs' = [tabs EXCEPT ![t].req = [r EXCEPT !.stage = "hashing"]]
        <5>1. PICK q : q = [r EXCEPT !.stage = "hashing"]
          OBVIOUS
        <5>2. q.stage = "hashing"
          BY <4>1, <5>1 DEF Request
        <5>3. tabs'[t].req = q
          BY <1>1, <4>2, <5>1 DEF Inv, TabsInv
        <5> QED
          BY <1>1, <5>2, <5>3
      <4>3. CASE Answer(t, Kept(r), Keep, NoPage, "moved", "nobody")
        <5>1. tabs'[t].req = Answered(Kept(r), Keep, NoPage, "moved", "nobody")
          BY <1>1, <4>3 DEF Answer, Inv, TabsInv
        <5> QED
          BY <1>1, <5>1 DEF Answered
      <4> QED
        BY <2>1, <3>7, <4>2, <4>3 DEF StartHashing
    <3>8. Refuse(t)
      BY <1>1, <3>4, <3>6, <3>7 DEF Serve, ArriveGet, ArrivePost, StoreSurvey, Logout,
         SignInFails, SignInSucceeds, ChangeEnds
    <3> QED
      BY <2>1, <3>8 DEF Refuse
  <2>3. /\ page.kind = "login" /\ r.pa = pa /\ r.stage = "arrived" /\ r.kind = "signin"
    BY <1>1, <2>1 DEF FormsInv, FormTrue
  <2>4. Showing(page.csrf)
    BY <2>1, <2>3 DEF Showing
  <2>5. Dead(page.csrf) \/ (page.csrf \in DOMAIN preAuth /\ page.csrf = pa /\ ~Occupied)
    BY <1>1, <2>1, <2>3, <2>4, FormBefore
  <2>6. CASE page.csrf \in DOMAIN preAuth /\ page.csrf = pa /\ ~Occupied
    <3>1. r.session = 0
      BY <2>1, <2>3, <2>6 DEF Occupied
    <3>2. ~Valid(pa)
      <4>1. pa # 0
        BY <1>1, <2>6 DEF Inv, TokensInv
      <4> QED
        BY <2>2, <2>3, <2>6, <3>1, <4>1 DEF TokensMatch, Expected
    <3>3. PreTimes /\ RowsInv /\ pa \in 1..Len(born)
      BY <1>1, <2>6 DEF FormsInv, Inv, TokensInv
    <3>4. born[pa].at \in Nat /\ now \in Nat
      BY <3>3, BornLaw
    <3>5. born[pa].at + Ttl \in Nat /\ preAuth[pa] = Floor(born[pa].at + Ttl)
      BY <2>6, <3>3, <3>4, TimesAssumption DEF PreTimes
    <3>6. preAuth[pa] \in Nat
      BY <3>5, FloorLaw
    <3>7. preAuth[pa] <= now
      BY <2>6, <3>2, <3>4, <3>6 DEF Valid
    <3> QED
      BY <1>1, <2>1, <2>6, <3>3, <3>7, LateRow DEF Dead
  <2> QED
    BY <2>1, <2>5, <2>6 DEF Dead
<1>2. Inv /\ TurnsInv /\ FormsInv /\ [Next]_vars => [Step]_vars
  BY <1>1
<1>3. Init => Inv /\ TurnsInv /\ FormsInv
  BY InitHolds, TurnInit, FormInit
<1>4. Inv /\ TurnsInv /\ FormsInv /\ [Next]_vars => (Inv /\ TurnsInv /\ FormsInv)'
  BY StepKeeps, TurnKeeps, FormKeeps
<1> QED
  BY <1>2, <1>3, <1>4, PTL DEF Spec, LoginFormsKeepWorking
===========================================================================
