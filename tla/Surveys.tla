------------------------------ MODULE Surveys ------------------------------
(***************************************************************************)
(* Surveys from the blank form to the lists they are read in.              *)
(*                                                                         *)
(* A collector opens the form (GET /surveys/new), fills it in, sends it    *)
(* (POST /surveys) and, when something could not be read, gets the page    *)
(* back with the faults named and the other answers still in their         *)
(* controls (surveyFormPage of views/survey-form.js), corrects it and      *)
(* sends it again.  An accepted submission becomes rows of three tables    *)
(* in one transaction (createSurvey).  Meanwhile a reader walks the        *)
(* paginated list from its first page to its last, while surveys are       *)
(* being added and days go by.                                             *)
(*                                                                         *)
(* The collector's side is a table of entries: what is typed in a control, *)
(* whether it is an answer to the question, and what the collector means   *)
(* by it.  Nothing of the validators is used to write that table, which is *)
(* what makes it something to hold them to.                                *)
(***************************************************************************)
EXTENDS SurveyReports

CONSTANTS
    Users,         \* the collectors
    Plans,         \* a plan's name |-> the fillings of a form it tries, by whom, how many
                   \* surveys, until which second, and whether the list is read
    Usual,         \* a control's name |-> the entry a correction ends with
    Calendar,      \* the second |-> its date in UTC
    LocalDates     \* the second |-> its date where the collector is

VARIABLES
    plan,          \* which plan this behaviour follows
    time,          \* the second it is
    page,          \* the collector's page
    tables,        \* the survey tables
    meant,         \* what the collector meant by each saved survey (history)
    reader         \* the reader's walk through the list

vars == <<plan, time, page, tables, meant, reader>>

-----------------------------------------------------------------------------
(* Entries and controls. *)

Blank == [typed |-> <<>>, sound |-> FALSE, means |-> 0]

DateText(date) ==
    LET digit(k) == (date \div 10 ^ k) % 10
    IN  << digit(7), digit(6), digit(5), digit(4), Minus,
           digit(3), digit(2), Minus, digit(1), digit(0) >>

TodayIsoDate == Calendar[time]
DateEntry(date) == [typed |-> DateText(date), sound |-> TRUE, means |-> date]

\* A filling that leaves the preset date alone.
KeepPreset == [typed |-> <<Mark>>, sound |-> TRUE, means |-> 0]

Photo == <<0, "photo">>
VisitedOn == <<0, "visited_on">>

\* What the browser sends of a control: a text area's line ends become CRLF.
Posted(name, typed) ==
    IF QuestionOf(name).type = "textarea"
    THEN FlattenSeq([i \in DOMAIN typed |->
             IF typed[i] = Newline THEN <<Return, Newline>> ELSE <<typed[i]>>])
    ELSE typed

\* The blank form, with the visit date preset.
NewPage(user) ==
    [phase |-> "blank", user |-> user, errors |-> <<>>, badPhoto |-> FALSE,
     mended |-> FALSE, on |-> time,
     shown |-> [name \in Names |-> IF name = VisitedOn THEN DateEntry(TodayIsoDate)
                                   ELSE Blank],
     sent |-> [name \in Names |-> Blank]]

\* A control of the page that goes back: a date left blank is shown as today,
\* a state must be one of the options, a radio button one of the levels.
\* Mutant: the buttons come back unchecked.
Echo_Unchecked(name, entry) ==
    LET q == QuestionOf(name)
    IN  CASE q.type = "date" /\ entry.typed = <<>>           -> DateEntry(TodayIsoDate)
          [] q.type = "state" /\ entry.typed \notin States   -> Blank
          [] q.type = "metric"                               -> Blank
          [] OTHER                                           -> entry
Echo(name, entry) ==
    LET q == QuestionOf(name)
    IN  CASE q.type = "date" /\ entry.typed = <<>>           -> DateEntry(TodayIsoDate)
          [] q.type = "state" /\ entry.typed \notin States   -> Blank
          [] q.type = "metric" /\ ~ValidateMetric(q, entry.typed).ok -> Blank
          [] OTHER                                           -> entry

\* What the validators make of a text typed in a control, on the day of a second.
Reading(name, typed, t) ==
    ValidateByFieldType(QuestionOf(name), Posted(name, typed), Calendar[t])

\* Day follows day, the preset date and the entry a correction ends with answer
\* their questions, and a state is chosen from a list.
ASSUME FormAssumption ==
    /\ Calendar \in Seq(Nat)
    /\ \A t, u \in DOMAIN Calendar : t <= u => Calendar[t] <= Calendar[u]
    /\ \A p \in DOMAIN Plans : Plans[p].until \in DOMAIN Calendar
    /\ \A t \in DOMAIN Calendar :
         /\ Reading(VisitedOn, DateText(Calendar[t]), t).ok
         /\ \A name \in Names \ {VisitedOn} : Reading(name, Usual[name].typed, t).ok
    /\ \A name \in Names : QuestionOf(name).type = "state" =>
         /\ Usual[name].typed \in States \cup {<<>>}
         /\ \A p \in DOMAIN Plans : \A filling \in Plans[p].fillings :
              filling.entry[name].typed \in States \cup {<<>>}

\* What stands in a control is a text, a sequence of characters.
ASSUME TextAssumption ==
    /\ TextMax \in Nat
    /\ \A name \in Names :
         /\ Usual[name].typed \in Seq(Nat)
         /\ \A p \in DOMAIN Plans : \A filling \in Plans[p].fillings :
              filling.entry[name].typed \in Seq(Nat)

\* Whether an entry answers its question on the day of a second.
Sound(name, entry, t) ==
    /\ entry.sound
    /\ name = VisitedOn => entry.means <= Calendar[t]

\* Alone in its control, an entry is read as the collector means it, on any day.
ReadAsMeant(name, entry) ==
    \A t \in DOMAIN Calendar :
        LET reading == Reading(name, entry.typed, t)
        IN  /\ reading.ok <=> Sound(name, entry, t)
            /\ reading.ok => reading.value = entry.means

\* Whatever the plans type is read so, entry by entry; what the whole page
\* makes of it, round after round, is another matter.
EntriesAreRead ==
    /\ \A date \in Range(Calendar) : ReadAsMeant(VisitedOn, DateEntry(date))
    /\ \A name \in Names :
         /\ name # VisitedOn => ReadAsMeant(name, Usual[name])
         /\ QuestionOf(name).type \in {"state", "metric"} => ReadAsMeant(name, Blank)
         /\ \A p \in DOMAIN Plans : \A filling \in Plans[p].fillings :
              IF filling.entry[name].typed = KeepPreset.typed THEN name = VisitedOn
              ELSE ReadAsMeant(name, filling.entry[name])

\* The questions in the order of the page, and the controls: the photo stands
\* before the notes, which come last.
FieldOrder ==
    [i \in DOMAIN VisitFields |-> <<0, VisitFields[i].key>>]
      \o [i \in DOMAIN VisitMetrics |-> <<0, VisitMetrics[i].key>>]
      \o FlattenSeq([n \in 1..ItemCount |->
            [i \in DOMAIN ItemFields |-> <<n, ItemFields[i].key>>]
              \o [i \in DOMAIN ItemMetrics |-> <<n, ItemMetrics[i].key>>]])
      \o << <<0, NotesField.key>> >>

PageOrder == InsertAt(FieldOrder, Len(FieldOrder), Photo)

-----------------------------------------------------------------------------
(* The tables. *)

\* One transaction: the survey, its visit answers, its items, their answers.
CreateSurvey(user, value) ==
    LET s == Len(tables.surveys) + 1
        answer(item, q) == [survey |-> s, item |-> item, metric |-> q.key,
                            value |-> value[<<item, q.key>>]]
    IN  [surveys |-> Append(tables.surveys,
            [user |-> user, submitted_at |-> time, notes |-> value[<<0, "notes">>],
             business_name |-> value[<<0, "business_name">>],
             state |-> value[<<0, "state">>], town |-> value[<<0, "town">>],
             visited_on |-> value[VisitedOn]]),
         items |-> tables.items \cup
            {[survey |-> s, order |-> n, item_name |-> value[<<n, "item_name">>],
              price_cents |-> value[<<n, "price_cents">>], qty |-> value[<<n, "qty">>]] :
                n \in 1..ItemCount},
         responses |-> tables.responses
            \cup {answer(0, VisitMetrics[i]) : i \in DOMAIN VisitMetrics}
            \cup {answer(n, ItemMetrics[i]) : n \in 1..ItemCount, i \in DOMAIN ItemMetrics}]

-----------------------------------------------------------------------------
(* The collector. *)

NotReading == [scope |-> Everyone, page |-> 0, more |-> FALSE, seen |-> {}, due |-> {}]

Init ==
    /\ plan \in DOMAIN Plans
    /\ time = 1
    /\ page = [NewPage(CHOOSE u \in Users : TRUE) EXCEPT !.phase = "shut"]
    /\ tables = [surveys |-> <<>>, items |-> {}, responses |-> {}]
    /\ meant = <<>>
    /\ reader = NotReading

OpenForm(user) ==
    /\ page.phase \in {"shut", "saved"}
    /\ Len(tables.surveys) < Plans[plan].surveys
    /\ page' = NewPage(user)
    /\ UNCHANGED <<plan, time, tables, meant, reader>>

FillIn(filling) ==
    /\ page.phase = "blank"
    /\ page' = [page EXCEPT
         !.phase = "filled", !.badPhoto = filling.badPhoto,
         !.shown = [name \in Names |->
                      IF filling.entry[name].typed = KeepPreset.typed THEN page.shown[name]
                      ELSE filling.entry[name]]]
    /\ UNCHANGED <<plan, time, tables, meant, reader>>

\* POST /surveys: everything is read, a refused photo is one more fault, and
\* the page goes back or the survey is saved.
\* Mutant: the photo is looked at only when everything else could be read.
Judged_PhotoLast ==
    LET result == ValidateSurveySubmission(
                      [name \in Names |-> Posted(name, page.shown[name].typed)],
                      TodayIsoDate)
    IN  [result EXCEPT !.errors = IF page.badPhoto /\ @ = <<>> THEN Add(@, Photo) ELSE @]
Judged ==
    LET result == ValidateSurveySubmission(
                      [name \in Names |-> Posted(name, page.shown[name].typed)],
                      TodayIsoDate)
    IN  [result EXCEPT !.errors = IF page.badPhoto THEN Add(@, Photo) ELSE @]

SendBack ==
    /\ page.phase = "filled"
    /\ Judged.errors # <<>>
    /\ page' = [page EXCEPT
         !.phase = "refused", !.errors = Judged.errors, !.on = time, !.sent = page.shown,
         !.shown = [name \in Names |-> Echo(name, page.shown[name])]]
    /\ UNCHANGED <<plan, time, tables, meant, reader>>

Save ==
    /\ page.phase = "filled"
    /\ Judged.errors = <<>>
    /\ tables' = CreateSurvey(page.user, Judged.value)
    /\ meant' = Append(meant, [name \in Names |-> page.shown[name].means])
    /\ page' = [page EXCEPT !.phase = "saved", !.errors = <<>>, !.on = time,
                            !.sent = page.shown]
    /\ UNCHANGED <<plan, time, reader>>

\* The collector puts right some of what was named and leaves the rest.
Correct(fixed) ==
    /\ page.phase = "refused"
    /\ page' = [page EXCEPT
         !.phase = "filled",
         !.badPhoto = page.badPhoto /\ Photo \notin fixed,
         !.mended = fixed = Range(page.errors),
         !.shown = [name \in Names |->
            IF name \notin fixed THEN page.shown[name]
            ELSE IF name = VisitedOn THEN DateEntry(TodayIsoDate)
            ELSE Usual[name]]]
    /\ UNCHANGED <<plan, time, tables, meant, reader>>

Tick ==
    /\ time < Plans[plan].until
    /\ time' = time + 1
    /\ UNCHANGED <<plan, page, tables, meant, reader>>

-----------------------------------------------------------------------------
(* The reader. *)

\* GET /surveys?page=n renders the rows of that page and the Next link.
ShowPage(scope, n, seen, due) ==
    LET list == ListSurveys(tables, scope, PageSize, (n - 1) * PageSize)
    IN  [scope |-> scope, page |-> n, due |-> due,
         more |-> HasNext(list.total, (n - 1) * PageSize),
         seen |-> seen \cup {list.rows[k].survey : k \in DOMAIN list.rows}]

OpenList(scope) ==
    /\ Plans[plan].read
    /\ reader.page = 0
    /\ reader' = ShowPage(scope, 1, {}, InScope(tables, scope))
    /\ UNCHANGED <<plan, time, page, tables, meant>>

FollowNext ==
    /\ reader.more
    /\ reader' = ShowPage(reader.scope, reader.page + 1, reader.seen, reader.due)
    /\ UNCHANGED <<plan, time, page, tables, meant>>

LeaveList ==
    /\ reader.page > 0
    /\ reader' = NotReading
    /\ UNCHANGED <<plan, time, page, tables, meant>>

\* The planned surveys are saved: the bound of a behaviour, no step of the program.
Rest ==
    /\ page.phase = "saved" /\ Len(tables.surveys) = Plans[plan].surveys
    /\ UNCHANGED vars

Next ==
    \/ \E user \in Plans[plan].users : OpenForm(user)
    \/ \E filling \in Plans[plan].fillings : FillIn(filling)
    \/ SendBack
    \/ Save
    \/ \E fixed \in SUBSET Range(page.errors) : Correct(fixed)
    \/ Tick
    \/ \E scope \in Users \cup {Everyone} : OpenList(scope)
    \/ FollowNext
    \/ LeaveList
    \/ Rest

Spec == Init /\ [][Next]_vars

-----------------------------------------------------------------------------
(* Properties. *)

\* A submission is sent back for exactly the entries that answer nothing and a
\* photo that is refused, all of them at once and each of them once, the answers
\* in the order of the page; and it is saved when there are none: what the
\* controls let a collector write is never refused for its line ends, its spaces
\* or its length.  Where the photo stands in the list is left open here.
RefusedForWhatIsWrong ==
    LET unread == InOrder({i \in DOMAIN FieldOrder :
                             ~Sound(FieldOrder[i], page.sent[FieldOrder[i]], page.on)})
        wrong  == [k \in DOMAIN unread |-> FieldOrder[unread[k]]]
    IN  /\ page.phase = "refused" =>
             IF page.badPhoto
             THEN \E at \in 1..(Len(wrong) + 1) : page.errors = InsertAt(wrong, at, Photo)
             ELSE page.errors = wrong
        /\ page.phase = "saved" => wrong = <<>> /\ ~page.badPhoto

\* lib/validate.js:39-41 says of the faults that they are kept "so the error
\* summary can list errors in the order the fields appear on the page".  It is
\* false of the program: notes and a photo refused together are listed in that
\* order, and the page has the photo first (views/survey-form.js:649-666,
\* routes/survey.routes.js:168).
ErrorsInPageOrder ==
    LET named == InOrder({i \in DOMAIN PageOrder : PageOrder[i] \in Range(page.errors)})
    IN  page.phase = "refused" => page.errors = [k \in DOMAIN named |-> PageOrder[named[k]]]

\* Nobody corrects a form twice: what was not named comes back as it was sent,
\* so a collector who puts right everything that was named is not sent back
\* again, whatever days went by in between.
OneRoundOfCorrections == page.phase = "refused" => ~page.mended

\* A saved survey says what the collector meant, answer by answer, each of
\* them once and under its own item, after however many rounds of correction.
StoredAsMeant ==
    \A s \in DOMAIN tables.surveys :
      LET row == tables.surveys[s]
          read == GetSurvey(tables, s)
          meantBy(item, key) == meant[s][<<item, key>>]
      IN  /\ \A i \in DOMAIN VisitFields : row[VisitFields[i].key] = meantBy(0, VisitFields[i].key)
          /\ row.notes = meantBy(0, "notes")
          /\ DOMAIN read.visitMetrics = Range(Observer)
          /\ \A key \in Range(Observer) : read.visitMetrics[key] = meantBy(0, key)
          /\ Cardinality(ItemsOf(tables, s)) = ItemCount
          /\ \A item \in ItemsOf(tables, s) :
               /\ item.price_cents = meantBy(item.order, "price_cents")
               /\ item.qty = meantBy(item.order, "qty")
               /\ item.item_name = meantBy(item.order, "item_name")
               /\ DOMAIN read.items[item.order].metrics = Range(Taste \o Context)
               /\ \A key \in Range(Taste \o Context) :
                    read.items[item.order].metrics[key] = meantBy(item.order, key)

HasBar(row) == Bar \in Range(row.business_name \o row.town)

\* The list, the survey's own page and the dashboard are three computations of
\* the same figures, two of them in SQL, and they agree to within their
\* rounding: a survey's taste score, the averages of the scores and of the
\* price of a taco, the venues and the revisits, the states and the surveys by
\* state: "derived here in one place so the numbers on the page cannot disagree"
\* (db/surveys.js:301-303).  The table of states is "most first. Top ten."
\* (views/dashboard.js:208-209): as many states as fit, none left out for one with
\* fewer surveys, and they add up to the total where all of them fit.  The venue
\* count is held to it for names without the separator '|' it is made with.
NumbersAgree ==
    \A scope \in Users \cup {Everyone} :
      LET S     == InScope(tables, scope)
          n     == Cardinality(S)
          stats == DashboardStats(tables, scope)
          item(s) == GetSurvey(tables, s).items[1]
          listed  == ListSurveys(tables, scope, 100, 0)
          off(a, b)     == IF a > b THEN a - b ELSE b - a
          inState(st)   == Cardinality({s \in S : tables.surveys[s].state = st})
          shown         == DOMAIN stats.byState
      IN  /\ listed.total = n /\ stats.totalSurveys = n
          /\ \A k \in DOMAIN listed.rows :
               listed.rows[k].taste = item(listed.rows[k].survey).tasteScore
          /\ n > 0 =>
               /\ off(n * stats.avgTaste, SumOf([s \in S |-> item(s).tasteScore], S)) <= n
               /\ off(n * stats.avgPrice, SumOf([s \in S |-> 10 * item(s).pricePerItem], S)) <= 6 * n
          /\ Cardinality(shown) = Min({StatesShown, stats.distinctStates})
          /\ \A s \in S : \A st \in shown :
               \/ tables.surveys[s].state \in shown
               \/ inState(tables.surveys[s].state) <= stats.byState[st]
          /\ stats.distinctStates <= StatesShown => SumOf(stats.byState, shown) = n
          /\ (\A s \in S : ~HasBar(tables.surveys[s])) =>
               /\ (stats.revisited = 0) <=> (stats.distinctVenues = n)
               /\ stats.distinctVenues + stats.revisited <= n
               /\ stats.distinctVenues >= stats.distinctStates

\* A reader who follows Next to the end has been shown every survey there was
\* when the walk began, although surveys saved meanwhile push the older ones
\* to later pages.
EverySurveyIsListed ==
    (reader.page > 0 /\ ~reader.more) => reader.due \subseteq reader.seen

\* A visit is not dated after the day the collector wrote it up.
VisitsAreNotAhead ==
    \A s \in DOMAIN tables.surveys :
        tables.surveys[s].visited_on <= LocalDates[tables.surveys[s].submitted_at]
=============================================================================
