--------------------------- MODULE SurveyReports ---------------------------
(***************************************************************************)
(* What the pages read back out of the survey tables: one survey with its  *)
(* score (getSurvey), the paginated list (listSurveys and the pagination   *)
(* of views/survey-list.js) and the dashboard's figures (dashboardStats).  *)
(*                                                                         *)
(* tables.surveys is the sequence of survey rows in the order of their     *)
(* ids; tables.items and tables.responses are sets of rows.  Every row of  *)
(* this version is submitted, so the status is left out.                   *)
(***************************************************************************)
EXTENDS SurveyRules

CONSTANTS
    PageSize,      \* surveys on one page of the list (25)
    StatesShown,   \* states in the dashboard's table (LIMIT 10)
    NewestFirst    \* which of two surveys saved in one second SQLite lists first

ASSUME ListAssumption ==
    PageSize \in Nat \ {0} /\ StatesShown \in Nat \ {0} /\ NewestFirst \in BOOLEAN

Everyone == "everyone"      \* the scope of an administrator: userId null

InScope(tables, scope) ==
    {s \in DOMAIN tables.surveys : scope = Everyone \/ tables.surveys[s].user = scope}

ItemsOf(tables, s) == {i \in tables.items : i.survey = s}

-----------------------------------------------------------------------------
(* One survey. *)

\* The answers under one item, or under the visit (item 0).
\* Mutant: the item is not asked about.
Answers_EveryItem(tables, s, item) ==
    LET rows == {r \in tables.responses : r.survey = s}
    IN  [key \in {r.metric : r \in rows} |-> (CHOOSE r \in rows : r.metric = key).value]
Answers(tables, s, item) ==
    LET rows == {r \in tables.responses : r.survey = s /\ r.item = item}
    IN  [key \in {r.metric : r \in rows} |-> (CHOOSE r \in rows : r.metric = key).value]

GetSurvey(tables, s) ==
    [visitMetrics |-> Answers(tables, s, 0),
     items |-> [n \in {i.order : i \in ItemsOf(tables, s)} |->
        LET item == CHOOSE i \in ItemsOf(tables, s) : i.order = n
        IN  [metrics |-> Answers(tables, s, n),
             tasteScore |-> ScoreItem(Answers(tables, s, n)),
             pricePerItem |-> PricePerItemCents(item.price_cents, item.qty)]]]

-----------------------------------------------------------------------------
(* The list. *)

\* AVG of the scored answers of a set of surveys, rounded, or nothing.
AverageTaste(tables, S) ==
    LET rows == {r \in tables.responses :
                    r.survey \in S /\ r.item # 0 /\ r.metric \in ScoredKeys}
    IN  IF rows = {} THEN NoScore
        ELSE RoundDiv(SumOf([r \in rows |-> r.value], rows), Cardinality(rows))

\* The surveys of a scope, the latest submission first.
Before(tables, a, b) ==
    \/ tables.surveys[a].submitted_at > tables.surveys[b].submitted_at
    \/ /\ tables.surveys[a].submitted_at = tables.surveys[b].submitted_at
       /\ IF NewestFirst THEN a > b ELSE a < b

\* Where a survey stands among them, and the survey at each place.
Place(tables, scope, s) ==
    Cardinality({t \in InScope(tables, scope) : t = s \/ Before(tables, t, s)})

Listed(tables, scope) ==
    [k \in 1..Cardinality(InScope(tables, scope)) |->
        CHOOSE s \in InScope(tables, scope) : Place(tables, scope, s) = k]

ListSurveys(tables, scope, limit, offset) ==
    LET all  == Listed(tables, scope)
        rows == SubSeq(all, offset + 1, Min({Len(all), offset + limit}))
    IN  [rows  |-> [k \in DOMAIN rows |->
                      [survey |-> rows[k],
                       taste  |-> AverageTaste(tables, {rows[k]})]],
         total |-> Len(all)]

PageCount(total) == Max({1, (total + PageSize - 1) \div PageSize})

\* The page the control calls current, and whether it has a next one.
Current(total, offset) == Min({PageCount(total), offset \div PageSize + 1})
\* Mutant: a page that is full is taken for the last one.
HasNext_FullPages(total, offset) == Current(total, offset) < total \div PageSize
HasNext(total, offset) == Current(total, offset) < PageCount(total)

-----------------------------------------------------------------------------
(* The dashboard. *)

\* business_name || '|' || state || '|' || town.
VenueLabel(row) == row.business_name \o <<Bar>> \o row.state \o <<Bar>> \o row.town
Venue(row)      == <<row.business_name, row.state, row.town>>

\* Sum of price over quantity, as a numerator over the product of quantities.
PriceSum(items) ==
    FoldSet(LAMBDA i, sum : [num |-> sum.num * i.qty + i.price_cents * sum.den,
                             den |-> sum.den * i.qty],
            [num |-> 0, den |-> 1], items)

\* The order of two texts: by the first character they differ in, the shorter
\* before one that goes on.
TextBefore(a, b) ==
    \E k \in DOMAIN b :
        /\ \A i \in 1..(k - 1) : i \in DOMAIN a /\ a[i] = b[i]
        /\ k \in DOMAIN a => a[k] < b[k]

\* The states with the most surveys, those with as many by their codes, and how
\* many each has.
MoreSurveys(count, u, st) ==
    count[u] > count[st] \/ (count[u] = count[st] /\ TextBefore(u, st))

ByState(tables, S) ==
    LET count == [st \in {tables.surveys[s].state : s \in S} |->
                    Cardinality({s \in S : tables.surveys[s].state = st})]
        ahead(st) == {u \in DOMAIN count : MoreSurveys(count, u, st)}
    IN  Restrict(count, {st \in DOMAIN count : Cardinality(ahead(st)) < StatesShown})

DashboardStats(tables, scope) ==
    LET S     == InScope(tables, scope)
        row(s) == tables.surveys[s]
        items == {i \in tables.items : i.survey \in S}
        price == PriceSum(items)
    IN  [totalSurveys   |-> Cardinality(S),
         distinctVenues |-> Cardinality({VenueLabel(row(s)) : s \in S}),
         distinctStates |-> Cardinality({row(s).state : s \in S}),
         totalTacos     |-> SumOf([i \in items |-> i.qty], items),
         \* in tenths of a cent
         avgPrice       |-> IF items = {} THEN NoScore
                            ELSE RoundDiv(10 * price.num, price.den * Cardinality(items)),
         avgTaste       |-> AverageTaste(tables, S),
         revisited      |-> Cardinality({v \in {Venue(row(s)) : s \in S} :
                               Cardinality({s \in S : Venue(row(s)) = v}) > 1}),
         byState        |-> ByState(tables, S)]
=============================================================================
