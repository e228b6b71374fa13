--------------------------- MODULE SurveysProofs ---------------------------
(***************************************************************************)
(* Proofs about Surveys, for any collectors, plans, calendars, page sizes  *)
(* and texts.  First the list: where a survey stands in it and what a      *)
(* reader has been shown who follows Next while surveys are being added.   *)
(* Then the form: its nineteen questions one by one, what a submission is  *)
(* judged by, that one round of corrections is enough, that a refusal      *)
(* names what is wrong, and that the rows saved are what was meant.  Last  *)
(* the figures: sums over finite sets, prices added up as fractions, the   *)
(* counting of venues, the values the validators let through, and that the *)
(* three computations of the same figures agree.                           *)
(***************************************************************************)
EXTENDS Surveys, FiniteSetTheorems, SequenceTheorems, WellFoundedInduction, TLAPS

-----------------------------------------------------------------------------
(* The survey rows: a sequence that grows, dated by the clock. *)

Dated(rows) == \A s \in DOMAIN rows : rows[s].submitted_at \in Nat

RowsInv ==
    /\ time \in Nat
    /\ \E R : tables.surveys \in Seq(R)
    /\ Dated(tables.surveys)
    /\ \A s \in DOMAIN tables.surveys : tables.surveys[s].submitted_at <= time

\* What a step does to the rows: nothing, or one more survey, dated now.
Grows ==
    /\ Len(tables'.surveys) = Len(tables.surveys) + 1
    /\ DOMAIN tables'.surveys = 1 .. Len(tables.surveys) + 1
    /\ \A s \in DOMAIN tables.surveys : tables'.surveys[s] = tables.surveys[s]
    /\ tables'.surveys[Len(tables.surveys) + 1].submitted_at = time
    /\ UNCHANGED time

LEMMA RowsAreASequence ==
    ASSUME RowsInv
    PROVE  /\ Len(tables.surveys) \in Nat
           /\ DOMAIN tables.surveys = 1 .. Len(tables.surveys)
<1>1. PICK R : tables.surveys \in Seq(R)
  BY DEF RowsInv
<1> QED
  BY <1>1, LenProperties

LEMMA SaveGrows ==
    ASSUME RowsInv, Save
    PROVE  Grows /\ RowsInv'
<1>1. PICK R : tables.surveys \in Seq(R)
  BY DEF RowsInv
<1>2. PICK row : tables'.surveys = Append(tables.surveys, row) /\ row.submitted_at = time
  BY DEF Save, CreateSurvey
<1>3. tables.surveys \in Seq(R \cup {row}) /\ row \in R \cup {row}
  BY <1>1, SeqMonotonic
<1>4. /\ tables'.surveys \in Seq(R \cup {row})
      /\ Len(tables'.surveys) = Len(tables.surveys) + 1
      /\ \A s \in 1 .. Len(tables.surveys) : tables'.surveys[s] = tables.surveys[s]
      /\ tables'.surveys[Len(tables.surveys) + 1] = row
  BY <1>2, <1>3, AppendProperties
<1>5. /\ Len(tables.surveys) \in Nat /\ DOMAIN tables.surveys = 1 .. Len(tables.surveys)
      /\ DOMAIN tables'.surveys = 1 .. Len(tables'.surveys)
  BY <1>3, <1>4, LenProperties
<1>6. Grows
  BY <1>2, <1>4, <1>5 DEF Grows, Save
<1>7. ASSUME NEW s \in DOMAIN tables'.surveys
      PROVE  tables'.surveys[s].submitted_at \in Nat /\ tables'.surveys[s].submitted_at <= time
  <2>1. CASE s \in 1 .. Len(tables.surveys)
    BY <1>4, <1>5, <2>1 DEF RowsInv, Dated
  <2>2. CASE s = Len(tables.surveys) + 1
    BY <1>6, <2>2 DEF Grows, RowsInv
  <2> QED
    BY <1>4, <1>5, <1>7, <2>1, <2>2
<1>8. \E Q : tables'.surveys \in Seq(Q)
  BY <1>4
<1> QED
  BY <1>6, <1>7, <1>8 DEF Grows, RowsInv, Dated

LEMMA RowsStep ==
    ASSUME RowsInv, [Next]_vars
    PROVE  /\ RowsInv'
           /\ tables' = tables \/ Grows
<1>1. CASE Save
  BY <1>1, SaveGrows
<1>2. CASE Tick
  <2>1. time' \in Nat /\ time' >= time /\ tables' = tables
    BY <1>2 DEF Tick, RowsInv
  <2> QED
    BY <2>1 DEF RowsInv, Dated
<1>3. CASE UNCHANGED <<time, tables>>
  BY <1>3 DEF RowsInv, Dated
<1> QED
  BY <1>1, <1>2, <1>3
  DEF Next, vars, OpenForm, FillIn, SendBack, Correct, OpenList, FollowNext, LeaveList, Rest

LEMMA RowsInit == Init => RowsInv
<1> SUFFICES ASSUME Init PROVE RowsInv
  OBVIOUS
<1>1. tables.surveys = << >> /\ time = 1
  BY DEF Init
<1>2. << >> \in Seq({}) /\ DOMAIN << >> = {}
  BY EmptySeq
<1> QED
  BY <1>1, <1>2 DEF RowsInv, Dated
-----------------------------------------------------------------------------
(* The places of the surveys of a scope: each from the first to the last has *)
(* one survey, and a survey one place.                                       *)

Rows(T) == Dated(T.surveys) /\ \E n \in Nat : DOMAIN T.surveys = 1 .. n

Ahead(T, scope, s) == {t \in InScope(T, scope) : t = s \/ Before(T, t, s)}

LEMMA BeforeOrders ==
    ASSUME NEW T, Rows(T)
    PROVE  /\ \A a, b \in DOMAIN T.surveys : a # b => Before(T, a, b) \/ Before(T, b, a)
           /\ \A a, b \in DOMAIN T.surveys : Before(T, a, b) => a # b /\ ~Before(T, b, a)
           /\ \A a, b, c \in DOMAIN T.surveys :
                 Before(T, a, b) /\ Before(T, b, c) => Before(T, a, c)
<1>1. /\ DOMAIN T.surveys \subseteq Nat
      /\ \A a \in DOMAIN T.surveys : T.surveys[a].submitted_at \in Nat
  BY DEF Rows, Dated
<1> QED
  BY <1>1, ListAssumption DEF Before

LEMMA ScopeIsFinite ==
    ASSUME NEW T, Rows(T), NEW scope
    PROVE  /\ IsFiniteSet(InScope(T, scope)) /\ Cardinality(InScope(T, scope)) \in Nat
           /\ InScope(T, scope) \subseteq DOMAIN T.surveys
<1>1. PICK n \in Nat : DOMAIN T.surveys = 1 .. n
  BY DEF Rows
<1>2. IsFiniteSet(1 .. n)
  BY FS_Interval
<1>3. InScope(T, scope) \subseteq DOMAIN T.surveys
  BY DEF InScope
<1> QED
  BY <1>1, <1>2, <1>3, FS_Subset, FS_CardinalityType

LEMMA PlaceOf ==
    ASSUME NEW T, Rows(T), NEW scope, NEW s \in InScope(T, scope)
    PROVE  /\ Place(T, scope, s) = Cardinality(Ahead(T, scope, s))
           /\ IsFiniteSet(Ahead(T, scope, s)) /\ s \in Ahead(T, scope, s)
           /\ Place(T, scope, s) \in 1 .. Cardinality(InScope(T, scope))
<1>1. Place(T, scope, s) = Cardinality(Ahead(T, scope, s))
  BY DEF Place, Ahead
<1>2. s \in Ahead(T, scope, s) /\ Ahead(T, scope, s) \in SUBSET InScope(T, scope)
  BY DEF Ahead
<1>3. /\ IsFiniteSet(Ahead(T, scope, s))
      /\ Cardinality(Ahead(T, scope, s)) \in Nat
      /\ Cardinality(Ahead(T, scope, s)) <= Cardinality(InScope(T, scope))
      /\ Cardinality(InScope(T, scope)) \in Nat
  BY <1>2, ScopeIsFinite, FS_Subset, FS_CardinalityType
<1>4. Cardinality(Ahead(T, scope, s)) # 0
  BY <1>2, <1>3, FS_EmptySet
<1> QED
  BY <1>1, <1>2, <1>3, <1>4

\* Of two surveys the one that comes before has fewer ahead of it.
LEMMA PlaceIsOnes ==
    ASSUME NEW T, Rows(T), NEW scope,
           NEW a \in InScope(T, scope), NEW b \in InScope(T, scope), a # b
    PROVE  Place(T, scope, a) # Place(T, scope, b)
<1>1. ASSUME NEW c \in InScope(T, scope), NEW d \in InScope(T, scope), Before(T, c, d)
      PROVE  Place(T, scope, c) # Place(T, scope, d)
  <2>1. Ahead(T, scope, c) \in SUBSET Ahead(T, scope, d)
    BY <1>1, BeforeOrders, ScopeIsFinite DEF Ahead
  <2>2. d \in Ahead(T, scope, d) /\ d \notin Ahead(T, scope, c)
    BY <1>1, BeforeOrders, ScopeIsFinite DEF Ahead
  <2>3. Cardinality(Ahead(T, scope, c)) # Cardinality(Ahead(T, scope, d))
    BY <2>1, <2>2, PlaceOf, FS_Subset
  <2> QED
    BY <2>3, PlaceOf
<1> QED
  BY <1>1, BeforeOrders, ScopeIsFinite

LEMMA EachPlaceIsTaken ==
    ASSUME NEW T, Rows(T), NEW scope, NEW k \in 1 .. Cardinality(InScope(T, scope))
    PROVE  \E s \in InScope(T, scope) : Place(T, scope, s) = k
<1> DEFINE S == InScope(T, scope)
           N == 1 .. Cardinality(S)
           place == [s \in S |-> Place(T, scope, s)]
<1>1. place \in Injection(S, N)
  BY PlaceOf, PlaceIsOnes DEF Injection, IsInjective
<1>2. IsFiniteSet(N) /\ Cardinality(N) = Cardinality(S)
  <2>1. Cardinality(S) \in Nat
    BY ScopeIsFinite
  <2> QED
    BY <2>1, FS_Interval
<1> HIDE DEF N, S
<1>3. place \in Surjection(S, N)
  BY <1>1, <1>2, FS_Injection
<1> QED
  BY <1>3 DEF Surjection, N, S

\* Listed has each survey of the scope at its place.
LEMMA ListedByPlace ==
    ASSUME NEW T, Rows(T), NEW scope
    PROVE  /\ Len(Listed(T, scope)) = Cardinality(InScope(T, scope))
           /\ Listed(T, scope) \in Seq(InScope(T, scope))
           /\ \A k \in 1 .. Cardinality(InScope(T, scope)) :
                 /\ Listed(T, scope)[k] \in InScope(T, scope)
                 /\ Place(T, scope, Listed(T, scope)[k]) = k
           /\ \A s \in InScope(T, scope) : Listed(T, scope)[Place(T, scope, s)] = s
<1> DEFINE S == InScope(T, scope)
           at(k) == CHOOSE s \in S : Place(T, scope, s) = k
<1>1. Cardinality(S) \in Nat
  BY ScopeIsFinite
<1>2. \A k \in 1 .. Cardinality(S) : at(k) \in S /\ Place(T, scope, at(k)) = k
  BY EachPlaceIsTaken
<1>3. Listed(T, scope) = [k \in 1 .. Cardinality(S) |-> at(k)]
  BY DEF Listed
<1> HIDE DEF at
<1>4. \A s \in S : at(Place(T, scope, s)) = s
  BY <1>2, PlaceOf, PlaceIsOnes
<1>5. Listed(T, scope) \in [1 .. Cardinality(S) -> S]
  BY <1>2, <1>3
<1>6. Listed(T, scope) \in Seq(S) /\ Len(Listed(T, scope)) = Cardinality(S)
  BY <1>1, <1>5
<1> QED
  BY <1>2, <1>3, <1>4, <1>6, PlaceOf
-----------------------------------------------------------------------------
(* One page of the list, and whether it is the last. *)

LEMMA MinOfTwo ==
    ASSUME NEW a \in Int, NEW b \in Int
    PROVE  Min({a, b}) = IF a <= b THEN a ELSE b
<1> DEFINE m == IF a <= b THEN a ELSE b
<1>1. m \in {a, b} /\ \A y \in {a, b} : m <= y
  OBVIOUS
<1>2. \A x \in {a, b} : (\A y \in {a, b} : x <= y) => x = m
  OBVIOUS
<1> HIDE DEF m
<1>3. (CHOOSE x \in {a, b} : \A y \in {a, b} : x <= y) = m
  BY <1>1, <1>2
<1> QED
  BY <1>3 DEF Min, m

LEMMA MaxOfTwo ==
    ASSUME NEW a \in Int, NEW b \in Int
    PROVE  Max({a, b}) = IF a >= b THEN a ELSE b
<1> DEFINE m == IF a >= b THEN a ELSE b
<1>1. m \in {a, b} /\ \A y \in {a, b} : m >= y
  OBVIOUS
<1>2. \A x \in {a, b} : (\A y \in {a, b} : x >= y) => x = m
  OBVIOUS
<1> HIDE DEF m
<1>3. (CHOOSE x \in {a, b} : \A y \in {a, b} : x >= y) = m
  BY <1>1, <1>2
<1> QED
  BY <1>3 DEF Max, m

\* LIMIT and OFFSET cut the places offset + 1 to offset + limit out of the list.
LEMMA PageRows ==
    ASSUME NEW T, Rows(T), NEW scope, NEW limit \in Nat, NEW offset \in Nat
    PROVE  LET list == ListSurveys(T, scope, limit, offset)
           IN  /\ list.total = Cardinality(InScope(T, scope))
               /\ {list.rows[k].survey : k \in DOMAIN list.rows}
                    = {s \in InScope(T, scope) :
                          Place(T, scope, s) \in offset + 1 .. offset + limit}
<1> DEFINE S == InScope(T, scope)
           all == Listed(T, scope)
           last == Min({Len(all), offset + limit})
           rows == SubSeq(all, offset + 1, last)
           list == ListSurveys(T, scope, limit, offset)
<1>1. /\ all \in Seq(S) /\ Len(all) = Cardinality(S) /\ Len(all) \in Nat
      /\ \A k \in 1 .. Len(all) : all[k] \in S /\ Place(T, scope, all[k]) = k
      /\ \A s \in S : all[Place(T, scope, s)] = s /\ Place(T, scope, s) \in 1 .. Len(all)
  BY ListedByPlace, ScopeIsFinite, PlaceOf
<1> HIDE DEF all, S
<1>2. last \in Nat /\ last <= Len(all) /\ last <= offset + limit
      /\ (last = Len(all) \/ last = offset + limit)
  BY <1>1, MinOfTwo
<1> HIDE DEF last
<1>3. \A i \in offset + 1 .. last : all[i] \in S
  BY <1>1, <1>2
<1>4. /\ rows \in Seq(S)
      /\ Len(rows) = IF offset + 1 <= last THEN last - (offset + 1) + 1 ELSE 0
      /\ \A i \in 1 .. last - (offset + 1) + 1 : rows[i] = all[offset + 1 + i - 1]
  BY <1>2, <1>3, SubSeqProperties
<1> HIDE DEF rows
<1>5. DOMAIN rows = 1 .. Len(rows) /\ \A i \in DOMAIN rows : rows[i] = all[offset + i]
  BY <1>2, <1>4
<1>6. list = [rows  |-> [k \in DOMAIN rows |-> [survey |-> rows[k],
                                                taste  |-> AverageTaste(T, {rows[k]})]],
              total |-> Len(all)]
  BY DEF ListSurveys, rows, all, last
<1>7. {list.rows[k].survey : k \in DOMAIN list.rows} = {rows[k] : k \in DOMAIN rows}
  BY <1>6
<1>8. ASSUME NEW k \in DOMAIN rows
      PROVE  rows[k] \in S /\ Place(T, scope, rows[k]) \in offset + 1 .. offset + limit
  <2>1. k \in 1 .. Len(rows) /\ offset + k \in 1 .. Len(all) /\ offset + k <= offset + limit
    BY <1>2, <1>4, <1>5
  <2> QED
    BY <1>1, <1>5, <2>1
<1>9. ASSUME NEW s \in S, Place(T, scope, s) \in offset + 1 .. offset + limit
      PROVE  \E k \in DOMAIN rows : rows[k] = s
  <2> DEFINE k == Place(T, scope, s) - offset
  <2>1. Place(T, scope, s) \in 1 .. Len(all) /\ all[Place(T, scope, s)] = s
    BY <1>1
  <2>2. k \in 1 .. Len(rows)
    BY <1>1, <1>2, <1>4, <1>9, <2>1
  <2>3. rows[k] = all[offset + k] /\ offset + k = Place(T, scope, s)
    BY <1>5, <2>1, <2>2
  <2> QED
    BY <1>5, <2>1, <2>2, <2>3
<1> QED
  BY <1>1, <1>6, <1>7, <1>8, <1>9 DEF S

LEMMA TimesOrdered ==
    ASSUME NEW a \in Nat, NEW b \in Nat, a <= b, NEW c \in Nat
    PROVE  a * c <= b * c /\ a * c \in Nat /\ b * c \in Nat
OBVIOUS

\* The pagination has no next page when the pages so far hold all there is.
LEMMA LastPage ==
    ASSUME NEW total \in Nat, NEW n \in Nat \ {0},
           ~HasNext(total, (n - 1) * PageSize)
    PROVE  total <= n * PageSize
<1> DEFINE q == (total + PageSize - 1) \div PageSize
           at == ((n - 1) * PageSize) \div PageSize
<1>1. PageSize \in Nat /\ PageSize > 0
  BY ListAssumption
<1>2. q \in Nat /\ total < (q * PageSize) + 1
  BY <1>1
<1>3. at = n - 1
  BY <1>1
<1> HIDE DEF q, at
<1>4. PageCount(total) = IF 1 >= q THEN 1 ELSE q
  BY <1>2, MaxOfTwo DEF PageCount, q
<1>5. Current(total, (n - 1) * PageSize) = IF PageCount(total) <= n THEN PageCount(total) ELSE n
  BY <1>2, <1>3, <1>4, MinOfTwo DEF Current, at
<1>6. n >= q
  BY <1>2, <1>4, <1>5 DEF HasNext
<1> QED
  BY <1>1, <1>2, <1>6, TimesOrdered
-----------------------------------------------------------------------------
(* The walk from page to page. What is due and has not been shown stands on  *)
(* a later page than the reader's: new surveys only push it further back.    *)

ReaderInv ==
    /\ reader.page \in Nat
    /\ reader.page = 0 => ~reader.more
    /\ reader.due \subseteq InScope(tables, reader.scope)
    /\ reader.page > 0 =>
          \A s \in reader.due \ reader.seen :
             /\ reader.more
             /\ Place(tables, reader.scope, s) > reader.page * PageSize

LEMMA RowsOfTables ==
    /\ RowsInv => Rows(tables)
    /\ RowsInv' => Rows(tables')
<1>1. ASSUME NEW R, NEW q \in Seq(R) PROVE Len(q) \in Nat /\ DOMAIN q = 1 .. Len(q)
  BY <1>1, LenProperties
<1> QED
  BY <1>1 DEF RowsInv, Rows

LEMMA PlacesMoveBack ==
    ASSUME RowsInv, RowsInv', tables' = tables \/ Grows,
           NEW scope, NEW s \in InScope(tables, scope)
    PROVE  /\ s \in InScope(tables', scope)
           /\ Place(tables, scope, s) \in Nat
           /\ Place(tables', scope, s) \in Nat
           /\ Place(tables', scope, s) >= Place(tables, scope, s)
<1>1. /\ Rows(tables) /\ Rows(tables')
      /\ DOMAIN tables.surveys = 1 .. Len(tables.surveys) /\ Len(tables.surveys) \in Nat
  BY RowsOfTables, RowsAreASequence
<1>2. /\ DOMAIN tables.surveys \subseteq DOMAIN tables'.surveys
      /\ \A t \in DOMAIN tables.surveys : tables'.surveys[t] = tables.surveys[t]
  BY <1>1 DEF Grows
<1>3. InScope(tables, scope) \subseteq InScope(tables', scope)
  BY <1>2 DEF InScope
<1>4. Ahead(tables, scope, s) \in SUBSET Ahead(tables', scope, s)
  BY <1>1, <1>2, <1>3, ScopeIsFinite DEF Ahead, Before
<1>5. s \in InScope(tables', scope)
  BY <1>3
<1>6. /\ Place(tables, scope, s) = Cardinality(Ahead(tables, scope, s))
      /\ Place(tables', scope, s) = Cardinality(Ahead(tables', scope, s))
      /\ IsFiniteSet(Ahead(tables', scope, s)) /\ IsFiniteSet(Ahead(tables, scope, s))
  BY <1>1, <1>5, PlaceOf
<1> QED
  BY <1>4, <1>5, <1>6, FS_Subset, FS_CardinalityType

\* What showing page n does for the surveys due behind the pages before it.
LEMMA PageShown ==
    ASSUME RowsInv, NEW scope, NEW n \in Nat \ {0}, NEW seen,
           NEW due \in SUBSET InScope(tables, scope),
           \A s \in due \ seen : Place(tables, scope, s) > (n - 1) * PageSize
    PROVE  LET shown == ShowPage(scope, n, seen, due)
           IN  /\ shown.page = n /\ shown.scope = scope /\ shown.due = due
               /\ \A s \in due \ shown.seen :
                     /\ shown.more
                     /\ Place(tables, scope, s) > n * PageSize
<1> DEFINE offset == (n - 1) * PageSize
           list == ListSurveys(tables, scope, PageSize, offset)
           shown == ShowPage(scope, n, seen, due)
           S == InScope(tables, scope)
<1>1. PageSize \in Nat /\ n - 1 \in Nat /\ Rows(tables) /\ Cardinality(S) \in Nat
  BY RowsOfTables, ScopeIsFinite, ListAssumption
<1>2. offset \in Nat /\ offset + PageSize = n * PageSize
  BY <1>1
<1>3. ~HasNext(Cardinality(S), offset) => Cardinality(S) <= n * PageSize
  BY <1>1, LastPage
<1> HIDE DEF offset
<1>4. /\ list.total = Cardinality(S)
      /\ {list.rows[k].survey : k \in DOMAIN list.rows}
            = {s \in S : Place(tables, scope, s) \in offset + 1 .. offset + PageSize}
  BY <1>1, <1>2, PageRows
<1>5. /\ shown.page = n /\ shown.scope = scope /\ shown.due = due
      /\ shown.more = HasNext(list.total, offset)
      /\ shown.seen = seen \cup {list.rows[k].survey : k \in DOMAIN list.rows}
  BY DEF ShowPage, offset
<1> HIDE DEF list, shown
<1>6. ASSUME NEW s \in due \ shown.seen
      PROVE  shown.more /\ Place(tables, scope, s) > n * PageSize
  <2>1. s \in due \ seen /\ s \in S
    BY <1>5
  <2>2. Place(tables, scope, s) \in 1 .. Cardinality(S) /\ Place(tables, scope, s) > offset
    BY <1>1, <2>1, PlaceOf DEF offset
  <2>3. Place(tables, scope, s) \notin offset + 1 .. offset + PageSize
    BY <1>4, <1>5, <2>1
  <2>4. Place(tables, scope, s) > n * PageSize
    BY <1>1, <1>2, <2>2, <2>3
  <2> QED
    BY <1>1, <1>2, <1>3, <1>4, <1>5, <2>2, <2>4
<1> QED
  BY <1>5, <1>6 DEF shown

LEMMA ReaderStep ==
    ASSUME RowsInv, ReaderInv, [Next]_vars
    PROVE  ReaderInv'
<1>1. RowsInv' /\ (tables' = tables \/ Grows)
  BY RowsStep
<1>2. PageSize \in Nat
  BY ListAssumption
<1>3. ASSUME NEW scope \in Users \cup {Everyone}, OpenList(scope) PROVE ReaderInv'
  <2> DEFINE due == InScope(tables, scope)
             n == 1
  <2>1. \A s \in due : Place(tables, scope, s) > (n - 1) * PageSize
    BY <1>2, RowsOfTables, PlaceOf
  <2>2. /\ reader' = ShowPage(scope, n, {}, due) /\ tables' = tables
        /\ due \in SUBSET InScope(tables, scope) /\ n \in Nat \ {0}
        /\ \A s \in due \ {} : Place(tables, scope, s) > (n - 1) * PageSize
    BY <1>3, <2>1 DEF OpenList
  <2> HIDE DEF due, n
  <2>3. /\ reader'.page = n /\ reader'.scope = scope /\ reader'.due = due
        /\ \A s \in due \ reader'.seen :
              reader'.more /\ Place(tables, scope, s) > n * PageSize
    BY <2>2, PageShown
  <2> QED
    BY <2>2, <2>3 DEF ReaderInv
<1>4. CASE FollowNext
  <2> DEFINE n == reader.page + 1
             scope == reader.scope
  <2>1. /\ reader' = ShowPage(scope, n, reader.seen, reader.due) /\ tables' = tables
        /\ reader.more
    BY <1>4 DEF FollowNext
  <2>2. n \in Nat \ {0} /\ n - 1 = reader.page /\ reader.page > 0
    BY <2>1 DEF ReaderInv
  <2>3. \A s \in reader.due \ reader.seen : Place(tables, scope, s) > (n - 1) * PageSize
    BY <2>2 DEF ReaderInv
  <2>4. reader.due \in SUBSET InScope(tables, scope)
    BY DEF ReaderInv
  <2> HIDE DEF n, scope
  <2>5. /\ reader'.page = n /\ reader'.scope = scope /\ reader'.due = reader.due
        /\ \A s \in reader.due \ reader'.seen :
              reader'.more /\ Place(tables, scope, s) > n * PageSize
    BY <2>1, <2>2, <2>3, <2>4, PageShown
  <2> QED
    BY <2>1, <2>2, <2>4, <2>5 DEF ReaderInv
<1>5. CASE LeaveList
  <2>1. reader'.page = 0 /\ ~reader'.more /\ reader'.due = {}
    BY <1>5 DEF LeaveList, NotReading
  <2> QED
    BY <2>1 DEF ReaderInv
<1>6. CASE UNCHANGED reader
  <2>1. \A s \in reader.due :
           /\ s \in InScope(tables', reader.scope)
           /\ Place(tables, reader.scope, s) \in Nat
           /\ Place(tables', reader.scope, s) \in Nat
           /\ Place(tables', reader.scope, s) >= Place(tables, reader.scope, s)
    BY <1>1, PlacesMoveBack DEF ReaderInv
  <2>2. reader.page * PageSize \in Nat
    BY <1>2 DEF ReaderInv
  <2> QED
    BY <1>6, <2>1, <2>2 DEF ReaderInv
<1> QED
  BY <1>3, <1>4, <1>5, <1>6
  DEF Next, vars, OpenForm, FillIn, SendBack, Save, Correct, Tick, Rest

\* A reader who follows the list's Next link to its end has been shown every survey
\* that was there when the walk began (listSurveys with LIMIT and OFFSET, and the
\* pagination), however many are saved meanwhile, for any page size and either
\* order among the surveys of one second.
THEOREM ListsAreWhole == Spec => []EverySurveyIsListed
<1>1. Init => RowsInv /\ ReaderInv
  <2>1. Init => ReaderInv
    BY DEF Init, NotReading, ReaderInv
  <2> QED
    BY <2>1, RowsInit
<1>2. RowsInv /\ ReaderInv /\ [Next]_vars => RowsInv' /\ ReaderInv'
  BY RowsStep, ReaderStep
<1>3. ReaderInv => EverySurveyIsListed
  BY DEF ReaderInv, EverySurveyIsListed
<1> QED
  BY <1>1, <1>2, <1>3, PTL DEF Spec

-----------------------------------------------------------------------------
(* Sequences put together. *)

IsSeq(s) == \E S : s \in Seq(S)

\* u is t after s.
Joins(u, s, t) ==
    /\ IsSeq(u)
    /\ Len(u) = Len(s) + Len(t)
    /\ \A i \in 1 .. Len(s) : u[i] = s[i]
    /\ \A i \in 1 .. Len(t) : u[Len(s) + i] = t[i]

LEMMA FlattenOne ==
    ASSUME NEW s, Len(s) = 1
    PROVE  FlattenSeq(s) = s[1]
<1> DEFINE G(g) == [i \in 1 .. Len(s) |-> IF i = 1 THEN s[i] ELSE g[i - 1] \o s[i]]
           f == CHOOSE g : g = G(g)
           h == [i \in 1 .. 1 |-> s[i]]
<1>1. G(h) = h
  BY 1 .. Len(s) = 1 .. 1, \A i \in 1 .. 1 : i = 1
<1>2. f = G(f)
  BY <1>1
<1>3. f[1] = s[1]
  <2>1. 1 \in 1 .. Len(s)
    OBVIOUS
  <2>2. G(f)[1] = s[1]
    BY <2>1
  <2> HIDE DEF f
  <2> QED
    BY <1>2, <2>2
<1>4. FlattenSeq(s) = f[Len(s)]
  <2>1. Len(s) # 0
    OBVIOUS
  <2> QED
    BY <2>1, Zenon DEF FlattenSeq
<1> QED
  BY <1>3, <1>4

LEMMA ASequence ==
    ASSUME NEW n \in Nat, NEW f, f = [i \in 1 .. n |-> f[i]]
    PROVE  IsSeq(f) /\ Len(f) = n
<1> DEFINE S == {f[i] : i \in 1 .. n}
<1>1. \A i \in 1 .. n : f[i] \in S
  OBVIOUS
<1> HIDE DEF S
<1>2. f \in [1 .. n -> S] /\ DOMAIN f = 1 .. n
  BY <1>1
<1>3. f \in Seq(S)
  BY <1>2, SeqDef
<1>4. Len(f) \in Nat /\ 1 .. Len(f) = 1 .. n
  BY <1>2, <1>3, LenProperties
<1> QED
  BY <1>3, <1>4 DEF IsSeq

LEMMA ControlsOf ==
    ASSUME NEW questions, IsSeq(questions), NEW item
    PROVE  /\ IsSeq(Controls(questions, item))
           /\ Len(Controls(questions, item)) = Len(questions)
           /\ \A i \in 1 .. Len(questions) : Controls(questions, item)[i]
                 = [name |-> <<item, questions[i].key>>, q |-> questions[i]]
<1> DEFINE C == Controls(questions, item)
           n == Len(questions)
<1>1. n \in Nat /\ DOMAIN questions = 1 .. n
  BY LenProperties DEF IsSeq
<1>2. C = [i \in 1 .. n |-> [name |-> <<item, questions[i].key>>, q |-> questions[i]]]
  BY <1>1 DEF Controls
<1> HIDE DEF C, n
<1>3. C = [i \in 1 .. n |-> C[i]]
  BY <1>2
<1>4. IsSeq(C) /\ Len(C) = n
  BY <1>1, <1>3, ASequence
<1> QED
  BY <1>2, <1>4 DEF C, n

LEMMA Joined ==
    ASSUME NEW s, NEW t, IsSeq(s), IsSeq(t)
    PROVE  Joins(s \o t, s, t)
<1>p. PICK S, T : s \in Seq(S) /\ t \in Seq(T)
  BY DEF IsSeq
<1> DEFINE U == S \cup T
           m == Len(s)
           n == Len(t)
<1>1. s \in Seq(U) /\ t \in Seq(U)
  BY <1>p, SeqMonotonic
<1> HIDE DEF U
<1>2. /\ s \o t \in Seq(U) /\ Len(s \o t) = m + n
      /\ \A i \in 1 .. m + n : (s \o t)[i] = IF i <= m THEN s[i] ELSE t[i - m]
  BY <1>1, ConcatProperties
<1>3. m \in Nat /\ n \in Nat
  BY <1>p, LenProperties
<1> HIDE DEF m, n
<1>4. ASSUME NEW i \in 1 .. m PROVE (s \o t)[i] = s[i]
  BY <1>2, <1>3, i \in 1 .. m + n /\ i <= m
<1>5. ASSUME NEW i \in 1 .. n PROVE (s \o t)[m + i] = t[i]
  <2>1. m + i \in 1 .. m + n /\ ~(m + i <= m) /\ (m + i) - m = i
    BY <1>3
  <2> QED
    BY <1>2, <2>1
<1> QED
  BY <1>2, <1>4, <1>5 DEF m, n, Joins, IsSeq

LEMMA Tuples ==
    /\ \A a, b, c, d : IsSeq(<<a, b, c, d>>) /\ Len(<<a, b, c, d>>) = 4
    /\ \A a, b, c : IsSeq(<<a, b, c>>) /\ Len(<<a, b, c>>) = 3
    /\ \A a : IsSeq(<<a>>) /\ Len(<<a>>) = 1 /\ <<a>>[1] = a
<1>1. ASSUME NEW a, NEW b, NEW c, NEW d PROVE <<a, b, c, d>> \in Seq({a, b, c, d})
  OBVIOUS
<1>2. ASSUME NEW a, NEW b, NEW c PROVE <<a, b, c>> \in Seq({a, b, c})
  OBVIOUS
<1>3. ASSUME NEW a PROVE <<a>> \in Seq({a})
  OBVIOUS
<1>4. /\ \A a, b, c, d : Len(<<a, b, c, d>>) = 4
      /\ \A a, b, c : Len(<<a, b, c>>) = 3
      /\ \A a : Len(<<a>>) = 1 /\ <<a>>[1] = a
  OBVIOUS
<1>5. /\ \A a, b, c, d : IsSeq(<<a, b, c, d>>)
      /\ \A a, b, c : IsSeq(<<a, b, c>>)
      /\ \A a : IsSeq(<<a>>)
  BY <1>1, <1>2, <1>3, Zenon DEF IsSeq
<1> QED
  BY <1>4, <1>5, Zenon

LEMMA RatedOf ==
    ASSUME NEW R, NEW keys, NEW n \in Nat, DOMAIN keys = 1 .. n,
           \E step, scored : R = Rated(keys, step, scored)
    PROVE  /\ IsSeq(R)
           /\ Len(R) = n
           /\ \A i \in 1 .. n : R[i].type = "metric" /\ R[i].key = keys[i]
<1>1. PICK step, scored : R = Rated(keys, step, scored)
  OBVIOUS
<1>2. R = [i \in 1 .. n |->
              [key |-> keys[i], type |-> "metric", required |-> TRUE,
               min |-> 100, max |-> 500, step |-> step, scored |-> scored]]
  BY <1>1 DEF Rated
<1>3. R = [i \in 1 .. n |-> R[i]]
  BY <1>2
<1>4. IsSeq(R) /\ Len(R) = n
  BY <1>3, ASequence
<1> QED
  BY <1>2, <1>4

LEMMA VisitQuestions ==
    /\ IsSeq(VisitMetrics) /\ Len(VisitMetrics) = 3
    /\ \A i \in 1 .. 3 : VisitMetrics[i].type = "metric" /\ VisitMetrics[i].key = Observer[i]
<1> DEFINE V == VisitMetrics
           keys == Observer
           n == 3
<1>1. n \in Nat /\ DOMAIN keys = 1 .. n
  BY DEF Observer
<1>2. \E step, scored : V = Rated(keys, step, scored)
  BY Zenon DEF VisitMetrics
<1> HIDE DEF V, keys, n
<1>3. IsSeq(V) /\ Len(V) = n /\ \A i \in 1 .. n : V[i].type = "metric" /\ V[i].key = keys[i]
  BY <1>1, <1>2, RatedOf
<1> QED
  BY <1>3 DEF V, keys, n

LEMMA ItemQuestions ==
    /\ IsSeq(ItemMetrics) /\ Len(ItemMetrics) = 8
    /\ \A i \in 1 .. 6 : ItemMetrics[i].type = "metric" /\ ItemMetrics[i].key = Taste[i]
    /\ \A i \in 1 .. 2 : ItemMetrics[6 + i].type = "metric" /\ ItemMetrics[6 + i].key = Context[i]
<1> DEFINE T == Rated(Taste, 50, TRUE)
           X == Rated(Context, 50, FALSE)
           six == 6
           two == 2
<1>1. six \in Nat /\ two \in Nat /\ DOMAIN Taste = 1 .. six /\ DOMAIN Context = 1 .. two
  BY DEF Taste, Context
<1>2. /\ \E step, scored : T = Rated(Taste, step, scored)
      /\ \E step, scored : X = Rated(Context, step, scored)
  BY Zenon
<1>3. ItemMetrics = T \o X
  BY DEF ItemMetrics
<1> HIDE DEF T, X, six, two
<1>4. IsSeq(T) /\ Len(T) = six /\ \A i \in 1 .. six : T[i].type = "metric" /\ T[i].key = Taste[i]
  BY <1>1, <1>2, RatedOf
<1>5. IsSeq(X) /\ Len(X) = two /\ \A i \in 1 .. two : X[i].type = "metric" /\ X[i].key = Context[i]
  BY <1>1, <1>2, RatedOf
<1>6. Joins(ItemMetrics, T, X)
  BY <1>3, <1>4, <1>5, Joined
<1> QED
  BY <1>4, <1>5, <1>6 DEF six, two, Joins

LEMMA FieldQuestions ==
    /\ IsSeq(VisitFields) /\ Len(VisitFields) = 4
    /\ IsSeq(ItemFields) /\ Len(ItemFields) = 3
<1> DEFINE n1 == Field("business_name", "text", TRUE, 0, NameMax)
           n2 == Field("state", "state", TRUE, 0, 2)
           n3 == Field("town", "text", TRUE, 0, NameMax)
           n4 == Field("visited_on", "date", TRUE, 0, 10)
           m1 == Field("item_name", "text", TRUE, 0, NameMax)
           m2 == Field("price_cents", "money", TRUE, 0, 100000)
           m3 == Field("qty", "integer", TRUE, 1, 100)
<1>1. VisitFields = <<n1, n2, n3, n4>> /\ ItemFields = <<m1, m2, m3>>
  BY DEF VisitFields, ItemFields
<1> HIDE DEF n1, n2, n3, n4, m1, m2, m3
<1>2. /\ IsSeq(<<n1, n2, n3, n4>>) /\ Len(<<n1, n2, n3, n4>>) = 4
      /\ IsSeq(<<m1, m2, m3>>) /\ Len(<<m1, m2, m3>>) = 3
  BY Tuples
<1> QED
  BY <1>1, <1>2

\* Four, three, three, eight and one, one after the other.
Parts(W, A, B, C, D, N) == W = ((A \o B) \o (C \o D)) \o N

LEMMA PartsOfTheForm ==
    ASSUME NEW A, IsSeq(A), Len(A) = 4, NEW B, IsSeq(B), Len(B) = 3,
           NEW C, IsSeq(C), Len(C) = 3, NEW D, IsSeq(D), Len(D) = 8,
           NEW N, IsSeq(N), Len(N) = 1,
           NEW W, Parts(W, A, B, C, D, N)
    PROVE  /\ IsSeq(W)
           /\ Len(W) = 19
           /\ \A i \in 1 .. 4 : W[i] = A[i]
           /\ \A i \in 1 .. 3 : W[4 + i] = B[i]
           /\ \A i \in 1 .. 3 : W[7 + i] = C[i]
           /\ \A i \in 1 .. 8 : W[10 + i] = D[i]
           /\ W[19] = N[1]
<1> DEFINE P == A \o B
           F == C \o D
           Q == P \o F
<1>1. P = A \o B /\ F = C \o D /\ Q = P \o F /\ W = Q \o N
  BY DEF Parts
<1> HIDE DEF P, F, Q
<1>2. Joins(P, A, B)
  BY <1>1, Joined
<1>3. Joins(F, C, D)
  BY <1>1, Joined
<1>4. Joins(Q, P, F)
  <2>1. IsSeq(P) /\ IsSeq(F)
    BY <1>2, <1>3 DEF Joins
  <2> QED
    BY <1>1, <2>1, Joined
<1>5. Joins(W, Q, N)
  <2>1. IsSeq(Q)
    BY <1>4 DEF Joins
  <2> QED
    BY <1>1, <2>1, Joined
<1>6. /\ Len(P) = 7 /\ Len(F) = 11 /\ Len(Q) = 18 /\ Len(W) = 19
  <2>1. Len(P) = 7
    BY <1>2 DEF Joins
  <2>2. Len(F) = 11
    BY <1>3 DEF Joins
  <2>3. Len(Q) = 18
    <3>1. Len(Q) = Len(P) + Len(F)
      BY <1>4 DEF Joins
    <3> QED
      BY <2>1, <2>2, <3>1
  <2> QED
    BY <1>5, <2>1, <2>2, <2>3 DEF Joins
<1>7. /\ \A i \in 1 .. 4 : P[i] = A[i]
      /\ \A i \in 1 .. 3 : P[4 + i] = B[i]
  BY <1>2 DEF Joins
<1>8. /\ \A i \in 1 .. 3 : F[i] = C[i]
      /\ \A i \in 1 .. 8 : F[3 + i] = D[i]
  BY <1>3 DEF Joins
<1>9. /\ \A i \in 1 .. 7 : W[i] = P[i]
      /\ \A i \in 1 .. 11 : W[7 + i] = F[i]
      /\ W[19] = N[1]
  <2>1. \A i \in 1 .. 18 : W[i] = Q[i]
    BY <1>5, <1>6 DEF Joins
  <2>2. /\ \A i \in 1 .. 7 : Q[i] = P[i]
        /\ \A i \in 1 .. 11 : Q[7 + i] = F[i]
    BY <1>4, <1>6, <1>7, <1>8 DEF Joins
  <2>3. W[18 + 1] = N[1]
    BY <1>5, <1>6 DEF Joins
  <2> QED
    BY <2>1, <2>2, <2>3
<1>10. /\ \A i \in 1 .. 3 : W[7 + i] = C[i]
       /\ \A i \in 1 .. 8 : W[10 + i] = D[i]
  <2> SUFFICES ASSUME NEW i \in 1 .. 8 PROVE W[10 + i] = D[i]
    BY <1>8, <1>9
  <2>1. 3 + i \in 1 .. 11 /\ 7 + (3 + i) = 10 + i
    OBVIOUS
  <2>2. W[7 + (3 + i)] = F[3 + i]
    BY <1>9, <2>1
  <2> QED
    BY <1>8, <2>1, <2>2
<1>11. /\ \A i \in 1 .. 4 : W[i] = A[i]
       /\ \A i \in 1 .. 3 : W[4 + i] = B[i]
  BY <1>7, <1>9
<1> QED
  BY <1>5, <1>6, <1>9, <1>10, <1>11 DEF Joins

\* The form, question by question.
LEMMA QuestionsInOrder ==
    /\ IsSeq(Form)
    /\ Len(Form) = 19
    /\ \A i \in 1 .. 4 : Form[i] = [name |-> <<0, VisitFields[i].key>>, q |-> VisitFields[i]]
    /\ \A i \in 1 .. 3 : Form[4 + i] = [name |-> <<0, VisitMetrics[i].key>>, q |-> VisitMetrics[i]]
    /\ \A i \in 1 .. 3 : Form[7 + i] = [name |-> <<1, ItemFields[i].key>>, q |-> ItemFields[i]]
    /\ \A i \in 1 .. 8 : Form[10 + i] = [name |-> <<1, ItemMetrics[i].key>>, q |-> ItemMetrics[i]]
    /\ Form[19] = [name |-> <<0, NotesField.key>>, q |-> NotesField]
<1> DEFINE A == Controls(VisitFields, 0)
           B == Controls(VisitMetrics, 0)
           C == Controls(ItemFields, 1)
           D == Controls(ItemMetrics, 1)
           F == FlattenSeq([i \in 1 .. ItemCount |->
                               Controls(ItemFields, i) \o Controls(ItemMetrics, i)])
           N == Controls(<<NotesField>>, 0)
<1>1. /\ IsSeq(A)
      /\ Len(A) = 4
      /\ \A i \in 1 .. 4 : A[i] = [name |-> <<0, VisitFields[i].key>>, q |-> VisitFields[i]]
  BY VisitQuestions, ItemQuestions, FieldQuestions, ControlsOf
<1>2. /\ IsSeq(B)
      /\ Len(B) = 3
      /\ \A i \in 1 .. 3 : B[i] = [name |-> <<0, VisitMetrics[i].key>>, q |-> VisitMetrics[i]]
  BY VisitQuestions, ItemQuestions, FieldQuestions, ControlsOf
<1>3. /\ IsSeq(C)
      /\ Len(C) = 3
      /\ \A i \in 1 .. 3 : C[i] = [name |-> <<1, ItemFields[i].key>>, q |-> ItemFields[i]]
  BY VisitQuestions, ItemQuestions, FieldQuestions, ControlsOf
<1>4. /\ IsSeq(D)
      /\ Len(D) = 8
      /\ \A i \in 1 .. 8 : D[i] = [name |-> <<1, ItemMetrics[i].key>>, q |-> ItemMetrics[i]]
  BY VisitQuestions, ItemQuestions, FieldQuestions, ControlsOf
<1>5. /\ IsSeq(N)
      /\ Len(N) = 1
      /\ N[1] = [name |-> <<0, NotesField.key>>, q |-> NotesField]
  <2> DEFINE one == <<NotesField>>
  <2>1. /\ IsSeq(one)
        /\ Len(one) = 1 /\ one[1] = NotesField
    BY Tuples
  <2> HIDE DEF one
  <2>2. /\ IsSeq(Controls(one, 0))
        /\ Len(Controls(one, 0)) = 1
        /\ Controls(one, 0)[1] = [name |-> <<0, NotesField.key>>, q |-> NotesField]
    BY <2>1, ControlsOf
  <2> QED
    BY <2>2 DEF one
<1>6. F = C \o D
  <2> DEFINE s == [i \in 1 .. ItemCount |->
                      Controls(ItemFields, i) \o Controls(ItemMetrics, i)]
  <2>1. Len(s) = 1 /\ s[1] = C \o D
    BY DEF ItemCount
  <2> HIDE DEF s
  <2>2. FlattenSeq(s) = s[1]
    BY <2>1, FlattenOne
  <2> QED
    BY <2>1, <2>2 DEF s
<1>7. Parts(Form, A, B, C, D, N)
  BY <1>6 DEF Form, Parts
<1> HIDE DEF A, B, C, D, F, N
<1>8. /\ IsSeq(Form)
      /\ Len(Form) = 19
      /\ \A i \in 1 .. 4 : Form[i] = A[i]
      /\ \A i \in 1 .. 3 : Form[4 + i] = B[i]
      /\ \A i \in 1 .. 3 : Form[7 + i] = C[i]
      /\ \A i \in 1 .. 8 : Form[10 + i] = D[i]
      /\ Form[19] = N[1]
  BY <1>1, <1>2, <1>3, <1>4, <1>5, <1>7, PartsOfTheForm
<1> QED
  BY <1>1, <1>2, <1>3, <1>4, <1>5, <1>8

\* Each control has one name.
Told == <<  <<0, "business_name">>, <<0, "state">>, <<0, "town">>, <<0, "visited_on">>,
            <<0, "hunger">>, <<0, "emotional_state">>, <<0, "distance_from_home">>,
            <<1, "item_name">>, <<1, "price_cents">>, <<1, "qty">>,
            <<1, "filling_flavor">>, <<1, "seasoning_balance">>, <<1, "salsa_sauce">>,
            <<1, "texture">>, <<1, "tortilla">>, <<1, "harmony">>,
            <<1, "serving_temp">>, <<1, "value">>, <<0, "notes">> >>

LEMMA NamesAsked ==
    /\ \A i \in 1 .. 4 : Form[i].name = <<0, VisitFields[i].key>>
    /\ \A i \in 1 .. 3 : Form[4 + i].name = <<0, VisitMetrics[i].key>>
    /\ \A i \in 1 .. 3 : Form[7 + i].name = <<1, ItemFields[i].key>>
    /\ \A i \in 1 .. 8 : Form[10 + i].name = <<1, ItemMetrics[i].key>>
    /\ Form[19].name = <<0, NotesField.key>>
<1>1. \A i \in 1 .. 4 : Form[i].name = <<0, VisitFields[i].key>>
  BY QuestionsInOrder
<1>2. \A i \in 1 .. 3 : Form[4 + i].name = <<0, VisitMetrics[i].key>>
  BY QuestionsInOrder
<1>3. \A i \in 1 .. 3 : Form[7 + i].name = <<1, ItemFields[i].key>>
  BY QuestionsInOrder
<1>4. \A i \in 1 .. 8 : Form[10 + i].name = <<1, ItemMetrics[i].key>>
  BY QuestionsInOrder
<1>5. Form[19].name = <<0, NotesField.key>>
  BY QuestionsInOrder
<1> QED
  BY <1>1, <1>2, <1>3, <1>4, <1>5

LEMMA NamesInOrder == \A i \in 1 .. 19 : Form[i].name = Told[i]
<1>1. \A i \in 1 .. 4 : Form[i].name = <<0, VisitFields[i].key>>
  BY NamesAsked
<1>2. \A i \in 1 .. 3 : Form[4 + i].name = <<0, VisitMetrics[i].key>>
  BY NamesAsked
<1>3. \A i \in 1 .. 3 : Form[7 + i].name = <<1, ItemFields[i].key>>
  BY NamesAsked
<1>4. \A i \in 1 .. 8 : Form[10 + i].name = <<1, ItemMetrics[i].key>>
  BY NamesAsked
<1>5. Form[19].name = <<0, "notes">>
  BY NamesAsked DEF NotesField, Field
<1>6. /\ VisitFields[1].key = "business_name" /\ VisitFields[2].key = "state"
      /\ VisitFields[3].key = "town" /\ VisitFields[4].key = "visited_on"
  BY DEF VisitFields, Field
<1>7. /\ ItemFields[1].key = "item_name" /\ ItemFields[2].key = "price_cents"
      /\ ItemFields[3].key = "qty"
  BY DEF ItemFields, Field
<1>8. /\ VisitMetrics[1].key = "hunger" /\ VisitMetrics[2].key = "emotional_state"
      /\ VisitMetrics[3].key = "distance_from_home"
  BY VisitQuestions DEF Observer
<1>9. /\ ItemMetrics[1].key = "filling_flavor" /\ ItemMetrics[2].key = "seasoning_balance"
      /\ ItemMetrics[3].key = "salsa_sauce" /\ ItemMetrics[4].key = "texture"
      /\ ItemMetrics[5].key = "tortilla" /\ ItemMetrics[6].key = "harmony"
  BY ItemQuestions DEF Taste
<1>10. ItemMetrics[6 + 1].key = "serving_temp" /\ ItemMetrics[6 + 2].key = "value"
  BY ItemQuestions DEF Context
<1>11. \A i \in 1 .. 4 : Form[i].name = Told[i]
  <2>1. /\ Told[1] = <<0, "business_name">> /\ Told[2] = <<0, "state">>
        /\ Told[3] = <<0, "town">> /\ Told[4] = <<0, "visited_on">>
    BY DEF Told
  <2>2. \A i \in 1 .. 4 : Told[i] = <<0, VisitFields[i].key>>
    BY <1>6, <2>1
  <2> QED
    BY <1>1, <2>2
<1>12. \A i \in 1 .. 3 : Form[4 + i].name = Told[4 + i]
  <2>1. /\ Told[4 + 1] = <<0, "hunger">> /\ Told[4 + 2] = <<0, "emotional_state">>
        /\ Told[4 + 3] = <<0, "distance_from_home">>
    BY DEF Told
  <2>2. \A i \in 1 .. 3 : Told[4 + i] = <<0, VisitMetrics[i].key>>
    BY <1>8, <2>1
  <2> QED
    BY <1>2, <2>2
<1>13. \A i \in 1 .. 3 : Form[7 + i].name = Told[7 + i]
  <2>1. /\ Told[7 + 1] = <<1, "item_name">> /\ Told[7 + 2] = <<1, "price_cents">>
        /\ Told[7 + 3] = <<1, "qty">>
    BY DEF Told
  <2>2. \A i \in 1 .. 3 : Told[7 + i] = <<1, ItemFields[i].key>>
    BY <1>7, <2>1
  <2> QED
    BY <1>3, <2>2
<1>14. \A i \in 1 .. 8 : Form[10 + i].name = Told[10 + i]
  <2>1. \A i \in 1 .. 6 : Form[10 + i].name = Told[10 + i]
    <3>1. \A i \in 1 .. 6 : Form[10 + i].name = <<1, ItemMetrics[i].key>>
      BY <1>4
    <3>2. \A i \in 1 .. 3 : Told[10 + i] = <<1, ItemMetrics[i].key>>
      BY <1>9 DEF Told
    <3>3. \A i \in 4 .. 6 : Told[10 + i] = <<1, ItemMetrics[i].key>>
      BY <1>9 DEF Told
    <3> QED
      BY <3>1, <3>2, <3>3
  <2>2. Form[10 + 7].name = Told[10 + 7] /\ Form[10 + 8].name = Told[10 + 8]
    BY <1>4, <1>10 DEF Told
  <2> QED
    BY <2>1, <2>2
<1>15. Form[19].name = Told[19]
  BY <1>5 DEF Told
<1>16. SUFFICES ASSUME NEW i \in 1 .. 19 PROVE Form[i].name = Told[i]
  OBVIOUS
<1>17. CASE i \in 1 .. 4
  BY <1>11, <1>17
<1>18. CASE i \in 5 .. 7
  BY <1>12, <1>18, i - 4 \in 1 .. 3, 4 + (i - 4) = i
<1>19. CASE i \in 8 .. 10
  BY <1>13, <1>19, i - 7 \in 1 .. 3, 7 + (i - 7) = i
<1>20. CASE i \in 11 .. 18
  BY <1>14, <1>20, i - 10 \in 1 .. 8, 10 + (i - 10) = i
<1> QED
  BY <1>15, <1>17, <1>18, <1>19, <1>20

\* The controls stand on the page in the order the validator asks in.
NamesIn(questions, item) == [i \in DOMAIN questions |-> <<item, questions[i].key>>]

LEMMA NamesInOf ==
    ASSUME NEW questions, IsSeq(questions), NEW item
    PROVE  /\ IsSeq(NamesIn(questions, item))
           /\ Len(NamesIn(questions, item)) = Len(questions)
           /\ \A i \in 1 .. Len(questions) :
                NamesIn(questions, item)[i] = <<item, questions[i].key>>
<1> DEFINE C == NamesIn(questions, item)
           n == Len(questions)
<1>1. n \in Nat /\ DOMAIN questions = 1 .. n
  BY LenProperties DEF IsSeq
<1>2. C = [i \in 1 .. n |-> <<item, questions[i].key>>]
  BY <1>1 DEF NamesIn
<1> HIDE DEF C, n
<1>3. C = [i \in 1 .. n |-> C[i]]
  BY <1>2
<1>4. IsSeq(C) /\ Len(C) = n
  BY <1>1, <1>3, ASequence
<1> QED
  BY <1>2, <1>4 DEF C, n

LEMMA NamesOnThePage ==
    DOMAIN FieldOrder = 1 .. 19 /\ \A i \in 1 .. 19 : FieldOrder[i] = Told[i]
<1> DEFINE A == NamesIn(VisitFields, 0)
           B == NamesIn(VisitMetrics, 0)
           C == NamesIn(ItemFields, 1)
           D == NamesIn(ItemMetrics, 1)
           name == <<0, NotesField.key>>
           N == <<name>>
<1>1. /\ IsSeq(A) /\ Len(A) = 4 /\ \A i \in 1 .. 4 : A[i] = <<0, VisitFields[i].key>>
      /\ IsSeq(B) /\ Len(B) = 3 /\ \A i \in 1 .. 3 : B[i] = <<0, VisitMetrics[i].key>>
      /\ IsSeq(C) /\ Len(C) = 3 /\ \A i \in 1 .. 3 : C[i] = <<1, ItemFields[i].key>>
      /\ IsSeq(D) /\ Len(D) = 8 /\ \A i \in 1 .. 8 : D[i] = <<1, ItemMetrics[i].key>>
  <2>1. /\ IsSeq(VisitFields) /\ Len(VisitFields) = 4
        /\ IsSeq(VisitMetrics) /\ Len(VisitMetrics) = 3
        /\ IsSeq(ItemFields) /\ Len(ItemFields) = 3
        /\ IsSeq(ItemMetrics) /\ Len(ItemMetrics) = 8
    BY VisitQuestions, ItemQuestions, FieldQuestions
  <2>2. IsSeq(A) /\ Len(A) = 4 /\ \A i \in 1 .. 4 : A[i] = <<0, VisitFields[i].key>>
    BY <2>1, NamesInOf
  <2>3. IsSeq(B) /\ Len(B) = 3 /\ \A i \in 1 .. 3 : B[i] = <<0, VisitMetrics[i].key>>
    BY <2>1, NamesInOf
  <2>4. IsSeq(C) /\ Len(C) = 3 /\ \A i \in 1 .. 3 : C[i] = <<1, ItemFields[i].key>>
    BY <2>1, NamesInOf
  <2>5. IsSeq(D) /\ Len(D) = 8 /\ \A i \in 1 .. 8 : D[i] = <<1, ItemMetrics[i].key>>
    BY <2>1, NamesInOf
  <2> QED
    BY <2>2, <2>3, <2>4, <2>5
<1>2. IsSeq(N) /\ Len(N) = 1 /\ N[1] = name
  <2> HIDE DEF name
  <2> QED
    BY Tuples
<1>3. Parts(FieldOrder, A, B, C, D, N)
  <2> DEFINE s == [n \in 1 .. ItemCount |-> NamesIn(ItemFields, n) \o NamesIn(ItemMetrics, n)]
  <2>1. Len(s) = 1 /\ s[1] = C \o D
    BY DEF ItemCount
  <2>2. FieldOrder = ((A \o B) \o FlattenSeq(s)) \o N
    BY Zenon DEF FieldOrder, NamesIn
  <2> HIDE DEF s
  <2>3. FlattenSeq(s) = s[1]
    BY <2>1, FlattenOne
  <2> QED
    BY <2>1, <2>2, <2>3 DEF Parts
<1> HIDE DEF A, B, C, D, N
<1>4. /\ IsSeq(FieldOrder)
      /\ Len(FieldOrder) = 19
      /\ \A i \in 1 .. 4 : FieldOrder[i] = A[i]
      /\ \A i \in 1 .. 3 : FieldOrder[4 + i] = B[i]
      /\ \A i \in 1 .. 3 : FieldOrder[7 + i] = C[i]
      /\ \A i \in 1 .. 8 : FieldOrder[10 + i] = D[i]
      /\ FieldOrder[19] = N[1]
  BY <1>1, <1>2, <1>3, PartsOfTheForm
<1>5. DOMAIN FieldOrder = 1 .. 19
  BY <1>4, LenProperties DEF IsSeq
<1>6. /\ \A i \in 1 .. 4 : FieldOrder[i] = Form[i].name
      /\ \A i \in 1 .. 3 : FieldOrder[4 + i] = Form[4 + i].name
      /\ \A i \in 1 .. 3 : FieldOrder[7 + i] = Form[7 + i].name
      /\ \A i \in 1 .. 8 : FieldOrder[10 + i] = Form[10 + i].name
      /\ FieldOrder[19] = Form[19].name
  BY <1>1, <1>2, <1>4, NamesAsked
<1>7. SUFFICES ASSUME NEW i \in 1 .. 19 PROVE FieldOrder[i] = Form[i].name
  BY <1>5, NamesInOrder
<1>8. CASE i \in 1 .. 4
  BY <1>6, <1>8
<1>9. CASE i \in 5 .. 7
  BY <1>6, <1>9, i - 4 \in 1 .. 3, 4 + (i - 4) = i
<1>10. CASE i \in 8 .. 10
  BY <1>6, <1>10, i - 7 \in 1 .. 3, 7 + (i - 7) = i
<1>11. CASE i \in 11 .. 18
  BY <1>6, <1>11, i - 10 \in 1 .. 8, 10 + (i - 10) = i
<1> QED
  BY <1>6, <1>8, <1>9, <1>10, <1>11

LEMMA ToldApart == \A i, j \in 1 .. 19 : Told[i] = Told[j] => i = j
  BY DEF Told

-----------------------------------------------------------------------------
(* The numbers of a set in order, and the number a text of digits writes. *)

LEMMA PartOfAnInterval ==
    ASSUME NEW n \in Nat, NEW S \in SUBSET (1 .. n)
    PROVE  IsFiniteSet(S) /\ Cardinality(S) \in Nat
<1>1. IsFiniteSet(1 .. n)
  BY FS_Interval
<1>2. IsFiniteSet(S)
  BY <1>1, FS_Subset
<1> QED
  BY <1>2, FS_CardinalityType

UpTo(S, i) == {j \in S : j <= i}

LEMMA Counted ==
    ASSUME NEW n \in Nat, NEW S \in SUBSET (1 .. n), NEW i \in S
    PROVE  IsFiniteSet(UpTo(S, i)) /\ Cardinality(UpTo(S, i)) \in 1 .. Cardinality(S)
<1>1. IsFiniteSet(S)
  BY PartOfAnInterval
<1>2. UpTo(S, i) \in SUBSET S /\ i \in UpTo(S, i)
  BY DEF UpTo
<1>3. /\ IsFiniteSet(UpTo(S, i)) /\ Cardinality(UpTo(S, i)) \in Nat
      /\ Cardinality(UpTo(S, i)) <= Cardinality(S) /\ Cardinality(S) \in Nat
  BY <1>1, <1>2, FS_Subset, FS_CardinalityType
<1>4. Cardinality(UpTo(S, i)) # 0
  BY <1>2, <1>3, FS_EmptySet
<1> QED
  BY <1>3, <1>4

LEMMA CountedApart ==
    ASSUME NEW n \in Nat, NEW S \in SUBSET (1 .. n), NEW i \in S, NEW j \in S, i # j
    PROVE  Cardinality(UpTo(S, i)) # Cardinality(UpTo(S, j))
<1>1. ASSUME NEW c \in S, NEW d \in S, c < d
      PROVE  Cardinality(UpTo(S, c)) # Cardinality(UpTo(S, d))
  <2>0. c \in Nat /\ d \in Nat /\ \A x \in S : x \in Nat
    OBVIOUS
  <2>1. UpTo(S, c) \in SUBSET UpTo(S, d)
    <3> SUFFICES ASSUME NEW x \in UpTo(S, c) PROVE x \in UpTo(S, d)
      OBVIOUS
    <3>1. x \in S /\ x <= c /\ x \in Nat
      BY <2>0 DEF UpTo
    <3> QED
      BY <1>1, <2>0, <3>1 DEF UpTo
  <2>2. d \in UpTo(S, d) /\ d \notin UpTo(S, c)
    BY <1>1, <2>0 DEF UpTo
  <2> QED
    BY <2>1, <2>2, Counted, FS_Subset
<1> QED
  BY <1>1

LEMMA InOrderOf ==
    ASSUME NEW n \in Nat, NEW S \in SUBSET (1 .. n)
    PROVE  /\ Cardinality(S) \in Nat
           /\ DOMAIN InOrder(S) = 1 .. Cardinality(S)
           /\ \A k \in 1 .. Cardinality(S) : InOrder(S)[k] \in S
           /\ \A i \in S : \E k \in 1 .. Cardinality(S) : InOrder(S)[k] = i
<1> DEFINE N == 1 .. Cardinality(S)
           place == [i \in S |-> Cardinality(UpTo(S, i))]
           at(k) == CHOOSE i \in S : Cardinality(UpTo(S, i)) = k
<1>1. IsFiniteSet(S) /\ Cardinality(S) \in Nat
  BY PartOfAnInterval
<1>2. IsFiniteSet(N) /\ Cardinality(N) = Cardinality(S)
  BY <1>1, FS_Interval
<1>3. place \in Injection(S, N)
  BY Counted, CountedApart DEF Injection, IsInjective
<1> HIDE DEF N
<1>4. place \in Surjection(S, N)
  BY <1>1, <1>2, <1>3, FS_Injection
<1>5. \A k \in N : at(k) \in S /\ Cardinality(UpTo(S, at(k))) = k
  BY <1>4 DEF Surjection
<1>6. InOrder(S) = [k \in N |-> at(k)]
  BY DEF InOrder, UpTo, N
<1> HIDE DEF at
<1>7. \A i \in S : Cardinality(UpTo(S, i)) \in N /\ at(Cardinality(UpTo(S, i))) = i
  BY <1>5, Counted, CountedApart DEF N
<1> QED
  BY <1>1, <1>5, <1>6, <1>7 DEF N

Below == {ss \in Nat \X Nat : ss[1] < ss[2]}

LEMMA BelowIsWellFounded == IsWellFoundedOn(Below, Nat)
BY NatLessThanWellFounded, Zenon DEF OpToRel, Below

LEMMA Smallest ==
    ASSUME NEW T \in SUBSET Nat, T # {}
    PROVE  \E x \in T : \A y \in T : ~(y < x)
<1>1. PICK x \in T : \A y \in T : <<y, x>> \notin Below
  BY BelowIsWellFounded, WFMin, Zenon
<1>2. \A y \in T : ~(y < x)
  BY <1>1 DEF Below
<1> QED
  BY <1>2

\* A text of digits is a number (parseInt of the text, digit by digit).
LEMMA NumberOf ==
    ASSUME NEW digits, NEW n \in Nat, Len(digits) = n,
           \A i \in 1 .. n : digits[i] \in Nat
    PROVE  Number(digits) \in Nat
<1> DEFINE step(f) == [i \in 0 .. n |-> IF i = 0 THEN 0 ELSE 10 * f[i - 1] + digits[i]]
           Reaches(m, f) == /\ f \in [0 .. m -> Nat]
                            /\ f[0] = 0
                            /\ \A i \in 1 .. m : f[i] = 10 * f[i - 1] + digits[i]
           stuck == {m \in 0 .. n : ~ \E f : Reaches(m, f)}
<1>1. stuck = {}
  <2> SUFFICES ASSUME stuck # {} PROVE FALSE
    OBVIOUS
  <2> HIDE DEF Reaches
  <2>0. stuck \in SUBSET Nat
    OBVIOUS
  <2>1. PICK m \in stuck : \A k \in stuck : ~(k < m)
    <3> HIDE DEF stuck
    <3> QED
      BY <2>0, Smallest
  <2>2. m \in 0 .. n /\ ~ \E f : Reaches(m, f)
    BY <2>1
  <2>3. CASE m = 0
    <3> DEFINE g == [i \in 0 .. m |-> 0]
    <3>1. Reaches(m, g)
      BY <2>3 DEF Reaches
    <3> QED
      BY <2>2, <3>1
  <2>4. CASE m # 0
    <3>1. m - 1 \in 0 .. n /\ m - 1 < m /\ m \in 1 .. n
      BY <2>2, <2>4
    <3>2. PICK f : Reaches(m - 1, f)
      BY <2>1, <3>1
    <3> DEFINE g == [i \in 0 .. m |-> IF i = m THEN 10 * f[m - 1] + digits[m] ELSE f[i]]
    <3>3. /\ f \in [0 .. m - 1 -> Nat] /\ f[0] = 0
          /\ \A i \in 1 .. m - 1 : f[i] = 10 * f[i - 1] + digits[i]
      BY <3>2 DEF Reaches
    <3>4. g \in [0 .. m -> Nat] /\ g[0] = 0
      <4>1. 10 * f[m - 1] + digits[m] \in Nat
        BY <3>1, <3>3
      <4>2. \A i \in 0 .. m : i = m \/ i \in 0 .. m - 1
        BY <2>2
      <4>3. \A i \in 0 .. m : g[i] \in Nat
        BY <3>3, <4>1, <4>2
      <4>4. g[0] = 0
        BY <2>2, <2>4, <3>3
      <4> QED
        BY <4>3, <4>4
    <3>5. ASSUME NEW i \in 1 .. m PROVE g[i] = 10 * g[i - 1] + digits[i]
      <4>1. CASE i = m
        BY <3>1, <3>3, <4>1
      <4>2. CASE i # m
        <5>1. i \in 1 .. m - 1 /\ i - 1 \in 0 .. m /\ i \in 0 .. m /\ i - 1 # m
          BY <3>1, <4>2
        <5>2. g[i] = f[i] /\ g[i - 1] = f[i - 1]
          BY <4>2, <5>1
        <5> QED
          BY <3>3, <5>1, <5>2
      <4> QED
        BY <4>1, <4>2
    <3>6. Reaches(m, g)
      BY <3>4, <3>5 DEF Reaches
    <3> QED
      BY <2>2, <3>6
  <2> QED
    BY <2>3, <2>4
<1>2. PICK f : Reaches(n, f)
  <2> HIDE DEF Reaches
  <2>1. n \in 0 .. n
    OBVIOUS
  <2> QED
    BY <1>1, <2>1
<1>3. f \in [0 .. n -> Nat] /\ step(f) = f
  BY <1>2
<1> DEFINE value == CHOOSE g : g = step(g)
<1>4. value = step(value)
  BY <1>3
<1>5. Number(digits) = value[n]
  BY DEF Number
<1> HIDE DEF value
<1>6. value = [i \in 0 .. n |-> IF i = 0 THEN 0 ELSE 10 * value[i - 1] + digits[i]]
  BY <1>4
<1> DEFINE astray == {m \in 0 .. n : value[m] \notin Nat}
<1>7. astray = {}
  <2> SUFFICES ASSUME astray # {} PROVE FALSE
    OBVIOUS
  <2>0. astray \in SUBSET Nat
    OBVIOUS
  <2>1. PICK m \in astray : \A k \in astray : ~(k < m)
    <3> HIDE DEF astray
    <3> QED
      BY <2>0, Smallest
  <2>2. CASE m = 0
    BY <1>6, <2>1, <2>2
  <2>3. CASE m # 0
    <3>1. m - 1 \in 0 .. n /\ m \in 1 .. n /\ value[m - 1] \in Nat
      BY <2>1, <2>3
    <3>2. value[m] = 10 * value[m - 1] + digits[m]
      BY <1>6, <3>1
    <3> QED
      BY <2>1, <3>1, <3>2
  <2> QED
    BY <2>2, <2>3
<1> QED
  BY <1>5, <1>7

-----------------------------------------------------------------------------
(* Questions and names. *)

Types == {"text", "textarea", "state", "date", "money", "integer", "metric"}

LEMMA QuestionTypes ==
    \A i \in 1 .. 19 : Form[i].q.type \in Types /\ (Form[i].q.type = "date" <=> i = 4)
<1>1. \A i \in 1 .. 4 : Form[i].q = VisitFields[i]
  BY QuestionsInOrder
<1>2. \A i \in 1 .. 3 : Form[4 + i].q = VisitMetrics[i]
  BY QuestionsInOrder
<1>3. \A i \in 1 .. 3 : Form[7 + i].q = ItemFields[i]
  BY QuestionsInOrder
<1>4. \A i \in 1 .. 8 : Form[10 + i].q = ItemMetrics[i]
  BY QuestionsInOrder
<1>5. Form[19].q.type = "textarea"
  BY QuestionsInOrder DEF NotesField, Field
<1>6. /\ VisitFields[1].type = "text" /\ VisitFields[2].type = "state"
      /\ VisitFields[3].type = "text" /\ VisitFields[4].type = "date"
  BY DEF VisitFields, Field
<1>7. /\ ItemFields[1].type = "text" /\ ItemFields[2].type = "money"
      /\ ItemFields[3].type = "integer"
  BY DEF ItemFields, Field
<1>8. \A i \in 1 .. 3 : VisitMetrics[i].type = "metric"
  BY VisitQuestions
<1>9. \A i \in 1 .. 8 : ItemMetrics[i].type = "metric"
  <2>1. ItemMetrics[6 + 1].type = "metric" /\ ItemMetrics[6 + 2].type = "metric"
    BY ItemQuestions
  <2> QED
    BY <2>1, ItemQuestions
<1>10. SUFFICES ASSUME NEW i \in 1 .. 19
                PROVE  Form[i].q.type \in Types /\ (Form[i].q.type = "date" <=> i = 4)
  OBVIOUS
<1>11. CASE i \in 1 .. 4
  BY <1>1, <1>6, <1>11 DEF Types
<1>12. CASE i \in 5 .. 7
  BY <1>2, <1>8, <1>12, i - 4 \in 1 .. 3, 4 + (i - 4) = i DEF Types
<1>13. CASE i \in 8 .. 10
  BY <1>3, <1>7, <1>13, i - 7 \in 1 .. 3, 7 + (i - 7) = i DEF Types
<1>14. CASE i \in 11 .. 18
  BY <1>4, <1>9, <1>14, i - 10 \in 1 .. 8, 10 + (i - 10) = i DEF Types
<1> QED
  BY <1>5, <1>11, <1>12, <1>13, <1>14 DEF Types

LEMMA NamesOf ==
    /\ DOMAIN Form = 1 .. 19
    /\ Names = {Told[i] : i \in 1 .. 19}
    /\ \A i \in 1 .. 19 : /\ Form[i].name = Told[i] /\ Told[i] \in Names
                         /\ QuestionOf(Told[i]) = Form[i].q
                         /\ (CHOOSE j \in DOMAIN Form : Form[j].name = Told[i]) = i
    /\ Photo \notin Names
    /\ VisitedOn \in Names
    /\ \A name \in Names : /\ QuestionOf(name).type \in Types
                          /\ QuestionOf(name).type = "date" <=> name = VisitedOn
<1>1. DOMAIN Form = 1 .. 19
  BY QuestionsInOrder, LenProperties DEF IsSeq
<1>2. Names = {Told[i] : i \in 1 .. 19}
  BY <1>1, NamesInOrder DEF Names
<1>3. ASSUME NEW i \in 1 .. 19
      PROVE  /\ (CHOOSE j \in DOMAIN Form : Form[j].name = Told[i]) = i
             /\ QuestionOf(Told[i]) = Form[i].q
  <2>1. \A j \in 1 .. 19 : Form[j].name = Told[i] <=> j = i
    BY NamesInOrder, ToldApart
  <2>2. (CHOOSE j \in DOMAIN Form : Form[j].name = Told[i]) = i
    BY <1>1, <2>1
  <2> QED
    BY <2>2 DEF QuestionOf
<1>4. \A i \in 1 .. 19 : Told[i] # Photo
  BY DEF Told, Photo
<1>5. VisitedOn = Told[4]
  BY DEF Told, VisitedOn
<1>6. \A i \in 1 .. 19 : /\ QuestionOf(Told[i]).type \in Types
                         /\ QuestionOf(Told[i]).type = "date" <=> Told[i] = VisitedOn
  BY <1>3, <1>5, QuestionTypes, ToldApart
<1> QED
  BY <1>1, <1>2, <1>3, <1>4, <1>5, <1>6, NamesInOrder

-----------------------------------------------------------------------------
(* A text that answers a question answers it on every later day. *)

LEMMA LaterDaysToo ==
    ASSUME NEW q, q.type \in Types, NEW raw,
           NEW today \in Nat, NEW later \in Nat, today <= later,
           ValidateByFieldType(q, raw, today).ok
    PROVE  ValidateByFieldType(q, raw, later).ok
<1>1. CASE q.type = "date"
  <2> DEFINE text == NormalizeText(raw)
             year == SubSeq(text, 1, 4)
             month == SubSeq(text, 6, 7)
             day == SubSeq(text, 9, 10)
             date == 10000 * Number(year) + 100 * Number(month) + Number(day)
             garbled == \/ Len(text) # 10
                        \/ \E i \in 1 .. 10 : IF i \in {5, 8} THEN text[i] # Minus
                                                              ELSE text[i] \notin Digits
             real == RealDate(Number(year), Number(month), Number(day))
  <2>1. ValidateDate(q, raw, today).ok
    BY <1>1 DEF ValidateByFieldType
  <2>2. \A on : ValidateDate(q, raw, on) =
           IF text = << >> THEN Absent(q, 0)
           ELSE IF garbled THEN Fault
           ELSE IF ~real \/ date > on \/ date < EarliestVisitDate THEN Fault
           ELSE Read(date)
    BY DEF ValidateDate
  <2>3. ASSUME ~garbled PROVE date \in Nat
    <3>1. \A i \in {1, 2, 3, 4, 6, 7, 9, 10} : text[i] \in Nat
      BY <2>3 DEF Digits
    <3>2. /\ Len(year) = 4 /\ \A i \in 1 .. 4 : year[i] \in Nat
          /\ Len(month) = 2 /\ \A i \in 1 .. 2 : month[i] \in Nat
          /\ Len(day) = 2 /\ \A i \in 1 .. 2 : day[i] \in Nat
      <4> HIDE DEF text
      <4> QED
        BY <3>1
    <3> HIDE DEF year, month, day
    <3>3. Number(year) \in Nat /\ Number(month) \in Nat /\ Number(day) \in Nat
      BY <3>2, NumberOf
    <3> QED
      BY <3>3
  <2> HIDE DEF text, date, garbled, real
  <2>4. ValidateDate(q, raw, later).ok
    BY <2>1, <2>2, <2>3 DEF Fault, Read, EarliestVisitDate
  <2> QED
    BY <1>1, <2>4 DEF ValidateByFieldType
<1>2. CASE q.type # "date"
  BY <1>2 DEF ValidateByFieldType, Types
<1> QED
  BY <1>1, <1>2

-----------------------------------------------------------------------------
(* The steps of the page. *)

PageForm == DOMAIN page = {"phase", "user", "errors", "badPhoto", "mended", "on", "shown", "sent"}

LEMMA FillInPage ==
    ASSUME PageForm, NEW filling, FillIn(filling)
    PROVE  /\ PageForm'
           /\ page'.phase = "filled" /\ page'.mended = page.mended
           /\ page'.badPhoto = filling.badPhoto
           /\ \A name \in Names : page'.shown[name] =
                IF filling.entry[name].typed = KeepPreset.typed THEN page.shown[name] ELSE filling.entry[name]
  BY DEF PageForm, FillIn

LEMMA SendBackPage ==
    ASSUME PageForm, SendBack
    PROVE  /\ PageForm' /\ Judged.errors # << >>
           /\ page.phase = "filled" /\ page'.phase = "refused" /\ page'.mended = page.mended
           /\ page'.badPhoto = page.badPhoto /\ page'.errors = Judged.errors /\ page'.on = time
           /\ page'.sent = page.shown
           /\ \A name \in Names : page'.shown[name] = Echo(name, page.shown[name])
  BY DEF PageForm, SendBack

LEMMA SavePage ==
    ASSUME PageForm, Save
    PROVE  /\ PageForm' /\ Judged.errors = << >>
           /\ page.phase = "filled" /\ page'.phase = "saved" /\ page'.on = time
           /\ page'.sent = page.shown /\ page'.badPhoto = page.badPhoto
  BY DEF PageForm, Save

LEMMA CorrectPage ==
    ASSUME PageForm, NEW fixed, Correct(fixed)
    PROVE  /\ PageForm'
           /\ page.phase = "refused" /\ page'.phase = "filled"
           /\ page'.mended = (fixed = Range(page.errors))
           /\ page'.badPhoto = (page.badPhoto /\ Photo \notin fixed)
           /\ \A name \in Names : page'.shown[name] =
                IF name \notin fixed THEN page.shown[name]
                ELSE IF name = VisitedOn THEN DateEntry(TodayIsoDate)
                ELSE Usual[name]
  BY DEF PageForm, Correct

LEMMA OpenFormPage ==
    ASSUME NEW user, OpenForm(user)
    PROVE  /\ PageForm'
           /\ page'.phase = "blank" /\ page'.mended = FALSE /\ page'.badPhoto = FALSE
           /\ \A name \in Names : page'.shown[name] = IF name = VisitedOn THEN DateEntry(TodayIsoDate)
                                   ELSE Blank
  BY DEF PageForm, OpenForm, NewPage

-----------------------------------------------------------------------------
(* What a submission is judged by, and what the page shows of it afterwards. *)

\* What is in a control would be accepted today.
Accepted(name) == Reading(name, page.shown[name].typed, time).ok

\* The names at a set of places of the page, from the top of it down.
Wrong(S) == [k \in DOMAIN InOrder(S) |-> FieldOrder[InOrder(S)[k]]]

Unaccepted == {i \in 1 .. 19 : ~Accepted(Told[i])}

LEMMA JudgedErrors ==
    /\ Judged.errors = Wrong(Unaccepted) \o (IF page.badPhoto THEN <<Photo>> ELSE << >>)
    /\ \A name \in Names :
         Judged.value[name] = Reading(name, page.shown[name].typed, time).value
    /\ \A name \in Names : name \in Range(Judged.errors) <=> ~Accepted(name)
    /\ page.badPhoto => Photo \in Range(Judged.errors)
    /\ Judged.errors = << >> <=> ~page.badPhoto /\ \A name \in Names : Accepted(name)
<1> DEFINE values == [name \in Names |-> Posted(name, page.shown[name].typed)]
           result == ValidateSurveySubmission(values, TodayIsoDate)
           reading == [i \in DOMAIN Form |->
                         ValidateByFieldType(Form[i].q, values[Form[i].name], TodayIsoDate)]
           bad == Unaccepted
           errors == result.errors
<1>1. \A i \in 1 .. 19 : reading[i].ok <=> Accepted(Told[i])
  BY NamesOf DEF Accepted, Reading, TodayIsoDate
<1>2. errors = [k \in DOMAIN InOrder(bad) |-> Form[InOrder(bad)[k]].name]
  <2>1. {i \in DOMAIN Form : ~reading[i].ok} = bad
    BY <1>1, NamesOf DEF Unaccepted
  <2> HIDE DEF bad
  <2> QED
    BY <2>1 DEF ValidateSurveySubmission
<1> DEFINE n == 19
<1>3. bad \in SUBSET (1 .. n) /\ n \in Nat
  BY DEF Unaccepted
<1> HIDE DEF bad, n, errors
<1>4. /\ Cardinality(bad) \in Nat
      /\ DOMAIN InOrder(bad) = 1 .. Cardinality(bad)
      /\ \A k \in 1 .. Cardinality(bad) : InOrder(bad)[k] \in bad
      /\ \A i \in bad : \E k \in 1 .. Cardinality(bad) : InOrder(bad)[k] = i
  BY <1>3, InOrderOf
<1>5. errors = [k \in 1 .. Cardinality(bad) |-> Told[InOrder(bad)[k]]]
  BY <1>2, <1>3, <1>4, NamesOf DEF n
<1>6. Range(errors) = {Told[i] : i \in bad}
  BY <1>4, <1>5 DEF Range
<1>7. \A name \in Names : name \in Range(errors) <=> ~Accepted(name)
  BY <1>6, NamesOf, ToldApart DEF bad, Unaccepted
<1>8. errors \in Seq(Names) /\ (errors = << >> <=> bad = {})
  <2>1. errors \in [1 .. Cardinality(bad) -> Names]
    BY <1>3, <1>4, <1>5, NamesOf DEF n
  <2>2. errors \in Seq(Names) /\ Len(errors) = Cardinality(bad)
    BY <1>4, <2>1
  <2>3. bad = {} => Cardinality(bad) = 0
    BY FS_EmptySet
  <2>4. bad # {} => Cardinality(bad) # 0
    BY <1>4
  <2> QED
    BY <2>2, <2>3, <2>4, EmptySeq
<1>9. Judged.errors = IF page.badPhoto THEN Add(errors, Photo) ELSE errors
  BY DEF Judged, errors, ValidateSurveySubmission
<1>10. /\ Range(Add(errors, Photo)) = Range(errors) \cup {Photo}
       /\ Add(errors, Photo) # << >>
  <2>1. CASE Photo \in Range(errors)
    BY <1>6, <1>3, NamesOf, <2>1 DEF n
  <2>2. CASE Photo \notin Range(errors)
    <3>1. Add(errors, Photo) = Append(errors, Photo)
      BY <2>2 DEF Add
    <3>2. errors \in Seq(Names \cup {Photo})
      BY <1>8, SeqMonotonic
    <3>3. /\ Len(errors) \in Nat /\ DOMAIN errors = 1 .. Len(errors)
          /\ Append(errors, Photo) \in Seq(Names \cup {Photo})
          /\ DOMAIN Append(errors, Photo) = 1 .. Len(errors) + 1
          /\ \A k \in 1 .. Len(errors) : Append(errors, Photo)[k] = errors[k]
          /\ Append(errors, Photo)[Len(errors) + 1] = Photo
      BY <3>2, AppendProperties, LenProperties
    <3> QED
      BY <3>1, <3>3, EmptySeq DEF Range
  <2> QED
    BY <2>1, <2>2
<1>11. errors = Wrong(bad)
  BY <1>4, <1>3, <1>5, NamesOnThePage DEF Wrong, n
<1>12. Judged.errors = errors \o (IF page.badPhoto THEN <<Photo>> ELSE << >>)
  <2>1. errors \in Seq(Names \cup {Photo}) /\ Photo \notin Range(errors)
    BY <1>3, <1>6, <1>8, NamesOf, SeqMonotonic DEF n
  <2>2. CASE page.badPhoto
    BY <1>9, <2>1, <2>2, AppendIsConcat DEF Add
  <2>3. CASE ~page.badPhoto
    BY <1>9, <2>1, <2>3, ConcatEmptySeq
  <2> QED
    BY <2>2, <2>3
<1>13. ASSUME NEW name \in Names
       PROVE  Judged.value[name] = Reading(name, page.shown[name].typed, time).value
  <2>1. PICK i \in 1 .. 19 : name = Told[i]
    BY NamesOf
  <2>2. Judged.value = result.value
    BY DEF Judged, ValidateSurveySubmission
  <2>3. result.value[name] = reading[CHOOSE j \in DOMAIN Form : Form[j].name = name].value
    BY DEF ValidateSurveySubmission
  <2>4. (CHOOSE j \in DOMAIN Form : Form[j].name = name) = i
    BY <2>1, NamesOf
  <2>5. reading[i] = Reading(name, page.shown[name].typed, time)
    BY <2>1, NamesOf DEF Reading, TodayIsoDate
  <2> QED
    BY <2>2, <2>3, <2>4, <2>5
<1>14. errors = << >> <=> \A name \in Names : Accepted(name)
  BY <1>8, NamesOf DEF bad, Unaccepted
<1>15. Judged.errors = Wrong(Unaccepted) \o (IF page.badPhoto THEN <<Photo>> ELSE << >>)
  BY <1>11, <1>12 DEF bad
<1>16. \A name \in Names : name \in Range(Judged.errors) <=> ~Accepted(name)
  BY <1>7, <1>9, <1>10, NamesOf
<1>17. page.badPhoto => Photo \in Range(Judged.errors)
  BY <1>9, <1>10
<1>18. Judged.errors = << >> <=> ~page.badPhoto /\ \A name \in Names : Accepted(name)
  BY <1>9, <1>10, <1>14
<1> QED
  BY <1>13, <1>15, <1>16, <1>17, <1>18, Zenon

LEMMA EchoKeeps ==
    ASSUME NEW name \in Names, NEW entry, time \in DOMAIN Calendar,
           QuestionOf(name).type = "state" => entry.typed \in States \cup {<< >>}
    PROVE  /\ Reading(name, entry.typed, time).ok
                => Reading(name, Echo(name, entry).typed, time).ok
           /\ QuestionOf(name).type = "state"
                => Echo(name, entry).typed \in States \cup {<< >>}
<1> DEFINE q == QuestionOf(name)
<1>1. CASE q.type = "date" /\ entry.typed = << >>
  BY <1>1, NamesOf, FormAssumption DEF Echo, DateEntry, TodayIsoDate
<1>2. CASE q.type = "state" /\ entry.typed \notin States
  BY <1>2 DEF Echo, Blank
<1>3. CASE q.type = "metric" /\ ~ValidateMetric(q, entry.typed).ok
  BY <1>3 DEF Echo, Reading, Posted, ValidateByFieldType
<1>4. CASE /\ ~(q.type = "date" /\ entry.typed = << >>)
           /\ ~(q.type = "state" /\ entry.typed \notin States)
           /\ ~(q.type = "metric" /\ ~ValidateMetric(q, entry.typed).ok)
  BY <1>4 DEF Echo
<1> QED
  BY <1>1, <1>2, <1>3, <1>4

-----------------------------------------------------------------------------
(* Nobody corrects a form twice. *)

Choosable(name) ==
    QuestionOf(name).type = "state" => page.shown[name].typed \in States \cup {<< >>}

FormInv ==
    /\ plan \in DOMAIN Plans /\ time \in 1 .. Plans[plan].until
    /\ PageForm
    /\ \A name \in Names : Choosable(name)
    /\ page.phase = "blank" => ~page.mended
    /\ page.phase = "filled" /\ page.mended =>
         ~page.badPhoto /\ \A name \in Names : Accepted(name)
    /\ page.phase = "refused" =>
         /\ ~page.mended
         /\ page.badPhoto => Photo \in Range(page.errors)
         /\ \A name \in Names : name \in Range(page.errors) \/ Accepted(name)

LEMMA TypeOfName ==
    ASSUME NEW name \in Names
    PROVE  /\ QuestionOf(name).type \in Types
           /\ QuestionOf(name).type = "date" <=> name = VisitedOn
<1>1. PICK i \in 1 .. 19 : name = Told[i]
  BY NamesOf
<1>2. QuestionOf(name) = Form[i].q
  BY <1>1, NamesOf
<1>3. VisitedOn = Told[4]
  BY DEF Told, VisitedOn
<1> QED
  BY <1>1, <1>2, <1>3, QuestionTypes, ToldApart

LEMMA Today ==
    ASSUME FormInv
    PROVE  /\ time \in DOMAIN Calendar /\ time \in Nat
           /\ Plans[plan].until \in DOMAIN Calendar /\ Plans[plan].until \in Nat
           /\ \A t \in DOMAIN Calendar : Calendar[t] \in Nat
           /\ \A t \in 1 .. Plans[plan].until : t \in DOMAIN Calendar
<1>1. /\ Calendar \in Seq(Nat) /\ Plans[plan].until \in DOMAIN Calendar
      /\ time \in 1 .. Plans[plan].until
  BY FormAssumption DEF FormInv
<1>2. DOMAIN Calendar = 1 .. Len(Calendar) /\ Len(Calendar) \in Nat
  BY <1>1, LenProperties
<1>3. \A t \in DOMAIN Calendar : Calendar[t] \in Nat
  BY <1>1, ElementOfSeq, <1>2
<1> QED
  BY <1>1, <1>2, <1>3

LEMMA FormStart ==
    ASSUME Init
    PROVE  FormInv
<1>1. plan \in DOMAIN Plans /\ time = 1 /\ Plans[plan].until \in DOMAIN Calendar
  BY FormAssumption DEF Init
<1>2. Plans[plan].until \in Nat /\ Plans[plan].until >= 1
  BY <1>1, FormAssumption, LenProperties
<1>3. PageForm /\ page.phase = "shut"
  BY DEF Init, NewPage, PageForm
<1>4. \A name \in Names : page.shown[name] = IF name = VisitedOn THEN DateEntry(TodayIsoDate) ELSE Blank
  BY DEF Init, NewPage
<1>5. \A name \in Names : Choosable(name)
  BY <1>4, NamesOf DEF Choosable, Blank
<1> QED
  BY <1>1, <1>2, <1>3, <1>5 DEF FormInv

LEMMA FormKept ==
    ASSUME FormInv, [Next]_vars
    PROVE  FormInv'
<1> USE DEF FormInv
<1>1. CASE UNCHANGED <<plan, time, page>>
  BY <1>1 DEF PageForm, Choosable, Accepted
<1>2. ASSUME NEW user, OpenForm(user)
      PROVE  FormInv'
  <2>1. UNCHANGED <<plan, time>>
    BY <1>2 DEF OpenForm
  <2>2. ASSUME NEW name \in Names
        PROVE  Choosable(name)'
    <3>1. name = VisitedOn => QuestionOf(name).type = "date"
      BY TypeOfName
    <3>2. page'.shown[name] = IF name = VisitedOn THEN DateEntry(TodayIsoDate) ELSE Blank
      BY <1>2, OpenFormPage, Zenon
    <3>3. Blank.typed = << >>
      BY DEF Blank
    <3> QED
      BY <3>1, <3>2, <3>3 DEF Choosable
  <2> QED
    BY <1>2, <2>1, <2>2, OpenFormPage
<1>3. ASSUME NEW filling \in Plans[plan].fillings, FillIn(filling)
      PROVE  FormInv'
  <2>1. UNCHANGED <<plan, time>> /\ page.phase = "blank"
    BY <1>3 DEF FillIn
  <2>2. \A name \in Names : Choosable(name)'
    BY <1>3, FillInPage, FormAssumption DEF Choosable
  <2> QED
    BY <1>3, <2>1, <2>2, FillInPage
<1>4. CASE SendBack
  <2>1. UNCHANGED <<plan, time>>
    BY <1>4 DEF SendBack
  <2>2. ~page.mended
    BY <1>4, SendBackPage, JudgedErrors
  <2>3. ASSUME NEW name \in Names
        PROVE  Choosable(name)' /\ (Accepted(name) => Accepted(name)')
    <3>1. /\ Accepted(name) => Reading(name, Echo(name, page.shown[name]).typed, time).ok
          /\ QuestionOf(name).type = "state"
               => Echo(name, page.shown[name]).typed \in States \cup {<< >>}
      BY EchoKeeps, Today DEF Accepted, Choosable
    <3> QED
      BY <1>4, <2>1, <3>1, SendBackPage DEF Accepted, Choosable
  <2>4. /\ \A name \in Names : name \in Range(page'.errors) \/ Accepted(name)'
        /\ page'.badPhoto => Photo \in Range(page'.errors)
    BY <1>4, <2>3, SendBackPage, JudgedErrors
  <2> QED
    BY <1>4, <2>1, <2>2, <2>3, <2>4, SendBackPage
<1>5. CASE Save
  <2>1. UNCHANGED <<plan, time>> /\ page'.shown = page.shown
    BY <1>5 DEF Save, PageForm
  <2>2. ASSUME NEW name \in Names PROVE Choosable(name)'
    <3>1. Choosable(name)
      BY DEF FormInv
    <3> QED
      BY <2>1, <3>1 DEF Choosable
  <2> QED
    BY <1>5, <2>1, <2>2, SavePage
<1>6. ASSUME NEW fixed \in SUBSET Range(page.errors), Correct(fixed)
      PROVE  FormInv'
  <2>1. UNCHANGED <<plan, time>>
    BY <1>6 DEF Correct
  <2>2. \A name \in Names : Choosable(name)'
    BY <1>6, CorrectPage, NamesOf, FormAssumption DEF Choosable
  <2>3. ASSUME page'.mended, NEW name \in Names
        PROVE  Accepted(name)'
    <3>1. CASE name \notin fixed
      BY <1>6, <2>1, <2>3, <3>1, CorrectPage DEF Accepted
    <3>2. CASE name \in fixed
      BY <1>6, <2>1, <3>2, CorrectPage, FormAssumption, Today
         DEF Accepted, DateEntry, TodayIsoDate
    <3> QED
      BY <3>1, <3>2
  <2>4. page'.mended => ~page'.badPhoto
    BY <1>6, CorrectPage
  <2> QED
    BY <1>6, <2>1, <2>2, <2>3, <2>4, CorrectPage
<1>7. CASE Tick
  <2>1. UNCHANGED <<plan, page>> /\ time' = time + 1 /\ time < Plans[plan].until
    BY <1>7 DEF Tick
  <2>2. time' \in 1 .. Plans[plan].until
    BY <2>1, Today
  <2>3. /\ Calendar[time] \in Nat /\ Calendar[time'] \in Nat
        /\ Calendar[time] <= Calendar[time']
    BY <2>1, <2>2, Today, FormAssumption
  <2>4. ASSUME NEW name \in Names, Accepted(name)
        PROVE  Accepted(name)'
    <3>1. QuestionOf(name).type \in Types
      BY TypeOfName
    <3> QED
      BY <2>1, <2>3, <2>4, <3>1, LaterDaysToo DEF Accepted, Reading
  <2>5. \A name \in Names : Choosable(name)'
    BY <2>1 DEF Choosable
  <2> QED
    BY <2>1, <2>2, <2>4, <2>5 DEF PageForm
<1>8. ASSUME NEW scope, OpenList(scope) \/ FollowNext \/ LeaveList
      PROVE  UNCHANGED <<plan, time, page>>
  BY <1>8 DEF OpenList, FollowNext, LeaveList
<1>9. CASE Rest \/ UNCHANGED vars
  BY <1>1, <1>9 DEF Rest, vars
<1> HIDE DEF FormInv
<1> QED
  BY <1>1, <1>2, <1>3, <1>4, <1>5, <1>6, <1>7, <1>8, <1>9 DEF Next

\* A collector who puts right everything the page named is not sent back again
\* (surveyFormPage shows every other answer as it was sent, and what the
\* validators accepted yesterday they accept today), for any form fillings, any
\* corrections and however many days go by between the rounds.
THEOREM NobodyCorrectsTwice == Spec => []OneRoundOfCorrections
<1>1. FormInv => OneRoundOfCorrections
  BY DEF FormInv, OneRoundOfCorrections
<1> QED
  BY <1>1, FormStart, FormKept, PTL DEF Spec

-----------------------------------------------------------------------------
(* A page is judged entry by entry. *)

SentWrong == {i \in DOMAIN FieldOrder : ~Sound(FieldOrder[i], page.sent[FieldOrder[i]], page.on)}

JudgedRight ==
    /\ page.phase = "refused" =>
         page.errors = Wrong(SentWrong) \o (IF page.badPhoto THEN <<Photo>> ELSE << >>)
    /\ page.phase = "saved" => Wrong(SentWrong) = << >> /\ ~page.badPhoto

\* Whatever stands in a control that is about to be sent is read as it is meant.
ShownAsMeant ==
    /\ page.phase = "blank" => ReadAsMeant(VisitedOn, page.shown[VisitedOn])
    /\ page.phase \in {"filled", "refused"} =>
         \A name \in Names : ReadAsMeant(name, page.shown[name])

LEMMA PresetIsRead ==
    ASSUME EntriesAreRead, FormInv
    PROVE  ReadAsMeant(VisitedOn, DateEntry(TodayIsoDate))
<1>1. TodayIsoDate \in Range(Calendar)
  BY Today DEF TodayIsoDate, Range
<1> QED
  BY <1>1 DEF EntriesAreRead

LEMMA EchoIsRead ==
    ASSUME EntriesAreRead, FormInv, NEW name \in Names, NEW entry, ReadAsMeant(name, entry)
    PROVE  ReadAsMeant(name, Echo(name, entry))
<1> DEFINE q == QuestionOf(name)
<1>1. CASE q.type = "date" /\ entry.typed = << >>
  <2>1. Echo(name, entry) = DateEntry(TodayIsoDate)
    BY <1>1 DEF Echo
  <2>2. name = VisitedOn
    BY <1>1, TypeOfName
  <2> QED
    BY <2>1, <2>2, PresetIsRead
<1>2. CASE /\ ~(q.type = "date" /\ entry.typed = << >>)
           /\ \/ q.type = "state" /\ entry.typed \notin States
              \/ q.type = "metric" /\ ~ValidateMetric(q, entry.typed).ok
  <2>1. Echo(name, entry) = Blank
    BY <1>2 DEF Echo
  <2> QED
    BY <1>2, <2>1 DEF EntriesAreRead
<1>3. CASE /\ ~(q.type = "date" /\ entry.typed = << >>)
           /\ ~(q.type = "state" /\ entry.typed \notin States)
           /\ ~(q.type = "metric" /\ ~ValidateMetric(q, entry.typed).ok)
  BY <1>3 DEF Echo
<1> QED
  BY <1>1, <1>2, <1>3

LEMMA WrongIsUnaccepted ==
    ASSUME FormInv, \A name \in Names : ReadAsMeant(name, page.shown[name])
    PROVE  {i \in DOMAIN FieldOrder : ~Sound(FieldOrder[i], page.shown[FieldOrder[i]], time)}
             = Unaccepted
<1>1. ASSUME NEW name \in Names
      PROVE  Accepted(name) <=> Sound(name, page.shown[name], time)
  BY Today DEF ReadAsMeant, Accepted
<1>2. /\ DOMAIN FieldOrder = 1 .. 19
      /\ \A i \in 1 .. 19 : FieldOrder[i] = Told[i] /\ Told[i] \in Names
  BY NamesOnThePage, NamesOf
<1>3. \A i \in 1 .. 19 :
        ~Sound(FieldOrder[i], page.shown[FieldOrder[i]], time) <=> ~Accepted(Told[i])
  BY <1>1, <1>2
<1> QED
  BY <1>2, <1>3 DEF Unaccepted

LEMMA NothingWrong == Wrong({}) = << >>
<1>1. Cardinality({}) = 0
  BY FS_EmptySet
<1>2. DOMAIN InOrder({}) = 1 .. 0
  BY <1>1 DEF InOrder
<1> QED
  BY <1>2 DEF Wrong

LEMMA ShownKept ==
    ASSUME EntriesAreRead, FormInv, ShownAsMeant, [Next]_vars
    PROVE  ShownAsMeant'
<1> USE DEF ShownAsMeant
<1>1. PageForm
  BY DEF FormInv
<1>2. CASE UNCHANGED page
  BY <1>2
<1>3. ASSUME NEW user, OpenForm(user)
      PROVE  ShownAsMeant'
  BY <1>3, OpenFormPage, PresetIsRead, NamesOf
<1>4. ASSUME NEW filling \in Plans[plan].fillings, FillIn(filling)
      PROVE  ShownAsMeant'
  <2>1. page.phase = "blank" /\ plan \in DOMAIN Plans
    BY <1>4 DEF FillIn, FormInv
  <2>2. ASSUME NEW name \in Names
        PROVE  ReadAsMeant(name, page'.shown[name])
    <3>1. IF filling.entry[name].typed = KeepPreset.typed THEN name = VisitedOn
          ELSE ReadAsMeant(name, filling.entry[name])
      BY <2>1 DEF EntriesAreRead
    <3> QED
      BY <1>1, <1>4, <2>1, <3>1, FillInPage
  <2> QED
    BY <1>1, <1>4, <2>2, FillInPage
<1>5. CASE SendBack
  BY <1>1, <1>5, SendBackPage, EchoIsRead
<1>6. CASE Save
  BY <1>1, <1>6, SavePage
<1>7. ASSUME NEW fixed, Correct(fixed)
      PROVE  ShownAsMeant'
  <2>1. ASSUME NEW name \in Names
        PROVE  ReadAsMeant(name, page'.shown[name])
    <3>1. name # VisitedOn => ReadAsMeant(name, Usual[name])
      BY DEF EntriesAreRead
    <3> QED
      BY <1>1, <1>7, <3>1, CorrectPage, PresetIsRead
  <2> QED
    BY <1>1, <1>7, <2>1, CorrectPage
<1>8. ASSUME NEW scope, OpenList(scope) \/ FollowNext \/ LeaveList \/ Tick
      PROVE  UNCHANGED page
  BY <1>8 DEF OpenList, FollowNext, LeaveList, Tick
<1>9. CASE Rest \/ UNCHANGED vars
  BY <1>2, <1>9 DEF Rest, vars
<1> QED
  BY <1>2, <1>3, <1>4, <1>5, <1>6, <1>7, <1>8, <1>9 DEF Next

LEMMA JudgedKept ==
    ASSUME FormInv, ShownAsMeant, JudgedRight, [Next]_vars
    PROVE  JudgedRight'
<1> USE DEF JudgedRight
<1>1. PageForm
  BY DEF FormInv
<1>2. CASE UNCHANGED page
  BY <1>2 DEF SentWrong
<1>3. ASSUME NEW user, OpenForm(user)
      PROVE  JudgedRight'
  BY <1>3, OpenFormPage
<1>4. ASSUME NEW filling, FillIn(filling)
      PROVE  JudgedRight'
  BY <1>1, <1>4, FillInPage
<1>5. CASE SendBack \/ Save
  <2>1. page.phase = "filled" /\ page'.sent = page.shown /\ page'.on = time
    BY <1>1, <1>5, SendBackPage, SavePage
  <2>2. SentWrong' = Unaccepted
    BY <2>1, WrongIsUnaccepted DEF ShownAsMeant, SentWrong
  <2>3. CASE SendBack
    BY <1>1, <2>2, <2>3, SendBackPage, JudgedErrors
  <2>4. CASE Save
    <3>1. ~page.badPhoto /\ \A name \in Names : Accepted(name)
      BY <1>1, <2>4, SavePage, JudgedErrors
    <3>2. Unaccepted = {}
      BY <3>1, NamesOf DEF Unaccepted
    <3> QED
      BY <1>1, <2>2, <2>4, <3>1, <3>2, SavePage, NothingWrong
  <2> QED
    BY <1>5, <2>3, <2>4
<1>6. ASSUME NEW fixed, Correct(fixed)
      PROVE  JudgedRight'
  BY <1>1, <1>6, CorrectPage
<1>7. ASSUME NEW scope, OpenList(scope) \/ FollowNext \/ LeaveList \/ Tick
      PROVE  UNCHANGED page
  BY <1>7 DEF OpenList, FollowNext, LeaveList, Tick
<1>8. CASE Rest \/ UNCHANGED vars
  BY <1>2, <1>8 DEF Rest, vars
<1> QED
  BY <1>2, <1>3, <1>4, <1>5, <1>6, <1>7, <1>8 DEF Next

LEMMA AddedLast ==
    ASSUME NEW w, IsSeq(w), NEW x
    PROVE  \E at \in 1 .. (Len(w) + 1) : w \o <<x>> = InsertAt(w, at, x)
<1>1. PICK S : w \in Seq(S)
  BY DEF IsSeq
<1> DEFINE U == S \cup {x}
           at == Len(w) + 1
           all == w \o <<x>>
<1>2. w \in Seq(U) /\ Len(w) \in Nat
  BY <1>1, SeqMonotonic, LenProperties
<1>3. <<x>> \in Seq(U)
  OBVIOUS
<1> HIDE DEF U
<1>4. SubSeq(w, 1, at - 1) = w /\ SubSeq(w, at, Len(w)) = << >>
  <2>1. at - 1 = Len(w) /\ at \in Int /\ Len(w) < at
    BY <1>2
  <2> QED
    BY <1>2, <2>1, SubSeqFull, SubSeqEmpty
<1>5. all \in Seq(U)
  BY <1>2, <1>3, ConcatProperties
<1> HIDE DEF all
<1>6. all \o << >> = all
  BY <1>5, ConcatEmptySeq
<1>7. InsertAt(w, at, x) = all
  BY <1>4, <1>6 DEF InsertAt, all
<1> QED
  BY <1>2, <1>7 DEF all

LEMMA WrongIsSeq == FormInv => IsSeq(Wrong(SentWrong))
<1>1. SentWrong \in SUBSET (1 .. 19)
  BY NamesOnThePage DEF SentWrong
<1> DEFINE w == Wrong(SentWrong)
           n == Cardinality(SentWrong)
<1>2. n \in Nat /\ DOMAIN InOrder(SentWrong) = 1 .. n
  BY <1>1, InOrderOf
<1>3. w = [k \in 1 .. n |-> w[k]]
  BY <1>2 DEF Wrong
<1> HIDE DEF w, n
<1> QED
  BY <1>2, <1>3, ASequence DEF w

\* If each entry alone is read as it is meant, then POST /surveys refuses a
\* submission for exactly the entries that answer nothing and a photo that is
\* refused, all of them at once, the answers in the order of the page, and saves
\* it when there are none: for any fillings, in whatever round and on whatever
\* day it is sent.  Where the photo stands in the list is left open.
THEOREM RefusalsNameWhatIsWrong ==
    ASSUME EntriesAreRead
    PROVE  Spec => []RefusedForWhatIsWrong
<1>1. FormInv /\ JudgedRight => RefusedForWhatIsWrong
  <2> SUFFICES ASSUME FormInv, JudgedRight
               PROVE  RefusedForWhatIsWrong
    OBVIOUS
  <2> DEFINE wrong == Wrong(SentWrong)
  <2>1. RefusedForWhatIsWrong
          <=> /\ page.phase = "refused" =>
                   IF page.badPhoto
                   THEN \E at \in 1 .. (Len(wrong) + 1) : page.errors = InsertAt(wrong, at, Photo)
                   ELSE page.errors = wrong
              /\ page.phase = "saved" => wrong = << >> /\ ~page.badPhoto
    BY Zenon DEF RefusedForWhatIsWrong, SentWrong, Wrong
  <2>2. IsSeq(wrong)
    BY WrongIsSeq
  <2>3. page.phase = "refused" =>
          page.errors = wrong \o (IF page.badPhoto THEN <<Photo>> ELSE << >>)
    BY DEF JudgedRight
  <2>4. page.phase = "saved" => wrong = << >> /\ ~page.badPhoto
    BY DEF JudgedRight
  <2> HIDE DEF wrong
  <2>5. wrong \o << >> = wrong
    BY <2>2, ConcatEmptySeq DEF IsSeq
  <2>6. \E at \in 1 .. (Len(wrong) + 1) : wrong \o <<Photo>> = InsertAt(wrong, at, Photo)
    BY <2>2, AddedLast
  <2>7. CASE page.badPhoto
    BY <2>1, <2>3, <2>4, <2>6, <2>7, Zenon
  <2>8. CASE ~page.badPhoto
    BY <2>1, <2>3, <2>4, <2>5, <2>8, Zenon
  <2> QED
    BY <2>7, <2>8
<1>2. Init => ShownAsMeant /\ JudgedRight
  <2>1. Init => page.phase = "shut"
    BY DEF Init, NewPage
  <2> QED
    BY <2>1 DEF ShownAsMeant, JudgedRight
<1>3. FormInv /\ ShownAsMeant /\ JudgedRight /\ [Next]_vars
        => (FormInv /\ ShownAsMeant /\ JudgedRight)'
  BY FormKept, ShownKept, JudgedKept
<1> QED
  BY <1>1, <1>2, <1>3, FormStart, PTL DEF Spec

-----------------------------------------------------------------------------
(* What is saved is what was meant. *)

AnswerRow(s, item, key, v) ==
    [survey |-> s, item |-> item, metric |-> key, value |-> v[<<item, key>>]]
AnswerRows(s, item, keys, v) == {AnswerRow(s, item, key, v) : key \in keys}
VisitKeys == Range(Observer)
ItemKeys  == Range(Taste \o Context)
AllAnswers(s, v) == AnswerRows(s, 0, VisitKeys, v) \cup AnswerRows(s, 1, ItemKeys, v)
ItemRow(s, v) ==
    [survey |-> s, order |-> 1, item_name |-> v[<<1, "item_name">>],
     price_cents |-> v[<<1, "price_cents">>], qty |-> v[<<1, "qty">>]]
RowSays(row, v) ==
    /\ row.notes = v[<<0, "notes">>] /\ row.business_name = v[<<0, "business_name">>]
    /\ row.state = v[<<0, "state">>] /\ row.town = v[<<0, "town">>]
    /\ row.visited_on = v[<<0, "visited_on">>]

\* T holds the surveys whose controls said V, in order, and nothing else.
FiledAs(T, V) ==
    /\ IsSeq(T.surveys) /\ IsSeq(V) /\ Len(V) = Len(T.surveys)
    /\ \A s \in 1 .. Len(V) : RowSays(T.surveys[s], V[s])
    /\ T.items = {ItemRow(s, V[s]) : s \in 1 .. Len(V)}
    /\ T.responses = UNION {AllAnswers(s, V[s]) : s \in 1 .. Len(V)}

Filed == FiledAs(tables, meant)

LEMMA RatedKeys ==
    /\ VisitKeys = {VisitMetrics[i].key : i \in DOMAIN VisitMetrics}
    /\ ItemKeys = {ItemMetrics[i].key : i \in DOMAIN ItemMetrics}
    /\ \A key \in VisitKeys : <<0, key>> \in Names
    /\ \A key \in ItemKeys : <<1, key>> \in Names
<1>1. DOMAIN VisitMetrics = 1 .. 3 /\ DOMAIN ItemMetrics = 1 .. 8
  BY VisitQuestions, ItemQuestions, LenProperties DEF IsSeq
<1>2. DOMAIN Observer = 1 .. 3 /\ DOMAIN Taste = 1 .. 6 /\ DOMAIN Context = 1 .. 2
  BY DEF Observer, Taste, Context
<1>3. VisitKeys = {VisitMetrics[i].key : i \in DOMAIN VisitMetrics}
  BY <1>1, <1>2, VisitQuestions DEF VisitKeys, Range
<1>4. ItemKeys = {ItemMetrics[i].key : i \in DOMAIN ItemMetrics}
  <2> DEFINE K == Taste \o Context
  <2>1. /\ IsSeq(Taste) /\ Len(Taste) = 6 /\ IsSeq(Context) /\ Len(Context) = 2
    <3>1. ASSUME NEW a, NEW b, NEW c, NEW d, NEW e, NEW f
          PROVE  /\ <<a, b, c, d, e, f>> \in Seq({a, b, c, d, e, f})
                 /\ Len(<<a, b, c, d, e, f>>) = 6
                 /\ <<a, b>> \in Seq({a, b}) /\ Len(<<a, b>>) = 2
      OBVIOUS
    <3> QED
      BY <3>1, Zenon DEF IsSeq, Taste, Context
  <2>2. Joins(K, Taste, Context)
    BY <2>1, Joined
  <2> HIDE DEF K
  <2>3. /\ IsSeq(K) /\ Len(K) = 8
        /\ \A i \in 1 .. 6 : K[i] = Taste[i]
        /\ \A i \in 1 .. 2 : K[6 + i] = Context[i]
    BY <2>1, <2>2 DEF Joins
  <2>4. DOMAIN K = 1 .. 8
    BY <2>3, LenProperties DEF IsSeq
  <2>5. ASSUME NEW i \in 1 .. 8 PROVE K[i] = ItemMetrics[i].key
    <3>1. CASE i \in 1 .. 6
      BY <2>3, <3>1, ItemQuestions
    <3>2. CASE i \in 7 .. 8
      BY <2>3, <3>2, ItemQuestions, i - 6 \in 1 .. 2, 6 + (i - 6) = i
    <3> QED
      BY <3>1, <3>2
  <2> QED
    BY <1>1, <2>4, <2>5 DEF ItemKeys, K, Range
<1>5. /\ \A i \in 1 .. 3 : <<0, VisitMetrics[i].key>> = Form[4 + i].name /\ 4 + i \in 1 .. 19
      /\ \A i \in 1 .. 8 : <<1, ItemMetrics[i].key>> = Form[10 + i].name /\ 10 + i \in 1 .. 19
  BY NamesAsked
<1>6. \A i \in 1 .. 19 : Form[i].name \in Names
  BY NamesOf
<1>7. /\ \A i \in 1 .. 3 : <<0, VisitMetrics[i].key>> \in Names
      /\ \A i \in 1 .. 8 : <<1, ItemMetrics[i].key>> \in Names
  BY <1>5, <1>6
<1>8. \A key \in VisitKeys : <<0, key>> \in Names
  <2> SUFFICES ASSUME NEW key \in VisitKeys PROVE <<0, key>> \in Names
    OBVIOUS
  <2>1. PICK i \in 1 .. 3 : key = VisitMetrics[i].key
    BY <1>1, <1>3
  <2> QED
    BY <1>7, <2>1
<1>9. \A key \in ItemKeys : <<1, key>> \in Names
  <2> SUFFICES ASSUME NEW key \in ItemKeys PROVE <<1, key>> \in Names
    OBVIOUS
  <2>1. PICK i \in 1 .. 8 : key = ItemMetrics[i].key
    BY <1>1, <1>4
  <2> QED
    BY <1>7, <2>1
<1> QED
  BY <1>3, <1>4, <1>8, <1>9

LEMMA OneItem == 1 .. ItemCount = {1} /\ ItemCount = 1
  BY DEF ItemCount

\* The rows of a survey, told by what its controls say.
LEMMA SurveyCreated ==
    ASSUME NEW user, NEW v, NEW m, \A name \in Names : v[name] = m[name],
           NEW t, t = CreateSurvey(user, v)
    PROVE  /\ t.items = tables.items \cup {ItemRow(Len(tables.surveys) + 1, m)}
           /\ t.responses = tables.responses \cup AllAnswers(Len(tables.surveys) + 1, m)
           /\ \E row : t.surveys = Append(tables.surveys, row) /\ RowSays(row, m)
<1> DEFINE s == Len(tables.surveys) + 1
<1> HIDE DEF s
<1>1. /\ <<0, "notes">> \in Names /\ <<0, "business_name">> \in Names /\ <<0, "state">> \in Names
      /\ <<0, "town">> \in Names /\ <<0, "visited_on">> \in Names
      /\ <<1, "item_name">> \in Names /\ <<1, "price_cents">> \in Names /\ <<1, "qty">> \in Names
  <2>1. \A i \in 1 .. 19 : Told[i] \in Names
    BY NamesOf
  <2>2. /\ Told[19] = <<0, "notes">> /\ Told[1] = <<0, "business_name">>
        /\ Told[2] = <<0, "state">> /\ Told[3] = <<0, "town">> /\ Told[4] = <<0, "visited_on">>
        /\ Told[8] = <<1, "item_name">> /\ Told[9] = <<1, "price_cents">> /\ Told[10] = <<1, "qty">>
    BY DEF Told
  <2> QED
    BY <2>1, <2>2
<1>2. t.items = tables.items \cup {ItemRow(s, m)}
  <2>1. t.items = tables.items \cup {ItemRow(s, v)}
    BY OneItem DEF CreateSurvey, ItemRow, s
  <2>2. ItemRow(s, v) = ItemRow(s, m)
    BY <1>1 DEF ItemRow
  <2> QED
    BY <2>1, <2>2
<1>3. t.responses = tables.responses \cup AllAnswers(s, m)
  <2>1. t.responses = tables.responses
            \cup {AnswerRow(s, 0, VisitMetrics[i].key, v) : i \in DOMAIN VisitMetrics}
            \cup {AnswerRow(s, n, ItemMetrics[i].key, v) : n \in 1 .. ItemCount, i \in DOMAIN ItemMetrics}
    <3> DEFINE answer(item, q) == [survey |-> s, item |-> item, metric |-> q.key,
                                   value |-> v[<<item, q.key>>]]
    <3>1. t.responses = tables.responses
            \cup {answer(0, VisitMetrics[i]) : i \in DOMAIN VisitMetrics}
            \cup {answer(n, ItemMetrics[i]) : n \in 1 .. ItemCount, i \in DOMAIN ItemMetrics}
      BY DEF CreateSurvey, s
    <3>2. \A item, q : answer(item, q) = AnswerRow(s, item, q.key, v)
      BY DEF AnswerRow
    <3> HIDE DEF answer
    <3> QED
      BY <3>1, <3>2
  <2>2. {AnswerRow(s, 0, VisitMetrics[i].key, v) : i \in DOMAIN VisitMetrics}
           = AnswerRows(s, 0, VisitKeys, v)
    BY RatedKeys DEF AnswerRows
  <2>3. {AnswerRow(s, n, ItemMetrics[i].key, v) : n \in 1 .. ItemCount, i \in DOMAIN ItemMetrics}
           = AnswerRows(s, 1, ItemKeys, v)
    BY RatedKeys, OneItem DEF AnswerRows
  <2>4. \A key \in VisitKeys : AnswerRow(s, 0, key, v) = AnswerRow(s, 0, key, m)
    BY RatedKeys DEF AnswerRow
  <2>5. \A key \in ItemKeys : AnswerRow(s, 1, key, v) = AnswerRow(s, 1, key, m)
    BY RatedKeys DEF AnswerRow
  <2> QED
    BY <2>1, <2>2, <2>3, <2>4, <2>5 DEF AllAnswers, AnswerRows
<1>4. \E row : t.surveys = Append(tables.surveys, row) /\ RowSays(row, m)
  <2> DEFINE row == [user |-> user, submitted_at |-> time, notes |-> v[<<0, "notes">>],
                     business_name |-> v[<<0, "business_name">>],
                     state |-> v[<<0, "state">>], town |-> v[<<0, "town">>],
                     visited_on |-> v[VisitedOn]]
  <2>1. t.surveys = Append(tables.surveys, row)
    BY DEF CreateSurvey
  <2>2. RowSays(row, m)
    BY <1>1 DEF RowSays, VisitedOn
  <2> QED
    BY <2>1, <2>2
<1> QED
  BY <1>2, <1>3, <1>4 DEF s

LEMMA Appended ==
    ASSUME NEW f, IsSeq(f), NEW e
    PROVE  /\ IsSeq(Append(f, e)) /\ Len(Append(f, e)) = Len(f) + 1 /\ Len(f) \in Nat
           /\ \A i \in 1 .. Len(f) : Append(f, e)[i] = f[i]
           /\ Append(f, e)[Len(f) + 1] = e
<1>1. PICK S : f \in Seq(S)
  BY DEF IsSeq
<1>2. f \in Seq(S \cup {e}) /\ e \in S \cup {e}
  BY <1>1, SeqMonotonic
<1> QED
  BY <1>2, AppendProperties, LenProperties DEF IsSeq

LEMMA OneMoreFiled ==
    ASSUME NEW V, FiledAs(tables, V), NEW user, NEW v, NEW m, \A name \in Names : v[name] = m[name]
    PROVE  FiledAs(CreateSurvey(user, v), Append(V, m))
<1> DEFINE t == CreateSurvey(user, v)
           W == Append(V, m)
           n == Len(V)
<1>1. IsSeq(V) /\ IsSeq(tables.surveys) /\ Len(V) = Len(tables.surveys)
  BY DEF FiledAs
<1>2. /\ t.items = tables.items \cup {ItemRow(Len(tables.surveys) + 1, m)}
      /\ t.responses = tables.responses \cup AllAnswers(Len(tables.surveys) + 1, m)
      /\ \E row : t.surveys = Append(tables.surveys, row) /\ RowSays(row, m)
  <2> HIDE DEF t
  <2>1. t = CreateSurvey(user, v)
    BY DEF t
  <2> QED
    BY <2>1, SurveyCreated
<1> HIDE DEF t
<1>3. PICK row : t.surveys = Append(tables.surveys, row) /\ RowSays(row, m)
  BY <1>2
<1>4. /\ IsSeq(W) /\ Len(W) = n + 1 /\ n \in Nat
      /\ \A i \in 1 .. n : W[i] = V[i]
      /\ W[n + 1] = m
  BY <1>1, Appended
<1>5. /\ IsSeq(t.surveys) /\ Len(t.surveys) = n + 1
      /\ \A i \in 1 .. n : t.surveys[i] = tables.surveys[i]
      /\ t.surveys[n + 1] = row
  BY <1>1, <1>3, Appended
<1> HIDE DEF W
<1>6. 1 .. n + 1 = 1 .. n \cup {n + 1}
  BY <1>4
<1>7. \A s \in 1 .. n + 1 : RowSays(t.surveys[s], W[s])
  BY <1>3, <1>4, <1>5, <1>6 DEF FiledAs
<1>8. t.items = {ItemRow(s, W[s]) : s \in 1 .. n + 1}
  BY <1>1, <1>2, <1>4, <1>6 DEF FiledAs
<1>9. t.responses = UNION {AllAnswers(s, W[s]) : s \in 1 .. n + 1}
  BY <1>1, <1>2, <1>4, <1>6 DEF FiledAs
<1>10. FiledAs(t, W)
  <2> HIDE DEF n
  <2> QED
    BY <1>4, <1>5, <1>7, <1>8, <1>9 DEF FiledAs
<1> QED
  BY <1>10 DEF t, W

\* Only Save writes to the tables, what was meant with them.
LEMMA OnlySaveWrites ==
    ASSUME [Next]_vars, ~Save
    PROVE  UNCHANGED <<tables, meant>>
<1>1. ASSUME NEW user, OpenForm(user) PROVE UNCHANGED <<tables, meant>>
  BY <1>1 DEF OpenForm
<1>2. ASSUME NEW filling, FillIn(filling) PROVE UNCHANGED <<tables, meant>>
  BY <1>2 DEF FillIn
<1>3. ASSUME NEW fixed, Correct(fixed) PROVE UNCHANGED <<tables, meant>>
  BY <1>3 DEF Correct
<1>4. ASSUME NEW scope, OpenList(scope) \/ FollowNext \/ LeaveList \/ Tick \/ SendBack
      PROVE  UNCHANGED <<tables, meant>>
  BY <1>4 DEF OpenList, FollowNext, LeaveList, Tick, SendBack
<1>5. ASSUME Rest \/ UNCHANGED vars PROVE UNCHANGED <<tables, meant>>
  BY <1>5 DEF Rest, vars
<1> QED
  BY <1>1, <1>2, <1>3, <1>4, <1>5 DEF Next

LEMMA FiledKept ==
    ASSUME FormInv, ShownAsMeant, Filed, [Next]_vars
    PROVE  Filed'
<1>1. CASE ~Save
  BY <1>1, OnlySaveWrites DEF Filed, FiledAs
<1>2. CASE Save
  <2> DEFINE m == [name \in Names |-> page.shown[name].means]
             v == Judged.value
  <2>1. page.phase = "filled" /\ \A name \in Names : Accepted(name)
    BY <1>2, SavePage, JudgedErrors DEF FormInv
  <2>2. ASSUME NEW name \in Names PROVE v[name] = m[name]
    <3>1. v[name] = Reading(name, page.shown[name].typed, time).value
      BY JudgedErrors
    <3>2. Reading(name, page.shown[name].typed, time).value = page.shown[name].means
      BY <2>1, Today DEF ShownAsMeant, ReadAsMeant, Accepted
    <3> QED
      BY <3>1, <3>2
  <2>3. tables' = CreateSurvey(page.user, v) /\ meant' = Append(meant, m)
    BY <1>2 DEF Save
  <2> HIDE DEF m, v
  <2>4. FiledAs(CreateSurvey(page.user, v), Append(meant, m))
    BY <2>2, OneMoreFiled DEF Filed
  <2> QED
    BY <2>3, <2>4 DEF Filed
<1> QED
  BY <1>1, <1>2

\* The answers read back under an item of a survey.
LEMMA RowsRead ==
    ASSUME NEW s, NEW item, NEW keys, NEW m,
           NEW rows, rows = AnswerRows(s, item, keys, m)
    PROVE  /\ {r.metric : r \in rows} = keys
           /\ \A key \in keys : (CHOOSE r \in rows : r.metric = key).value = m[<<item, key>>]
<1>1. \A key \in keys : /\ AnswerRow(s, item, key, m) \in rows
                        /\ AnswerRow(s, item, key, m).metric = key
                        /\ AnswerRow(s, item, key, m).value = m[<<item, key>>]
  <2>1. \A key : /\ AnswerRow(s, item, key, m).metric = key
                  /\ AnswerRow(s, item, key, m).value = m[<<item, key>>]
    BY DEF AnswerRow
  <2>2. \A key \in keys : AnswerRow(s, item, key, m) \in rows
    BY DEF AnswerRows
  <2> QED
    BY <2>1, <2>2
<1>2. \A r \in rows : \E key \in keys : r = AnswerRow(s, item, key, m)
  BY DEF AnswerRows
<1>3. ASSUME NEW r \in rows PROVE r.metric \in keys /\ r.value = m[<<item, r.metric>>]
  <2>1. PICK key \in keys : r = AnswerRow(s, item, key, m)
    BY <1>2
  <2>2. r.metric = key /\ r.value = m[<<item, key>>]
    BY <1>1, <2>1
  <2> QED
    BY <2>2
<1>4. {r.metric : r \in rows} = keys
  BY <1>1, <1>3, Zenon
<1>5. \A key \in keys : \E r \in rows : r.metric = key
  BY <1>1, Zenon
<1> QED
  BY <1>3, <1>4, <1>5, Zenon

LEMMA AnswersRead ==
    ASSUME NEW s, NEW item, NEW keys, NEW m,
           {r \in tables.responses : r.survey = s /\ r.item = item} = AnswerRows(s, item, keys, m)
    PROVE  /\ DOMAIN Answers(tables, s, item) = keys
           /\ \A key \in keys : Answers(tables, s, item)[key] = m[<<item, key>>]
<1> DEFINE rows == {r \in tables.responses : r.survey = s /\ r.item = item}
<1>1. Answers(tables, s, item)
        = [key \in {r.metric : r \in rows} |-> (CHOOSE r \in rows : r.metric = key).value]
  BY Zenon DEF Answers
<1>2. rows = AnswerRows(s, item, keys, m)
  OBVIOUS
<1> HIDE DEF rows
<1>3. /\ {r.metric : r \in rows} = keys
      /\ \A key \in keys : (CHOOSE r \in rows : r.metric = key).value = m[<<item, key>>]
  BY <1>2, RowsRead
<1> QED
  BY <1>1, <1>3, Zenon

\* The rows of one survey among all of them.
LEMMA RowsOfOne ==
    ASSUME NEW T, NEW V, FiledAs(T, V), NEW s \in 1 .. Len(V)
    PROVE  /\ {r \in T.responses : r.survey = s /\ r.item = 0}
                  = AnswerRows(s, 0, VisitKeys, V[s])
           /\ {r \in T.responses : r.survey = s /\ r.item = 1}
                  = AnswerRows(s, 1, ItemKeys, V[s])
           /\ ItemsOf(T, s) = {ItemRow(s, V[s])}
<1>1. \A u, item, key, v : /\ AnswerRow(u, item, key, v).survey = u
                           /\ AnswerRow(u, item, key, v).item = item
  BY DEF AnswerRow
<1>2. \A u, item, keys, v : \A r \in AnswerRows(u, item, keys, v) :
          r.survey = u /\ r.item = item
  BY <1>1 DEF AnswerRows
<1>3. \A r : r \in T.responses <=>
          \E u \in 1 .. Len(V) : \/ r \in AnswerRows(u, 0, VisitKeys, V[u])
                                 \/ r \in AnswerRows(u, 1, ItemKeys, V[u])
  BY DEF AllAnswers, FiledAs
<1>4. /\ {r \in T.responses : r.survey = s /\ r.item = 0}
                  = AnswerRows(s, 0, VisitKeys, V[s])
      /\ {r \in T.responses : r.survey = s /\ r.item = 1}
                  = AnswerRows(s, 1, ItemKeys, V[s])
  BY <1>2, <1>3
<1>5. \A u, v : ItemRow(u, v).survey = u
  BY DEF ItemRow
<1>6. ItemsOf(T, s) = {ItemRow(s, V[s])}
  BY <1>5 DEF ItemsOf, FiledAs
<1> QED
  BY <1>4, <1>6

LEMMA FiledIsStored == Filed => StoredAsMeant
<1> SUFFICES ASSUME Filed PROVE StoredAsMeant
  OBVIOUS
<1> USE DEF Filed
<1>1. DOMAIN tables.surveys = 1 .. Len(meant)
  BY LenProperties DEF IsSeq, FiledAs
<1>2. ASSUME NEW s \in 1 .. Len(meant)
      PROVE  /\ {r \in tables.responses : r.survey = s /\ r.item = 0}
                    = AnswerRows(s, 0, VisitKeys, meant[s])
             /\ {r \in tables.responses : r.survey = s /\ r.item = 1}
                    = AnswerRows(s, 1, ItemKeys, meant[s])
             /\ ItemsOf(tables, s) = {ItemRow(s, meant[s])}
  BY RowsOfOne
<1>3. ASSUME NEW s \in 1 .. Len(meant)
      PROVE  LET row == tables.surveys[s]
                 read == GetSurvey(tables, s)
                 meantBy(item, key) == meant[s][<<item, key>>]
             IN  /\ \A i \in DOMAIN VisitFields : row[VisitFields[i].key] = meantBy(0, VisitFields[i].key)
                 /\ row.notes = meantBy(0, "notes")
                 /\ DOMAIN read.visitMetrics = Range(Observer)
                 /\ \A key \in Range(Observer) : read.visitMetrics[key] = meantBy(0, key)
                 /\ Cardinality(ItemsOf(tables, s)) = ItemCount
                 /\ \A item \in ItemsOf(tables, s) :
                      /\ item.price_cents = meantBy(item.order, "price_cents")
                      /\ item.qty = meantBy(item.order, "qty")
                      /\ item.item_name = meantBy(item.order, "item_name")
                      /\ DOMAIN read.items[item.order].metrics = Range(Taste \o Context)
                      /\ \A key \in Range(Taste \o Context) :
                           read.items[item.order].metrics[key] = meantBy(item.order, key)
  <2> DEFINE row == tables.surveys[s]
             read == GetSurvey(tables, s)
             m == meant[s]
             the == ItemRow(s, m)
  <2>1. RowSays(row, m)
    BY DEF FiledAs
  <2>2. \A i \in DOMAIN VisitFields : row[VisitFields[i].key] = m[<<0, VisitFields[i].key>>]
    <3>1. DOMAIN VisitFields = 1 .. 4
      BY FieldQuestions, LenProperties DEF IsSeq
    <3>2. /\ VisitFields[1].key = "business_name" /\ VisitFields[2].key = "state"
          /\ VisitFields[3].key = "town" /\ VisitFields[4].key = "visited_on"
      BY DEF VisitFields, Field
    <3>3. /\ row[VisitFields[1].key] = m[<<0, VisitFields[1].key>>]
          /\ row[VisitFields[2].key] = m[<<0, VisitFields[2].key>>]
          /\ row[VisitFields[3].key] = m[<<0, VisitFields[3].key>>]
          /\ row[VisitFields[4].key] = m[<<0, VisitFields[4].key>>]
      BY <2>1, <3>2, Zenon DEF RowSays
    <3> HIDE DEF row, m
    <3>4. \A i \in 1 .. 4 : i = 1 \/ i = 2 \/ i = 3 \/ i = 4
      OBVIOUS
    <3> QED
      BY <3>1, <3>3, <3>4
  <2>3. row.notes = m[<<0, "notes">>]
    BY <2>1 DEF RowSays
  <2>4. /\ DOMAIN read.visitMetrics = VisitKeys
        /\ \A key \in VisitKeys : read.visitMetrics[key] = m[<<0, key>>]
    BY <1>2, AnswersRead DEF GetSurvey
  <2>5. ItemsOf(tables, s) = {the} /\ the.order = 1
    BY <1>2 DEF ItemRow
  <2>6. Cardinality(ItemsOf(tables, s)) = ItemCount
    BY <2>5, FS_Singleton, OneItem
  <2>7. /\ the.price_cents = m[<<1, "price_cents">>] /\ the.qty = m[<<1, "qty">>]
        /\ the.item_name = m[<<1, "item_name">>]
    BY DEF ItemRow
  <2>8. read.items[1].metrics = Answers(tables, s, 1)
    <3>1. 1 \in {i.order : i \in ItemsOf(tables, s)}
      BY <2>5
    <3> QED
      BY <3>1 DEF GetSurvey
  <2>9. /\ DOMAIN read.items[1].metrics = ItemKeys
        /\ \A key \in ItemKeys : read.items[1].metrics[key] = m[<<1, key>>]
    <3>1. {r \in tables.responses : r.survey = s /\ r.item = 1} = AnswerRows(s, 1, ItemKeys, m)
      BY <1>2
    <3> DEFINE one == 1
    <3>2. {r \in tables.responses : r.survey = s /\ r.item = one} = AnswerRows(s, one, ItemKeys, m)
      BY <3>1
    <3> HIDE DEF one, m, Filed
    <3>3. /\ DOMAIN Answers(tables, s, one) = ItemKeys
          /\ \A key \in ItemKeys : Answers(tables, s, one)[key] = m[<<one, key>>]
      BY <3>2, AnswersRead
    <3> QED
      BY <2>8, <3>3 DEF one
  <2> HIDE DEF row, read, m, the
  <2> QED
    BY <2>2, <2>3, <2>4, <2>5, <2>6, <2>7, <2>9 DEF VisitKeys, ItemKeys, row, read, m
<1> QED
  BY <1>1, <1>3 DEF StoredAsMeant

\* If each entry alone is read as it is meant, then every survey getSurvey reads
\* back says, answer by answer and each of them once, what its collector meant:
\* for any number of collectors and surveys (createSurvey's rows do not mix) and
\* however many rounds of correction the page went through.
THEOREM SavedAsMeant ==
    ASSUME EntriesAreRead
    PROVE  Spec => []StoredAsMeant
<1>1. Init => ShownAsMeant /\ Filed
  <2>1. Init => page.phase = "shut"
    BY DEF Init, NewPage
  <2>2. ASSUME Init PROVE Filed
    <3>1. tables = [surveys |-> << >>, items |-> {}, responses |-> {}] /\ meant = << >>
      BY <2>2 DEF Init
    <3>2. << >> \in Seq({}) /\ Len(<< >>) = 0
      BY EmptySeq
    <3> QED
      BY <3>1, <3>2 DEF Filed, FiledAs, IsSeq
  <2> QED
    BY <2>1, <2>2 DEF ShownAsMeant
<1>2. FormInv /\ ShownAsMeant /\ Filed /\ [Next]_vars
        => (FormInv /\ ShownAsMeant /\ Filed)'
  BY FormKept, ShownKept, FiledKept
<1> QED
  BY <1>1, <1>2, FormStart, FiledIsStored, PTL DEF Spec
-----------------------------------------------------------------------------
(* Sums over a finite set. *)

\* The one taken from a set first.
First(T) == CHOOSE x \in T : TRUE

\* g adds up f over every set of F.
Adds(g, f, F) ==
    g = [s \in F |-> IF s = {} THEN 0 ELSE f[First(s)] + g[s \ {First(s)}]]

LEMMA FirstIsIn == \A T : T # {} => First(T) \in T
BY DEF First

\* The subsets of S with at most n members.
UpToSize(S, n) == {s \in SUBSET S : Cardinality(s) <= n}

LEMMA SizeWithoutFirst ==
    ASSUME NEW S, IsFiniteSet(S), NEW s \in SUBSET S, s # {}
    PROVE  /\ First(s) \in s /\ s \ {First(s)} \in SUBSET S
           /\ IsFiniteSet(s) /\ Cardinality(s) \in Nat /\ Cardinality(s \ {First(s)}) \in Nat
           /\ Cardinality(s \ {First(s)}) = Cardinality(s) - 1
<1>1. IsFiniteSet(s) /\ First(s) \in s
  BY FS_Subset, FirstIsIn
<1>2. IsFiniteSet(s \ {First(s)})
  BY <1>1, FS_Subset
<1> QED
  BY <1>1, <1>2, FS_RemoveElement, FS_CardinalityType

\* Something adds up f over every subset: no smallest subset is left out.
LEMMA AddingWorks ==
    ASSUME NEW S, IsFiniteSet(S), NEW f
    PROVE  \E g : Adds(g, f, SUBSET S)
<1> DEFINE stuck == {n \in Nat : ~ \E g : Adds(g, f, UpToSize(S, n))}
<1>1. stuck = {}
  <2> SUFFICES ASSUME stuck # {} PROVE FALSE
    OBVIOUS
  <2>0. stuck \in SUBSET Nat
    OBVIOUS
  <2>1. PICK n \in stuck : \A k \in stuck : ~(k < n)
    <3> HIDE DEF stuck
    <3> QED
      BY <2>0, Smallest
  <2>2. n \in Nat /\ ~ \E g : Adds(g, f, UpToSize(S, n))
    BY <2>1
  <2>3. CASE n = 0
    <3> DEFINE g == [s \in UpToSize(S, n) |-> 0]
    <3>1. \A s \in UpToSize(S, n) : s = {}
      <4> SUFFICES ASSUME NEW s \in UpToSize(S, n), s # {} PROVE FALSE
        OBVIOUS
      <4>1. s \in SUBSET S /\ Cardinality(s) <= 0
        BY <2>3 DEF UpToSize
      <4>2. /\ Cardinality(s) \in Nat /\ Cardinality(s \ {First(s)}) \in Nat
            /\ Cardinality(s \ {First(s)}) = Cardinality(s) - 1
        BY <4>1, SizeWithoutFirst
      <4> QED
        BY <4>1, <4>2
    <3>2. Adds(g, f, UpToSize(S, n))
      BY <3>1, Zenon DEF Adds
    <3> QED
      BY <2>2, <3>2
  <2>4. CASE n # 0
    <3>1. n - 1 \in Nat /\ n - 1 < n /\ n - 1 \notin stuck
      BY <2>1, <2>2, <2>4
    <3>2. PICK h : Adds(h, f, UpToSize(S, n - 1))
      BY <3>1
    <3> DEFINE g == [s \in UpToSize(S, n) |-> IF s = {} THEN 0 ELSE f[First(s)] + h[s \ {First(s)}]]
    <3>3. \A t \in UpToSize(S, n - 1) : t \in UpToSize(S, n) /\ g[t] = h[t]
      <4> SUFFICES ASSUME NEW t \in UpToSize(S, n - 1) PROVE t \in UpToSize(S, n) /\ g[t] = h[t]
        OBVIOUS
      <4>1. t \in UpToSize(S, n)
        <5>1. t \in SUBSET S /\ Cardinality(t) <= n - 1 /\ Cardinality(t) \in Nat
          BY FS_Subset, FS_CardinalityType DEF UpToSize
        <5> QED
          BY <2>2, <5>1 DEF UpToSize
      <4>2. h[t] = IF t = {} THEN 0 ELSE f[First(t)] + h[t \ {First(t)}]
        BY <3>2, Zenon DEF Adds
      <4> QED
        BY <4>1, <4>2
    <3>4. \A s \in UpToSize(S, n) : s # {} => s \ {First(s)} \in UpToSize(S, n - 1)
      <4> SUFFICES ASSUME NEW s \in UpToSize(S, n), s # {}
                   PROVE  s \ {First(s)} \in UpToSize(S, n - 1)
        OBVIOUS
      <4>1. s \in SUBSET S /\ Cardinality(s) <= n
        BY DEF UpToSize
      <4> DEFINE r == s \ {First(s)}
      <4>2. r \in SUBSET S /\ Cardinality(r) = Cardinality(s) - 1 /\ Cardinality(s) \in Nat
        BY <4>1, SizeWithoutFirst
      <4> HIDE DEF r
      <4>3. r \in UpToSize(S, n - 1)
        BY <2>2, <4>1, <4>2 DEF UpToSize
      <4> QED
        BY <4>3 DEF r
    <3>5. \A s \in UpToSize(S, n) : s # {} => g[s \ {First(s)}] = h[s \ {First(s)}]
      <4> HIDE DEF g
      <4> QED
        BY <3>3, <3>4
    <3>6. Adds(g, f, UpToSize(S, n))
      <4> DEFINE w == [s \in UpToSize(S, n) |-> IF s = {} THEN 0 ELSE f[First(s)] + g[s \ {First(s)}]]
      <4>1. \A s \in UpToSize(S, n) : g[s] = w[s]
        BY <3>5
      <4>2. g = w
        BY <4>1
      <4> QED
        BY <4>2 DEF Adds
    <3> QED
      BY <2>2, <3>6
  <2> QED
    BY <2>3, <2>4
<1>2. Cardinality(S) \in Nat
  BY FS_CardinalityType
<1>3. UpToSize(S, Cardinality(S)) = SUBSET S
  BY FS_Subset DEF UpToSize
<1>4. PICK g : Adds(g, f, UpToSize(S, Cardinality(S)))
  BY <1>1, <1>2
<1> QED
  BY <1>3, <1>4

\* There is one way to add up.
Agree(g, S, h, R, f) == g[R] = h[R]

\* Two that add up f agree wherever both are defined.
LEMMA AddingIsUnique ==
    ASSUME NEW S, IsFiniteSet(S), NEW R \in SUBSET S, NEW f, NEW g, NEW h,
           Adds(g, f, SUBSET S), Adds(h, f, SUBSET R)
    PROVE  Agree(g, S, h, R, f)
<1> DEFINE apart == {n \in Nat : \E s \in SUBSET R : Cardinality(s) = n /\ g[s] # h[s]}
<1>0. IsFiniteSet(R)
  BY FS_Subset
<1>1. SUFFICES apart = {}
  <2>1. Cardinality(R) \in Nat
    BY <1>0, FS_CardinalityType
  <2> QED
    BY <1>1, <2>1 DEF Agree
<1> SUFFICES ASSUME apart # {} PROVE FALSE
  OBVIOUS
<1>2. apart \in SUBSET Nat
  OBVIOUS
<1>3. PICK n \in apart : \A k \in apart : ~(k < n)
  <2> HIDE DEF apart
  <2> QED
    BY <1>2, Smallest
<1>4. PICK s \in SUBSET R : Cardinality(s) = n /\ g[s] # h[s]
  BY <1>3
<1>5. /\ g[s] = IF s = {} THEN 0 ELSE f[First(s)] + g[s \ {First(s)}]
      /\ h[s] = IF s = {} THEN 0 ELSE f[First(s)] + h[s \ {First(s)}]
  <2>1. s \in SUBSET S
    BY <1>4
  <2> QED
    BY <2>1, Zenon DEF Adds
<1>6. s # {}
  BY <1>4, <1>5
<1>7. /\ s \ {First(s)} \in SUBSET R /\ Cardinality(s \ {First(s)}) \in Nat
      /\ Cardinality(s \ {First(s)}) = Cardinality(s) - 1 /\ Cardinality(s) \in Nat
  BY <1>0, <1>6, SizeWithoutFirst
<1>8. g[s \ {First(s)}] = h[s \ {First(s)}]
  <2> DEFINE r == s \ {First(s)}
  <2>1. r \in SUBSET R /\ Cardinality(r) \in Nat /\ Cardinality(r) < n
    BY <1>4, <1>7
  <2> HIDE DEF r
  <2>2. Cardinality(r) \notin apart
    BY <1>3, <2>1
  <2>3. g[r] = h[r]
    BY <2>1, <2>2
  <2> QED
    BY <2>3 DEF r
<1> QED
  BY <1>4, <1>5, <1>6, <1>8

\* The fold SumOf is defined by is one of them.
LEMMA SumIs ==
    ASSUME NEW S, IsFiniteSet(S), NEW f
    PROVE  \E g : Adds(g, f, SUBSET S) /\ SumOf(f, S) = g[S]
<1> DEFINE G == CHOOSE g : Adds(g, f, SUBSET S)
<1>1. Adds(G, f, SUBSET S)
  BY AddingWorks
<1>2. SumOf(f, S) = G[S]
  BY DEF SumOf, MapThenSumSet, MapThenFoldSet, Adds, First
<1> QED
  BY <1>1, <1>2

LEMMA SumByFirst ==
    ASSUME NEW S, IsFiniteSet(S), S # {}, NEW f
    PROVE  SumOf(f, S) = f[First(S)] + SumOf(f, S \ {First(S)})
<1> DEFINE R == S \ {First(S)}
<1>1. R \in SUBSET S /\ IsFiniteSet(R)
  BY FS_Subset
<1>2. PICK g : Adds(g, f, SUBSET S) /\ SumOf(f, S) = g[S]
  BY SumIs
<1>3. PICK h : Adds(h, f, SUBSET R) /\ SumOf(f, R) = h[R]
  BY <1>1, SumIs
<1>4. g[R] = h[R]
  <2> HIDE DEF R
  <2>1. Adds(g, f, SUBSET S) /\ Adds(h, f, SUBSET R)
    BY <1>2, <1>3
  <2>2. Agree(g, S, h, R, f)
    BY <1>1, <2>1, AddingIsUnique, Zenon
  <2> QED
    BY <2>2 DEF Agree
<1>5. g[S] = f[First(S)] + g[S \ {First(S)}]
  <2>1. S \in SUBSET S
    OBVIOUS
  <2> QED
    BY <1>2, <2>1, Zenon DEF Adds
<1> QED
  BY <1>2, <1>3, <1>4, <1>5

LEMMA SumOfNone == ASSUME NEW f PROVE SumOf(f, {}) = 0
<1>1. IsFiniteSet({}) /\ {} \in SUBSET {}
  BY FS_EmptySet
<1>2. PICK g : Adds(g, f, SUBSET {}) /\ SumOf(f, {}) = g[{}]
  BY <1>1, SumIs
<1> QED
  BY <1>1, <1>2, Zenon DEF Adds

\* Any member may be taken first; and a sum of whole numbers is one.
SumsWell(f, S) ==
    /\ SumOf(f, S) \in Int
    /\ \A x \in S : SumOf(f, S) = f[x] + SumOf(f, S \ {x})

\* Whatever member is taken first, the rest and it make the sum.
LEMMA SumTaking ==
    ASSUME NEW S, IsFiniteSet(S), NEW f, \A x \in S : f[x] \in Int
    PROVE  SumsWell(f, S)
<1> DEFINE wrong == {n \in Nat : \E T \in SUBSET S : Cardinality(T) = n /\ ~SumsWell(f, T)}
<1>1. SUFFICES wrong = {}
  <2>1. Cardinality(S) \in Nat /\ S \in SUBSET S
    BY FS_CardinalityType
  <2> QED
    BY <1>1, <2>1
<1> SUFFICES ASSUME wrong # {} PROVE FALSE
  OBVIOUS
<1>2. wrong \in SUBSET Nat
  OBVIOUS
<1>3. PICK n \in wrong : \A k \in wrong : ~(k < n)
  <2> HIDE DEF wrong
  <2> QED
    BY <1>2, Smallest
<1>4. PICK T \in SUBSET S : Cardinality(T) = n /\ ~SumsWell(f, T)
  BY <1>3
<1>5. IsFiniteSet(T) /\ n \in Nat
  BY <1>3, <1>4, FS_Subset
<1>6. ASSUME NEW R \in SUBSET S, IsFiniteSet(R), Cardinality(R) < n PROVE SumsWell(f, R)
  <2>1. Cardinality(R) \in Nat
    BY <1>6, FS_CardinalityType
  <2>2. Cardinality(R) \notin wrong
    BY <1>3, <1>6, <2>1
  <2> QED
    BY <2>1, <2>2
<1>7. CASE T = {}
  BY <1>4, <1>7, SumOfNone DEF SumsWell
<1>8. CASE T # {}
  <2> DEFINE a == First(T)
             R == T \ {a}
  <2>1. a \in T /\ f[a] \in Int /\ SumOf(f, T) = f[a] + SumOf(f, R)
    BY <1>4, <1>5, <1>8, SumByFirst, FirstIsIn
  <2>2. R \in SUBSET S /\ IsFiniteSet(R) /\ Cardinality(R) \in Nat /\ Cardinality(R) = n - 1
    BY <1>4, <1>5, <1>8, SizeWithoutFirst, FS_Subset
  <2> HIDE DEF a
  <2>3. SumsWell(f, R)
    <3> HIDE DEF R
    <3> QED
      BY <1>5, <1>6, <2>2
  <2>4. SumOf(f, T) \in Int
    BY <2>1, <2>3 DEF SumsWell
  <2>5. ASSUME NEW x \in T PROVE SumOf(f, T) = f[x] + SumOf(f, T \ {x})
    <3>1. CASE x = a
      BY <2>1, <3>1
    <3>2. CASE x # a
      <4> DEFINE U == T \ {x}
                 V == U \ {a}
      <4>1. x \in R /\ f[x] \in Int /\ x \in S
        BY <1>4, <3>2
      <4>2. V = R \ {x} /\ a \in U /\ U \in SUBSET S /\ V \in SUBSET S
        BY <1>4, <2>1, <3>2
      <4>3. /\ IsFiniteSet(U) /\ Cardinality(U) = n - 1
            /\ IsFiniteSet(V) /\ V \in SUBSET U /\ Cardinality(U) \in Nat
        BY <1>4, <1>5, FS_RemoveElement, FS_Subset, FS_CardinalityType
      <4>4. SumOf(f, R) = f[x] + SumOf(f, V)
        BY <2>3, <4>1, <4>2 DEF SumsWell
      <4> HIDE DEF U, V
      <4>5. SumsWell(f, U)
        BY <1>5, <1>6, <4>2, <4>3
      <4>6. SumOf(f, U) = f[a] + SumOf(f, U \ {a})
        BY <4>2, <4>5 DEF SumsWell
      <4>7. SumOf(f, U) = f[a] + SumOf(f, V)
        BY <4>6 DEF V
      <4>8. SumOf(f, V) \in Int
        <5>1. Cardinality(V) < n
          BY <1>5, <4>3, FS_Subset, FS_CardinalityType
        <5> QED
          BY <1>6, <4>2, <4>3, <5>1 DEF SumsWell
      <4>9. SumOf(f, T) = f[x] + SumOf(f, U)
        <5> HIDE DEF R
        <5> QED
          BY <2>1, <4>1, <4>4, <4>7, <4>8
      <4> QED
        BY <4>9 DEF U
    <3> QED
      BY <3>1, <3>2
  <2> QED
    BY <1>4, <2>4, <2>5 DEF SumsWell
<1> QED
  BY <1>7, <1>8

\* Induction over the subsets of a finite set.
LEMMA MemberByMember ==
    ASSUME NEW S, IsFiniteSet(S), NEW W, {} \in W,
           \A T \in SUBSET S : \A x \in T : T \ {x} \in W => T \in W
    PROVE  S \in W
<1> DEFINE out == {n \in Nat : \E T \in SUBSET S : Cardinality(T) = n /\ T \notin W}
<1>1. SUFFICES out = {}
  <2>1. Cardinality(S) \in Nat /\ S \in SUBSET S
    BY FS_CardinalityType
  <2> QED
    BY <1>1, <2>1
<1> SUFFICES ASSUME out # {} PROVE FALSE
  OBVIOUS
<1>2. out \in SUBSET Nat
  OBVIOUS
<1>3. PICK n \in out : \A k \in out : ~(k < n)
  <2> HIDE DEF out
  <2> QED
    BY <1>2, Smallest
<1>4. PICK T \in SUBSET S : Cardinality(T) = n /\ T \notin W
  BY <1>3
<1>5. T # {}
  BY <1>4
<1> DEFINE R == T \ {First(T)}
<1>6. First(T) \in T /\ R \in SUBSET S /\ Cardinality(R) \in Nat /\ Cardinality(R) < n
  BY <1>4, <1>5, SizeWithoutFirst
<1>7. R \in W
  <2> HIDE DEF R
  <2>1. Cardinality(R) \notin out
    BY <1>3, <1>6
  <2> QED
    BY <1>6, <2>1
<1> QED
  BY <1>4, <1>6, <1>7

\* The same numbers under other names have the same sum.
LEMMA SumMoved ==
    ASSUME NEW S, IsFiniteSet(S), NEW f, NEW g, NEW h,
           \A x \in S : f[x] \in Int /\ g[h[x]] = f[x],
           \A x, y \in S : h[x] = h[y] => x = y
    PROVE  SumOf(g, {h[x] : x \in S}) = SumOf(f, S)
<1> DEFINE Image(T) == {h[x] : x \in T}
           W == {T \in SUBSET S : IsFiniteSet(Image(T)) /\ SumOf(g, Image(T)) = SumOf(f, T)}
<1>1. {} \in W
  <2>1. Image({}) = {}
    OBVIOUS
  <2> QED
    BY <2>1, SumOfNone, FS_EmptySet
<1>2. ASSUME NEW T \in SUBSET S, NEW x \in T, T \ {x} \in W PROVE T \in W
  <2> DEFINE I == Image(T)
  <2>1. Image(T \ {x}) = I \ {h[x]} /\ h[x] \in I
    OBVIOUS
  <2>2. IsFiniteSet(I \ {h[x]}) /\ SumOf(g, I \ {h[x]}) = SumOf(f, T \ {x})
    BY <1>2, <2>1
  <2>3. \A y \in I : g[y] \in Int
    OBVIOUS
  <2>4. IsFiniteSet(T) /\ \A y \in T : f[y] \in Int
    BY FS_Subset
  <2>5. IsFiniteSet(I)
    <3>1. I = (I \ {h[x]}) \cup {h[x]}
      BY <2>1
    <3> QED
      BY <2>2, <3>1, FS_AddElement
  <2> HIDE DEF I
  <2>6. SumOf(g, I) = g[h[x]] + SumOf(g, I \ {h[x]})
    BY <2>1, <2>3, <2>5, SumTaking DEF SumsWell
  <2>7. SumOf(f, T) = f[x] + SumOf(f, T \ {x})
    BY <2>4, SumTaking DEF SumsWell
  <2>8. g[h[x]] = f[x]
    OBVIOUS
  <2>9. SumOf(g, I) = SumOf(f, T)
    BY <2>2, <2>6, <2>7, <2>8
  <2> QED
    BY <2>5, <2>9 DEF I
<1>3. S \in W
  <2> HIDE DEF W
  <2> QED
    BY <1>1, <1>2, MemberByMember
<1> QED
  BY <1>3

\* The same, for expressions that depend on the state.
Moved(S, f, g, h) == SumOf(g, {h[x] : x \in S}) = SumOf(f, S)

LEMMA SumIsMoved ==
    ASSUME NEW S, IsFiniteSet(S), NEW f, NEW g, NEW h,
           \A x \in S : f[x] \in Int /\ g[h[x]] = f[x],
           \A x, y \in S : h[x] = h[y] => x = y
    PROVE  Moved(S, f, g, h)
<1>1. SumOf(g, {h[x] : x \in S}) = SumOf(f, S)
  BY SumMoved
<1> QED
  BY <1>1 DEF Moved

\* Differences add up to no more than their bounds do.
Near(a, b, c) == a - b <= c /\ b - a <= c

\* What is near member by member is near in sum.
LEMMA SumNear ==
    ASSUME NEW S, IsFiniteSet(S), NEW f, NEW g, NEW a \in Int, NEW b \in Int, NEW c \in Int,
           \A x \in S : f[x] \in Int /\ g[x] \in Int /\ Near(a * f[x], b * g[x], c)
    PROVE  Near(a * SumOf(f, S), b * SumOf(g, S), c * Cardinality(S))
<1> DEFINE Close(T) == Near(a * SumOf(f, T), b * SumOf(g, T), c * Cardinality(T))
           W == {T \in SUBSET S : Close(T)}
<1>1. {} \in W
  <2>1. SumOf(f, {}) = 0 /\ SumOf(g, {}) = 0 /\ Cardinality({}) = 0
    BY SumOfNone, FS_EmptySet
  <2> QED
    BY <2>1 DEF Near
<1>2. ASSUME NEW T \in SUBSET S, NEW x \in T, T \ {x} \in W PROVE T \in W
  <2> DEFINE R == T \ {x}
             k == Cardinality(R)
             F == SumOf(f, R)
             G == SumOf(g, R)
             u == f[x]
             v == g[x]
  <2>1. IsFiniteSet(T) /\ IsFiniteSet(R) /\ (\A y \in T : f[y] \in Int /\ g[y] \in Int)
    BY FS_Subset
  <2>2. SumOf(f, T) = u + F /\ SumOf(g, T) = v + G
    BY <2>1, SumTaking DEF SumsWell
  <2>3. F \in Int /\ G \in Int
    <3>1. \A y \in R : f[y] \in Int /\ g[y] \in Int
      BY <2>1
    <3> HIDE DEF R
    <3> QED
      BY <2>1, <3>1, SumTaking DEF SumsWell
  <2>4. Cardinality(T) = k + 1 /\ k \in Nat
    BY <2>1, FS_RemoveElement, FS_CardinalityType
  <2>5. u \in Int /\ v \in Int /\ Near(a * u, b * v, c)
    OBVIOUS
  <2>6. Near(a * F, b * G, c * k)
    BY <1>2
  <2> HIDE DEF R, k, F, G, u, v
  <2>7. /\ a * (u + F) = a * u + a * F /\ b * (v + G) = b * v + b * G
        /\ c * (k + 1) = c * k + c
        /\ a * u \in Int /\ a * F \in Int /\ b * v \in Int /\ b * G \in Int /\ c * k \in Int
    BY <2>3, <2>4, <2>5
  <2>8. Near(a * (u + F), b * (v + G), c * (k + 1))
    <3> DEFINE p == a * u
               q == a * F
               r == b * v
               s == b * G
               w == c * k
    <3>1. /\ p \in Int /\ q \in Int /\ r \in Int /\ s \in Int /\ w \in Int
          /\ Near(p, r, c) /\ Near(q, s, w)
      BY <2>5, <2>6, <2>7
    <3> HIDE DEF p, q, r, s, w
    <3>2. Near(p + q, r + s, w + c)
      BY <3>1 DEF Near
    <3> QED
      BY <2>7, <3>2 DEF p, q, r, s, w
  <2>9. Close(T)
    BY <2>2, <2>4, <2>8
  <2> QED
    BY <2>9
<1>3. S \in W
  <2> HIDE DEF W
  <2> QED
    BY <1>1, <1>2, MemberByMember
<1> QED
  BY <1>3

\* Two sets without a common member.
LEMMA SumOfTwo ==
    ASSUME NEW A, NEW B, IsFiniteSet(A), IsFiniteSet(B), A \cap B = {}, NEW f,
           \A x \in A \cup B : f[x] \in Int
    PROVE  SumOf(f, A \cup B) = SumOf(f, A) + SumOf(f, B)
<1> DEFINE W == {T \in SUBSET B : SumOf(f, A \cup T) = SumOf(f, A) + SumOf(f, T)}
<1>0. SumOf(f, A) \in Int
  BY SumTaking DEF SumsWell
<1>1. {} \in W
  <2>1. A \cup {} = A
    OBVIOUS
  <2> QED
    BY <1>0, <2>1, SumOfNone
<1>2. ASSUME NEW T \in SUBSET B, NEW x \in T, T \ {x} \in W PROVE T \in W
  <2> DEFINE R == T \ {x}
             P == A \cup T
  <2>1. IsFiniteSet(T) /\ IsFiniteSet(R) /\ IsFiniteSet(P)
    BY FS_Subset, FS_Union
  <2>2. SumOf(f, T) = f[x] + SumOf(f, R)
    BY <2>1, SumTaking DEF SumsWell
  <2>3. SumOf(f, R) \in Int
    <3>1. \A y \in R : f[y] \in Int
      OBVIOUS
    <3> HIDE DEF R
    <3> QED
      BY <2>1, <3>1, SumTaking DEF SumsWell
  <2>4. SumOf(f, P) = f[x] + SumOf(f, P \ {x})
    <3>1. x \in P /\ \A y \in P : f[y] \in Int
      OBVIOUS
    <3> HIDE DEF P
    <3> QED
      BY <2>1, <3>1, SumTaking DEF SumsWell
  <2>5. P \ {x} = A \cup R
    OBVIOUS
  <2>6. SumOf(f, A \cup R) = SumOf(f, A) + SumOf(f, R) /\ f[x] \in Int
    BY <1>2
  <2> HIDE DEF R, P
  <2>7. SumOf(f, P) = SumOf(f, A) + SumOf(f, T)
    <3>1. SumOf(f, P \ {x}) = SumOf(f, A) + SumOf(f, R)
      BY <2>5, <2>6
    <3> DEFINE a == SumOf(f, A)
               r == SumOf(f, R)
               y == f[x]
               q == SumOf(f, P \ {x})
    <3>2. /\ a \in Int /\ r \in Int /\ y \in Int /\ q = a + r
          /\ SumOf(f, P) = y + q /\ SumOf(f, T) = y + r
      BY <1>0, <2>2, <2>3, <2>4, <2>6, <3>1
    <3> HIDE DEF a, r, y, q
    <3>3. SumOf(f, P) = a + SumOf(f, T)
      BY <3>2
    <3> QED
      BY <3>3 DEF a
  <2> QED
    BY <2>7 DEF P
<1>3. B \in W
  <2> HIDE DEF W
  <2> QED
    BY <1>1, <1>2, MemberByMember
<1> QED
  BY <1>3

\* A set taken apart: a sum of sums.
Apart(K, S) == \A s, t \in S : s # t => K[s] \cap K[t] = {}

\* A sum over parts that have nothing in common is the sum of their sums.
LEMMA SumOfParts ==
    ASSUME NEW S, IsFiniteSet(S), NEW K, NEW f, NEW g, Apart(K, S),
           \A s \in S : IsFiniteSet(K[s]) /\ g[s] = SumOf(f, K[s]),
           \A s \in S : \A x \in K[s] : f[x] \in Int
    PROVE  /\ IsFiniteSet(UNION {K[s] : s \in S})
           /\ SumOf(f, UNION {K[s] : s \in S}) = SumOf(g, S)
<1> DEFINE All(T) == UNION {K[s] : s \in T}
           W == {T \in SUBSET S : IsFiniteSet(All(T)) /\ SumOf(f, All(T)) = SumOf(g, T)}
<1>1. {} \in W
  <2>1. All({}) = {}
    OBVIOUS
  <2> QED
    BY <2>1, SumOfNone, FS_EmptySet
<1>2. ASSUME NEW T \in SUBSET S, NEW s \in T, T \ {s} \in W PROVE T \in W
  <2> DEFINE R == T \ {s}
             A == All(R)
             B == K[s]
  <2>1. All(T) = A \cup B /\ A \cap B = {}
    BY DEF Apart
  <2>2. IsFiniteSet(A) /\ IsFiniteSet(B) /\ SumOf(f, A) = SumOf(g, R)
    BY <1>2
  <2>3. \A x \in A \cup B : f[x] \in Int
    OBVIOUS
  <2>4. \A t \in T : g[t] \in Int
    BY SumTaking DEF SumsWell
  <2>5. SumOf(g, T) = g[s] + SumOf(g, R) /\ SumOf(g, R) \in Int /\ g[s] \in Int
    <3>1. IsFiniteSet(T) /\ IsFiniteSet(R) /\ R \in SUBSET T
      BY FS_Subset
    <3>2. SumsWell(g, T) /\ SumsWell(g, R)
      <4>1. \A t \in R : g[t] \in Int
        BY <2>4
      <4> HIDE DEF R
      <4> QED
        BY <2>4, <3>1, <4>1, SumTaking
    <3> QED
      BY <2>4, <3>2 DEF SumsWell
  <2>6. g[s] = SumOf(f, B)
    OBVIOUS
  <2> HIDE DEF A, B, R
  <2>7. SumOf(f, A \cup B) = SumOf(f, A) + SumOf(f, B) /\ IsFiniteSet(A \cup B)
    <3>1. SumOf(f, A \cup B) = SumOf(f, A) + SumOf(f, B)
      BY <2>1, <2>2, <2>3, SumOfTwo
    <3>2. IsFiniteSet(A \cup B)
      BY <2>2, FS_Union
    <3> QED
      BY <3>1, <3>2
  <2>8. SumOf(f, A \cup B) = SumOf(g, T)
    BY <2>2, <2>5, <2>6, <2>7
  <2> QED
    BY <2>1, <2>7, <2>8
<1>3. S \in W
  <2> HIDE DEF W
  <2> QED
    BY <1>1, <1>2, MemberByMember
<1> QED
  BY <1>3

\* Likewise.
AddsInParts(S, K, f, g) == SumOf(f, UNION {K[s] : s \in S}) = SumOf(g, S)

LEMMA SumInParts ==
    ASSUME NEW S, IsFiniteSet(S), NEW K, NEW f, NEW g, Apart(K, S),
           \A s \in S : IsFiniteSet(K[s]) /\ g[s] = SumOf(f, K[s]),
           \A s \in S : \A x \in K[s] : f[x] \in Int
    PROVE  AddsInParts(S, K, f, g)
<1>1. SumOf(f, UNION {K[s] : s \in S}) = SumOf(g, S)
  BY SumOfParts
<1> QED
  BY <1>1 DEF AddsInParts

\* Counting is adding ones; adding one number is multiplying.
LEMMA SumOfOnes ==
    ASSUME NEW S, IsFiniteSet(S), NEW f, NEW m \in Int, \A x \in S : f[x] = m
    PROVE  SumOf(f, S) = m * Cardinality(S)
<1> DEFINE W == {T \in SUBSET S : SumOf(f, T) = m * Cardinality(T)}
<1>1. {} \in W
  BY SumOfNone, FS_EmptySet
<1>2. ASSUME NEW T \in SUBSET S, NEW x \in T, T \ {x} \in W PROVE T \in W
  <2> DEFINE R == T \ {x}
             k == Cardinality(R)
  <2>1. IsFiniteSet(T) /\ IsFiniteSet(R)
    BY FS_Subset
  <2>2. Cardinality(T) = k + 1 /\ k \in Nat
    BY <2>1, FS_RemoveElement, FS_CardinalityType
  <2>3. SumOf(f, T) = m + SumOf(f, R)
    BY <2>1, SumTaking DEF SumsWell
  <2>4. SumOf(f, R) = m * k
    BY <1>2
  <2> HIDE DEF R, k
  <2>5. m + m * k = m * (k + 1)
    BY <2>2
  <2> QED
    BY <2>2, <2>3, <2>4, <2>5
<1>3. S \in W
  <2> HIDE DEF W
  <2> QED
    BY <1>1, <1>2, MemberByMember
<1> QED
  BY <1>3

\* A set in such parts has as many members as they have together.
LEMMA CountedInParts ==
    ASSUME NEW S, IsFiniteSet(S), NEW K, NEW g, Apart(K, S),
           \A s \in S : IsFiniteSet(K[s]) /\ g[s] = Cardinality(K[s])
    PROVE  /\ IsFiniteSet(UNION {K[s] : s \in S})
           /\ Cardinality(UNION {K[s] : s \in S}) = SumOf(g, S)
<1> DEFINE All == UNION {K[s] : s \in S}
           one == [x \in All |-> 1]
<1>1. \A s \in S : \A x \in K[s] : one[x] = 1
  OBVIOUS
<1>2. \A x \in All : one[x] = 1
  OBVIOUS
<1> HIDE DEF one
<1>3. ASSUME NEW s \in S PROVE g[s] = SumOf(one, K[s])
  <2>1. SumOf(one, K[s]) = 1 * Cardinality(K[s])
    BY <1>1, SumOfOnes
  <2>2. Cardinality(K[s]) \in Nat
    BY FS_CardinalityType
  <2> QED
    BY <2>1, <2>2
<1>4. IsFiniteSet(All) /\ SumOf(one, All) = SumOf(g, S)
  BY <1>1, <1>3, SumOfParts
<1>5. SumOf(one, All) = 1 * Cardinality(All) /\ Cardinality(All) \in Nat
  <2> HIDE DEF All
  <2> QED
    BY <1>2, <1>4, SumOfOnes, FS_CardinalityType
<1> QED
  BY <1>4, <1>5


-----------------------------------------------------------------------------
(* The dashboard's prices, added up as fractions. *)

Free == [num |-> 0, den |-> 1]
WithItem(i, sum) == [num |-> sum.num * i.qty + i.price_cents * sum.den,
                     den |-> sum.den * i.qty]

Priced(g, F) ==
    g = [s \in F |-> IF s = {} THEN Free ELSE WithItem(First(s), g[s \ {First(s)}])]

\* PriceSum likewise: something prices every subset, and the fold is it.
LEMMA PricingWorks ==
    ASSUME NEW S, IsFiniteSet(S)
    PROVE  \E g : Priced(g, SUBSET S)
<1> DEFINE stuck == {n \in Nat : ~ \E g : Priced(g, UpToSize(S, n))}
<1>1. stuck = {}
  <2> SUFFICES ASSUME stuck # {} PROVE FALSE
    OBVIOUS
  <2>0. stuck \in SUBSET Nat
    OBVIOUS
  <2>1. PICK n \in stuck : \A k \in stuck : ~(k < n)
    <3> HIDE DEF stuck
    <3> QED
      BY <2>0, Smallest
  <2>2. n \in Nat /\ ~ \E g : Priced(g, UpToSize(S, n))
    BY <2>1
  <2>3. CASE n = 0
    <3> DEFINE g == [s \in UpToSize(S, n) |-> Free]
    <3>1. \A s \in UpToSize(S, n) : s = {}
      <4> SUFFICES ASSUME NEW s \in UpToSize(S, n), s # {} PROVE FALSE
        OBVIOUS
      <4>1. s \in SUBSET S /\ Cardinality(s) <= 0
        BY <2>3 DEF UpToSize
      <4>2. /\ Cardinality(s) \in Nat /\ Cardinality(s \ {First(s)}) \in Nat
            /\ Cardinality(s \ {First(s)}) = Cardinality(s) - 1
        BY <4>1, SizeWithoutFirst
      <4> QED
        BY <4>1, <4>2
    <3>2. Priced(g, UpToSize(S, n))
      BY <3>1, Zenon DEF Priced
    <3> QED
      BY <2>2, <3>2
  <2>4. CASE n # 0
    <3>1. n - 1 \in Nat /\ n - 1 < n /\ n - 1 \notin stuck
      BY <2>1, <2>2, <2>4
    <3>2. PICK h : Priced(h, UpToSize(S, n - 1))
      BY <3>1
    <3> DEFINE g == [s \in UpToSize(S, n) |-> IF s = {} THEN Free ELSE WithItem(First(s), h[s \ {First(s)}])]
    <3>3. \A t \in UpToSize(S, n - 1) : t \in UpToSize(S, n) /\ g[t] = h[t]
      <4> SUFFICES ASSUME NEW t \in UpToSize(S, n - 1) PROVE t \in UpToSize(S, n) /\ g[t] = h[t]
        OBVIOUS
      <4>1. t \in UpToSize(S, n)
        <5>1. t \in SUBSET S /\ Cardinality(t) <= n - 1 /\ Cardinality(t) \in Nat
          BY FS_Subset, FS_CardinalityType DEF UpToSize
        <5> QED
          BY <2>2, <5>1 DEF UpToSize
      <4>2. h[t] = IF t = {} THEN Free ELSE WithItem(First(t), h[t \ {First(t)}])
        BY <3>2, Zenon DEF Priced
      <4> QED
        BY <4>1, <4>2
    <3>4. \A s \in UpToSize(S, n) : s # {} => s \ {First(s)} \in UpToSize(S, n - 1)
      <4> SUFFICES ASSUME NEW s \in UpToSize(S, n), s # {}
                   PROVE  s \ {First(s)} \in UpToSize(S, n - 1)
        OBVIOUS
      <4>1. s \in SUBSET S /\ Cardinality(s) <= n
        BY DEF UpToSize
      <4> DEFINE r == s \ {First(s)}
      <4>2. r \in SUBSET S /\ Cardinality(r) = Cardinality(s) - 1 /\ Cardinality(s) \in Nat
        BY <4>1, SizeWithoutFirst
      <4> HIDE DEF r
      <4>3. r \in UpToSize(S, n - 1)
        BY <2>2, <4>1, <4>2 DEF UpToSize
      <4> QED
        BY <4>3 DEF r
    <3>5. \A s \in UpToSize(S, n) : s # {} => g[s \ {First(s)}] = h[s \ {First(s)}]
      <4> HIDE DEF g
      <4> QED
        BY <3>3, <3>4
    <3>6. Priced(g, UpToSize(S, n))
      <4> DEFINE w == [s \in UpToSize(S, n) |-> IF s = {} THEN Free ELSE WithItem(First(s), g[s \ {First(s)}])]
      <4>1. \A s \in UpToSize(S, n) : g[s] = w[s]
        BY <3>5
      <4>2. g = w
        BY <4>1
      <4> QED
        BY <4>2 DEF Priced
    <3> QED
      BY <2>2, <3>6
  <2> QED
    BY <2>3, <2>4
<1>2. Cardinality(S) \in Nat
  BY FS_CardinalityType
<1>3. UpToSize(S, Cardinality(S)) = SUBSET S
  BY FS_Subset DEF UpToSize
<1>4. PICK g : Priced(g, UpToSize(S, Cardinality(S)))
  BY <1>1, <1>2
<1> QED
  BY <1>3, <1>4


LEMMA PriceSumIs ==
    ASSUME NEW S, IsFiniteSet(S)
    PROVE  \E g : Priced(g, SUBSET S) /\ PriceSum(S) = g[S]
<1> DEFINE G == CHOOSE g : Priced(g, SUBSET S)
<1>1. Priced(G, SUBSET S)
  BY PricingWorks
<1>2. PriceSum(S) = G[S]
  BY DEF PriceSum, FoldSet, MapThenFoldSet, Priced, First, Free, WithItem
<1> QED
  BY <1>1, <1>2

\* Math.round of a quotient is off by half at most.
LEMMA RoundedIsNear ==
    ASSUME NEW a \in Int, NEW b \in Nat \ {0}
    PROVE  RoundDiv(a, b) \in Int /\ Near(2 * a, 2 * b * RoundDiv(a, b), b)
<1> DEFINE x == 2 * a + b
           d == 2 * b
           q == x \div d
<1>1. x \in Int /\ d \in Nat \ {0} /\ x = 2 * a + b /\ d = 2 * b
  OBVIOUS
<1>2. q = RoundDiv(a, b)
  BY DEF RoundDiv
<1>3. q \in Int /\ d * q <= x /\ x < d * q + d
  <2> HIDE DEF x, d
  <2> QED
    BY <1>1
<1> HIDE DEF q, x, d
<1>4. d * q \in Int
  BY <1>1, <1>3
<1>5. Near(2 * a, d * q, b)
  <2> DEFINE y == d * q
  <2>1. y \in Int /\ y <= x /\ x < y + d
    BY <1>3, <1>4
  <2> HIDE DEF y
  <2>2. Near(2 * a, y, b)
    BY <1>1, <2>1 DEF Near
  <2> QED
    BY <2>2 DEF y
<1> QED
  BY <1>1, <1>2, <1>3, <1>5

\* One more item: the fractions stay as near as the items are.
LEMMA OneMoreItem ==
    ASSUME NEW num \in Nat, NEW den \in Nat \ {0}, NEW sum \in Int, NEW k \in Nat,
           NEW cents \in Nat, NEW qty \in Nat \ {0}, NEW w \in Int,
           Near(10 * num, den * sum, 5 * k * den), Near(10 * cents, qty * w, 5 * qty)
    PROVE  Near(10 * (num * qty + cents * den), (den * qty) * (w + sum),
                5 * (k + 1) * (den * qty))
<1>1. ASSUME NEW a \in Int, NEW b \in Int, NEW c \in Int, NEW m \in Nat, Near(a, b, c)
      PROVE  Near(m * a, m * b, m * c)
  <2>1. m * (a - b) <= m * c /\ m * (b - a) <= m * c
    <3> DEFINE x == a - b
               y == b - a
    <3>1. x \in Int /\ y \in Int /\ x <= c /\ y <= c
      BY <1>1 DEF Near
    <3> HIDE DEF x, y
    <3>2. m * x <= m * c /\ m * y <= m * c
      <4>1. m * (c - x) \in Nat /\ m * (c - y) \in Nat
        BY <3>1
      <4>2. m * (c - x) = m * c - m * x /\ m * (c - y) = m * c - m * y
        BY <3>1
      <4>3. m * x \in Int /\ m * y \in Int /\ m * c \in Int
        BY <3>1
      <4> QED
        BY <4>1, <4>2, <4>3
    <3> QED
      BY <3>2 DEF x, y
  <2>2. m * (a - b) = m * a - m * b /\ m * (b - a) = m * b - m * a
    OBVIOUS
  <2> QED
    BY <2>1, <2>2 DEF Near
<1>2. Near(qty * (10 * num), qty * (den * sum), qty * (5 * k * den))
  <2> DEFINE x == 10 * num
             y == den * sum
             z == 5 * k * den
  <2>1. x \in Int /\ y \in Int /\ z \in Int /\ qty \in Nat /\ Near(x, y, z)
    OBVIOUS
  <2> HIDE DEF x, y, z
  <2>2. Near(qty * x, qty * y, qty * z)
    BY <1>1, <2>1
  <2> QED
    BY <2>2 DEF x, y, z
<1>3. Near(den * (10 * cents), den * (qty * w), den * (5 * qty))
  <2> DEFINE x == 10 * cents
             y == qty * w
             z == 5 * qty
  <2>1. x \in Int /\ y \in Int /\ z \in Int /\ den \in Nat /\ Near(x, y, z)
    OBVIOUS
  <2> HIDE DEF x, y, z
  <2>2. Near(den * x, den * y, den * z)
    BY <1>1, <2>1
  <2> QED
    BY <2>2 DEF x, y, z
<1>4. ASSUME NEW a \in Int, NEW b \in Int, NEW c \in Int, Near(a, b, c),
             NEW d \in Int, NEW e \in Int, NEW f \in Int, Near(d, e, f)
      PROVE  Near(a + d, b + e, c + f)
  BY <1>4 DEF Near
<1> DEFINE a == qty * (10 * num)
           b == qty * (den * sum)
           c == qty * (5 * k * den)
           d == den * (10 * cents)
           e == den * (qty * w)
           f == den * (5 * qty)
<1>5. /\ a \in Int /\ b \in Int /\ c \in Int /\ d \in Int /\ e \in Int /\ f \in Int
      /\ Near(a, b, c) /\ Near(d, e, f)
  BY <1>2, <1>3
<1>6. a + d = 10 * (num * qty + cents * den)
  OBVIOUS
<1>7. b + e = (den * qty) * (w + sum)
  <2> DEFINE v == den * qty
  <2>1. b = v * sum /\ e = v * w /\ v \in Int
    OBVIOUS
  <2> HIDE DEF v, b, e
  <2>2. b + e = v * (w + sum)
    BY <2>1
  <2> QED
    BY <2>2 DEF v
<1>8. c + f = 5 * (k + 1) * (den * qty)
  <2> DEFINE v == den * qty
  <2>1. c = 5 * k * v /\ f = 5 * v /\ v \in Int
    OBVIOUS
  <2> HIDE DEF v, c, f
  <2>2. c + f = 5 * (k + 1) * v
    BY <2>1
  <2> QED
    BY <2>2 DEF v
<1> HIDE DEF a, b, c, d, e, f
<1>9. Near(a + d, b + e, c + f)
  BY <1>4, <1>5
<1> QED
  BY <1>6, <1>7, <1>8, <1>9

\* The prices of a set of items, as a fraction, and the rounded price of each.
LEMMA PricesAreNear ==
    ASSUME NEW S, IsFiniteSet(S), NEW w,
           \A i \in S : /\ i.price_cents \in Nat /\ i.qty \in Nat \ {0} /\ w[i] \in Int
                        /\ Near(10 * i.price_cents, i.qty * w[i], 5 * i.qty)
    PROVE  LET p == PriceSum(S)
           IN  /\ p.num \in Nat /\ p.den \in Nat \ {0}
               /\ Near(10 * p.num, p.den * SumOf(w, S), 5 * Cardinality(S) * p.den)
<1> DEFINE Fair(p, T) == /\ p.num \in Nat /\ p.den \in Nat \ {0}
                         /\ Near(10 * p.num, p.den * SumOf(w, T), 5 * Cardinality(T) * p.den)
<1>1. PICK g : Priced(g, SUBSET S) /\ PriceSum(S) = g[S]
  BY PriceSumIs
<1> DEFINE out == {n \in Nat : \E T \in SUBSET S : Cardinality(T) = n /\ ~Fair(g[T], T)}
<1>2. out = {}
  <2> SUFFICES ASSUME out # {} PROVE FALSE
    OBVIOUS
  <2>1. out \in SUBSET Nat
    OBVIOUS
  <2>2. PICK n \in out : \A k \in out : ~(k < n)
    <3> HIDE DEF out
    <3> QED
      BY <2>1, Smallest
  <2>3. PICK T \in SUBSET S : Cardinality(T) = n /\ ~Fair(g[T], T)
    BY <2>2
  <2>4. g[T] = IF T = {} THEN Free ELSE WithItem(First(T), g[T \ {First(T)}])
    BY <1>1, Zenon DEF Priced
  <2>5. CASE T = {}
    <3>1. g[T].num = 0 /\ g[T].den = 1
      BY <2>4, <2>5 DEF Free
    <3>2. SumOf(w, T) = 0 /\ Cardinality(T) = 0
      BY <2>5, SumOfNone, FS_EmptySet
    <3>3. Near(10 * 0, 1 * 0, 5 * 0 * 1)
      BY DEF Near
    <3> QED
      BY <2>3, <3>1, <3>2, <3>3
  <2>6. CASE T # {}
    <3> DEFINE i == First(T)
               R == T \ {i}
               p == g[R]
    <3>1. /\ i \in T /\ R \in SUBSET S /\ IsFiniteSet(T) /\ Cardinality(R) \in Nat
          /\ Cardinality(T) = Cardinality(R) + 1 /\ Cardinality(R) < n
      <4>1. /\ First(T) \in T /\ T \ {First(T)} \in SUBSET S /\ IsFiniteSet(T)
            /\ Cardinality(T) \in Nat /\ Cardinality(T \ {First(T)}) \in Nat
            /\ Cardinality(T \ {First(T)}) = Cardinality(T) - 1
        BY <2>6, SizeWithoutFirst
      <4>2. Cardinality(T) = n
        BY <2>3
      <4> DEFINE r == Cardinality(R)
      <4>3. r \in Nat /\ r = n - 1 /\ n \in Nat
        BY <4>1, <4>2
      <4> HIDE DEF r
      <4>4. r < n /\ n = r + 1
        BY <4>3
      <4> QED
        BY <4>1, <4>2, <4>3, <4>4 DEF r
    <3>2. Fair(p, R)
      <4> HIDE DEF R, Fair
      <4>1. Cardinality(R) \notin out
        BY <2>2, <3>1
      <4> QED
        BY <3>1, <4>1
    <3>3. SumOf(w, T) = w[i] + SumOf(w, R) /\ SumOf(w, R) \in Int
      <4>1. IsFiniteSet(R)
        BY <3>1, FS_Subset
      <4>2. (\A x \in T : w[x] \in Int) /\ (\A x \in R : w[x] \in Int)
        BY <3>1
      <4> HIDE DEF i, R
      <4>3. SumsWell(w, T) /\ SumsWell(w, R)
        BY <3>1, <4>1, <4>2, SumTaking
      <4> QED
        BY <3>1, <4>3 DEF SumsWell, R
    <3>4. /\ g[T].num = p.num * i.qty + i.price_cents * p.den
          /\ g[T].den = p.den * i.qty
      BY <2>4, <2>6 DEF WithItem
    <3>5. /\ i.price_cents \in Nat /\ i.qty \in Nat \ {0} /\ w[i] \in Int
          /\ Near(10 * i.price_cents, i.qty * w[i], 5 * i.qty)
      BY <3>1
    <3>6. /\ p.num \in Nat /\ p.den \in Nat \ {0}
          /\ Near(10 * p.num, p.den * SumOf(w, R), 5 * Cardinality(R) * p.den)
      BY <3>2
    <3> DEFINE num == p.num
               den == p.den
               sum == SumOf(w, R)
               k == Cardinality(R)
               cents == i.price_cents
               qty == i.qty
               v == w[i]
    <3>7. /\ num \in Nat /\ den \in Nat \ {0} /\ sum \in Int /\ k \in Nat
          /\ cents \in Nat /\ qty \in Nat \ {0} /\ v \in Int
          /\ Near(10 * num, den * sum, 5 * k * den) /\ Near(10 * cents, qty * v, 5 * qty)
      BY <3>1, <3>3, <3>5, <3>6
    <3>8. /\ g[T].num = num * qty + cents * den /\ g[T].den = den * qty
          /\ SumOf(w, T) = v + sum /\ Cardinality(T) = k + 1
      BY <3>1, <3>3, <3>4
    <3> HIDE DEF num, den, sum, k, cents, qty, v
    <3>9. Near(10 * (num * qty + cents * den), (den * qty) * (v + sum),
               5 * (k + 1) * (den * qty))
      BY <3>7, OneMoreItem
    <3>10. num * qty + cents * den \in Nat /\ den * qty \in Nat \ {0}
      BY <3>7
    <3>11. Fair(g[T], T)
      <4>1. Near(10 * g[T].num, g[T].den * SumOf(w, T), 5 * Cardinality(T) * g[T].den)
        BY <3>8, <3>9
      <4> QED
        BY <3>8, <3>10, <4>1
    <3> QED
      BY <2>3, <3>11
  <2> QED
    BY <2>5, <2>6
<1>3. Cardinality(S) \in Nat /\ S \in SUBSET S
  BY FS_CardinalityType
<1>4. Fair(g[S], S)
  <2> HIDE DEF Fair
  <2> QED
    BY <1>2, <1>3
<1> QED
  BY <1>1, <1>4


-----------------------------------------------------------------------------
(* Counting venues. *)

\* A set has as many members as its image under a one-to-one function.
LEMMA ImageOf ==
    ASSUME NEW V, IsFiniteSet(V), NEW f, \A v, w \in V : f[v] = f[w] => v = w
    PROVE  IsFiniteSet({f[v] : v \in V}) /\ Cardinality({f[v] : v \in V}) = Cardinality(V)
<1> DEFINE b == [v \in V |-> f[v]]
           A == {f[v] : v \in V}
<1>1. \A v \in V : b[v] = f[v] /\ f[v] \in A
  OBVIOUS
<1>2. \A y \in A : \E v \in V : f[v] = y
  OBVIOUS
<1>3. DOMAIN b = V /\ b = [v \in V |-> b[v]]
  OBVIOUS
<1> HIDE DEF b, A
<1>4. b \in [V -> A]
  BY <1>1, <1>3
<1>5. b \in Bijection(V, A)
  BY <1>1, <1>2, <1>4 DEF Bijection, Injection, Surjection, IsInjective
<1>6. IsFiniteSet(A) /\ Cardinality(A) = Cardinality(V)
  BY <1>5, FS_Bijection DEF ExistsBijection
<1> QED
  BY <1>6 DEF A

\* One member of S for each of V, and another one for each of R.
Represent(V, rep, R, other, S, ven) ==
    /\ \A v \in V : rep[v] \in S /\ ven[rep[v]] = v
    /\ \A v \in R : other[v] \in S /\ ven[other[v]] = v /\ other[v] # rep[v]

HaveRoom(V, rep, R, other, S, ven) == Cardinality(V) + Cardinality(R) <= Cardinality(S)

\* One survey for each venue and another for each revisited one are all different.
LEMMA TwoForSome ==
    ASSUME NEW S, IsFiniteSet(S), NEW V, IsFiniteSet(V), NEW R, R \subseteq V,
           NEW rep, NEW other, NEW ven, Represent(V, rep, R, other, S, ven)
    PROVE  HaveRoom(V, rep, R, other, S, ven)
<1>0. /\ \A v \in V : rep[v] \in S /\ ven[rep[v]] = v
      /\ \A v \in R : other[v] \in S /\ ven[other[v]] = v /\ other[v] # rep[v]
  BY DEF Represent
<1> DEFINE A == {rep[v] : v \in V}
           B == {other[v] : v \in R}
<1>1. IsFiniteSet(A) /\ Cardinality(A) = Cardinality(V)
  <2>1. \A v, w \in V : rep[v] = rep[w] => v = w
    BY <1>0
  <2> QED
    BY <2>1, ImageOf
<1>2. IsFiniteSet(B) /\ Cardinality(B) = Cardinality(R)
  <2>1. IsFiniteSet(R)
    BY FS_Subset
  <2>2. \A v, w \in R : other[v] = other[w] => v = w
    BY <1>0
  <2> QED
    BY <2>1, <2>2, ImageOf
<1>3. A \cap B = {}
  <2>1. ASSUME NEW v \in V, NEW w \in R, rep[v] = other[w] PROVE FALSE
    <3>1. v = w
      BY <1>0, <2>1
    <3> QED
      BY <1>0, <2>1, <3>1
  <2> QED
    BY <2>1
<1>4. A \cup B \subseteq S
  BY <1>0
<1> HIDE DEF A, B
<1>5. Cardinality(A \cup B) = Cardinality(A) + Cardinality(B)
  <2>1. Cardinality(A \cap B) = 0 /\ Cardinality(A) \in Nat /\ Cardinality(B) \in Nat
    BY <1>1, <1>2, <1>3, FS_EmptySet, FS_CardinalityType
  <2>2. Cardinality(A \cup B) = Cardinality(A) + Cardinality(B) - Cardinality(A \cap B)
    BY <1>1, <1>2, FS_Union
  <2> QED
    BY <2>1, <2>2
<1>6. Cardinality(A \cup B) <= Cardinality(S)
  BY <1>4, FS_Subset
<1> QED
  BY <1>1, <1>2, <1>5, <1>6 DEF HaveRoom

\* One representative of each, and one more of each that is not alone.
VenuesFit(S, ven, lab, V, L, R) ==
    /\ IsFiniteSet(V) /\ Cardinality(L) = Cardinality(V)
    /\ Cardinality(R) = 0 <=> Cardinality(V) = Cardinality(S)
    /\ Cardinality(V) + Cardinality(R) <= Cardinality(S)

\* Labels that tell venues apart count them, and every revisit costs one.
LEMMA VenuesCounted ==
    ASSUME NEW S, IsFiniteSet(S), NEW ven, NEW lab,
           \A s, t \in S : lab[s] = lab[t] <=> ven[s] = ven[t],
           NEW V, V = {ven[s] : s \in S},
           NEW L, L = {lab[s] : s \in S},
           NEW R, R = {v \in V : Cardinality({s \in S : ven[s] = v}) > 1}
    PROVE  VenuesFit(S, ven, lab, V, L, R)
<1> DEFINE rep == [v \in V |-> CHOOSE s \in S : ven[s] = v]
<1>1. \A v \in V : rep[v] \in S /\ ven[rep[v]] = v
  OBVIOUS
<1> HIDE DEF rep
<1>2. DOMAIN rep = V /\ rep \in [V -> S]
  BY <1>1 DEF rep
<1>3. rep \in Injection(V, S)
  BY <1>1, <1>2 DEF Injection, IsInjective
<1>4. IsFiniteSet(V) /\ (Cardinality(V) = Cardinality(S) <=> rep \in Surjection(V, S))
  BY <1>3, FS_Injection
<1>5. Cardinality(L) = Cardinality(V)
  <2> DEFINE b == [v \in V |-> lab[rep[v]]]
  <2>1. \A v, w \in V : b[v] = b[w] => v = w
    BY <1>1
  <2>2. \A y \in L : \E v \in V : b[v] = y
    <3> SUFFICES ASSUME NEW s \in S PROVE \E v \in V : b[v] = lab[s]
      OBVIOUS
    <3>1. ven[s] \in V /\ lab[rep[ven[s]]] = lab[s]
      BY <1>1
    <3> QED
      BY <3>1
  <2>3. b \in [V -> L]
    BY <1>1
  <2> HIDE DEF b
  <2>4. b \in Bijection(V, L)
    BY <2>1, <2>2, <2>3 DEF Bijection, Injection, Surjection, IsInjective
  <2>5. ExistsBijection(V, L)
    BY <2>4 DEF ExistsBijection
  <2> QED
    BY <1>4, <2>5, FS_Bijection
<1> DEFINE At(v) == {s \in S : ven[s] = v}
<1>6. ASSUME NEW v \in V
      PROVE  v \in R <=> \E s \in S : ven[s] = v /\ s # rep[v]
  <2>1. IsFiniteSet(At(v)) /\ rep[v] \in At(v) /\ Cardinality(At(v)) \in Nat
    <3>1. At(v) \in SUBSET S
      OBVIOUS
    <3> QED
      BY <1>1, <3>1, FS_Subset, FS_CardinalityType
  <2> DEFINE B == At(v) \ {rep[v]}
  <2>2. IsFiniteSet(B) /\ Cardinality(At(v)) = Cardinality(B) + 1 /\ Cardinality(B) \in Nat
    <3> DEFINE T == At(v)
               r == rep[v]
    <3>1. IsFiniteSet(T) /\ r \in T /\ Cardinality(T) \in Nat /\ B = T \ {r}
      BY <2>1
    <3> HIDE DEF T, r, B
    <3>2. IsFiniteSet(T \ {r}) /\ Cardinality(T \ {r}) = Cardinality(T) - 1
      BY <3>1, FS_RemoveElement
    <3>3. IsFiniteSet(B) /\ Cardinality(T) = Cardinality(B) + 1 /\ Cardinality(B) \in Nat
      BY <3>1, <3>2, FS_CardinalityType
    <3> QED
      BY <3>3 DEF T
  <2>3. Cardinality(B) = 0 <=> B = {}
    <3> HIDE DEF B
    <3> QED
      BY <2>2, FS_EmptySet
  <2>4. v \in R <=> Cardinality(At(v)) > 1
    OBVIOUS
  <2>5. v \in R <=> B # {}
    <3> DEFINE a == Cardinality(At(v))
               c == Cardinality(B)
    <3>1. a = c + 1 /\ c \in Nat /\ (v \in R <=> a > 1) /\ (c = 0 <=> B = {})
      BY <2>2, <2>3, <2>4
    <3> HIDE DEF a, c, B
    <3> QED
      BY <3>1
  <2> QED
    BY <2>5
<1> DEFINE other == [v \in R |-> CHOOSE s \in S : ven[s] = v /\ s # rep[v]]
<1>7. \A v \in R : other[v] \in S /\ ven[other[v]] = v /\ other[v] # rep[v]
  BY <1>6
<1> HIDE DEF other
<1>8. R \subseteq V /\ IsFiniteSet(R) /\ Cardinality(R) \in Nat
  BY <1>4, FS_Subset, FS_CardinalityType
<1>9. Cardinality(R) = 0 <=> Cardinality(V) = Cardinality(S)
  <2>1. Cardinality(R) = 0 <=> R = {}
    BY <1>8, FS_EmptySet
  <2>2. R = {} <=> \A s \in S : rep[ven[s]] = s
    <3>1. \A s \in S : ven[s] \in V
      OBVIOUS
    <3> QED
      BY <1>6, <1>8, <3>1
  <2>3. rep \in Surjection(V, S) <=> \A s \in S : \E v \in V : rep[v] = s
    BY <1>2 DEF Surjection
  <2>4. (\A s \in S : \E v \in V : rep[v] = s) <=> \A s \in S : rep[ven[s]] = s
    BY <1>1
  <2> QED
    BY <1>4, <2>1, <2>2, <2>3, <2>4
<1>10. Cardinality(V) + Cardinality(R) <= Cardinality(S)
  <2>1. Represent(V, rep, R, other, S, ven)
    BY <1>1, <1>7 DEF Represent
  <2>2. R \subseteq V /\ IsFiniteSet(V)
    BY <1>4, <1>8
  <2>3. HaveRoom(V, rep, R, other, S, ven)
    BY <2>1, <2>2, TwoForSome, Zenon
  <2> QED
    BY <2>3 DEF HaveRoom
<1> QED
  BY <1>4, <1>5, <1>9, <1>10 DEF VenuesFit

\* No more states than venues.
LEMMA FewerValues ==
    ASSUME NEW V, IsFiniteSet(V), NEW f, NEW T, T = {f[v] : v \in V}
    PROVE  IsFiniteSet(T) /\ Cardinality(T) <= Cardinality(V)
<1> DEFINE b == [v \in V |-> f[v]]
<1>1. b \in [V -> T] /\ \A y \in T : \E v \in V : b[v] = y
  OBVIOUS
<1> HIDE DEF b
<1>2. b \in Surjection(V, T)
  BY <1>1 DEF Surjection
<1> QED
  BY <1>2, FS_Surjection

-----------------------------------------------------------------------------
(* A label is read one way: no bar stands in a name or a town. *)

Plain(b) == IsSeq(b) /\ \A i \in 1 .. Len(b) : b[i] # Bar

LabelOf(b, st, t) == b \o <<Bar>> \o st \o <<Bar>> \o t

\* u is b, a bar, st, a bar and t.
Spells(u, b, st, t) ==
    /\ Len(b) \in Nat /\ Len(st) \in Nat /\ Len(t) \in Nat /\ u = LabelOf(b, st, t)
    /\ Len(u) = Len(b) + Len(st) + Len(t) + 2
    /\ \A i \in 1 .. Len(b) : u[i] = b[i]
    /\ u[Len(b) + 1] = Bar
    /\ \A i \in 1 .. Len(st) : u[Len(b) + 1 + i] = st[i]
    /\ u[Len(b) + Len(st) + 2] = Bar
    /\ \A i \in 1 .. Len(t) : u[Len(b) + Len(st) + 2 + i] = t[i]

\* Where the parts of a label stand in it.
LEMMA LabelSpells ==
    ASSUME NEW b, NEW st, NEW t, IsSeq(b), IsSeq(st), IsSeq(t)
    PROVE  Spells(LabelOf(b, st, t), b, st, t)
<1> DEFINE o == <<Bar>>
           p == b \o o
           q == p \o st
           r == q \o o
           u == r \o t
           k == Len(b)
           m == Len(st)
           n == Len(t)
<1>1. k \in Nat /\ m \in Nat /\ n \in Nat
  BY LenProperties DEF IsSeq
<1>2. IsSeq(o) /\ Len(o) = 1 /\ o[1] = Bar
  BY Tuples
<1>3. Joins(p, b, o)
  BY <1>2, Joined
<1>4. Joins(q, p, st)
  BY <1>3, Joined DEF Joins
<1>5. Joins(r, q, o)
  BY <1>2, <1>4, Joined DEF Joins
<1>6. Joins(u, r, t)
  BY <1>5, Joined DEF Joins
<1>7. u = LabelOf(b, st, t)
  BY DEF LabelOf
<1> HIDE DEF o, p, q, r, u, k, m, n
<1>8. Len(p) = k + 1 /\ Len(q) = k + 1 + m /\ Len(r) = k + m + 2 /\ Len(u) = k + m + n + 2
  BY <1>1, <1>2, <1>3, <1>4, <1>5, <1>6 DEF Joins, k, m, n
<1>9. (\A i \in 1 .. k : p[i] = b[i]) /\ p[k + 1] = Bar
  BY <1>1, <1>2, <1>3, 1 \in 1 .. 1 DEF Joins, k
<1>10. \A i \in 1 .. k + 1 + m : u[i] = q[i]
  <2>1. \A i \in 1 .. k + 1 + m : i \in 1 .. Len(q) /\ i \in 1 .. Len(r)
    BY <1>1, <1>8
  <2> QED
    BY <1>5, <1>6, <2>1 DEF Joins
<1>11. (\A i \in 1 .. k : u[i] = b[i]) /\ u[k + 1] = Bar
  <2>1. \A i \in 1 .. k + 1 : i \in 1 .. Len(p) /\ i \in 1 .. k + 1 + m
    BY <1>1, <1>8
  <2>2. \A i \in 1 .. k + 1 : u[i] = p[i]
    BY <1>4, <1>10, <2>1 DEF Joins
  <2>3. k + 1 \in 1 .. k + 1 /\ \A i \in 1 .. k : i \in 1 .. k + 1
    BY <1>1
  <2> QED
    BY <1>9, <2>2, <2>3
<1>12. ASSUME NEW i \in 1 .. m PROVE u[k + 1 + i] = st[i]
  <2>1. k + 1 + i \in 1 .. k + 1 + m
    BY <1>1
  <2>2. q[Len(p) + i] = st[i]
    BY <1>4 DEF Joins, m
  <2> QED
    BY <1>8, <1>10, <2>1, <2>2
<1>13. u[k + m + 2] = Bar
  <2>1. k + m + 2 \in 1 .. Len(r) /\ k + m + 2 = Len(q) + 1 /\ 1 \in 1 .. Len(o)
    BY <1>1, <1>2, <1>8
  <2>2. r[Len(q) + 1] = o[1]
    BY <1>5, <2>1 DEF Joins
  <2> QED
    BY <1>2, <1>6, <2>1, <2>2 DEF Joins
<1>14. \A i \in 1 .. n : u[k + m + 2 + i] = t[i]
  BY <1>6, <1>8 DEF Joins, n
<1>15. Spells(u, b, st, t)
  BY <1>1, <1>7, <1>8, <1>11, <1>12, <1>13, <1>14 DEF Spells, k, m, n
<1> QED
  BY <1>7, <1>15

\* The first bar of a label ends the name and the last begins the town.
LEMMA LabelsTellVenuesApart ==
    ASSUME NEW u, NEW b, NEW st, NEW t, NEW c, NEW sx, NEW w,
           Spells(u, b, st, t), Spells(u, c, sx, w), Plain(b), Plain(c), Plain(t), Plain(w),
           IsSeq(st), IsSeq(sx)
    PROVE  b = c /\ st = sx /\ t = w
<1> DEFINE k == Len(b)
           m == Len(st)
           n == Len(t)
           k2 == Len(c)
           m2 == Len(sx)
           n2 == Len(w)
<1>1. /\ k \in Nat /\ m \in Nat /\ n \in Nat /\ k2 \in Nat /\ m2 \in Nat /\ n2 \in Nat
      /\ k + m + n = k2 + m2 + n2
  <2>1. k + m + n + 2 = k2 + m2 + n2 + 2
    BY DEF Spells
  <2>2. /\ k \in Nat /\ m \in Nat /\ n \in Nat /\ k2 \in Nat /\ m2 \in Nat /\ n2 \in Nat
    BY DEF Spells
  <2> HIDE DEF k, m, n, k2, m2, n2
  <2> QED
    BY <2>1, <2>2
<1>2. k = k2
  <2>1. CASE k < k2
    <3>1. k + 1 \in 1 .. k2
      BY <1>1, <2>1
    <3>2. u[k + 1] = Bar /\ u[k + 1] = c[k + 1] /\ c[k + 1] # Bar
      BY <3>1 DEF Spells, Plain
    <3> QED
      BY <3>2
  <2>2. CASE k2 < k
    <3>1. k2 + 1 \in 1 .. k
      BY <1>1, <2>2
    <3>2. u[k2 + 1] = Bar /\ u[k2 + 1] = b[k2 + 1] /\ b[k2 + 1] # Bar
      BY <3>1 DEF Spells, Plain
    <3> QED
      BY <3>2
  <2> QED
    BY <1>1, <2>1, <2>2
<1>3. n = n2
  <2>1. CASE n < n2
    <3> DEFINE i == n2 - n
    <3>1. i \in 1 .. n2
      BY <1>1, <2>1
    <3>2. k + m + 2 = k2 + m2 + 2 + i
      BY <1>1
    <3>3. u[k + m + 2] = Bar /\ u[k2 + m2 + 2 + i] = w[i] /\ w[i] # Bar
      BY <3>1 DEF Spells, Plain
    <3> QED
      BY <3>2, <3>3
  <2>2. CASE n2 < n
    <3> DEFINE i == n - n2
    <3>1. i \in 1 .. n
      BY <1>1, <2>2
    <3>2. k2 + m2 + 2 = k + m + 2 + i
      BY <1>1
    <3>3. u[k2 + m2 + 2] = Bar /\ u[k + m + 2 + i] = t[i] /\ t[i] # Bar
      BY <3>1 DEF Spells, Plain
    <3> QED
      BY <3>2, <3>3
  <2> QED
    BY <1>1, <2>1, <2>2
<1>4. m = m2
  BY <1>1, <1>2, <1>3
<1>5. \A i \in 1 .. k : b[i] = c[i]
  BY <1>2 DEF Spells
<1>6. \A i \in 1 .. m : st[i] = sx[i]
  BY <1>2, <1>4 DEF Spells
<1>7. \A i \in 1 .. n : t[i] = w[i]
  BY <1>2, <1>3, <1>4 DEF Spells
<1>8. ASSUME NEW x, NEW y, IsSeq(x), IsSeq(y), Len(x) = Len(y),
             \A i \in 1 .. Len(x) : x[i] = y[i]
      PROVE  x = y
  <2>1. PICK A : x \in Seq(A)
    BY <1>8 DEF IsSeq
  <2>2. PICK B : y \in Seq(B)
    BY <1>8 DEF IsSeq
  <2>3. x \in Seq(A \cup B) /\ y \in Seq(A \cup B)
    BY <2>1, <2>2, SeqMonotonic
  <2> QED
    BY <1>8, <2>3, SeqEqual
<1> HIDE DEF k, m, n, k2, m2, n2
<1>9. b = c
  BY <1>2, <1>5, <1>8 DEF Plain, k, k2
<1>10. st = sx
  BY <1>4, <1>6, <1>8 DEF m, m2
<1>11. t = w
  BY <1>3, <1>7, <1>8 DEF Plain, n, n2
<1> QED
  BY <1>9, <1>10, <1>11


-----------------------------------------------------------------------------
(* What the validators make of a text. *)

Text(s) == s \in Seq(Nat)

\* The text at some of the places of another.
LEMMA PickedText ==
    ASSUME NEW s, Text(s), NEW S \in SUBSET DOMAIN s
    PROVE  /\ Text([k \in DOMAIN InOrder(S) |-> s[InOrder(S)[k]]])
           /\ DOMAIN s = 1 .. Len(s) /\ Len(s) \in Nat
<1>1. DOMAIN s = 1 .. Len(s) /\ Len(s) \in Nat /\ \A i \in DOMAIN s : s[i] \in Nat
  BY LenProperties, ElementOfSeq DEF Text
<1> DEFINE n == Len(s)
<1>2. n \in Nat /\ S \in SUBSET (1 .. n)
  BY <1>1
<1> HIDE DEF n
<1>3. /\ Cardinality(S) \in Nat /\ DOMAIN InOrder(S) = 1 .. Cardinality(S)
      /\ \A k \in 1 .. Cardinality(S) : InOrder(S)[k] \in S
  BY <1>2, InOrderOf
<1>4. [k \in DOMAIN InOrder(S) |-> s[InOrder(S)[k]]] \in [1 .. Cardinality(S) -> Nat]
  BY <1>1, <1>3
<1> QED
  <2>1. [1 .. Cardinality(S) -> Nat] \in SUBSET Seq(Nat)
    BY <1>3
  <2>2. Text([k \in DOMAIN InOrder(S) |-> s[InOrder(S)[k]]])
    BY <1>4, <2>1 DEF Text
  <2> QED
    BY <1>1, <2>2

LEMMA PartOfText ==
    ASSUME NEW s, Text(s), NEW m \in 1 .. Len(s) + 1, NEW n \in 0 .. Len(s)
    PROVE  Text(SubSeq(s, m, n))
<1>1. DOMAIN s = 1 .. Len(s) /\ Len(s) \in Nat /\ \A i \in DOMAIN s : s[i] \in Nat
  BY LenProperties, ElementOfSeq DEF Text
<1>2. \A i \in m .. n : s[i] \in Nat
  BY <1>1
<1> QED
  BY <1>1, <1>2, SubSeqProperties DEF Text

LEMMA EndsOf ==
    ASSUME NEW n \in Nat, NEW S \in SUBSET (1 .. n), S # {}
    PROVE  Min(S) \in S /\ Max(S) \in S
<1>1. S \in SUBSET Nat
  OBVIOUS
<1>2. PICK x \in S : \A y \in S : ~(y < x)
  BY <1>1, Smallest
<1>3. \A y \in S : x <= y
  BY <1>1, <1>2
<1>4. Min(S) \in S
  BY <1>3 DEF Min
<1> DEFINE U == {k \in 0 .. n : n - k \in S}
<1>5. U \in SUBSET Nat /\ U # {}
  <2>1. PICK y \in S : TRUE
    OBVIOUS
  <2>2. y \in 1 .. n
    OBVIOUS
  <2>3. n - y \in 0 .. n /\ n - (n - y) = y
    BY <2>2
  <2>4. n - y \in U
    BY <2>1, <2>3
  <2>5. U \in SUBSET Nat
    OBVIOUS
  <2> HIDE DEF U
  <2> QED
    BY <2>4, <2>5
<1>6. PICK k \in U : \A j \in U : ~(j < k)
  <2> HIDE DEF U
  <2> QED
    BY <1>5, Smallest
<1>7. n - k \in S /\ k \in 0 .. n
  BY <1>6
<1>8. ASSUME NEW y \in S PROVE n - k >= y
  <2>1. y \in 1 .. n /\ n - y \in 0 .. n /\ n - (n - y) = y
    OBVIOUS
  <2>2. n - y \in U
    BY <2>1
  <2>3. ~(n - y < k)
    BY <1>6, <2>2
  <2> QED
    BY <1>7, <2>1, <2>3
<1>9. Max(S) \in S
  BY <1>7, <1>8 DEF Max
<1> QED
  BY <1>4, <1>9

LEMMA TextTrimmed ==
    ASSUME NEW s, Text(s)
    PROVE  Text(Trimmed(s))
<1> DEFINE inked == {i \in DOMAIN s : s[i] \notin White}
           n == Len(s)
<1>1. DOMAIN s = 1 .. n /\ n \in Nat
  BY LenProperties DEF Text
<1>2. inked \in SUBSET (1 .. n)
  BY <1>1
<1>3. Trimmed(s) = IF inked = {} THEN << >> ELSE SubSeq(s, Min(inked), Max(inked))
  BY DEF Trimmed
<1>4. CASE inked = {}
  BY <1>3, <1>4, EmptySeq DEF Text
<1>5. CASE inked # {}
  <2>1. Min(inked) \in inked /\ Max(inked) \in inked
    <3> HIDE DEF inked, n
    <3> QED
      BY <1>1, <1>2, <1>5, EndsOf
  <2>2. Min(inked) \in 1 .. Len(s) + 1 /\ Max(inked) \in 0 .. Len(s)
    <3>1. Min(inked) \in 1 .. n /\ Max(inked) \in 1 .. n
      <4> HIDE DEF inked, n
      <4> QED
        BY <1>2, <2>1
    <3> HIDE DEF inked
    <3> QED
      BY <1>1, <3>1
  <2> HIDE DEF inked
  <2> QED
    BY <1>3, <1>5, <2>2, PartOfText
<1> QED
  BY <1>4, <1>5

\* normalizeText makes a text of a text.
LEMMA TextNormalized ==
    ASSUME NEW s, Text(s)
    PROVE  Text(NormalizeText(s))
<1> DEFINE cut == SubSeq(s, 1, Min({Len(s), TextMax}))
           S == {i \in DOMAIN cut : ~(cut[i] = Return /\ i < Len(cut) /\ cut[i + 1] = Newline)}
           kept == [k \in DOMAIN InOrder(S) |-> cut[InOrder(S)[k]]]
<1>1. NormalizeText(s) = Trimmed(kept)
  BY DEF NormalizeText
<1>2. Len(s) \in Nat /\ TextMax \in Nat
  BY LenProperties, TextAssumption DEF Text
<1>3. Min({Len(s), TextMax}) \in 0 .. Len(s) /\ 1 \in 1 .. Len(s) + 1
  BY <1>2, MinOfTwo
<1>4. Text(cut)
  BY <1>3, PartOfText
<1>5. S \in SUBSET DOMAIN cut
  OBVIOUS
<1> HIDE DEF cut, S
<1>6. Text(kept)
  BY <1>4, <1>5, PickedText
<1> HIDE DEF kept
<1> QED
  BY <1>1, <1>6, TextTrimmed

LEMMA TextIsSeq ==
    ASSUME NEW s, Text(s)
    PROVE  IsSeq(s) /\ Len(s) \in Nat /\ \A i \in 1 .. Len(s) : s[i] \in Nat
BY LenProperties, ElementOfSeq DEF Text, IsSeq

LEMMA NumberOfText ==
    ASSUME NEW s, Text(s)
    PROVE  Number(s) \in Nat
<1> DEFINE n == Len(s)
<1>1. n \in Nat /\ \A i \in 1 .. n : s[i] \in Nat
  BY TextIsSeq
<1>2. Len(s) = n
  OBVIOUS
<1> HIDE DEF n
<1> QED
  BY <1>1, <1>2, NumberOf

LEMMA TextTail ==
    ASSUME NEW s, Text(s), s # << >>
    PROVE  Text(Tail(s))
BY HeadTailProperties DEF Text

LEMMA TextJoined ==
    ASSUME NEW s, NEW t, Text(s), Text(t)
    PROVE  Text(s \o t)
BY ConcatProperties DEF Text

\* parseMoneyToCents makes a natural number of one.
LEMMA MoneyInCents ==
    ASSUME NEW s, Text(s)
    PROVE  ParseMoneyToCents(s).value \in Nat
<1> DEFINE bare    == IF s # <<>> /\ Head(s) = Dollar THEN Tail(s) ELSE s
           S       == {i \in DOMAIN bare : bare[i] # Comma}
           cleaned == [k \in DOMAIN InOrder(S) |-> bare[InOrder(S)[k]]]
           dots    == {i \in DOMAIN cleaned : cleaned[i] = Dot}
           at      == IF dots = {} THEN Len(cleaned) + 1 ELSE Min(dots)
           whole   == SubSeq(cleaned, 1, at - 1)
           frac    == SubSeq(cleaned, at + 1, Len(cleaned))
           padded  == frac \o [i \in 1 .. (2 - Len(frac)) |-> 0]
           fits    == AllDigits(whole) /\ (dots = {} \/ (AllDigits(frac) /\ Len(frac) <= 2))
<1>1. ParseMoneyToCents(s)
        = IF fits THEN Read(Number(whole) * 100 + Number(padded)) ELSE Fault
  BY DEF ParseMoneyToCents, CentsOf, Without
<1>2. Text(bare)
  BY TextTail
<1> HIDE DEF bare
<1>3. Text(cleaned)
  BY <1>2, PickedText
<1> HIDE DEF cleaned
<1> DEFINE n == Len(cleaned)
<1>4. DOMAIN cleaned = 1 .. n /\ n \in Nat
  BY <1>3, LenProperties DEF Text
<1>5. at \in 1 .. n + 1
  <2>1. dots \in SUBSET (1 .. n)
    BY <1>4
  <2>2. dots # {} => Min(dots) \in dots
    <3> HIDE DEF dots, n
    <3> QED
      BY <1>4, <2>1, EndsOf
  <2>3. dots # {} => Min(dots) \in 1 .. n
    <3> HIDE DEF dots, n
    <3> QED
      BY <2>1, <2>2
  <2> HIDE DEF dots, n
  <2>4. at = IF dots = {} THEN n + 1 ELSE Min(dots)
    BY DEF n
  <2> HIDE DEF at
  <2> QED
    BY <1>4, <2>3, <2>4
<1> HIDE DEF at
<1>6. Text(whole)
  BY <1>3, <1>4, <1>5, PartOfText
<1>7. Text(frac)
  <2>1. CASE at + 1 \in 1 .. n + 1
    BY <1>3, <1>4, <2>1, PartOfText
  <2>2. CASE at = n + 1
    BY <1>4, <2>2, EmptySeq DEF Text
  <2> QED
    BY <1>4, <1>5, <2>1, <2>2
<1> HIDE DEF whole, frac
<1>8. Text([i \in 1 .. (2 - Len(frac)) |-> 0])
  <2>1. Len(frac) \in Nat
    BY <1>7, TextIsSeq
  <2> DEFINE k == IF Len(frac) <= 2 THEN 2 - Len(frac) ELSE 0
  <2>2. k \in Nat /\ 1 .. (2 - Len(frac)) = 1 .. k
    BY <2>1
  <2> HIDE DEF k
  <2>3. [i \in 1 .. k |-> 0] \in [1 .. k -> Nat]
    OBVIOUS
  <2> QED
    BY <2>2, <2>3 DEF Text
<1>9. Text(padded)
  BY <1>7, <1>8, TextJoined
<1> HIDE DEF padded, fits
<1>10. Number(whole) \in Nat /\ Number(padded) \in Nat
  BY <1>6, <1>9, NumberOfText
<1> QED
  BY <1>1, <1>10 DEF Read, Fault


-----------------------------------------------------------------------------
(* What an accepted answer is. *)

\* A price that is accepted is a number of cents, a quantity at least one, a
\* name or a state a text, a rating a level of its scale.
LEMMA MoneyIsNat ==
    ASSUME NEW q, q.min = 0, NEW s, Text(s), ValidateMoney(q, s).ok
    PROVE  ValidateMoney(q, s).value \in Nat
<1> DEFINE text == NormalizeText(s)
           cents == ParseMoneyToCents(text)
<1>1. ValidateMoney(q, s) =
        IF text = <<>> THEN Absent(q, 0)
        ELSE IF ~cents.ok THEN Fault
        ELSE IF cents.value < q.min \/ cents.value > q.max THEN Fault
        ELSE cents
  BY DEF ValidateMoney
<1>2. cents.value \in Nat
  BY TextNormalized, MoneyInCents
<1>3. Fault.value = 0 /\ Absent(q, 0).value = 0
  BY DEF Absent, Fault, Read
<1> HIDE DEF text, cents
<1> QED
  BY <1>1, <1>2, <1>3

LEMMA IntegerIsPositive ==
    ASSUME NEW q, q.min = 1, q.required = TRUE, NEW s, Text(s), ValidateInteger(q, s).ok
    PROVE  ValidateInteger(q, s).value \in Nat \ {0}
<1> DEFINE text   == NormalizeText(s)
           below  == text # <<>> /\ Head(text) = Minus
           digits == IF below THEN Tail(text) ELSE text
           value  == IF below THEN -Number(digits) ELSE Number(digits)
<1>1. ValidateInteger(q, s) =
        IF text = <<>> THEN Absent(q, 0)
        ELSE IF ~AllDigits(digits) THEN Fault
        ELSE IF value < q.min \/ value > q.max THEN Fault
        ELSE Read(value)
  BY DEF ValidateInteger
<1>2. Text(digits)
  BY TextNormalized, TextTail
<1> HIDE DEF digits
<1>3. value \in Int
  BY <1>2, NumberOfText
<1> HIDE DEF text, value
<1>4. ~Absent(q, 0).ok /\ ~Fault.ok
  BY DEF Absent, Fault
<1>5. ValidateInteger(q, s) = Read(value) /\ ~(value < q.min)
  BY <1>1, <1>4
<1> QED
  BY <1>3, <1>5 DEF Read

LEMMA TextIsText ==
    ASSUME NEW q, NEW s, Text(s), ValidateText(q, s).ok
    PROVE  Text(ValidateText(q, s).value) \/ ValidateText(q, s) = Fault
<1> DEFINE text == NormalizeText(s)
<1>1. ValidateText(q, s) =
        IF text = <<>> THEN Absent(q, <<>>)
        ELSE IF HasControlChars(text) \/ Len(text) > q.max THEN Fault
        ELSE Read(text)
  BY DEF ValidateText
<1>2. Text(text) /\ Text(<< >>)
  BY TextNormalized, EmptySeq DEF Text
<1> HIDE DEF text
<1>3. Absent(q, <<>>) = Fault \/ Absent(q, <<>>).value = << >>
  BY DEF Absent, Read
<1>4. Read(text).value = text
  BY DEF Read
<1> QED
  BY <1>1, <1>2, <1>3, <1>4

LEMMA StateIsText ==
    ASSUME NEW q, NEW s, Text(s), ValidateState(q, s).ok
    PROVE  Text(ValidateState(q, s).value) \/ ValidateState(q, s) = Fault
<1> DEFINE text == NormalizeText(s)
           code == ToUpperCase(text)
<1>1. ValidateState(q, s) =
        IF code = <<>> THEN Absent(q, <<>>)
        ELSE IF code \notin States THEN Fault
        ELSE Read(code)
  BY DEF ValidateState
<1>2. Text(text) /\ Text(<< >>)
  BY TextNormalized, EmptySeq DEF Text
<1> HIDE DEF text
<1>3. Text(code)
  <2> DEFINE n == Len(text)
  <2>1. n \in Nat /\ DOMAIN text = 1 .. n /\ \A i \in 1 .. n : text[i] \in Nat
    BY <1>2, LenProperties, ElementOfSeq DEF Text
  <2> HIDE DEF n
  <2>2. code \in [1 .. n -> Nat]
    BY <2>1 DEF ToUpperCase
  <2> QED
    BY <2>1, <2>2 DEF Text
<1> HIDE DEF code
<1>4. Absent(q, <<>>) = Fault \/ Absent(q, <<>>).value = << >>
  BY DEF Absent, Read
<1>5. Read(code).value = code
  BY DEF Read
<1> QED
  BY <1>1, <1>2, <1>3, <1>4, <1>5

LEMMA LevelIsNat ==
    ASSUME NEW q, q.min = 100, q.max = 500, q.step = 50, NEW s, ValidateMetric(q, s).ok
    PROVE  ValidateMetric(q, s).value \in Nat
<1> DEFINE num == Decimal(NormalizeText(s))
<1>1. ValidateMetric(q, s) = IF num.ok /\ num.value \in ScaleValues(q) THEN num ELSE Fault
  BY DEF ValidateMetric
<1>2. \A x \in ScaleValues(q) : x \in Nat
  BY DEF ScaleValues
<1> HIDE DEF num
<1> QED
  BY <1>1, <1>2 DEF Fault

LEMMA ScaleOf ==
    ASSUME NEW R, NEW keys, NEW n \in Nat, DOMAIN keys = 1 .. n, NEW step, NEW scored,
           R = Rated(keys, step, scored)
    PROVE  \A i \in 1 .. n :
             R[i] = [key |-> keys[i], type |-> "metric", required |-> TRUE,
                     min |-> 100, max |-> 500, step |-> step, scored |-> scored]
  BY DEF Rated

\* The scales of the eight ratings of an item, six of them scored.
LEMMA ItemScales ==
    /\ \A i \in 1 .. 8 : /\ ItemMetrics[i].min = 100 /\ ItemMetrics[i].max = 500
                         /\ ItemMetrics[i].step = 50
    /\ \A i \in 1 .. 6 : ItemMetrics[i].scored = TRUE
<1> DEFINE T == Rated(Taste, 50, TRUE)
           X == Rated(Context, 50, FALSE)
           six == 6
           two == 2
           k == 50
           yes == TRUE
           no == FALSE
<1>1. six \in Nat /\ two \in Nat /\ DOMAIN Taste = 1 .. six /\ DOMAIN Context = 1 .. two
  BY DEF Taste, Context
<1>2. T = Rated(Taste, k, yes) /\ X = Rated(Context, k, no)
  OBVIOUS
<1>3. ItemMetrics = T \o X
  BY DEF ItemMetrics
<1>4. (\E step, scored : T = Rated(Taste, step, scored)) /\ (\E step, scored : X = Rated(Context, step, scored))
  BY <1>2, Zenon
<1> HIDE DEF T, X, six, two, k, yes, no
<1>5. \A i \in 1 .. six :
        T[i] = [key |-> Taste[i], type |-> "metric", required |-> TRUE,
                min |-> 100, max |-> 500, step |-> k, scored |-> yes]
  BY <1>1, <1>2, ScaleOf
<1>6. \A i \in 1 .. two :
        X[i] = [key |-> Context[i], type |-> "metric", required |-> TRUE,
                min |-> 100, max |-> 500, step |-> k, scored |-> no]
  BY <1>1, <1>2, ScaleOf
<1>7. IsSeq(T) /\ Len(T) = six
  BY <1>1, <1>4, RatedOf
<1>8. IsSeq(X) /\ Len(X) = two
  BY <1>1, <1>4, RatedOf
<1>9. Joins(ItemMetrics, T, X)
  BY <1>3, <1>7, <1>8, Joined
<1>10. /\ \A i \in 1 .. 6 : ItemMetrics[i] = T[i]
       /\ \A i \in 1 .. 2 : ItemMetrics[6 + i] = X[i]
  BY <1>7, <1>8, <1>9 DEF Joins, six, two
<1>11. ASSUME NEW i \in 1 .. 8
       PROVE  ItemMetrics[i].min = 100 /\ ItemMetrics[i].max = 500 /\ ItemMetrics[i].step = 50
  <2>1. CASE i \in 1 .. 6
    BY <1>5, <1>10, <2>1 DEF six, k
  <2>2. CASE i \in 7 .. 8
    <3>1. i - 6 \in 1 .. 2 /\ 6 + (i - 6) = i
      BY <2>2
    <3>2. ItemMetrics[i] = X[i - 6]
      BY <1>10, <3>1
    <3> QED
      BY <1>6, <3>1, <3>2 DEF two, k
  <2> QED
    BY <2>1, <2>2
<1> QED
  BY <1>5, <1>10, <1>11 DEF six, yes

\* The keys a score is made of are some of the item's.
LEMMA KeysScored ==
    /\ ScoredKeys \subseteq ItemKeys
    /\ IsFiniteSet(ItemKeys) /\ IsFiniteSet(ScoredKeys)
    /\ Cardinality(ScoredKeys) \in Nat \ {0}
<1>1. DOMAIN ItemMetrics = 1 .. 8
  BY ItemQuestions, LenProperties DEF IsSeq
<1>2. ItemKeys = {ItemMetrics[i].key : i \in 1 .. 8}
  BY <1>1, RatedKeys
<1>3. ScoredKeys \subseteq ItemKeys
  BY <1>1, <1>2 DEF ScoredKeys
<1>4. ItemMetrics[1].key \in ScoredKeys
  BY <1>1, ItemScales DEF ScoredKeys
<1>5. IsFiniteSet(ItemKeys)
  <2> DEFINE n == 8
             E == 1 .. n
             f == [i \in E |-> ItemMetrics[i].key]
  <2>0. n \in Nat
    OBVIOUS
  <2>1. IsFiniteSet(E)
    <3> HIDE DEF n
    <3> QED
      BY <2>0, FS_Interval
  <2>2. {f[i] : i \in E} = ItemKeys
    BY <1>2
  <2> HIDE DEF n, E, f
  <2> DEFINE I == {f[i] : i \in E}
  <2>3. IsFiniteSet(I)
    BY <2>1, FewerValues
  <2> QED
    BY <2>2, <2>3
<1>6. IsFiniteSet(ScoredKeys)
  BY <1>3, <1>5, FS_Subset
<1>7. Cardinality(ScoredKeys) \in Nat /\ Cardinality(ScoredKeys) # 0
  BY <1>4, <1>6, FS_CardinalityType, FS_EmptySet
<1> QED
  BY <1>3, <1>5, <1>6, <1>7

-----------------------------------------------------------------------------
(* What is in the controls, and what the tables hold of it. *)

TextsShown == \A name \in Names \ {VisitedOn} : Text(page.shown[name].typed)

\* The controls hold texts, whatever is typed, sent back and corrected.
LEMMA TextsKept ==
    ASSUME FormInv, TextsShown, [Next]_vars
    PROVE  TextsShown'
<1>1. PageForm /\ plan \in DOMAIN Plans
  BY DEF FormInv
<1>0. Text(Blank.typed)
  BY EmptySeq DEF Text, Blank
<1> USE DEF TextsShown
<1>2. CASE UNCHANGED page
  BY <1>2
<1>3. ASSUME NEW user, OpenForm(user)
      PROVE  TextsShown'
  BY <1>0, <1>3, OpenFormPage
<1>4. ASSUME NEW filling \in Plans[plan].fillings, FillIn(filling)
      PROVE  TextsShown'
  <2>1. \A name \in Names : Text(filling.entry[name].typed)
    BY <1>1, TextAssumption DEF Text
  <2> QED
    BY <1>1, <1>4, <2>1, FillInPage
<1>5. CASE SendBack
  <2>1. ASSUME NEW name \in Names \ {VisitedOn}
        PROVE  Text(Echo(name, page.shown[name]).typed)
    <3>1. QuestionOf(name).type # "date" /\ Text(page.shown[name].typed)
      BY TypeOfName
    <3> QED
      BY <1>0, <3>1 DEF Echo
  <2> QED
    BY <1>1, <1>5, <2>1, SendBackPage
<1>6. CASE Save
  <2>1. page'.shown = page.shown
    BY <1>1, <1>6 DEF Save, PageForm
  <2> QED
    BY <2>1
<1>7. ASSUME NEW fixed, Correct(fixed)
      PROVE  TextsShown'
  <2>1. \A name \in Names : Text(Usual[name].typed)
    BY TextAssumption DEF Text
  <2> QED
    BY <1>1, <1>7, <2>1, CorrectPage
<1>8. ASSUME NEW scope, OpenList(scope) \/ FollowNext \/ LeaveList \/ Tick
      PROVE  UNCHANGED page
  BY <1>8 DEF OpenList, FollowNext, LeaveList, Tick
<1>9. CASE Rest \/ UNCHANGED vars
  BY <1>2, <1>9 DEF Rest, vars
<1> QED
  BY <1>2, <1>3, <1>4, <1>5, <1>6, <1>7, <1>8, <1>9 DEF Next

\* The values of an accepted submission that the figures are made of.
Answered(v) ==
    /\ Text(v[<<0, "business_name">>]) /\ Text(v[<<0, "state">>]) /\ Text(v[<<0, "town">>])
    /\ v[<<1, "price_cents">>] \in Nat /\ v[<<1, "qty">>] \in Nat \ {0}
    /\ \A key \in ItemKeys : v[<<1, key>>] \in Nat

LEMMA QuestionsFigured ==
    /\ <<0, "business_name">> \in Names \ {VisitedOn} /\ QuestionOf(<<0, "business_name">>).type = "text"
    /\ <<0, "town">> \in Names \ {VisitedOn} /\ QuestionOf(<<0, "town">>).type = "text"
    /\ <<0, "state">> \in Names \ {VisitedOn} /\ QuestionOf(<<0, "state">>).type = "state"
    /\ <<1, "price_cents">> \in Names \ {VisitedOn}
    /\ QuestionOf(<<1, "price_cents">>).type = "money" /\ QuestionOf(<<1, "price_cents">>).min = 0
    /\ <<1, "qty">> \in Names \ {VisitedOn} /\ QuestionOf(<<1, "qty">>).type = "integer"
    /\ QuestionOf(<<1, "qty">>).min = 1 /\ QuestionOf(<<1, "qty">>).required = TRUE
    /\ \A key \in ItemKeys :
         /\ <<1, key>> \in Names \ {VisitedOn} /\ QuestionOf(<<1, key>>).type = "metric"
         /\ QuestionOf(<<1, key>>).min = 100 /\ QuestionOf(<<1, key>>).max = 500
         /\ QuestionOf(<<1, key>>).step = 50
<1>1. /\ Told[1] = <<0, "business_name">> /\ Told[2] = <<0, "state">> /\ Told[3] = <<0, "town">>
      /\ Told[9] = <<1, "price_cents">> /\ Told[10] = <<1, "qty">>
  BY DEF Told
<1>2. \A i \in 1 .. 19 : QuestionOf(Told[i]) = Form[i].q /\ Told[i] \in Names
  BY NamesOf
<1>3. /\ Form[1].q = VisitFields[1] /\ Form[2].q = VisitFields[2] /\ Form[3].q = VisitFields[3]
      /\ Form[7 + 2].q = ItemFields[2] /\ Form[7 + 3].q = ItemFields[3]
  BY QuestionsInOrder
<1>4. /\ VisitFields[1].type = "text" /\ VisitFields[2].type = "state" /\ VisitFields[3].type = "text"
  BY DEF VisitFields, Field
<1>5. /\ ItemFields[2].type = "money" /\ ItemFields[2].min = 0
      /\ ItemFields[3].type = "integer" /\ ItemFields[3].min = 1 /\ ItemFields[3].required = TRUE
  BY DEF ItemFields, Field
<1>6. /\ <<0, "business_name">> # VisitedOn /\ <<0, "state">> # VisitedOn /\ <<0, "town">> # VisitedOn
      /\ \A key : <<1, key>> # VisitedOn
  BY DEF VisitedOn
<1>7. ASSUME NEW key \in ItemKeys
      PROVE  /\ <<1, key>> \in Names \ {VisitedOn} /\ QuestionOf(<<1, key>>).type = "metric"
             /\ QuestionOf(<<1, key>>).min = 100 /\ QuestionOf(<<1, key>>).max = 500
             /\ QuestionOf(<<1, key>>).step = 50
  <2>1. DOMAIN ItemMetrics = 1 .. 8
    BY ItemQuestions, LenProperties DEF IsSeq
  <2>2. PICK i \in 1 .. 8 : key = ItemMetrics[i].key
    BY <2>1, RatedKeys
  <2>3. /\ Form[10 + i] = [name |-> <<1, key>>, q |-> ItemMetrics[i]]
        /\ 10 + i \in 1 .. 19
    <3>1. Form[10 + i] = [name |-> <<1, ItemMetrics[i].key>>, q |-> ItemMetrics[i]]
      BY QuestionsInOrder
    <3> QED
      BY <2>2, <3>1
  <2>4. <<1, key>> = Told[10 + i] /\ Form[10 + i].q = ItemMetrics[i]
    BY <2>3, NamesOf
  <2>5. QuestionOf(<<1, key>>) = ItemMetrics[i]
    BY <1>2, <2>3, <2>4
  <2>6. ItemMetrics[i].type = "metric"
    BY <2>3, <2>4, QuestionTypes, <2>2, ItemQuestions, i \in 1 .. 6 \/ (i - 6 \in 1 .. 2 /\ 6 + (i - 6) = i)
  <2> QED
    BY <1>2, <1>6, <2>2, <2>3, <2>4, <2>5, <2>6, ItemScales
<1> QED
  BY <1>1, <1>2, <1>3, <1>4, <1>5, <1>6, <1>7

\* When every control is accepted, the figures have what they are made of.
LEMMA AnsweredWhenAccepted ==
    ASSUME TextsShown, \A name \in Names : Accepted(name)
    PROVE  Answered(Judged.value)
<1> DEFINE typed(name) == page.shown[name].typed
           v == Judged.value
<1>1. ASSUME NEW name \in Names \ {VisitedOn}, QuestionOf(name).type # "textarea"
      PROVE  /\ Text(typed(name))
             /\ ValidateByFieldType(QuestionOf(name), typed(name), Calendar[time]).ok
             /\ v[name] = ValidateByFieldType(QuestionOf(name), typed(name), Calendar[time]).value
  <2>1. Text(typed(name)) /\ Accepted(name) /\ v[name] = Reading(name, typed(name), time).value
    BY JudgedErrors DEF TextsShown
  <2>2. Reading(name, typed(name), time)
          = ValidateByFieldType(QuestionOf(name), typed(name), Calendar[time])
    BY <1>1 DEF Reading, Posted
  <2> QED
    BY <2>1, <2>2 DEF Accepted
<1> HIDE DEF typed, v
<1>2. ~Fault.ok
  BY DEF Fault
<1>3. ASSUME NEW name \in Names \ {VisitedOn}, QuestionOf(name).type = "text"
      PROVE  Text(v[name])
  BY <1>1, <1>2, <1>3, TextIsText DEF ValidateByFieldType
<1>4. ASSUME NEW name \in Names \ {VisitedOn}, QuestionOf(name).type = "state"
      PROVE  Text(v[name])
  BY <1>1, <1>2, <1>4, StateIsText DEF ValidateByFieldType
<1>5. ASSUME NEW name \in Names \ {VisitedOn}, QuestionOf(name).type = "money", QuestionOf(name).min = 0
      PROVE  v[name] \in Nat
  BY <1>1, <1>5, MoneyIsNat DEF ValidateByFieldType
<1>6. ASSUME NEW name \in Names \ {VisitedOn}, QuestionOf(name).type = "integer",
             QuestionOf(name).min = 1, QuestionOf(name).required = TRUE
      PROVE  v[name] \in Nat \ {0}
  BY <1>1, <1>6, IntegerIsPositive DEF ValidateByFieldType
<1>7. ASSUME NEW name \in Names \ {VisitedOn}, QuestionOf(name).type = "metric",
             QuestionOf(name).min = 100, QuestionOf(name).max = 500, QuestionOf(name).step = 50
      PROVE  v[name] \in Nat
  BY <1>1, <1>7, LevelIsNat DEF ValidateByFieldType
<1>8. /\ Text(v[<<0, "business_name">>]) /\ Text(v[<<0, "state">>]) /\ Text(v[<<0, "town">>])
  BY <1>3, <1>4, QuestionsFigured
<1>9. v[<<1, "price_cents">>] \in Nat
  BY <1>5, QuestionsFigured
<1>10. v[<<1, "qty">>] \in Nat \ {0}
  BY <1>6, QuestionsFigured
<1>11. ASSUME NEW key \in ItemKeys PROVE v[<<1, key>>] \in Nat
  <2> DEFINE name == <<1, key>>
  <2>1. /\ name \in Names \ {VisitedOn} /\ QuestionOf(name).type = "metric"
        /\ QuestionOf(name).min = 100 /\ QuestionOf(name).max = 500 /\ QuestionOf(name).step = 50
    BY QuestionsFigured
  <2> HIDE DEF name
  <2>2. v[name] \in Nat
    BY <1>7, <2>1
  <2> QED
    BY <2>2 DEF name
<1>12. Answered(v)
  BY <1>8, <1>9, <1>10, <1>11 DEF Answered
<1> QED
  BY <1>12 DEF v

Figured ==
    \E V : FiledAs(tables, V) /\ \A s \in 1 .. Len(V) : Answered(V[s])

\* The tables hold such answers and nothing else.
LEMMA FiguredKept ==
    ASSUME FormInv, TextsShown, Figured, [Next]_vars
    PROVE  Figured'
<1>1. CASE ~Save
  BY <1>1, OnlySaveWrites DEF Figured
<1>2. CASE Save
  <2>1. PICK V : FiledAs(tables, V) /\ \A s \in 1 .. Len(V) : Answered(V[s])
    BY DEF Figured
  <2> DEFINE v == Judged.value
             W == Append(V, v)
  <2>2. \A name \in Names : Accepted(name)
    BY <1>2, SavePage, JudgedErrors DEF FormInv
  <2>3. Answered(v)
    BY <2>2, AnsweredWhenAccepted
  <2>4. tables' = CreateSurvey(page.user, v)
    BY <1>2 DEF Save
  <2> HIDE DEF v
  <2>5. FiledAs(CreateSurvey(page.user, v), W)
    <3>1. \A name \in Names : v[name] = v[name]
      OBVIOUS
    <3> QED
      BY <2>1, <3>1, OneMoreFiled
  <2>6. /\ Len(W) = Len(V) + 1 /\ Len(V) \in Nat
        /\ \A i \in 1 .. Len(V) : W[i] = V[i]
        /\ W[Len(V) + 1] = v
    <3>1. IsSeq(V)
      BY <2>1 DEF FiledAs
    <3> QED
      BY <3>1, Appended
  <2>7. 1 .. Len(V) + 1 = 1 .. Len(V) \cup {Len(V) + 1}
    BY <2>6
  <2> HIDE DEF W
  <2>8. \A s \in 1 .. Len(W) : Answered(W[s])
    BY <2>1, <2>3, <2>6, <2>7
  <2> QED
    BY <2>4, <2>5, <2>8 DEF Figured
<1> QED
  BY <1>1, <1>2


-----------------------------------------------------------------------------
(* The figures of one survey, and the scores of many. *)

Kept(V) == FiledAs(tables, V) /\ \A s \in 1 .. Len(V) : Answered(V[s])

One == 1
ScoreOf(s) == GetSurvey(tables, s).items[1].tasteScore
PriceOf(s) == GetSurvey(tables, s).items[1].pricePerItem
Total(s)   == SumOf(Answers(tables, s, One), ScoredKeys)

\* What getSurvey makes of the rows of one survey.
LEMMA OneSurvey ==
    ASSUME NEW V, Kept(V), NEW s \in 1 .. Len(V)
    PROVE  /\ \A key \in ItemKeys : /\ Answers(tables, s, One)[key] = V[s][<<One, key>>]
                                    /\ Answers(tables, s, One)[key] \in Int
           /\ Total(s) \in Int
           /\ ScoreOf(s) = RoundDiv(Total(s), Cardinality(ScoredKeys))
           /\ PriceOf(s) = RoundDiv(V[s][<<1, "price_cents">>], V[s][<<1, "qty">>])
<1> DEFINE m == V[s]
           A == Answers(tables, s, One)
           the == ItemRow(s, m)
<1>1. /\ {r \in tables.responses : r.survey = s /\ r.item = 1} = AnswerRows(s, 1, ItemKeys, m)
      /\ ItemsOf(tables, s) = {the}
  BY RowsOfOne DEF Kept
<1>2. Answered(m)
  BY DEF Kept
<1>3. {r \in tables.responses : r.survey = s /\ r.item = One} = AnswerRows(s, One, ItemKeys, m)
  BY <1>1 DEF One
<1> HIDE DEF m
<1>4. DOMAIN A = ItemKeys /\ \A key \in ItemKeys : A[key] = m[<<One, key>>]
  BY <1>3, AnswersRead
<1>5. ASSUME NEW key \in ItemKeys PROVE m[<<One, key>>] \in Int
  <2>1. m[<<1, key>>] \in Nat
    BY <1>2 DEF Answered
  <2> QED
    BY <2>1 DEF One
<1>6. Total(s) \in Int
  <2>1. \A key \in ScoredKeys : A[key] \in Int
    BY <1>4, <1>5, KeysScored
  <2> HIDE DEF A
  <2>2. SumsWell(A, ScoredKeys)
    BY <2>1, KeysScored, SumTaking
  <2> QED
    BY <2>2 DEF SumsWell, Total, A
<1>7. the.order = 1 /\ the.price_cents = m[<<1, "price_cents">>] /\ the.qty = m[<<1, "qty">>]
  BY DEF ItemRow
<1> HIDE DEF the
<1>8. /\ GetSurvey(tables, s).items[1].tasteScore = ScoreItem(Answers(tables, s, 1))
      /\ GetSurvey(tables, s).items[1].pricePerItem = PricePerItemCents(the.price_cents, the.qty)
  <2>1. 1 \in {i.order : i \in ItemsOf(tables, s)}
    BY <1>1, <1>7
  <2>2. (CHOOSE i \in ItemsOf(tables, s) : i.order = 1) = the
    BY <1>1, <1>7
  <2> DEFINE item == CHOOSE i \in ItemsOf(tables, s) : i.order = 1
             row == [metrics |-> Answers(tables, s, 1),
                     tasteScore |-> ScoreItem(Answers(tables, s, 1)),
                     pricePerItem |-> PricePerItemCents(item.price_cents, item.qty)]
  <2>3. GetSurvey(tables, s).items[1] = row
    BY <2>1 DEF GetSurvey
  <2>4. row.tasteScore = ScoreItem(Answers(tables, s, 1))
        /\ row.pricePerItem = PricePerItemCents(item.price_cents, item.qty)
    OBVIOUS
  <2>5. item = the
    BY <2>2
  <2> HIDE DEF row, item
  <2> QED
    BY <2>3, <2>4, <2>5
<1>9. ScoreOf(s) = ScoreItem(A)
  BY <1>8 DEF ScoreOf, One
<1>10. ScoreItem(A) = RoundDiv(Total(s), Cardinality(ScoredKeys))
  BY <1>4, KeysScored DEF ScoreItem, Total
<1>11. PriceOf(s) = RoundDiv(m[<<1, "price_cents">>], m[<<1, "qty">>])
  BY <1>7, <1>8 DEF PriceOf, PricePerItemCents
<1> QED
  BY <1>4, <1>5, <1>6, <1>9, <1>10, <1>11 DEF m

\* The answers AVG is taken of, survey by survey.
ScoredRows(S) ==
    {r \in tables.responses : r.survey \in S /\ r.item # 0 /\ r.metric \in ScoredKeys}
ScoredOf(V) == [s \in 1 .. Len(V) |-> AnswerRows(s, One, ScoredKeys, V[s])]

\* The rows AVG selects are the surveys' scored answers.
LEMMA RowsScored ==
    ASSUME NEW V, Kept(V), NEW S \in SUBSET (1 .. Len(V))
    PROVE  ScoredRows(S) = UNION {ScoredOf(V)[s] : s \in S}
<1>1. \A u, item, key, v : /\ AnswerRow(u, item, key, v).survey = u
                           /\ AnswerRow(u, item, key, v).item = item
                           /\ AnswerRow(u, item, key, v).metric = key
  BY DEF AnswerRow
<1>2. \A r : r \in tables.responses <=>
          \E u \in 1 .. Len(V) : \/ \E key \in VisitKeys : r = AnswerRow(u, 0, key, V[u])
                                 \/ \E key \in ItemKeys : r = AnswerRow(u, One, key, V[u])
  BY DEF Kept, FiledAs, AllAnswers, AnswerRows, One
<1>3. One # 0 /\ ScoredKeys \subseteq ItemKeys
  BY KeysScored DEF One
<1>4. ASSUME NEW r \in ScoredRows(S) PROVE \E s \in S : r \in ScoredOf(V)[s]
  <2>1. r \in tables.responses /\ r.survey \in S /\ r.item # 0 /\ r.metric \in ScoredKeys
    BY DEF ScoredRows
  <2>2. PICK u \in 1 .. Len(V) : \/ \E key \in VisitKeys : r = AnswerRow(u, 0, key, V[u])
                                 \/ \E key \in ItemKeys : r = AnswerRow(u, One, key, V[u])
    BY <1>2, <2>1
  <2>3. PICK key \in ItemKeys : r = AnswerRow(u, One, key, V[u])
    BY <1>1, <2>1, <2>2
  <2>4. u \in S /\ key \in ScoredKeys
    BY <1>1, <2>1, <2>3
  <2> QED
    BY <2>2, <2>3, <2>4 DEF ScoredOf, AnswerRows
<1>5. ASSUME NEW s \in S, NEW r \in ScoredOf(V)[s] PROVE r \in ScoredRows(S)
  <2>1. s \in 1 .. Len(V) /\ r \in AnswerRows(s, One, ScoredKeys, V[s])
    BY DEF ScoredOf
  <2>2. PICK key \in ScoredKeys : r = AnswerRow(s, One, key, V[s])
    BY <2>1 DEF AnswerRows
  <2>3. r.survey = s /\ r.item = One /\ r.metric = key
    BY <1>1, <2>2
  <2>4. r \in tables.responses
    BY <1>2, <1>3, <2>1, <2>2
  <2> QED
    BY <1>3, <2>2, <2>3, <2>4 DEF ScoredRows
<1> QED
  BY <1>4, <1>5

\* One survey's scored answers are as many as the scored questions.
LEMMA RowsOfASurvey ==
    ASSUME NEW V, Kept(V), NEW s \in 1 .. Len(V), NEW f, \A r \in ScoredOf(V)[s] : f[r] = r.value
    PROVE  /\ IsFiniteSet(ScoredOf(V)[s])
           /\ Cardinality(ScoredOf(V)[s]) = Cardinality(ScoredKeys)
           /\ SumOf(f, ScoredOf(V)[s]) = Total(s)
<1> DEFINE m == V[s]
           A == Answers(tables, s, One)
           h == [key \in ScoredKeys |-> AnswerRow(s, One, key, m)]
           I == {h[key] : key \in ScoredKeys}
<1>1. ScoredOf(V)[s] = I
  BY DEF ScoredOf, AnswerRows
<1>2. \A key : AnswerRow(s, One, key, m).metric = key /\ AnswerRow(s, One, key, m).value = m[<<One, key>>]
  BY DEF AnswerRow
<1>3. \A key \in ItemKeys : A[key] = m[<<One, key>>] /\ A[key] \in Int
  BY OneSurvey
<1>4. ASSUME NEW key \in ScoredKeys
      PROVE  A[key] \in Int /\ f[h[key]] = A[key]
  <2>1. A[key] = m[<<One, key>>] /\ A[key] \in Int
    BY <1>3, KeysScored
  <2>2. h[key].value = m[<<One, key>>] /\ h[key] \in I
    BY <1>2
  <2> QED
    BY <1>1, <2>1, <2>2
<1>5. \A j, k \in ScoredKeys : h[j] = h[k] => j = k
  BY <1>2
<1>6. IsFiniteSet(ScoredKeys)
  BY KeysScored
<1> HIDE DEF h, A
<1>7. SumOf(f, {h[key] : key \in ScoredKeys}) = SumOf(A, ScoredKeys)
  BY <1>4, <1>5, <1>6, SumMoved
<1>8. IsFiniteSet({h[key] : key \in ScoredKeys}) /\ Cardinality({h[key] : key \in ScoredKeys}) = Cardinality(ScoredKeys)
  BY <1>5, <1>6, ImageOf
<1> QED
  BY <1>1, <1>7, <1>8 DEF Total, A

Totals(S) == [s \in S |-> Total(s)]
Values(R) == [r \in R |-> r.value]

\* Over many surveys: so many answers of each, and the sum of their sums.
ScoresAddUp(V, S, R) ==
    /\ IsFiniteSet(R) /\ Cardinality(R) = Cardinality(ScoredKeys) * Cardinality(S)
    /\ SumOf(Values(R), R) = SumOf(Totals(S), S)

LEMMA ScoresAdd ==
    ASSUME NEW V, Kept(V), NEW S \in SUBSET (1 .. Len(V)), IsFiniteSet(S)
    PROVE  ScoresAddUp(V, S, ScoredRows(S))
<1> DEFINE K == ScoredOf(V)
           R == ScoredRows(S)
           f == Values(R)
           g == Totals(S)
           k == Cardinality(ScoredKeys)
           c == [s \in S |-> k]
<1>1. R = UNION {K[s] : s \in S}
  BY RowsScored
<1>2. \A s \in S : \A r \in K[s] : r \in R
  BY <1>1
<1>3. \A s \in S : \A r \in K[s] : f[r] = r.value
  BY <1>2 DEF Values
<1>4. Apart(K, S)
  <2>1. \A u, item, key, v : AnswerRow(u, item, key, v).survey = u
    BY DEF AnswerRow
  <2>2. \A s \in S : \A r \in K[s] : r.survey = s
    BY <2>1 DEF ScoredOf, AnswerRows
  <2> HIDE DEF K
  <2> QED
    BY <2>2 DEF Apart
<1>5. \A s \in S : /\ IsFiniteSet(K[s]) /\ Cardinality(K[s]) = k
                   /\ SumOf(f, K[s]) = Total(s)
  <2> SUFFICES ASSUME NEW s \in S
               PROVE  IsFiniteSet(K[s]) /\ Cardinality(K[s]) = k /\ SumOf(f, K[s]) = Total(s)
    OBVIOUS
  <2>1. \A r \in ScoredOf(V)[s] : f[r] = r.value
    BY <1>3
  <2> HIDE DEF f
  <2> QED
    BY <2>1, RowsOfASurvey
<1>6. \A s \in S : \A r \in K[s] : f[r] \in Int
  <2> SUFFICES ASSUME NEW s \in S, NEW r \in K[s] PROVE f[r] \in Int
    OBVIOUS
  <2>1. s \in 1 .. Len(V)
    OBVIOUS
  <2>2. PICK key \in ScoredKeys : r = AnswerRow(s, One, key, V[s])
    BY <2>1 DEF ScoredOf, AnswerRows
  <2>3. r.value = V[s][<<One, key>>]
    BY <2>2 DEF AnswerRow
  <2>4. V[s][<<One, key>>] \in Int
    <3>1. Answers(tables, s, One)[key] = V[s][<<One, key>>] /\ Answers(tables, s, One)[key] \in Int
      BY <2>1, KeysScored, OneSurvey
    <3> QED
      BY <3>1
  <2>5. f[r] = r.value
    BY <1>3
  <2> QED
    BY <2>3, <2>4, <2>5
<1>7. \A s \in S : g[s] = Total(s) /\ c[s] = k
  BY DEF Totals
<1>8. k \in Int
  BY KeysScored
<1> HIDE DEF K, R, f, g, c, k
<1>9. \A s \in S : IsFiniteSet(K[s]) /\ g[s] = SumOf(f, K[s])
  BY <1>5, <1>7
<1>10. SumOf(f, UNION {K[s] : s \in S}) = SumOf(g, S)
  <2>1. AddsInParts(S, K, f, g)
    BY <1>4, <1>6, <1>9, SumInParts
  <2> QED
    BY <2>1 DEF AddsInParts
<1>11. \A s \in S : IsFiniteSet(K[s]) /\ c[s] = Cardinality(K[s])
  BY <1>5, <1>7
<1>12. /\ IsFiniteSet(UNION {K[s] : s \in S})
       /\ Cardinality(UNION {K[s] : s \in S}) = SumOf(c, S)
  BY <1>4, <1>11, CountedInParts
<1>13. SumOf(c, S) = k * Cardinality(S)
  BY <1>7, <1>8, SumOfOnes
<1>14. IsFiniteSet(R) /\ Cardinality(R) = k * Cardinality(S) /\ SumOf(f, R) = SumOf(g, S)
  BY <1>1, <1>10, <1>12, <1>13
<1> QED
  BY <1>14 DEF ScoresAddUp, R, f, g, k

AverageIs(S, V) ==
    AverageTaste(tables, S)
      = RoundDiv(SumOf(Totals(S), S), Cardinality(ScoredKeys) * Cardinality(S))

\* AVG over some surveys, by the sums of each.
LEMMA AverageOfTotals ==
    ASSUME NEW V, Kept(V), NEW S \in SUBSET (1 .. Len(V)), IsFiniteSet(S), S # {}
    PROVE  AverageIs(S, V)
<1> DEFINE R == ScoredRows(S)
<1>1. AverageTaste(tables, S) =
        IF R = {} THEN NoScore
        ELSE RoundDiv(SumOf([r \in R |-> r.value], R), Cardinality(R))
  BY DEF AverageTaste, ScoredRows
<1>2. ScoresAddUp(V, S, R)
  BY ScoresAdd
<1> HIDE DEF R
<1>3. Cardinality(S) \in Nat /\ Cardinality(S) # 0
  BY FS_CardinalityType, FS_EmptySet
<1>4. Cardinality(ScoredKeys) * Cardinality(S) # 0
  <2> DEFINE a == Cardinality(ScoredKeys)
             b == Cardinality(S)
  <2>1. a \in Nat \ {0} /\ b \in Nat \ {0}
    BY <1>3, KeysScored
  <2> HIDE DEF a, b
  <2>2. a * b # 0
    BY <2>1
  <2> QED
    BY <2>2 DEF a, b
<1>5. R # {}
  <2>1. R = {} => Cardinality(R) = 0
    BY FS_EmptySet
  <2> QED
    BY <1>2, <1>4, <2>1 DEF ScoresAddUp
<1> QED
  BY <1>1, <1>2, <1>5 DEF ScoresAddUp, AverageIs, Values


-----------------------------------------------------------------------------
(* The averages of the dashboard and the surveys' own figures. *)

Scores(S) == [s \in S |-> ScoreOf(s)]
Prices(S) == [s \in S |-> 10 * PriceOf(s)]
ItemsIn(S) == {i \in tables.items : i.survey \in S}

\* A sum and n times its mean, both in 2k-ths, are apart by no more than n.
LEMMA NearScaled ==
    ASSUME NEW k \in Nat \ {0}, NEW n \in Nat, NEW sum \in Int, NEW total \in Int, NEW avg \in Int,
           Near(2 * total, (2 * k) * sum, k * n), Near(2 * total, 2 * (k * n) * avg, k * n)
    PROVE  n * avg - sum <= n /\ sum - n * avg <= n
<1> DEFINE d == n * avg - sum
           e == 2 * k
<1>1. d \in Int /\ e \in Nat \ {0}
  OBVIOUS
<1>2. 2 * (k * n) * avg = e * (n * avg)
  OBVIOUS
<1>3. e * d = e * (n * avg) - e * sum
  OBVIOUS
<1>4. k * n \in Nat /\ 2 * (k * n) = e * n
  OBVIOUS
<1> DEFINE x == e * (n * avg)
           y == e * sum
           z == k * n
           b == 2 * total
<1>5. x \in Int /\ y \in Int /\ z \in Nat /\ b \in Int
  <2>1. n * avg \in Int
    OBVIOUS
  <2> HIDE DEF e
  <2> QED
    BY <1>1, <1>4, <2>1
<1>6. b - y <= z /\ y - b <= z /\ b - x <= z /\ x - b <= z
  BY <1>2 DEF Near
<1>7. e * d = x - y
  BY <1>3
<1>8. 2 * z = e * n
  BY <1>4
<1> HIDE DEF x, y, z, b
<1>9. e * d <= e * n /\ -(e * d) <= e * n
  <2>1. x - y <= 2 * z /\ y - x <= 2 * z
    BY <1>5, <1>6
  <2> QED
    BY <1>5, <1>7, <1>8, <2>1
<1> HIDE DEF e
<1>10. e * (n - d) >= 0 /\ e * (n + d) >= 0
  <2> HIDE DEF d
  <2>1. e * (n - d) = e * n - e * d /\ e * (n + d) = e * n + e * d
    BY <1>1
  <2>2. e * n \in Int /\ e * d \in Int
    BY <1>1
  <2> QED
    BY <1>9, <2>1, <2>2
<1>11. n - d >= 0 /\ n + d >= 0
  <2> HIDE DEF d
  <2>1. \A u \in Int : e * u >= 0 => u >= 0
    BY <1>1
  <2> QED
    BY <1>1, <1>10, <2>1
<1> QED
  BY <1>11

TasteAgrees(S, V) ==
    /\ AverageTaste(tables, S) \in Int /\ SumOf(Scores(S), S) \in Int
    /\ Cardinality(S) * AverageTaste(tables, S) - SumOf(Scores(S), S) <= Cardinality(S)
    /\ SumOf(Scores(S), S) - Cardinality(S) * AverageTaste(tables, S) <= Cardinality(S)

\* The dashboard's average of the answers is near the average of the scores.
LEMMA AverageTasteAgrees ==
    ASSUME NEW V, Kept(V), NEW S \in SUBSET (1 .. Len(V)), IsFiniteSet(S), S # {}
    PROVE  TasteAgrees(S, V)
<1> DEFINE k == Cardinality(ScoredKeys)
           n == Cardinality(S)
           f == Totals(S)
           g == Scores(S)
           total == SumOf(f, S)
           sum == SumOf(g, S)
           avg == RoundDiv(total, k * n)
           a == 2
           b == 2 * k
<1>1. k \in Nat \ {0} /\ n \in Nat \ {0}
  BY KeysScored, FS_CardinalityType, FS_EmptySet
<1>2. AverageTaste(tables, S) = avg
  BY AverageOfTotals DEF AverageIs
<1>3. \A s \in S : /\ f[s] \in Int /\ g[s] \in Int
                   /\ f[s] = Total(s) /\ g[s] = RoundDiv(Total(s), k)
  <2> SUFFICES ASSUME NEW s \in S
               PROVE  f[s] \in Int /\ g[s] \in Int /\ f[s] = Total(s) /\ g[s] = RoundDiv(Total(s), k)
    OBVIOUS
  <2>1. Total(s) \in Int /\ ScoreOf(s) = RoundDiv(Total(s), k)
    BY OneSurvey
  <2> HIDE DEF k
  <2>2. RoundDiv(Total(s), k) \in Int
    BY <1>1, <2>1, RoundedIsNear
  <2> QED
    BY <2>1, <2>2 DEF Totals, Scores
<1> HIDE DEF f, g, k, n
<1>4. \A s \in S : Near(a * f[s], b * g[s], k)
  BY <1>1, <1>3, RoundedIsNear
<1>5. a \in Int /\ b \in Int /\ k \in Int
  BY <1>1
<1>6. Near(a * SumOf(f, S), b * SumOf(g, S), k * Cardinality(S))
  <2> HIDE DEF a, b
  <2> QED
    BY <1>3, <1>4, <1>5, SumNear
<1>7. total \in Int /\ sum \in Int
  <2>1. SumsWell(f, S) /\ SumsWell(g, S)
    BY <1>3, SumTaking
  <2> QED
    BY <2>1 DEF SumsWell
<1> HIDE DEF total, sum
<1>8. k * n \in Nat \ {0}
  BY <1>1
<1>9. avg \in Int /\ Near(2 * total, 2 * (k * n) * avg, k * n)
  <2> DEFINE c == k * n
  <2>1. c \in Nat \ {0}
    BY <1>8
  <2> HIDE DEF c
  <2>2. RoundDiv(total, c) \in Int /\ Near(2 * total, 2 * c * RoundDiv(total, c), c)
    BY <1>7, <2>1, RoundedIsNear
  <2> QED
    BY <2>2 DEF c
<1> HIDE DEF avg
<1>10. Near(2 * total, (2 * k) * sum, k * n)
  BY <1>6 DEF total, sum, n
<1>11. n * avg - sum <= n /\ sum - n * avg <= n
  BY <1>1, <1>7, <1>9, <1>10, NearScaled
<1> QED
  BY <1>2, <1>7, <1>9, <1>11 DEF TasteAgrees, sum, g, n

ListedScore(V, s) == AverageTaste(tables, {s}) = ScoreOf(s)

\* The list's own column: the average of one survey is its score.
LEMMA AverageOfOne ==
    ASSUME NEW V, Kept(V), NEW s \in 1 .. Len(V)
    PROVE  ListedScore(V, s)
<1> DEFINE S == {s}
           k == Cardinality(ScoredKeys)
           f == Totals(S)
<1>1. S \in SUBSET (1 .. Len(V)) /\ S # {} /\ s \in S /\ S \ {s} = {}
  OBVIOUS
<1>2. IsFiniteSet(S) /\ Cardinality(S) = 1
  BY FS_Singleton
<1>3. f[s] = Total(s) /\ Total(s) \in Int /\ ScoreOf(s) = RoundDiv(Total(s), k)
  BY OneSurvey DEF Totals
<1>4. \A x \in S : f[x] \in Int
  BY <1>3
<1>5. k \in Nat /\ k * 1 = k
  BY KeysScored
<1> HIDE DEF S, f, k
<1>6. AverageTaste(tables, S) = RoundDiv(SumOf(f, S), k * Cardinality(S))
  BY <1>1, <1>2, AverageOfTotals DEF AverageIs, f, k
<1>7. SumOf(f, S) = f[s] + SumOf(f, S \ {s})
  <2>1. SumsWell(f, S)
    BY <1>2, <1>4, SumTaking
  <2> QED
    BY <1>1, <2>1 DEF SumsWell
<1>8. SumOf(f, {}) = 0
  BY SumOfNone
<1>9. SumOf(f, S) = f[s]
  <2>1. SumOf(f, S \ {s}) = 0
    BY <1>1, <1>8
  <2> QED
    BY <1>3, <1>7, <2>1
<1>10. AverageTaste(tables, S) = RoundDiv(Total(s), k)
  BY <1>2, <1>3, <1>5, <1>6, <1>9
<1> QED
  BY <1>3, <1>10 DEF S, ListedScore

OneItemEach(V, S, h) ==
    /\ ItemsIn(S) = {h[s] : s \in S}
    /\ IsFiniteSet({h[s] : s \in S}) /\ Cardinality({h[s] : s \in S}) = Cardinality(S)
    /\ \A s, t \in S : h[s] = h[t] => s = t

\* One item of each survey, at its price.
LEMMA ItemsOfSurveys ==
    ASSUME NEW V, Kept(V), NEW S \in SUBSET (1 .. Len(V)), IsFiniteSet(S),
           NEW h, h = [s \in S |-> ItemRow(s, V[s])]
    PROVE  OneItemEach(V, S, h)
<1>1. \A u, v : ItemRow(u, v).survey = u
  BY DEF ItemRow
<1>2. \A s, t \in S : h[s] = h[t] => s = t
  BY <1>1
<1>3. tables.items = {ItemRow(s, V[s]) : s \in 1 .. Len(V)}
  BY DEF Kept, FiledAs
<1>4. ItemsIn(S) = {h[s] : s \in S}
  BY <1>1, <1>3 DEF ItemsIn
<1>5. IsFiniteSet({h[s] : s \in S}) /\ Cardinality({h[s] : s \in S}) = Cardinality(S)
  <2> DEFINE g == h
  <2>1. \A s, t \in S : g[s] = g[t] => s = t
    BY <1>2
  <2> HIDE DEF g
  <2>2. IsFiniteSet({g[s] : s \in S}) /\ Cardinality({g[s] : s \in S}) = Cardinality(S)
    BY <2>1, ImageOf
  <2> QED
    BY <2>2 DEF g
<1> QED
  BY <1>2, <1>4, <1>5 DEF OneItemEach

AveragePrice(S) ==
    RoundDiv(10 * PriceSum(ItemsIn(S)).num,
             PriceSum(ItemsIn(S)).den * Cardinality(ItemsIn(S)))

PriceAgrees(S, V) ==
    /\ ItemsIn(S) # {} /\ AveragePrice(S) \in Int /\ SumOf(Prices(S), S) \in Int
    /\ Cardinality(S) * AveragePrice(S) - SumOf(Prices(S), S) <= 6 * Cardinality(S)
    /\ SumOf(Prices(S), S) - Cardinality(S) * AveragePrice(S) <= 6 * Cardinality(S)

\* Half a cent for each price and half a tenth for their mean are less than six.
LEMMA PricesScaled ==
    ASSUME NEW den \in Nat \ {0}, NEW n \in Nat, NEW num \in Nat, NEW sum \in Int, NEW avg \in Int,
           Near(10 * num, den * sum, 5 * n * den),
           Near(2 * (10 * num), 2 * (den * n) * avg, den * n)
    PROVE  n * avg - sum <= 6 * n /\ sum - n * avg <= 6 * n
<1> DEFINE d == n * avg - sum
           z == den * n
           y == den * sum
           x == den * (n * avg)
           b == 10 * num
<1>1. d \in Int /\ z \in Nat /\ y \in Int /\ x \in Int /\ b \in Int
  <2>1. n * avg \in Int
    OBVIOUS
  <2> QED
    BY <2>1
<1>2. 2 * (den * n) * avg = 2 * x
  OBVIOUS
<1>3. 5 * n * den = 5 * z
  OBVIOUS
<1>4. den * d = x - y
  OBVIOUS
<1>5. b - y <= 5 * z /\ y - b <= 5 * z /\ 2 * b - 2 * x <= z /\ 2 * x - 2 * b <= z
  BY <1>2, <1>3 DEF Near
<1>6. den * (6 * n) = 6 * z
  OBVIOUS
<1> HIDE DEF x, y, z, b
<1>7. x - y <= 6 * z /\ y - x <= 6 * z
  BY <1>1, <1>5
<1>8. den * d <= den * (6 * n) /\ -(den * d) <= den * (6 * n)
  BY <1>1, <1>4, <1>6, <1>7
<1> DEFINE m == 6 * n
<1>9. m \in Int
  OBVIOUS
<1> HIDE DEF d, m
<1>10. den * (m - d) >= 0 /\ den * (m + d) >= 0
  <2>1. den * (m - d) = den * m - den * d /\ den * (m + d) = den * m + den * d
    BY <1>1, <1>9
  <2>2. den * m \in Int /\ den * d \in Int
    BY <1>1, <1>9
  <2> QED
    BY <1>8, <2>1, <2>2 DEF m
<1>11. m - d >= 0 /\ m + d >= 0
  <2>1. \A u \in Int : den * u >= 0 => u >= 0
    OBVIOUS
  <2> QED
    BY <1>1, <1>9, <1>10, <2>1
<1> QED
  BY <1>11 DEF d, m

\* The dashboard's average price is near the average of the rounded prices.
LEMMA AveragePriceAgrees ==
    ASSUME NEW V, Kept(V), NEW S \in SUBSET (1 .. Len(V)), IsFiniteSet(S), S # {}
    PROVE  PriceAgrees(S, V)
<1> DEFINE h == [s \in S |-> ItemRow(s, V[s])]
           I == ItemsIn(S)
           f == Prices(S)
           w == [i \in I |-> 10 * RoundDiv(i.price_cents, i.qty)]
           p == PriceSum(I)
           n == Cardinality(S)
           sum == SumOf(f, S)
<1>0. h = [s \in S |-> ItemRow(s, V[s])]
  OBVIOUS
<1> HIDE DEF h
<1>1. /\ I = {h[s] : s \in S}
      /\ IsFiniteSet({h[s] : s \in S}) /\ Cardinality({h[s] : s \in S}) = Cardinality(S)
      /\ \A s, t \in S : h[s] = h[t] => s = t
  <2>1. OneItemEach(V, S, h)
    BY <1>0, ItemsOfSurveys
  <2> QED
    BY <2>1 DEF OneItemEach
<1>2. n \in Nat \ {0}
  BY FS_CardinalityType, FS_EmptySet
<1>3. ASSUME NEW s \in S
      PROVE  /\ h[s] \in I
             /\ h[s].price_cents \in Nat /\ h[s].qty \in Nat \ {0}
             /\ RoundDiv(h[s].price_cents, h[s].qty) \in Int
             /\ PriceOf(s) = RoundDiv(h[s].price_cents, h[s].qty)
  <2>1. Answered(V[s]) /\ s \in 1 .. Len(V)
    BY DEF Kept
  <2>2. /\ h[s].price_cents = V[s][<<1, "price_cents">>] /\ h[s].qty = V[s][<<1, "qty">>]
        /\ h[s] \in I
    BY <1>0, <1>1 DEF ItemRow
  <2>3. h[s].price_cents \in Nat /\ h[s].qty \in Nat \ {0}
    BY <2>1, <2>2 DEF Answered
  <2>4. RoundDiv(h[s].price_cents, h[s].qty) \in Int
    <3> DEFINE a == h[s].price_cents
               b == h[s].qty
    <3>1. a \in Int /\ b \in Nat \ {0}
      BY <2>3
    <3> HIDE DEF a, b
    <3>2. RoundDiv(a, b) \in Int
      BY <3>1, RoundedIsNear
    <3> QED
      BY <3>2 DEF a, b
  <2>5. PriceOf(s) = RoundDiv(V[s][<<1, "price_cents">>], V[s][<<1, "qty">>])
    BY <2>1, OneSurvey
  <2> QED
    BY <2>2, <2>3, <2>4, <2>5
<1>4. \A s \in S : /\ h[s].price_cents \in Nat /\ h[s].qty \in Nat \ {0} /\ h[s] \in I
                   /\ f[s] \in Int /\ w[h[s]] = f[s]
  <2> SUFFICES ASSUME NEW s \in S
               PROVE  /\ h[s].price_cents \in Nat /\ h[s].qty \in Nat \ {0} /\ h[s] \in I
                      /\ f[s] \in Int /\ w[h[s]] = f[s]
    OBVIOUS
  <2>1. f[s] = 10 * PriceOf(s)
    BY DEF Prices
  <2> HIDE DEF I, f
  <2> QED
    BY <1>3, <2>1
<1> HIDE DEF f, I
<1>5. SumOf(w, {h[s] : s \in S}) = SumOf(f, S)
  <2> HIDE DEF w
  <2>1. \A s \in S : f[s] \in Int /\ w[h[s]] = f[s]
    BY <1>4
  <2>2. \A s, t \in S : h[s] = h[t] => s = t
    BY <1>1
  <2>3. Moved(S, f, w, h)
    BY <2>1, <2>2, SumIsMoved
  <2> QED
    BY <2>3 DEF Moved
<1>6. \A i \in I : /\ i.price_cents \in Nat /\ i.qty \in Nat \ {0} /\ w[i] \in Int
                   /\ Near(10 * i.price_cents, i.qty * w[i], 5 * i.qty)
  <2> SUFFICES ASSUME NEW i \in I
               PROVE  /\ i.price_cents \in Nat /\ i.qty \in Nat \ {0} /\ w[i] \in Int
                      /\ Near(10 * i.price_cents, i.qty * w[i], 5 * i.qty)
    OBVIOUS
  <2>1. PICK s \in S : i = h[s]
    BY <1>1
  <2>2. i.price_cents \in Nat /\ i.qty \in Nat \ {0}
    BY <1>4, <2>1
  <2> DEFINE a == i.price_cents
             b == i.qty
             r == RoundDiv(a, b)
  <2>3. w[i] = 10 * r
    OBVIOUS
  <2>4. a \in Nat /\ b \in Nat \ {0} /\ a \in Int
    BY <2>2
  <2>5. r \in Int /\ Near(2 * a, 2 * b * r, b)
    <3> HIDE DEF a, b
    <3>1. RoundDiv(a, b) \in Int /\ Near(2 * a, 2 * b * RoundDiv(a, b), b)
      BY <2>4, RoundedIsNear
    <3> QED
      BY <3>1
  <2> HIDE DEF a, b, r, w
  <2>6. Near(10 * a, b * (10 * r), 5 * b)
    <3> DEFINE c == b * r
    <3>1. c \in Int /\ 2 * b * r = 2 * c /\ b * (10 * r) = 10 * c
      BY <2>4, <2>5
    <3> HIDE DEF c
    <3> QED
      BY <2>4, <2>5, <3>1 DEF Near
  <2> QED
    BY <2>2, <2>3, <2>4, <2>5, <2>6 DEF a, b
<1> HIDE DEF w
<1>7. IsFiniteSet(I) /\ Cardinality(I) = n /\ I # {}
  BY <1>1, <1>2, FS_EmptySet
<1>8. /\ p.num \in Nat /\ p.den \in Nat \ {0}
      /\ Near(10 * p.num, p.den * SumOf(w, I), 5 * Cardinality(I) * p.den)
  BY <1>6, <1>7, PricesAreNear
<1>9. sum \in Int /\ SumOf(w, I) = sum
  <2>1. SumsWell(f, S)
    BY <1>4, SumTaking
  <2> QED
    BY <1>1, <1>5, <2>1 DEF SumsWell
<1> HIDE DEF sum, n
<1> DEFINE num == p.num
           den == p.den
           avg == RoundDiv(10 * num, den * n)
<1>10. num \in Nat /\ den \in Nat \ {0} /\ Near(10 * num, den * sum, 5 * n * den)
  BY <1>7, <1>8, <1>9
<1>11. AveragePrice(S) = avg
  BY <1>7 DEF AveragePrice, I
<1> HIDE DEF num, den, p
<1>12. avg \in Int /\ Near(2 * (10 * num), 2 * (den * n) * avg, den * n)
  <2> DEFINE a == 10 * num
             b == den * n
  <2>1. a \in Int /\ b \in Nat \ {0}
    BY <1>2, <1>10 DEF n
  <2> HIDE DEF a, b
  <2>2. RoundDiv(a, b) \in Int /\ Near(2 * a, 2 * b * RoundDiv(a, b), b)
    BY <2>1, RoundedIsNear
  <2> QED
    BY <2>2 DEF a, b
<1> HIDE DEF avg
<1>13. n \in Nat
  BY <1>2 DEF n
<1>14. n * avg - sum <= 6 * n /\ sum - n * avg <= 6 * n
  BY <1>9, <1>10, <1>12, <1>13, PricesScaled
<1> QED
  BY <1>7, <1>9, <1>11, <1>12, <1>14 DEF PriceAgrees, sum, f, n, I


-----------------------------------------------------------------------------
(* The dashboard's counts. *)

StatesCounted(C, S) ==
    IsFiniteSet(DOMAIN C) /\ SumOf(C, DOMAIN C) = Cardinality(S)

\* Counted by anything, the surveys are as many as they are.
LEMMA CountedBy ==
    ASSUME NEW S, IsFiniteSet(S), NEW state,
           NEW C, C = [st \in {state[s] : s \in S} |-> Cardinality({s \in S : state[s] = st})]
    PROVE  StatesCounted(C, S)
<1> DEFINE D == {state[s] : s \in S}
           K == [st \in D |-> {s \in S : state[s] = st}]
<1>1. DOMAIN C = D
  OBVIOUS
<1>2. IsFiniteSet(D)
  BY FewerValues
<1>3. UNION {K[st] : st \in D} = S
  <2>1. \A st \in D : K[st] = {s \in S : state[s] = st}
    OBVIOUS
  <2>2. \A s \in S : state[s] \in D
    OBVIOUS
  <2> HIDE DEF K, D
  <2>3. \A s \in S : s \in K[state[s]]
    BY <2>1, <2>2
  <2>4. \A st \in D : \A s \in K[st] : s \in S
    BY <2>1
  <2> QED
    BY <2>2, <2>3, <2>4
<1>4. Apart(K, D)
  BY DEF Apart
<1>5. ASSUME NEW st \in D PROVE IsFiniteSet(K[st]) /\ C[st] = Cardinality(K[st])
  <2>1. K[st] = {s \in S : state[s] = st} /\ K[st] \subseteq S
    OBVIOUS
  <2>2. IsFiniteSet(K[st])
    BY <2>1, FS_Subset
  <2> QED
    BY <2>1, <2>2
<1>6. \A st \in D : IsFiniteSet(K[st]) /\ C[st] = Cardinality(K[st])
  BY <1>5
<1> HIDE DEF D, K
<1>7. Cardinality(UNION {K[st] : st \in D}) = SumOf(C, D)
  BY <1>2, <1>4, <1>6, CountedInParts
<1> QED
  BY <1>1, <1>2, <1>3, <1>7 DEF StatesCounted

-----------------------------------------------------------------------------
(* The states shown: the order they stand in, and how many of them fit. *)

LEMMA TextsInOrder ==
    /\ \A a : Text(a) => ~TextBefore(a, a)
    /\ \A a, b, c : Text(a) /\ Text(b) /\ Text(c) /\ TextBefore(a, b) /\ TextBefore(b, c)
                      => TextBefore(a, c)
    /\ \A a, b : Text(a) /\ Text(b) /\ a # b => TextBefore(a, b) \/ TextBefore(b, a)
<1>0. ASSUME NEW a, Text(a)
      PROVE  /\ Len(a) \in Nat /\ DOMAIN a = 1 .. Len(a) /\ \A i \in 1 .. Len(a) : a[i] \in Nat
             /\ a = [i \in 1 .. Len(a) |-> a[i]]
  BY <1>0, LenProperties DEF Text
<1>1. ASSUME NEW a, Text(a), TextBefore(a, a) PROVE FALSE
  <2>1. PICK k \in DOMAIN a : a[k] < a[k]
    BY <1>1 DEF TextBefore
  <2> QED
    BY <1>0, <1>1, <2>1
<1>2. ASSUME NEW a, NEW b, NEW c, Text(a), Text(b), Text(c), TextBefore(a, b), TextBefore(b, c)
      PROVE  TextBefore(a, c)
  <2> DEFINE l == Len(a)
             m == Len(b)
             n == Len(c)
  <2>1. /\ l \in Nat /\ DOMAIN a = 1 .. l /\ \A i \in 1 .. l : a[i] \in Nat
        /\ m \in Nat /\ DOMAIN b = 1 .. m /\ \A i \in 1 .. m : b[i] \in Nat
        /\ n \in Nat /\ DOMAIN c = 1 .. n /\ \A i \in 1 .. n : c[i] \in Nat
    BY <1>0, <1>2
  <2> HIDE DEF l, m, n
  <2>2. PICK j \in 1 .. m : /\ \A i \in 1 .. (j - 1) : i \in 1 .. l /\ a[i] = b[i]
                            /\ j \in 1 .. l => a[j] < b[j]
    BY <1>2, <2>1 DEF TextBefore
  <2>3. PICK k \in 1 .. n : /\ \A i \in 1 .. (k - 1) : i \in 1 .. m /\ b[i] = c[i]
                            /\ k \in 1 .. m => b[k] < c[k]
    BY <1>2, <2>1 DEF TextBefore
  <2>4. SUFFICES \E h \in 1 .. n : /\ \A i \in 1 .. (h - 1) : i \in 1 .. l /\ a[i] = c[i]
                                   /\ h \in 1 .. l => a[h] < c[h]
    BY <2>1 DEF TextBefore
  <2>5. CASE j <= k
    <3>1. j \in 1 .. n /\ \A i \in 1 .. (j - 1) : i \in 1 .. (k - 1)
      BY <2>1, <2>2, <2>3, <2>5
    <3>2. \A i \in 1 .. (j - 1) : i \in 1 .. l /\ a[i] = c[i]
      BY <2>2, <2>3, <3>1
    <3>3. ASSUME j \in 1 .. l PROVE a[j] < c[j]
      <4>1. a[j] < b[j] /\ a[j] \in Nat /\ b[j] \in Nat /\ c[j] \in Nat
        BY <2>1, <2>2, <3>1, <3>3
      <4>2. CASE j = k
        BY <2>2, <2>3, <4>1, <4>2
      <4>3. CASE j # k
        <5>1. j \in 1 .. (k - 1)
          BY <2>1, <2>2, <2>3, <2>5, <4>3
        <5> QED
          BY <2>3, <4>1, <5>1
      <4> QED
        BY <4>2, <4>3
    <3> QED
      BY <3>1, <3>2, <3>3
  <2>6. CASE k < j
    <3>1. k \in 1 .. (j - 1) /\ k \in 1 .. m /\ \A i \in 1 .. (k - 1) : i \in 1 .. (j - 1)
      BY <2>1, <2>2, <2>3, <2>6
    <3>2. \A i \in 1 .. (k - 1) : i \in 1 .. l /\ a[i] = c[i]
      BY <2>2, <2>3, <3>1
    <3>3. a[k] < c[k]
      BY <2>2, <2>3, <3>1
    <3> QED
      BY <3>2, <3>3
  <2> QED
    BY <2>1, <2>2, <2>3, <2>5, <2>6
<1>3. ASSUME NEW a, NEW b, Text(a), Text(b), a # b
      PROVE  TextBefore(a, b) \/ TextBefore(b, a)
  <2> DEFINE l == Len(a)
             m == Len(b)
             both(k) == k \in 1 .. l /\ k \in 1 .. m /\ a[k] = b[k]
             D == {k \in Nat : (k \in 1 .. l \/ k \in 1 .. m) /\ ~both(k)}
  <2>1. /\ l \in Nat /\ DOMAIN a = 1 .. l /\ \A i \in 1 .. l : a[i] \in Nat
        /\ m \in Nat /\ DOMAIN b = 1 .. m /\ \A i \in 1 .. m : b[i] \in Nat
        /\ a = [i \in 1 .. l |-> a[i]] /\ b = [i \in 1 .. m |-> b[i]]
    BY <1>0, <1>3
  <2> HIDE DEF l, m
  <2>2. D # {}
    <3> SUFFICES ASSUME D = {} PROVE FALSE
      OBVIOUS
    <3>1. \A k \in Nat : k \in 1 .. l \/ k \in 1 .. m => both(k)
      OBVIOUS
    <3> HIDE DEF D
    <3>2. 1 .. l = 1 .. m /\ \A k \in 1 .. l : a[k] = b[k]
      <4>1. \A k \in Nat : k \in 1 .. l <=> k \in 1 .. m
        BY <3>1
      <4>2. \A k \in Nat : k \in 1 .. l => a[k] = b[k]
        BY <3>1
      <4>3. l = m
        <5>1. (l \in 1 .. l <=> l \in 1 .. m) /\ (m \in 1 .. l <=> m \in 1 .. m)
          BY <2>1, <4>1
        <5> QED
          BY <2>1, <5>1
      <4>4. \A k \in 1 .. l : a[k] = b[k]
        BY <4>2
      <4> QED
        BY <4>3, <4>4
    <3> DEFINE L == 1 .. l
               M == 1 .. m
    <3>3. L = M /\ a = [i \in L |-> a[i]] /\ b = [i \in M |-> b[i]] /\ \A i \in L : a[i] = b[i]
      BY <2>1, <3>2
    <3> HIDE DEF L, M
    <3>4. a = b
      BY <3>3
    <3> QED
      BY <1>3, <3>4
  <2>3. D \in SUBSET Nat
    OBVIOUS
  <2> HIDE DEF D
  <2>4. PICK k \in D : \A i \in D : ~(i < k)
    BY <2>2, <2>3, Smallest
  <2>5. k \in Nat /\ (k \in 1 .. l \/ k \in 1 .. m) /\ ~both(k)
    BY DEF D
  <2>6. ASSUME NEW i \in 1 .. (k - 1) PROVE both(i)
    <3>1. i \in Nat /\ i < k /\ (i \in 1 .. l \/ i \in 1 .. m)
      BY <2>1, <2>5
    <3>2. i \notin D
      BY <2>4, <3>1
    <3> QED
      BY <3>1, <3>2 DEF D
  <2>7. CASE k \in 1 .. m /\ (k \in 1 .. l => a[k] < b[k])
    BY <2>1, <2>6, <2>7 DEF TextBefore
  <2>8. CASE k \in 1 .. l /\ (k \in 1 .. m => b[k] < a[k])
    BY <2>1, <2>6, <2>8 DEF TextBefore
  <2> QED
    BY <2>1, <2>5, <2>7, <2>8
<1> QED
  BY <1>1, <1>2, <1>3

\* R puts the members of K in a row.
Orders(K, R) ==
    /\ \A x \in K : <<x, x>> \notin R
    /\ \A x, y, z \in K : <<x, y>> \in R /\ <<y, z>> \in R => <<x, z>> \in R
    /\ \A x, y \in K : x # y => <<x, y>> \in R \/ <<y, x>> \in R

InFront(K, R, x) == {y \in K : <<y, x>> \in R}
FirstOnes(K, R, n) == {x \in K : Cardinality(InFront(K, R, x)) < n}

LEMMA InFrontOf ==
    ASSUME NEW K, IsFiniteSet(K), NEW R, Orders(K, R), NEW x \in K
    PROVE  /\ IsFiniteSet(InFront(K, R, x))
           /\ Cardinality(InFront(K, R, x)) \in 0 .. (Cardinality(K) - 1)
<1>1. InFront(K, R, x) \in SUBSET K /\ x \notin InFront(K, R, x)
  BY DEF InFront, Orders
<1>2. /\ IsFiniteSet(InFront(K, R, x))
      /\ Cardinality(InFront(K, R, x)) \in Nat /\ Cardinality(K) \in Nat
      /\ Cardinality(InFront(K, R, x)) < Cardinality(K)
  BY <1>1, FS_Subset, FS_CardinalityType
<1> QED
  BY <1>2

LEMMA FewerInFront ==
    ASSUME NEW K, IsFiniteSet(K), NEW R, Orders(K, R), NEW x \in K, NEW y \in K, <<x, y>> \in R
    PROVE  Cardinality(InFront(K, R, x)) < Cardinality(InFront(K, R, y))
<1>1. InFront(K, R, x) \in SUBSET InFront(K, R, y)
  BY DEF InFront, Orders
<1>2. x \in InFront(K, R, y) /\ x \notin InFront(K, R, x)
  BY DEF InFront, Orders
<1>3. /\ IsFiniteSet(InFront(K, R, y)) /\ IsFiniteSet(InFront(K, R, x))
  BY InFrontOf
<1> QED
  BY <1>1, <1>2, <1>3, FS_Subset, FS_CardinalityType

Fits(K, R, n, F) ==
    /\ Cardinality(F) = Min({n, Cardinality(K)})
    /\ \A x \in K \ F : \A y \in F : <<y, x>> \in R
    /\ Cardinality(K) <= n => F = K

\* The first n of them are n, or all there are, and before the others.
LEMMA FirstOnesFit ==
    ASSUME NEW K, IsFiniteSet(K), NEW R, Orders(K, R), NEW n \in Nat
    PROVE  Fits(K, R, n, FirstOnes(K, R, n))
<1> DEFINE F == FirstOnes(K, R, n)
           c == Cardinality(K)
           m == IF n <= c THEN n ELSE c
           place == [x \in K |-> Cardinality(InFront(K, R, x))]
           last == c - 1
           Places == 0 .. last
<1>1. c \in Nat /\ last \in Int /\ m \in Nat
  BY FS_CardinalityType
<1>2. IsFiniteSet(Places) /\ Cardinality(Places) = c
  <2>1. 0 \in Int /\ (IF 0 > last THEN 0 ELSE last - 0 + 1) = c
    BY <1>1
  <2> HIDE DEF last, c
  <2> QED
    BY <1>1, <2>1, FS_Interval
<1>3. \A x \in K : place[x] \in Places /\ place[x] \in Nat
  BY InFrontOf, <1>1
<1>4. \A x, y \in K : <<x, y>> \in R => place[x] < place[y]
  BY FewerInFront
<1>5. F = {x \in K : place[x] < n}
  BY DEF FirstOnes
<1>6. place \in [K -> Places]
  BY <1>3
<1> HIDE DEF place, F
<1>7. \A x, y \in K : place[x] = place[y] => x = y
  <2> SUFFICES ASSUME NEW x \in K, NEW y \in K, place[x] = place[y], x # y PROVE FALSE
    OBVIOUS
  <2>1. <<x, y>> \in R \/ <<y, x>> \in R
    BY DEF Orders
  <2>2. place[x] \in Nat /\ place[y] \in Nat
    BY <1>3
  <2>3. place[x] < place[y] \/ place[y] < place[x]
    BY <1>4, <2>1
  <2> HIDE DEF Places, m
  <2> QED
    BY <2>2, <2>3
<1>8. place \in Injection(K, Places)
  BY <1>6, <1>7 DEF Injection, IsInjective
<1>9. \A i \in Places : \E x \in K : place[x] = i
  <2> HIDE DEF Places, c
  <2>1. Cardinality(K) = Cardinality(Places)
    BY <1>2 DEF c
  <2>2. place \in Surjection(K, Places)
    BY <1>2, <1>8, <2>1, FS_Injection
  <2> QED
    BY <2>2 DEF Surjection
<1>10. Cardinality(F) = m
  <2> DEFINE A == {place[x] : x \in F}
             top == m - 1
  <2>1. F \in SUBSET K /\ IsFiniteSet(F)
    BY <1>5, FS_Subset
  <2>2. Cardinality(A) = Cardinality(F)
    <3>1. \A v, w \in F : place[v] = place[w] => v = w
      BY <1>7, <2>1
    <3> QED
      BY <2>1, <3>1, ImageOf
  <2>3. A = 0 .. top
    <3>1. ASSUME NEW x \in F PROVE place[x] \in 0 .. top
      BY <1>1, <1>3, <1>5
    <3>2. ASSUME NEW i \in 0 .. top PROVE i \in A
      <4>1. i \in Places /\ i < n
        BY <1>1
      <4>2. PICK x \in K : place[x] = i
        BY <1>9, <4>1
      <4> QED
        BY <1>5, <4>1, <4>2
    <3> HIDE DEF top
    <3> QED
      BY <3>1, <3>2
  <2>4. Cardinality(0 .. top) = m
    <3>1. 0 \in Int /\ top \in Int /\ (IF 0 > top THEN 0 ELSE top - 0 + 1) = m
      BY <1>1
    <3> HIDE DEF top, m
    <3> QED
      BY <3>1, FS_Interval
  <2> HIDE DEF A
  <2> QED
    BY <2>2, <2>3, <2>4
<1>11. ASSUME NEW x \in K \ F, NEW y \in F PROVE <<y, x>> \in R
  <2>1. y \in K /\ place[y] < n /\ ~(place[x] < n) /\ place[x] \in Nat /\ place[y] \in Nat
    BY <1>3, <1>5
  <2>2. ~(<<x, y>> \in R) /\ x # y
    BY <1>4, <2>1
  <2> QED
    BY <2>1, <2>2 DEF Orders
<1>12. ASSUME c <= n PROVE F = K
  <2>1. \A x \in K : place[x] < n
    BY <1>1, <1>3, <1>12
  <2> QED
    BY <1>5, <2>1
<1>13. m = Min({n, c})
  BY <1>1, MinOfTwo
<1> HIDE DEF m
<1>14. Cardinality(F) = Min({n, c})
  BY <1>10, <1>13
<1> QED
  BY <1>11, <1>12, <1>14 DEF Fits, F, c

Row(s)    == tables.surveys[s]
Labels(S) == {VenueLabel(Row(s)) : s \in S}
Venues(S) == {Venue(Row(s)) : s \in S}
Revisits(S) == {v \in Venues(S) : Cardinality({s \in S : Venue(Row(s)) = v}) > 1}
StatesOf(S) == {Row(s).state : s \in S}

VenuesAgree(S, V) ==
    /\ (Cardinality(Revisits(S)) = 0) <=> (Cardinality(Labels(S)) = Cardinality(S))
    /\ Cardinality(Labels(S)) + Cardinality(Revisits(S)) <= Cardinality(S)
    /\ Cardinality(Labels(S)) >= Cardinality(StatesOf(S))

\* Without a bar in a name or a town, a label says which venue it is.
LEMMA LabelIsTheVenues ==
    ASSUME NEW V, Kept(V), NEW S \in SUBSET (1 .. Len(V)), \A s \in S : ~HasBar(Row(s)),
           NEW s \in S, NEW t \in S, VenueLabel(Row(s)) = VenueLabel(Row(t))
    PROVE  Venue(Row(s)) = Venue(Row(t))
<1>1. ASSUME NEW u \in S
      PROVE  LET r == Row(u)
             IN  /\ IsSeq(r.business_name) /\ IsSeq(r.state) /\ IsSeq(r.town)
                 /\ Plain(r.business_name) /\ Plain(r.town)
                 /\ Spells(VenueLabel(r), r.business_name, r.state, r.town)
  <2> DEFINE r == Row(u)
             b == r.business_name
             st == r.state
             w == r.town
  <2>1. u \in 1 .. Len(V) /\ Answered(V[u]) /\ RowSays(r, V[u])
    BY DEF Kept, FiledAs, Row
  <2>2. Text(b) /\ Text(st) /\ Text(w)
    BY <2>1 DEF Answered, RowSays
  <2>3. ~HasBar(r)
    OBVIOUS
  <2>4. Bar \notin Range(b \o w)
    BY <2>3 DEF HasBar
  <2>5. VenueLabel(r) = LabelOf(b, st, w)
    BY DEF VenueLabel, LabelOf
  <2> HIDE DEF r, b, st, w
  <2>6. IsSeq(b) /\ IsSeq(st) /\ IsSeq(w)
    BY <2>2, TextIsSeq
  <2>7. /\ Len(b) \in Nat /\ Len(w) \in Nat
        /\ b \o w \in Seq(Nat) /\ Len(b \o w) = Len(b) + Len(w)
        /\ \A i \in 1 .. Len(b) : (b \o w)[i] = b[i]
        /\ \A i \in 1 .. Len(w) : (b \o w)[Len(b) + i] = w[i]
    <3> DEFINE c == b \o w
    <3>1. Joins(c, b, w)
      BY <2>6, Joined
    <3>2. c \in Seq(Nat)
      BY <2>2, TextJoined DEF Text
    <3>3. Len(b) \in Nat /\ Len(w) \in Nat
      BY <2>2, TextIsSeq
    <3> HIDE DEF c
    <3>4. /\ Len(c) = Len(b) + Len(w)
          /\ \A i \in 1 .. Len(b) : c[i] = b[i]
          /\ \A i \in 1 .. Len(w) : c[Len(b) + i] = w[i]
      BY <3>1, <3>3 DEF Joins
    <3> QED
      BY <3>2, <3>3, <3>4 DEF c
  <2>8. DOMAIN (b \o w) = 1 .. Len(b) + Len(w)
    BY <2>7, LenProperties
  <2>9. \A i \in 1 .. Len(b) : b[i] # Bar
    BY <2>4, <2>7, <2>8 DEF Range
  <2>10. \A i \in 1 .. Len(w) : w[i] # Bar
    <3> SUFFICES ASSUME NEW i \in 1 .. Len(w) PROVE w[i] # Bar
      OBVIOUS
    <3>1. Len(b) + i \in DOMAIN (b \o w) /\ (b \o w)[Len(b) + i] = w[i]
      BY <2>7, <2>8
    <3> QED
      BY <2>4, <3>1 DEF Range
  <2>11. Spells(LabelOf(b, st, w), b, st, w)
    BY <2>6, LabelSpells
  <2> QED
    BY <2>5, <2>6, <2>9, <2>10, <2>11 DEF Plain, r, b, st, w
<1> DEFINE u == VenueLabel(Row(s))
           b == Row(s).business_name
           st == Row(s).state
           w == Row(s).town
           bt == Row(t).business_name
           stt == Row(t).state
           wt == Row(t).town
<1>2. /\ IsSeq(st) /\ IsSeq(stt) /\ Plain(b) /\ Plain(bt) /\ Plain(w) /\ Plain(wt)
      /\ Spells(u, b, st, w) /\ Spells(u, bt, stt, wt)
  BY <1>1
<1>3. /\ Venue(Row(s)) = <<b, st, w>> /\ Venue(Row(t)) = <<bt, stt, wt>>
  BY DEF Venue
<1> HIDE DEF u, b, st, w, bt, stt, wt
<1>4. b = bt /\ st = stt /\ w = wt
  BY <1>2, LabelsTellVenuesApart
<1> QED
  BY <1>3, <1>4

\* Venues, revisits and states: two queries on labels and one on venues.
LEMMA VenuesAgreeToo ==
    ASSUME NEW V, Kept(V), NEW S \in SUBSET (1 .. Len(V)), IsFiniteSet(S),
           \A s \in S : ~HasBar(Row(s))
    PROVE  VenuesAgree(S, V)
<1> DEFINE ven == [s \in S |-> Venue(Row(s))]
           lab == [s \in S |-> VenueLabel(Row(s))]
           A == Venues(S)
           L == Labels(S)
           R == Revisits(S)
           D == StatesOf(S)
           second == [v \in A |-> v[2]]
<1>1. \A s, t \in S : ven[s] = ven[t] => lab[s] = lab[t]
  <2>1. \A s \in S : ven[s] = <<Row(s).business_name, Row(s).state, Row(s).town>>
    BY DEF Venue
  <2>2. \A s \in S : lab[s] = LabelOf(Row(s).business_name, Row(s).state, Row(s).town)
    BY DEF VenueLabel, LabelOf
  <2> HIDE DEF ven, lab
  <2> SUFFICES ASSUME NEW s \in S, NEW t \in S, ven[s] = ven[t] PROVE lab[s] = lab[t]
    OBVIOUS
  <2>3. /\ Row(s).business_name = Row(t).business_name /\ Row(s).state = Row(t).state
        /\ Row(s).town = Row(t).town
    BY <2>1
  <2> QED
    BY <2>2, <2>3
<1>2. \A s, t \in S : lab[s] = lab[t] => ven[s] = ven[t]
  BY LabelIsTheVenues
<1>3. \A s, t \in S : lab[s] = lab[t] <=> ven[s] = ven[t]
  BY <1>1, <1>2
<1>4. A = {ven[s] : s \in S} /\ L = {lab[s] : s \in S}
  BY DEF Venues, Labels
<1>5. R = {v \in A : Cardinality({s \in S : ven[s] = v}) > 1}
  <2>1. \A v : {s \in S : ven[s] = v} = {s \in S : Venue(Row(s)) = v}
    OBVIOUS
  <2>2. R = {v \in A : Cardinality({s \in S : Venue(Row(s)) = v}) > 1}
    BY DEF Revisits
  <2> HIDE DEF A, ven
  <2> QED
    BY <2>1, <2>2
<1>6. D = {second[v] : v \in A}
  <2>1. \A s \in S : Venue(Row(s))[2] = Row(s).state /\ Venue(Row(s)) \in A
    BY DEF Venue, Venues
  <2>2. \A s \in S : second[Venue(Row(s))] = Row(s).state
    BY <2>1
  <2>3. \A v \in A : \E s \in S : v = Venue(Row(s))
    BY DEF Venues
  <2> HIDE DEF A, second
  <2> QED
    BY <2>1, <2>2, <2>3 DEF StatesOf
<1> HIDE DEF ven, lab, A, L, R, D, second
<1>7. /\ IsFiniteSet(A) /\ Cardinality(L) = Cardinality(A)
      /\ Cardinality(R) = 0 <=> Cardinality(A) = Cardinality(S)
      /\ Cardinality(A) + Cardinality(R) <= Cardinality(S)
  <2>1. VenuesFit(S, ven, lab, A, L, R)
    BY <1>3, <1>4, <1>5, VenuesCounted
  <2> QED
    BY <2>1 DEF VenuesFit
<1>8. IsFiniteSet(D) /\ Cardinality(D) <= Cardinality(A)
  BY <1>6, <1>7, FewerValues
<1>9. Cardinality(D) \in Nat /\ Cardinality(A) \in Nat
  BY <1>7, <1>8, FS_CardinalityType
<1>10. /\ (Cardinality(R) = 0) <=> (Cardinality(L) = Cardinality(S))
       /\ Cardinality(L) + Cardinality(R) <= Cardinality(S)
       /\ Cardinality(L) >= Cardinality(D)
  BY <1>7, <1>8, <1>9
<1> QED
  BY <1>10 DEF VenuesAgree, R, L, D

\* The surveys in each state, the row the states stand in, and those shown.
InState(S, st) == {s \in S : Row(s).state = st}
StateCounts(S) == [st \in StatesOf(S) |-> Cardinality(InState(S, st))]
StateRow(S) ==
    {p \in StatesOf(S) \X StatesOf(S) : MoreSurveys(StateCounts(S), p[1], p[2])}
ShownOf(S) == FirstOnes(StatesOf(S), StateRow(S), StatesShown)

LEMMA ByStateIs ==
    ASSUME NEW S
    PROVE  ByState(tables, S) = [st \in ShownOf(S) |-> StateCounts(S)[st]]
<1> DEFINE K == StatesOf(S)
           count == StateCounts(S)
           ahead(st) == {u \in K : MoreSurveys(count, u, st)}
<1>1. count = [st \in {tables.surveys[s].state : s \in S} |->
                 Cardinality({s \in S : tables.surveys[s].state = st})]
  BY DEF StateCounts, StatesOf, InState, Row
<1>2. DOMAIN count = K
  BY DEF StateCounts
<1>3. ByState(tables, S)
        = Restrict(count, {st \in K : Cardinality(ahead(st)) < StatesShown})
  <2> HIDE DEF count, K
  <2> QED
    BY <1>1, <1>2, Zenon DEF ByState
<1>4. ASSUME NEW st \in K PROVE ahead(st) = InFront(K, StateRow(S), st)
  <2>1. \A u \in K : <<u, st>> \in StateRow(S) <=> MoreSurveys(count, u, st)
    BY DEF StateRow
  <2> HIDE DEF count, K
  <2> QED
    BY <2>1 DEF InFront
<1>5. {st \in K : Cardinality(ahead(st)) < StatesShown} = ShownOf(S)
  <2>1. \A st \in K : Cardinality(ahead(st)) < StatesShown
                        <=> Cardinality(InFront(K, StateRow(S), st)) < StatesShown
    BY <1>4
  <2> HIDE DEF ahead
  <2> QED
    BY <2>1 DEF ShownOf, FirstOnes
<1> QED
  BY <1>3, <1>5 DEF Restrict

LEMMA StatesInARow ==
    ASSUME NEW V, Kept(V), NEW S \in SUBSET (1 .. Len(V)), IsFiniteSet(S)
    PROVE  /\ IsFiniteSet(StatesOf(S)) /\ Orders(StatesOf(S), StateRow(S))
           /\ \A st \in StatesOf(S) : StateCounts(S)[st] \in Nat
<1> DEFINE K == StatesOf(S)
           count == StateCounts(S)
           R == StateRow(S)
<1>1. IsFiniteSet(K)
  <2> DEFINE state == [s \in S |-> Row(s).state]
  <2>1. K = {state[s] : s \in S}
    BY DEF StatesOf
  <2> HIDE DEF K, state
  <2> QED
    BY <2>1, FewerValues
<1>2. ASSUME NEW st \in K PROVE count[st] \in Nat
  <2>1. InState(S, st) \in SUBSET S
    BY DEF InState
  <2>2. count[st] = Cardinality(InState(S, st))
    BY DEF StateCounts
  <2> QED
    BY <2>1, <2>2, FS_Subset, FS_CardinalityType
<1>3. ASSUME NEW st \in K PROVE Text(st)
  <2>1. PICK s \in S : st = Row(s).state
    BY DEF StatesOf
  <2>2. s \in 1 .. Len(V) /\ Answered(V[s]) /\ RowSays(Row(s), V[s])
    BY DEF Kept, FiledAs, Row
  <2> QED
    BY <2>1, <2>2 DEF Answered, RowSays
<1>4. \A u, st \in K : <<u, st>> \in R
        <=> count[u] > count[st] \/ (count[u] = count[st] /\ TextBefore(u, st))
  BY DEF StateRow, MoreSurveys
<1> HIDE DEF K, count, R
<1>5. ASSUME NEW x \in K PROVE <<x, x>> \notin R
  BY <1>2, <1>3, <1>4, TextsInOrder
<1>6. ASSUME NEW x \in K, NEW y \in K, NEW z \in K, <<x, y>> \in R, <<y, z>> \in R
      PROVE  <<x, z>> \in R
  <2>1. count[x] \in Nat /\ count[y] \in Nat /\ count[z] \in Nat
    BY <1>2
  <2>2. TextBefore(x, y) /\ TextBefore(y, z) => TextBefore(x, z)
    BY <1>3, TextsInOrder
  <2>3. /\ count[x] > count[y] \/ (count[x] = count[y] /\ TextBefore(x, y))
        /\ count[y] > count[z] \/ (count[y] = count[z] /\ TextBefore(y, z))
    BY <1>4, <1>6
  <2>4. count[x] > count[z] \/ (count[x] = count[z] /\ TextBefore(x, z))
    BY <2>1, <2>2, <2>3
  <2> QED
    BY <1>4, <2>4
<1>7. ASSUME NEW x \in K, NEW y \in K, x # y
      PROVE  <<x, y>> \in R \/ <<y, x>> \in R
  <2>1. count[x] \in Nat /\ count[y] \in Nat
    BY <1>2
  <2>2. TextBefore(x, y) \/ TextBefore(y, x)
    BY <1>3, <1>7, TextsInOrder
  <2>3. \/ count[x] > count[y] \/ (count[x] = count[y] /\ TextBefore(x, y))
        \/ count[y] > count[x] \/ (count[y] = count[x] /\ TextBefore(y, x))
    BY <2>1, <2>2
  <2> QED
    BY <1>4, <2>3
<1>8. Orders(K, R)
  BY <1>5, <1>6, <1>7 DEF Orders
<1> QED
  BY <1>1, <1>2, <1>8 DEF K, count, R

\* The table of states: as many as fit, none left out for one with fewer
\* surveys, and the total when all of them fit.
TopStates(S, C, n) ==
    /\ Cardinality(DOMAIN C) = Min({StatesShown, Cardinality(StatesOf(S))})
    /\ \A s \in S : \A st \in DOMAIN C :
         Row(s).state \in DOMAIN C \/ Cardinality(InState(S, Row(s).state)) <= C[st]
    /\ Cardinality(StatesOf(S)) <= StatesShown => SumOf(C, DOMAIN C) = n

LEMMA StatesAgree ==
    ASSUME NEW V, Kept(V), NEW S \in SUBSET (1 .. Len(V)), IsFiniteSet(S)
    PROVE  TopStates(S, ByState(tables, S), Cardinality(S))
<1> DEFINE K == StatesOf(S)
           count == StateCounts(S)
           R == StateRow(S)
           F == ShownOf(S)
           C == ByState(tables, S)
           n == Cardinality(S)
<1>1. IsFiniteSet(K) /\ Orders(K, R) /\ \A st \in K : count[st] \in Nat
  BY StatesInARow
<1>2. StatesShown \in Nat
  BY ListAssumption
<1>3. Fits(K, R, StatesShown, F)
  <2> HIDE DEF K, R
  <2>1. Fits(K, R, StatesShown, FirstOnes(K, R, StatesShown))
    BY <1>1, <1>2, FirstOnesFit
  <2> QED
    BY <2>1 DEF ShownOf, K, R
<1>4. F \in SUBSET K
  BY DEF ShownOf, FirstOnes
<1>5. C = [st \in F |-> count[st]] /\ DOMAIN C = F
  BY ByStateIs
<1>6. \A s \in S : Row(s).state \in K /\ count[Row(s).state] = Cardinality(InState(S, Row(s).state))
  BY DEF StatesOf, StateCounts
<1>7. \A u, st \in K : <<u, st>> \in R => count[u] >= count[st]
  <2>1. \A u, st \in K : <<u, st>> \in R => count[u] > count[st] \/ count[u] = count[st]
    BY DEF StateRow, MoreSurveys
  <2> HIDE DEF K, R, count
  <2> QED
    BY <1>1, <2>1
<1>8. ASSUME F = K PROVE SumOf(C, DOMAIN C) = n
  <2> DEFINE state == [s \in S |-> Row(s).state]
  <2>1. C = [st \in {state[s] : s \in S} |-> Cardinality({s \in S : state[s] = st})]
    <3>1. {state[s] : s \in S} = K
      BY DEF StatesOf
    <3>2. \A st : {s \in S : state[s] = st} = InState(S, st)
      BY DEF InState
    <3>3. \A st \in K : count[st] = Cardinality(InState(S, st))
      BY DEF StateCounts
    <3> HIDE DEF state, K, count, C, F
    <3> QED
      BY <1>5, <1>8, <3>1, <3>2, <3>3
  <2> HIDE DEF state, C
  <2>2. StatesCounted(C, S)
    BY <2>1, CountedBy
  <2> QED
    BY <2>2 DEF StatesCounted
<1> HIDE DEF K, count, R, F, C, n
<1>9. ASSUME NEW s \in S, NEW st \in F, Row(s).state \notin F
      PROVE  Cardinality(InState(S, Row(s).state)) <= C[st]
  <2> DEFINE own == Row(s).state
  <2>1. own \in K /\ st \in K /\ <<st, own>> \in R
    BY <1>3, <1>4, <1>6, <1>9 DEF Fits
  <2>2. count[own] = Cardinality(InState(S, own)) /\ C[st] = count[st]
    BY <1>5, <1>6
  <2> HIDE DEF own
  <2>3. count[st] >= count[own] /\ count[st] \in Nat /\ count[own] \in Nat
    BY <1>1, <1>7, <2>1
  <2>4. count[own] <= count[st]
    BY <2>3
  <2> QED
    BY <2>2, <2>4 DEF own
<1>10. Cardinality(F) = Min({StatesShown, Cardinality(K)}) /\ (Cardinality(K) <= StatesShown => F = K)
  BY <1>3 DEF Fits
<1>11. /\ Cardinality(DOMAIN C) = Min({StatesShown, Cardinality(K)})
       /\ \A s \in S : \A st \in DOMAIN C :
            Row(s).state \in DOMAIN C \/ Cardinality(InState(S, Row(s).state)) <= C[st]
       /\ Cardinality(K) <= StatesShown => SumOf(C, DOMAIN C) = n
  BY <1>5, <1>8, <1>9, <1>10
<1> QED
  BY <1>11 DEF TopStates, K, C, n

\* The dashboard's figures, by name.
LEMMA DashboardIs ==
    ASSUME NEW scope, NEW S, S = InScope(tables, scope), NEW stats, stats = DashboardStats(tables, scope)
    PROVE  /\ stats.totalSurveys = Cardinality(S)
           /\ stats.distinctVenues = Cardinality(Labels(S))
           /\ stats.avgPrice = IF ItemsIn(S) = {} THEN NoScore ELSE AveragePrice(S)
           /\ stats.avgTaste = AverageTaste(tables, S)
           /\ stats.revisited = Cardinality(Revisits(S))
           /\ stats.byState = ByState(tables, S)
           /\ stats.distinctStates = Cardinality(StatesOf(S))
  BY DEF DashboardStats, Labels, ItemsIn, AveragePrice, Revisits, Venues, StatesOf, Row

ListFits(scope, list) ==
    /\ list.total = Cardinality(InScope(tables, scope))
    /\ \A k \in DOMAIN list.rows :
          /\ list.rows[k].survey \in InScope(tables, scope)
          /\ list.rows[k].taste = AverageTaste(tables, {list.rows[k].survey})

\* The rows of the list are surveys of its scope, each with its own average.
LEMMA RowsListed ==
    ASSUME NEW scope, Rows(tables), NEW list, list = ListSurveys(tables, scope, 100, 0)
    PROVE  ListFits(scope, list)
<1> DEFINE limit == 100
           offset == 0
<1>1. limit \in Nat /\ offset \in Nat
  OBVIOUS
<1>2. list = ListSurveys(tables, scope, limit, offset)
  OBVIOUS
<1> HIDE DEF limit, offset
<1>3. /\ list.total = Cardinality(InScope(tables, scope))
      /\ {list.rows[k].survey : k \in DOMAIN list.rows} \subseteq InScope(tables, scope)
  BY <1>1, <1>2, PageRows
<1>4. \A k \in DOMAIN list.rows : list.rows[k].taste = AverageTaste(tables, {list.rows[k].survey})
  <2> DEFINE all  == Listed(tables, scope)
             rows == SubSeq(all, offset + 1, Min({Len(all), offset + limit}))
             shown == [k \in DOMAIN rows |-> [survey |-> rows[k],
                                             taste  |-> AverageTaste(tables, {rows[k]})]]
  <2>1. list = [rows |-> shown, total |-> Len(all)]
    BY <1>2 DEF ListSurveys
  <2> HIDE DEF rows, all
  <2>2. \A k \in DOMAIN shown : shown[k].taste = AverageTaste(tables, {shown[k].survey})
    OBVIOUS
  <2> HIDE DEF shown
  <2> QED
    BY <2>1, <2>2
<1> QED
  BY <1>3, <1>4 DEF ListFits

\* Answers filed as they were read have figures that agree.
LEMMA FiguredAgrees ==
    ASSUME RowsInv, Figured
    PROVE  NumbersAgree
<1>1. PICK V : Kept(V)
  BY DEF Figured, Kept
<1>2. Rows(tables)
  BY RowsOfTables
<1>3. DOMAIN tables.surveys = 1 .. Len(V)
  BY <1>1, LenProperties DEF Kept, FiledAs, IsSeq
<1> SUFFICES ASSUME NEW scope
             PROVE  LET S     == InScope(tables, scope)
                        n     == Cardinality(S)
                        stats == DashboardStats(tables, scope)
                        item(s) == GetSurvey(tables, s).items[1]
                        listed  == ListSurveys(tables, scope, 100, 0)
                        off(a, b)     == IF a > b THEN a - b ELSE b - a
                        inState(st)   == Cardinality({s \in S : tables.surveys[s].state = st})
                        shown         == DOMAIN stats.byState
                    IN  /\ listed.total = n /\ stats.totalSurveys = n
                        /\ \A k \in DOMAIN listed.rows :
                             listed.rows[k].taste = item(listed.rows[k].survey).tasteScore
                        /\ n > 0 =>
                             /\ off(n * stats.avgTaste, SumOf([s \in S |-> item(s).tasteScore], S)) <= n
                             /\ off(n * stats.avgPrice, SumOf([s \in S |-> 10 * item(s).pricePerItem], S)) <= 6 * n
                        /\ Cardinality(shown) = Min({StatesShown, stats.distinctStates})
                        /\ \A s \in S : \A st \in shown :
                             \/ tables.surveys[s].state \in shown
                             \/ inState(tables.surveys[s].state) <= stats.byState[st]
                        /\ stats.distinctStates <= StatesShown => SumOf(stats.byState, shown) = n
                        /\ (\A s \in S : ~HasBar(tables.surveys[s])) =>
                             /\ (stats.revisited = 0) <=> (stats.distinctVenues = n)
                             /\ stats.distinctVenues + stats.revisited <= n
                             /\ stats.distinctVenues >= stats.distinctStates
  BY Zenon DEF NumbersAgree
<1> DEFINE S == InScope(tables, scope)
           n == Cardinality(S)
           stats == DashboardStats(tables, scope)
           item(s) == GetSurvey(tables, s).items[1]
           listed == ListSurveys(tables, scope, 100, 0)
           off(a, b) == IF a > b THEN a - b ELSE b - a
           inState(st) == Cardinality({s \in S : tables.surveys[s].state = st})
           shown == DOMAIN stats.byState
<1>4. S \in SUBSET (1 .. Len(V)) /\ IsFiniteSet(S) /\ n \in Nat
  BY <1>2, <1>3, ScopeIsFinite
<1>5. /\ stats.totalSurveys = n
      /\ stats.distinctVenues = Cardinality(Labels(S))
      /\ stats.avgPrice = IF ItemsIn(S) = {} THEN NoScore ELSE AveragePrice(S)
      /\ stats.avgTaste = AverageTaste(tables, S)
      /\ stats.revisited = Cardinality(Revisits(S))
      /\ stats.byState = ByState(tables, S)
      /\ stats.distinctStates = Cardinality(StatesOf(S))
  <2>1. S = InScope(tables, scope) /\ stats = DashboardStats(tables, scope)
    OBVIOUS
  <2> HIDE DEF S, stats
  <2> QED
    BY <2>1, DashboardIs
<1>6. /\ listed.total = n
      /\ \A k \in DOMAIN listed.rows : /\ listed.rows[k].survey \in S
                                       /\ listed.rows[k].taste = AverageTaste(tables, {listed.rows[k].survey})
  <2>1. listed = ListSurveys(tables, scope, 100, 0)
    OBVIOUS
  <2> HIDE DEF listed
  <2>2. ListFits(scope, listed)
    BY <1>2, <2>1, RowsListed
  <2> QED
    BY <2>2 DEF ListFits
<1> HIDE DEF listed, stats, S
<1>7. \A k \in DOMAIN listed.rows : listed.rows[k].taste = item(listed.rows[k].survey).tasteScore
  <2> SUFFICES ASSUME NEW k \in DOMAIN listed.rows
               PROVE  listed.rows[k].taste = item(listed.rows[k].survey).tasteScore
    OBVIOUS
  <2> DEFINE s == listed.rows[k].survey
  <2>1. s \in 1 .. Len(V)
    BY <1>4, <1>6
  <2>2. listed.rows[k].taste = AverageTaste(tables, {s})
    BY <1>6
  <2> HIDE DEF s
  <2>3. ListedScore(V, s)
    BY <1>1, <2>1, AverageOfOne
  <2> QED
    BY <2>2, <2>3 DEF ListedScore, ScoreOf, s
<1>8. ASSUME n > 0
      PROVE  /\ off(n * stats.avgTaste, SumOf([s \in S |-> item(s).tasteScore], S)) <= n
             /\ off(n * stats.avgPrice, SumOf([s \in S |-> 10 * item(s).pricePerItem], S)) <= 6 * n
  <2>1. S # {}
    BY <1>8, FS_EmptySet
  <2>2. TasteAgrees(S, V) /\ PriceAgrees(S, V)
    BY <1>1, <1>4, <2>1, AverageTasteAgrees, AveragePriceAgrees
  <2> DEFINE f == [s \in S |-> item(s).tasteScore]
             g == [s \in S |-> 10 * item(s).pricePerItem]
  <2>3. Scores(S) = f /\ Prices(S) = g
    BY DEF Scores, Prices, ScoreOf, PriceOf
  <2> HIDE DEF f, g
  <2> DEFINE x == n * stats.avgTaste
             y == SumOf(f, S)
             p == n * stats.avgPrice
             q == SumOf(g, S)
  <2>4. /\ stats.avgTaste \in Int /\ y \in Int /\ x - y <= n /\ y - x <= n
    BY <1>5, <2>2, <2>3 DEF TasteAgrees
  <2>5. /\ stats.avgPrice \in Int /\ q \in Int /\ p - q <= 6 * n /\ q - p <= 6 * n
    BY <1>5, <2>2, <2>3 DEF PriceAgrees
  <2>6. x \in Int /\ p \in Int
    BY <1>4, <2>4, <2>5
  <2> HIDE DEF x, y, p, q
  <2>7. off(x, y) <= n /\ off(p, q) <= 6 * n
    BY <1>4, <2>4, <2>5, <2>6
  <2> QED
    BY <2>7 DEF x, y, p, q, f, g
<1>9. /\ Cardinality(shown) = Min({StatesShown, stats.distinctStates})
      /\ \A s \in S : \A st \in shown :
           \/ tables.surveys[s].state \in shown
           \/ inState(tables.surveys[s].state) <= stats.byState[st]
      /\ stats.distinctStates <= StatesShown => SumOf(stats.byState, shown) = n
  <2>1. TopStates(S, stats.byState, n)
    BY <1>1, <1>4, <1>5, StatesAgree
  <2>2. \A st : inState(st) = Cardinality(InState(S, st))
    BY DEF InState, Row
  <2> HIDE DEF n, inState
  <2> QED
    BY <1>5, <2>1, <2>2 DEF TopStates, Row
<1>10. ASSUME \A s \in S : ~HasBar(tables.surveys[s])
       PROVE  /\ (stats.revisited = 0) <=> (stats.distinctVenues = n)
              /\ stats.distinctVenues + stats.revisited <= n
              /\ stats.distinctVenues >= stats.distinctStates
  <2>1. \A s \in S : ~HasBar(Row(s))
    BY <1>10 DEF Row
  <2>2. VenuesAgree(S, V)
    BY <1>1, <1>4, <2>1, VenuesAgreeToo
  <2> QED
    BY <1>5, <2>2 DEF VenuesAgree
<1> HIDE DEF n, off, item, inState, shown
<1>11. /\ listed.total = n /\ stats.totalSurveys = n
       /\ \A k \in DOMAIN listed.rows :
             listed.rows[k].taste = item(listed.rows[k].survey).tasteScore
       /\ n > 0 =>
             /\ off(n * stats.avgTaste, SumOf([s \in S |-> item(s).tasteScore], S)) <= n
             /\ off(n * stats.avgPrice, SumOf([s \in S |-> 10 * item(s).pricePerItem], S)) <= 6 * n
       /\ Cardinality(shown) = Min({StatesShown, stats.distinctStates})
       /\ \A s \in S : \A st \in shown :
            \/ tables.surveys[s].state \in shown
            \/ inState(tables.surveys[s].state) <= stats.byState[st]
       /\ stats.distinctStates <= StatesShown => SumOf(stats.byState, shown) = n
       /\ (\A s \in S : ~HasBar(tables.surveys[s])) =>
             /\ (stats.revisited = 0) <=> (stats.distinctVenues = n)
             /\ stats.distinctVenues + stats.revisited <= n
             /\ stats.distinctVenues >= stats.distinctStates
  BY <1>5, <1>6, <1>7, <1>8, <1>9, <1>10
<1> QED
  BY <1>11, Zenon DEF n, off, item, inState, shown, S, stats, listed

\* The figures of the list (listSurveys), of a survey's page (getSurvey) and of
\* the dashboard (dashboardStats) agree to within their rounding, in every scope:
\* for any number of surveys, any venues, prices and ratings the validators
\* accept, and whatever was typed on the way there.  The table of states holds as
\* many as its limit lets in, none of them with fewer surveys than one left out,
\* and adds up to the total where every state fits.  Nothing is assumed of what
\* the entries mean: only that what stands in a control is a text.
THEOREM FiguresAgree == Spec => []NumbersAgree
<1>1. Init => TextsShown /\ Figured
  <2>1. ASSUME Init PROVE TextsShown
    <3>1. \A name \in Names : page.shown[name] = IF name = VisitedOn THEN DateEntry(TodayIsoDate) ELSE Blank
      BY <2>1 DEF Init, NewPage
    <3>2. Text(Blank.typed)
      BY EmptySeq DEF Text, Blank
    <3> QED
      BY <3>1, <3>2 DEF TextsShown
  <2>2. ASSUME Init PROVE Figured
    <3>1. tables = [surveys |-> << >>, items |-> {}, responses |-> {}]
      BY <2>2 DEF Init
    <3>2. << >> \in Seq({}) /\ Len(<< >>) = 0
      BY EmptySeq
    <3>3. FiledAs(tables, << >>)
      BY <3>1, <3>2 DEF FiledAs, IsSeq
    <3> QED
      BY <3>2, <3>3 DEF Figured
  <2> QED
    BY <2>1, <2>2
<1>2. RowsInv /\ FormInv /\ TextsShown /\ Figured /\ [Next]_vars
        => (RowsInv /\ FormInv /\ TextsShown /\ Figured)'
  BY RowsStep, FormKept, TextsKept, FiguredKept
<1>3. RowsInv /\ Figured => NumbersAgree
  BY FiguredAgrees
<1> QED
  BY <1>1, <1>2, <1>3, RowsInit, FormStart, PTL DEF Spec
=============================================================================
