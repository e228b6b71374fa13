---------------------------- MODULE SurveyRules ----------------------------
(***************************************************************************)
(* The survey's questions and the rules an answer is read by: the rubric   *)
(* taco_v1, the validators of lib/validate.js, the money parsing of        *)
(* lib/format.js and the scale and score arithmetic of rubrics/index.js.   *)
(*                                                                         *)
(* A text is a sequence of characters, a character is a small number; a    *)
(* digit is its own value.  Amounts are in cents, ratings and scores in    *)
(* hundredths, a date is the number yyyymmdd.  Letters beyond the few the  *)
(* rules tell apart stand for every other character.                       *)
(***************************************************************************)
EXTENDS Integers, Sequences, SequencesExt, FiniteSetsExt

CONSTANTS
    NameMax,     \* maxLength of the names and the town (160 and 120)
    NotesMax,    \* maxLength of the notes (4000)
    TextMax,     \* ABSOLUTE_MAX_TEXT (8000)
    States       \* the codes of lib/states.js, as texts

Digits  == 0..9
Space   == 10        \* or a tab
Newline == 11
Return  == 12
Mark    == 13        \* U+FEFF, which trim() takes for white space
Control == 14        \* any C0 or C1 control the pattern names
Dot     == 15
Comma   == 16
Dollar  == 17
Minus   == 18
Feed    == 19        \* U+000B or U+000C: a control that trim() takes for white space
Lower   == 20..29    \* letters; the capital of c is c + 10
Bar     == 40

-----------------------------------------------------------------------------
(* The rubric, flattened into the questions of the form. *)

Field(key, type, required, min, max) ==
    [key |-> key, type |-> type, required |-> required, min |-> min, max |-> max,
     step |-> 1, scored |-> FALSE]

VisitFields == << Field("business_name", "text", TRUE, 0, NameMax),
                  Field("state", "state", TRUE, 0, 2),
                  Field("town", "text", TRUE, 0, NameMax),
                  Field("visited_on", "date", TRUE, 0, 10) >>

ItemFields == << Field("item_name", "text", TRUE, 0, NameMax),
                 Field("price_cents", "money", TRUE, 0, 100000),
                 Field("qty", "integer", TRUE, 1, 100) >>

Rated(keys, step, scored) ==
    [i \in DOMAIN keys |->
        [key |-> keys[i], type |-> "metric", required |-> TRUE,
         min |-> 100, max |-> 500, step |-> step, scored |-> scored]]

Taste    == << "filling_flavor", "seasoning_balance", "salsa_sauce",
               "texture", "tortilla", "harmony" >>
Context  == << "serving_temp", "value" >>
Observer == << "hunger", "emotional_state", "distance_from_home" >>

VisitMetrics == Rated(Observer, 100, FALSE)
ItemMetrics  == Rated(Taste, 50, TRUE) \o Rated(Context, 50, FALSE)
NotesField   == Field("notes", "textarea", FALSE, 0, NotesMax)

\* The form carries one item (ITEM_COUNT).  A control is named by the item it
\* belongs to, 0 for the visit, and its question's key.
ItemCount == 1

Controls(questions, item) ==
    [i \in DOMAIN questions |-> [name |-> <<item, questions[i].key>>, q |-> questions[i]]]

\* The order the validator asks in.
Form ==
    Controls(VisitFields, 0) \o Controls(VisitMetrics, 0)
      \o FlattenSeq([i \in 1..ItemCount |->
             Controls(ItemFields, i) \o Controls(ItemMetrics, i)])
      \o Controls(<<NotesField>>, 0)

Names == {Form[i].name : i \in DOMAIN Form}
QuestionOf(name) == Form[CHOOSE i \in DOMAIN Form : Form[i].name = name].q

-----------------------------------------------------------------------------
(* Reading one answer.  A reading is a fault or a value.                   *)

\* The numbers of a finite set, in ascending order.
InOrder(S) ==
    [k \in 1..Cardinality(S) |-> CHOOSE i \in S : Cardinality({j \in S : j <= i}) = k]

Fault    == [ok |-> FALSE, value |-> 0]
Read(v)  == [ok |-> TRUE, value |-> v]
Absent(q, blank) == IF q.required THEN Fault ELSE Read(blank)

White == {Space, Newline, Return, Mark, Feed}

Trimmed(text) ==
    LET inked == {i \in DOMAIN text : text[i] \notin White}
    IN  IF inked = {} THEN <<>> ELSE SubSeq(text, Min(inked), Max(inked))

\* A carriage return goes when a newline follows it.
NormalizeText(text) ==
    LET cut   == SubSeq(text, 1, Min({Len(text), TextMax}))
        stays == InOrder({i \in DOMAIN cut :
                    ~(cut[i] = Return /\ i < Len(cut) /\ cut[i + 1] = Newline)})
    IN  Trimmed([k \in DOMAIN stays |-> cut[stays[k]]])

HasControlChars(text) == Range(text) \cap {Control, Feed} # {}

ValidateText(q, raw) ==
    LET text == NormalizeText(raw)
    IN  IF text = <<>> THEN Absent(q, <<>>)
        ELSE IF HasControlChars(text) \/ Len(text) > q.max THEN Fault
        ELSE Read(text)

AllDigits(text) == text # <<>> /\ Range(text) \subseteq Digits
Number(digits)  == LET value[n \in 0..Len(digits)] ==
                           IF n = 0 THEN 0 ELSE 10 * value[n - 1] + digits[n]
                   IN  value[Len(digits)]

\* Every question has bounds, and a number that is not a safe integer is beyond
\* them: the two tests are one.
ValidateInteger(q, raw) ==
    LET text   == NormalizeText(raw)
        below  == text # <<>> /\ Head(text) = Minus
        digits == IF below THEN Tail(text) ELSE text
        value  == IF below THEN -Number(digits) ELSE Number(digits)
    IN  IF text = <<>> THEN Absent(q, 0)
        ELSE IF ~AllDigits(digits) THEN Fault
        ELSE IF value < q.min \/ value > q.max THEN Fault
        ELSE Read(value)

\* The text less every such character.
Without(text, c) ==
    LET kept == InOrder({i \in DOMAIN text : text[i] # c})
    IN  [k \in DOMAIN kept |-> text[kept[k]]]

\* At most two digits may follow the only dot.
CentsOf(cleaned) ==
    LET dots   == {i \in DOMAIN cleaned : cleaned[i] = Dot}
        at     == IF dots = {} THEN Len(cleaned) + 1 ELSE Min(dots)
        whole  == SubSeq(cleaned, 1, at - 1)
        frac   == SubSeq(cleaned, at + 1, Len(cleaned))
        padded == frac \o [i \in 1..(2 - Len(frac)) |-> 0]
    IN  IF AllDigits(whole) /\ (dots = {} \/ (AllDigits(frac) /\ Len(frac) <= 2))
        THEN Read(Number(whole) * 100 + Number(padded)) ELSE Fault

\* One leading dollar sign and every comma are dropped, whatever the commas
\* separate.
ParseMoneyToCents(text) ==
    LET bare == IF text # <<>> /\ Head(text) = Dollar THEN Tail(text) ELSE text
    IN  CentsOf(Without(bare, Comma))

ValidateMoney(q, raw) ==
    LET text  == NormalizeText(raw)
        cents == ParseMoneyToCents(text)
    IN  IF text = <<>> THEN Absent(q, 0)
        ELSE IF ~cents.ok THEN Fault
        ELSE IF cents.value < q.min \/ cents.value > q.max THEN Fault
        ELSE cents

EarliestVisitDate == 20000101

Leap(y) == y % 4 = 0 /\ (y % 100 = 0 => y % 400 = 0)
DaysIn(y, m) ==
    CASE m = 2 -> IF Leap(y) THEN 29 ELSE 28
      [] m \in {4, 6, 9, 11} -> 30
      [] OTHER -> 31

\* What survives the round trip through Date.UTC, which takes the years 0 to
\* 99 for 1900 to 1999.
RealDate(y, m, d) == y >= 100 /\ m \in 1..12 /\ d \in 1..DaysIn(y, m)

ValidateDate(q, raw, today) ==
    LET text == NormalizeText(raw)
        y    == Number(SubSeq(text, 1, 4))
        m    == Number(SubSeq(text, 6, 7))
        d    == Number(SubSeq(text, 9, 10))
        date == 10000 * y + 100 * m + d
    IN  IF text = <<>> THEN Absent(q, 0)
        ELSE IF \/ Len(text) # 10
                \/ \E i \in 1..10 : IF i \in {5, 8} THEN text[i] # Minus
                                                    ELSE text[i] \notin Digits
        THEN Fault
        ELSE IF ~RealDate(y, m, d) \/ date > today \/ date < EarliestVisitDate
        THEN Fault
        ELSE Read(date)

ToUpperCase(text) == [i \in DOMAIN text |-> IF text[i] \in Lower THEN text[i] + 10
                                            ELSE text[i]]

ValidateState(q, raw) ==
    LET code == ToUpperCase(NormalizeText(raw))
    IN  IF code = <<>> THEN Absent(q, <<>>)
        ELSE IF code \notin States THEN Fault
        ELSE Read(code)

\* The levels of a scale, low to high.
ScaleValues(q) == {q.min + i * q.step : i \in 0..((q.max - q.min) \div q.step)}

\* Number(text) in hundredths, of digits with at most one dot among them; what
\* has a digit that counts after the second place is no level of a scale.  The
\* other spellings Number() takes (a sign, an exponent, another base) are left
\* out: no button of the form sends one.
Decimal(text) ==
    LET dots == {i \in DOMAIN text : text[i] = Dot}
        at   == IF dots = {} THEN Len(text) + 1 ELSE Min(dots)
        whole == SubSeq(text, 1, at - 1)
        frac  == SubSeq(text, at + 1, Len(text))
    IN  IF AllDigits(whole \o frac) /\ \A i \in DOMAIN frac : i > 2 => frac[i] = 0
        THEN Read(Number(whole) * 100 + Number(SubSeq(frac \o <<0, 0>>, 1, 2)))
        ELSE Fault

ValidateMetric(q, raw) ==
    LET text == NormalizeText(raw)
        num  == Decimal(text)
    IN  IF num.ok /\ num.value \in ScaleValues(q) THEN num ELSE Fault

ValidateByFieldType(q, raw, today) ==
    CASE q.type \in {"text", "textarea"} -> ValidateText(q, raw)
      [] q.type = "state"                -> ValidateState(q, raw)
      [] q.type = "date"                 -> ValidateDate(q, raw, today)
      [] q.type = "money"                -> ValidateMoney(q, raw)
      [] q.type = "integer"              -> ValidateInteger(q, raw)
      [] q.type = "metric"               -> ValidateMetric(q, raw)

-----------------------------------------------------------------------------
(* The whole submission: the names of the controls that could not be read, *)
(* in the order they were asked, and the values of the others.  No two     *)
(* controls of the form have one name; Add keeps a name from being told    *)
(* twice where the upload adds to the list.                                *)

Add(errors, name) == IF name \in Range(errors) THEN errors ELSE Append(errors, name)

ValidateSurveySubmission(values, today) ==
    LET reading == [i \in DOMAIN Form |->
                      ValidateByFieldType(Form[i].q, values[Form[i].name], today)]
        bad     == InOrder({i \in DOMAIN Form : ~reading[i].ok})
    IN  [errors |-> [k \in DOMAIN bad |-> Form[bad[k]].name],
         value  |-> [name \in Names |->
                      reading[CHOOSE i \in DOMAIN Form : Form[i].name = name].value]]

-----------------------------------------------------------------------------
(* Scores. *)

\* Math.round and SQLite's ROUND of a quotient that is not negative.
RoundDiv(a, b) == (2 * a + b) \div (2 * b)

ScoredKeys == {ItemMetrics[i].key : i \in {j \in DOMAIN ItemMetrics : ItemMetrics[j].scored}}

NoScore == -1

SumOf(f, S) == MapThenSumSet(LAMBDA k : f[k], S)

\* The average of the six, or nothing unless all six are there.
\* Mutant: the score is the average of whatever item metrics there are.
ScoreItem_AllMetrics(answers) ==
    IF ScoredKeys \subseteq DOMAIN answers
    THEN RoundDiv(SumOf(answers, DOMAIN answers), Cardinality(DOMAIN answers))
    ELSE NoScore
ScoreItem(answers) ==
    IF ScoredKeys \subseteq DOMAIN answers
    THEN RoundDiv(SumOf(answers, ScoredKeys), Cardinality(ScoredKeys))
    ELSE NoScore

PricePerItemCents(cents, qty) == RoundDiv(cents, qty)
=============================================================================
