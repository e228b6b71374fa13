----------------------------- MODULE MCSurveys -----------------------------
(***************************************************************************)
(* What TLC's collectors type.  Four plans: one survey with up to two odd  *)
(* entries and a photo that may be refused ("odd"); three surveys of       *)
(* different venues, prices and ratings ("figures"); four surveys in three *)
(* states, of which two are shown ("states"); five surveys while the list  *)
(* is being walked ("walk").                                               *)
(***************************************************************************)
EXTENDS Surveys, TLC

CONSTANTS ann, ben
MCUsers == {ann, ben}

A == 31    b == 22    c == 23    d == 24    e == 25
MCStates == {<<31, 32>>, <<31, 33>>, <<33, 31>>}     \* one more than are shown

\* Across the leap day; any number of surveys can be saved in one second.
MCCalendar == <<20240228, 20240229, 20240301>>
\* West of Greenwich, in the evening, each is still the day before.
EveningDates == <<20240227, 20240228, 20240229>>

Says(text, means) == [typed |-> text, sound |-> TRUE, means |-> means]
Plainly(text)     == Says(text, text)
NoText(text)      == [typed |-> text, sound |-> FALSE, means |-> <<>>]
NoNumber(text)    == [typed |-> text, sound |-> FALSE, means |-> 0]

MCUsual ==
    [name \in Names |->
        CASE name = VisitedOn               -> KeepPreset
          [] name = <<0, "state">>          -> Plainly(<<31, 32>>)
          [] name = <<1, "price_cents">>    -> Says(<<3, Dot, 5, 0>>, 350)
          [] name = <<1, "qty">>            -> Says(<<2>>, 2)
          [] name = <<0, "notes">>          -> Plainly(<<>>)
          [] QuestionOf(name).type = "text" -> Plainly(<<A, b>>)
          [] OTHER                          -> Says(<<4>>, 400)]

\* What else is typed in a control.
Odd == [name \in Names |->
    CASE name = <<0, "business_name">> ->
           {Says(<<Space, A, b, Newline>>, <<A, b>>), Plainly(<<A, Bar, b, c>>),
            NoText(<<>>), NoText(<<A, Control>>), Says(<<Feed, A, b>>, <<A, b>>), NoText(<<A, Feed, b>>), NoText(<<A, b, c, d, e>>)}
      [] name = <<0, "state">> -> {Plainly(<<33, 31>>), NoText(<<>>)}
      [] name = <<0, "town">>  -> {NoText(<<Space, Mark>>)}
      [] name = VisitedOn ->
           {DateEntry(20240229), DateEntry(20241231), NoNumber(<<>>),
            NoNumber(DateText(20230229)), NoNumber(DateText(19991231)),
            NoNumber(<<2, 0, 2, 4, Minus, 2>>)}
      [] name = <<1, "price_cents">> ->
           {Says(<<Dollar, 3, Dot, 5>>, 350), Says(<<Space, 1, 2>>, 1200), Says(<<0>>, 0),
            Says(<<1, Comma, 0, 0, 0, Dot, 0, 0>>, 100000), NoNumber(<<>>),
            NoNumber(<<1, 0, 0, 0, Dot, 0, 1>>), NoNumber(<<3, Dot>>),
            NoNumber(<<Minus, 1>>), NoNumber(<<3, Dot, 5, 0, 5>>)}
      [] name = <<1, "qty">> ->
           {Says(<<0, 0, 0, 0, 0, 0, 0, 0, 0, 7>>, 7), Says(<<1, 0, 0>>, 100), NoNumber(<<1, 0, 1>>),
            NoNumber(<<0>>), NoNumber(<<1, Dot, 5>>), NoNumber(<<Minus, 2>>)}
      [] name = <<1, "texture">> ->
           {Says(<<4, Dot, 5, 0, 0>>, 450), Says(<<4, Dot>>, 400), NoNumber(<<>>), NoNumber(<<5, Dot, 5>>)}
      [] name = <<0, "hunger">> -> {NoNumber(<<3, Dot, 5>>), NoNumber(<<>>)}
      [] name = <<0, "notes">> ->
           {Plainly(<<b, Newline, c, Newline, d>>), Plainly(<<b, Newline, Newline, Newline, d>>),
            Says(<<Newline, b>>, <<b>>), Says(<<Space>>, <<>>),
            NoText(<<b, Control>>), NoText(<<b, b, b, b, b, b>>)}
      [] OTHER -> {}]

But(entry, name, odd) == [entry EXCEPT ![name] = odd]
OneOdd(entry) == UNION {{But(entry, name, odd) : odd \in Odd[name]} : name \in Names}

Filling(entry) == [entry |-> entry, badPhoto |-> FALSE]

\* Up to two odd entries; or one, and a photo that is refused.
OddFillings ==
    {Filling(entry) : entry \in UNION {OneOdd(one) : one \in OneOdd(MCUsual)}}
      \cup {[entry |-> entry, badPhoto |-> TRUE] : entry \in OneOdd(MCUsual)}

\* Another venue of the first's state and name, and one of neither.
Dearer ==
    [MCUsual EXCEPT ![<<0, "town">>] = Plainly(<<A, Bar, 31, 32>>),
                    ![<<1, "price_cents">>] = Says(<<1, 0>>, 1000),
                    ![<<1, "qty">>] = Says(<<3>>, 3),
                    ![<<1, "texture">>] = Says(<<4, Dot, 5>>, 450),
                    ![<<1, "value">>] = Says(<<1>>, 100)]
Elsewhere ==
    [MCUsual EXCEPT ![<<0, "business_name">>] = Plainly(<<A, c>>),
                    ![<<0, "state">>] = Plainly(<<33, 31>>),
                    ![<<1, "price_cents">>] = Says(<<0, Dot, 9, 9>>, 99),
                    ![<<1, "filling_flavor">>] = Says(<<1>>, 100),
                    ![<<1, "harmony">>] = Says(<<2, Dot, 5>>, 250)]
Neighbour == [MCUsual EXCEPT ![<<0, "town">>] = Plainly(<<c>>)]
Beyond    == [MCUsual EXCEPT ![<<0, "state">>] = Plainly(<<31, 33>>)]

MCPlans ==
    [odd     |-> [fillings |-> OddFillings, users |-> {ann}, surveys |-> 1, until |-> 3,
                  read |-> FALSE],
     figures |-> [fillings |-> {Filling(x) : x \in {MCUsual, Dearer, Elsewhere, Neighbour}},
                  users |-> MCUsers, surveys |-> 3, until |-> 1, read |-> FALSE],
     states  |-> [fillings |-> {Filling(x) : x \in {MCUsual, Elsewhere, Beyond}},
                  users |-> {ann}, surveys |-> 4, until |-> 1, read |-> FALSE],
     walk    |-> [fillings |-> {Filling(MCUsual)}, users |-> MCUsers, surveys |-> 5,
                  until |-> 2, read |-> TRUE]]

\* Each entry above is read as it says, taken alone.
ASSUME EntryAssumption == EntriesAreRead
=============================================================================
