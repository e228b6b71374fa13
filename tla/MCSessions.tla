--------------------------- MODULE MCSessions ---------------------------
(* One browser against the two tables, on a clock scaled down so that every *)
(* lifetime ends within a run.                                              *)
EXTENDS Sessions

CONSTANTS t1, t2

AllKinds == {"app", "login", "signin", "survey", "change", "logout"}

\* One tab, half a second at a time, through the end of every lifetime.
OneTab == [tabs |-> {t1}, kinds |-> {"app", "login", "signin"},
           overlap |-> FALSE, loses |-> FALSE, jumps |-> {1}, until |-> 17, tokens |-> 4]

\* Two tabs taking turns.
Turns == [tabs |-> {t1, t2}, kinds |-> AllKinds,
          overlap |-> FALSE, loses |-> FALSE, jumps |-> {5}, until |-> 15, tokens |-> 5]

\* Two tabs at once, and answers that get lost.
AtOnce == [tabs |-> {t1, t2}, kinds |-> AllKinds,
           overlap |-> TRUE, loses |-> TRUE, jumps |-> {}, until |-> 0, tokens |-> 4]

ThePlans == {OneTab, Turns, AtOnce}
===========================================================================
