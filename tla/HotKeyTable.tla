---------------------------- MODULE HotKeyTable -----------------------------
(* The tables of constants/hotKey.js: what a hot key can do, which          *)
(* parameters that takes, which keys can be bound and the default bindings. *)
(* Names, explanations and the ranges of the numbers are left out.          *)
EXTENDS Naturals, Sequences

\* paraRuleArr, function by function, of keyboardFunArr: showing klines and
\* the cheap orders (0 to 7),
RulesUpTo7 == <<
    <<"select">>, <<>>, <<>>, <<>>, <<"inputNumber">>, <<"select">>, <<>>, <<>> >>

\* stops and opening at a depth (8 to 13),
RulesFrom8 == <<
    <<"inputNumber", "select">>,
    <<"inputNumber", "inputNumber", "select">>,
    <<"inputNumber", "select">>,
    <<"select">>,
    <<"select", "inputNumber", "inputNumber", "select", "select">>,
    <<"inputNumber", "inputNumber", "select">> >>

\* batches and closing at the market (14 to 16),
RulesFrom14 == <<
    <<"select", "inputNumber", "inputNumber", "select", "inputNumber",
      "inputNumber", "select">>,
    <<>>, <<>> >>

\* closing in batches (17),
RulesOf17 == <<
    <<"inputNumber", "select", "inputNumber", "inputNumber", "inputNumber",
      "inputNumber", "inputNumber", "select">> >>

\* and closing at a depth, cancelling and opening on a break (18 to 23).
RulesFrom18 == <<
    <<"inputNumber", "select", "inputNumber", "inputNumber", "inputNumber",
      "select">>,
    <<>>, <<>>, <<>>,
    <<"inputNumber", "inputNumber", "inputNumber", "select">>,
    <<"inputNumber", "inputNumber", "select">> >>

Rules == RulesUpTo7 \o RulesFrom8 \o RulesFrom14 \o RulesOf17 \o RulesFrom18

Function == 0 .. 23

\* How many parameters a function takes.
Arity == [f \in Function |-> Len(Rules[f + 1])]

ASSUME ArityAssumption == Arity \in [Function -> Nat]

\* The function shown first under each heading of the add form.
FirstFunction ==
    [all |-> 0, other |-> 0, trade |-> 4, open |-> 11, close |-> 15, stop |-> 8]

\* keyboardObj: the codes of the keys that can be bound.
Bindable ==
    {8, 13, 17, 18} \cup (48 .. 57) \cup (65 .. 90) \cup (96 .. 107)
    \cup (109 .. 111) \cup (186 .. 192) \cup {219, 221, 222}

\* realHotKeyConfigDefaultObj: key code, function, number of parameters.
DefaultBindings == {
    <<49, 4, 1>>, <<50, 4, 1>>, <<51, 4, 1>>, <<53, 22, 4>>, <<65, 12, 5>>,
    <<66, 22, 4>>, <<68, 20, 0>>, <<71, 12, 5>>, <<72, 14, 7>>, <<76, 6, 0>>,
    <<79, 3, 0>>, <<80, 2, 0>>, <<81, 15, 0>>, <<82, 17, 8>>, <<83, 14, 7>>,
    <<84, 16, 0>>, <<86, 1, 0>>, <<88, 21, 0>>, <<90, 19, 0>>, <<96, 7, 0>>,
    <<97, 0, 1>>, <<98, 0, 1>>, <<99, 0, 1>>, <<100, 5, 1>>, <<101, 5, 1>>,
    <<103, 5, 1>>, <<104, 5, 1>>, <<105, 5, 1>>}

\* The defaults agree with the two tables they are written from.
ASSUME DefaultsAssumption ==
    \A b \in DefaultBindings :
        b[1] \in Bindable /\ b[2] \in Function /\ b[3] = Arity[b[2]]
=============================================================================
