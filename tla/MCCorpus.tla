------------------------------ MODULE MCCorpus ------------------------------
(* Corpus with a service of two modules, "ev" with notifications only and    *)
(* "st" with a config and state tree: two lists called gate, a notification  *)
(* called gate, a state container and an enum that both spell gate-state,    *)
(* four leaves called mode with three sets of values, and one called         *)
(* mode-auto, whose member on is spelled like the member auto-on of a mode.  *)
EXTENDS Corpus

WordDef == {"ev", "st", "alarm", "gate", "mode", "state", "lane", "auto", "on", "off",
            "unspecified"}
EntryDef == 1..12
ModuleDef ==
  <<"ev", "ev", "ev", "ev", "ev", "st", "st", "st", "st", "st", "st", "st">>
KindDef ==
  <<"notification", "message", "enum", "enum", "notification",
    "message", "message", "enum", "message", "enum", "enum", "enum">>
LabelDef ==
  <<<<"alarm">>, <<"gate">>, <<"mode">>, <<"gate", "state">>, <<"gate">>,
    <<"lane">>, <<"gate">>, <<"mode">>, <<"state">>, <<"mode">>, <<"mode">>,
    <<"mode", "auto">>>>
ParentDef == <<Top, 1, 2, 1, Top, Top, 6, 7, 7, 9, 6, 9>>

Value(w, n) == [words |-> w, number |-> n]
A == {Value(<<"off">>, 0), Value(<<"auto", "on">>, 1)}
B == {Value(<<"off">>, 1), Value(<<"on">>, 2)}
C == {Value(<<"on">>, 0)}
D == {Value(<<"off">>, 0), Value(<<"on">>, 1)}
ValuesDef == <<{}, {}, A, B, {}, {}, {}, B, {}, A, C, D>>
=============================================================================
