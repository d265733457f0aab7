---------------------------- MODULE MCEditCommand ----------------------------
\* Instances of EditCommand for TLC.
EXTENDS EditCommand

Upto(S, n) == UNION {[1 .. k -> S] : k \in 0 .. n}
\* A brace that is not closed is repaired, one too many is an error.
RepairsOpen(text) == \A i \in DOMAIN text : Depth(text, i) >= 0
\* Trees of up to three nodes, side by side and nested; sources with an open
\* brace, and one with an error.
SomeTexts == {t \in Upto({"fa", "ca", "}"}, 4) : Balanced(t)}
             \union {<<"x", "fa", "fb", "x", "}", "}", "x">>, <<"ca", "fa", "}", "fb", "}", "}">>,
                     <<"fa", "}", "x", "fb", "x", "}", "x">>, <<"fa", "x">>, <<"ca", "fa", "}">>,
                     <<"fa", "}", "}">>}
SomeSelectors ==
  Upto({"fAll", "fA", "!", "&", "|", ">", "(", ")"}, 2)
  \union {ts \in [1 .. 5 -> {"fA", "cAll", "!", "&", "|", ">"}] : ParseDSL(ts).ok}
  \union {ts \in [1 .. 3 -> {"fAll", "fA", "cAll", "!", "&", "|", ">"}] : ParseDSL(ts).ok}
  \union {<<"cAll", ">>", "fAll">>, <<"(", "fA", "|", "cAll", ")", ">", "fAll">>,
          <<"fA", "|", "fB", "|", "cAll">>, <<"cAll", ">", "fA", ">", "fB">>,
          <<"fA", "&", "fAll", "|", "cAll", ">", "fB">>, <<"!", "fA", "&", "fAll">>,
          <<"fAll", "|", "cAll", "&", "fA">>, <<"(", "fA", ">", "fAll">>, <<"fAll", "fA">>,
          <<"cAll", ">", "fAll", ">>", "fB">>, <<"cAll", ">", "(", "fA", "|", "fB", ")", ">", "fAll">>,
          <<"(", "cAll", ">", "fA", ")", ">", "fB">>, <<"(", "!", "fA", ")", ">", "fB">>}
OtherTexts == {<<"fa", "}", "fb", "}">>}
NestedTexts == {<<"x", "fa", "fb", "x", "}", "}", "x">>}
Steps == [ts: {<<"fA">>, <<"|">>, <<>>}, method: StepMethods, min: {1, 85}]
SomeRecipes == {<<>>} \union [1 .. 2 -> Steps]
NoRecipes == {}
LinesAndBrace == {<<"x", "x">>, <<"}">>}
FewSelectors == {<<"fAll">>}
CompoundSelectors == {<<"fA">>, <<"fA", "|", "cAll">>}
=============================================================================
