------------------------------ MODULE MCDisplay ------------------------------
(* Every command with and without its argument, a name with a blank in it, *)
(* and texts with and without a receiver.                                  *)
EXTENDS Display

MCLines == {<<"/quit">>, <<"/who">>, <<"/login ", "a">>, <<"/chat ", "b", " ", "c">>,
            <<"/e2e ", "b">>, <<"/", "who">>, <<"@", "b", " ", "x">>, <<"@", " ">>,
            <<"x", " ", "y">>}

MCTexts == {<<"hey">>}

MCWords == UNION {Range(text) : text \in MCLines \cup MCTexts}
=============================================================================
