------------------------------ MODULE MCEngine ------------------------------
(***************************************************************************)
(* Engine for TLC: small languages, and the texts given to them.           *)
(*                                                                         *)
(* The main language has a word that extends another one only after more   *)
(* look-ahead (`aab`), two symbols with the same word (K and M), a symbol  *)
(* expected in some contexts only, one that may be empty (N), and white    *)
(* space that is discarded (`s`).                                          *)
(***************************************************************************)
EXTENDS Engine

MCChar    == {"a", "b", "s", "0"}
MCSep     == "0"
MCLexeme  == {"K", "L", "M", "N"}
MCDiscard == {"W"}
MCWords == [s \in MCLexeme \cup MCDiscard |->
               CASE s \in {"K", "M"} -> {<<"a">>}
                 [] s = "L"          -> {<<"b">>, <<"a", "a", "b">>}
                 [] s = "N"          -> {<< >>, <<"a", "b">>}
                 [] s = "W"          -> {<<"s">>, <<"s", "s">>}]

\* The sentences are K L*, M K, and M K N.
MCState == {"begin", "list", "pair", "open", "end"}
MCInit  == {"begin"}
MCFinal == {"list", "open", "end"}
Edges ==
    { << "begin", "K", "list" >>, << "list", "L", "list" >>,
      << "begin", "M", "pair" >>, << "pair", "K", "open" >>,
      << "open", "N", "end" >> }
NextBy(edges) == [p \in MCState \X MCLexeme |->
                     { q \in MCState : << p[1], p[2], q >> \in edges }]
MCNext == NextBy(Edges)

\* All texts up to four characters, and some that look further ahead.
Texts(n) == UNION { [1 .. k -> {"a", "b", "s"}] : k \in 0 .. n }
MCInputs == Texts(4) \cup
    { <<"a", "a", "0">>, <<"a", "a", "a", "0">>, <<"a", "a", "a", "b", "s">>,
      <<"a", "a", "a", "b", "a", "a", "b">>, <<"a", "s", "b", "a", "a", "s">> }
WholeText == { << -1, -2 >> }

\* The texts, ranges and extensions of the runs with event handlers.
EventInputs == { <<"a", "b">>, <<"a", "a", "a">>, <<"a", "s", "a", "a", "b">>, <<"a", "a", "s">> }
EventRanges == { << -1, -2 >>, << -1, 0 >>, << 0, 1 >> }
EventExtensions == { <<"b">>, <<"a", "a">> }
Disciplined == {"from", "to", "extend", "clear", "alternate", "error"}

\* The \0 in front of an extension is white space here, so that a match could
\* run into the extension.
JoiningWords == [MCWords EXCEPT !["W"] = {<<"s">>, <<"s", "s">>, <<"0">>, <<"s", "0">>}]

\* Handlers that do what they should not, and a lexeme that is always looked
\* for (LTM).
UnrulyInputs == { <<"a", "b">>, <<"a", "a", "s">>, <<"a", "s", "s", "a">> }
UnrulyExtensions == { <<"b">> }
UnrulyAlways == MCDiscard \cup {"K"}
\* K can be extended: it is completed at the end of the text, or by a flush.
GreedyWords == [MCWords EXCEPT !["K"] = {<<"a">>, <<"a", "a">>}]

=============================================================================
