---------------------------- MODULE MCEvaluation ----------------------------
(***************************************************************************)
(* The grammar with which input is read:                                   *)
(*                                                                         *)
(*     S ::= N L N    L ::= E+    N ::= (empty)    E ::= a | b E           *)
(*                                                                         *)
(* with one rule of each kind of semantics: ::first, a mask, a value twice *)
(* in a vector, names and numbers.  The other grammars are only decoded.   *)
(***************************************************************************)
EXTENDS Evaluation, TLC

S == 2
N == 3
L == 4
E == 5

MCParsed ==
    [start |-> S,
     rules |-> << Priority(S, << N, L, N >>, << 0, 2 >>, << VALUE >>),
                  Priority(N, << >>, << >>, << RULE_ID >>),
                  Quantified(L, E, 1, NoSep, 0, << VALUE >>),
                  Priority(E, << 0 >>, << >>, << A_FIRST >>),
                  Priority(E, << 1, E >>, << 0 >>, << VALUE, LHS_ID, VALUE >>) >>]

\* Two rules of any kind, at the bounds of what twelve bits hold; in between a pair.
Edge == {0, High - 1}
SomeRules(mask) ==
    {Priority(l, rhs, mask, << VALUE >>) : l \in Edge, rhs \in {<< >>, << 0 >>, << 0, High - 1 >>}}
    \cup {Quantified(l, r, pos, sep[1], sep[2], << VALUE >>) :
            l \in Edge, r \in {High - 1}, pos \in {0, 1},
            sep \in {<< NoSep, 0 >>, << High - 1, 0 >>, << High - 1, 1 >>}}
    \cup {Brange(l, b[1], b[2]) : l \in {High - 1}, b \in {<< 0, 0 >>, << 254, 255 >>}}
MCGrammars ==
    {MCParsed}
    \cup {[start |-> High - 1, rules |-> << q, r >>] : q \in SomeRules(<< 0 >>), r \in SomeRules(<< >>)}

-----------------------------------------------------------------------------

\* Each step knows the place of its value.
Token(t, k, at) == << [do |-> "token", symbol |-> t, loc |-> k, at |-> at] >>
Reduce(r, n, at) == << [do |-> "rule", rule |-> r, args |-> n, at |-> at] >>
Nulling(at) == << [do |-> "nulling", at |-> at] >>

\* The evaluation of E over the tokens from i to j, with its value at a place, of one E
\* after the other, with the number of them, and of S.
RECURSIVE EvalE(_, _, _), EvalL(_, _, _)
EvalE(i, j, at) ==
    IF i = j THEN {Token(0, i, at) \o Reduce(3, 1, at)}
    ELSE {Token(1, i, at) \o e \o Reduce(4, 2, at) : e \in EvalE(i + 1, j, at + 1)}
EvalL(i, j, at) ==
    {[n |-> 1, steps |-> e] : e \in EvalE(i, j, at)}
    \cup UNION {{[n |-> l.n + 1, steps |-> e \o l.steps] :
                   e \in EvalE(i, k, at), l \in EvalL(k + 1, j, at + 1)} : k \in i .. j - 1}
EvalS(n) ==
    {Nulling(0) \o l.steps \o Reduce(2, l.n, 1) \o Nulling(2) \o Reduce(0, 3, 0) : l \in EvalL(1, n, 1)}
MCPrograms == [n \in 0 .. MaxTokens |-> IF n = 0 THEN {} ELSE EvalS(n)]

MCL0 == {<< START, VALUE, VALUE >>, << LHS_ID >>}
MCSvIds == 1 .. 26
MCDict == [t \in Lexemes |-> t]
\* Names like B and a: by their bytes B is first, in a dictionary a is.
MCDictCase == [t \in Lexemes |-> 1 - t]

MCParsedOnly == {MCParsed}
MCInputs == [parser |-> 2, lexer |-> 1]
MCInputsTwice == [parser |-> 2, lexer |-> 2]
=============================================================================
