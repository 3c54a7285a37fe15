----------------------------- MODULE Recognizers -----------------------------
(***************************************************************************)
(* The two libmarpa recognizers as the C runtime uses them.  The library is*)
(* not part of the repository.  Of L0, which turns characters into symbols,*)
(* it is enough to know the words of each symbol.  Of G1, which parses the *)
(* symbols, it is enough to know how the expected terminals depend on the  *)
(* tokens entered so far: a state machine, with sets of states because one *)
(* position of the input may have several tokens.                          *)
(***************************************************************************)
EXTENDS Integers, Sequences, FiniteSets, SequencesExt

CONSTANTS
    Char,        \* Input characters, the byte values.
    Lexeme,      \* L0 symbols that are terminals of G1.
    Discard,     \* L0 symbols of discarded input: white space, comments.
    Always,      \* Symbols acceptable everywhere: Discard and LTM lexemes.
    Words,       \* Words[s]: the strings that the L0 rules of s match.
    GState, GInit, GFinal,
    GNext        \* GNext[g, t]: states after terminal t, none if unexpected.

L0 == Lexeme \cup Discard

ASSUME SymbolAssumption ==
    /\ Lexeme \cap Discard = {}
    /\ IsFiniteSet(Lexeme)
    /\ Always \subseteq L0
ASSUME GrammarAssumption ==
    /\ Words \in [L0 -> SUBSET Seq(Char)]
    /\ GInit \subseteq GState /\ GFinal \subseteq GState
    /\ GNext \in [GState \X Lexeme -> SUBSET GState]

\* L0, terminals_expected: the characters that extend w towards a word of the
\* symbols in A.
Viable(A, w) ==
    { c \in Char : \E s \in A : \E v \in Words[s] : IsPrefix(Append(w, c), v) }

\* L0, marpa_b_new: the lengths at which a prefix of w is a word of A.
MatchLengths(A, w) ==
    { k \in 0 .. Len(w) : \E s \in A : SubSeq(w, 1, k) \in Words[s] }

\* G1, terminals_expected.
Expected(g) == { t \in Lexeme : \E q \in g : GNext[<< q, t >>] # {} }

\* G1, earleme_complete: the states after one of the tokens in T.  The ones
\* that are not expected are refused, with an error code nobody looks at.
Advance(g, T) == UNION { GNext[p] : p \in g \X T }

\* G1, marpa_b_new: is there a parse that ends here?
Accepting(g) == g \cap GFinal # {}

=============================================================================
