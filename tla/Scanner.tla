------------------------------- MODULE Scanner -------------------------------
(***************************************************************************)
(* What the engine promises an application without event handlers: the     *)
(* text is cut into tokens from left to right, each one the longest word   *)
(* of a symbol that the grammar can go on with at this place, and `process`*)
(* returns a value only when the tokens cover all of the text.             *)
(*                                                                         *)
(* Nothing is said here of reading ahead, giving characters back, flushing,*)
(* or the recognizers' lives, which is what the engine is made of.         *)
(***************************************************************************)
EXTENDS Recognizers

CONSTANTS Inputs

VARIABLES
    text,        \* The text of the latest `process`.
    at,          \* Where the next token starts.
    states,      \* The states of G1.
    parsable,    \* Is some prefix of the tokens a sentence?
    verdict      \* "none" while running, then "value" or "error".

vars == << text, at, states, parsable, verdict >>

Rest == SubSeq(text, at + 1, Len(text))

Accepted == Expected(states) \cup Always

Init ==
    /\ text = << >> /\ at = 0
    /\ states = GInit /\ parsable = Accepting(GInit)
    /\ verdict = "value"

Begin(t) ==
    /\ verdict # "none"
    /\ verdict' = "none"
    /\ text' = t /\ at' = 0
    /\ states' = GInit /\ parsable' = Accepting(GInit)

\* The token is the longest word, of any symbol accepted here.  It may be a
\* word of several.
Token(k) ==
    LET word == SubSeq(Rest, 1, k)
        hits == { s \in Accepted : word \in Words[s] }
    IN  /\ verdict = "none"
        /\ k \in MatchLengths(Accepted, Rest)
        /\ \A j \in MatchLengths(Accepted, Rest) : j <= k
        /\ at' = at + k
        /\ IF hits \subseteq Discard
           THEN UNCHANGED << states, parsable >>
           ELSE /\ states' = Advance(states, hits \ Discard)
                /\ parsable' = (parsable \/ Accepting(states'))
        /\ UNCHANGED << text, verdict >>

\* All of the text is covered.  Tokens after the longest prefix that parses do
\* not count against it.
Succeed ==
    /\ verdict = "none" /\ at = Len(text) /\ parsable
    /\ verdict' = "value" /\ at' = 0
    /\ UNCHANGED << text, states, parsable >>

\* No word at this place, or tokens that no sentence starts with.
Error ==
    /\ verdict = "none"
    /\ \/ MatchLengths(Accepted, Rest) \subseteq {0} /\ Rest # << >>
       \/ ~ parsable /\ (Rest = << >> \/ Expected(states) = {})
    /\ verdict' = "error" /\ at' = 0
    /\ UNCHANGED << text, states, parsable >>

Progress == (\E k \in 0 .. Len(text) : Token(k)) \/ Succeed \/ Error

Next == (\E t \in Inputs : Begin(t)) \/ Progress

\* A text is never left half done.
Spec == Init /\ [][Next]_vars /\ WF_vars(Progress)

=============================================================================
