------------------------------ MODULE Markers ------------------------------
(***************************************************************************)
(* What the management of stop markers promises: an input with any number  *)
(* of markers, each of which stops it.  No marked place is read past, all  *)
(* markers of a place go off together, each with the command given for it, *)
(* and nothing else removes a marker but who put it there.                 *)
(*                                                                         *)
(* MultiStop implements this with the single marker of an engine.          *)
(***************************************************************************)
EXTENDS Integers

CONSTANTS
    Names,     \* Names of markers.
    Places,    \* Where one can be put.
    Commands   \* What to do at one.

VARIABLES
    at,      \* The location: the character to read next.
    marks,   \* The markers: a partial function, name -> place and command.
    due,     \* Markers that went off and whose command is still to run.
    phase    \* "reading", "acting" (commands run), "calling" (a handler runs),
             \* or "done".

vars == << at, marks, due, phase >>

Marked == \E n \in DOMAIN marks : marks[n].pos = at

-----------------------------------------------------------------------------
(* The input                                                               *)

Init == marks = [n \in {} |-> 0] /\ due = {} /\ at \in Int /\ phase = "reading"

Again ==
    /\ phase = "done"
    /\ at' \in Int /\ due' = {} /\ phase' = "reading"
    /\ UNCHANGED marks

\* The next character, but never one that is marked.  Characters are given back
\* when a match is completed, an event of the match calls its handler, and the
\* input may end.
Read ==
    /\ phase = "reading" /\ ~ Marked
    /\ at' \in Int /\ at' <= at + 1
    /\ phase' \in {"reading", "calling", "done"}
    /\ UNCHANGED << marks, due >>

\* A marked place: all of its markers, and no other, go off.
GoOff ==
    /\ phase = "reading" /\ Marked
    /\ LET here == {n \in DOMAIN marks : marks[n].pos = at}
       IN /\ due' = {<< n, marks[n].cmd >> : n \in here}
          /\ marks' = [n \in DOMAIN marks \ here |-> marks[n]]
    /\ phase' = "acting"
    /\ UNCHANGED at

-----------------------------------------------------------------------------
(* Commands and handlers                                                   *)

\* The command of a marker jumps, or calls its handler.
Act ==
    /\ phase = "acting"
    /\ \E d \in due : due' = due \ {d}
    /\ at' \in Int /\ phase' \in {"acting", "calling", "done"}
    /\ UNCHANGED marks

\* A handler puts a marker, or takes one away.
Put ==
    /\ phase = "calling"
    /\ \E n \in Names, p \in Places, c \in Commands :
           marks' = [x \in DOMAIN marks \cup {n} |->
                       IF x = n THEN [pos |-> p, cmd |-> c] ELSE marks[x]]
    /\ phase' \in {"calling", "done"}
    /\ UNCHANGED << at, due >>

Take ==
    /\ phase = "calling"
    /\ \E n \in DOMAIN marks : marks' = [x \in DOMAIN marks \ {n} |-> marks[x]]
    /\ phase' \in {"calling", "done"}
    /\ UNCHANGED << at, due >>

Jump ==
    /\ phase = "calling"
    /\ at' \in Int
    /\ UNCHANGED << marks, due, phase >>

Return ==
    /\ phase = "calling"
    /\ phase' \in {"acting", "reading", "done"}
    /\ phase' = "reading" => due = {}
    /\ UNCHANGED << at, marks, due >>

\* All commands have run.
Resume ==
    /\ phase = "acting" /\ due = {}
    /\ phase' = "reading"
    /\ UNCHANGED << at, marks, due >>

Fail ==
    /\ phase' = "done"
    /\ UNCHANGED << at, marks, due >>

Next ==
    \/ Again \/ Read \/ GoOff
    \/ Act \/ Put \/ Take \/ Jump \/ Return \/ Resume \/ Fail

Spec == Init /\ [][Next]_vars

=============================================================================
