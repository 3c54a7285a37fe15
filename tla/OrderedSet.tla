----------------------------- MODULE OrderedSet -----------------------------
(***************************************************************************)
(* What a client of runtime-c/symset.c is promised: a set of symbols that  *)
(* also remembers the order in which its elements were included.           *)
(*                                                                         *)
(* The order matters.  parser.c enters the lexemes of a match by walking   *)
(* the set and the stack of semantic values side by side, so the k-th      *)
(* symbol of the set has to be the k-th one that was found.                *)
(*                                                                         *)
(* The contents may be replaced in bulk (the client writes them through a  *)
(* pointer into the set and then calls `link`), extended by one symbol,    *)
(* or dropped.  A membership query answers for the contents of the moment. *)
(* `last` records the call made, so that an implementation has to have the *)
(* effect of the very call its client makes.                               *)
(***************************************************************************)
EXTENDS Integers, Sequences

CONSTANTS
    Sym         \* The symbols the set may hold.

VARIABLES
    order,      \* The elements, in the order of their inclusion.
    last        \* The last call, with its arguments and its answer.

vars == << order, last >>

None == -1

Called(op, x, list, answer) ==
    [op |-> op, sym |-> x, list |-> list, answer |-> answer]

Members == { order[i] : i \in DOMAIN order }

\* Sequences without repetition: the contents a set may have.
Orders == { s \in Seq(Sym) : \A i, j \in DOMAIN s : s[i] = s[j] => i = j }

-----------------------------------------------------------------------------

Init ==
    /\ order = << >>
    /\ last = Called("init", None, << >>, "none")

Clear ==
    /\ order' = << >>
    /\ last' = Called("clear", None, << >>, "none")

\* Adding a member changes nothing, adding anything else makes it the last.
Add(x) ==
    /\ order' = IF x \in Members THEN order ELSE Append(order, x)
    /\ last' = Called("add", x, << >>, "none")

Replace ==
    /\ order' \in Orders
    /\ last' = Called("replace", None, order', "none")

Query(x) ==
    /\ last' = Called("contains", x, << >>, IF x \in Members THEN "yes" ELSE "no")
    /\ UNCHANGED order

Next ==
    \/ Clear
    \/ Replace
    \/ \E x \in Sym : Add(x) \/ Query(x)

Spec == Init /\ [][Next]_vars

=============================================================================
