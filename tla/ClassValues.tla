----------------------------- MODULE ClassValues -----------------------------
(***************************************************************************)
(* What a script may assume of the character classes it holds: "everything *)
(* is a string".  A value is a set of code points, or the alternatives of  *)
(* such a set, or no class at all, and stays that until it is dropped,     *)
(* whatever is done with it or with values made from it.  ClassObject, the *)
(* Tcl_Obj types of unicode/c/scr_objtype.c and asbr_objtype.c, has to     *)
(* implement it.                                                           *)
(***************************************************************************)
EXTENDS Integers

CONSTANTS Objs, UniMax, Values, Nothing

VARIABLE val

ClassOf(points) == [kind |-> "class", points |-> points]

\* The alternatives of no code point at all look like the empty class.
AltsOf(points) == [kind |-> IF points = {} THEN "class" ELSE "alts", points |-> points]
Junk == [kind |-> "junk", points |-> {}]

Init == val = [o \in Objs |-> Nothing]

IsFree(o) == val[o] = Nothing
IsClass(o) == val[o] # Nothing /\ val[o].kind = "class"

\* What can come to an object that is free, or to r for an operation on o.
Give(o, v) == val' = [val EXCEPT ![o] = v]
Copy(o, r) == ~IsFree(o) /\ Give(r, val[o])
Negate(o, r) == IsClass(o) /\ Give(r, ClassOf((0 .. UniMax) \ val[o].points))
Encode(o, r) == IsClass(o) /\ Give(r, AltsOf(val[o].points))
Drop(o) == ~IsFree(o) /\ Give(o, Nothing)

Next == \E r \in Objs :
           \/ IsFree(r) /\ \/ \E v \in Values : Give(r, v)
                           \/ \E o \in Objs : Copy(o, r) \/ Negate(o, r) \/ Encode(o, r)
           \/ Drop(r)

Spec == Init /\ [][Next]_val
=============================================================================
