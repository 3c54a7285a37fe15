---------------------------- MODULE MCClassObject ----------------------------
(***************************************************************************)
(* Three objects over a small code space, and the classes: one out of      *)
(* order and with overlaps, the empty one, and two that are none.          *)
(***************************************************************************)
EXTENDS ClassObject, TLC

CONSTANTS o1, o2, o3

R(a, b) == [start |-> a, end |-> b]
MCLists == {<< R(3, 3), R(0, 2), R(1, 1) >>, << >>, << R(2, 1) >>, << R(5, 5) >>}
MCSymmetry == Permutations({o1, o2, o3})
=============================================================================
