------------------------------ MODULE MCSymSet ------------------------------
(***************************************************************************)
(* SymSet for TLC: three symbols, and memory that holds a value below,     *)
(* inside and above the valid range in every cell, in all combinations.    *)
(***************************************************************************)
EXTENDS SymSet

MCCap        == 3
MCDenseJunk  == {-1, 0, 1}
MCSparseJunk == {0, 2, 7}

=============================================================================
