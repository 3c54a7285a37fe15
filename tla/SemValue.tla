------------------------------ MODULE SemValue ------------------------------
(***************************************************************************)
(* Semantic values of the C engine, runtime-c/sem.c, and vectors of them,  *)
(* sem_sva.c.  A value counts its references; a vector holds one to each   *)
(* of its elements.  A value here is its kind `key`, the number `at` of    *)
(* what it was made of, and, for a vector, its elements.  A definition     *)
(* whose comment starts with "Mutant" is a wrong version of the one it     *)
(* precedes, for the mutation runs.                                        *)
(***************************************************************************)
EXTENDS Integers, Sequences, FiniteSets, SequencesExt, FiniteSetsExt

CONSTANT SvIds  \* The memory.

ASSUME SvIdsAssumption == SvIds \subseteq Nat \ {0} /\ IsFiniteSet(SvIds)

Null == 0
Free == -1   \* The key of what is not allocated,
Twice == -2  \* ... and of what was released again after that.
Vec == 99    \* The key of a vector.

NoSv == [key |-> Free, at |-> 0, elems |-> << >>, refs |-> 0]

\* The number of places in a sequence that refer to x.
Places(x, xs) == Cardinality({k \in 1 .. Len(xs) : xs[k] = x})

\* The memory that is not in use; the next value gets the first of it.
Unused(h) == {x \in SvIds : h[x].key = Free}
FreeSv(h) == Min(Unused(h))

\* cons_string, cons_int, cons_vec: a new value has no references.
New(h, x, key, at) == [h EXCEPT ![x] = [NoSv EXCEPT !.key = key, !.at = at]]

Ref(h, x) == IF x = Null THEN h ELSE [h EXCEPT ![x].refs = @ + 1]

\* sva_copy: one for each element.
Refs(h, xs) == [x \in SvIds |-> [h[x] EXCEPT !.refs = @ + Places(x, xs)]]

\* The references that vectors hold: the one to the k-th element of y is << y, k >>.
Held(h) == UNION {{y} \X (1 .. Len(h[y].elems)) : y \in SvIds}

\* The first of some references is given up.  The last one to a value destroys it, and
\* with a vector goes its reference to each element.
Released(st) ==
    IF st.todo = << >> THEN st
    ELSE LET x    == Head(st.todo)
             h    == st.heap
             rest == Tail(st.todo)
         IN  IF x = Null THEN [heap |-> h, todo |-> rest]
             ELSE IF h[x].key < 0 THEN [heap |-> [h EXCEPT ![x].key = Twice], todo |-> rest]
             ELSE IF h[x].refs > 1 THEN [heap |-> [h EXCEPT ![x].refs = @ - 1], todo |-> rest]
             ELSE [heap |-> [h EXCEPT ![x] = NoSv], todo |-> h[x].elems \o rest]

\* References given up, one after the other: unref, sva_free, sva_clear.  Each one
\* is given up once, so that there are no more steps than references.
Releases(h, xs) ==
    LET st[k \in 0 .. Len(xs) + Cardinality(Held(h))] ==
          IF k = 0 THEN [heap |-> h, todo |-> xs] ELSE Released(st[k-1])
    IN  st
Unrefs(h, xs) == Releases(h, xs)[Len(xs) + Cardinality(Held(h))].heap

\* sva_push into the vector of a value.
VecPush(h, v, x) == [Ref(h, x) EXCEPT ![v].elems = Append(@, x)]

\* cons_vec_cp: a vector value with the elements of a vector.
VecCopy(h, v, xs) == [Refs(New(h, v, Vec, 0), xs) EXCEPT ![v].elems = xs]

\* Mutant: the mask is looked up where the element goes to.
FilteringShifted(xs, mask) ==
    LET st[k \in 0 .. Len(xs)] ==
          IF k = 0 THEN [kept |-> << >>, gone |-> << >>, j |-> 1]
          ELSE IF st[k-1].j <= Len(mask) /\ mask[st[k-1].j] = Len(st[k-1].kept)
               THEN [st[k-1] EXCEPT !.gone = Append(@, xs[k]), !.j = @ + 1]
               ELSE [st[k-1] EXCEPT !.kept = Append(@, xs[k])]
    IN  st

\* sva_filter, after the first k elements: what is left of a vector without those at the
\* (ascending) places of the mask, from 0, and what gave up its reference.
Filtering(xs, mask) ==
    LET st[k \in 0 .. Len(xs)] ==
          IF k = 0 THEN [kept |-> << >>, gone |-> << >>, j |-> 1]
          ELSE IF st[k-1].j <= Len(mask) /\ mask[st[k-1].j] = k - 1
               THEN [st[k-1] EXCEPT !.gone = Append(@, xs[k]), !.j = @ + 1]
               ELSE [st[k-1] EXCEPT !.kept = Append(@, xs[k])]
    IN  st
Filtered(xs, mask) == Filtering(xs, mask)[Len(xs)]

\* sva_set_fill: x at a place of a vector, empty ones in front of it; and what was there.
Filled(xs, at, x) ==
    [k \in 1 .. Max({Len(xs), at + 1}) |->
       IF k = at + 1 THEN x ELSE IF k <= Len(xs) THEN xs[k] ELSE Null]
Old(xs, at) == IF at < Len(xs) THEN << xs[at + 1] >> ELSE << >>

-----------------------------------------------------------------------------
(* What a value says, as a tree                                            *)

Tree(key, at, args) == [key |-> key, at |-> at, args |-> args]
NullTree == Tree(Free, 0, << >>)

\* marpatcl_rtc_sv_astcl, for values nested up to a depth.  No value is part of itself,
\* so that none is nested deeper than there are values.
Nested(h) ==
    LET says[n \in 0 .. Cardinality(SvIds)] ==
          [x \in SvIds |->
             IF n = 0 THEN NullTree
             ELSE Tree(h[x].key, h[x].at,
                       [k \in 1 .. Len(h[x].elems) |->
                          IF h[x].elems[k] = Null THEN NullTree ELSE says[n-1][h[x].elems[k]]])]
    IN  says
AsTcl(h, x) == IF x = Null THEN NullTree ELSE Nested(h)[Cardinality(SvIds)][x]
=============================================================================
