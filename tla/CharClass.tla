------------------------------ MODULE CharClass ------------------------------
(***************************************************************************)
(* Unicode character classes of the C code: unicode/c/scr.c, and what      *)
(* asbr.c and assr.c make of a class.  A class is an array `cr` of ranges  *)
(* of code points with the flag `canon`.  One behaviour takes a class      *)
(* through up to Rounds calls of                                           *)
(*                                                                         *)
(*   norm         sort the ranges and merge them, in place                 *)
(*   negate       the complement in all planes                             *)
(*   negate-smp   the complement in the planes behind the first            *)
(*   unfold       the class without regard to letter case                  *)
(*   asbr, assr   alternatives of byte ranges, of UTF-16 ranges            *)
(*                                                                         *)
(* All of them normalise their argument first, as part of the same call,   *)
(* and the flag `canon` that the first call leaves decides what the second *)
(* one does.  Loops are steps, so that the invariants of the loops can be  *)
(* stated.  A definition whose comment starts with "Mutant" is a wrong     *)
(* version of the one it precedes, for the mutation runs.                  *)
(***************************************************************************)
EXTENDS Encoding, Ranges

CONSTANTS
    UniMax,      \* UNI_MAX, the last code point.
    Lists,       \* The classes that behaviours start with: sequences of ranges.
    Ops,         \* The calls that are made.
    Flags,       \* The sets of encoding flags given to asbr.
    FoldClasses, \* marpatcl_unfold (generated data): sets of equal letters.
    FoldMax,     \* UNI_FMAX: the size of the largest of them.
    Rounds,      \* Bound: number of calls.
    MaxPoints,   \* Bound: code points of a class that is expanded one by one.
    Probes,      \* Code points the properties look at.
    Words        \* Encoded words the properties look at.

Calls == {"norm", "negate", "negate-smp", "unfold", "asbr", "assr"}
Codes == 0 .. UniMax

\* What points.c lets into a class: both ends are code points, in order.
IsRange(r) == r.start \in Codes /\ r.end \in Codes /\ r.start <= r.end

ASSUME UniAssumption == UniMax \in Nat /\ UniMax > BmpMax
ASSUME ListsAssumption ==
    Lists \subseteq Seq([start : Int, end : Int]) /\ \A l \in Lists : \A i \in 1 .. Len(l) : IsRange(l[i])
ASSUME OpsAssumption == Ops \subseteq Calls /\ Flags \subseteq FlagSets
ASSUME WordsAssumption == Words \subseteq Seq(Int) /\ Probes \subseteq Int
ASSUME FoldAssumption ==
    /\ FoldMax \in Nat \ {0}
    /\ \A c \in FoldClasses : c \subseteq Codes /\ Cardinality(c) <= FoldMax

VARIABLES
    scr,        \* The argument and the temporary class: [cr, canon].
    work,       \* Which of them `norm` works on.
    given,      \* History: the ranges `norm` was given for each of them.
    previous,   \* norm: the range being extended; those before it are final,
    current,    \* ... and the range looked at.
    pc, op, flags, round,
    i,          \* The loops over the ranges of the argument,
    code,       \* ... and over the code points of a range.
    cmin,       \* complement: the first code point not decided yet.
    room,       \* The capacity computed for the result: nc, temp.max.
    lastcode,   \* asbr, assr: the code point before,
    stack,      \* ... and the alternatives so far, last first in the code.
    out         \* The result.

normVars == << scr, work, given, previous, current >>
loopVars == << i, code, cmin, room, lastcode, stack, out >>
vars == << scr, work, given, previous, current, pc, op, flags, round,
           i, code, cmin, room, lastcode, stack, out >>

-----------------------------------------------------------------------------
(* Helpers                                                                 *)

arg == scr["arg"].cr

\* The letters marpatcl_unfold lists for a code point, itself when it lists none.
Unfolded(c) ==
    IF \E f \in FoldClasses : c \in f THEN CHOOSE f \in FoldClasses : c \in f ELSE {c}

\* The table lists them in order.
Ascending(S) == [k \in 1 .. Cardinality(S) |-> CHOOSE c \in S : Cardinality({d \in S : d <= c}) = k]

Enc(c) == IF op = "assr" THEN Chars(c) ELSE Utf(c, flags)

\* The next iteration of the two nested loops over the code points.
NextCode ==
    IF code < arg[i].end
    THEN code' = code + 1 /\ i' = i
    ELSE /\ i' = i + 1
         /\ code' = IF i < Len(arg) THEN arg[i+1].start ELSE code

\* The calls that the documentation allows on a class.  For the complement in
\* the supplementary planes the class has to be in them, and the callers
\* (slif-literal/reduce-2tcl.tcl) give it no empty class.
Allowed(o, f, cr) ==
    /\ o # "asbr" => f = {}
    /\ o \in {"unfold", "asbr", "assr"} => Total(cr) <= MaxPoints
    /\ o = "negate-smp" => cr # << >> /\ \A k \in 1 .. Len(cr) : cr[k].start > BmpMax

-----------------------------------------------------------------------------
(* marpatcl_scr_norm, on scr[work]                                         *)

\* Where the caller goes on: with the call proper, or, for the temporary class
\* of unfold, with the copy of the result.
AfterNorm == IF work = "arg" THEN "call" ELSE "dup"

\* The flag says that there is nothing to do.
NormKnown ==
    /\ pc = "norm"
    /\ scr[work].canon
    /\ pc' = AfterNorm
    /\ UNCHANGED << normVars, loopVars, op, flags, round >>

\* A class of one range, or of none, has nothing to merge.
NormShort ==
    /\ pc = "norm"
    /\ ~scr[work].canon
    /\ Len(scr[work].cr) <= 1
    /\ scr' = [scr EXCEPT ![work].canon = TRUE]
    /\ given' = [given EXCEPT ![work] = scr[work].cr]
    /\ pc' = AfterNorm
    /\ UNCHANGED << work, previous, current, loopVars, op, flags, round >>

NormSort ==
    /\ pc = "norm"
    /\ ~scr[work].canon
    /\ Len(scr[work].cr) > 1
    /\ given' = [given EXCEPT ![work] = scr[work].cr]
    /\ scr' = [scr EXCEPT ![work].cr = Sorted(scr[work].cr)]
    /\ previous' = 1
    /\ current' = 2
    /\ pc' = "merge"
    /\ UNCHANGED << work, loopVars, op, flags, round >>

MergeExtend ==
    /\ pc = "merge"
    /\ current <= Len(scr[work].cr)
    /\ Overlaps(scr[work].cr[previous], scr[work].cr[current])
    /\ scr' = [scr EXCEPT ![work].cr[previous] = Extended(@, scr[work].cr[current])]
    /\ current' = current + 1
    /\ UNCHANGED << work, given, previous, loopVars, pc, op, flags, round >>

\* Mutant: the range that was moved is looked at again.
MergeShiftOnly ==
    /\ pc = "merge"
    /\ current <= Len(scr[work].cr)
    /\ ~Overlaps(scr[work].cr[previous], scr[work].cr[current])
    /\ scr' = [scr EXCEPT ![work].cr[previous + 1] = scr[work].cr[current]]
    /\ previous' = previous + 1
    /\ UNCHANGED << work, given, current, loopVars, pc, op, flags, round >>

MergeShift ==
    /\ pc = "merge"
    /\ current <= Len(scr[work].cr)
    /\ ~Overlaps(scr[work].cr[previous], scr[work].cr[current])
    /\ scr' = [scr EXCEPT ![work].cr[previous + 1] = scr[work].cr[current]]
    /\ previous' = previous + 1
    /\ current' = current + 1
    /\ UNCHANGED << work, given, loopVars, pc, op, flags, round >>

MergeLast ==
    /\ pc = "merge"
    /\ current > Len(scr[work].cr)
    /\ scr' = [scr EXCEPT ![work] =
                  [cr |-> SubSeq(scr[work].cr, 1, previous), canon |-> TRUE]]
    /\ pc' = AfterNorm
    /\ UNCHANGED << work, given, previous, current, loopVars, op, flags, round >>

-----------------------------------------------------------------------------
(* marpatcl_scr_complement, after the normalisation                        *)

\* The complement of the empty class is everything, whatever the planes.
NegateEmpty ==
    /\ pc = "start"
    /\ op \in {"negate", "negate-smp"}
    /\ arg = << >>
    /\ out' = << [start |-> 0, end |-> UniMax] >>
    /\ room' = 1
    /\ pc' = "done"
    /\ UNCHANGED << normVars, i, code, cmin, lastcode, stack, op, flags, round >>

Bottom == IF op = "negate-smp" THEN BmpMax + 1 ELSE 0

\* Mutant: only one end of the class is looked at.
ComplementSizeBottom(cr) == Len(cr) + 1 - (IF cr[1].start = Bottom THEN 1 ELSE 0)

\* nc, the number of ranges of the complement.
ComplementSize(cr) ==
    Len(cr) + 1 - (IF cr[1].start = Bottom THEN 1 ELSE 0)
                - (IF cr[Len(cr)].end = UniMax THEN 1 ELSE 0)

NegateBegin ==
    /\ pc = "call"
    /\ op \in {"negate", "negate-smp"}
    /\ room' = ComplementSize(arg)
    /\ cmin' = Bottom
    /\ i' = 1
    /\ out' = << >>
    /\ pc' = IF ComplementSize(arg) = 0 THEN "done" ELSE "negate"
    /\ UNCHANGED << normVars, code, lastcode, stack, op, flags, round >>

NegateRange ==
    /\ pc = "negate"
    /\ i <= Len(arg)
    /\ out' = IF arg[i].start > cmin
              THEN Append(out, [start |-> cmin, end |-> arg[i].start - 1])
              ELSE out
    /\ cmin' = arg[i].end + 1
    /\ i' = i + 1
    /\ UNCHANGED << normVars, code, room, lastcode, stack, pc, op, flags, round >>

NegateRest ==
    /\ pc = "negate"
    /\ i > Len(arg)
    /\ out' = IF cmin <= UniMax THEN Append(out, [start |-> cmin, end |-> UniMax]) ELSE out
    /\ pc' = "done"
    /\ UNCHANGED << normVars, i, code, cmin, room, lastcode, stack, op, flags, round >>

-----------------------------------------------------------------------------
(* marpatcl_scr_unfold                                                     *)

UnfoldEmpty ==
    /\ pc = "start"
    /\ op = "unfold"
    /\ arg = << >>
    /\ out' = << >>
    /\ pc' = "done"
    /\ UNCHANGED << normVars, i, code, cmin, room, lastcode, stack, op, flags, round >>

\* Phase I: the code points are counted, for the size of the temporary class.
UnfoldBegin ==
    /\ pc = "call"
    /\ op = "unfold"
    /\ room' = FoldMax * Total(arg)
    /\ scr' = [scr EXCEPT !["temp"] = [cr |-> << >>, canon |-> FALSE]]
    /\ i' = 1
    /\ code' = arg[1].start
    /\ pc' = "unfold"
    /\ UNCHANGED << work, given, previous, current, cmin, lastcode, stack, out,
                    op, flags, round >>

\* Phase II: the letters of one code point, in the order of the table.
UnfoldCode ==
    /\ pc = "unfold"
    /\ i <= Len(arg)
    /\ LET letters == Ascending(Unfolded(code))
       IN  scr' = [scr EXCEPT !["temp"].cr = @ \o
                     [k \in 1 .. Len(letters) |-> [start |-> letters[k], end |-> letters[k]]]]
    /\ NextCode
    /\ UNCHANGED << work, given, previous, current, cmin, room, lastcode, stack, out,
                    pc, op, flags, round >>

\* Mutant: the letters are copied as they are.
UnfoldEndRaw ==
    /\ pc = "unfold"
    /\ i > Len(arg)
    /\ work' = "temp"
    /\ pc' = "dup"
    /\ UNCHANGED << scr, given, previous, current, loopVars, op, flags, round >>

\* The temporary class is normalised in its turn,
UnfoldEnd ==
    /\ pc = "unfold"
    /\ i > Len(arg)
    /\ work' = "temp"
    /\ pc' = "norm"
    /\ UNCHANGED << scr, given, previous, current, loopVars, op, flags, round >>

\* ... and copied.
UnfoldDup ==
    /\ pc = "dup"
    /\ out' = scr["temp"].cr
    /\ pc' = "done"
    /\ UNCHANGED << normVars, i, code, cmin, room, lastcode, stack, op, flags, round >>

-----------------------------------------------------------------------------
(* marpatcl_asbr_new, marpatcl_assr_new                                    *)

EncodeBegin ==
    /\ pc = "call"
    /\ op \in {"asbr", "assr"}
    /\ i' = 1
    /\ code' = IF arg = << >> THEN 0 ELSE arg[1].start
    /\ lastcode' = 0
    /\ stack' = << >>
    /\ pc' = "encode"
    /\ UNCHANGED << normVars, cmin, room, out, op, flags, round >>

\* finalize: behind a gap nothing is merged with the last alternative.
Finalized(s) ==
    IF s # << >> /\ code > lastcode + 1
    THEN [s EXCEPT ![Len(s)].closed = TRUE] ELSE s

\* One code point: its encoding is pushed, then merged as far as it goes.
EncodeCode ==
    /\ pc = "encode"
    /\ i <= Len(arg)
    /\ stack' = Append(Finalized(stack), [closed |-> FALSE, alt |-> Single(Enc(code))])
    /\ pc' = "merge2"
    /\ UNCHANGED << normVars, i, code, cmin, room, lastcode, out, op, flags, round >>

\* The two alternatives on top of the stack are mergeable.
Mergeable ==
    /\ Len(stack) >= 2
    /\ ~stack[Len(stack) - 1].closed
    /\ CanMerge(stack[Len(stack) - 1].alt, stack[Len(stack)].alt)

MergeTop ==
    /\ pc = "merge2"
    /\ Mergeable
    /\ stack' = [SubSeq(stack, 1, Len(stack) - 1) EXCEPT
                   ![Len(stack) - 1].alt = Merged(@, stack[Len(stack)].alt)]
    /\ UNCHANGED << normVars, i, code, cmin, room, lastcode, out, pc, op, flags, round >>

MergeTopEnd ==
    /\ pc = "merge2"
    /\ ~Mergeable
    /\ lastcode' = code
    /\ NextCode
    /\ pc' = "encode"
    /\ UNCHANGED << normVars, cmin, room, stack, out, op, flags, round >>

EncodeEnd ==
    /\ pc = "encode"
    /\ i > Len(arg)
    /\ out' = [k \in 1 .. Len(stack) |-> stack[k].alt]
    /\ pc' = "done"
    /\ UNCHANGED << normVars, i, code, cmin, room, lastcode, stack, op, flags, round >>

-----------------------------------------------------------------------------
(* The calls                                                               *)

\* Mutant: the encodings take the class as it is.
StartRaw ==
    /\ pc = "start"
    /\ ~(arg = << >> /\ op \in {"negate", "negate-smp", "unfold"})
    /\ work' = "arg"
    /\ pc' = IF op \in {"asbr", "assr"} THEN "call" ELSE "norm"
    /\ UNCHANGED << scr, given, previous, current, loopVars, op, flags, round >>

\* Every call but those on an empty class that return at once normalises first.
Start ==
    /\ pc = "start"
    /\ ~(arg = << >> /\ op \in {"negate", "negate-smp", "unfold"})
    /\ work' = "arg"
    /\ pc' = "norm"
    /\ UNCHANGED << scr, given, previous, current, loopVars, op, flags, round >>

CallNorm ==
    /\ pc = "call"
    /\ op = "norm"
    /\ out' = arg
    /\ pc' = "done"
    /\ UNCHANGED << normVars, i, code, cmin, room, lastcode, stack, op, flags, round >>

\* The next call on the same class.
Again(o, f) ==
    /\ pc = "done"
    /\ round < Rounds
    /\ Allowed(o, f, arg)
    /\ op' = o
    /\ flags' = f
    /\ round' = round + 1
    /\ out' = << >>
    /\ stack' = << >>
    /\ pc' = "start"
    /\ UNCHANGED << normVars, i, code, cmin, room, lastcode >>

Empty == [cr |-> << >>, canon |-> FALSE]

Init ==
    /\ \E l \in Lists : scr = [w \in {"arg", "temp"} |->
                              IF w = "arg" THEN [cr |-> l, canon |-> FALSE] ELSE Empty]
    /\ op \in Ops
    /\ flags \in Flags
    /\ Allowed(op, flags, arg)
    /\ work = "arg" /\ given = [w \in {"arg", "temp"} |-> << >>] /\ previous = 1 /\ current = 1
    /\ pc = "start" /\ round = 1
    /\ i = 1 /\ code = 0 /\ cmin = 0 /\ room = 0 /\ lastcode = 0
    /\ stack = << >> /\ out = << >>

Norm == NormKnown \/ NormShort \/ NormSort \/ MergeExtend \/ MergeShift \/ MergeLast
Negate == NegateEmpty \/ NegateBegin \/ NegateRange \/ NegateRest
Unfold == UnfoldEmpty \/ UnfoldBegin \/ UnfoldCode \/ UnfoldEnd \/ UnfoldDup
Encode == EncodeBegin \/ EncodeCode \/ MergeTop \/ MergeTopEnd \/ EncodeEnd
Next == Start \/ CallNorm \/ Norm \/ Negate \/ Unfold \/ Encode
        \/ \E o \in Ops, f \in Flags : Again(o, f)

Spec == Init /\ [][Next]_vars

-----------------------------------------------------------------------------
(* Properties                                                              *)

\* The fields have their types, and the indices stay inside of the arrays.
TypeOK ==
    /\ scr \in [{"arg", "temp"} -> [cr : Seq([start : Int, end : Int]), canon : BOOLEAN]]
    /\ given \in [{"arg", "temp"} -> Seq([start : Int, end : Int])]
    /\ work \in {"arg", "temp"}
    /\ pc \in {"start", "norm", "merge", "call", "dup", "negate", "unfold", "encode",
               "merge2", "done"}
    /\ op \in Calls /\ flags \in FlagSets
    /\ previous \in Nat /\ current \in Nat
    /\ pc = "merge" => /\ 1 <= previous /\ previous < current
                       /\ current <= Len(scr[work].cr) + 1

\* What is left of the array is, at every step of the loop that merges ranges in
\* place, the class that was given: the final ranges and the ones not looked at
\* yet cover the same code points together (scr.c:177-205).
SamePoints ==
    \A p \in Probes :
      /\ \A w \in {"arg", "temp"} :
           scr[w].canon => (In(p, scr[w].cr) <=> In(p, given[w]))
      /\ pc = "merge" =>
           LET cr == scr[work].cr
           IN  (InPart(p, cr, 1, previous) \/ InPart(p, cr, current, Len(cr)))
                 <=> In(p, given[work])

\* A class that is flagged as canonical is sorted, with gaps between its ranges:
\* the complement and the encodings rely on it without looking (scr.c:255, asbr.c:96).
CanonIsTruth ==
    \A w \in {"arg", "temp"} : scr[w].canon => Canonical(scr[w].cr)

\* The complement has what the class has not, and exactly as many ranges as were
\* computed and allocated for it in advance (scr.c:269-318).
NegateExact ==
    pc = "done" /\ op \in {"negate", "negate-smp"} =>
      /\ \A p \in Probes : In(p, out) <=> (p \in Bottom .. UniMax /\ ~In(p, arg))
      /\ Len(out) = room
      /\ Canonical(out)

\* Unfolding yields the letters equal to a letter of the class, in canonical form,
\* and its temporary class, whose size is checked only after it was written, has
\* room for them (scr.c:381-413).
UnfoldExact ==
    /\ pc = "unfold" => Len(scr["temp"].cr) <= room
    /\ pc = "done" /\ op = "unfold" =>
         /\ Canonical(out)
         /\ \A p \in Probes : In(p, out) <=> \E q \in Points(arg) : p \in Unfolded(q)

Encoding == op \in {"asbr", "assr"} /\ pc \in {"encode", "merge2", "done"}

\* The code points that have been pushed.
Seen == {p \in Points(arg) : IF pc = "merge2" THEN p <= code
                                               ELSE stack # << >> /\ p <= lastcode}

\* At every step the alternatives on the stack stand for the encodings of the code
\* points pushed so far, and for nothing else, however they were merged.
LanguageExact ==
    Encoding =>
      LET pushed == {Enc(p) : p \in Seen}
      IN  \A w \in Words : (\E k \in 1 .. Len(stack) : Matches(w, stack[k].alt)) <=> w \in pushed

\* The number of words of an alternative.
Products(alt) ==
    LET product[k \in 0 .. Len(alt)] == IF k = 0 THEN 1 ELSE product[k-1] * Size(alt[k])
    IN  product
Volume(alt) == Products(alt)[Len(alt)]
Volumes(s) == [k \in 1 .. Len(s) |-> Volume(s[k].alt)]

\* No word is in two alternatives: a lexer made of them is not ambiguous.
Unambiguous ==
    Encoding => SumTo(Volumes(stack))[Len(stack)] = Cardinality(Seen)

\* CESU-8 is the UTF-8 of the UTF-16 elements: the two forms in which Tcl may
\* see a supplementary character denote the same (to_utf.c:51-74, to_char.c:25-37).
SurrogatesAgree ==
    pc = "merge2" /\ op = "asbr" /\ "cesu" \in flags /\ code > BmpMax =>
      Enc(code) = Utf(Chars(code)[1], flags) \o Utf(Chars(code)[2], flags)

=============================================================================
