------------------------------- MODULE Ranges -------------------------------
(***************************************************************************)
(* Classes of code points as sequences of ranges: unicode/c/scr.c.  Here   *)
(* are the parts that have no state: the order, and the merge of two       *)
(* ranges.  CharClass has the loops, ClassObject the Tcl values.           *)
(***************************************************************************)
EXTENDS Integers, Sequences, FiniteSets, SequencesExt

\* p is in one of the ranges cr[from .. to].
InPart(p, cr, from, to) == \E k \in from .. to : cr[k].start <= p /\ p <= cr[k].end
In(p, cr) == InPart(p, cr, 1, Len(cr))

\* Sorted, with a gap between any two ranges.
Canonical(cr) == \A k \in 1 .. Len(cr) - 1 : cr[k].end + 1 < cr[k+1].start

Size(r) == r.end - r.start + 1

\* The sums of the first numbers of a sequence, of none, of one, and so on.
SumTo(v) == LET sum[k \in 0 .. Len(v)] == IF k = 0 THEN 0 ELSE sum[k-1] + v[k] IN sum

Sizes(cr) == [k \in 1 .. Len(cr) |-> Size(cr[k])]
Total(cr) == SumTo(Sizes(cr))[Len(cr)]
Points(cr) == UNION {cr[k].start .. cr[k].end : k \in 1 .. Len(cr)}

\* compare: by start, and by end for the same start.
Less(a, b) == a.start < b.start \/ (a.start = b.start /\ a.end < b.end)

\* qsort of a class: every range goes where its rank says.  Equal ranges, which
\* cannot be told apart, are ranked in the order they had.
Rank(cr) ==
    [b \in 1 .. Len(cr) |-> Cardinality({a \in 1 .. Len(cr) :
        Less(cr[a], cr[b]) \/ (cr[a] = cr[b] /\ a <= b)})]
Sorted(cr) ==
    LET rank == Rank(cr)
    IN  [k \in 1 .. Len(cr) |-> cr[CHOOSE b \in 1 .. Len(cr) : rank[b] = k]]

-----------------------------------------------------------------------------
(* The two merge rules of marpatcl_scr_norm                                *)

\* Mutant: the end of the later range is taken in any case.
ExtendedLater(p, c) == [p EXCEPT !.end = c.end]

\* p extended by c, which overlaps it or is adjacent to it.
Extended(p, c) ==
    [p EXCEPT !.end = IF p.start = c.start THEN c.end
                      ELSE IF p.end < c.end THEN c.end ELSE p.end]

\* Mutant: ranges without a gap between them are kept apart.
OverlapsStrictly(p, c) == p.start = c.start \/ c.start <= p.end

\* Cases (1a), (1b), and (2a) to (2d) of the comment in the code.
Overlaps(p, c) == p.start = c.start \/ c.start <= p.end + 1

-----------------------------------------------------------------------------
(* The whole of it, for those who do not look at the steps                 *)

\* One iteration of the loop of marpatcl_scr_norm, on the final ranges.
Absorbed(final, r) ==
    IF final # << >> /\ Overlaps(Last(final), r)
    THEN [final EXCEPT ![Len(final)] = Extended(@, r)]
    ELSE Append(final, r)

Normalized(cr) ==
    LET sorted == Sorted(cr)
        final[k \in 0 .. Len(cr)] == IF k = 0 THEN << >> ELSE Absorbed(final[k-1], sorted[k])
    IN  final[Len(cr)]

\* One iteration of the loop of marpatcl_scr_complement, and what is behind it.
Skipped(gaps, r) ==
    [ranges |-> IF r.start > gaps.cmin
                THEN Append(gaps.ranges, [start |-> gaps.cmin, end |-> r.start - 1])
                ELSE gaps.ranges,
     cmin   |-> r.end + 1]

\* The complement within 0 .. cmax of a normalised class.
Complement(cr, cmax) ==
    LET gaps[k \in 0 .. Len(cr)] ==
            IF k = 0 THEN [ranges |-> << >>, cmin |-> 0] ELSE Skipped(gaps[k-1], cr[k])
        last == gaps[Len(cr)]
    IN  IF last.cmin <= cmax
        THEN Append(last.ranges, [start |-> last.cmin, end |-> cmax]) ELSE last.ranges
=============================================================================
