---------------------------- MODULE RangesProofs -----------------------------
(***************************************************************************)
(* Facts about classes as sequences of ranges, for CharClassProofs, which  *)
(* goes through the loops of scr.c step by step, and ClassObjectProofs,    *)
(* which needs what they compute: sorting rearranges, normalisation keeps  *)
(* the code points and leaves a gap between any two ranges, and the        *)
(* complement has what the class has not.                                  *)
(***************************************************************************)
EXTENDS Ranges, FiniteSetTheorems, SequenceTheorems, TLAPS

Ranged == [start : Int, end : Int]

-----------------------------------------------------------------------------
(* Ranks                                                                   *)

\* What ranks the elements of a finite set with the numbers from 1 on, and no two
\* alike, leaves no rank without an element.
LEMMA RankOnto ==
    ASSUME NEW S, IsFiniteSet(S), NEW f \in [S -> 1 .. Cardinality(S)],
           \A a, b \in S : f[a] = f[b] => a = b
    PROVE  \A k \in 1 .. Cardinality(S) : \E a \in S : f[a] = k
<1> DEFINE n == Cardinality(S)
           T == 1 .. n
<1>1. n \in Nat
  BY FS_CardinalityType
<1>2. IsFiniteSet(T) /\ Cardinality(T) = n
  BY <1>1, FS_Interval
<1>3. f \in Injection(S, T)
  BY DEF Injection, IsInjective
<1>4. f \in Surjection(S, T)
  BY <1>2, <1>3, FS_Injection
<1> QED BY <1>4 DEF Surjection

\* What comes before an element in a total order, counted, tells the elements apart.
LEMMA SmallerRank ==
    ASSUME NEW S, IsFiniteSet(S), NEW A \in SUBSET S, NEW B \in SUBSET S, NEW b \in B,
           A \subseteq B, b \notin A
    PROVE  Cardinality(A) < Cardinality(B)
<1>1. IsFiniteSet(B) /\ IsFiniteSet(A)
  BY FS_Subset
<1>2. Cardinality(A) \in Nat /\ Cardinality(B) \in Nat
  BY <1>1, FS_CardinalityType
<1>3. Cardinality(A) <= Cardinality(B) /\ (Cardinality(B) = Cardinality(A) => A = B)
  BY <1>1, FS_Subset
<1> QED BY <1>2, <1>3

LEMMA IsSequence ==
    ASSUME NEW n \in Nat, NEW S, NEW s \in [1 .. n -> S]
    PROVE  s \in Seq(S) /\ Len(s) = n
OBVIOUS

-----------------------------------------------------------------------------
(* qsort                                                                   *)

\* Sorting rearranges the ranges of a class: each of them is at some place, and at
\* every place is one of them; and none is behind one that is larger.
LEMMA SortedFacts ==
    ASSUME NEW cr \in Seq(Ranged)
    PROVE  /\ Sorted(cr) \in Seq(Ranged)
           /\ Len(Sorted(cr)) = Len(cr)
           /\ \A k \in 1 .. Len(cr) : \E b \in 1 .. Len(cr) : Sorted(cr)[k] = cr[b]
           /\ \A b \in 1 .. Len(cr) : \E k \in 1 .. Len(cr) : Sorted(cr)[k] = cr[b]
           /\ \A j, k \in 1 .. Len(cr) : j < k => ~Less(Sorted(cr)[k], Sorted(cr)[j])
<1> DEFINE n == Len(cr)
           S == 1 .. n
           Before(a, b) == Less(cr[a], cr[b]) \/ (cr[a] = cr[b] /\ a <= b)
           Upto(b) == {a \in S : Before(a, b)}
           rank == [b \in S |-> Cardinality(Upto(b))]
<1>1. n \in Nat /\ IsFiniteSet(S) /\ Cardinality(S) = n
  <2>1. n \in Nat
    OBVIOUS
  <2> HIDE DEF n
  <2>2. 1 \in Int /\ n \in Int /\ (IF 1 > n THEN 0 ELSE n - 1 + 1) = n
    BY <2>1
  <2> QED BY <2>1, <2>2, FS_Interval
<1>2. ASSUME NEW a \in S PROVE cr[a] \in Ranged /\ cr[a].start \in Int /\ cr[a].end \in Int
  <2>1. cr[a] \in Ranged
    OBVIOUS
  <2> QED BY <2>1 DEF Ranged
<1>3. ASSUME NEW a \in S, NEW b \in S, cr[a].start = cr[b].start, cr[a].end = cr[b].end
      PROVE  cr[a] = cr[b]
  <2>1. \A x \in Ranged : x = [start |-> x.start, end |-> x.end]
    BY DEF Ranged
  <2>2. cr[a] = [start |-> cr[a].start, end |-> cr[a].end]
        /\ cr[b] = [start |-> cr[b].start, end |-> cr[b].end]
    BY <1>2, <2>1
  <2> QED BY <1>3, <2>2
\* The order is total, and transitive.
<1>4. ASSUME NEW a \in S PROVE Before(a, a)
  BY DEF Less
<1>5. ASSUME NEW a \in S, NEW b \in S, a # b
      PROVE  \/ Before(a, b) /\ ~Before(b, a)
             \/ Before(b, a) /\ ~Before(a, b)
  <2>1. a \in Int /\ b \in Int
    BY <1>1
  <2>2. CASE cr[a] = cr[b]
    BY <1>2, <1>5, <2>1, <2>2 DEF Less
  <2>3. CASE cr[a] # cr[b]
    <3>1. cr[a].start # cr[b].start \/ cr[a].end # cr[b].end
      BY <1>3, <2>3
    <3> QED BY <1>2, <2>3, <3>1 DEF Less
  <2> QED BY <2>2, <2>3
<1>6. ASSUME NEW a \in S, NEW b \in S, NEW c \in S, Before(a, b), Before(b, c)
      PROVE  Before(a, c)
  <2>1. a \in Int /\ b \in Int /\ c \in Int
    BY <1>1
  <2> QED BY <1>2, <1>6, <2>1 DEF Less
<1> HIDE DEF Before
<1>7. ASSUME NEW a \in S, NEW b \in S, a # b, Before(a, b)
      PROVE  Cardinality(Upto(a)) < Cardinality(Upto(b))
  <2>1. ~Before(b, a)
    BY <1>5, <1>7
  <2>2. Upto(a) \subseteq Upto(b)
    BY <1>6, <1>7
  <2>3. b \in Upto(b) /\ b \notin Upto(a)
    BY <1>4, <2>1
  <2>4. Upto(a) \in SUBSET S /\ Upto(b) \in SUBSET S
    OBVIOUS
  <2> HIDE DEF Upto
  <2> QED BY <1>1, <2>2, <2>3, <2>4, SmallerRank
<1>8. ASSUME NEW b \in S PROVE Cardinality(Upto(b)) \in 1 .. n
  <2>1. IsFiniteSet(Upto(b)) /\ Cardinality(Upto(b)) <= n
    BY <1>1, FS_Subset
  <2>2. b \in Upto(b)
    BY <1>4
  <2>3. Cardinality(Upto(b)) \in Nat /\ Cardinality(Upto(b)) # 0
    BY <2>1, <2>2, FS_CardinalityType, FS_EmptySet
  <2> QED BY <1>1, <2>1, <2>3
<1>9. rank \in [S -> 1 .. Cardinality(S)]
  BY <1>1, <1>8
<1>10. ASSUME NEW a \in S, NEW b \in S, rank[a] = rank[b] PROVE a = b
  <2>1. Cardinality(Upto(a)) = Cardinality(Upto(b)) /\ Cardinality(Upto(a)) \in Int
    BY <1>8, <1>10
  <2> SUFFICES ASSUME a # b PROVE FALSE
    OBVIOUS
  <2>2. Before(a, b) \/ Before(b, a)
    BY <1>5
  <2>3. Cardinality(Upto(a)) < Cardinality(Upto(b)) \/ Cardinality(Upto(b)) < Cardinality(Upto(a))
    BY <1>7, <2>2
  <2> QED BY <2>1, <2>3
<1>11. \A k \in S : \E b \in S : rank[b] = k
  <2>1. S = 1 .. Cardinality(S)
    BY <1>1
  <2> HIDE DEF rank, S, n
  <2>2. IsFiniteSet(S) /\ \A a, b \in S : rank[a] = rank[b] => a = b
    BY <1>1, <1>10
  <2>3. \A k \in 1 .. Cardinality(S) : \E b \in S : rank[b] = k
    BY <1>9, <2>2, RankOnto, Zenon
  <2> QED BY <2>1, <2>3, Zenon
<1> DEFINE place == [k \in S |-> CHOOSE b \in S : rank[b] = k]
<1>12. \A k \in S : place[k] \in S /\ rank[place[k]] = k
  BY <1>11
<1>13. Rank(cr) = rank
  BY DEF Rank, Before
<1>14. Sorted(cr) = [k \in S |-> cr[place[k]]]
  BY <1>13 DEF Sorted
<1> HIDE DEF place
<1>15. Sorted(cr) \in Seq(Ranged) /\ Len(Sorted(cr)) = n
  <2>1. \A k \in S : cr[place[k]] \in Ranged
    BY <1>2, <1>12
  <2>2. Sorted(cr) \in [1 .. n -> Ranged]
    BY <1>14, <2>1
  <2> QED BY <1>1, <2>2, IsSequence
<1>16. \A b \in S : \E k \in S : Sorted(cr)[k] = cr[b]
  <2> TAKE b \in S
  <2>1. rank[b] \in S /\ rank[place[rank[b]]] = rank[b] /\ place[rank[b]] \in S
    BY <1>1, <1>9, <1>12
  <2>2. place[rank[b]] = b
    BY <1>10, <2>1
  <2> QED BY <1>14, <2>1, <2>2
<1>17. \A j, k \in S : j < k => ~Less(Sorted(cr)[k], Sorted(cr)[j])
  <2> TAKE j, k \in S
  <2> SUFFICES ASSUME j < k, Less(cr[place[k]], cr[place[j]]) PROVE FALSE
    BY <1>14
  <2>1. Before(place[k], place[j])
    BY DEF Before
  <2>2. place[k] # place[j]
    <3>1. j # k
      BY <1>1
    <3> QED BY <1>12, <3>1
  <2>3. rank[place[k]] < rank[place[j]]
    <3> HIDE DEF place, Upto, S
    <3>1. place[k] \in S /\ place[j] \in S
      BY <1>12, Zenon
    <3>2. Cardinality(Upto(place[k])) < Cardinality(Upto(place[j]))
      BY <1>7, <2>1, <2>2, <3>1, Zenon
    <3>3. rank[place[k]] = Cardinality(Upto(place[k])) /\ rank[place[j]] = Cardinality(Upto(place[j]))
      BY <3>1, Zenon
    <3> QED BY <3>2, <3>3, Zenon
  <2>4. k < j
    BY <1>12, <2>3, Zenon
  <2> QED BY <1>1, <2>4
<1> QED BY <1>12, <1>14, <1>15, <1>16, <1>17

-----------------------------------------------------------------------------
(* Ranges, and the merge of two                                            *)

\* Any two of the ranges cr[1 .. n] are in order, with a gap between them.
Apart(cr, n) == \A j, k \in 1 .. n : j < k => cr[j].end + 1 < cr[k].start

LEMMA RangedAt ==
    ASSUME NEW cr \in Seq(Ranged), NEW k \in 1 .. Len(cr)
    PROVE  cr[k] \in Ranged /\ cr[k].start \in Int /\ cr[k].end \in Int
<1>1. cr[k] \in Ranged
  OBVIOUS
<1> QED BY <1>1 DEF Ranged

\* The two merge rules: the extended range has the points of both, and no others.
LEMMA ExtendedCovers ==
    ASSUME NEW a \in Ranged, NEW c \in Ranged, Overlaps(a, c), ~Less(c, a)
    PROVE  /\ Extended(a, c) \in Ranged
           /\ Extended(a, c).start = a.start
           /\ Extended(a, c).end \in {a.end, c.end}
           /\ \A p \in Int :
                (Extended(a, c).start <= p /\ p <= Extended(a, c).end)
                  <=> (a.start <= p /\ p <= a.end) \/ (c.start <= p /\ p <= c.end)
           /\ \A d \in Ranged : ~Less(d, a) /\ ~Less(d, c) => ~Less(d, Extended(a, c))
<1> DEFINE e == Extended(a, c)
<1>1. a.start \in Int /\ a.end \in Int /\ c.start \in Int /\ c.end \in Int
  BY DEF Ranged
<1>2. /\ e \in Ranged
      /\ e.start = a.start
      /\ e.end = IF a.start = c.start THEN c.end ELSE IF a.end < c.end THEN c.end ELSE a.end
  BY <1>1 DEF Extended, Ranged
<1> HIDE DEF e
<1>3. e.end \in {a.end, c.end}
  BY <1>2
<1>4. ASSUME NEW p \in Int
      PROVE  (e.start <= p /\ p <= e.end)
               <=> (a.start <= p /\ p <= a.end) \/ (c.start <= p /\ p <= c.end)
  BY <1>1, <1>2 DEF Overlaps, Less
<1>5. ASSUME NEW d \in Ranged, ~Less(d, a), ~Less(d, c) PROVE ~Less(d, e)
  <2>1. d.start \in Int /\ d.end \in Int
    BY DEF Ranged
  <2> QED BY <1>1, <1>2, <1>5, <2>1 DEF Less
<1> QED BY <1>2, <1>3, <1>4, <1>5 DEF e

\* The ranges of a class are between two numbers.
Within(cr, low, top) ==
    \A k \in 1 .. Len(cr) : /\ low <= cr[k].start /\ cr[k].start <= cr[k].end
                            /\ cr[k].end <= top

\* The complement of the first n ranges of a class, up to the point behind them.
Partial(gaps, cr, n, low, next) ==
    /\ gaps \in Seq(Ranged)
    /\ next = IF n = 0 THEN low ELSE cr[n].end + 1
    /\ Len(gaps) = n - (IF n > 0 /\ cr[1].start = low THEN 1 ELSE 0)
    /\ Canonical(gaps)
    /\ gaps # << >> => gaps[Len(gaps)].end + 1 < next
    /\ \A p \in Int : In(p, gaps) <=> (low <= p /\ p < next /\ ~InPart(p, cr, 1, n))

-----------------------------------------------------------------------------
(* The complement as an operation on sequences                             *)

LEMMA AppendIn ==
    ASSUME NEW cr \in Seq(Ranged), NEW r \in Ranged, NEW p \in Int
    PROVE  In(p, Append(cr, r)) <=> (In(p, cr) \/ (r.start <= p /\ p <= r.end))
<1> DEFINE new == Append(cr, r)
           n == Len(cr)
<1>1. n \in Nat /\ Len(new) = n + 1 /\ new[n + 1] = r /\ \A k \in 1 .. n : new[k] = cr[k]
  OBVIOUS
<1> HIDE DEF new, n
<1>2. 1 .. n + 1 = (1 .. n) \cup {n + 1}
  BY <1>1
<1>3. InPart(p, new, 1, n + 1) <=> (InPart(p, cr, 1, n) \/ (r.start <= p /\ p <= r.end))
  BY <1>1, <1>2 DEF InPart
<1> QED BY <1>1, <1>3 DEF In, new, n

LEMMA AppendCanonical ==
    ASSUME NEW cr \in Seq(Ranged), NEW r \in Ranged, Canonical(cr),
           cr # << >> => cr[Len(cr)].end + 1 < r.start
    PROVE  Canonical(Append(cr, r)) /\ Append(cr, r) \in Seq(Ranged)
           /\ Len(Append(cr, r)) = Len(cr) + 1 /\ Append(cr, r)[Len(cr) + 1] = r
<1> DEFINE new == Append(cr, r)
           n == Len(cr)
<1>1. /\ n \in Nat /\ Len(new) = n + 1 /\ new[n + 1] = r /\ \A k \in 1 .. n : new[k] = cr[k]
      /\ new \in Seq(Ranged) /\ (n > 0 => cr # << >>)
  OBVIOUS
<1> HIDE DEF new, n
<1>2. ASSUME NEW k \in 1 .. n PROVE new[k].end + 1 < new[k+1].start
  <2>1. CASE k = n
    BY <1>1, <2>1 DEF n
  <2>2. CASE k # n
    <3>1. k \in 1 .. n - 1 /\ k + 1 \in 1 .. n /\ n - 1 = Len(cr) - 1
      BY <1>1, <2>2 DEF n
    <3> QED BY <1>1, <3>1 DEF Canonical
  <2> QED BY <2>1, <2>2
<1> QED BY <1>1, <1>2 DEF Canonical, new, n

LEMMA PartialStart ==
    ASSUME NEW cr \in Seq(Ranged), NEW low \in Int
    PROVE  Partial(<< >>, cr, 0, low, low)
BY DEF Partial, In, InPart, Canonical, Ranged

\* One more range of the class: what is between it and the ones before it.
LEMMA PartialNext ==
    ASSUME NEW cr \in Seq(Ranged), NEW n \in 0 .. Len(cr) - 1, NEW low \in Int, NEW top \in Int,
           NEW next, NEW gaps, Within(cr, low, top), Apart(cr, Len(cr)), Partial(gaps, cr, n, low, next)
    PROVE  Partial(IF cr[n+1].start > next
                   THEN Append(gaps, [start |-> next, end |-> cr[n+1].start - 1]) ELSE gaps,
                   cr, n + 1, low, cr[n+1].end + 1)
<1> DEFINE r == cr[n+1]
           gap == [start |-> next, end |-> r.start - 1]
<1>1. /\ n \in Nat /\ Len(cr) \in Nat /\ n + 1 \in 1 .. Len(cr)
      /\ (n > 0 => n \in 1 .. Len(cr)) /\ 1 \in 1 .. Len(cr)
  OBVIOUS
<1>2. r.start \in Int /\ r.end \in Int /\ r.start <= r.end /\ low <= r.start
      /\ cr[1].start \in Int
  BY <1>1, RangedAt DEF Within
<1>3. next \in Int /\ (n > 0 => cr[n].end \in Int /\ next = cr[n].end + 1) /\ (n = 0 => next = low)
  BY <1>1, RangedAt DEF Partial
<1>4. n > 0 => next < r.start
  BY <1>1, <1>3 DEF Apart
<1>5. low <= next
  <2>1. n > 0 => low <= cr[n].start /\ cr[n].start <= cr[n].end /\ cr[n].start \in Int
    BY <1>1, RangedAt DEF Within
  <2> QED BY <1>1, <1>3, <2>1
<1>6. \A p \in Int : InPart(p, cr, 1, n + 1) <=> (InPart(p, cr, 1, n) \/ (r.start <= p /\ p <= r.end))
  <2>1. 1 .. n + 1 = (1 .. n) \cup {n + 1}
    BY <1>1
  <2> QED BY <2>1 DEF InPart
<1>7. \A p \in Int : InPart(p, cr, 1, n) => p < next
  <2> SUFFICES ASSUME NEW p \in Int, NEW k \in 1 .. n, cr[k].start <= p, p <= cr[k].end
               PROVE  p < next
    BY DEF InPart
  <2>1. k \in 1 .. Len(cr) /\ n > 0 /\ k \in Nat
    BY <1>1
  <2>2. cr[k].end \in Int /\ (k < n => cr[k].end + 1 < cr[n].start /\ cr[n].start <= cr[n].end
                                       /\ cr[n].start \in Int)
    BY <1>1, <2>1, RangedAt DEF Apart, Within
  <2>3. k = n \/ k < n
    BY <1>1
  <2>4. CASE k = n
    BY <1>3, <2>1, <2>2, <2>4
  <2>5. CASE k < n
    BY <1>3, <2>1, <2>2, <2>5, SMTT(30)
  <2> QED BY <2>3, <2>4, <2>5
<1>8. CASE r.start > next
  <2> DEFINE new == Append(gaps, gap)
  <2>1. gap \in Ranged /\ gap.start = next /\ gap.end = r.start - 1
    <3>1. next \in Int /\ r.start - 1 \in Int
      BY <1>2, <1>3
    <3> HIDE DEF r
    <3> QED BY <3>1 DEF Ranged
  <2> HIDE DEF gap
  <2>2. gaps \in Seq(Ranged) /\ Canonical(gaps)
    BY DEF Partial
  <2>3. gaps # << >> => gaps[Len(gaps)].end + 1 < gap.start
    BY <2>1 DEF Partial
  <2>4. Canonical(new) /\ new \in Seq(Ranged) /\ Len(new) = Len(gaps) + 1 /\ new[Len(gaps) + 1] = gap
    BY <2>1, <2>2, <2>3, AppendCanonical
  <2>5. \A p \in Int : In(p, new) <=> (low <= p /\ p < r.end + 1 /\ ~InPart(p, cr, 1, n + 1))
    <3> TAKE p \in Int
    <3>1. In(p, new) <=> (In(p, gaps) \/ (next <= p /\ p <= r.start - 1))
      BY <2>1, <2>2, AppendIn
    <3>2. In(p, gaps) <=> (low <= p /\ p < next /\ ~InPart(p, cr, 1, n))
      BY DEF Partial
    <3>3. InPart(p, cr, 1, n) => p < next
      BY <1>7
    <3>4. InPart(p, cr, 1, n + 1) <=> (InPart(p, cr, 1, n) \/ (r.start <= p /\ p <= r.end))
      BY <1>6
    <3>5. r.start \in Int /\ r.end \in Int /\ next \in Int /\ low \in Int /\ p \in Int
      BY <1>2, <1>3
    <3>6. r.start <= r.end /\ low <= next /\ r.start > next
      BY <1>2, <1>5, <1>8
    <3> DEFINE s == r.start
               e == r.end
               inNew == In(p, new)
               inGaps == In(p, gaps)
               before == InPart(p, cr, 1, n)
               upTo == InPart(p, cr, 1, n + 1)
    <3> HIDE DEF s, e, inNew, inGaps, before, upTo
    <3>7. s \in Int /\ e \in Int /\ s <= e /\ low <= next /\ s > next
      BY <3>5, <3>6 DEF s, e
    <3>8. inNew <=> (inGaps \/ (next <= p /\ p <= s - 1))
      BY <3>1 DEF s, inNew, inGaps
    <3>9. /\ inGaps <=> (low <= p /\ p < next /\ ~before)
          /\ before => p < next
          /\ upTo <=> (before \/ (s <= p /\ p <= e))
      BY <3>2, <3>3, <3>4 DEF s, e, inGaps, before, upTo
    <3>10. inNew <=> (low <= p /\ p < e + 1 /\ ~upTo)
      BY <3>5, <3>7, <3>8, <3>9
    <3> QED BY <3>10 DEF e, inNew, upTo
  <2>6. Len(new) = n + 1 - (IF n + 1 > 0 /\ cr[1].start = low THEN 1 ELSE 0)
    <3>1. Len(gaps) = n - (IF n > 0 /\ cr[1].start = low THEN 1 ELSE 0)
      BY DEF Partial
    <3>2. n = 0 => cr[1].start # low
      BY <1>1, <1>3, <1>8
    <3> QED BY <1>1, <2>4, <3>1, <3>2
  <2>7. new[Len(new)].end + 1 < r.end + 1
    <3>1. new[Len(new)] = gap
      BY <2>4
    <3> QED BY <1>2, <2>1, <3>1
  <2>8. r.end + 1 = IF n + 1 = 0 THEN low ELSE cr[n+1].end + 1
    BY <1>1
  <2> QED BY <1>8, <2>4, <2>5, <2>6, <2>7, <2>8 DEF Partial, gap
<1>9. CASE ~(r.start > next)
  <2>1. n = 0 /\ next = low /\ r.start = low /\ r = cr[1]
    BY <1>1, <1>2, <1>3, <1>4, <1>9
  <2>2. Len(gaps) = 0 /\ gaps = << >>
    <3>1. Len(gaps) = 0 /\ gaps \in Seq(Ranged)
      BY <2>1 DEF Partial
    <3> QED BY <3>1
  <2>3. \A p \in Int : ~In(p, gaps)
    BY <2>2 DEF In, InPart
  <2>4. \A p \in Int : ~(low <= p /\ p < r.end + 1 /\ ~InPart(p, cr, 1, n + 1))
    <3> TAKE p \in Int
    <3>1. InPart(p, cr, 1, n + 1) <=> (InPart(p, cr, 1, n) \/ (r.start <= p /\ p <= r.end))
      BY <1>6
    <3> HIDE DEF r
    <3> QED BY <1>2, <2>1, <3>1
  <2>5. gaps \in Seq(Ranged) /\ Canonical(gaps)
    BY DEF Partial
  <2>6. Len(gaps) = n + 1 - (IF n + 1 > 0 /\ cr[1].start = low THEN 1 ELSE 0)
    BY <2>1, <2>2
  <2> QED BY <1>9, <2>1, <2>2, <2>3, <2>4, <2>5, <2>6 DEF Partial
<1> QED BY <1>8, <1>9

\* Behind the last range: what is up to the last code point.
LEMMA PartialRest ==
    ASSUME NEW cr \in Seq(Ranged), cr # << >>, NEW low \in Int, NEW top \in Int,
           NEW next, NEW gaps,
           Within(cr, low, top), Apart(cr, Len(cr)), Partial(gaps, cr, Len(cr), low, next)
    PROVE  LET all == IF next <= top THEN Append(gaps, [start |-> next, end |-> top])
                      ELSE gaps
           IN  /\ \A p \in Int : In(p, all) <=> (p \in low .. top /\ ~In(p, cr))
               /\ Len(all) = Len(cr) + 1 - (IF cr[1].start = low THEN 1 ELSE 0)
                                         - (IF cr[Len(cr)].end = top THEN 1 ELSE 0)
               /\ Canonical(all)
<1> DEFINE n == Len(cr)
           gap == [start |-> next, end |-> top]
           all == IF next <= top THEN Append(gaps, gap) ELSE gaps
<1>1. n \in Nat /\ n > 0 /\ n \in 1 .. Len(cr) /\ top \in Int
  OBVIOUS
<1>2. cr[n].end \in Int /\ next = cr[n].end + 1 /\ cr[n].end <= top
      /\ low <= cr[n].start /\ cr[n].start <= cr[n].end /\ cr[n].start \in Int
  BY <1>1, RangedAt DEF Partial, Within
<1>3. /\ gaps \in Seq(Ranged) /\ Canonical(gaps)
      /\ (gaps # << >> => gaps[Len(gaps)].end + 1 < next)
      /\ Len(gaps) = n - (IF cr[1].start = low THEN 1 ELSE 0)
  BY <1>1 DEF Partial
<1>4. \A p \in Int : In(p, gaps) <=> (low <= p /\ p < next /\ ~In(p, cr))
  BY DEF Partial, In
<1>5. \A p \in Int : In(p, cr) => p <= top
  <2> SUFFICES ASSUME NEW p \in Int, NEW k \in 1 .. n, cr[k].start <= p, p <= cr[k].end
               PROVE  p <= top
    BY DEF In, InPart
  <2>1. cr[k].end \in Int /\ cr[k].end <= top
    BY RangedAt DEF Within
  <2> QED BY <1>1, <2>1
<1>6. CASE next <= top
  <2>1. gap \in Ranged /\ gap.start = next /\ gap.end = top /\ all = Append(gaps, gap)
    BY <1>1, <1>2, <1>6 DEF Ranged
  <2> HIDE DEF gap, all
  <2>2. Canonical(all) /\ Len(all) = Len(gaps) + 1
    BY <1>3, <2>1, AppendCanonical
  <2>3. \A p \in Int : In(p, cr) => p < next
    <3> SUFFICES ASSUME NEW p \in Int, NEW k \in 1 .. n, cr[k].start <= p, p <= cr[k].end
                 PROVE  p < next
      BY DEF In, InPart
    <3>1. cr[k].end \in Int /\ k \in Nat /\ (k = n \/ k < n)
      BY <1>1, RangedAt
    <3>2. k < n => cr[k].end + 1 < cr[n].start
      BY <1>1 DEF Apart
    <3>3. CASE k = n
      BY <1>2, <3>1, <3>3
    <3>4. CASE k < n
      BY <1>2, <3>1, <3>2, <3>4
    <3> QED BY <3>1, <3>3, <3>4
  <2>5. \A p \in Int : In(p, all) <=> (p \in low .. top /\ ~In(p, cr))
    <3> TAKE p \in Int
    <3>1. In(p, all) <=> (In(p, gaps) \/ (next <= p /\ p <= top))
      BY <1>3, <2>1, AppendIn
    <3> QED BY <1>1, <1>2, <1>4, <1>5, <1>6, <2>3, <3>1
  <2>6. Len(all) = n + 1 - (IF cr[1].start = low THEN 1 ELSE 0)
                         - (IF cr[n].end = top THEN 1 ELSE 0)
    BY <1>1, <1>2, <1>3, <1>6, <2>2
  <2> QED BY <2>2, <2>5, <2>6 DEF all, gap
<1>7. CASE ~(next <= top)
  <2>1. cr[n].end = top /\ all = gaps
    BY <1>1, <1>2, <1>7
  <2>2. \A p \in Int : In(p, gaps) <=> (p \in low .. top /\ ~In(p, cr))
    BY <1>1, <1>2, <1>4, <2>1
  <2>3. Len(gaps) = n + 1 - (IF cr[1].start = low THEN 1 ELSE 0)
                          - (IF cr[n].end = top THEN 1 ELSE 0)
    BY <1>1, <1>3, <2>1
  <2> QED BY <1>3, <1>7, <2>1, <2>2, <2>3
<1> QED BY <1>6, <1>7

-----------------------------------------------------------------------------
(* Induction, about a set of numbers                                       *)

\* A set that has 0, and with every number the next one, has them all.  If n is
\* not in S, then the map to the next number takes the members below n to
\* members below n other than 0: a finite set into a smaller one.
LEMMA SetInduction ==
    ASSUME NEW S, 0 \in S, \A i \in Nat : i \in S => i + 1 \in S
    PROVE  \A n \in Nat : n \in S
<1> SUFFICES ASSUME NEW n \in Nat, n \notin S PROVE FALSE
  OBVIOUS
<1> DEFINE A == { i \in 0 .. n : i \in S }
           f == [i \in A |-> i + 1]
<1>1. IsFiniteSet(0 .. n)
  BY FS_Interval
<1>2. A \subseteq 0 .. n /\ 0 \in A
  OBVIOUS
<1>3. f \in [A -> A \ {0}]
  OBVIOUS
<1>4. \A i, j \in A : f[i] = f[j] => i = j
  OBVIOUS
<1> HIDE DEF f, A
<1>5. IsFiniteSet(A)
  BY <1>1, <1>2, FS_Subset
<1>6. /\ IsFiniteSet(A \ {0}) /\ Cardinality(A \ {0}) = Cardinality(A) - 1
      /\ Cardinality(A) \in Nat
  BY <1>2, <1>5, FS_RemoveElement, FS_CardinalityType
<1>7. Cardinality(A) > Cardinality(A \ {0})
  BY <1>6
<1>8. \E x, y \in A : x # y /\ f[x] = f[y]
  BY <1>3, <1>5, <1>6, <1>7, FS_PigeonHole
<1> QED BY <1>4, <1>8

\* The same up to a bound.
LEMMA BoundedInduction ==
    ASSUME NEW n \in Nat, NEW S, 0 \in S, \A i \in 0 .. n - 1 : i \in S => i + 1 \in S
    PROVE  \A i \in 0 .. n : i \in S
<1> DEFINE T == { i \in Nat : i <= n => i \in S }
<1>1. 0 \in T
  OBVIOUS
<1>2. ASSUME NEW i \in Nat, i \in T PROVE i + 1 \in T
  BY <1>2
<1> HIDE DEF T
<1>3. \A i \in Nat : i \in T
  BY <1>1, <1>2, SetInduction
<1> QED BY <1>3 DEF T

-----------------------------------------------------------------------------
(* The loops                                                               *)

\* The states of a loop over n things.
IsLoop(f, n, first, step) == f[0] = first /\ \A k \in 1 .. n : f[k] = step[<< k, f[k-1] >>]

\* A loop over n things that goes from one member of S to the next has its states:
\* there is a function that fits its definition.
LEMMA LoopExists ==
    ASSUME NEW n \in Nat, NEW S, NEW first \in S, NEW step \in [(1 .. n) \X S -> S]
    PROVE  \E f \in [0 .. n -> S] : IsLoop(f, n, first, step)
<1> DEFINE Fits(m, f) == /\ f \in [0 .. m -> S] /\ f[0] = first
                         /\ \A k \in 1 .. m : f[k] = step[<< k, f[k-1] >>]
           T == {m \in 0 .. n : \E f : Fits(m, f)}
<1>1. 0 \in T
  <2> DEFINE f == [k \in 0 .. 0 |-> first]
  <2>1. 0 \in 0 .. n /\ 0 \in 0 .. 0 /\ 1 .. 0 = {}
    OBVIOUS
  <2>2. f \in [0 .. 0 -> S] /\ f[0] = first
    BY <2>1
  <2> HIDE DEF f
  <2>3. Fits(0, f)
    BY <2>1, <2>2
  <2> QED BY <2>1, <2>3
<1>2. ASSUME NEW m \in 0 .. n - 1, m \in T PROVE m + 1 \in T
  <2>1. PICK f : Fits(m, f)
    BY <1>2
  <2> DEFINE g == [k \in 0 .. m + 1 |-> IF k = m + 1 THEN step[<< m + 1, f[m] >>] ELSE f[k]]
  <2>2. m \in Nat /\ m + 1 \in 0 .. n /\ m + 1 \in 1 .. n /\ m \in 0 .. m
    OBVIOUS
  <2>3. step[<< m + 1, f[m] >>] \in S
    BY <2>1, <2>2
  <2>4. /\ \A k \in 0 .. m : k \in 0 .. m + 1 /\ k # m + 1
        /\ \A k \in 0 .. m + 1 : k # m + 1 => k \in 0 .. m
        /\ m + 1 \in 0 .. m + 1 /\ 0 \in 0 .. m
        /\ \A k \in 1 .. m + 1 : k # m + 1 => k \in 0 .. m /\ k - 1 \in 0 .. m /\ k \in 1 .. m
    BY <2>2
  <2>5. g[m + 1] = step[<< m + 1, f[m] >>] /\ \A k \in 0 .. m : g[k] = f[k]
    BY <2>4
  <2>6. g \in [0 .. m + 1 -> S]
    BY <2>1, <2>3, <2>4
  <2> HIDE DEF g
  <2>7. ASSUME NEW k \in 1 .. m + 1 PROVE g[k] = step[<< k, g[k-1] >>]
    <3>1. CASE k = m + 1
      <4>1. k - 1 = m
        BY <2>2, <3>1
      <4> QED BY <2>2, <2>5, <3>1, <4>1
    <3>2. CASE k # m + 1
      BY <2>1, <2>4, <2>5, <3>2
    <3> QED BY <3>1, <3>2
  <2>8. Fits(m + 1, g)
    BY <2>1, <2>4, <2>5, <2>6, <2>7
  <2> QED BY <2>2, <2>8
<1> HIDE DEF T
<1>3. n \in T
  BY <1>1, <1>2, BoundedInduction
<1> QED BY <1>3 DEF T, IsLoop

-----------------------------------------------------------------------------
(* Sums and products                                                       *)

\* SumTo has the sums it is defined by.
LEMMA SumToFacts ==
    ASSUME NEW v \in Seq(Int)
    PROVE  /\ SumTo(v) \in [0 .. Len(v) -> Int]
           /\ SumTo(v)[0] = 0
           /\ \A k \in 1 .. Len(v) : SumTo(v)[k] = SumTo(v)[k-1] + v[k]
<1> DEFINE n == Len(v)
           Fits(f) == f = [k \in 0 .. n |-> IF k = 0 THEN 0 ELSE f[k-1] + v[k]]
           sum == CHOOSE f : Fits(f)
<1>1. n \in Nat /\ \A k \in 1 .. n : v[k] \in Int
  OBVIOUS
<1>2. SumTo(v) = sum
  BY DEF SumTo
<1> HIDE DEF n
<1>3. \E f : Fits(f) /\ f \in [0 .. n -> Int]
  <2> DEFINE step == [w \in (1 .. n) \X Int |-> w[2] + v[w[1]]]
             first == 0
             S == Int
  <2>1. step \in [(1 .. n) \X S -> S] /\ first \in S
    BY <1>1
  <2>2. \A k \in 1 .. n, x \in S : step[<< k, x >>] = x + v[k]
    OBVIOUS
  <2> HIDE DEF step, S, first
  <2>3. PICK f \in [0 .. n -> S] : IsLoop(f, n, first, step)
    BY <1>1, <2>1, LoopExists
  <2>4. ASSUME NEW k \in 1 .. n PROVE f[k] = f[k-1] + v[k]
    <3>1. k - 1 \in 0 .. n
      BY <1>1
    <3>2. f[k-1] \in S
      BY <3>1
    <3> QED BY <2>2, <2>3, <3>2 DEF IsLoop
  <2>5. \A k \in 0 .. n : f[k] = IF k = 0 THEN first ELSE f[k-1] + v[k]
    <3> TAKE k \in 0 .. n
    <3>1. CASE k = 0
      BY <2>3, <3>1 DEF IsLoop
    <3>2. CASE k # 0
      <4>1. k \in 1 .. n
        BY <1>1, <3>2
      <4> QED BY <2>4, <3>2, <4>1
    <3> QED BY <3>1, <3>2
  <2>6. f = [k \in 0 .. n |-> IF k = 0 THEN first ELSE f[k-1] + v[k]]
    BY <2>3, <2>5
  <2> QED BY <2>6 DEF first, S
<1>4. Fits(sum)
  BY <1>3
<1> HIDE DEF sum
<1>5. sum[0] = 0 /\ \A k \in 1 .. n : sum[k] = sum[k-1] + v[k]
  <2>1. \A k \in 0 .. n : sum[k] = IF k = 0 THEN 0 ELSE sum[k-1] + v[k]
    BY <1>4
  <2>2. 0 \in 0 .. n /\ \A k \in 1 .. n : k \in 0 .. n /\ k # 0
    BY <1>1
  <2> QED BY <2>1, <2>2
<1> DEFINE T == {k \in 0 .. n : sum[k] \in Int}
<1>6. 0 \in T
  BY <1>1, <1>5
<1>7. ASSUME NEW k \in 0 .. n - 1, k \in T PROVE k + 1 \in T
  <2>1. k + 1 \in 1 .. n /\ k + 1 \in 0 .. n /\ (k + 1) - 1 = k
    BY <1>1
  <2>2. sum[k + 1] = sum[k] + v[k + 1]
    BY <1>5, <2>1
  <2> QED BY <1>1, <1>7, <2>1, <2>2
<1> HIDE DEF T
<1>8. \A k \in 0 .. n : k \in T
  BY <1>1, <1>6, <1>7, BoundedInduction
<1>9. sum = [k \in 0 .. n |-> sum[k]]
  <2>1. DOMAIN sum = 0 .. n
    BY <1>4
  <2> QED BY <1>4, <2>1
<1>10. sum \in [0 .. n -> Int]
  BY <1>8, <1>9 DEF T
<1> QED BY <1>2, <1>5, <1>10 DEF n

\* The sums of what two sequences begin with alike.
LEMMA SumToSame ==
    ASSUME NEW v \in Seq(Int), NEW w \in Seq(Int), NEW m \in Nat, m <= Len(v), m <= Len(w),
           \A k \in 1 .. m : v[k] = w[k]
    PROVE  \A k \in 0 .. m : SumTo(v)[k] = SumTo(w)[k]
<1> DEFINE a == SumTo(v)
           b == SumTo(w)
           T == {k \in 0 .. m : a[k] = b[k]}
<1>1. Len(v) \in Nat /\ Len(w) \in Nat
  OBVIOUS
<1>2. /\ a[0] = 0 /\ \A k \in 1 .. Len(v) : a[k] = a[k-1] + v[k]
      /\ b[0] = 0 /\ \A k \in 1 .. Len(w) : b[k] = b[k-1] + w[k]
  BY SumToFacts
<1> HIDE DEF a, b
<1>3. 0 \in T
  BY <1>2
<1>4. ASSUME NEW k \in 0 .. m - 1, k \in T PROVE k + 1 \in T
  <2>1. /\ k + 1 \in 1 .. m /\ k + 1 \in 1 .. Len(v) /\ k + 1 \in 1 .. Len(w) /\ k + 1 \in 0 .. m
        /\ (k + 1) - 1 = k
    BY <1>1
  <2>2. a[k + 1] = a[k] + v[k + 1] /\ b[k + 1] = b[k] + w[k + 1]
    BY <1>2, <2>1
  <2>3. a[k] = b[k] /\ v[k + 1] = w[k + 1]
    BY <1>4, <2>1
  <2> QED BY <2>1, <2>2, <2>3
<1> HIDE DEF T
<1>5. \A k \in 0 .. m : k \in T
  BY <1>3, <1>4, BoundedInduction
<1> QED BY <1>5 DEF T, a, b

\* The sum of one number more.
LEMMA SumToAppend ==
    ASSUME NEW v \in Seq(Int), NEW w \in Seq(Int), Len(w) = Len(v) + 1,
           \A k \in 1 .. Len(v) : w[k] = v[k]
    PROVE  SumTo(w)[Len(w)] = SumTo(v)[Len(v)] + w[Len(w)]
<1> DEFINE n == Len(v)
<1>1. n \in Nat /\ n <= Len(v) /\ n <= Len(w) /\ n \in 0 .. n /\ n + 1 \in 1 .. Len(w) /\ (n + 1) - 1 = n
  OBVIOUS
<1>2. SumTo(v)[n] = SumTo(w)[n]
  BY <1>1, SumToSame
<1>3. SumTo(w)[n + 1] = SumTo(w)[(n + 1) - 1] + w[n + 1]
  BY <1>1, SumToFacts
<1> QED BY <1>1, <1>2, <1>3

-----------------------------------------------------------------------------
(* More ranges, between the same bounds                                    *)

LEMMA WithinAppend ==
    ASSUME NEW cr \in Seq(Ranged), NEW r \in Ranged, NEW top \in Int, Within(cr, 0, top),
           0 <= r.start, r.start <= r.end, r.end <= top
    PROVE  Within(Append(cr, r), 0, top)
<1> DEFINE new == Append(cr, r)
           n == Len(cr)
<1>1. n \in Nat /\ Len(new) = n + 1 /\ new[n + 1] = r /\ \A k \in 1 .. n : new[k] = cr[k]
  OBVIOUS
<1> HIDE DEF new
<1>2. ASSUME NEW k \in 1 .. n + 1
      PROVE  0 <= new[k].start /\ new[k].start <= new[k].end /\ new[k].end <= top
  <2>1. CASE k = n + 1
    BY <1>1, <2>1
  <2>2. CASE k # n + 1
    <3>1. k \in 1 .. n
      BY <1>1, <2>2
    <3> QED BY <1>1, <3>1 DEF Within
  <2> QED BY <2>1, <2>2
<1>3. Within(new, 0, top)
  BY <1>1, <1>2 DEF Within
<1> QED BY <1>3 DEF new

\* A range behind the last of ranges that are apart.
LEMMA AppendApart ==
    ASSUME NEW cr \in Seq(Ranged), NEW r \in Ranged, NEW top \in Int, Within(cr, 0, top),
           Apart(cr, Len(cr)), cr # << >> => cr[Len(cr)].end + 1 < r.start,
           0 <= r.start, r.start <= r.end, r.end <= top
    PROVE  LET new == Append(cr, r)
           IN  /\ new \in Seq(Ranged) /\ Len(new) = Len(cr) + 1 /\ new[Len(new)] = r
               /\ Within(new, 0, top) /\ Apart(new, Len(new))
<1> DEFINE new == Append(cr, r)
           n == Len(cr)
<1>1. /\ n \in Nat /\ Len(new) = n + 1 /\ new[n + 1] = r /\ \A k \in 1 .. n : new[k] = cr[k]
      /\ new \in Seq(Ranged) /\ (n > 0 => cr # << >>)
  OBVIOUS
<1>2. \A k \in 1 .. n : cr[k].start \in Int /\ cr[k].end \in Int
  BY RangedAt
<1>3. r.start \in Int /\ r.end \in Int
  BY DEF Ranged
<1> HIDE DEF new
<1>4. ASSUME NEW k \in 1 .. n + 1 PROVE k = n + 1 \/ k \in 1 .. n
  BY <1>1
<1>5. Within(new, 0, top)
  BY WithinAppend DEF new
<1>6. Apart(new, n + 1)
  <2> SUFFICES ASSUME NEW j \in 1 .. n + 1, NEW k \in 1 .. n + 1, j < k
               PROVE  new[j].end + 1 < new[k].start
    BY DEF Apart
  <2>1. j \in 1 .. n /\ new[j] = cr[j] /\ n \in 1 .. n /\ cr # << >> /\ (j = n \/ j < n)
    BY <1>1
  <2>2. CASE k \in 1 .. n
    BY <1>1, <2>1, <2>2 DEF Apart
  <2>3. CASE k = n + 1
    <3>1. cr[n].end + 1 < r.start
      BY <2>1
    <3>2. CASE j = n
      BY <1>1, <2>1, <2>3, <3>1, <3>2
    <3>3. CASE j < n
      <4>1. cr[j].end + 1 < cr[n].start /\ cr[n].start <= cr[n].end
        BY <2>1, <3>3 DEF Apart, Within
      <4>2. cr[j].end \in Int /\ cr[n].start \in Int /\ cr[n].end \in Int
        BY <1>2, <2>1
      <4>3. cr[j].end + 1 < r.start
        BY <1>3, <3>1, <4>1, <4>2
      <4> QED BY <1>1, <2>1, <2>3, <4>3
    <3> QED BY <2>1, <3>2, <3>3
  <2> QED BY <1>4, <2>2, <2>3
<1> QED BY <1>1, <1>5, <1>6 DEF new

-----------------------------------------------------------------------------
(* Normalisation                                                           *)

\* The sorted ranges s, and what the loop made of the first k of them.
Ascends(s) == \A j, k \in 1 .. Len(s) : j < k => ~Less(s[k], s[j])
Final(x, s, k, top) ==
    /\ x \in Seq(Ranged) /\ Within(x, 0, top) /\ Apart(x, Len(x))
    /\ \A p \in Int : In(p, x) <=> InPart(p, s, 1, k)
    /\ IF k = 0 THEN x = << >>
       ELSE x # << >> /\ \A j \in k + 1 .. Len(s) : ~Less(s[j], x[Len(x)])

\* The last of the final ranges takes one more.
LEMMA AbsorbedInto ==
    ASSUME NEW s \in Seq(Ranged), NEW top \in Int, Within(s, 0, top), Ascends(s),
           NEW k \in 0 .. Len(s) - 1, NEW x, Final(x, s, k, top),
           x # << >>, Overlaps(x[Len(x)], s[k+1])
    PROVE  Final([x EXCEPT ![Len(x)] = Extended(x[Len(x)], s[k+1])], s, k + 1, top)
<1> DEFINE n == Len(x)
           r == s[k+1]
           a == x[n]
           e == Extended(a, r)
           new == [x EXCEPT ![n] = e]
<1>1. /\ x \in Seq(Ranged) /\ n \in Nat /\ n \in 1 .. n /\ k \in Nat /\ Len(s) \in Nat
      /\ k + 1 \in 1 .. Len(s)
  BY DEF Final
<1>2. a \in Ranged /\ r \in Ranged
  BY <1>1
<1>3. /\ a.start \in Int /\ a.end \in Int /\ r.start \in Int /\ r.end \in Int
      /\ 0 <= a.start /\ a.start <= a.end /\ a.end <= top
      /\ 0 <= r.start /\ r.start <= r.end /\ r.end <= top
  BY <1>1, <1>2 DEF Ranged, Final, Within
<1>4. ~Less(r, a)
  <2>1. k # 0
    BY DEF Final
  <2>2. k + 1 \in k + 1 .. Len(s)
    BY <1>1
  <2> QED BY <2>1, <2>2 DEF Final
<1>5. /\ e \in Ranged /\ e.start = a.start /\ e.end \in {a.end, r.end}
      /\ \A p \in Int : (e.start <= p /\ p <= e.end)
                          <=> (a.start <= p /\ p <= a.end) \/ (r.start <= p /\ p <= r.end)
      /\ \A d \in Ranged : ~Less(d, a) /\ ~Less(d, r) => ~Less(d, e)
  BY <1>2, <1>4, ExtendedCovers
<1> HIDE DEF e
<1>6. 0 <= e.start /\ e.start <= e.end /\ e.end <= top
  <2> HIDE DEF a, r
  <2> QED BY <1>3, <1>5
<1>7. /\ new \in Seq(Ranged) /\ Len(new) = n /\ new[n] = e
      /\ \A j \in 1 .. n : j # n => new[j] = x[j]
  BY <1>1, <1>5
<1> HIDE DEF new
<1>8. Within(new, 0, top)
  BY <1>6, <1>7 DEF Within, Final
<1>9. Apart(new, n)
  <2> SUFFICES ASSUME NEW j \in 1 .. n, NEW i \in 1 .. n, j < i PROVE new[j].end + 1 < new[i].start
    BY DEF Apart
  <2>1. j # n /\ new[j] = x[j] /\ new[i].start = x[i].start
    BY <1>1, <1>5, <1>7
  <2>2. x[j].end + 1 < x[i].start
    BY DEF Final, Apart
  <2> QED BY <2>1, <2>2
<1>10. ASSUME NEW p \in Int PROVE In(p, new) <=> InPart(p, s, 1, k + 1)
  <2>1. 1 .. n = (1 .. n - 1) \cup {n} /\ 1 .. k + 1 = (1 .. k) \cup {k + 1}
    BY <1>1
  <2>2. \A j \in 1 .. n - 1 : new[j] = x[j]
    BY <1>1, <1>7
  <2>3. InPart(p, new, 1, n) <=> InPart(p, x, 1, n - 1) \/ (e.start <= p /\ p <= e.end)
    BY <1>7, <2>1, <2>2 DEF InPart
  <2>4. InPart(p, x, 1, n) <=> InPart(p, x, 1, n - 1) \/ (a.start <= p /\ p <= a.end)
    BY <2>1 DEF InPart
  <2>5. InPart(p, s, 1, k + 1) <=> InPart(p, s, 1, k) \/ (r.start <= p /\ p <= r.end)
    BY <2>1 DEF InPart
  <2>6. InPart(p, x, 1, n) <=> InPart(p, s, 1, k)
    BY DEF Final, In
  <2>7. In(p, new) <=> InPart(p, new, 1, n)
    BY <1>7 DEF In
  <2> QED BY <1>5, <2>3, <2>4, <2>5, <2>6, <2>7
<1>11. ASSUME NEW j \in k + 2 .. Len(s) PROVE ~Less(s[j], e)
  <2>1. j \in 1 .. Len(s) /\ j \in k + 1 .. Len(s) /\ k + 1 < j
    BY <1>1
  <2>2. s[j] \in Ranged /\ ~Less(s[j], r)
    BY <1>1, <2>1 DEF Ascends
  <2>3. ~Less(s[j], a)
    BY <2>1 DEF Final
  <2> QED BY <1>5, <2>2, <2>3
<1>12. k + 1 # 0 /\ k + 1 + 1 = k + 2 /\ new # << >>
  BY <1>1, <1>7
<1>13. Final(new, s, k + 1, top)
  BY <1>7, <1>8, <1>9, <1>10, <1>11, <1>12 DEF Final
<1> QED BY <1>13 DEF new, e

\* Or the one more is kept, behind them.
LEMMA AbsorbedBehind ==
    ASSUME NEW s \in Seq(Ranged), NEW top \in Int, Within(s, 0, top), Ascends(s),
           NEW k \in 0 .. Len(s) - 1, NEW x, Final(x, s, k, top),
           x # << >> => ~Overlaps(x[Len(x)], s[k+1])
    PROVE  Final(Append(x, s[k+1]), s, k + 1, top)
<1> DEFINE n == Len(x)
           r == s[k+1]
           new == Append(x, r)
<1>1. x \in Seq(Ranged) /\ n \in Nat /\ k \in Nat /\ Len(s) \in Nat /\ k + 1 \in 1 .. Len(s)
  BY DEF Final
<1>2. /\ r \in Ranged /\ r.start \in Int /\ r.end \in Int
      /\ 0 <= r.start /\ r.start <= r.end /\ r.end <= top
  BY <1>1, RangedAt DEF Within
<1>3. x # << >> => x[n].end + 1 < r.start
  <2> SUFFICES ASSUME x # << >> PROVE x[n].end + 1 < r.start
    OBVIOUS
  <2>1. n \in 1 .. n
    BY <1>1
  <2>2. x[n].end \in Int
    BY <1>1, <2>1, RangedAt
  <2> QED BY <1>2, <2>2 DEF Overlaps
<1> HIDE DEF r
<1>4. /\ new \in Seq(Ranged) /\ Len(new) = n + 1 /\ new[Len(new)] = r
      /\ Within(new, 0, top) /\ Apart(new, Len(new))
  BY <1>1, <1>2, <1>3, AppendApart DEF Final
<1>5. ASSUME NEW p \in Int PROVE In(p, new) <=> InPart(p, s, 1, k + 1)
  <2>1. In(p, new) <=> In(p, x) \/ (r.start <= p /\ p <= r.end)
    BY <1>1, <1>2, AppendIn
  <2>2. 1 .. k + 1 = (1 .. k) \cup {k + 1}
    BY <1>1
  <2>3. InPart(p, s, 1, k + 1) <=> InPart(p, s, 1, k) \/ (r.start <= p /\ p <= r.end)
    BY <2>2 DEF InPart, r
  <2> QED BY <2>1, <2>3 DEF Final
<1> HIDE DEF new
<1>6. ASSUME NEW j \in k + 2 .. Len(s) PROVE ~Less(s[j], new[Len(new)])
  <2>1. j \in 1 .. Len(s) /\ k + 1 < j
    BY <1>1
  <2> QED BY <1>1, <1>4, <2>1 DEF Ascends, r
<1>7. k + 1 # 0 /\ k + 1 + 1 = k + 2 /\ new # << >>
  BY <1>1, <1>4
<1>8. Final(new, s, k + 1, top)
  BY <1>4, <1>5, <1>6, <1>7 DEF Final
<1> QED BY <1>8 DEF new, r

\* The ranges of a class, in order, are those of the class.
LEMMA SortedWithin ==
    ASSUME NEW cr \in Seq(Ranged), NEW top \in Int, Within(cr, 0, top)
    PROVE  /\ Sorted(cr) \in Seq(Ranged) /\ Len(Sorted(cr)) = Len(cr)
           /\ Within(Sorted(cr), 0, top) /\ Ascends(Sorted(cr))
           /\ \A p \in Int : In(p, Sorted(cr)) <=> In(p, cr)
<1> DEFINE s == Sorted(cr)
           n == Len(cr)
<1>1. /\ s \in Seq(Ranged) /\ Len(s) = n
      /\ \A k \in 1 .. n : \E b \in 1 .. n : s[k] = cr[b]
      /\ \A b \in 1 .. n : \E k \in 1 .. n : s[k] = cr[b]
      /\ \A j, k \in 1 .. n : j < k => ~Less(s[k], s[j])
  BY SortedFacts
<1> HIDE DEF s
<1>2. Within(s, 0, top)
  BY <1>1 DEF Within
<1>3. Ascends(s)
  BY <1>1 DEF Ascends
<1>4. \A p \in Int : In(p, s) <=> In(p, cr)
  BY <1>1 DEF In, InPart
<1> QED BY <1>1, <1>2, <1>3, <1>4 DEF s

\* marpatcl_scr_norm: the same code points, in order, with gaps.
LEMMA NormalizedFacts ==
    ASSUME NEW cr \in Seq(Ranged), NEW top \in Int, Within(cr, 0, top)
    PROVE  /\ Normalized(cr) \in Seq(Ranged) /\ Within(Normalized(cr), 0, top)
           /\ Apart(Normalized(cr), Len(Normalized(cr)))
           /\ \A p \in Int : In(p, Normalized(cr)) <=> In(p, cr)
<1> DEFINE s == Sorted(cr)
           n == Len(cr)
           Fits(f) == f = [k \in 0 .. n |-> IF k = 0 THEN << >> ELSE Absorbed(f[k-1], s[k])]
           final == CHOOSE f : Fits(f)
<1>1. /\ s \in Seq(Ranged) /\ Len(s) = n /\ n \in Nat /\ Within(s, 0, top) /\ Ascends(s)
      /\ \A p \in Int : In(p, s) <=> In(p, cr)
  BY SortedWithin
<1>2. Normalized(cr) = final[n]
  BY DEF Normalized
<1> HIDE DEF s, n
<1>3. ASSUME NEW x \in Seq(Ranged), NEW k \in 1 .. n PROVE Absorbed(x, s[k]) \in Seq(Ranged)
  <2>1. s[k] \in Ranged
    BY <1>1
  <2>2. CASE x # << >> /\ Overlaps(Last(x), s[k])
    <3>1. Len(x) \in 1 .. Len(x) /\ x[Len(x)] \in Ranged
      BY <2>2
    <3>2. Extended(x[Len(x)], s[k]) \in Ranged
      BY <2>1, <3>1 DEF Extended, Ranged
    <3>3. Absorbed(x, s[k]) = [x EXCEPT ![Len(x)] = Extended(x[Len(x)], s[k])]
      BY <2>2 DEF Absorbed
    <3> QED BY <3>1, <3>2, <3>3
  <2>3. CASE ~(x # << >> /\ Overlaps(Last(x), s[k]))
    BY <2>1, <2>3 DEF Absorbed
  <2> QED BY <2>2, <2>3
<1>4. \E f : Fits(f)
  <2> DEFINE step == [w \in (1 .. n) \X Seq(Ranged) |-> Absorbed(w[2], s[w[1]])]
             S == Seq(Ranged)
             first == << >>
  <2>1. step \in [(1 .. n) \X S -> S] /\ first \in S
    BY <1>3
  <2>2. \A k \in 1 .. n, x \in S : step[<< k, x >>] = Absorbed(x, s[k])
    OBVIOUS
  <2> HIDE DEF step, S, first
  <2>3. PICK f \in [0 .. n -> S] : IsLoop(f, n, first, step)
    BY <1>1, <2>1, LoopExists
  <2>4. ASSUME NEW k \in 1 .. n PROVE f[k] = Absorbed(f[k-1], s[k])
    <3>1. k - 1 \in 0 .. n
      BY <1>1
    <3>2. f[k-1] \in S
      BY <3>1
    <3> QED BY <2>2, <2>3, <3>2 DEF IsLoop
  <2>5. \A k \in 0 .. n : f[k] = IF k = 0 THEN first ELSE Absorbed(f[k-1], s[k])
    <3> TAKE k \in 0 .. n
    <3>1. CASE k = 0
      BY <2>3, <3>1 DEF IsLoop
    <3>2. CASE k # 0
      <4>1. k \in 1 .. n
        BY <1>1, <3>2
      <4> QED BY <2>4, <3>2, <4>1
    <3> QED BY <3>1, <3>2
  <2>6. f = [k \in 0 .. n |-> IF k = 0 THEN first ELSE Absorbed(f[k-1], s[k])]
    BY <2>3, <2>5
  <2> QED BY <2>6 DEF first
<1>5. Fits(final)
  BY <1>4
<1> HIDE DEF final
<1>6. 0 \in 0 .. n /\ n \in 0 .. n /\ \A k \in 0 .. n - 1 :
        k \in 0 .. n /\ k + 1 \in 0 .. n /\ k + 1 # 0 /\ (k + 1) - 1 = k /\ k + 1 \in 1 .. n
  BY <1>1
<1>7. final[0] = << >> /\ \A k \in 0 .. n - 1 : final[k+1] = Absorbed(final[k], s[k+1])
  <2>1. \A k \in 0 .. n : final[k] = IF k = 0 THEN << >> ELSE Absorbed(final[k-1], s[k])
    BY <1>5
  <2> QED BY <1>6, <2>1
<1> HIDE DEF Fits
<1> DEFINE T == {k \in 0 .. n : Final(final[k], s, k, top)}
<1>8. 0 \in T
  <2>1. Final(<< >>, s, 0, top)
    BY <1>1 DEF Final, Within, Apart, In, InPart
  <2> QED BY <1>6, <1>7, <2>1
<1>9. ASSUME NEW k \in 0 .. n - 1, k \in T PROVE k + 1 \in T
  <2> DEFINE x == final[k]
  <2>1. Final(x, s, k, top) /\ k \in 0 .. Len(s) - 1
    BY <1>1, <1>9
  <2>2. final[k+1] = Absorbed(x, s[k+1])
    BY <1>7
  <2> HIDE DEF x
  <2>3. CASE x # << >> /\ Overlaps(Last(x), s[k+1])
    <3>1. Absorbed(x, s[k+1]) = [x EXCEPT ![Len(x)] = Extended(x[Len(x)], s[k+1])]
      BY <2>3 DEF Absorbed, Last
    <3>2. Final([x EXCEPT ![Len(x)] = Extended(x[Len(x)], s[k+1])], s, k + 1, top)
      BY <1>1, <2>1, <2>3, AbsorbedInto DEF Last
    <3> QED BY <1>6, <2>2, <3>1, <3>2
  <2>4. CASE ~(x # << >> /\ Overlaps(Last(x), s[k+1]))
    <3>1. Absorbed(x, s[k+1]) = Append(x, s[k+1])
      BY <2>4 DEF Absorbed
    <3>2. Final(Append(x, s[k+1]), s, k + 1, top)
      BY <1>1, <2>1, <2>4, AbsorbedBehind DEF Last
    <3> QED BY <1>6, <2>2, <3>1, <3>2
  <2> QED BY <2>3, <2>4
<1> HIDE DEF T
<1>10. n \in T
  BY <1>1, <1>6, <1>8, <1>9, BoundedInduction
<1>11. Final(final[n], s, n, top)
  BY <1>10 DEF T
<1>12. \A p \in Int : In(p, final[n]) <=> In(p, s)
  BY <1>1, <1>11 DEF Final, In
<1> QED BY <1>1, <1>2, <1>11, <1>12 DEF Final

-----------------------------------------------------------------------------
(* The complement                                                          *)

\* Ranges that each have a gap behind them are apart.
LEMMA CanonicalApart ==
    ASSUME NEW cr \in Seq(Ranged), NEW top \in Int, Within(cr, 0, top), Canonical(cr)
    PROVE  Apart(cr, Len(cr))
<1> DEFINE n == Len(cr)
           T == {m \in 0 .. n : Apart(cr, m)}
<1>1. n \in Nat /\ \A k \in 1 .. n : /\ cr[k].start \in Int /\ cr[k].end \in Int
                                     /\ cr[k].start <= cr[k].end
  BY RangedAt DEF Within
<1>2. 0 \in T
  BY <1>1 DEF Apart
<1>3. ASSUME NEW m \in 0 .. n - 1, m \in T PROVE m + 1 \in T
  <2>1. Apart(cr, m) /\ m + 1 \in 0 .. n /\ m \in Nat /\ m + 1 \in 1 .. n
    BY <1>1, <1>3
  <2> SUFFICES ASSUME NEW j \in 1 .. m + 1, NEW k \in 1 .. m + 1, j < k
               PROVE  cr[j].end + 1 < cr[k].start
    BY <2>1 DEF Apart
  <2>2. j \in 1 .. m /\ j \in 1 .. n /\ m \in 1 .. m /\ m \in 1 .. n /\ m \in 1 .. n - 1
        /\ (k = m + 1 \/ k \in 1 .. m)
    BY <1>1, <2>1
  <2>3. cr[m].end + 1 < cr[m+1].start
    BY <2>2 DEF Canonical
  <2>4. CASE k \in 1 .. m
    BY <2>1, <2>2, <2>4 DEF Apart
  <2>5. CASE k = m + 1 /\ j = m
    BY <2>3, <2>5
  <2>6. CASE k = m + 1 /\ j # m
    <3>1. j < m
      BY <2>1, <2>2, <2>6
    <3>2. cr[j].end + 1 < cr[m].start
      BY <2>1, <2>2, <3>1 DEF Apart
    <3>3. cr[j].end \in Int /\ cr[m].start \in Int /\ cr[m].end \in Int /\ cr[m+1].start \in Int
          /\ cr[m].start <= cr[m].end
      BY <1>1, <2>1, <2>2
    <3> DEFINE a == cr[j].end
               b == cr[m].start
               c == cr[m].end
               d == cr[m+1].start
    <3>4. a + 1 < b /\ b <= c /\ c + 1 < d /\ a \in Int /\ b \in Int /\ c \in Int /\ d \in Int
      BY <2>3, <3>2, <3>3
    <3> HIDE DEF a, b, c, d
    <3>5. a + 1 < d
      BY <3>4
    <3> QED BY <2>6, <3>5 DEF a, d
  <2> QED BY <2>2, <2>4, <2>5, <2>6
<1>4. n \in 0 .. n
  BY <1>1
<1> HIDE DEF T, n
<1>5. n \in T
  BY <1>1, <1>2, <1>3, <1>4, BoundedInduction
<1> QED BY <1>5 DEF T, n

\* What the loop has for the first n ranges is in the planes of the code points.
Skips(g, cr, n, top) ==
    /\ Partial(g.ranges, cr, n, 0, g.cmin)
    /\ Within(g.ranges, 0, top)
    /\ g.cmin \in Nat

LEMMA SkippedNext ==
    ASSUME NEW cr \in Seq(Ranged), NEW top \in Int, Within(cr, 0, top), Apart(cr, Len(cr)),
           NEW n \in 0 .. Len(cr) - 1, NEW g, Skips(g, cr, n, top)
    PROVE  Skips(Skipped(g, cr[n+1]), cr, n + 1, top)
<1> DEFINE r == cr[n+1]
           next == g.cmin
           gap == [start |-> next, end |-> r.start - 1]
           gaps == IF r.start > next THEN Append(g.ranges, gap) ELSE g.ranges
<1>1. n + 1 \in 1 .. Len(cr) /\ 0 \in Int
  OBVIOUS
<1>2. /\ r.start \in Int /\ r.end \in Int
      /\ 0 <= r.start /\ r.start <= r.end /\ r.end <= top
  BY <1>1, RangedAt DEF Within
<1>3. next \in Nat /\ g.ranges \in Seq(Ranged) /\ Within(g.ranges, 0, top)
  BY DEF Skips, Partial
<1>4. PICK low \in Int : low = 0
  OBVIOUS
<1>5. Partial(g.ranges, cr, n, low, next) /\ Within(cr, low, top)
  BY <1>4 DEF Skips
<1>6. Partial(gaps, cr, n + 1, low, r.end + 1)
  BY <1>5, PartialNext
<1>7. Within(gaps, 0, top)
  <2>1. CASE r.start > next
    <3> HIDE DEF r, next
    <3>1. gap \in Ranged /\ gap.start = next /\ gap.end = r.start - 1
      BY <1>2, <1>3 DEF Ranged
    <3> HIDE DEF gap
    <3>2. 0 <= gap.start /\ gap.start <= gap.end /\ gap.end <= top
      BY <1>2, <1>3, <2>1, <3>1
    <3> QED BY <1>3, <2>1, <3>1, <3>2, WithinAppend
  <2>2. CASE ~(r.start > next)
    BY <1>3, <2>2
  <2> QED BY <2>1, <2>2
<1>8. r.end + 1 \in Nat
  BY <1>2
<1>9. Skipped(g, r) = [ranges |-> gaps, cmin |-> r.end + 1]
  BY DEF Skipped
<1> HIDE DEF gaps, r
<1>10. Skips([ranges |-> gaps, cmin |-> r.end + 1], cr, n + 1, top)
  BY <1>4, <1>6, <1>7, <1>8 DEF Skips
<1> QED BY <1>9, <1>10 DEF r

\* marpatcl_scr_complement: what the class has not, in order, with gaps.
LEMMA ComplementFacts ==
    ASSUME NEW cr \in Seq(Ranged), NEW top \in Nat, Within(cr, 0, top), Apart(cr, Len(cr))
    PROVE  /\ Complement(cr, top) \in Seq(Ranged) /\ Within(Complement(cr, top), 0, top)
           /\ Apart(Complement(cr, top), Len(Complement(cr, top)))
           /\ \A p \in Int : In(p, Complement(cr, top)) <=> (p \in 0 .. top /\ ~In(p, cr))
<1> DEFINE n == Len(cr)
           none == [ranges |-> << >>, cmin |-> 0]
           Fits(f) == f = [k \in 0 .. n |-> IF k = 0 THEN none ELSE Skipped(f[k-1], cr[k])]
           gaps == CHOOSE f : Fits(f)
           last == gaps[n]
           rest == [start |-> last.cmin, end |-> top]
           all == IF last.cmin <= top THEN Append(last.ranges, rest) ELSE last.ranges
<1>1. n \in Nat /\ top \in Int
  OBVIOUS
<1>2. Complement(cr, top) = all
  BY DEF Complement
<1> HIDE DEF n, all
<1>3. \E f : Fits(f)
  <2> DEFINE S == [ranges : Seq(Ranged), cmin : Int]
             step == [w \in (1 .. n) \X S |-> Skipped(w[2], cr[w[1]])]
  <2>1. ASSUME NEW x \in S, NEW k \in 1 .. n PROVE Skipped(x, cr[k]) \in S
    <3>1. cr[k].start \in Int /\ cr[k].end \in Int
      BY RangedAt DEF n
    <3>2. x.ranges \in Seq(Ranged) /\ x.cmin \in Int
      OBVIOUS
    <3>3. [start |-> x.cmin, end |-> cr[k].start - 1] \in Ranged
      BY <3>1, <3>2 DEF Ranged
    <3>4. Append(x.ranges, [start |-> x.cmin, end |-> cr[k].start - 1]) \in Seq(Ranged)
      BY <3>2, <3>3
    <3>5. cr[k].end + 1 \in Int
      BY <3>1
    <3> QED BY <3>2, <3>4, <3>5 DEF Skipped
  <2>2. step \in [(1 .. n) \X S -> S] /\ none \in S
    BY <2>1
  <2>3. \A k \in 1 .. n, x \in S : step[<< k, x >>] = Skipped(x, cr[k])
    OBVIOUS
  <2> HIDE DEF step, S, none
  <2>4. PICK f \in [0 .. n -> S] : IsLoop(f, n, none, step)
    BY <1>1, <2>2, LoopExists
  <2>5. ASSUME NEW k \in 1 .. n PROVE f[k] = Skipped(f[k-1], cr[k])
    <3>1. k - 1 \in 0 .. n
      BY <1>1
    <3>2. f[k-1] \in S
      BY <3>1
    <3> QED BY <2>3, <2>4, <3>2 DEF IsLoop
  <2>6. \A k \in 0 .. n : f[k] = IF k = 0 THEN none ELSE Skipped(f[k-1], cr[k])
    <3> TAKE k \in 0 .. n
    <3>1. CASE k = 0
      BY <2>4, <3>1 DEF IsLoop
    <3>2. CASE k # 0
      <4>1. k \in 1 .. n
        BY <1>1, <3>2
      <4> QED BY <2>5, <3>2, <4>1
    <3> QED BY <3>1, <3>2
  <2>7. f = [k \in 0 .. n |-> IF k = 0 THEN none ELSE Skipped(f[k-1], cr[k])]
    BY <2>6
  <2> QED BY <2>7
<1>4. Fits(gaps)
  BY <1>3
<1> HIDE DEF gaps
<1>5. 0 \in 0 .. n /\ n \in 0 .. n /\ \A k \in 0 .. n - 1 :
        k \in 0 .. n /\ k + 1 \in 0 .. n /\ k + 1 # 0 /\ (k + 1) - 1 = k /\ k + 1 \in 1 .. n
  BY <1>1
<1>6. gaps[0] = none /\ \A k \in 0 .. n - 1 : gaps[k+1] = Skipped(gaps[k], cr[k+1])
  <2>1. \A k \in 0 .. n : gaps[k] = IF k = 0 THEN none ELSE Skipped(gaps[k-1], cr[k])
    BY <1>4
  <2> QED BY <1>5, <2>1
<1> HIDE DEF Fits
<1> DEFINE T == {k \in 0 .. n : Skips(gaps[k], cr, k, top)}
<1>7. 0 \in T
  <2>1. none.ranges = << >> /\ none.cmin = 0
    OBVIOUS
  <2>2. PICK low \in Int : low = 0
    OBVIOUS
  <2>3. Partial(<< >>, cr, 0, low, low)
    BY PartialStart
  <2>4. Within(<< >>, 0, top)
    BY DEF Within
  <2> HIDE DEF none
  <2>5. Skips(none, cr, 0, top)
    BY <2>1, <2>2, <2>3, <2>4 DEF Skips
  <2> QED BY <1>5, <1>6, <2>5
<1>8. ASSUME NEW k \in 0 .. n - 1, k \in T PROVE k + 1 \in T
  BY <1>1, <1>5, <1>6, <1>8, SkippedNext DEF n
<1> HIDE DEF T
<1>9. n \in T
  BY <1>1, <1>5, <1>7, <1>8, BoundedInduction
<1>10. Skips(last, cr, n, top)
  BY <1>9 DEF T
<1> HIDE DEF last
<1>11. last.ranges \in Seq(Ranged) /\ Within(last.ranges, 0, top) /\ last.cmin \in Nat
  BY <1>10 DEF Skips, Partial
<1>12. all \in Seq(Ranged) /\ Within(all, 0, top)
  <2>1. CASE last.cmin <= top
    <3>1. rest \in Ranged /\ 0 <= rest.start /\ rest.start <= rest.end /\ rest.end <= top
      BY <1>1, <1>11, <2>1 DEF Ranged
    <3> HIDE DEF rest
    <3>2. Within(Append(last.ranges, rest), 0, top)
      BY <1>1, <1>11, <3>1, WithinAppend
    <3> QED BY <1>11, <2>1, <3>1, <3>2 DEF all
  <2>2. CASE ~(last.cmin <= top)
    BY <1>11, <2>2 DEF all
  <2> QED BY <2>1, <2>2
<1>13. Canonical(all) /\ \A p \in Int : In(p, all) <=> (p \in 0 .. top /\ ~In(p, cr))
  <2>1. PICK low \in Int : low = 0
    OBVIOUS
  <2>2. CASE cr = << >>
    <3>1. n = 0 /\ Partial(last.ranges, cr, 0, low, last.cmin)
      BY <1>10, <2>1, <2>2 DEF Skips, n
    <3>2. last.cmin = 0 /\ Len(last.ranges) = 0
      BY <2>1, <3>1 DEF Partial
    <3>3. last.ranges = << >>
      BY <1>11, <3>2
    <3>4. all = Append(<< >>, rest) /\ rest.start = 0 /\ rest.end = top
      BY <3>2, <3>3 DEF all
    <3> HIDE DEF rest
    <3>5. Len(all) = 1 /\ all[1] = rest
      BY <3>4
    <3>6. \A p \in Int : In(p, all) <=> p \in 0 .. top
      BY <1>1, <3>4, <3>5 DEF In, InPart
    <3>7. \A p \in Int : ~In(p, cr)
      BY <2>2 DEF In, InPart
    <3> QED BY <3>5, <3>6, <3>7 DEF Canonical
  <2>3. CASE cr # << >>
    <3>1. Partial(last.ranges, cr, Len(cr), low, last.cmin) /\ Within(cr, low, top)
      BY <1>10, <2>1 DEF Skips, n
    <3>2. /\ \A p \in Int : In(p, all) <=> (p \in low .. top /\ ~In(p, cr))
          /\ Canonical(all)
      BY <1>1, <2>3, <3>1, PartialRest DEF all
    <3> QED BY <2>1, <3>2
  <2> QED BY <2>2, <2>3
<1>14. Apart(all, Len(all))
  BY <1>1, <1>12, <1>13, CanonicalApart
<1> QED BY <1>2, <1>12, <1>13, <1>14

-----------------------------------------------------------------------------
(* The same about the sets of code points                                  *)

LEMMA PointsAre ==
    ASSUME NEW cr \in Seq(Ranged), NEW p
    PROVE  p \in Points(cr) <=> p \in Int /\ In(p, cr)
<1>1. \A k \in 1 .. Len(cr) : cr[k].start \in Int /\ cr[k].end \in Int
  BY RangedAt
<1>2. p \in Points(cr) <=> \E k \in 1 .. Len(cr) : p \in cr[k].start .. cr[k].end
  BY DEF Points
<1>3. ASSUME NEW k \in 1 .. Len(cr)
      PROVE  p \in cr[k].start .. cr[k].end <=> p \in Int /\ cr[k].start <= p /\ p <= cr[k].end
  BY <1>1
<1> QED BY <1>2, <1>3 DEF In, InPart

LEMMA NormalizedPoints ==
    ASSUME NEW cr \in Seq(Ranged), NEW top \in Int, Within(cr, 0, top)
    PROVE  Points(Normalized(cr)) = Points(cr)
<1> DEFINE new == Normalized(cr)
<1>1. new \in Seq(Ranged) /\ \A p \in Int : In(p, new) <=> In(p, cr)
  BY NormalizedFacts
<1> HIDE DEF new
<1>2. \A p : p \in Points(new) <=> p \in Points(cr)
  BY <1>1, PointsAre
<1>3. Points(new) = Points(cr)
  BY <1>2
<1> QED BY <1>3 DEF new

LEMMA ComplementPoints ==
    ASSUME NEW cr \in Seq(Ranged), NEW top \in Nat, Within(cr, 0, top), Apart(cr, Len(cr))
    PROVE  Points(Complement(cr, top)) = (0 .. top) \ Points(cr)
<1> DEFINE new == Complement(cr, top)
<1>1. new \in Seq(Ranged) /\ \A p \in Int : In(p, new) <=> (p \in 0 .. top /\ ~In(p, cr))
  BY ComplementFacts
<1> HIDE DEF new
<1>2. \A p : p \in Points(new) <=> p \in (0 .. top) \ Points(cr)
  <2> TAKE p
  <2>1. p \in Points(new) <=> p \in Int /\ In(p, new)
    BY <1>1, PointsAre
  <2>2. p \in Points(cr) <=> p \in Int /\ In(p, cr)
    BY PointsAre
  <2> QED BY <1>1, <2>1, <2>2
<1>3. Points(new) = (0 .. top) \ Points(cr)
  BY <1>2
<1> QED BY <1>3 DEF new

LEMMA NoPoints ==
    ASSUME NEW cr \in Seq(Ranged), NEW top \in Int, Within(cr, 0, top)
    PROVE  Points(cr) = {} <=> cr = << >>
<1>1. CASE cr = << >>
  BY <1>1 DEF Points
<1>2. CASE cr # << >>
  <2>1. 1 \in 1 .. Len(cr)
    BY <1>2
  <2>2. cr[1].start \in Int /\ cr[1].end \in Int /\ cr[1].start <= cr[1].end
    BY <2>1, RangedAt DEF Within
  <2>3. cr[1].start \in Points(cr)
    BY <2>1, <2>2 DEF Points
  <2> QED BY <1>2, <2>3
<1> QED BY <1>1, <1>2
=============================================================================
